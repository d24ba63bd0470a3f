----------------------------- MODULE NativeLife -----------------------------
(***************************************************************************)
(* The life of the native recorder as the app sees it through its pid and  *)
(* the end of its process: it starts up, it encodes, it finishes the file, *)
(* it is gone.  Shared by the Java side, which starts and signals such     *)
(* processes, and by the specification of one process, NativeRecorder.     *)
(***************************************************************************)

Running == {"starting", "encoding", "stopping"}

\* What a process may do by itself: enter the encoder loop, leave it to
\* finish the file, or end, after the work or because it failed.
ByItself(life) ==
  CASE life = "starting" -> {"encoding", "gone"}
    [] life = "encoding" -> {"stopping", "gone"}
    [] life = "stopping" -> {"gone"}
    [] OTHER -> {}

\* What SIGINT does to it.  Until its handler is installed it dies.  Between
\* that and the loop the stop request is raised and then cleared, and is
\* lost.  In the loop the request is noticed.  The handler serves once: the
\* next signal kills, at whatever stage it comes.
AfterSignal(life) ==
  CASE life = "starting" -> {"starting", "gone"}
    [] life = "encoding" -> {"stopping", "gone"}
    [] life = "stopping" -> {"stopping", "gone"}
    [] OTHER -> {life}
=============================================================================
