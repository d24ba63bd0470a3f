--------------------------- MODULE NativeRecorder ---------------------------
(***************************************************************************)
(* One native recorder, as ShellScreenRecorder relies on it: once it is    *)
(* stopping it ends, and until then it may do what NativeLife allows.      *)
(***************************************************************************)
EXTENDS NativeLife

VARIABLE life

TypeOK == life \in Running \cup {"gone"}

Init == life = "starting"

Proceeds == life' \in ByItself(life)
Signalled == life \in Running /\ life' \in AfterSignal(life)

Spec ==
  /\ Init /\ [][Proceeds \/ Signalled]_life
  /\ WF_life(life = "stopping" /\ Proceeds)
=============================================================================
