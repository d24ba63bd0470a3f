------------------------ MODULE MCShellScreenRecorder ------------------------
(* ShellScreenRecorder for TLC.                                            *)
EXTENDS ShellScreenRecorder, TLC

\* the threads of one kind are interchangeable
Symmetry == Permutations(InitThread) \cup Permutations(RecorderThread)
=============================================================================
