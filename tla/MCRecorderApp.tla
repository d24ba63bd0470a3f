---------------------------- MODULE MCRecorderApp ----------------------------
(* RecorderApp for TLC.                                                    *)
EXTENDS RecorderApp, TLC

\* the threads of one kind are interchangeable
Symmetry == Permutations(InitThread) \cup Permutations(RecorderThread)
=============================================================================
