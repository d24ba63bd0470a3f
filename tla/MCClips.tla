------------------------------ MODULE MCClips ------------------------------
(* Clips for TLC.                                                          *)
EXTENDS Clips, TLC

\* activities, adapters and cursors are interchangeable
Symmetry == Permutations(Activity) \cup Permutations(Adapter) \cup Permutations(Cursor)
=============================================================================
