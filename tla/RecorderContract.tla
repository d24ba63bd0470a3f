-------------------------- MODULE RecorderContract --------------------------
(***************************************************************************)
(* What ShellScreenRecorder promises the service that drives it: at most   *)
(* one file is recorded at a time, the listener is told of each recording  *)
(* in the order start, stop and never ahead of the fact, and whatever has  *)
(* happened it is told in the end, unless the app dies first.  There is no *)
(* shell, no thread, no message queue and no native process in it.         *)
(***************************************************************************)
EXTENDS Naturals

CONSTANT File      \* the file names given to start()

VARIABLES
  phase,           \* what has become of each file
  told             \* what the listener has been told of it
vars == <<phase, told>>

Phase == {"new", "recording", "over", "lost"}
Told == {"nothing", "start", "stop"}

TypeOK == phase \in [File -> Phase] /\ told \in [File -> Told]

Init ==
  /\ phase = [f \in File |-> "new"]
  /\ told = [f \in File |-> "nothing"]

\* start() returns true
Begin(f) ==
  /\ phase[f] = "new"
  /\ \A g \in File : phase[g] # "recording"
  /\ phase' = [phase EXCEPT ![f] = "recording"]
  /\ UNCHANGED told

\* the recorder has returned
Finish(f) ==
  /\ phase[f] = "recording"
  /\ phase' = [phase EXCEPT ![f] = "over"]
  /\ UNCHANGED told

TellStart(f) ==
  /\ phase[f] \in {"recording", "over"}
  /\ told[f] = "nothing"
  /\ told' = [told EXCEPT ![f] = "start"]
  /\ UNCHANGED phase

TellStop(f) ==
  /\ phase[f] = "over"
  /\ told[f] = "start"
  /\ told' = [told EXCEPT ![f] = "stop"]
  /\ UNCHANGED phase

\* the app dies: nobody will be told of what it was doing
Die ==
  /\ phase' = [f \in File |-> IF phase[f] = "new" THEN "new" ELSE "lost"]
  /\ told' = [f \in File |-> "nothing"]

Next ==
  \/ \E f \in File : Begin(f) \/ Finish(f) \/ TellStart(f) \/ TellStop(f)
  \/ Die

Spec ==
  /\ Init /\ [][Next]_vars
  /\ \A f \in File : WF_vars(TellStart(f)) /\ WF_vars(TellStop(f))
=============================================================================
