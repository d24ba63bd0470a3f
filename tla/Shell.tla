------------------------------- MODULE Shell -------------------------------
(***************************************************************************)
(* utils/Shell.java: one call of execCommandAsSu(), or of                  *)
(* requestRootPermission(), whose command is "exit".  The process writes   *)
(* to two pipes of bounded capacity and blocks on a full one; the app      *)
(* reads them only after waitFor().  Output is counted in lines.           *)
(***************************************************************************)
EXTENDS Integers

CONSTANTS
  PipeCapacity,    \* what a pipe holds
  MaxOutput        \* bound on the output of a command on each stream

ASSUME ShellAssumption == PipeCapacity \in Nat \ {0} /\ MaxOutput \in Nat

Stream == {"out", "err"}

VARIABLES
  pc,              \* the caller
  refused,         \* does su refuse?
  output,          \* what the process will write to each stream
  process,         \* "none", "running" or "exited"
  exit,            \* its exit code
  received,        \* has su been sent the command and the end of its input?
  pipe,            \* lines in each pipe
  msg,             \* lines appended to successMsg and errorMsg
  result           \* Result.result; -1 until waitFor() returns

vars == <<pc, refused, output, process, exit, received, pipe, msg, result>>

TypeOK ==
  /\ pc \in {"exec", "write", "waitFor", "readOut", "readErr", "returned"}
  /\ refused \in BOOLEAN /\ received \in BOOLEAN
  /\ output \in [Stream -> 0 .. MaxOutput]
  /\ process \in {"none", "running", "exited"}
  /\ exit \in 0 .. 1 /\ result \in -1 .. 1
  /\ pipe \in [Stream -> 0 .. PipeCapacity]
  /\ msg \in [Stream -> 0 .. MaxOutput]
  /\ \A s \in Stream : pipe[s] + msg[s] <= output[s]

Init ==
  /\ pc = "exec" /\ process = "none" /\ exit = 0 /\ received = FALSE
  /\ refused \in BOOLEAN
  /\ output \in [Stream -> 0 .. MaxOutput]
  /\ pipe = [s \in Stream |-> 0] /\ msg = [s \in Stream |-> 0]
  /\ result = -1
-----------------------------------------------------------------------------
(* The caller                                                              *)

\* Runtime.exec("su"), which throws if there is no su
Exec ==
  /\ pc = "exec"
  /\ \/ pc' = "write" /\ process' = "running"
     \/ pc' = "returned" /\ UNCHANGED process
  /\ UNCHANGED <<refused, output, exit, received, pipe, msg, result>>

\* the command and "exit"; an IOException if su is gone
WriteCommand ==
  /\ pc = "write"
  /\ \/ process = "running" /\ pc' = "waitFor" /\ received' = TRUE
     \/ process = "exited" /\ pc' = "returned" /\ UNCHANGED received
  /\ UNCHANGED <<refused, output, process, exit, pipe, msg, result>>

WaitFor ==
  /\ pc = "waitFor" /\ process = "exited"
  /\ pc' = "readOut" /\ result' = exit
  /\ UNCHANGED <<refused, output, process, exit, received, pipe, msg>>

\* Mutant: one line is read
AtEndAfterOne(s) == msg[s] = 1 \/ pipe[s] = 0

\* readLine() returns null: nothing is left, and waitFor() has seen the exit
AtEnd(s) == pipe[s] = 0

\* reading does not fail: what is read is in the pipe of a process that has
\* ended; an IOException here would return the exit code without the output
ReadLine(from, s, to) ==
  /\ pc = from
  /\ \/ /\ ~AtEnd(s)
        /\ pipe' = [pipe EXCEPT ![s] = @ - 1]
        /\ msg' = [msg EXCEPT ![s] = @ + 1]
        /\ UNCHANGED pc
     \/ /\ AtEnd(s)
        /\ pc' = to
        /\ UNCHANGED <<pipe, msg>>
  /\ UNCHANGED <<refused, output, process, exit, received, result>>
-----------------------------------------------------------------------------
(* The process                                                             *)

\* Mutant: a write blocks too early
RoomForLess(s) == pipe[s] < PipeCapacity - 1

Room(s) == pipe[s] < PipeCapacity

Write(s) ==
  /\ process = "running" /\ (received \/ refused)
  /\ pipe[s] + msg[s] < output[s] /\ Room(s)
  /\ pipe' = [pipe EXCEPT ![s] = @ + 1]
  /\ UNCHANGED <<pc, refused, output, process, exit, received, msg, result>>

\* a refused su may end before it is sent the command
ProcessExits ==
  /\ process = "running" /\ (received \/ refused)
  /\ \A s \in Stream : pipe[s] + msg[s] = output[s]
  /\ process' = "exited"
  /\ exit' \in IF refused THEN {1} ELSE {0, 1}
  /\ UNCHANGED <<pc, refused, output, received, pipe, msg, result>>

Caller ==
  \/ Exec \/ WriteCommand \/ WaitFor
  \/ ReadLine("readOut", "out", "readErr") \/ ReadLine("readErr", "err", "returned")

Process == ProcessExits \/ \E s \in Stream : Write(s)

Next == Caller \/ Process

Spec == Init /\ [][Next]_vars
-----------------------------------------------------------------------------
(* Safety.                                                                 *)

\* A Result with an exit code has all of the output of a command that was
\* received, never half of it.
ResultIsComplete == pc = "returned" /\ result # -1 => received /\ msg = output

-----------------------------------------------------------------------------
(* Liveness.                                                               *)

\* A call returns if the output of its command fits in the pipes.
ReturnsIfItFits == (\A s \in Stream : output[s] <= PipeCapacity) ~> pc = "returned"
=============================================================================
