---------------------------- MODULE RecorderPid ----------------------------
(***************************************************************************)
(* ShellScreenRecorder.getRecorderPid(): a call of execCommandAsSu("ps"),  *)
(* and the pid of the native recorder in its output, whose lines have been *)
(* joined without a separator.  A word is a column of a line; a token of   *)
(* split("\\s+") is a sequence of words that nothing separates.            *)
(*                                                                         *)
(* ps is external: its header has eight columns, its lines one more, the   *)
(* state, and a pid is on one line only.  A pid is identified with the     *)
(* number of its line.                                                     *)
(***************************************************************************)
EXTENDS Shell, Sequences

CONSTANTS
  PATH,            \* FULL_PATH_OF_RECORD_COMMAND
  OtherNames,      \* names of other processes, not starting with PATH
  MaxLines         \* bound on the processes listed

VARIABLES
  names,           \* the processes that ps lists, by name
  successMsg       \* the StringBuilder's text, in tokens

NotFound == -1
Header == <<"USER", "PID", "PPID", "VSIZE", "RSS", "WCHAN", "PC", "NAME">>
Columns == {"user", "ppid", "vsize", "rss", "wchan", "pc", "state"}

\* no column but the last holds the path
ASSUME PsAssumption ==
  /\ PATH \notin OtherNames \cup Columns \cup {Header[i] : i \in DOMAIN Header} /\ PATH \notin Nat
  /\ MaxLines \in Nat /\ MaxLines < MaxOutput

\* user, pid, parent, sizes, wait channel, program counter, state and name
LineOf(pid) == <<"user", pid, "ppid", "vsize", "rss", "wchan", "pc", "state", names[pid]>>

Lines == <<Header>> \o [pid \in DOMAIN names |-> LineOf(pid)]

Tokens(line) == [i \in DOMAIN line |-> <<line[i]>>]

\* a line joined to the text before it: two words become one token
Joined(text, line) ==
  IF text = << >> THEN Tokens(line)
  ELSE [text EXCEPT ![Len(text)] = Append(@, Head(line))] \o Tail(Tokens(line))

\* append() of the line of ps that has been read, if one has; what su prints
\* when it refuses is left out
Appends ==
  successMsg' = IF refused \/ msg'["out"] = msg["out"] THEN successMsg
                ELSE Joined(successMsg, Lines[msg'["out"]])

\* null if the call has failed
succeedMsg == IF result = -1 THEN << >> ELSE successMsg

\* from the name back to the pid
Distance == 7

\* Mutant: the last match is used
LastMatch(tokens) ==
  {i \in DOMAIN tokens : Head(tokens[i]) = PATH
                         /\ \A j \in DOMAIN tokens : Head(tokens[j]) = PATH => j <= i}

\* the first token that starts with the path
FirstMatch(tokens) ==
  {i \in DOMAIN tokens : Head(tokens[i]) = PATH
                         /\ \A j \in 1 .. i - 1 : Head(tokens[j]) # PATH}

\* -1 if there is none, or if Integer.valueOf() or the index throws
getRecorderPid ==
  LET pids == {pid \in DOMAIN names : \E i \in FirstMatch(succeedMsg) :
                 i - Distance \in DOMAIN succeedMsg /\ succeedMsg[i - Distance] = <<pid>>}
  IN  IF pids = {} THEN NotFound ELSE CHOOSE pid \in pids : TRUE

PidInit ==
  /\ Init
  /\ successMsg = << >>
  /\ names \in UNION {[1 .. n -> {PATH} \cup OtherNames] : n \in 0 .. MaxLines}
  /\ ~refused => output["out"] = Len(Lines)

PidNext == Next /\ Appends /\ UNCHANGED names

\* The scheduler runs caller and process; ps, unless it is blocked, ends.
PidSpec ==
  /\ PidInit /\ [][PidNext]_<<vars, names, successMsg>>
  /\ WF_vars(Caller) /\ WF_vars(Process)
-----------------------------------------------------------------------------
\* stop() signals a native recorder if ps lists one, and nothing else: the
\* pid is that of the first recorder listed, however the lines are joined,
\* and none if su refuses or is not there.
FindsRecorder ==
  pc = "returned" =>
    LET recorders == {pid \in DOMAIN names : received /\ ~refused /\ names[pid] = PATH}
    IN  IF recorders = {} THEN getRecorderPid = NotFound
        ELSE getRecorderPid \in recorders /\ \A pid \in recorders : getRecorderPid <= pid
=============================================================================
