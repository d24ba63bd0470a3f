------------------------ MODULE ShellScreenRecorder ------------------------
(***************************************************************************)
(* core/ShellScreenRecorder.java: the singleton that installs the native   *)
(* recorder, runs it as root and reports its life to one StateListener.    *)
(*                                                                         *)
(* Processes: the main thread (API calls and the Looper that dispatches    *)
(* the Handler's messages), one InitThread per init() that found the       *)
(* recorder uninitialized, one RecorderThread per successful start(), and  *)
(* the native recorder each RecorderThread waits for.  Calls that change   *)
(* nothing (init() once initialized, start() while recording, stop() that  *)
(* finds no process) are stuttering steps and have no action.              *)
(*                                                                         *)
(* Every start() is given a file name of its own, so the name is           *)
(* identified with the RecorderThread that records into it.                *)
(***************************************************************************)
EXTENDS Naturals, Sequences, FiniteSets, NativeLife

CONSTANTS
  InitThread,      \* InitThreads that can be created (bounds calls of init())
  RecorderThread,  \* RecorderThreads that can be created (bounds recordings)
  NULL,            \* Java's null
  AbiSupported,    \* is Build.CPU_ABI or CPU_ABI2 in SUPPORT_ABI_TYPES?
  MaxCrashes       \* bound on deaths of the app process

ASSUME ConstantsAssumption ==
  /\ InitThread \cap RecorderThread = {}
  /\ NULL \notin RecorderThread
  /\ AbiSupported \in BOOLEAN
  /\ MaxCrashes \in Nat

VARIABLES
  sState,          \* Constants.State, guarded by sStateLock
  sStateListener,  \* is a listener set?
  sFileName,       \* file of the last successful start()
  initPc,          \* where each InitThread is in run()
  recPc,           \* where each RecorderThread is in run()
  outbox,          \* the message updateState() still has to send, per thread
  looper,          \* messages of sHandler in the main thread's queue
  pidToKill,       \* stop() has run ps and is about to kill; NULL outside stop()
  binary,          \* the recorder binary in the app's data directory
  executable,      \* has chmod 777 succeeded on it?
  native,          \* the native process each RecorderThread started
  heard,           \* history: messages dispatched to the listener, in order
  overlapped,      \* history: init() ran while an InitThread was still busy
  crashes          \* how often the app process has died

appVars == <<sState, sStateListener, sFileName, initPc, recPc, outbox, looper,
             pidToKill, heard, overlapped>>
vars == <<appVars, binary, executable, native, crashes>>

Thread == InitThread \cup RecorderThread
State == {"UNINITIALIZED", "FREE", "RECORDING", "FAILED_TO_INIT"}
ErrorId == {"NOT_ROOTED", "ABI_NOT_SUPPORTED"}
What == {"ON_INITIALIZED", "ON_START_RECORDER", "ON_STOP_RECORDER", "ON_FAILED_TO_INIT"}
Message == [what : What, arg : RecorderThread \cup {NULL} \cup ErrorId]

\* InitThread.run() up to the point where it sets sState
InitBusy == {"root", "exists", "create", "copy", "chmod"}
\* "cut" is an InitThread that died with its copy unfinished
InitPc == InitBusy \cup {"new", "post", "done", "dead", "cut"}
\* RecorderThread.run() up to the point where it sets sState
RecBusy == {"exec", "wait"}
RecPc == RecBusy \cup {"new", "post", "done", "dead"}

TypeOK ==
  /\ sState \in State
  /\ sStateListener \in BOOLEAN
  /\ sFileName \in RecorderThread \cup {NULL}
  /\ initPc \in [InitThread -> InitPc]
  /\ recPc \in [RecorderThread -> RecPc]
  /\ outbox \in [Thread -> Seq(Message)]
  /\ looper \in Seq(Message)
  /\ pidToKill \in RecorderThread \cup {NULL}
  /\ binary \in {"absent", "partial", "complete"}
  /\ executable \in BOOLEAN
  /\ native \in [RecorderThread -> Running \cup {"none", "gone"}]
  /\ heard \in Seq(Message)
  /\ overlapped \in BOOLEAN
  /\ crashes \in 0 .. MaxCrashes

Initialized == sState \notin {"UNINITIALIZED", "FAILED_TO_INIT"}
MainThreadFree == pidToKill = NULL
BusyInits == {t \in InitThread : initPc[t] \in InitBusy}
BusyRecorders == {r \in RecorderThread : recPc[r] \in RecBusy}
Processes == {r \in RecorderThread : native[r] \in Running}

Init ==
  /\ sState = "UNINITIALIZED"
  /\ sStateListener = FALSE
  /\ sFileName = NULL
  /\ initPc = [t \in InitThread |-> "new"]
  /\ recPc = [r \in RecorderThread |-> "new"]
  /\ outbox = [t \in Thread |-> << >>]
  /\ looper = << >>
  /\ pidToKill = NULL
  /\ binary = "absent"
  /\ executable = FALSE
  /\ native = [r \in RecorderThread |-> "none"]
  /\ heard = << >>
  /\ overlapped = FALSE
  /\ crashes = 0
-----------------------------------------------------------------------------
(***************************************************************************)
(* updateState(): the new state is stored under sStateLock, the message    *)
(* chosen by the old and the new state is sent after the lock is released. *)
(* A worker thread can be overtaken between the two halves.                *)
(***************************************************************************)

\* Mutant: the old state is read after the new one is stored
AnnouncementOfNew(old, new, obj) ==
  IF new = "FAILED_TO_INIT" THEN <<[what |-> "ON_FAILED_TO_INIT", arg |-> obj]>> ELSE << >>

\* what updateState() sends for a change from old to new; nothing for a
\* pair the code does not list
Announcement(old, new, obj) ==
  CASE old = "UNINITIALIZED" /\ new = "FREE" -> <<[what |-> "ON_INITIALIZED", arg |-> NULL]>>
    [] old = "FREE" /\ new = "RECORDING" -> <<[what |-> "ON_START_RECORDER", arg |-> obj]>>
    [] old = "RECORDING" /\ new = "FREE" -> <<[what |-> "ON_STOP_RECORDER", arg |-> obj]>>
    [] new = "FAILED_TO_INIT" -> <<[what |-> "ON_FAILED_TO_INIT", arg |-> obj]>>
    [] OTHER -> << >>

\* Mutant: the arguments of updateState() are swapped
SetStateSwapped(thread, new, obj) ==
  /\ sState' = obj
  /\ outbox' = [outbox EXCEPT ![thread] = Announcement(sState, obj, new)]

\* Mutant: updateState() returns when the state stays the same
SetStateIfChanged(thread, new, obj) ==
  /\ sState' = new
  /\ outbox' = [outbox EXCEPT ![thread] =
                  IF sState = new THEN << >> ELSE Announcement(sState, new, obj)]

\* first half, run by a worker thread
SetState(thread, new, obj) ==
  /\ sState' = new
  /\ outbox' = [outbox EXCEPT ![thread] = Announcement(sState, new, obj)]

\* Mutant: sendMessageAtFrontOfQueue()
SendMessageAtFront(thread) ==
  /\ looper' = outbox[thread] \o looper
  /\ outbox' = [outbox EXCEPT ![thread] = << >>]

\* second half, run by a worker thread
SendMessage(thread) ==
  /\ looper' = looper \o outbox[thread]
  /\ outbox' = [outbox EXCEPT ![thread] = << >>]
-----------------------------------------------------------------------------
(* The main thread: API calls, made by RecorderService, and dispatch.      *)

\* RecorderService.onCreate(), before any command is handled
SetsStateListener ==
  /\ ~sStateListener
  /\ sStateListener' = TRUE
  /\ UNCHANGED <<sState, sFileName, initPc, recPc, outbox, looper, pidToKill,
                 binary, executable, native, heard, overlapped, crashes>>

StartsInitThread == MainThreadFree /\ sStateListener /\ ~Initialized

\* init() that finds the recorder uninitialized and starts an InitThread
InitCall(t) ==
  /\ StartsInitThread
  /\ initPc[t] = "new"
  /\ initPc' = [initPc EXCEPT ![t] = "root"]
  /\ overlapped' = (overlapped \/ BusyInits # {})
  /\ UNCHANGED <<sState, sStateListener, sFileName, recPc, outbox, looper, pidToKill,
                 binary, executable, native, heard, crashes>>

\* Mutants: start() does not refuse while recording; stop() runs on a
\* thread of its own, so that start() need not wait for it
CanStartTwice == MainThreadFree /\ Initialized
CanStartDuringStop == sState = "FREE"

CanStart == MainThreadFree /\ sState = "FREE"

\* start() that finds the recorder free: the lock is held throughout, so
\* this caller's message is sent before any other start() can run
Start(r) ==
  /\ CanStart
  /\ recPc[r] = "new"
  /\ sState' = "RECORDING"
  /\ looper' = looper \o Announcement(sState, "RECORDING", r)
  /\ recPc' = [recPc EXCEPT ![r] = "exec"]
  /\ sFileName' = r
  /\ UNCHANGED <<sStateListener, initPc, outbox, pidToKill, binary, executable,
                 native, heard, overlapped, crashes>>

\* stop(), up to getRecorderPid(): the first process of the ps list whose
\* name is the recorder's; pids wrap around, so any of them may be first
StopFindPid(r) ==
  /\ MainThreadFree
  /\ sState = "RECORDING"
  /\ r \in Processes
  /\ pidToKill' = r
  /\ UNCHANGED <<sState, sStateListener, sFileName, initPc, recPc, outbox, looper,
                 binary, executable, native, heard, overlapped, crashes>>

\* the rest of stop(): kill -2 through su, which may refuse
StopKill ==
  /\ ~MainThreadFree
  /\ \E life \in AfterSignal(native[pidToKill]) \cup {native[pidToKill]} :
       native' = [native EXCEPT ![pidToKill] = life]
  /\ pidToKill' = NULL
  /\ UNCHANGED <<sState, sStateListener, sFileName, initPc, recPc, outbox, looper,
                 binary, executable, heard, overlapped, crashes>>

\* sMessageDispatcher.handleMessage()
HandleMessage ==
  /\ MainThreadFree
  /\ looper # << >>
  /\ looper' = Tail(looper)
  /\ heard' = IF sStateListener THEN Append(heard, Head(looper)) ELSE heard
  /\ UNCHANGED <<sState, sStateListener, sFileName, initPc, recPc, outbox, pidToKill,
                 binary, executable, native, overlapped, crashes>>
-----------------------------------------------------------------------------
(* InitThread.run()                                                        *)

InitStep(t, from, to) ==
  /\ initPc[t] = from
  /\ initPc' = [initPc EXCEPT ![t] = to]
  /\ UNCHANGED <<sStateListener, sFileName, recPc, pidToKill, native, heard,
                 overlapped, crashes>>

\* a supported ABI and su granted
InitRooted(t) ==
  /\ AbiSupported
  /\ InitStep(t, "root", "exists")
  /\ UNCHANGED <<sState, outbox, looper, binary, executable>>

\* no supported ABI, or su refused
InitFails(t) ==
  /\ InitStep(t, "root", "post")
  /\ SetState(t, "FAILED_TO_INIT", IF AbiSupported THEN "NOT_ROOTED" ELSE "ABI_NOT_SUPPORTED")
  /\ UNCHANGED <<looper, binary, executable>>

\* the two File.exists() tests, in run() and in AssetsHelper.cloneFile();
\* the later one decides and nobody ever deletes the file
InitChecksBinary(t) ==
  /\ InitStep(t, "exists", IF binary = "absent" THEN "create" ELSE "chmod")
  /\ UNCHANGED <<sState, outbox, looper, binary, executable>>

\* cloneFile(): createNewFile(), then FileOutputStream truncates the file
InitCreatesBinary(t) ==
  /\ InitStep(t, "create", "copy")
  /\ binary' = "partial"
  /\ UNCHANGED <<sState, outbox, looper, executable>>

\* Mutant: the copy ends at the first short read
CopiedShort(t) == "partial"

\* while another thread is copying over a file it truncated, the result
\* still has a hole
Copied(t) == IF \E u \in InitThread \ {t} : initPc[u] = "copy" THEN "partial" ELSE "complete"

\* cloneFile(): the asset has been copied
InitCopiesBinary(t) ==
  /\ InitStep(t, "copy", "chmod")
  /\ binary' = Copied(t)
  /\ UNCHANGED <<sState, outbox, looper, executable>>

\* chmod 777 through su, whose result is ignored, and updateState(FREE)
InitSucceeds(t) ==
  /\ InitStep(t, "chmod", "post")
  /\ executable' \in {executable, TRUE}
  /\ SetState(t, "FREE", NULL)
  /\ UNCHANGED <<looper, binary>>

InitSends(t) ==
  /\ InitStep(t, "post", "done")
  /\ SendMessage(t)
  /\ UNCHANGED <<sState, binary, executable>>

InitRun(t) ==
  \/ InitRooted(t) \/ InitFails(t) \/ InitChecksBinary(t) \/ InitCreatesBinary(t)
  \/ InitCopiesBinary(t) \/ InitSucceeds(t) \/ InitSends(t)
-----------------------------------------------------------------------------
(* RecorderThread.run() and the native recorder it runs through su         *)

RecStep(r, from, to) ==
  /\ recPc[r] = from
  /\ recPc' = [recPc EXCEPT ![r] = to]
  /\ UNCHANGED <<sStateListener, sFileName, initPc, pidToKill, binary, executable,
                 heard, overlapped, crashes>>

\* Shell.execCommandAsSu(): su may refuse, and an incomplete or
\* non-executable binary does not start
RecExecutes(r) ==
  /\ RecStep(r, "exec", "wait")
  /\ \/ /\ binary = "complete" /\ executable
        /\ native' = [native EXCEPT ![r] = "starting"]
     \/ native' = [native EXCEPT ![r] = "gone"]
  /\ UNCHANGED <<sState, outbox, looper>>

\* Mutant: nobody waits for the process
ExitedOrNot(r) == native[r] # "none"

\* Process.waitFor()
Exited(r) == native[r] = "gone"

\* su has returned: updateState(FREE)
RecReturns(r) ==
  /\ RecStep(r, "wait", "post")
  /\ Exited(r)
  /\ SetState(r, "FREE", r)
  /\ UNCHANGED <<looper, native>>

RecSends(r) ==
  /\ RecStep(r, "post", "done")
  /\ SendMessage(r)
  /\ UNCHANGED <<sState, native>>

RecRun(r) == RecExecutes(r) \/ RecReturns(r) \/ RecSends(r)

NativeProceeds(r) ==
  /\ \E life \in ByItself(native[r]) : native' = [native EXCEPT ![r] = life]
  /\ UNCHANGED <<appVars, binary, executable, crashes>>

-----------------------------------------------------------------------------
(* The app process is killed, or an IOException in cloneFile() kills it as *)
(* an uncaught RuntimeException.  Files and native processes survive.      *)
AfterDeath(at) ==
  CASE at = "new" -> "new"
    [] at \in {"copy", "cut"} -> "cut"
    [] OTHER -> "dead"

Crash ==
  /\ crashes < MaxCrashes
  /\ crashes' = crashes + 1
  /\ sState' = "UNINITIALIZED"
  /\ sStateListener' = FALSE
  /\ sFileName' = NULL
  /\ initPc' = [t \in InitThread |-> AfterDeath(initPc[t])]
  /\ recPc' = [r \in RecorderThread |-> IF recPc[r] = "new" THEN "new" ELSE "dead"]
  /\ outbox' = [t \in Thread |-> << >>]
  /\ looper' = << >>
  /\ pidToKill' = NULL
  /\ heard' = << >>
  /\ overlapped' = FALSE
  /\ UNCHANGED <<binary, executable, native>>

Next ==
  \/ SetsStateListener
  \/ \E t \in InitThread : InitCall(t) \/ InitRun(t)
  \/ \E r \in RecorderThread : Start(r) \/ StopFindPid(r) \/ RecRun(r)
  \/ \E r \in RecorderThread : NativeProceeds(r)
  \/ StopKill
  \/ HandleMessage
  \/ Crash

Spec == Init /\ [][Next]_vars

(***************************************************************************)
(* Threads are scheduled; su answers; a recorder told to stop stops.  The  *)
(* Looper is a FIFO queue that also carries the commands of the service,   *)
(* so a message cannot be overtaken for ever by calls of stop(): strong    *)
(* fairness.  A recorder that nobody stops may encode for ever: the time   *)
(* limit is a day.                                                         *)
(***************************************************************************)
Fairness ==
  /\ \A t \in InitThread : WF_vars(InitRun(t))
  /\ \A r \in RecorderThread : WF_vars(RecRun(r)) /\ WF_vars(native[r] = "stopping" /\ NativeProceeds(r))
  /\ WF_vars(StopKill)
  /\ SF_vars(HandleMessage)

\* The callers that wait for an InitThread to end before they call init() again
SerialNext == Next /\ ~overlapped'
SerialSpec == Init /\ [][SerialNext]_vars /\ Fairness
-----------------------------------------------------------------------------
(* What the listener has heard, and what is still on its way to it.        *)

Quiet == looper = << >> /\ \A t \in Thread : outbox[t] = << >>
Hears(what) == \E i \in DOMAIN heard : heard[i].what = what
HeardFiles(what) == {r \in RecorderThread : \E i \in DOMAIN heard : heard[i] = [what |-> what, arg |-> r]}

-----------------------------------------------------------------------------
(* Safety.  overlapped is the one way the caller can break them: init()    *)
(* does not notice that an InitThread is already busy.                     *)

\* sState is RECORDING exactly while a RecorderThread has a recording to
\* finish, it is one thread, and getFileName() names its file.
StateTellsRecording ==
  ~overlapped => BusyRecorders = IF sState = "RECORDING" THEN {sFileName} ELSE {}

\* A busy InitThread finds the recorder still uninitialized when it stores
\* its result, and it is alone: it never overwrites RECORDING.
InitIsAlone ==
  ~overlapped => /\ \A t, u \in BusyInits : t = u
                 /\ BusyInits # {} => ~Initialized

\* Every native recorder has a RecorderThread that waits for it, or had one
\* that died with an earlier life of the app.
ProcessesWaitedFor == \A r \in Processes : recPc[r] \in {"wait", "dead"}

\* A native recorder is that of the recording in progress or has survived
\* an earlier life of the app: no recording of this life is fought over by
\* two recorders, and none outlives its RECORDING.
ProcessesBelong ==
  ~overlapped => \A r \in Processes :
    (sState = "RECORDING" /\ r = sFileName) \/ recPc[r] = "dead"

\* Between ps and kill, stop() holds the main thread: the recording whose
\* pid it found is still the last one started, so a pid cannot be signalled
\* on behalf of a later recording.  What it may hit instead is a survivor.
StopHitsCurrent ==
  ~overlapped /\ pidToKill # NULL => pidToKill = sFileName \/ recPc[pidToKill] = "dead"

\* Whoever sees the recorder initialized finds the whole binary installed,
\* unless the app has died while copying it: a file that exists is never
\* copied again.
CopyCutShort == \E t \in InitThread : initPc[t] = "cut"
BinaryInstalled ==
  ~overlapped /\ ~CopyCutShort /\ Initialized => binary = "complete"

\* A partial binary is one that a thread is still copying or that a death
\* has left, and no thread goes on to chmod one that is being copied.
CopyInProgress ==
  /\ binary = "partial" => \E t \in InitThread : initPc[t] \in {"copy", "cut"}
  /\ ~overlapped /\ ~CopyCutShort =>
       \A t \in InitThread : initPc[t] = "chmod" => binary = "complete"

\* These parts are inductive together, and ProcessesBelong follows.
IInv ==
  /\ StateTellsRecording /\ InitIsAlone /\ ProcessesWaitedFor
  /\ StopHitsCurrent /\ BinaryInstalled /\ CopyInProgress

\* Once no message is under way, the recordings the listener believes to be
\* in progress are those that are, although updateState() sends outside the
\* lock and a new recording's start may be heard before the old one's stop.
HeardMatchesState ==
  ~overlapped /\ Quiet =>
    HeardFiles("ON_START_RECORDER") \ HeardFiles("ON_STOP_RECORDER") = BusyRecorders

\* What ShellScreenRecorderTest.setUp() counts on when init() has returned
\* false: a recorder that becomes initialized calls onInitialized().
InitializedIsAnnounced == Quiet /\ Initialized => Hears("ON_INITIALIZED")

-----------------------------------------------------------------------------
(* Liveness.                                                               *)

\* the calls of init() in this life that have started an InitThread, and the
\* answers to them that the listener has heard
Asked == {t \in InitThread : initPc[t] \notin {"new", "dead", "cut"}}
AnswersHeard ==
  {i \in DOMAIN heard : heard[i].what \in {"ON_INITIALIZED", "ON_FAILED_TO_INIT"}}

\* Every init() is answered, each by a message of its own: some time after
\* the call the listener has heard as many answers as there were calls, or
\* the app has died, or a call has succeeded after one that failed, which
\* updateState() does not announce (InitializedIsAnnounced).
InitIsAnswered ==
  \A t \in InitThread :
    initPc[t] = "root" ~> \/ Cardinality(AnswersHeard) = Cardinality(Asked)
                          \/ initPc[t] \in {"dead", "cut"}
                          \/ Initialized /\ Hears("ON_FAILED_TO_INIT")

\* Once the native recorder has taken the stop request, the listener hears
\* that the recording stopped, or the app dies, or init() overlapped itself.
StopIsHeard ==
  \A r \in RecorderThread :
    native[r] = "stopping" ~> \/ r \in HeardFiles("ON_STOP_RECORDER")
                              \/ recPc[r] = "dead" \/ overlapped

-----------------------------------------------------------------------------
(* Refinement.                                                             *)

phaseOf(r) ==
  CASE recPc[r] = "new" -> "new"
    [] recPc[r] \in RecBusy -> "recording"
    [] recPc[r] \in {"post", "done"} -> "over"
    [] recPc[r] = "dead" -> "lost"

toldOf(r) ==
  IF r \in HeardFiles("ON_STOP_RECORDER") THEN "stop"
  ELSE IF r \in HeardFiles("ON_START_RECORDER") THEN "start"
  ELSE "nothing"

Contract == INSTANCE RecorderContract WITH
  File <- RecorderThread,
  phase <- [r \in RecorderThread |-> phaseOf(r)],
  told <- [r \in RecorderThread |-> toldOf(r)]

\* To callers that do not overlap calls of init(), the threads, the message
\* queue and the native process implement the contract of the recorder.
KeepsContract == Contract!Spec
=============================================================================
