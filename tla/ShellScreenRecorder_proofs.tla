--------------------- MODULE ShellScreenRecorder_proofs ---------------------
(***************************************************************************)
(* Safety of ShellScreenRecorder for any number of calls of init() and     *)
(* start() and any number of deaths of the app.                            *)
(***************************************************************************)
EXTENDS ShellScreenRecorder, TLAPS

\* updateState() sends a sequence of messages, whatever the two states are.
LEMMA AnnouncementType ==
  ASSUME NEW old, NEW new, NEW obj \in RecorderThread \cup {NULL} \cup ErrorId
  PROVE  Announcement(old, new, obj) \in Seq(Message)
<1> DEFINE m(what, arg) == [what |-> what, arg |-> arg]
<1>1. /\ m("ON_INITIALIZED", NULL) \in Message
      /\ \A what \in What : m(what, obj) \in Message
  BY DEF Message, What
<1>2. /\ <<m("ON_INITIALIZED", NULL)>> \in Seq(Message)
      /\ <<m("ON_START_RECORDER", obj)>> \in Seq(Message)
      /\ <<m("ON_STOP_RECORDER", obj)>> \in Seq(Message)
      /\ <<m("ON_FAILED_TO_INIT", obj)>> \in Seq(Message)
  BY <1>1 DEF What
<1> QED
  BY <1>2 DEF Announcement

\* Both halves of updateState() keep the types of what they change.
LEMMA SetStateType ==
  ASSUME TypeOK, NEW thread \in Thread, NEW new \in State,
         NEW obj \in RecorderThread \cup {NULL} \cup ErrorId,
         SetState(thread, new, obj)
  PROVE  sState' \in State /\ outbox' \in [Thread -> Seq(Message)]
<1>1. Announcement(sState, new, obj) \in Seq(Message)
  BY AnnouncementType
<1> QED
  BY <1>1 DEF TypeOK, SetState

LEMMA SendMessageType ==
  ASSUME TypeOK, NEW thread \in Thread, SendMessage(thread)
  PROVE  looper' \in Seq(Message) /\ outbox' \in [Thread -> Seq(Message)]
<1>1. outbox[thread] \in Seq(Message) /\ looper \in Seq(Message)
  BY DEF TypeOK
<1>2. looper \o outbox[thread] \in Seq(Message)
  BY <1>1
<1>3. [outbox EXCEPT ![thread] = << >>] \in [Thread -> Seq(Message)]
  BY DEF TypeOK
<1> QED
  BY <1>2, <1>3 DEF SendMessage

\* Every step of the recorder keeps every variable in its type.
LEMMA TypeStep ==
  ASSUME TypeOK, [Next]_vars
  PROVE  TypeOK'
<1> USE ConstantsAssumption
<1>1. CASE SetsStateListener
  BY <1>1 DEF SetsStateListener, TypeOK
<1>2. ASSUME NEW t \in InitThread, InitCall(t) PROVE TypeOK'
  BY <1>2 DEF InitCall, StartsInitThread, TypeOK, InitPc, InitBusy
<1>3. ASSUME NEW t \in InitThread, InitRun(t) PROVE TypeOK'
  <2>0. t \in Thread /\ NULL \in RecorderThread \cup {NULL} \cup ErrorId
    BY DEF Thread
  <2>1. CASE InitRooted(t)
    BY <2>1 DEF InitRooted, InitStep, TypeOK, InitPc, InitBusy
  <2>2. CASE InitFails(t)
    <3>1. sState' \in State /\ outbox' \in [Thread -> Seq(Message)]
      BY <2>0, <2>2, SetStateType DEF InitFails, State, ErrorId
    <3> QED
      BY <2>2, <3>1 DEF InitFails, InitStep, TypeOK, InitPc
  <2>3. CASE InitChecksBinary(t)
    BY <2>3 DEF InitChecksBinary, InitStep, TypeOK, InitPc, InitBusy
  <2>4. CASE InitCreatesBinary(t)
    BY <2>4 DEF InitCreatesBinary, InitStep, TypeOK, InitPc, InitBusy
  <2>5. CASE InitCopiesBinary(t)
    BY <2>5 DEF InitCopiesBinary, Copied, InitStep, TypeOK, InitPc, InitBusy
  <2>6. CASE InitSucceeds(t)
    <3>1. sState' \in State /\ outbox' \in [Thread -> Seq(Message)]
      BY <2>0, <2>6, SetStateType DEF InitSucceeds, State
    <3> QED
      BY <2>6, <3>1 DEF InitSucceeds, InitStep, TypeOK, InitPc
  <2>7. CASE InitSends(t)
    <3>1. looper' \in Seq(Message) /\ outbox' \in [Thread -> Seq(Message)]
      BY <2>0, <2>7, SendMessageType DEF InitSends
    <3> QED
      BY <2>7, <3>1 DEF InitSends, InitStep, TypeOK, InitPc
  <2> QED
    BY <1>3, <2>1, <2>2, <2>3, <2>4, <2>5, <2>6, <2>7 DEF InitRun
<1>4. ASSUME NEW r \in RecorderThread, Start(r) PROVE TypeOK'
  <2>1. Announcement(sState, "RECORDING", r) \in Seq(Message)
    BY AnnouncementType
  <2>2. looper' \in Seq(Message)
    BY <1>4, <2>1 DEF Start, CanStart, TypeOK
  <2> QED
    BY <1>4, <2>2 DEF Start, CanStart, TypeOK, State, RecPc, RecBusy
<1>5. ASSUME NEW r \in RecorderThread, StopFindPid(r) PROVE TypeOK'
  BY <1>5 DEF StopFindPid, TypeOK
<1>6. ASSUME NEW r \in RecorderThread, RecRun(r) PROVE TypeOK'
  <2>0. r \in Thread /\ r \in RecorderThread \cup {NULL} \cup ErrorId
    BY DEF Thread
  <2>1. CASE RecExecutes(r)
    BY <2>1 DEF RecExecutes, RecStep, TypeOK, RecPc, RecBusy, Running
  <2>2. CASE RecReturns(r)
    <3>1. sState' \in State /\ outbox' \in [Thread -> Seq(Message)]
      BY <2>0, <2>2, SetStateType DEF RecReturns, State
    <3> QED
      BY <2>2, <3>1 DEF RecReturns, RecStep, TypeOK, RecPc
  <2>3. CASE RecSends(r)
    <3>1. looper' \in Seq(Message) /\ outbox' \in [Thread -> Seq(Message)]
      BY <2>0, <2>3, SendMessageType DEF RecSends
    <3> QED
      BY <2>3, <3>1 DEF RecSends, RecStep, TypeOK, RecPc
  <2> QED
    BY <1>6, <2>1, <2>2, <2>3 DEF RecRun
<1>7. ASSUME NEW r \in RecorderThread, NativeProceeds(r) PROVE TypeOK'
  <2>1. ByItself(native[r]) \subseteq Running \cup {"gone"}
    BY DEF ByItself, Running
  <2> QED
    BY <1>7, <2>1 DEF NativeProceeds, appVars, TypeOK
<1>8. CASE StopKill
  <2>1. AfterSignal(native[pidToKill]) \cup {native[pidToKill]} \subseteq Running \cup {"none", "gone"}
    BY <1>8 DEF StopKill, MainThreadFree, TypeOK, AfterSignal, Running
  <2> QED
    BY <1>8, <2>1 DEF StopKill, MainThreadFree, TypeOK
<1>9. CASE HandleMessage
  <2>1. looper \in Seq(Message) /\ looper # << >> /\ heard \in Seq(Message)
    BY <1>9 DEF HandleMessage, TypeOK
  <2>2. Tail(looper) \in Seq(Message) /\ Head(looper) \in Message
    BY <2>1
  <2>3. Append(heard, Head(looper)) \in Seq(Message)
    BY <2>1, <2>2
  <2> QED
    BY <1>9, <2>2, <2>3 DEF HandleMessage, TypeOK
<1>10. CASE Crash
  <2>1. outbox' \in [Thread -> Seq(Message)] /\ looper' \in Seq(Message)
        /\ heard' \in Seq(Message)
    BY <1>10 DEF Crash
  <2>2. crashes' \in 0 .. MaxCrashes
    BY <1>10 DEF Crash, TypeOK
  <2>3. \A t \in InitThread : AfterDeath(initPc[t]) \in InitPc
    BY DEF AfterDeath, InitPc
  <2> QED
    BY <1>10, <2>1, <2>2, <2>3 DEF Crash, TypeOK, State, RecPc
<1>11. CASE UNCHANGED vars
  BY <1>11 DEF vars, appVars, TypeOK
<1> QED
  BY <1>1, <1>2, <1>3, <1>4, <1>5, <1>6, <1>7, <1>8, <1>9, <1>10, <1>11 DEF Next

\* The recorder starts with every variable in its type.
LEMMA InitType == Init => TypeOK
<1> SUFFICES ASSUME Init PROVE TypeOK
  OBVIOUS
<1>1. initPc \in [InitThread -> InitPc] /\ recPc \in [RecorderThread -> RecPc]
  BY DEF Init, InitPc, RecPc
<1>2. outbox \in [Thread -> Seq(Message)] /\ looper \in Seq(Message) /\ heard \in Seq(Message)
  BY DEF Init
<1>3. crashes \in 0 .. MaxCrashes
  BY ConstantsAssumption DEF Init
<1> QED
  BY <1>1, <1>2, <1>3 DEF Init, TypeOK, State

\* Type correctness of the recorder, whatever the bounds are.
THEOREM TypeCorrect == Spec => []TypeOK
  BY InitType, TypeStep, PTL DEF Spec
-----------------------------------------------------------------------------
(***************************************************************************)
(* Why the state tells the truth.  A RecorderThread starts only from FREE  *)
(* and only a busy InitThread could overwrite RECORDING; while calls of    *)
(* init() do not overlap there is at most one of those, and it finds the   *)
(* recorder uninitialized, hence not recording.                            *)
(***************************************************************************)

\* Every step of an InitThread keeps the invariant.
LEMMA InitRunKeeps ==
  ASSUME TypeOK, IInv, NEW t \in InitThread, InitRun(t)
  PROVE  IInv'
<1> USE DEF InitStep, TypeOK
<1>0. t \in BusyInits \/ initPc[t] = "post"
  BY DEF InitRun, InitRooted, InitFails, InitChecksBinary, InitCreatesBinary,
         InitCopiesBinary, InitSucceeds, InitSends, BusyInits, InitBusy
<1>1. BusyInits' \subseteq BusyInits
  BY DEF InitRun, InitRooted, InitFails, InitChecksBinary, InitCreatesBinary,
         InitCopiesBinary, InitSucceeds, InitSends, BusyInits, InitBusy
<1>2. UNCHANGED <<sFileName, recPc, pidToKill, native, overlapped, crashes>>
  BY DEF InitRun, InitRooted, InitFails, InitChecksBinary, InitCreatesBinary,
         InitCopiesBinary, InitSucceeds, InitSends
<1>3. ProcessesWaitedFor' /\ StopHitsCurrent'
  BY <1>2 DEF IInv, ProcessesWaitedFor, StopHitsCurrent, Processes
<1>9. CopyCutShort' <=> CopyCutShort
  BY DEF InitRun, InitRooted, InitFails, InitChecksBinary, InitCreatesBinary,
         InitCopiesBinary, InitSucceeds, InitSends, CopyCutShort
<1>4. CASE InitRooted(t)
  BY <1>1, <1>2, <1>3, <1>9, <1>4 DEF InitRooted, IInv, StateTellsRecording, InitIsAlone,
     BinaryInstalled, CopyInProgress, BusyRecorders, Initialized
<1>5. CASE InitFails(t) \/ InitSucceeds(t)
  <2>1. ~overlapped => BusyInits = {t} /\ sState # "RECORDING" /\ BusyRecorders = {}
    BY <1>0, <1>5 DEF InitFails, InitSucceeds, IInv, InitIsAlone, StateTellsRecording, Initialized
  <2>2. t \notin BusyInits'
    BY <1>5 DEF InitFails, InitSucceeds, BusyInits, InitBusy
  <2>3. ~overlapped => BusyInits' = {} /\ sState' # "RECORDING" /\ BusyRecorders' = {}
    BY <1>1, <1>2, <1>5, <2>1, <2>2 DEF InitFails, InitSucceeds, SetState, BusyRecorders
  <2>4. StateTellsRecording' /\ InitIsAlone'
    BY <1>2, <2>3 DEF StateTellsRecording, InitIsAlone
  <2>5. CopyInProgress'
    BY <1>2, <1>5, <1>9 DEF InitFails, InitSucceeds, IInv, CopyInProgress
  <2>6. BinaryInstalled'
    BY <1>2, <1>5, <1>9 DEF InitFails, InitSucceeds, SetState, IInv, CopyInProgress,
       BinaryInstalled, Initialized
  <2> QED
    BY <1>3, <2>4, <2>5, <2>6 DEF IInv
<1>6. CASE InitChecksBinary(t)
  <2>1. ~overlapped => \A u \in InitThread : initPc[u] # "copy"
    BY <1>0, <1>6 DEF InitChecksBinary, IInv, InitIsAlone, BusyInits, InitBusy
  <2>2. ~overlapped /\ ~CopyCutShort => binary # "partial"
    BY <2>1 DEF IInv, CopyInProgress, CopyCutShort
  <2>3. CopyInProgress'
    BY <1>2, <1>6, <1>9, <2>2 DEF InitChecksBinary, IInv, CopyInProgress
  <2> QED
    BY <1>1, <1>2, <1>3, <1>6, <1>9, <2>3 DEF InitChecksBinary, IInv, StateTellsRecording,
       InitIsAlone, BinaryInstalled, BusyRecorders, Initialized
<1>7. CASE InitCreatesBinary(t) \/ InitCopiesBinary(t)
  <2>1. ~overlapped => BusyInits = {t} /\ ~Initialized
    BY <1>0, <1>7 DEF InitCreatesBinary, InitCopiesBinary, IInv, InitIsAlone
  <2>2. ~overlapped => \A u \in InitThread \ {t} : initPc[u] \notin {"copy", "chmod"}
    BY <2>1 DEF BusyInits, InitBusy
  <2>3. StateTellsRecording' /\ InitIsAlone' /\ BinaryInstalled'
    BY <1>1, <1>2, <1>7, <2>1 DEF InitCreatesBinary, InitCopiesBinary, IInv,
       StateTellsRecording, InitIsAlone, BinaryInstalled, BusyRecorders, Initialized
  <2>4. CopyInProgress'
    BY <1>2, <1>7, <1>9, <2>2 DEF IInv, InitCreatesBinary, InitCopiesBinary, Copied, CopyInProgress
  <2> QED
    BY <1>3, <2>3, <2>4 DEF IInv
<1>8. CASE InitSends(t)
  BY <1>1, <1>2, <1>3, <1>8, <1>9 DEF InitSends, IInv, StateTellsRecording, InitIsAlone,
     BinaryInstalled, CopyInProgress, BusyRecorders, Initialized
<1> QED
  BY <1>4, <1>5, <1>6, <1>7, <1>8 DEF InitRun

\* Every step of a RecorderThread keeps the invariant.
LEMMA RecRunKeeps ==
  ASSUME TypeOK, IInv, NEW r \in RecorderThread, RecRun(r)
  PROVE  IInv'
<1> USE DEF RecStep, TypeOK
<1>1. UNCHANGED <<sFileName, initPc, pidToKill, binary, overlapped, crashes>>
  BY DEF RecRun, RecExecutes, RecReturns, RecSends
<1>2. StopHitsCurrent' /\ CopyInProgress' /\ (CopyCutShort' <=> CopyCutShort)
  BY <1>1 DEF RecRun, RecExecutes, RecReturns, RecSends, IInv, StopHitsCurrent,
     CopyInProgress, CopyCutShort
<1>3. CASE RecExecutes(r)
  <2>1. BusyRecorders' = BusyRecorders /\ r \in BusyRecorders
    BY <1>3 DEF RecExecutes, BusyRecorders, RecBusy
  <2>2. Processes' \subseteq Processes \cup {r}
    BY <1>3 DEF RecExecutes, Processes, Running
  <2> QED
    BY <1>1, <1>2, <1>3, <2>1, <2>2 DEF RecExecutes, IInv, StateTellsRecording, InitIsAlone,
       ProcessesWaitedFor, BinaryInstalled, BusyInits, Initialized
<1>4. CASE RecReturns(r)
  <2>1. BusyRecorders' = BusyRecorders \ {r} /\ r \in BusyRecorders
    BY <1>4 DEF RecReturns, BusyRecorders, RecBusy
  <2>2. Processes' = Processes /\ r \notin Processes
    BY <1>4 DEF RecReturns, Exited, Processes, Running
  <2>3. sState' = "FREE"
    BY <1>4 DEF RecReturns, SetState
  <2>4. ~overlapped => sState = "RECORDING" /\ BusyRecorders = {r}
    BY <2>1 DEF IInv, StateTellsRecording
  <2>5. ProcessesWaitedFor'
    BY <1>4, <2>2 DEF RecReturns, IInv, ProcessesWaitedFor
  <2> QED
    BY <1>1, <1>2, <2>1, <2>3, <2>4, <2>5 DEF IInv, StateTellsRecording, InitIsAlone,
       BinaryInstalled, BusyInits, Initialized
<1>5. CASE RecSends(r)
  <2>1. BusyRecorders' = BusyRecorders /\ Processes' = Processes /\ sState' = sState
    BY <1>5 DEF RecSends, BusyRecorders, RecBusy, Processes
  <2>2. ProcessesWaitedFor'
    BY <1>5, <2>1 DEF RecSends, IInv, ProcessesWaitedFor
  <2> QED
    BY <1>1, <1>2, <2>1, <2>2 DEF IInv, StateTellsRecording, InitIsAlone,
       BinaryInstalled, BusyInits, Initialized
<1> QED
  BY <1>3, <1>4, <1>5 DEF RecRun

\* Every step of the main thread keeps the invariant.
LEMMA MainThreadKeeps ==
  ASSUME TypeOK, IInv,
         \/ SetsStateListener \/ StopKill \/ HandleMessage
         \/ \E t \in InitThread : InitCall(t)
         \/ \E r \in RecorderThread : Start(r) \/ StopFindPid(r)
  PROVE  IInv'
<1> USE ConstantsAssumption DEF TypeOK
<1>1. CASE SetsStateListener \/ HandleMessage
  BY <1>1 DEF SetsStateListener, HandleMessage, IInv, StateTellsRecording, InitIsAlone,
     ProcessesWaitedFor, StopHitsCurrent, BinaryInstalled, CopyInProgress, CopyCutShort, BusyInits,
     BusyRecorders, Processes, Initialized
<1>2. CASE StopKill
  <2>1. Processes' \subseteq Processes
    BY <1>2 DEF StopKill, MainThreadFree, Processes, AfterSignal, Running
  <2> QED
    BY <1>2, <2>1 DEF StopKill, IInv, StateTellsRecording, InitIsAlone,
       ProcessesWaitedFor, StopHitsCurrent, BinaryInstalled, CopyInProgress, CopyCutShort, BusyInits,
       BusyRecorders, Initialized
<1>3. ASSUME NEW t \in InitThread, InitCall(t) PROVE IInv'
  <2>1. BusyInits' = BusyInits \cup {t} /\ (~overlapped' => ~overlapped /\ BusyInits = {})
    BY <1>3 DEF InitCall, StartsInitThread, BusyInits, InitBusy
  <2>2. InitIsAlone'
    BY <1>3, <2>1 DEF InitCall, StartsInitThread, InitIsAlone, Initialized
  <2>3. CopyInProgress'
    BY <1>3, <2>1 DEF InitCall, StartsInitThread, IInv, CopyInProgress, CopyCutShort, BusyInits, InitBusy
  <2> QED
    BY <1>3, <2>1, <2>2, <2>3 DEF InitCall, StartsInitThread, IInv, StateTellsRecording, ProcessesWaitedFor,
       StopHitsCurrent, BinaryInstalled, CopyCutShort, BusyRecorders, Processes, Initialized
<1>4. ASSUME NEW r \in RecorderThread, Start(r) PROVE IInv'
  <2>1. /\ BusyRecorders' = BusyRecorders \cup {r} /\ BusyInits' = BusyInits
        /\ Processes' = Processes
    BY <1>4 DEF Start, CanStart, BusyRecorders, RecBusy, BusyInits, Processes
  <2>2. sState = "FREE" /\ sState' = "RECORDING" /\ sFileName' = r
    BY <1>4 DEF Start, CanStart
  <2>3. UNCHANGED <<initPc, pidToKill, binary, overlapped, crashes>> /\ pidToKill = NULL
    BY <1>4 DEF Start, CanStart, MainThreadFree
  <2>4. ~overlapped => BusyRecorders = {} /\ BusyInits = {}
    BY <2>2 DEF IInv, StateTellsRecording, InitIsAlone, Initialized
  <2>5. ProcessesWaitedFor'
    BY <1>4, <2>1 DEF Start, CanStart, IInv, ProcessesWaitedFor
  <2> QED
    BY <2>1, <2>2, <2>3, <2>4, <2>5 DEF IInv, StateTellsRecording, InitIsAlone,
       StopHitsCurrent, BinaryInstalled, CopyInProgress, CopyCutShort, Initialized
<1>5. ASSUME NEW r \in RecorderThread, StopFindPid(r) PROVE IInv'
  <2>1. ~overlapped => r = sFileName \/ recPc[r] = "dead"
    BY <1>5 DEF StopFindPid, IInv, StateTellsRecording, ProcessesWaitedFor, BusyRecorders, RecBusy
  <2>2. StopHitsCurrent'
    BY <1>5, <2>1 DEF StopFindPid, StopHitsCurrent
  <2> QED
    BY <1>5, <2>2 DEF StopFindPid, IInv, StateTellsRecording, InitIsAlone,
       ProcessesWaitedFor, BinaryInstalled, CopyInProgress, CopyCutShort, BusyInits,
       BusyRecorders, Processes, Initialized
<1> QED
  BY <1>1, <1>2, <1>3, <1>4, <1>5

\* Native processes only ever end, so they keep the invariant.
LEMMA NativeKeeps ==
  ASSUME TypeOK, IInv, NEW r \in RecorderThread, NativeProceeds(r)
  PROVE  IInv'
<1>1. Processes' \subseteq Processes
  BY DEF NativeProceeds, ByItself, Processes, Running, TypeOK
<1>2. UNCHANGED <<appVars, binary, executable, crashes>>
  BY DEF NativeProceeds
<1> QED
  BY <1>1, <1>2 DEF appVars, IInv, StateTellsRecording, InitIsAlone, ProcessesWaitedFor,
     StopHitsCurrent, BinaryInstalled, CopyInProgress, CopyCutShort, BusyInits, BusyRecorders, Initialized

\* A new life of the app starts with the invariant, whatever survives.
LEMMA CrashKeeps ==
  ASSUME TypeOK, IInv, Crash
  PROVE  IInv'
<1>1. BusyInits' = {} /\ BusyRecorders' = {} /\ sState' = "UNINITIALIZED"
  BY DEF Crash, AfterDeath, BusyInits, BusyRecorders, InitBusy, RecBusy, TypeOK
<1>2. ProcessesWaitedFor'
  BY DEF Crash, IInv, ProcessesWaitedFor, Processes, TypeOK
<1>3. CopyInProgress'
  <2>1. binary = "partial" => \E t \in InitThread : initPc'[t] \in {"copy", "cut"}
    BY DEF Crash, AfterDeath, IInv, CopyInProgress
  <2>2. \A t \in InitThread : initPc'[t] # "chmod"
    BY DEF Crash, AfterDeath
  <2> QED
    BY <2>1, <2>2 DEF Crash, CopyInProgress
<1> QED
  BY <1>1, <1>2, <1>3, ConstantsAssumption DEF Crash, IInv, StateTellsRecording, InitIsAlone,
     StopHitsCurrent, BinaryInstalled, Initialized

\* The inductive invariant of the recorder.
THEOREM Inductive == Spec => [](TypeOK /\ IInv)
<1>1. Init => TypeOK /\ IInv
  <2>1. Init => TypeOK
    BY InitType
  <2>2. Init => BusyInits = {} /\ BusyRecorders = {} /\ Processes = {}
    BY DEF Init, BusyInits, BusyRecorders, Processes, InitBusy, RecBusy, Running
  <2>3. Init => IInv
    BY <2>2 DEF Init, IInv, StateTellsRecording, InitIsAlone, ProcessesWaitedFor,
       StopHitsCurrent, BinaryInstalled, CopyInProgress, Initialized
  <2> QED
    BY <2>1, <2>3
<1>2. TypeOK /\ IInv /\ [Next]_vars => TypeOK' /\ IInv'
  <2> SUFFICES ASSUME TypeOK, IInv, [Next]_vars PROVE TypeOK' /\ IInv'
    OBVIOUS
  <2>1. TypeOK'
    BY TypeStep
  <2>2. CASE UNCHANGED vars
    BY <2>1, <2>2 DEF vars, appVars, IInv, StateTellsRecording, InitIsAlone, ProcessesWaitedFor,
       StopHitsCurrent, BinaryInstalled, CopyInProgress, CopyCutShort, BusyInits, BusyRecorders,
       Processes, Initialized
  <2>3. CASE Next
    BY <2>1, <2>3, InitRunKeeps, RecRunKeeps, MainThreadKeeps, NativeKeeps, CrashKeeps DEF Next
  <2> QED
    BY <2>2, <2>3
<1> QED
  BY <1>1, <1>2, PTL DEF Spec

\* isRecording() is true exactly while the one RecorderThread there is has a
\* recording to finish, as long as calls of init() do not overlap.
THEOREM StateIsTrue == Spec => []StateTellsRecording
<1>1. IInv => StateTellsRecording
  BY DEF IInv
<1> QED
  BY <1>1, Inductive, PTL

\* No recording of this life of the app is driven by two native recorders,
\* and none outlives its RECORDING.
THEOREM ProcessesAreTrue == Spec => []ProcessesBelong
<1>1. TypeOK /\ IInv => ProcessesBelong
  BY DEF TypeOK, IInv, ProcessesBelong, ProcessesWaitedFor, StateTellsRecording,
     BusyRecorders, RecBusy, Processes
<1> QED
  BY <1>1, Inductive, PTL

\* stop() never signals on behalf of a later recording than the one it
\* looked up.
THEOREM StopIsAimed == Spec => []StopHitsCurrent
<1>1. IInv => StopHitsCurrent
  BY DEF IInv
<1> QED
  BY <1>1, Inductive, PTL

\* An initialized recorder has its whole binary.
THEOREM BinaryIsInstalled == Spec => []BinaryInstalled
<1>1. IInv => BinaryInstalled
  BY DEF IInv
<1> QED
  BY <1>1, Inductive, PTL
-----------------------------------------------------------------------------
(***************************************************************************)
(* What the listener hears.  A message about a recording is in the outbox  *)
(* of its RecorderThread, in the Looper's queue, or heard.  Where the      *)
(* RecorderThread is in run() tells which messages there are, and in the   *)
(* queue a recording's start is never behind its stop.                     *)
(***************************************************************************)

StartOf(r) == [what |-> "ON_START_RECORDER", arg |-> r]
StopOf(r) == [what |-> "ON_STOP_RECORDER", arg |-> r]
Has(queue, message) == \E i \in DOMAIN queue : queue[i] = message

\* Until RecorderService has set its listener nothing runs and nothing is
\* sent, so no message is dispatched to nobody.
ListenerFirst ==
  ~sStateListener =>
    /\ sState = "UNINITIALIZED" /\ looper = << >>
    /\ \A t \in InitThread : initPc[t] \in {"new", "done", "dead", "cut"}
    /\ \A r \in RecorderThread : recPc[r] \in {"new", "done", "dead"}

\* An InitThread has nothing to say about recordings; a RecorderThread that
\* has returned and not yet sent holds the stop of its own.
OutboxesTell ==
  ~overlapped =>
    /\ \A t \in InitThread, r \in RecorderThread :
         ~Has(outbox[t], StartOf(r)) /\ ~Has(outbox[t], StopOf(r))
    /\ \A r \in RecorderThread :
         outbox[r] = IF recPc[r] = "post" THEN <<StopOf(r)>> ELSE << >>

\* The start of a recording has been sent once it has been started, its stop
\* once its thread is done.
StartsSent ==
  ~overlapped => \A r \in RecorderThread :
    recPc[r] \in RecBusy \cup {"post", "done"} <=> Has(heard, StartOf(r)) \/ Has(looper, StartOf(r))
StopsSent ==
  ~overlapped => \A r \in RecorderThread :
    recPc[r] = "done" <=> Has(heard, StopOf(r)) \/ Has(looper, StopOf(r))

\* A stop in the queue has its start heard or ahead of it.
StartBeforeStop ==
  ~overlapped => \A r \in RecorderThread : \A i \in DOMAIN looper :
    looper[i] = StopOf(r) => Has(heard, StartOf(r)) \/ \E j \in 1 .. i - 1 : looper[j] = StartOf(r)

\* These parts are inductive together with IInv.
DInv == ListenerFirst /\ OutboxesTell /\ StartsSent /\ StopsSent /\ StartBeforeStop

\* Messages of a concatenation, of an extended queue, and of a queue seen
\* from its head.
LEMMA HasConcat ==
  ASSUME NEW p \in Seq(Message), NEW q \in Seq(Message), NEW m
  PROVE  Has(p \o q, m) <=> Has(p, m) \/ Has(q, m)
<1>1. /\ p \o q \in Seq(Message)
      /\ Len(p \o q) = Len(p) + Len(q)
      /\ \A i \in 1 .. Len(p) : (p \o q)[i] = p[i]
      /\ \A i \in 1 .. Len(q) : (p \o q)[Len(p) + i] = q[i]
  OBVIOUS
<1>2. ASSUME Has(p, m) \/ Has(q, m) PROVE Has(p \o q, m)
  <2>1. CASE Has(p, m)
    BY <1>1, <2>1 DEF Has
  <2>2. CASE Has(q, m)
    <3>1. PICK i \in 1 .. Len(q) : q[i] = m
      BY <2>2 DEF Has
    <3>2. Len(p) + i \in 1 .. Len(p \o q) /\ (p \o q)[Len(p) + i] = m
      BY <1>1, <3>1
    <3> QED
      BY <1>1, <3>2 DEF Has
  <2> QED
    BY <1>2, <2>1, <2>2
<1>3. ASSUME Has(p \o q, m) PROVE Has(p, m) \/ Has(q, m)
  <2>1. PICK i \in 1 .. Len(p) + Len(q) : (p \o q)[i] = m
    BY <1>1, <1>3 DEF Has
  <2>2. CASE i <= Len(p)
    BY <1>1, <2>1, <2>2 DEF Has
  <2>3. CASE i > Len(p)
    <3>1. i - Len(p) \in 1 .. Len(q) /\ q[i - Len(p)] = m
      BY <1>1, <2>1, <2>3
    <3> QED
      BY <3>1 DEF Has
  <2> QED
    BY <2>2, <2>3
<1> QED
  BY <1>2, <1>3

LEMMA HasOne ==
  ASSUME NEW m, NEW n
  PROVE  (Has(<<m>>, n) <=> n = m) /\ ~Has(<< >>, n)
  BY DEF Has

LEMMA HasLast ==
  ASSUME NEW q \in Seq(Message), NEW m \in Message, NEW n
  PROVE  Has(q \o <<m>>, n) <=> Has(q, n) \/ n = m
<1>1. <<m>> \in Seq(Message)
  OBVIOUS
<1>2. Has(q \o <<m>>, n) <=> Has(q, n) \/ Has(<<m>>, n)
  BY <1>1, HasConcat
<1>3. Has(<<m>>, n) <=> n = m
  BY HasOne
<1> QED
  BY <1>2, <1>3

LEMMA HasHead ==
  ASSUME NEW q \in Seq(Message), q # << >>, NEW m
  PROVE  Has(q, m) <=> m = Head(q) \/ Has(Tail(q), m)
<1>1. /\ Len(Tail(q)) = Len(q) - 1 /\ Len(q) \in Nat \ {0} /\ Tail(q) \in Seq(Message)
      /\ DOMAIN Tail(q) = 1 .. Len(Tail(q))
      /\ \A i \in 1 .. Len(q) - 1 : Tail(q)[i] = q[i + 1]
      /\ Head(q) = q[1]
  OBVIOUS
<1>2. ASSUME Has(q, m) PROVE m = Head(q) \/ Has(Tail(q), m)
  <2>1. PICK i \in 1 .. Len(q) : q[i] = m
    BY <1>2 DEF Has
  <2>2. CASE i > 1
    <3>1. i - 1 \in 1 .. Len(Tail(q)) /\ Tail(q)[i - 1] = m
      BY <1>1, <2>1, <2>2
    <3> QED
      BY <1>1, <3>1 DEF Has
  <2> QED
    BY <1>1, <2>1, <2>2
<1>3. ASSUME m = Head(q) \/ Has(Tail(q), m) PROVE Has(q, m)
  <2>1. CASE m = Head(q)
    BY <1>1, <2>1 DEF Has
  <2>2. CASE Has(Tail(q), m)
    <3>1. PICK i \in 1 .. Len(q) - 1 : Tail(q)[i] = m
      BY <1>1, <2>2 DEF Has
    <3>2. i + 1 \in 1 .. Len(q) /\ q[i + 1] = m
      BY <1>1, <3>1
    <3> QED
      BY <3>2 DEF Has
  <2> QED
    BY <1>3, <2>1, <2>2
<1> QED
  BY <1>2, <1>3

\* A queue that is extended keeps starts ahead of stops if what it gains
\* holds no stop but of recordings whose start has been sent.
LEMMA OrderKept ==
  ASSUME NEW q \in Seq(Message), looper \in Seq(Message), looper' = looper \o q,
         UNCHANGED <<heard, overlapped>>, StartBeforeStop,
         ~overlapped => \A r \in RecorderThread :
           Has(q, StopOf(r)) => Has(heard, StartOf(r)) \/ Has(looper, StartOf(r))
  PROVE  StartBeforeStop'
<1> SUFFICES ASSUME ~overlapped, NEW r \in RecorderThread, NEW i \in DOMAIN looper',
                    looper'[i] = StopOf(r), ~Has(heard, StartOf(r))
             PROVE  \E j \in 1 .. i - 1 : looper'[j] = StartOf(r)
  BY DEF StartBeforeStop
<1>1. /\ looper' \in Seq(Message) /\ DOMAIN looper = 1 .. Len(looper)
      /\ Len(looper') = Len(looper) + Len(q)
      /\ \A j \in 1 .. Len(looper) : looper'[j] = looper[j]
      /\ \A j \in 1 .. Len(q) : looper'[Len(looper) + j] = q[j]
  OBVIOUS
<1>2. CASE i <= Len(looper)
  <2>1. i \in DOMAIN looper /\ looper[i] = StopOf(r)
    BY <1>1, <1>2
  <2>2. PICK j \in 1 .. i - 1 : looper[j] = StartOf(r)
    BY <2>1 DEF StartBeforeStop
  <2> QED
    BY <1>1, <1>2, <2>1, <2>2
<1>3. CASE i > Len(looper)
  <2>1. i - Len(looper) \in 1 .. Len(q) /\ q[i - Len(looper)] = StopOf(r)
    BY <1>1, <1>3
  <2>2. Has(q, StopOf(r))
    BY <2>1 DEF Has
  <2>3. PICK j \in 1 .. Len(looper) : looper[j] = StartOf(r)
    BY <1>1, <2>2 DEF Has
  <2> QED
    BY <1>1, <1>3, <2>3
<1> QED
  BY <1>1, <1>2, <1>3

\* The messages about recordings tell their kind and their file.
LEMMA MessagesDiffer ==
  ASSUME NEW r \in RecorderThread
  PROVE  /\ StartOf(r) \in Message /\ StopOf(r) \in Message
         /\ \A s \in RecorderThread : StartOf(r) # StopOf(s)
         /\ \A s \in RecorderThread : StartOf(r) = StartOf(s) <=> r = s
         /\ \A s \in RecorderThread : StopOf(r) = StopOf(s) <=> r = s
  BY DEF StartOf, StopOf, Message, What

\* Every step of an InitThread keeps what is known of the messages: it says
\* nothing about a recording, because it stores its result while none is
\* in progress.
LEMMA InitRunDelivers ==
  ASSUME TypeOK, IInv, DInv, NEW t \in InitThread, InitRun(t)
  PROVE  DInv'
<1> USE ConstantsAssumption DEF TypeOK
<1>1. UNCHANGED <<sStateListener, recPc, heard, overlapped>> /\ t \in Thread /\ t \notin RecorderThread
  BY DEF InitRun, InitRooted, InitFails, InitChecksBinary, InitCreatesBinary,
     InitCopiesBinary, InitSucceeds, InitSends, InitStep, Thread
<1>2. initPc[t] \in InitBusy \cup {"post"}
  BY DEF InitRun, InitRooted, InitFails, InitChecksBinary, InitCreatesBinary,
     InitCopiesBinary, InitSucceeds, InitSends, InitStep, InitBusy
<1>3. sStateListener /\ ListenerFirst'
  BY <1>1, <1>2 DEF DInv, ListenerFirst, InitBusy
<1>4. CASE UNCHANGED <<outbox, looper>>
  BY <1>1, <1>3, <1>4 DEF DInv, OutboxesTell, StartsSent, StopsSent, StartBeforeStop
<1>5. CASE InitFails(t) \/ InitSucceeds(t)
  <2>1. PICK new \in State, obj \in ErrorId \cup {NULL} :
               SetState(t, new, obj) /\ new # "RECORDING"
    BY <1>5 DEF InitFails, InitSucceeds, State, ErrorId
  <2>2. ~overlapped => sState \in {"UNINITIALIZED", "FAILED_TO_INIT"}
    BY <1>2, <1>5 DEF InitFails, InitSucceeds, InitStep, IInv, InitIsAlone, BusyInits, InitBusy,
       Initialized, State
  <2>3. ~overlapped => \/ outbox'[t] = << >>
                       \/ outbox'[t] = <<[what |-> "ON_INITIALIZED", arg |-> NULL]>>
                       \/ outbox'[t] = <<[what |-> "ON_FAILED_TO_INIT", arg |-> obj]>>
    BY <1>1, <2>1, <2>2 DEF SetState, Announcement, State
  <2>4. ~overlapped => \A r \in RecorderThread :
          ~Has(outbox'[t], StartOf(r)) /\ ~Has(outbox'[t], StopOf(r))
    BY <2>3 DEF Has, StartOf, StopOf
  <2>5. \A u \in Thread \ {t} : outbox'[u] = outbox[u]
    BY <1>1, <2>1 DEF SetState
  <2>6. OutboxesTell'
    BY <1>1, <2>4, <2>5 DEF DInv, OutboxesTell, Thread
  <2>7. UNCHANGED looper
    BY <1>5 DEF InitFails, InitSucceeds
  <2> QED
    BY <1>1, <1>3, <2>6, <2>7 DEF DInv, StartsSent, StopsSent, StartBeforeStop
<1>6. CASE InitSends(t)
  <2>1. looper \in Seq(Message) /\ outbox[t] \in Seq(Message) /\ looper' = looper \o outbox[t]
    BY <1>1, <1>6 DEF InitSends, SendMessage
  <2>2. ~overlapped => \A r \in RecorderThread :
          ~Has(outbox[t], StartOf(r)) /\ ~Has(outbox[t], StopOf(r))
    BY DEF DInv, OutboxesTell
  <2>3. ~overlapped => \A r \in RecorderThread :
          /\ Has(looper', StartOf(r)) <=> Has(looper, StartOf(r))
          /\ Has(looper', StopOf(r)) <=> Has(looper, StopOf(r))
    BY <2>1, <2>2, HasConcat
  <2>4. StartsSent' /\ StopsSent'
    BY <1>1, <2>3 DEF DInv, StartsSent, StopsSent
  <2>5. StartBeforeStop'
    BY <1>1, <2>1, <2>2, OrderKept DEF DInv
  <2>6. OutboxesTell'
    BY <1>1, <1>6 DEF InitSends, SendMessage, DInv, OutboxesTell, Thread, Has
  <2> QED
    BY <1>3, <2>4, <2>5, <2>6 DEF DInv
<1> QED
  BY <1>4, <1>5, <1>6 DEF InitRun, InitRooted, InitChecksBinary, InitCreatesBinary, InitCopiesBinary

\* Every step of a RecorderThread keeps what is known of the messages: it
\* returns from the recording in progress, so it says that one has stopped.
LEMMA RecRunDelivers ==
  ASSUME TypeOK, IInv, DInv, NEW r \in RecorderThread, RecRun(r)
  PROVE  DInv'
<1> USE ConstantsAssumption DEF TypeOK
<1>1. UNCHANGED <<sStateListener, initPc, heard, overlapped>> /\ r \in Thread /\ r \notin InitThread
  BY DEF RecRun, RecExecutes, RecReturns, RecSends, RecStep, Thread
<1>2. recPc[r] \in {"exec", "wait", "post"}
  BY DEF RecRun, RecExecutes, RecReturns, RecSends, RecStep
<1>3. sStateListener /\ ListenerFirst'
  BY <1>1, <1>2 DEF DInv, ListenerFirst
<1>4. CASE RecExecutes(r)
  <2>1. /\ UNCHANGED <<outbox, looper>>
        /\ \A s \in RecorderThread : /\ (recPc'[s] = "post") <=> (recPc[s] = "post")
                                     /\ (recPc'[s] = "done") <=> (recPc[s] = "done")
                                     /\ recPc'[s] \in RecBusy <=> recPc[s] \in RecBusy
    BY <1>4 DEF RecExecutes, RecStep, RecBusy
  <2> QED
    BY <1>1, <1>3, <2>1 DEF DInv, OutboxesTell, StartsSent, StopsSent, StartBeforeStop
<1>5. CASE RecReturns(r)
  <2>1. ~overlapped => sState = "RECORDING"
    BY <1>5 DEF RecReturns, RecStep, IInv, StateTellsRecording, BusyRecorders, RecBusy
  <2>2. ~overlapped => outbox'[r] = <<StopOf(r)>>
    BY <1>1, <1>5, <2>1 DEF RecReturns, SetState, Announcement, StopOf
  <2>3. \A u \in Thread \ {r} : outbox'[u] = outbox[u]
    BY <1>5 DEF RecReturns, SetState
  <2>4. /\ recPc[r] = "wait" /\ recPc' = [recPc EXCEPT ![r] = "post"]
        /\ UNCHANGED looper
    BY <1>5 DEF RecReturns, RecStep
  <2>5. OutboxesTell'
    BY <1>1, <2>2, <2>3, <2>4 DEF DInv, OutboxesTell, Thread
  <2>6. StartsSent' /\ StopsSent'
    BY <1>1, <2>4 DEF DInv, StartsSent, StopsSent, RecBusy
  <2> QED
    BY <1>1, <1>3, <2>4, <2>5, <2>6 DEF DInv, StartBeforeStop
<1>6. CASE RecSends(r)
  <2>1. /\ looper \in Seq(Message) /\ outbox[r] \in Seq(Message)
        /\ looper' = looper \o outbox[r] /\ outbox' = [outbox EXCEPT ![r] = << >>]
        /\ recPc[r] = "post" /\ recPc' = [recPc EXCEPT ![r] = "done"]
    BY <1>1, <1>6 DEF RecSends, SendMessage, RecStep
  <2>2. ~overlapped => outbox[r] = <<StopOf(r)>>
    BY <2>1 DEF DInv, OutboxesTell
  <2>3. ~overlapped => \A s \in RecorderThread :
          /\ Has(looper', StartOf(s)) <=> Has(looper, StartOf(s))
          /\ Has(looper', StopOf(s)) <=> Has(looper, StopOf(s)) \/ s = r
    <3> SUFFICES ASSUME ~overlapped
                 PROVE  \A s \in RecorderThread :
                          /\ Has(looper', StartOf(s)) <=> Has(looper, StartOf(s))
                          /\ Has(looper', StopOf(s)) <=> Has(looper, StopOf(s)) \/ s = r
      OBVIOUS
    <3>1. looper' = looper \o <<StopOf(r)>>
      BY <2>1, <2>2
    <3>2. \A m : Has(looper \o <<StopOf(r)>>, m) <=> Has(looper, m) \/ m = StopOf(r)
      BY <2>1, HasLast, MessagesDiffer
    <3>3. \A s \in RecorderThread : StartOf(s) # StopOf(r) /\ (StopOf(s) = StopOf(r) <=> s = r)
      BY MessagesDiffer
    <3> QED
      BY <3>1, <3>2, <3>3
  <2>4. StartsSent' /\ StopsSent'
    BY <1>1, <2>1, <2>3 DEF DInv, StartsSent, StopsSent, RecBusy
  <2>5. ~overlapped => Has(heard, StartOf(r)) \/ Has(looper, StartOf(r))
    BY <2>1 DEF DInv, StartsSent
  <2>6. ~overlapped => \A s \in RecorderThread : Has(outbox[r], StopOf(s)) => s = r
    <3>1. \A s \in RecorderThread : Has(<<StopOf(r)>>, StopOf(s)) => s = r
      BY HasOne, MessagesDiffer
    <3> QED
      BY <2>2, <3>1
  <2>7. StartBeforeStop'
    BY <1>1, <2>1, <2>5, <2>6, OrderKept DEF DInv
  <2>8. OutboxesTell'
    BY <1>1, <2>1 DEF DInv, OutboxesTell, Thread
  <2> QED
    BY <1>3, <2>4, <2>7, <2>8 DEF DInv
<1> QED
  BY <1>4, <1>5, <1>6 DEF RecRun

\* So does every step of the main thread: what it dispatches is heard.
LEMMA MainThreadDelivers ==
  ASSUME TypeOK, IInv, DInv,
         \/ SetsStateListener \/ StopKill \/ HandleMessage
         \/ \E t \in InitThread : InitCall(t)
         \/ \E r \in RecorderThread : Start(r) \/ StopFindPid(r)
  PROVE  DInv'
<1> USE DEF TypeOK
<1>1. CASE SetsStateListener \/ StopKill \/ \E r \in RecorderThread : StopFindPid(r)
  <2>1. /\ UNCHANGED <<sState, initPc, recPc, outbox, looper, heard, overlapped>>
        /\ sStateListener => sStateListener'
    BY <1>1 DEF SetsStateListener, StopKill, StopFindPid
  <2> QED
    BY <2>1 DEF DInv, ListenerFirst, OutboxesTell, StartsSent, StopsSent, StartBeforeStop
<1>2. ASSUME NEW t \in InitThread, InitCall(t) PROVE DInv'
  <2>1. /\ UNCHANGED <<recPc, outbox, looper, heard, sStateListener>> /\ sStateListener
        /\ ~overlapped' => ~overlapped
    BY <1>2 DEF InitCall, StartsInitThread
  <2> QED
    BY <2>1 DEF DInv, ListenerFirst, OutboxesTell, StartsSent, StopsSent, StartBeforeStop
<1>3. ASSUME NEW r \in RecorderThread, Start(r) PROVE DInv'
  <2>1. /\ looper \in Seq(Message) /\ looper' = looper \o <<StartOf(r)>>
        /\ recPc[r] = "new" /\ recPc' = [recPc EXCEPT ![r] = "exec"]
        /\ UNCHANGED <<sStateListener, outbox, heard, overlapped>>
    BY <1>3 DEF Start, CanStart, Announcement, StartOf
  <2>2. sStateListener
    BY <1>3 DEF Start, CanStart, DInv, ListenerFirst
  <2>3. <<StartOf(r)>> \in Seq(Message)
    BY MessagesDiffer
  <2>4. \A s \in RecorderThread :
          /\ Has(looper', StartOf(s)) <=> Has(looper, StartOf(s)) \/ s = r
          /\ Has(looper', StopOf(s)) <=> Has(looper, StopOf(s))
          /\ ~Has(<<StartOf(r)>>, StopOf(s))
    <3>1. \A m : Has(looper \o <<StartOf(r)>>, m) <=> Has(looper, m) \/ m = StartOf(r)
      BY <2>1, HasLast, MessagesDiffer
    <3>2. \A m : Has(<<StartOf(r)>>, m) <=> m = StartOf(r)
      BY HasOne
    <3> QED
      BY <2>1, <3>1, <3>2, MessagesDiffer
  <2>5. StartsSent' /\ StopsSent'
    BY <2>1, <2>4 DEF DInv, StartsSent, StopsSent, RecBusy
  <2>6. StartBeforeStop'
    BY <2>1, <2>3, <2>4, OrderKept DEF DInv
  <2>7. ListenerFirst' /\ OutboxesTell'
    BY <2>1, <2>2 DEF DInv, ListenerFirst, OutboxesTell
  <2> QED
    BY <2>5, <2>6, <2>7 DEF DInv
<1>4. CASE HandleMessage
  <2>1. /\ UNCHANGED <<sStateListener, sState, initPc, recPc, outbox, overlapped>>
        /\ looper \in Seq(Message) /\ looper # << >> /\ looper' = Tail(looper)
        /\ heard \in Seq(Message) /\ Head(looper) \in Message /\ sStateListener
        /\ heard' = Append(heard, Head(looper))
    BY <1>4 DEF HandleMessage, DInv, ListenerFirst
  <2>2. heard' = heard \o <<Head(looper)>>
    BY <2>1
  <2>3. \A m : /\ Has(heard', m) <=> Has(heard, m) \/ m = Head(looper)
               /\ Has(looper, m) <=> m = Head(looper) \/ Has(looper', m)
    <3>1. \A m : Has(heard \o <<Head(looper)>>, m) <=> Has(heard, m) \/ m = Head(looper)
      BY <2>1, HasLast
    <3>2. \A m : Has(looper, m) <=> m = Head(looper) \/ Has(Tail(looper), m)
      BY <2>1, HasHead
    <3> QED
      BY <2>1, <2>2, <3>1, <3>2
  <2>4. StartsSent' /\ StopsSent'
    BY <2>1, <2>3 DEF DInv, StartsSent, StopsSent
  <2>5. StartBeforeStop'
    <3> SUFFICES ASSUME ~overlapped, NEW r \in RecorderThread, NEW i \in DOMAIN looper',
                        looper'[i] = StopOf(r), ~Has(heard', StartOf(r))
                 PROVE  \E j \in 1 .. i - 1 : looper'[j] = StartOf(r)
      BY <2>1 DEF StartBeforeStop
    <3>1. /\ Len(looper) \in Nat /\ DOMAIN looper = 1 .. Len(looper)
          /\ DOMAIN looper' = 1 .. Len(looper) - 1 /\ Head(looper) = looper[1]
          /\ \A j \in 1 .. Len(looper) - 1 : looper'[j] = looper[j + 1]
      BY <2>1
    <3>2. i + 1 \in DOMAIN looper /\ looper[i + 1] = StopOf(r)
      BY <3>1
    <3>3. PICK j \in 1 .. i : looper[j] = StartOf(r)
      BY <2>3, <3>1, <3>2 DEF DInv, StartBeforeStop
    <3>4. j # 1
      BY <2>3, <3>1, <3>3
    <3>5. j - 1 \in 1 .. i - 1 /\ looper'[j - 1] = StartOf(r)
      BY <3>1, <3>3, <3>4
    <3> QED
      BY <3>5
  <2> QED
    BY <2>1, <2>4, <2>5 DEF DInv, ListenerFirst, OutboxesTell
<1> QED
  BY <1>1, <1>2, <1>3, <1>4

\* A new life of the app starts with nothing under way and nothing heard.
LEMMA CrashDelivers ==
  ASSUME TypeOK, Crash
  PROVE  DInv'
<1>1. /\ looper' = << >> /\ heard' = << >> /\ \A t \in Thread : outbox'[t] = << >>
      /\ \A t \in InitThread : initPc'[t] \in {"new", "dead", "cut"}
      /\ \A r \in RecorderThread : recPc'[r] \in {"new", "dead"}
      /\ sState' = "UNINITIALIZED"
  BY DEF Crash, AfterDeath, TypeOK
<1>2. \A m : ~Has(<< >>, m)
  BY HasOne
<1> QED
  BY <1>1, <1>2 DEF DInv, ListenerFirst, OutboxesTell, StartsSent, StopsSent, StartBeforeStop,
     RecBusy, Thread

\* The messages never lie, whatever the bounds are: the invariant behind
\* HeardMatchesState and the contract.
THEOREM Delivered == Spec => []DInv
<1>1. Init => DInv
  <2>1. \A m : ~Has(<< >>, m)
    BY HasOne
  <2> QED
    BY <2>1 DEF Init, DInv, ListenerFirst, OutboxesTell, StartsSent, StopsSent, StartBeforeStop,
       RecBusy, Thread
<1>2. TypeOK /\ IInv /\ DInv /\ [Next]_vars => DInv'
  <2> SUFFICES ASSUME TypeOK, IInv, DInv, [Next]_vars PROVE DInv'
    OBVIOUS
  <2>1. CASE UNCHANGED vars \/ \E r \in RecorderThread : NativeProceeds(r)
    <3>1. UNCHANGED appVars
      BY <2>1 DEF vars, NativeProceeds
    <3> QED
      BY <3>1 DEF appVars, DInv, ListenerFirst, OutboxesTell, StartsSent, StopsSent, StartBeforeStop
  <2>2. CASE Next
    BY <2>1, <2>2, InitRunDelivers, RecRunDelivers, MainThreadDelivers, CrashDelivers DEF Next
  <2> QED
    BY <2>1, <2>2
<1> QED
  BY <1>1, <1>2, Inductive, PTL DEF Spec

\* The listener has heard of a recording's start, or of its stop, exactly
\* when the message is among those dispatched to it.
LEMMA HeardIsHas ==
  ASSUME NEW r \in RecorderThread
  PROVE  /\ r \in HeardFiles("ON_START_RECORDER") <=> Has(heard, StartOf(r))
         /\ r \in HeardFiles("ON_STOP_RECORDER") <=> Has(heard, StopOf(r))
  BY DEF HeardFiles, Has, StartOf, StopOf

\* Once no message is under way, the listener's notion of what is being
\* recorded is the truth, also in lives of the app that follow one in which
\* calls of init() overlapped.
THEOREM HeardIsTrue == Spec => []HeardMatchesState
<1>1. TypeOK /\ DInv => HeardMatchesState
  <2> SUFFICES ASSUME TypeOK, DInv, ~overlapped, Quiet, NEW r \in RecorderThread
               PROVE  r \in BusyRecorders <=> Has(heard, StartOf(r)) /\ ~Has(heard, StopOf(r))
    <3>1. \A r \in RecorderThread :
            r \in HeardFiles("ON_START_RECORDER") \ HeardFiles("ON_STOP_RECORDER")
              <=> Has(heard, StartOf(r)) /\ ~Has(heard, StopOf(r))
      BY HeardIsHas
    <3> QED
      BY <3>1 DEF HeardMatchesState, HeardFiles, BusyRecorders
  <2>1. \A m : ~Has(looper, m)
    BY HasOne DEF Quiet
  <2>2. recPc[r] # "post"
    <3>1. outbox[r] = << >>
      BY DEF Quiet, Thread
    <3>2. <<StopOf(r)>> # << >>
      OBVIOUS
    <3> QED
      BY <3>1, <3>2 DEF DInv, OutboxesTell
  <2>3. recPc[r] \in RecBusy \cup {"post", "done"} <=> Has(heard, StartOf(r))
    BY <2>1 DEF DInv, StartsSent
  <2>4. recPc[r] = "done" <=> Has(heard, StopOf(r))
    BY <2>1 DEF DInv, StopsSent
  <2> QED
    BY <2>2, <2>3, <2>4 DEF BusyRecorders, RecBusy
<1> QED
  BY <1>1, Inductive, Delivered, PTL
-----------------------------------------------------------------------------
(***************************************************************************)
(* The contract.  To callers that do not overlap calls of init(), every    *)
(* step is one of RecorderContract's or changes nothing of what it is      *)
(* about.  (That the messages are heard in the end is left to TLC.)        *)
(***************************************************************************)

\* A step that moves no recording to another phase and dispatches nothing
\* is no step of the contract.
LEMMA ContractUnchanged ==
  ASSUME UNCHANGED heard, \A r \in RecorderThread : phaseOf(r)' = phaseOf(r)
  PROVE  UNCHANGED Contract!vars
<1>1. \A r \in RecorderThread : toldOf(r)' = toldOf(r)
  BY DEF toldOf, HeardFiles
<1> QED
  BY <1>1 DEF Contract!vars

\* start() that finds the recorder free begins a recording: the only one.
LEMMA StartBegins ==
  ASSUME TypeOK, IInv, ~overlapped, NEW r \in RecorderThread, Start(r)
  PROVE  Contract!Begin(r)
<1>1. recPc[r] = "new" /\ recPc' = [recPc EXCEPT ![r] = "exec"] /\ UNCHANGED heard
  BY DEF Start
<1>2. BusyRecorders = {}
  BY DEF Start, CanStart, IInv, StateTellsRecording
<1>3. \A s \in RecorderThread : phaseOf(s) # "recording"
  BY <1>2 DEF phaseOf, BusyRecorders, TypeOK, RecPc
<1>4. phaseOf(r) = "new" /\ phaseOf(r)' = "recording"
  BY <1>1 DEF phaseOf, RecBusy, TypeOK
<1>5. \A s \in RecorderThread \ {r} : phaseOf(s)' = phaseOf(s)
  BY <1>1 DEF phaseOf, TypeOK
<1>6. \A s \in RecorderThread : toldOf(s)' = toldOf(s)
  BY <1>1 DEF toldOf, HeardFiles
<1> QED
  BY <1>3, <1>4, <1>5, <1>6 DEF Contract!Begin

\* A RecorderThread finishes its recording when su returns; its other steps
\* are internal.
LEMMA RecRunContract ==
  ASSUME TypeOK, NEW r \in RecorderThread, RecRun(r)
  PROVE  Contract!Finish(r) \/ UNCHANGED Contract!vars
<1>1. UNCHANGED heard
  BY DEF RecRun, RecExecutes, RecReturns, RecSends, RecStep
<1>2. CASE RecExecutes(r) \/ RecSends(r)
  <2>1. \A s \in RecorderThread : phaseOf(s)' = phaseOf(s)
    BY <1>2 DEF RecExecutes, RecSends, RecStep, phaseOf, RecBusy, TypeOK
  <2> QED
    BY <1>1, <2>1, ContractUnchanged
<1>3. CASE RecReturns(r)
  <2>1. phaseOf(r) = "recording" /\ phaseOf(r)' = "over"
    BY <1>3 DEF RecReturns, RecStep, phaseOf, RecBusy, TypeOK
  <2>2. \A s \in RecorderThread \ {r} : phaseOf(s)' = phaseOf(s)
    BY <1>3 DEF RecReturns, RecStep, phaseOf, TypeOK
  <2>3. \A s \in RecorderThread : toldOf(s)' = toldOf(s)
    BY <1>1 DEF toldOf, HeardFiles
  <2> QED
    BY <2>1, <2>2, <2>3 DEF Contract!Finish
<1> QED
  BY <1>2, <1>3 DEF RecRun

\* A dispatched message about a recording tells its start or its stop, in
\* this order and after the fact; any other message is internal.
LEMMA HandleMessageTells ==
  ASSUME TypeOK, DInv, ~overlapped, HandleMessage
  PROVE  \/ \E r \in RecorderThread : Contract!TellStart(r) \/ Contract!TellStop(r)
         \/ UNCHANGED Contract!vars
<1> DEFINE hd == Head(looper)
<1>1. /\ looper \in Seq(Message) /\ looper # << >> /\ heard \in Seq(Message) /\ hd \in Message
      /\ UNCHANGED recPc /\ heard' = heard \o <<hd>>
  BY DEF HandleMessage, DInv, ListenerFirst, TypeOK
<1>2. \A m : Has(heard', m) <=> Has(heard, m) \/ m = hd
  BY <1>1, HasLast
<1>3. \A s \in RecorderThread : phaseOf(s)' = phaseOf(s)
  BY <1>1 DEF phaseOf
<1>4. \A s \in RecorderThread :
        /\ toldOf(s) = IF Has(heard, StopOf(s)) THEN "stop"
                       ELSE IF Has(heard, StartOf(s)) THEN "start" ELSE "nothing"
        /\ toldOf(s)' = IF Has(heard', StopOf(s)) THEN "stop"
                        ELSE IF Has(heard', StartOf(s)) THEN "start" ELSE "nothing"
  BY DEF toldOf, HeardFiles, Has, StartOf, StopOf
<1>5. Has(looper, hd) /\ hd = looper[1] /\ 1 \in DOMAIN looper
  BY <1>1 DEF Has
<1>6. ASSUME NEW r \in RecorderThread, hd = StartOf(r)
      PROVE  Contract!TellStart(r) \/ UNCHANGED Contract!vars
  <2>1. \A s \in RecorderThread \ {r} : toldOf(s)' = toldOf(s)
    BY <1>2, <1>4, <1>6, MessagesDiffer
  <2>2. toldOf(r)' = IF toldOf(r) = "nothing" THEN "start" ELSE toldOf(r)
    BY <1>2, <1>4, <1>6, MessagesDiffer
  <2>3. phaseOf(r) \in {"recording", "over"}
    BY <1>5, <1>6 DEF DInv, StartsSent, phaseOf, RecBusy
  <2> QED
    BY <1>3, <2>1, <2>2, <2>3 DEF Contract!TellStart, Contract!vars
<1>7. ASSUME NEW r \in RecorderThread, hd = StopOf(r)
      PROVE  Contract!TellStop(r) \/ UNCHANGED Contract!vars
  <2>1. \A s \in RecorderThread \ {r} : toldOf(s)' = toldOf(s)
    BY <1>2, <1>4, <1>7, MessagesDiffer
  <2>2. Has(heard, StartOf(r))
    BY <1>5, <1>7 DEF DInv, StartBeforeStop
  <2>3. toldOf(r) \in {"start", "stop"} /\ toldOf(r)' = "stop"
    BY <1>2, <1>4, <1>7, <2>2
  <2>4. phaseOf(r) = "over"
    BY <1>5, <1>7 DEF DInv, StopsSent, phaseOf, RecBusy
  <2> QED
    BY <1>3, <2>1, <2>3, <2>4 DEF Contract!TellStop, Contract!vars
<1>8. ASSUME \A r \in RecorderThread : hd # StartOf(r) /\ hd # StopOf(r)
      PROVE  UNCHANGED Contract!vars
  <2>1. \A s \in RecorderThread : toldOf(s)' = toldOf(s)
    BY <1>2, <1>4, <1>8
  <2> QED
    BY <1>3, <2>1 DEF Contract!vars
<1> QED
  BY <1>6, <1>7, <1>8

\* The death of the app is that of the contract.
LEMMA CrashDies ==
  ASSUME TypeOK, Crash
  PROVE  Contract!Die
<1>1. \A r \in RecorderThread : phaseOf(r)' = IF phaseOf(r) = "new" THEN "new" ELSE "lost"
  BY DEF Crash, phaseOf, RecBusy, TypeOK, RecPc
<1>2. \A r \in RecorderThread : toldOf(r)' = "nothing"
  BY DEF Crash, toldOf, HeardFiles
<1> QED
  BY <1>1, <1>2 DEF Contract!Die

\* Every step of the recorder is a step of the contract or a stutter.
LEMMA ContractStep ==
  ASSUME TypeOK, IInv, DInv, ~overlapped, [Next]_vars
  PROVE  [Contract!Next]_(Contract!vars)
<1>1. CASE UNCHANGED <<recPc, heard>>
  <2>1. \A r \in RecorderThread : phaseOf(r)' = phaseOf(r)
    BY <1>1 DEF phaseOf
  <2> QED
    BY <1>1, <2>1, ContractUnchanged
<1>2. CASE \/ SetsStateListener \/ StopKill \/ UNCHANGED vars
           \/ \E t \in InitThread : InitCall(t) \/ InitRun(t)
           \/ \E r \in RecorderThread : StopFindPid(r) \/ NativeProceeds(r)
  <2>1. UNCHANGED <<recPc, heard>>
    BY <1>2 DEF SetsStateListener, StopKill, vars, appVars, InitCall, InitRun, InitRooted, InitFails,
       InitChecksBinary, InitCreatesBinary, InitCopiesBinary, InitSucceeds, InitSends, InitStep,
       StopFindPid, NativeProceeds
  <2> QED
    BY <1>1, <2>1
<1>3. ASSUME NEW r \in RecorderThread, Start(r) \/ RecRun(r)
      PROVE  [Contract!Next]_(Contract!vars)
  BY <1>3, StartBegins, RecRunContract DEF Contract!Next
<1>4. CASE HandleMessage
  BY <1>4, HandleMessageTells DEF Contract!Next
<1>5. CASE Crash
  BY <1>5, CrashDies DEF Contract!Next
<1> QED
  BY <1>2, <1>3, <1>4, <1>5 DEF Next

\* The safety half of KeepsContract, for any number of calls and deaths: the
\* threads, the message queue and the native process implement the contract.
THEOREM ImplementsContract == SerialSpec => Contract!Init /\ [][Contract!Next]_(Contract!vars)
<1>1. Init => Contract!Init /\ ~overlapped
  <2> SUFFICES ASSUME Init PROVE Contract!Init /\ ~overlapped
    OBVIOUS
  <2>1. \A what : HeardFiles(what) = {}
    BY DEF Init, HeardFiles
  <2>2. \A r \in RecorderThread : phaseOf(r) = "new" /\ toldOf(r) = "nothing"
    BY <2>1 DEF Init, phaseOf, toldOf, RecBusy
  <2> QED
    BY <2>2 DEF Init, Contract!Init
<1>2. [SerialNext]_vars => [Next]_vars
  BY DEF SerialNext
<1>3. ~overlapped /\ [SerialNext]_vars => ~overlapped'
  BY DEF SerialNext, vars, appVars
<1>4. TypeOK /\ IInv /\ DInv /\ ~overlapped /\ [Next]_vars => [Contract!Next]_(Contract!vars)
  BY ContractStep
<1> QED
  BY <1>1, <1>2, <1>3, <1>4, Inductive, Delivered, PTL DEF SerialSpec, Spec
=============================================================================
