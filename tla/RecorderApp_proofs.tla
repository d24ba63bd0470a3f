-------------------------- MODULE RecorderApp_proofs --------------------------
(***************************************************************************)
(* Safety of the app around the recorder, for any number of launches,      *)
(* intents under way, recordings and deaths.  What ShellScreenRecorder     *)
(* keeps it keeps here too, because every step of the app is one of its    *)
(* steps or none.                                                          *)
(***************************************************************************)
EXTENDS RecorderApp, ShellScreenRecorder_proofs, SequenceTheorems

appvars == <<core, app>>

\* Every step of the app is a step of the recorder or changes nothing of it.
LEMMA CoreStep == ASSUME [AppNext]_appvars PROVE [Next]_vars
<1> USE DEF core, Next
<1>1. CASE Service
  BY <1>1 DEF Service, ServiceInit, ServiceStart, ServiceStopsNothing, ServiceFindsPid, ServiceKills
<1>2. CASE ServiceCallback \/ ModelReceives
  BY <1>2 DEF ServiceCallback, ModelReceives
<1>3. CASE \/ ActivityCreated \/ FragmentReplaced \/ ActivityReused \/ ActivityCovered \/ ActivityLeft
           \/ ClickShutter \/ TapNotification
  BY <1>3 DEF ActivityCreated, FragmentReplaced, ActivityReused, ActivityCovered, ActivityLeft,
     ClickShutter, TapNotification
<1>4. CASE Background
  BY <1>4 DEF Background
<1>5. CASE AppCrash
  BY <1>5 DEF AppCrash
<1>6. CASE UNCHANGED appvars
  BY <1>6 DEF appvars
<1> QED
  BY <1>1, <1>2, <1>3, <1>4, <1>5, <1>6 DEF AppNext

\* The app keeps what the recorder keeps.
LEMMA CoreKept == AppSpec => [](TypeOK /\ IInv /\ DInv)
<1>1. AppInit => Init
  BY DEF AppInit
<1>2. [AppNext]_<<core, app>> => [Next]_vars
  BY CoreStep DEF appvars
<1> QED
  BY <1>1, <1>2, Inductive, Delivered, PTL DEF AppSpec, Spec
-----------------------------------------------------------------------------
(* The values in a queue.                                                  *)

LEMMA RangeAppend ==
  ASSUME NEW S, NEW q \in Seq(S), NEW x \in S
  PROVE  /\ Append(q, x) \in Seq(S)
         /\ Range(Append(q, x)) = Range(q) \cup {x}
<1>1. Append(q, x) = q \o <<x>> /\ <<x>> \in Seq(S)
  OBVIOUS
<1>2. Range(<<x>>) = {x}
  BY DEF Range
<1>3. Range(q \o <<x>>) = Range(q) \cup Range(<<x>>)
  BY <1>1, RangeConcatenation, ZenonT(40)
<1>4. Append(q, x) \in Seq(S)
  OBVIOUS
<1> QED
  BY <1>1, <1>2, <1>3, <1>4

LEMMA RangeTail ==
  ASSUME NEW S, NEW q \in Seq(S), q # << >>
  PROVE  /\ Tail(q) \in Seq(S) /\ Head(q) \in S
         /\ Range(q) = {Head(q)} \cup Range(Tail(q))
<1>1. /\ Len(q) \in Nat \ {0} /\ Head(q) = q[1] /\ DOMAIN q = 1 .. Len(q)
      /\ Tail(q) \in Seq(S) /\ Head(q) \in S
      /\ DOMAIN Tail(q) = 1 .. Len(q) - 1
      /\ \A i \in 1 .. Len(q) - 1 : Tail(q)[i] = q[i + 1]
  OBVIOUS
<1>2. ASSUME NEW i \in 1 .. Len(q), i # 1 PROVE q[i] \in Range(Tail(q))
  <2>1. i - 1 \in 1 .. Len(q) - 1 /\ q[(i - 1) + 1] = q[i]
    BY <1>1, <1>2
  <2> QED
    BY <1>1, <2>1 DEF Range
<1>3. ASSUME NEW i \in 1 .. Len(q) - 1 PROVE Tail(q)[i] \in Range(q)
  BY <1>1 DEF Range
<1> QED
  BY <1>1, <1>2, <1>3 DEF Range

LEMMA RangeEmpty == Range(<< >>) = {}
BY DEF Range

LEMMA RangeMember ==
  ASSUME NEW S, NEW q \in Seq(S)
  PROVE  /\ Range(q) \subseteq S
         /\ \A i \in DOMAIN q : q[i] \in Range(q)
         /\ q # << >> => q[Len(q)] \in Range(q)
BY DEF Range
-----------------------------------------------------------------------------
(* Types, and the intent that stop() is busy with.                         *)

\* Between ps and kill the service is busy with the intent at the head.
StopInProgress ==
  ~MainThreadFree => commands # << >> /\ Head(commands) = "STOP_REC"

\* What the queues of intents and broadcasts hold after each use of them.
LEMMA HandledType ==
  ASSUME AppTypeOK, commands # << >>, Handled
  PROVE  /\ commands' \in Seq(Action) /\ Len(commands') <= MaxCommands
         /\ redelivered' \in 0 .. Len(commands')
<1>1. /\ Len(commands) \in Nat /\ Len(commands) # 0
      /\ commands' \in Seq(Action) /\ Len(commands') = Len(commands) - 1
  BY DEF AppTypeOK, Handled
<1> QED
  BY <1>1, AppAssumption DEF AppTypeOK, Handled

LEMMA SendsType ==
  ASSUME AppTypeOK, NEW command \in Action, Sends(command)
  PROVE  /\ commands' \in Seq(Action) /\ Len(commands') <= MaxCommands
         /\ redelivered' \in 0 .. Len(commands')
<1>1. /\ Len(commands) \in Nat /\ commands' \in Seq(Action)
      /\ Len(commands') = Len(commands) + 1
  BY DEF AppTypeOK, Sends
<1> QED
  BY <1>1, AppAssumption DEF AppTypeOK, Sends

LEMMA BroadcastsType ==
  ASSUME AppTypeOK, NEW old \in State, NEW new \in State, Broadcasts(old, new)
  PROVE  broadcasts' \in Seq(Change) /\ ahead \in 0 .. Len(broadcasts')
<1>1. [old |-> old, new |-> new] \in Change
  BY DEF Change
<1>2. /\ broadcasts' \in Seq(Change) /\ Len(broadcasts) \in Nat /\ Len(broadcasts') \in Nat
      /\ Len(broadcasts') >= Len(broadcasts)
  BY <1>1 DEF AppTypeOK, Broadcasts
<1> QED
  BY <1>2 DEF AppTypeOK

LEMMA RedeliversType ==
  ASSUME AppTypeOK, Redelivers
  PROVE  /\ commands' \in Seq(Action) /\ Len(commands') <= MaxCommands
         /\ redelivered' \in 0 .. Len(commands')
<1>1. PICK k \in 1 .. Len(commands) + 1 : commands' = SubSeq(commands, k, Len(commands))
  BY DEF Redelivers
<1>2. Len(commands) \in Nat /\ commands \in Seq(Action)
  BY DEF AppTypeOK
<1>3. commands' \in Seq(Action) /\ Len(commands') = Len(commands) - k + 1
  BY <1>1, <1>2
<1> QED
  BY <1>2, <1>3, AppAssumption DEF AppTypeOK, Redelivers

\* Every step of the app keeps every variable in its type.
LEMMA AppTypeStep ==
  ASSUME AppTypeOK, StopInProgress, [AppNext]_appvars
  PROVE  AppTypeOK'
<1> USE DEF intents, model, ui, transaction, history
<1>0. TypeOK'
  BY CoreStep, TypeStep DEF AppTypeOK
<1>1. CASE ServiceInit
  <2>1. commands # << >>
    BY <1>1 DEF ServiceInit, Handles
  <2>2. broadcasts' \in Seq(Change) /\ ahead \in 0 .. Len(broadcasts')
    BY <1>1, BroadcastsType DEF ServiceInit, Answer, State, AppTypeOK
  <2> QED
    BY <1>0, <1>1, <2>1, <2>2, HandledType DEF ServiceInit, AppTypeOK
<1>2. CASE ServiceStart
  <2>1. commands # << >>
    BY <1>2 DEF ServiceStart, Handles
  <2>2. stopLost' \in BOOLEAN /\ resumed' \in BOOLEAN /\ crossed' \in {"no", "queued", "unsent"}
    BY <1>2 DEF ServiceStart, AppTypeOK
  <2> QED
    BY <1>0, <1>2, <2>1, <2>2, HandledType DEF ServiceStart, setupNotification, AppTypeOK
<1>3. CASE ServiceStopsNothing
  <2>1. commands # << >> /\ stopLost' \in BOOLEAN
    BY <1>3 DEF ServiceStopsNothing, Handles, AppTypeOK
  <2> QED
    BY <1>0, <1>3, <2>1, HandledType DEF ServiceStopsNothing, AppTypeOK
<1>4. CASE ServiceKills
  <2>1. commands # << >> /\ stopLost' \in BOOLEAN
    BY <1>4 DEF ServiceKills, StopKill, StopInProgress, AppTypeOK
  <2> QED
    BY <1>0, <1>4, <2>1, HandledType DEF ServiceKills, AppTypeOK
<1>5. CASE ServiceCallback
  <2>1. Head(looper) \in Message
    BY <1>5 DEF ServiceCallback, HandleMessage, AppTypeOK, TypeOK
  <2>2. Head(looper).what # "ON_STOP_RECORDER" => NewState(Head(looper)) \in State
    BY <2>1 DEF NewState, Message, What, State
  <2>3. broadcasts' \in Seq(Change) /\ ahead \in 0 .. Len(broadcasts')
    BY <1>5, <2>2, BroadcastsType DEF ServiceCallback, onStopRecorder, State
  <2> QED
    BY <1>0, <1>5, <2>3 DEF ServiceCallback, onStopRecorder, AppTypeOK
<1>6. CASE ModelReceives
  <2>1. Head(broadcasts) \in Change /\ broadcasts' \in Seq(Change)
    BY <1>6, RangeTail DEF ModelReceives, AppTypeOK
  <2>2. mRecorderState' \in State
    BY <1>6, <2>1 DEF ModelReceives, Change
  <2>3. /\ posted' \in {"none", "recorder", "error"} /\ shutter' \in Shutter
        /\ missed' \in BOOLEAN /\ unheard' \in BOOLEAN
    <3>1. CASE Head(broadcasts).old = "UNINITIALIZED"
      <4>1. onInitEvent(Head(broadcasts).new = "FREE") /\ UNCHANGED shutter
        BY <1>6, <3>1 DEF ModelReceives
      <4> QED
        BY <4>1 DEF onInitEvent, AppTypeOK
    <3>2. CASE Head(broadcasts).old # "UNINITIALIZED"
      <4>1. (Head(broadcasts).new = "RECORDING") \in BOOLEAN
        OBVIOUS
      <4>2. \A b \in BOOLEAN : [enabled |-> TRUE, checked |-> b] \in Shutter
        BY DEF Shutter
      <4>3. [enabled |-> TRUE, checked |-> Head(broadcasts).new = "RECORDING"] \in Shutter
        BY <4>1, <4>2
      <4> QED
        BY <1>6, <3>2, <4>3 DEF ModelReceives, onRecorderEvent, AppTypeOK
    <3> QED
      BY <3>1, <3>2
  <2>4. ahead' \in 0 .. Len(broadcasts')
    <3>1. /\ Len(broadcasts) \in Nat \ {0} /\ Len(broadcasts') = Len(broadcasts) - 1
          /\ ahead \in 0 .. Len(broadcasts)
      BY <1>6 DEF ModelReceives, AppTypeOK
    <3> QED
      BY <1>6, <3>1 DEF ModelReceives
  <2> QED
    BY <1>0, <1>6, <2>1, <2>2, <2>3, <2>4 DEF ModelReceives, AppTypeOK
<1>7. CASE ActivityCreated
  <2>1. launches' \in 0 .. MaxLaunches
    BY <1>7, AppAssumption DEF ActivityCreated, AppTypeOK
  <2>2. "INIT" \in Action
    BY DEF Action
  <2> QED
    BY <1>0, <1>7, <2>1, <2>2, SendsType DEF ActivityCreated, NewShutter, Shutter, AppTypeOK
<1>8. CASE FragmentReplaced \/ ActivityReused \/ ActivityCovered \/ ActivityLeft
  <2>1. /\ screen' \in {"none", "init", "recorder", "error"} /\ posted' = "none" /\ ahead' = 0
        /\ shutter' \in Shutter
    <3>1. ExecPendingActions \/ (Destroyed /\ UNCHANGED shutter)
      BY <1>8 DEF FragmentReplaced, ActivityReused, ActivityCovered, ActivityLeft
    <3>2. NewShutter \in Shutter
      BY DEF NewShutter, Shutter
    <3> QED
      BY <3>1, <3>2 DEF ExecPendingActions, Destroyed, AppTypeOK
  <2>2. Len(broadcasts) \in Nat
    BY DEF AppTypeOK
  <2>3. CASE FragmentReplaced \/ ActivityLeft
    BY <1>0, <2>1, <2>2, <2>3 DEF FragmentReplaced, ActivityLeft, AppTypeOK
  <2>4. CASE ActivityReused
    <3>1. saved' \in BOOLEAN /\ launching' \in BOOLEAN
      BY <2>4 DEF ActivityReused
    <3>2. UNCHANGED <<intents, broadcasts, model, foreground, launches, history>>
      BY <2>4 DEF ActivityReused
    <3> QED
      BY <1>0, <2>1, <2>2, <3>1, <3>2 DEF AppTypeOK
  <2>5. CASE ActivityCovered
    <3>1. saved' \in BOOLEAN
      BY <2>5 DEF ActivityCovered
    <3> QED
      BY <1>0, <2>1, <2>2, <2>5, <3>1 DEF ActivityCovered, AppTypeOK
  <2> QED
    BY <1>8, <2>3, <2>4, <2>5
<1>9. CASE ClickShutter
  <2>1. /\ shutter' \in Shutter /\ screen' \in {"none", "init", "recorder", "error"}
        /\ posted' \in {"none", "recorder", "error"} /\ ahead' \in 0 .. Len(broadcasts)
    <3>1. shutter.checked \in BOOLEAN
      BY DEF AppTypeOK, Shutter
    <3>2. \A b \in BOOLEAN : [enabled |-> FALSE, checked |-> ~b] \in Shutter
      BY DEF Shutter
    <3>3. [enabled |-> FALSE, checked |-> ~shutter.checked] \in Shutter
      BY <3>1, <3>2
    <3>4. Len(broadcasts) \in Nat
      BY DEF AppTypeOK
    <3>5. CASE ClickStart
      BY <3>4, <3>5 DEF ClickStart, Destroyed, AppTypeOK
    <3>6. CASE ClickStop
      BY <3>3, <3>6 DEF ClickStop, AppTypeOK
    <3> QED
      BY <1>9, <3>5, <3>6 DEF ClickShutter
  <2>2. {"START_REC", "STOP_REC"} \subseteq Action
    BY DEF Action
  <2>3. /\ commands' \in Seq(Action) /\ Len(commands') <= MaxCommands
        /\ redelivered' \in 0 .. Len(commands')
    BY <1>9, <2>2, SendsType DEF ClickShutter, ClickStart, ClickStop
  <2> QED
    BY <1>0, <1>9, <2>1, <2>3 DEF ClickShutter, AppTypeOK
<1>10. CASE TapNotification
  <2>1. "STOP_REC" \in Action
    BY DEF Action
  <2> QED
    BY <1>0, <1>10, <2>1, SendsType DEF TapNotification, AppTypeOK
<1>11. CASE ServiceFindsPid \/ Background \/ UNCHANGED appvars
  BY <1>0, <1>11 DEF ServiceFindsPid, Background, appvars, app, AppTypeOK
<1>12. CASE AppCrash
  <2>1. broadcasts' \in Seq(Change)
    BY <1>12 DEF AppCrash
  <2>2. launching' \in BOOLEAN
    BY <1>12 DEF AppCrash, AppTypeOK
  <2>3. screen' = "none" /\ posted' = "none" /\ ahead' \in 0 .. Len(broadcasts')
    BY <1>12 DEF AppCrash, Destroyed
  <2> QED
    BY <1>0, <1>12, <2>1, <2>2, <2>3, RedeliversType DEF AppCrash, NewShutter, Shutter, State, AppTypeOK
<1> QED
  BY <1>1, <1>2, <1>3, <1>4, <1>5, <1>6, <1>7, <1>8, <1>9, <1>10, <1>11, <1>12 DEF AppNext, Service

\* Nothing but stop() itself takes its intent from the head.
LEMMA StopInProgressStep ==
  ASSUME AppTypeOK, StopInProgress, [AppNext]_appvars
  PROVE  StopInProgress'
<1> USE DEF intents, model, ui, transaction, history, AppTypeOK
<1>1. CASE MainThreadFree'
  BY <1>1 DEF StopInProgress
<1>2. CASE ~MainThreadFree' /\ UNCHANGED <<pidToKill, commands>>
  BY <1>2 DEF StopInProgress, MainThreadFree
<1>3. CASE ServiceFindsPid
  BY <1>3 DEF ServiceFindsPid, app, Handles, StopInProgress
<1>4. CASE TapNotification
  <2>1. commands # << >> => Head(Append(commands, "STOP_REC")) = Head(commands)
    OBVIOUS
  <2> QED
    BY <1>4, <2>1 DEF TapNotification, Sends, core, vars, appVars, StopInProgress, MainThreadFree
<1>5. CASE ServiceKills \/ AppCrash
  BY <1>5 DEF ServiceKills, StopKill, AppCrash, Crash, StopInProgress, MainThreadFree
<1>6. CASE \/ ServiceInit \/ ServiceStart \/ ServiceStopsNothing \/ ServiceCallback
           \/ ActivityCreated \/ ClickShutter
  <2>1. MainThreadFree /\ UNCHANGED pidToKill
    BY <1>6 DEF ServiceInit, ServiceStart, ServiceStopsNothing, Handles, ServiceCallback,
       HandleMessage, ActivityCreated, ClickShutter, InitCall, Start, core, vars, appVars
  <2> QED
    BY <2>1 DEF StopInProgress, MainThreadFree
<1>7. CASE \/ ModelReceives \/ FragmentReplaced \/ ActivityReused \/ ActivityCovered \/ ActivityLeft
           \/ UNCHANGED appvars
  BY <1>1, <1>2, <1>7 DEF ModelReceives, FragmentReplaced, ActivityReused, ActivityCovered,
     ActivityLeft, appvars, app, core, vars, appVars
<1>8. CASE Background
  <2>1. UNCHANGED <<pidToKill, commands>>
    BY <1>8 DEF Background, app, SetsStateListener, InitRun, InitRooted, InitFails, InitChecksBinary,
       InitCreatesBinary, InitCopiesBinary, InitSucceeds, InitSends, InitStep, RecRun, RecExecutes,
       RecReturns, RecSends, RecStep, NativeProceeds, appVars
  <2> QED
    BY <1>1, <1>2, <2>1
<1> QED
  BY <1>3, <1>4, <1>5, <1>6, <1>7, <1>8 DEF AppNext, Service
-----------------------------------------------------------------------------
(***************************************************************************)
(* What the app relies on in the recorder: a process starts once and never *)
(* comes back, and a thread has at most one message to send.               *)
(***************************************************************************)

\* A recorder starts when its thread executes it, and stop() kills one that
\* has started.
NativeOnce ==
  /\ \A r \in RecorderThread : recPc[r] \in {"new", "exec"} => native[r] = "none"
  /\ ~MainThreadFree => native[pidToKill] # "none"

OneMessage ==
  \A u \in Thread : outbox[u] = << >> \/ \E m \in Message : outbox[u] = <<m>>

LEMMA NativeOnceStep == ASSUME TypeOK, NativeOnce, [Next]_vars PROVE NativeOnce'
<1> USE ConstantsAssumption DEF TypeOK, NativeOnce, MainThreadFree
<1>1. CASE UNCHANGED <<recPc, native, pidToKill>>
  BY <1>1
<1>2. CASE SetsStateListener \/ HandleMessage \/ UNCHANGED vars
  BY <1>1, <1>2 DEF SetsStateListener, HandleMessage, vars, appVars
<1>3. ASSUME NEW t \in InitThread, InitCall(t) \/ InitRun(t) PROVE NativeOnce'
  BY <1>1, <1>3 DEF InitCall, InitRun, InitRooted, InitFails, InitChecksBinary, InitCreatesBinary,
     InitCopiesBinary, InitSucceeds, InitSends, InitStep
<1>4. ASSUME NEW r \in RecorderThread, Start(r) \/ StopFindPid(r) PROVE NativeOnce'
  BY <1>4 DEF Start, CanStart, StopFindPid, Processes, Running
<1>5. ASSUME NEW r \in RecorderThread, RecRun(r) PROVE NativeOnce'
  BY <1>5, ZenonT(40) DEF RecRun, RecExecutes, RecReturns, RecSends, RecStep
<1>6. ASSUME NEW r \in RecorderThread, NativeProceeds(r) PROVE NativeOnce'
  <2>1. native[r] \in Running /\ native'[r] # "none" /\ native' = [native EXCEPT ![r] = native'[r]]
    BY <1>6 DEF NativeProceeds, ByItself, Running
  <2> QED
    BY <1>6, <2>1 DEF NativeProceeds, appVars, Running
<1>7. CASE StopKill
  <2>1. native[pidToKill] # "none" /\ native' = [native EXCEPT ![pidToKill] = native'[pidToKill]]
    BY <1>7 DEF StopKill
  <2> QED
    BY <1>7, <2>1 DEF StopKill
<1>8. CASE Crash
  BY <1>8 DEF Crash
<1> QED
  BY <1>2, <1>3, <1>4, <1>5, <1>6, <1>7, <1>8 DEF Next

LEMMA OneMessageStep == ASSUME TypeOK, OneMessage, [Next]_vars PROVE OneMessage'
<1> USE ConstantsAssumption DEF TypeOK, OneMessage
<1>1. CASE UNCHANGED outbox
  BY <1>1
<1>2. ASSUME NEW old, NEW new, NEW obj \in RecorderThread \cup {NULL} \cup ErrorId
      PROVE  \/ Announcement(old, new, obj) = << >>
             \/ \E m \in Message : Announcement(old, new, obj) = <<m>>
  <2>1. \A what \in What : /\ [what |-> what, arg |-> obj] \in Message
                           /\ [what |-> what, arg |-> NULL] \in Message
    BY DEF Message
  <2> QED
    BY <2>1 DEF Announcement, What
<1>3. ASSUME NEW u \in Thread, NEW new, NEW obj \in RecorderThread \cup {NULL} \cup ErrorId,
             SetState(u, new, obj)
      PROVE  OneMessage'
  BY <1>2, <1>3 DEF SetState
<1>4. ASSUME NEW u \in Thread, SendMessage(u) PROVE OneMessage'
  BY <1>4 DEF SendMessage
<1>5. ASSUME NEW t \in InitThread, InitCall(t) \/ InitRun(t) PROVE OneMessage'
  BY <1>1, <1>3, <1>4, <1>5 DEF InitCall, InitRun, InitRooted, InitFails, InitChecksBinary,
     InitCreatesBinary, InitCopiesBinary, InitSucceeds, InitSends, Thread, ErrorId
<1>6. ASSUME NEW r \in RecorderThread, Start(r) \/ StopFindPid(r) \/ RecRun(r) \/ NativeProceeds(r)
      PROVE  OneMessage'
  BY <1>1, <1>3, <1>4, <1>6 DEF Start, StopFindPid, RecRun, RecExecutes, RecReturns, RecSends,
     NativeProceeds, appVars, Thread
<1>7. CASE SetsStateListener \/ HandleMessage \/ StopKill \/ UNCHANGED vars
  BY <1>1, <1>7 DEF SetsStateListener, HandleMessage, StopKill, vars, appVars
<1>8. CASE Crash
  BY <1>8 DEF Crash
<1> QED
  BY <1>5, <1>6, <1>7, <1>8 DEF Next
-----------------------------------------------------------------------------
(***************************************************************************)
(* What the recorder's threads do to what is said, while calls of init()   *)
(* do not overlap: nothing; or an InitThread stores its result; or a       *)
(* RecorderThread returns; or one of them sends the message it holds.      *)
(***************************************************************************)

\* A RecorderThread still holds the message that its recording has stopped.
StopUnsent == \E r \in RecorderThread : recPc[r] = "post"

SaysNothing ==
  /\ UNCHANGED <<sState, outbox, looper>>
  /\ BusyInits' = BusyInits
  /\ StopUnsent' <=> StopUnsent

Stores(t) ==
  /\ t \in BusyInits /\ BusyInits' = {}
  /\ ~Initialized
  /\ UNCHANGED looper
  /\ StopUnsent' <=> StopUnsent
  /\ \/ \E m \in Message :
          /\ m.what = "ON_FAILED_TO_INIT" /\ sState' = "FAILED_TO_INIT"
          /\ outbox' = [outbox EXCEPT ![t] = <<m>>]
     \/ \E m \in Message :
          /\ m.what = "ON_INITIALIZED" /\ sState = "UNINITIALIZED" /\ sState' = "FREE"
          /\ outbox' = [outbox EXCEPT ![t] = <<m>>]
     \/ /\ sState = "FAILED_TO_INIT" /\ sState' = "FREE"
        /\ outbox' = [outbox EXCEPT ![t] = << >>]

Returns(r) ==
  /\ sState = "RECORDING" /\ sState' = "FREE"
  /\ BusyInits' = BusyInits
  /\ UNCHANGED looper
  /\ outbox' = [outbox EXCEPT ![r] = <<StopOf(r)>>]
  /\ StopUnsent'

Says(u, m) ==
  /\ outbox[u] = <<m>> /\ outbox' = [outbox EXCEPT ![u] = << >>]
  /\ looper' = Append(looper, m)
  /\ UNCHANGED sState
  /\ BusyInits' = BusyInits
  /\ m.what # "ON_START_RECORDER"
  /\ m.what # "ON_STOP_RECORDER" => (StopUnsent' <=> StopUnsent)

LEMMA SendSays ==
  ASSUME TypeOK, OneMessage, NEW u \in Thread, SendMessage(u)
  PROVE  \/ outbox[u] = << >> /\ UNCHANGED <<outbox, looper>>
         \/ \E m \in Message :
              /\ outbox[u] = <<m>> /\ outbox' = [outbox EXCEPT ![u] = << >>]
              /\ looper' = Append(looper, m)
<1>1. CASE outbox[u] = << >>
  <2>1. [outbox EXCEPT ![u] = << >>] = outbox /\ looper \o << >> = looper
    BY <1>1 DEF TypeOK
  <2> QED
    BY <1>1, <2>1 DEF SendMessage
<1>2. ASSUME NEW m \in Message, outbox[u] = <<m>>
      PROVE  /\ outbox' = [outbox EXCEPT ![u] = << >>]
             /\ looper' = Append(looper, m)
  <2>1. looper \o <<m>> = Append(looper, m)
    BY DEF TypeOK
  <2> QED
    BY <1>2, <2>1 DEF SendMessage
<1> QED
  BY <1>1, <1>2 DEF OneMessage

\* An InitThread says how init() has ended and nothing else.
InitsTell ==
  ~overlapped => \A t \in InitThread : \A m \in Message :
    outbox[t] = <<m>> => m.what \in {"ON_INITIALIZED", "ON_FAILED_TO_INIT"}

\* What an InitThread does when it stores its result.
LEMMA InitStores ==
  ASSUME TypeOK, IInv, NEW t \in InitThread, ~overlapped, InitFails(t) \/ InitSucceeds(t)
  PROVE  Stores(t)
<1> USE DEF InitStep, TypeOK
<1>1. /\ t \in BusyInits /\ BusyInits' = BusyInits \ {t}
      /\ UNCHANGED <<looper, recPc>>
  BY DEF InitFails, InitSucceeds, BusyInits, InitBusy
<1>2. BusyInits' = {} /\ ~Initialized
  BY <1>1 DEF IInv, InitIsAlone
<1>3. StopUnsent' <=> StopUnsent
  BY <1>1 DEF StopUnsent
<1>4. \/ \E m \in Message :
           /\ m.what = "ON_FAILED_TO_INIT" /\ sState' = "FAILED_TO_INIT"
           /\ outbox' = [outbox EXCEPT ![t] = <<m>>]
      \/ \E m \in Message :
           /\ m.what = "ON_INITIALIZED" /\ sState = "UNINITIALIZED" /\ sState' = "FREE"
           /\ outbox' = [outbox EXCEPT ![t] = <<m>>]
      \/ /\ sState = "FAILED_TO_INIT" /\ sState' = "FREE"
         /\ outbox' = [outbox EXCEPT ![t] = << >>]
  <2>1. CASE InitFails(t)
    <3> DEFINE m == [what |-> "ON_FAILED_TO_INIT",
                     arg |-> IF AbiSupported THEN "NOT_ROOTED" ELSE "ABI_NOT_SUPPORTED"]
    <3>1. m \in Message /\ m.what = "ON_FAILED_TO_INIT"
      BY DEF Message, What, ErrorId
    <3>2. sState' = "FAILED_TO_INIT" /\ outbox' = [outbox EXCEPT ![t] = <<m>>]
      BY <1>2, <2>1 DEF InitFails, SetState, Announcement, Initialized
    <3> QED
      BY <3>1, <3>2
  <2>2. CASE InitSucceeds(t)
    <3> DEFINE m == [what |-> "ON_INITIALIZED", arg |-> NULL]
    <3>1. m \in Message /\ m.what = "ON_INITIALIZED"
      BY DEF Message, What
    <3>2. sState' = "FREE" /\ sState \in {"UNINITIALIZED", "FAILED_TO_INIT"}
      BY <1>2, <2>2 DEF InitSucceeds, SetState, Initialized, State
    <3>3. sState = "UNINITIALIZED" => outbox' = [outbox EXCEPT ![t] = <<m>>]
      BY <2>2 DEF InitSucceeds, SetState, Announcement
    <3>4. sState = "FAILED_TO_INIT" => outbox' = [outbox EXCEPT ![t] = << >>]
      BY <2>2 DEF InitSucceeds, SetState, Announcement
    <3> QED
      BY <3>1, <3>2, <3>3, <3>4
  <2> QED
    BY <2>1, <2>2
<1> QED
  BY <1>1, <1>2, <1>3, <1>4 DEF Stores

LEMMA InitsTellStep == ASSUME TypeOK, IInv, InitsTell, [Next]_vars PROVE InitsTell'
<1> SUFFICES ASSUME ~overlapped', NEW t \in InitThread, NEW m \in Message, outbox'[t] = <<m>>
             PROVE  m.what \in {"ON_INITIALIZED", "ON_FAILED_TO_INIT"}
  BY DEF InitsTell
<1> USE ConstantsAssumption DEF TypeOK, InitsTell
<1>0. t \in Thread /\ <<m>> # << >>
  BY DEF Thread
<1>1. CASE outbox'[t] = outbox[t] /\ ~overlapped
  BY <1>1
<1>2. CASE SetsStateListener \/ HandleMessage \/ StopKill \/ UNCHANGED vars
  BY <1>1, <1>2 DEF SetsStateListener, HandleMessage, StopKill, vars, appVars
<1>3. ASSUME NEW u \in InitThread, InitCall(u) PROVE m.what \in {"ON_INITIALIZED", "ON_FAILED_TO_INIT"}
  BY <1>1, <1>3 DEF InitCall
<1>4. ASSUME NEW u \in InitThread, InitFails(u) \/ InitSucceeds(u)
      PROVE  m.what \in {"ON_INITIALIZED", "ON_FAILED_TO_INIT"}
  <2>1. ~overlapped
    BY <1>4 DEF InitFails, InitSucceeds, InitStep
  <2>2. Stores(u)
    BY <1>4, <2>1, InitStores
  <2>3. outbox'[t] = outbox[t] \/ u = t
    BY <1>0, <2>2 DEF Stores
  <2>4. CASE u = t
    <3>1. u \in Thread /\ outbox'[u] = <<m>> /\ <<m>> # << >>
      BY <2>4 DEF Thread
    <3>2. \A n : <<n>> = <<m>> => n = m
      OBVIOUS
    <3>3. CASE \E n \in Message : /\ n.what \in {"ON_INITIALIZED", "ON_FAILED_TO_INIT"}
                                  /\ outbox' = [outbox EXCEPT ![u] = <<n>>]
      <4>1. PICK n \in Message : /\ n.what \in {"ON_INITIALIZED", "ON_FAILED_TO_INIT"}
                                 /\ outbox' = [outbox EXCEPT ![u] = <<n>>]
        BY <3>3, Zenon
      <4>2. outbox'[u] = <<n>>
        BY <3>1, <4>1
      <4> QED
        BY <3>1, <3>2, <4>1, <4>2, Zenon
    <3>4. CASE outbox' = [outbox EXCEPT ![u] = << >>]
      BY <3>1, <3>4
    <3> QED
      BY <2>2, <3>3, <3>4, Zenon DEF Stores
  <2> QED
    BY <1>1, <2>1, <2>3, <2>4
<1>5. ASSUME NEW u \in InitThread, InitRun(u), ~InitFails(u), ~InitSucceeds(u)
      PROVE  m.what \in {"ON_INITIALIZED", "ON_FAILED_TO_INIT"}
  <2>1. CASE InitSends(u)
    <3>1. outbox' = [outbox EXCEPT ![u] = << >>] /\ ~overlapped
      BY <2>1 DEF InitSends, InitStep, SendMessage
    <3>2. outbox'[t] = IF u = t THEN << >> ELSE outbox[t]
      BY <1>0, <3>1
    <3> QED
      BY <1>0, <1>1, <3>1, <3>2
  <2> QED
    BY <1>1, <1>5, <2>1 DEF InitRun, InitRooted, InitChecksBinary, InitCreatesBinary,
       InitCopiesBinary, InitStep
<1>6. ASSUME NEW r \in RecorderThread, Start(r) \/ StopFindPid(r) \/ RecRun(r) \/ NativeProceeds(r)
      PROVE  m.what \in {"ON_INITIALIZED", "ON_FAILED_TO_INIT"}
  <2>1. r # t
    OBVIOUS
  <2> QED
    BY <1>0, <1>1, <1>6, <2>1 DEF Start, StopFindPid, RecRun, RecExecutes, RecReturns, RecSends, RecStep,
       NativeProceeds, appVars, SetState, SendMessage
<1>7. CASE Crash
  BY <1>7 DEF Crash, Thread
<1> QED
  BY <1>2, <1>3, <1>4, <1>5, <1>6, <1>7 DEF Next

\* A thread that sends either has nothing to send or says what it holds.
LEMMA SenderSays ==
  ASSUME TypeOK, OneMessage, InitsTell, OutboxesTell, ~overlapped,
         \/ \E t \in InitThread : InitSends(t)
         \/ \E r \in RecorderThread : RecSends(r)
  PROVE  SaysNothing \/ \E u \in Thread, m \in Message : Says(u, m)
<1> USE DEF TypeOK
<1>1. ASSUME NEW t \in InitThread, InitSends(t)
      PROVE  SaysNothing \/ \E u \in Thread, m \in Message : Says(u, m)
  <2>1. t \in Thread /\ SendMessage(t)
    BY <1>1 DEF Thread, InitSends
  <2>2. UNCHANGED <<sState, recPc>> /\ BusyInits' = BusyInits
    BY <1>1 DEF InitSends, InitStep, BusyInits, InitBusy
  <2>3. StopUnsent' <=> StopUnsent
    BY <2>2 DEF StopUnsent
  <2>4. CASE outbox[t] = << >> /\ UNCHANGED <<outbox, looper>>
    BY <2>2, <2>3, <2>4 DEF SaysNothing
  <2>5. ASSUME NEW m \in Message, outbox[t] = <<m>>, outbox' = [outbox EXCEPT ![t] = << >>],
               looper' = Append(looper, m)
        PROVE  Says(t, m)
    <3>1. m.what # "ON_START_RECORDER"
      BY <2>5 DEF InitsTell
    <3> QED
      BY <2>2, <2>3, <2>5, <3>1 DEF Says
  <2>6. \/ outbox[t] = << >> /\ UNCHANGED <<outbox, looper>>
        \/ \E m \in Message :
             /\ outbox[t] = <<m>> /\ outbox' = [outbox EXCEPT ![t] = << >>]
             /\ looper' = Append(looper, m)
    BY <2>1, SendSays
  <2> QED
    BY <2>1, <2>4, <2>5, <2>6
<1>2. ASSUME NEW r \in RecorderThread, RecSends(r)
      PROVE  \E u \in Thread, m \in Message : Says(u, m)
  <2>1. r \in Thread /\ SendMessage(r)
    BY <1>2 DEF Thread, RecSends
  <2>2. UNCHANGED <<sState, initPc>> /\ BusyInits' = BusyInits
    BY <1>2 DEF RecSends, RecStep, BusyInits
  <2>3. outbox[r] = <<StopOf(r)>>
    BY <1>2 DEF RecSends, RecStep, OutboxesTell
  <2>4. StopOf(r) \in Message /\ StopOf(r).what = "ON_STOP_RECORDER"
    BY DEF StopOf, Message, What
  <2>5. PICK m \in Message : /\ outbox[r] = <<m>> /\ outbox' = [outbox EXCEPT ![r] = << >>]
                             /\ looper' = Append(looper, m)
    <3>1. outbox[r] # << >>
      BY <2>3
    <3> QED
      BY <2>1, <3>1, SendSays
  <2>6. m = StopOf(r)
    BY <2>3, <2>5
  <2>7. Says(r, m)
    BY <2>2, <2>4, <2>5, <2>6 DEF Says
  <2> QED
    BY <2>1, <2>7
<1> QED
  BY <1>1, <1>2

LEMMA BackgroundStep ==
  ASSUME TypeOK, IInv, DInv, OneMessage, InitsTell, ~overlapped, Background
  PROVE  /\ UNCHANGED <<app, heard, overlapped, pidToKill, sFileName>>
         /\ \/ SaysNothing
            \/ \E t \in InitThread : Stores(t)
            \/ \E r \in RecorderThread : Returns(r)
            \/ \E u \in Thread, m \in Message : Says(u, m)
<1> USE DEF TypeOK
<1>1. UNCHANGED <<app, heard, overlapped, pidToKill, sFileName>>
  BY DEF Background, SetsStateListener, InitRun, InitRooted, InitFails, InitChecksBinary,
     InitCreatesBinary, InitCopiesBinary, InitSucceeds, InitSends, InitStep, RecRun, RecExecutes,
     RecReturns, RecSends, RecStep, NativeProceeds, appVars
<1>2. CASE SetsStateListener \/ \E r \in RecorderThread : NativeProceeds(r)
  <2>1. SaysNothing
    BY <1>2 DEF SetsStateListener, NativeProceeds, appVars, SaysNothing, BusyInits, StopUnsent
  <2> QED
    BY <1>1, <2>1
<1>3. ASSUME NEW t \in InitThread, InitRooted(t) \/ InitChecksBinary(t) \/ InitCreatesBinary(t)
                                   \/ InitCopiesBinary(t)
      PROVE  SaysNothing
  <2>1. UNCHANGED <<sState, outbox, looper, recPc>>
    BY <1>3 DEF InitRooted, InitChecksBinary, InitCreatesBinary, InitCopiesBinary, InitStep
  <2>2. BusyInits' = BusyInits
    BY <1>3 DEF InitRooted, InitChecksBinary, InitCreatesBinary, InitCopiesBinary, InitStep,
       BusyInits, InitBusy
  <2> QED
    BY <2>1, <2>2 DEF SaysNothing, StopUnsent
<1>4. ASSUME NEW t \in InitThread, InitFails(t) \/ InitSucceeds(t) PROVE Stores(t)
  BY <1>4, InitStores
<1>5. ASSUME NEW r \in RecorderThread, RecExecutes(r) PROVE SaysNothing
  <2>1. UNCHANGED <<sState, outbox, looper, initPc>>
    BY <1>5 DEF RecExecutes, RecStep
  <2>2. \A q \in RecorderThread : recPc'[q] = "post" <=> recPc[q] = "post"
    BY <1>5 DEF RecExecutes, RecStep
  <2> QED
    BY <2>1, <2>2 DEF SaysNothing, BusyInits, StopUnsent
<1>6. ASSUME NEW r \in RecorderThread, RecReturns(r) PROVE Returns(r)
  <2>1. UNCHANGED <<looper, initPc>> /\ recPc'[r] = "post"
    BY <1>6 DEF RecReturns, RecStep
  <2>2. sState = "RECORDING"
    BY <1>6 DEF RecReturns, RecStep, IInv, StateTellsRecording, BusyRecorders, RecBusy
  <2>3. sState' = "FREE" /\ outbox' = [outbox EXCEPT ![r] = <<StopOf(r)>>]
    BY <1>6, <2>2 DEF RecReturns, SetState, Announcement, StopOf
  <2> QED
    BY <2>1, <2>2, <2>3 DEF Returns, BusyInits, StopUnsent
<1>7. CASE (\E t \in InitThread : InitSends(t)) \/ (\E r \in RecorderThread : RecSends(r))
  BY <1>1, <1>7, SenderSays DEF DInv
<1> QED
  BY <1>1, <1>2, <1>3, <1>4, <1>5, <1>6, <1>7 DEF Background, InitRun, RecRun

\* A recording that no stop request has reached after a step of the
\* recorder's threads had been reached by none before.
LEMMA UndisturbedBefore ==
  ASSUME TypeOK, IInv, NativeOnce, Background, ~overlapped, sState = "RECORDING", Undisturbed',
         UNCHANGED <<sState, sFileName, overlapped, stopLost>>
  PROVE  Undisturbed
<1> USE DEF TypeOK
<1>1. sFileName \in BusyRecorders
  BY DEF IInv, StateTellsRecording
<1>2. SUFFICES ASSUME native[sFileName] \in {"stopping", "gone"}
               PROVE  native'[sFileName] \in {"stopping", "gone"}
  BY DEF Undisturbed
<1>3. ASSUME NEW r \in RecorderThread, RecRun(r) PROVE native'[sFileName] \in {"stopping", "gone"}
  BY <1>1, <1>2, <1>3 DEF RecRun, RecExecutes, RecReturns, RecSends, RecStep, NativeOnce,
     BusyRecorders, RecBusy
<1>4. ASSUME NEW r \in RecorderThread, NativeProceeds(r)
      PROVE  native'[sFileName] \in {"stopping", "gone"}
  BY <1>1, <1>2, <1>4 DEF NativeProceeds, ByItself, BusyRecorders
<1>5. CASE SetsStateListener \/ \E t \in InitThread : InitRun(t)
  BY <1>2, <1>5 DEF SetsStateListener, InitRun, InitRooted, InitFails, InitChecksBinary,
     InitCreatesBinary, InitCopiesBinary, InitSucceeds, InitSends, InitStep
<1> QED
  BY <1>3, <1>4, <1>5 DEF Background
-----------------------------------------------------------------------------
(***************************************************************************)
(* What is broadcast, and to whom.                                         *)
(***************************************************************************)

\* Until it is registered RecorderModel has received nothing, and the
\* activity registers it.
RegisteredFirst ==
  /\ ~registered => broadcasts = << >> /\ mRecorderState = "UNINITIALIZED"
  /\ screen # "none" => registered

\* The changes that are broadcast.
KnownChanges ==
  Range(broadcasts) \subseteq
    {[old |-> "UNINITIALIZED", new |-> "FREE"], [old |-> "UNINITIALIZED", new |-> "FAILED_TO_INIT"],
     [old |-> "FREE", new |-> "RECORDING"], [old |-> "RECORDING", new |-> "FREE"]}

\* Before init() has stored a result there is nothing to say.
NothingToSay ==
  ~overlapped /\ sState = "UNINITIALIZED" =>
    /\ looper = << >> /\ heard = << >> /\ \A t \in Thread : outbox[t] = << >>
    /\ broadcasts = << >> /\ mRecorderState = "UNINITIALIZED"

\* Calls of init() that have overlapped are forgotten with the app only.
LEMMA OverlapLasts ==
  ASSUME [AppNext]_appvars, ~overlapped', ~AppCrash
  PROVE  ~overlapped
<1> USE DEF core, vars, appVars
<1>1. CASE Service
  BY <1>1 DEF Service, ServiceInit, InitCall, ServiceStart, Start, ServiceStopsNothing, ServiceFindsPid,
     StopFindPid, ServiceKills, StopKill
<1>2. CASE ServiceCallback \/ ModelReceives
  BY <1>2 DEF ServiceCallback, HandleMessage, ModelReceives
<1>3. CASE \/ ActivityCreated \/ FragmentReplaced \/ ActivityReused \/ ActivityCovered
           \/ ActivityLeft \/ ClickShutter \/ TapNotification \/ UNCHANGED appvars
  BY <1>3 DEF ActivityCreated, FragmentReplaced, ActivityReused, ActivityCovered, ActivityLeft,
     ClickShutter, TapNotification, appvars
<1>4. CASE Background
  BY <1>4 DEF Background, SetsStateListener, InitRun, InitRooted, InitFails, InitChecksBinary,
     InitCreatesBinary, InitCopiesBinary, InitSucceeds, InitSends, InitStep, RecRun, RecExecutes,
     RecReturns, RecSends, RecStep, NativeProceeds
<1> QED
  BY <1>1, <1>2, <1>3, <1>4 DEF AppNext

\* A transaction is that of an activity which has not saved its state, and a
\* RecorderFragment is posted for a recorder that is FREE.
PostedInTime ==
  /\ posted # "none" => screen # "none" /\ ~saved
  /\ posted = "recorder" /\ ~unheard => mRecorderState = "FREE"

LEMMA PostedInTimeStep ==
  ASSUME AppTypeOK, PostedInTime, [AppNext]_appvars
  PROVE  PostedInTime'
<1> USE DEF PostedInTime, model, ui, transaction, history
<1>1. CASE \/ FragmentReplaced \/ ActivityReused \/ ActivityCovered \/ ActivityLeft \/ AppCrash
           \/ ClickStart
  BY <1>1 DEF FragmentReplaced, ActivityReused, ActivityCovered, ActivityLeft, AppCrash, ClickStart,
     ExecPendingActions, Destroyed
<1>2. CASE ModelReceives
  <2>1. UNCHANGED <<screen, saved>> /\ mRecorderState' = Head(broadcasts).new
    BY <1>2 DEF ModelReceives
  <2>2. CASE Head(broadcasts).old # "UNINITIALIZED"
    <3>1. unheard' = (posted = "recorder") /\ posted' = posted
      BY <1>2, <2>2 DEF ModelReceives, onRecorderEvent
    <3>2. posted = "recorder" => unheard'
      <4>1. SUFFICES ASSUME posted = "recorder"
                     PROVE  unheard'
        OBVIOUS
      <4>2. (posted = "recorder") = TRUE
        BY <4>1
      <4> QED
        BY <3>1, <4>2
    <3> QED
      BY <2>1, <3>1, <3>2
  <2>3. CASE onInitEvent(Head(broadcasts).new = "FREE")
    BY <2>1, <2>3 DEF onInitEvent
  <2> QED
    BY <1>2, <2>2, <2>3 DEF ModelReceives
<1>3. CASE ActivityCreated
  BY <1>3 DEF ActivityCreated
<1>4. CASE UNCHANGED <<screen, saved, posted, unheard, mRecorderState>>
  BY <1>4
<1>5. CASE Service
  BY <1>4, <1>5 DEF Service, ServiceInit, ServiceStart, ServiceStopsNothing, ServiceFindsPid, app,
     ServiceKills
<1>6. CASE ServiceCallback \/ TapNotification \/ Background \/ UNCHANGED appvars
  BY <1>4, <1>6 DEF ServiceCallback, TapNotification, Background, app, appvars
<1>7. CASE ClickShutter /\ ClickStop
  BY <1>4, <1>7 DEF ClickShutter, ClickStop
<1> QED
  BY <1>1, <1>2, <1>3, <1>5, <1>6, <1>7 DEF AppNext, ClickShutter

LEMMA RegisteredFirstStep ==
  ASSUME PostedInTime, RegisteredFirst, [AppNext]_appvars
  PROVE  RegisteredFirst'
<1> USE DEF PostedInTime, RegisteredFirst, model, ui, transaction, history
<1>1. CASE Service
  BY <1>1 DEF Service, ServiceInit, Answer, Broadcasts, ServiceStart, ServiceStopsNothing,
     ServiceFindsPid, app, ServiceKills
<1>2. CASE ServiceCallback
  BY <1>2 DEF ServiceCallback, onStopRecorder, Broadcasts
<1>3. CASE ModelReceives
  BY <1>3 DEF ModelReceives
<1>4. CASE ActivityCreated \/ FragmentReplaced \/ ActivityReused \/ ActivityCovered \/ ActivityLeft
  BY <1>4 DEF ActivityCreated, FragmentReplaced, ActivityReused, ActivityCovered, ActivityLeft,
     ExecPendingActions, Destroyed
<1>5. CASE ClickShutter \/ TapNotification
  BY <1>5 DEF ClickShutter, ClickStart, ClickStop, Destroyed, TapNotification
<1>6. CASE Background \/ UNCHANGED appvars
  BY <1>6 DEF Background, app, appvars
<1>7. CASE AppCrash
  BY <1>7 DEF AppCrash, Destroyed
<1> QED
  BY <1>1, <1>2, <1>3, <1>4, <1>5, <1>6, <1>7 DEF AppNext

\* A broadcast adds its change to those under way, if anyone receives it.
LEMMA BroadcastAdds ==
  ASSUME AppTypeOK, NEW old \in State, NEW new \in State, Broadcasts(old, new)
  PROVE  /\ [old |-> old, new |-> new] \in Change
         /\ registered => /\ broadcasts' = Append(broadcasts, [old |-> old, new |-> new])
                          /\ Range(broadcasts') = Range(broadcasts) \cup {[old |-> old, new |-> new]}
         /\ ~registered => broadcasts' = broadcasts
<1>1. [old |-> old, new |-> new] \in Change /\ broadcasts \in Seq(Change)
  BY DEF Change, AppTypeOK
<1>2. Range(Append(broadcasts, [old |-> old, new |-> new]))
        = Range(broadcasts) \cup {[old |-> old, new |-> new]}
  BY <1>1, RangeAppend
<1> QED
  BY <1>1, <1>2 DEF Broadcasts

\* The change that RecorderService broadcasts for a message.
ChangeOf(message) ==
  CASE message.what = "ON_INITIALIZED" -> [old |-> "UNINITIALIZED", new |-> "FREE"]
    [] message.what = "ON_START_RECORDER" -> [old |-> "FREE", new |-> "RECORDING"]
    [] message.what = "ON_STOP_RECORDER" -> [old |-> "RECORDING", new |-> "FREE"]
    [] message.what = "ON_FAILED_TO_INIT" -> [old |-> "UNINITIALIZED", new |-> "FAILED_TO_INIT"]

LEMMA CallbackSays ==
  ASSUME AppTypeOK, ServiceCallback
  PROVE  /\ looper # << >> /\ looper \in Seq(Message) /\ looper' = Tail(looper)
         /\ Head(looper) \in Message
         /\ ChangeOf(Head(looper)) \in Change
         /\ registered =>
              /\ broadcasts' = Append(broadcasts, ChangeOf(Head(looper)))
              /\ Range(broadcasts') = Range(broadcasts) \cup {ChangeOf(Head(looper))}
         /\ ~registered => broadcasts' = broadcasts
<1> DEFINE m == Head(looper)
<1>1. /\ looper # << >> /\ looper \in Seq(Message) /\ looper' = Tail(looper)
      /\ m \in Message /\ m.what \in What
  <2>1. looper # << >> /\ looper \in Seq(Message) /\ looper' = Tail(looper)
    BY DEF ServiceCallback, HandleMessage, AppTypeOK, TypeOK
  <2>2. m \in Message
    BY <2>1
  <2> QED
    BY <2>1, <2>2 DEF Message
<1>2. ASSUME NEW old \in State, NEW new \in State, Broadcasts(old, new),
             ChangeOf(m) = [old |-> old, new |-> new]
      PROVE  /\ ChangeOf(m) \in Change
             /\ registered => /\ broadcasts' = Append(broadcasts, ChangeOf(m))
                              /\ Range(broadcasts') = Range(broadcasts) \cup {ChangeOf(m)}
             /\ ~registered => broadcasts' = broadcasts
  BY <1>2, BroadcastAdds
<1> HIDE DEF m
<1>3. CASE m.what = "ON_STOP_RECORDER"
  <2>1. Broadcasts("RECORDING", "FREE")
    BY <1>3 DEF ServiceCallback, onStopRecorder, m
  <2>2. ChangeOf(m) = [old |-> "RECORDING", new |-> "FREE"]
    BY <1>3 DEF ChangeOf
  <2> QED
    BY <1>1, <1>2, <2>1, <2>2 DEF State, m
<1>4. CASE m.what = "ON_START_RECORDER"
  <2>1. Broadcasts("FREE", "RECORDING")
    BY <1>4 DEF ServiceCallback, NewState, m
  <2>2. ChangeOf(m) = [old |-> "FREE", new |-> "RECORDING"]
    BY <1>4 DEF ChangeOf
  <2> QED
    BY <1>1, <1>2, <2>1, <2>2 DEF State, m
<1>5. CASE m.what = "ON_INITIALIZED"
  <2>1. Broadcasts("UNINITIALIZED", "FREE")
    BY <1>5 DEF ServiceCallback, NewState, m
  <2>2. ChangeOf(m) = [old |-> "UNINITIALIZED", new |-> "FREE"]
    BY <1>5 DEF ChangeOf
  <2> QED
    BY <1>1, <1>2, <2>1, <2>2 DEF State, m
<1>6. CASE m.what = "ON_FAILED_TO_INIT"
  <2>1. Broadcasts("UNINITIALIZED", "FAILED_TO_INIT")
    BY <1>6 DEF ServiceCallback, NewState, m
  <2>2. ChangeOf(m) = [old |-> "UNINITIALIZED", new |-> "FAILED_TO_INIT"]
    BY <1>6 DEF ChangeOf
  <2> QED
    BY <1>1, <1>2, <2>1, <2>2 DEF State, m
<1> QED
  BY <1>1, <1>3, <1>4, <1>5, <1>6 DEF What

\* What an initialized recorder answers to INIT, as a change.
AnswerChange ==
  IF sState = "RECORDING" THEN [old |-> "FREE", new |-> "RECORDING"]
                          ELSE [old |-> "UNINITIALIZED", new |-> "FREE"]

LEMMA AnswerSays ==
  ASSUME AppTypeOK, Answer
  PROVE  /\ AnswerChange \in Change
         /\ registered => /\ broadcasts' = Append(broadcasts, AnswerChange)
                          /\ Range(broadcasts') = Range(broadcasts) \cup {AnswerChange}
         /\ ~registered => broadcasts' = broadcasts
<1>1. CASE sState = "RECORDING"
  BY <1>1, BroadcastAdds DEF Answer, AnswerChange, State
<1>2. CASE sState # "RECORDING"
  BY <1>2, BroadcastAdds DEF Answer, AnswerChange, State
<1> QED
  BY <1>1, <1>2

\* RecorderModel takes the first of the broadcasts.
LEMMA ReceiveTakes ==
  ASSUME AppTypeOK, ModelReceives
  PROVE  /\ broadcasts # << >> /\ broadcasts \in Seq(Change) /\ broadcasts' = Tail(broadcasts)
         /\ Head(broadcasts) \in Change
         /\ Range(broadcasts) = {Head(broadcasts)} \cup Range(broadcasts')
<1>1. broadcasts # << >> /\ broadcasts \in Seq(Change) /\ broadcasts' = Tail(broadcasts)
  BY DEF ModelReceives, AppTypeOK
<1> QED
  BY <1>1, RangeTail

\* start() says that the recording has begun before it returns.
LEMMA StartSays ==
  ASSUME TypeOK, NEW r \in RecorderThread, Start(r)
  PROVE  /\ StartOf(r) \in Message /\ looper \in Seq(Message)
         /\ looper' = Append(looper, StartOf(r))
         /\ Range(looper') = Range(looper) \cup {StartOf(r)}
<1>1. StartOf(r) \in Message /\ looper \in Seq(Message)
  BY DEF StartOf, Message, What, TypeOK
<1>2. Announcement(sState, "RECORDING", r) = <<StartOf(r)>>
  BY DEF Start, CanStart, Announcement, StartOf
<1>3. looper' = Append(looper, StartOf(r))
  <2>1. looper \o <<StartOf(r)>> = Append(looper, StartOf(r))
    BY <1>1
  <2> QED
    BY <1>2, <2>1 DEF Start
<1>4. Range(Append(looper, StartOf(r))) = Range(looper) \cup {StartOf(r)}
  BY <1>1, RangeAppend
<1> QED
  BY <1>1, <1>3, <1>4

LEMMA KnownChangesStep ==
  ASSUME AppTypeOK, KnownChanges, [AppNext]_appvars
  PROVE  KnownChanges'
<1> USE DEF KnownChanges
<1>1. CASE UNCHANGED broadcasts
  BY <1>1
<1>2. CASE ServiceInit
  <2>1. Answer => KnownChanges'
    BY AnswerSays DEF AnswerChange
  <2> QED
    BY <1>1, <1>2, <2>1 DEF ServiceInit
<1>3. CASE Service /\ ~ServiceInit
  BY <1>1, <1>3 DEF Service, ServiceStart, ServiceStopsNothing, ServiceFindsPid, app, ServiceKills
<1>4. CASE ServiceCallback
  <2>1. ChangeOf(Head(looper)) \in
          {[old |-> "UNINITIALIZED", new |-> "FREE"], [old |-> "UNINITIALIZED", new |-> "FAILED_TO_INIT"],
           [old |-> "FREE", new |-> "RECORDING"], [old |-> "RECORDING", new |-> "FREE"]}
    BY <1>4, CallbackSays DEF ChangeOf, Message, What
  <2> QED
    BY <1>4, <2>1, CallbackSays
<1>5. CASE ModelReceives
  BY <1>5, ReceiveTakes
<1>6. CASE \/ ActivityCreated \/ FragmentReplaced \/ ActivityReused \/ ActivityCovered
           \/ ActivityLeft \/ ClickShutter \/ TapNotification \/ Background \/ UNCHANGED appvars
  BY <1>1, <1>6 DEF ActivityCreated, FragmentReplaced, ActivityReused, ActivityCovered, ActivityLeft,
     ClickShutter, TapNotification, Background, app, appvars
<1>7. CASE AppCrash
  BY <1>7, RangeEmpty DEF AppCrash
<1> QED
  BY <1>2, <1>3, <1>4, <1>5, <1>6, <1>7 DEF AppNext

LEMMA NothingToSayStep ==
  ASSUME AppTypeOK, IInv, DInv, OneMessage, InitsTell, NothingToSay, [AppNext]_appvars
  PROVE  NothingToSay'
<1> SUFFICES ASSUME ~overlapped', sState' = "UNINITIALIZED"
             PROVE  NothingToSay'
  BY DEF NothingToSay
<1>1. CASE AppCrash
  BY <1>1 DEF AppCrash, Crash, NothingToSay
<1>2. CASE UNCHANGED <<sState, looper, heard, outbox, broadcasts, mRecorderState>>
  BY <1>1, <1>2, OverlapLasts DEF NothingToSay
<1>3. CASE Service
  BY <1>2, <1>3 DEF Service, ServiceInit, InitCall, Initialized, ServiceStart, Start, ServiceStopsNothing,
     ServiceFindsPid, StopFindPid, app, ServiceKills, StopKill, core, vars, appVars, model
<1>4. CASE ServiceCallback
  BY <1>1, <1>4, OverlapLasts DEF ServiceCallback, HandleMessage, NothingToSay
<1>5. CASE ModelReceives
  BY <1>1, <1>5, OverlapLasts DEF ModelReceives, core, vars, appVars, NothingToSay
<1>6. CASE \/ ActivityCreated \/ FragmentReplaced \/ ActivityReused \/ ActivityCovered
           \/ ActivityLeft \/ ClickShutter \/ TapNotification \/ UNCHANGED appvars
  BY <1>1, <1>2, <1>6 DEF ActivityCreated, FragmentReplaced, ActivityReused, ActivityCovered,
     ActivityLeft, ClickShutter, TapNotification, appvars, app, core, vars, appVars, model
<1>7. CASE Background /\ ~AppCrash
  <2>1. ~overlapped
    BY <1>7, OverlapLasts
  <2>2. UNCHANGED <<app, heard>>
    BY <1>7, <2>1, BackgroundStep DEF AppTypeOK
  <2>3. SaysNothing \/ (\E t \in InitThread : Stores(t)) \/ (\E r \in RecorderThread : Returns(r))
        \/ \E u \in Thread, m \in Message : Says(u, m)
    BY <1>7, <2>1, BackgroundStep DEF AppTypeOK
  <2>4. CASE SaysNothing
    BY <1>2, <1>7, <2>2, <2>4 DEF SaysNothing, app, model
  <2>5. CASE (\E t \in InitThread : Stores(t)) \/ (\E r \in RecorderThread : Returns(r))
    BY <2>5 DEF Stores, Returns
  <2>6. ASSUME NEW u \in Thread, NEW m \in Message, Says(u, m) PROVE FALSE
    <3>1. outbox[u] = <<m>> /\ sState = "UNINITIALIZED"
      BY <2>6 DEF Says
    <3>2. outbox[u] = << >>
      BY <2>1, <3>1 DEF NothingToSay
    <3> QED
      BY <3>1, <3>2
  <2> QED
    BY <2>3, <2>4, <2>5, <2>6
<1> QED
  BY <1>1, <1>3, <1>4, <1>5, <1>6, <1>7 DEF AppNext
-----------------------------------------------------------------------------
(***************************************************************************)
(* start() and stop() are asked of an initialized recorder.  What is said  *)
(* of an initialized recorder is said after it has become one, and it      *)
(* stays one: while calls of init() do not overlap, an InitThread stores   *)
(* its result before the recorder is initialized and not again.            *)
(***************************************************************************)

SaidOnceTrue ==
  ~overlapped /\ ~Initialized =>
    /\ screen # "recorder" /\ posted # "recorder" /\ ~foreground /\ ~ModelInitialized
    /\ \A c \in Range(broadcasts) : c.new = "FAILED_TO_INIT"
    /\ \A m \in Range(looper) : m.what = "ON_FAILED_TO_INIT"
    /\ \A t \in Thread, m \in Message : outbox[t] = <<m>> => m.what = "ON_FAILED_TO_INIT"
    /\ \A i \in DOMAIN commands : i > redelivered => commands[i] = "INIT"

LEMMA InitializedLasts ==
  ASSUME AppTypeOK, IInv, DInv, OneMessage, InitsTell, [AppNext]_appvars,
         ~overlapped', ~AppCrash, Initialized
  PROVE  Initialized'
<1> USE DEF core, vars, appVars, Initialized
<1>1. CASE Service
  BY <1>1 DEF Service, ServiceInit, InitCall, ServiceStart, Start, ServiceStopsNothing, ServiceFindsPid,
     StopFindPid, ServiceKills, StopKill
<1>2. CASE ServiceCallback \/ ModelReceives
  BY <1>2 DEF ServiceCallback, HandleMessage, ModelReceives
<1>3. CASE \/ ActivityCreated \/ FragmentReplaced \/ ActivityReused \/ ActivityCovered
           \/ ActivityLeft \/ ClickShutter \/ TapNotification \/ UNCHANGED appvars
  BY <1>3 DEF ActivityCreated, FragmentReplaced, ActivityReused, ActivityCovered, ActivityLeft,
     ClickShutter, TapNotification, appvars
<1>4. CASE Background
  BY <1>4, OverlapLasts, BackgroundStep DEF AppTypeOK, SaysNothing, Stores, Returns, Says
<1> QED
  BY <1>1, <1>2, <1>3, <1>4 DEF AppNext

\* Intents keep their order: those left after onStartCommand() returns, and
\* those there are after one more is sent.
LEMMA HandledShifts ==
  ASSUME AppTypeOK, commands # << >>, Handled
  PROVE  /\ \A i \in DOMAIN commands' : i + 1 \in DOMAIN commands /\ commands'[i] = commands[i + 1]
         /\ \A i \in DOMAIN commands' : i > redelivered' => i + 1 > redelivered
         /\ Range(commands) = {Head(commands)} \cup Range(commands')
<1>1. /\ Len(commands) \in Nat /\ Len(commands) # 0 /\ DOMAIN commands = 1 .. Len(commands)
      /\ DOMAIN commands' = 1 .. Len(commands) - 1
      /\ \A i \in 1 .. Len(commands) - 1 : commands'[i] = commands[i + 1]
      /\ redelivered \in Nat
  BY DEF AppTypeOK, Handled
<1>2. Range(commands) = {Head(commands)} \cup Range(commands')
  BY RangeTail DEF AppTypeOK, Handled
<1> QED
  BY <1>1, <1>2 DEF Handled

LEMMA SendsAdds ==
  ASSUME AppTypeOK, NEW command \in Action, Sends(command)
  PROVE  /\ \A i \in DOMAIN commands' :
              \/ i \in DOMAIN commands /\ commands'[i] = commands[i]
              \/ commands'[i] = command
         /\ redelivered' = redelivered
         /\ Range(commands') = Range(commands) \cup {command}
<1>1. commands \in Seq(Action) /\ commands' = Append(commands, command)
  BY DEF AppTypeOK, Sends
<1>2. Range(commands') = Range(commands) \cup {command}
  BY <1>1, RangeAppend
<1>3. \A i \in DOMAIN commands' :
        \/ i \in DOMAIN commands /\ commands'[i] = commands[i]
        \/ commands'[i] = command
  BY <1>1
<1> QED
  BY <1>2, <1>3 DEF Sends

LEMMA SaidOnceTrueStep ==
  ASSUME AppTypeOK, IInv, DInv, OneMessage, InitsTell, StopInProgress, SaidOnceTrue,
         [AppNext]_appvars
  PROVE  SaidOnceTrue'
<1> SUFFICES ASSUME ~overlapped', ~Initialized'
             PROVE  SaidOnceTrue'
  BY DEF SaidOnceTrue
<1> USE DEF intents, model, ui, transaction, history
<1>1. CASE AppCrash
  <2>1. /\ screen' = "none" /\ posted' = "none" /\ foreground' = FALSE
        /\ mRecorderState' = "UNINITIALIZED"
        /\ broadcasts' = << >> /\ looper' = << >> /\ \A t \in Thread : outbox'[t] = << >>
    BY <1>1 DEF AppCrash, Destroyed, Crash
  <2>2. \A i \in DOMAIN commands' : ~(i > redelivered')
    <3>1. commands' \in Seq(Action) /\ redelivered' = Len(commands')
      BY <1>1, RedeliversType DEF AppCrash, Redelivers
    <3> QED
      BY <3>1
  <2> QED
    BY <2>1, <2>2, RangeEmpty DEF SaidOnceTrue, ModelInitialized
<1> SUFFICES ASSUME ~AppCrash
             PROVE  SaidOnceTrue'
  BY <1>1
<1>2. ~overlapped /\ ~Initialized
  BY OverlapLasts, InitializedLasts
<1>3. /\ screen # "recorder" /\ posted # "recorder" /\ ~foreground /\ ~ModelInitialized
      /\ \A c \in Range(broadcasts) : c.new = "FAILED_TO_INIT"
      /\ \A m \in Range(looper) : m.what = "ON_FAILED_TO_INIT"
      /\ \A t \in Thread, m \in Message : outbox[t] = <<m>> => m.what = "ON_FAILED_TO_INIT"
      /\ \A i \in DOMAIN commands : i > redelivered => commands[i] = "INIT"
  BY <1>2 DEF SaidOnceTrue
<1>4. CASE ServiceInit \/ ServiceKills
  <2>1. commands # << >> /\ Handled
    BY <1>4 DEF ServiceInit, Handles, ServiceKills, StopKill, StopInProgress
  <2>2. \A i \in DOMAIN commands' : i > redelivered' => commands'[i] = "INIT"
    BY <1>3, <2>1, HandledShifts
  <2>3. UNCHANGED <<looper, outbox, broadcasts, screen, posted, mRecorderState>>
    BY <1>2, <1>4 DEF ServiceInit, InitCall, ServiceKills, StopKill
  <2>4. foreground' = FALSE
    BY <1>3, <1>4 DEF ServiceInit, ServiceKills, AppTypeOK
  <2> QED
    BY <1>3, <2>2, <2>3, <2>4 DEF SaidOnceTrue, ModelInitialized
<1>5. CASE ServiceStart \/ ServiceStopsNothing \/ ServiceFindsPid
  BY <1>2, <1>5 DEF ServiceStart, ServiceStopsNothing, ServiceFindsPid, StopFindPid, Initialized
<1>6. CASE ServiceCallback
  <2>1. ChangeOf(Head(looper)).new = "FAILED_TO_INIT"
    <3>1. Head(looper).what = "ON_FAILED_TO_INIT"
      BY <1>3, <1>6, CallbackSays, RangeTail
    <3> QED
      BY <3>1 DEF ChangeOf
  <2>2. \A c \in Range(broadcasts') : c.new = "FAILED_TO_INIT"
    BY <1>3, <1>6, <2>1, CallbackSays
  <2>3. \A m \in Range(looper') : m.what = "ON_FAILED_TO_INIT"
    BY <1>3, <1>6, CallbackSays, RangeTail
  <2>4. UNCHANGED <<outbox, screen, posted, mRecorderState, commands, redelivered>> /\ ~foreground'
    BY <1>3, <1>6 DEF ServiceCallback, onStopRecorder, HandleMessage, AppTypeOK
  <2> QED
    BY <1>3, <2>2, <2>3, <2>4 DEF SaidOnceTrue, ModelInitialized
<1>7. CASE ModelReceives
  <2>1. Head(broadcasts).new = "FAILED_TO_INIT" /\ \A c \in Range(broadcasts') : c.new = "FAILED_TO_INIT"
    BY <1>3, <1>7, ReceiveTakes
  <2>2. mRecorderState' = "FAILED_TO_INIT" /\ screen' # "recorder" /\ posted' # "recorder"
    BY <1>3, <1>7, <2>1 DEF ModelReceives, onInitEvent, onRecorderEvent
  <2>3. UNCHANGED <<outbox, looper, foreground, commands, redelivered>>
    BY <1>7 DEF ModelReceives, core, vars, appVars
  <2> QED
    BY <1>3, <2>1, <2>2, <2>3 DEF SaidOnceTrue, ModelInitialized
<1>8. CASE ActivityCreated
  <2>1. Sends("INIT") /\ "INIT" \in Action
    BY <1>8 DEF ActivityCreated, Action
  <2>2. \A i \in DOMAIN commands' : i > redelivered' => commands'[i] = "INIT"
    BY <1>3, <2>1, SendsAdds
  <2>3. /\ UNCHANGED <<outbox, looper, foreground, broadcasts, mRecorderState, posted>>
        /\ screen' = "init"
    BY <1>3, <1>8 DEF ActivityCreated, core, vars, appVars
  <2> QED
    BY <1>3, <2>2, <2>3 DEF SaidOnceTrue, ModelInitialized
<1>9. CASE FragmentReplaced \/ ActivityReused \/ ActivityCovered \/ ActivityLeft \/ UNCHANGED appvars
  <2>1. UNCHANGED <<outbox, looper, foreground, broadcasts, mRecorderState, commands, redelivered>>
        /\ screen' # "recorder" /\ posted' # "recorder"
    BY <1>3, <1>9 DEF FragmentReplaced, ActivityReused, ActivityCovered, ActivityLeft,
       ExecPendingActions, Destroyed, appvars, app, core, vars, appVars
  <2> QED
    BY <1>3, <2>1 DEF SaidOnceTrue, ModelInitialized
<1>10. CASE ClickShutter \/ TapNotification
  BY <1>3, <1>10 DEF ClickShutter, TapNotification
<1>11. CASE Background
  <2>1. UNCHANGED app
    BY <1>11 DEF Background
  <2>2. \/ SaysNothing
        \/ \E t \in InitThread : Stores(t)
        \/ \E r \in RecorderThread : Returns(r)
        \/ \E u \in Thread, m \in Message : Says(u, m)
    BY <1>2, <1>11, BackgroundStep DEF AppTypeOK
  <2> DEFINE Failures ==
        /\ \A m \in Range(looper') : m.what = "ON_FAILED_TO_INIT"
        /\ \A t \in Thread, m \in Message : outbox'[t] = <<m>> => m.what = "ON_FAILED_TO_INIT"
  <2>3. Failures
    <3>1. CASE SaysNothing
      BY <1>3, <3>1 DEF SaysNothing
    <3>2. ASSUME NEW u \in InitThread, Stores(u)
          PROVE  Failures
      <4>1. PICK n \in Message : n.what = "ON_FAILED_TO_INIT" /\ outbox' = [outbox EXCEPT ![u] = <<n>>]
        BY <3>2 DEF Stores, Initialized
      <4>2. \A t \in Thread, m \in Message : outbox'[t] = <<m>> => m = n \/ outbox[t] = <<m>>
        BY <4>1 DEF AppTypeOK, TypeOK
      <4>3. looper' = looper
        BY <3>2 DEF Stores
      <4> QED
        BY <1>3, <4>1, <4>2, <4>3
    <3>3. CASE \E r \in RecorderThread : Returns(r)
      BY <1>2, <3>3 DEF Returns, Initialized
    <3>4. ASSUME NEW u \in Thread, NEW n \in Message, Says(u, n)
          PROVE  Failures
      <4>1. n.what = "ON_FAILED_TO_INIT"
        BY <1>3, <3>4 DEF Says
      <4>2. Range(looper') = Range(looper) \cup {n}
        BY <3>4, RangeAppend DEF Says, AppTypeOK, TypeOK
      <4>3. \A t \in Thread, m \in Message : outbox'[t] = <<m>> => outbox[t] = <<m>>
        <5>1. \A m : <<m>> # << >>
          OBVIOUS
        <5> QED
          BY <3>4, <5>1 DEF Says, AppTypeOK, TypeOK
      <4> QED
        BY <1>3, <4>1, <4>2, <4>3
    <3> QED
      BY <2>2, <3>1, <3>2, <3>3, <3>4
  <2> QED
    BY <1>3, <2>1, <2>3 DEF SaidOnceTrue, ModelInitialized, app
<1> QED
  BY <1>4, <1>5, <1>6, <1>7, <1>8, <1>9, <1>10, <1>11 DEF AppNext, Service
-----------------------------------------------------------------------------
(***************************************************************************)
(* The notification.  START_REC sets it up only while something is         *)
(* recorded or about to be, and the end of a recording, which takes it     *)
(* away, is on its way as long as nothing is recorded.                     *)
(***************************************************************************)

StopComing == StopUnsent \/ StopQueued

GhostGoes == ~overlapped /\ foreground /\ sState # "RECORDING" => StopComing

LEMMA StopQueuedIs ==
  /\ StopQueued <=> \E m \in Range(looper) : m.what = "ON_STOP_RECORDER"
  /\ StopQueued' <=> \E m \in Range(looper') : m.what = "ON_STOP_RECORDER"
BY DEF StopQueued, Range

LEMMA GhostGoesStep ==
  ASSUME AppTypeOK, IInv, DInv, OneMessage, InitsTell, SaidOnceTrue, GhostGoes, [AppNext]_appvars
  PROVE  GhostGoes'
<1> SUFFICES ASSUME ~overlapped', foreground', sState' # "RECORDING"
             PROVE  StopComing'
  BY DEF GhostGoes
<1> USE DEF intents, model, ui, transaction, history, core, vars, appVars
<1>0. ~AppCrash
  BY DEF AppCrash
<1>1. ~overlapped
  BY <1>0, OverlapLasts
<1>2. CASE UNCHANGED <<foreground, sState, recPc, looper>>
  BY <1>1, <1>2 DEF GhostGoes, StopComing, StopUnsent, StopQueued
<1>3. CASE Service
  BY <1>2, <1>3 DEF Service, ServiceInit, InitCall, ServiceStart, Start, Initialized, AppTypeOK, TypeOK,
     State, ServiceStopsNothing, ServiceFindsPid, StopFindPid, app, ServiceKills
<1>4. CASE ServiceCallback
  <2>1. Head(looper).what # "ON_STOP_RECORDER" /\ UNCHANGED <<foreground, sState, recPc>>
    BY <1>4 DEF ServiceCallback, HandleMessage, onStopRecorder
  <2>2. StopComing
    BY <1>1, <2>1 DEF GhostGoes
  <2>3. Range(looper) = {Head(looper)} \cup Range(looper')
    BY <1>4, CallbackSays, RangeTail
  <2> QED
    BY <2>1, <2>2, <2>3, StopQueuedIs DEF StopComing, StopUnsent
<1>5. CASE \/ ModelReceives \/ ActivityCreated \/ FragmentReplaced \/ ActivityReused
           \/ ActivityCovered \/ ActivityLeft \/ ClickShutter \/ TapNotification \/ UNCHANGED appvars
  BY <1>2, <1>5 DEF ModelReceives, ActivityCreated, FragmentReplaced, ActivityReused, ActivityCovered,
     ActivityLeft, ClickShutter, TapNotification, appvars, app
<1>6. CASE Background
  <2>1. foreground
    BY <1>6 DEF Background, app
  <2>2. SaysNothing \/ (\E t \in InitThread : Stores(t)) \/ (\E r \in RecorderThread : Returns(r))
        \/ \E u \in Thread, m \in Message : Says(u, m)
    BY <1>1, <1>6, BackgroundStep DEF AppTypeOK
  <2>3. CASE SaysNothing
    <3>1. StopComing
      BY <1>1, <2>1, <2>3 DEF SaysNothing, GhostGoes
    <3> QED
      BY <2>3, <3>1 DEF SaysNothing, StopComing, StopQueued
  <2>4. CASE \E t \in InitThread : Stores(t)
    BY <1>1, <2>1, <2>4 DEF Stores, SaidOnceTrue
  <2>5. CASE \E r \in RecorderThread : Returns(r)
    BY <2>5 DEF Returns, StopComing
  <2>6. ASSUME NEW u \in Thread, NEW m \in Message, Says(u, m) PROVE StopComing'
    <3>1. StopComing
      BY <1>1, <2>1, <2>6 DEF Says, GhostGoes
    <3>2. Range(looper') = Range(looper) \cup {m}
      BY <2>6, RangeAppend DEF Says, AppTypeOK, TypeOK
    <3>3. CASE m.what = "ON_STOP_RECORDER"
      BY <3>2, <3>3, StopQueuedIs DEF StopComing
    <3>4. CASE m.what # "ON_STOP_RECORDER"
      <4>1. StopUnsent' <=> StopUnsent
        BY <2>6, <3>4 DEF Says
      <4>2. StopQueued => StopQueued'
        BY <3>2, StopQueuedIs
      <4> QED
        BY <3>1, <4>1, <4>2 DEF StopComing
    <3> QED
      BY <3>3, <3>4
  <2> QED
    BY <2>2, <2>3, <2>4, <2>5, <2>6
<1> QED
  BY <1>0, <1>3, <1>4, <1>5, <1>6 DEF AppNext

\* A recording starts after what is said before it, unless crossed tells.
SaidBeforeStart ==
  ~overlapped /\ sState = "RECORDING" =>
    /\ crossed # "unsent" => \A t \in Thread : outbox[t] = << >>
    /\ crossed = "no" => ~StopQueued

LEMMA SaidBeforeStartStep ==
  ASSUME AppTypeOK, IInv, DInv, OneMessage, InitsTell, SaidBeforeStart, [AppNext]_appvars
  PROVE  SaidBeforeStart'
<1> SUFFICES ASSUME ~overlapped', sState' = "RECORDING"
             PROVE  SaidBeforeStart'
  BY DEF SaidBeforeStart
<1> USE DEF intents, model, ui, transaction, history, core, vars, appVars
<1>0. ~AppCrash
  BY DEF AppCrash, Crash
<1>1. ~overlapped
  BY <1>0, OverlapLasts
<1>2. CASE UNCHANGED <<sState, outbox, looper, crossed>>
  BY <1>1, <1>2 DEF SaidBeforeStart, StopQueued
<1>3. CASE ServiceStart
  <2>1. CASE UNCHANGED <<core, crossed>>
    BY <1>2, <2>1
  <2>2. ASSUME NEW r \in RecorderThread, Start(r),
               crossed' = IF \E t \in Thread : outbox[t] # << >> THEN "unsent"
                          ELSE IF StopQueued /\ crossed = "no" THEN "queued" ELSE crossed
        PROVE  SaidBeforeStart'
    <3>1. outbox' = outbox /\ (crossed' # "unsent" => \A t \in Thread : outbox[t] = << >>)
      BY <2>2 DEF Start
    <3>2. crossed' = "no" => ~StopQueued
      BY <2>2
    <3>3. Range(looper') = Range(looper) \cup {StartOf(r)} /\ StartOf(r).what # "ON_STOP_RECORDER"
      BY <2>2, StartSays DEF AppTypeOK, StartOf
    <3>4. StopQueued' <=> StopQueued
      BY <3>3, StopQueuedIs
    <3> QED
      BY <3>1, <3>2, <3>4 DEF SaidBeforeStart
  <2> QED
    BY <1>3, <2>1, <2>2 DEF ServiceStart
<1>4. CASE Service /\ ~ServiceStart
  BY <1>2, <1>4 DEF Service, ServiceInit, InitCall, ServiceStopsNothing, ServiceFindsPid, StopFindPid, app,
     ServiceKills, StopKill
<1>5. CASE ServiceCallback
  <2>1. UNCHANGED <<sState, outbox, crossed>>
    BY <1>5 DEF ServiceCallback, HandleMessage
  <2>2. Range(looper) = {Head(looper)} \cup Range(looper')
    BY <1>5, CallbackSays, RangeTail
  <2> QED
    BY <1>1, <2>1, <2>2, StopQueuedIs DEF SaidBeforeStart
<1>6. CASE \/ ModelReceives \/ ActivityCreated \/ FragmentReplaced \/ ActivityReused
           \/ ActivityCovered \/ ActivityLeft \/ ClickShutter \/ TapNotification \/ UNCHANGED appvars
  BY <1>2, <1>6 DEF ModelReceives, ActivityCreated, FragmentReplaced, ActivityReused, ActivityCovered,
     ActivityLeft, ClickShutter, TapNotification, appvars, app
<1>7. CASE Background
  <2>1. crossed' = crossed
    BY <1>7 DEF Background, app
  <2>2. SaysNothing \/ (\E t \in InitThread : Stores(t)) \/ (\E r \in RecorderThread : Returns(r))
        \/ \E u \in Thread, m \in Message : Says(u, m)
    BY <1>1, <1>7, BackgroundStep DEF AppTypeOK
  <2>3. CASE SaysNothing
    BY <1>2, <2>1, <2>3 DEF SaysNothing
  <2>4. CASE (\E t \in InitThread : Stores(t)) \/ (\E r \in RecorderThread : Returns(r))
    BY <2>4 DEF Stores, Returns
  <2>5. ASSUME NEW u \in Thread, NEW m \in Message, Says(u, m) PROVE SaidBeforeStart'
    <3>1. sState = "RECORDING" /\ outbox[u] = <<m>>
      BY <2>5 DEF Says
    <3>2. <<m>> # << >>
      OBVIOUS
    <3>3. crossed = "unsent"
      BY <1>1, <3>1, <3>2 DEF SaidBeforeStart
    <3> QED
      BY <2>1, <3>3 DEF SaidBeforeStart
  <2> QED
    BY <2>2, <2>3, <2>4, <2>5
<1> QED
  BY <1>0, <1>3, <1>4, <1>5, <1>6, <1>7 DEF AppNext

\* stop() that hits the recording in progress has it end.
LEMMA KillDisturbs ==
  ASSUME TypeOK, NativeOnce, ServiceKills, sState = "RECORDING"
  PROVE  ~Undisturbed'
<1> SUFFICES ASSUME Undisturbed'
             PROVE  FALSE
  OBVIOUS
<1>1. /\ pidToKill \in RecorderThread /\ native[pidToKill] # "none"
      /\ native[pidToKill] \in Running \cup {"none", "gone"}
  BY DEF ServiceKills, StopKill, MainThreadFree, NativeOnce, TypeOK
<1>2. PICK life \in AfterSignal(native[pidToKill]) \cup {native[pidToKill]} :
        native' = [native EXCEPT ![pidToKill] = life]
  BY DEF ServiceKills, StopKill
<1>3. native'[pidToKill] \in Running \cup {"gone"}
  BY <1>1, <1>2 DEF AfterSignal, Running, TypeOK
<1>4. /\ pidToKill = sFileName /\ sFileName' = sFileName /\ sState' = sState
      /\ native'[pidToKill] \notin {"starting", "encoding"}
  BY DEF ServiceKills, StopKill, Undisturbed
<1> QED
  BY <1>3, <1>4 DEF Undisturbed, Running

\* The notification of a recording in progress stays until it is stopped.
NotificationStays == Undisturbed /\ crossed = "no" /\ sState = "RECORDING" => foreground

LEMMA NotificationStaysStep ==
  ASSUME AppTypeOK, IInv, DInv, OneMessage, InitsTell, NativeOnce, SaidBeforeStart,
         NotificationStays, [AppNext]_appvars
  PROVE  NotificationStays'
<1> SUFFICES ASSUME Undisturbed', crossed' = "no", sState' = "RECORDING"
             PROVE  foreground'
  BY DEF NotificationStays
<1> USE DEF intents, model, ui, transaction, history, core, vars, appVars
<1>0. ~AppCrash
  BY DEF AppCrash, Crash
<1>1. ~overlapped
  BY <1>0, OverlapLasts DEF Undisturbed
<1>2. CASE UNCHANGED <<sState, sFileName, native, overlapped, stopLost, crossed, foreground>>
  BY <1>2 DEF NotificationStays, Undisturbed
<1>3. CASE ServiceInit \/ ServiceFindsPid
  BY <1>2, <1>3 DEF ServiceInit, InitCall, StartsInitThread, Initialized, ServiceFindsPid, StopFindPid, app
<1>4. CASE ServiceStart \/ ServiceStopsNothing
  BY <1>4 DEF ServiceStart, setupNotification, ServiceStopsNothing, Undisturbed
<1>5. CASE ServiceKills
  BY <1>5, KillDisturbs DEF ServiceKills, StopKill, AppTypeOK
<1>6. CASE ServiceCallback
  <2>1. Head(looper).what # "ON_STOP_RECORDER"
    <3>1. ~StopQueued
      BY <1>1, <1>6 DEF ServiceCallback, HandleMessage, SaidBeforeStart
    <3> QED
      BY <1>6, <3>1, CallbackSays, RangeTail, StopQueuedIs
  <2> QED
    BY <1>2, <1>6, <2>1 DEF ServiceCallback, HandleMessage
<1>7. CASE \/ ModelReceives \/ ActivityCreated \/ FragmentReplaced \/ ActivityReused
           \/ ActivityCovered \/ ActivityLeft \/ ClickShutter \/ TapNotification \/ UNCHANGED appvars
  BY <1>2, <1>7 DEF ModelReceives, ActivityCreated, FragmentReplaced, ActivityReused, ActivityCovered,
     ActivityLeft, ClickShutter, TapNotification, appvars, app
<1>8. CASE Background
  <2>1. UNCHANGED <<stopLost, crossed, foreground, overlapped, sFileName>>
    BY <1>1, <1>8, BackgroundStep DEF AppTypeOK, app
  <2>2. sState' = sState
    BY <1>1, <1>8, BackgroundStep DEF AppTypeOK, SaysNothing, Stores, Returns, Says
  <2>3. Undisturbed
    BY <1>1, <1>8, <2>1, <2>2, UndisturbedBefore DEF AppTypeOK
  <2> QED
    BY <2>1, <2>2, <2>3 DEF NotificationStays
<1> QED
  BY <1>0, <1>3, <1>4, <1>5, <1>6, <1>7, <1>8 DEF AppNext, Service
-----------------------------------------------------------------------------
(***************************************************************************)
(* What the app believes.  The last that is said of the recorder, in the   *)
(* order outboxes, Looper, broadcasts, RecorderModel, is its state; of a   *)
(* recorder initialized silently, after a failure, it is the failure.      *)
(***************************************************************************)

\* ON_INITIALIZED has been sent in this life of the app.
Announced ==
  \/ Hears("ON_INITIALIZED")
  \/ \E m \in Range(looper) : m.what = "ON_INITIALIZED"
  \/ \E t \in Thread, m \in Message : outbox[t] = <<m>> /\ m.what = "ON_INITIALIZED"

\* In a life in which it has been, nothing fails.
NoFailureSaid ==
  ~overlapped /\ Announced =>
    /\ Initialized
    /\ mRecorderState # "FAILED_TO_INIT"
    /\ \A c \in Range(broadcasts) : c.new # "FAILED_TO_INIT"
    /\ \A m \in Range(looper) : m.what # "ON_FAILED_TO_INIT"
    /\ \A t \in Thread, m \in Message : outbox[t] = <<m>> => m.what # "ON_FAILED_TO_INIT"

LEMMA HearsIs ==
  ASSUME NEW what
  PROVE  /\ Hears(what) <=> \E m \in Range(heard) : m.what = what
         /\ Hears(what)' <=> \E m \in Range(heard') : m.what = what
BY DEF Hears, Range

\* Who says ON_INITIALIZED is the first InitThread of a life to succeed.
Announces ==
  /\ sState = "UNINITIALIZED" /\ sState' = "FREE" /\ BusyInits' = {} /\ UNCHANGED <<app, looper>>
  /\ StopUnsent' <=> StopUnsent
  /\ \E t \in Thread, m \in Message :
       m.what = "ON_INITIALIZED" /\ outbox' = [outbox EXCEPT ![t] = <<m>>]

LEMMA AnnouncedBefore ==
  ASSUME AppTypeOK, IInv, DInv, OneMessage, InitsTell, [AppNext]_appvars, ~AppCrash,
         ~overlapped', Announced'
  PROVE  Announced \/ (Background /\ Announces)
<1> USE DEF intents, model, ui, transaction, history, core, vars, appVars
<1>1. CASE UNCHANGED <<heard, looper, outbox>>
  BY <1>1 DEF Announced, Hears
<1>2. CASE ServiceStart
  <2>1. ASSUME NEW r \in RecorderThread, Start(r) PROVE Announced
    <3>1. Range(looper') = Range(looper) \cup {StartOf(r)} /\ StartOf(r).what # "ON_INITIALIZED"
      BY <2>1, StartSays DEF AppTypeOK, StartOf
    <3>2. UNCHANGED <<heard, outbox>>
      BY <2>1 DEF Start
    <3> QED
      BY <3>1, <3>2 DEF Announced, Hears
  <2> QED
    BY <1>1, <1>2, <2>1 DEF ServiceStart
<1>3. CASE Service /\ ~ServiceStart
  BY <1>1, <1>3 DEF Service, ServiceInit, InitCall, ServiceStopsNothing, ServiceFindsPid, StopFindPid,
     ServiceKills, StopKill
<1>4. CASE ServiceCallback
  <2>1. Range(looper) = {Head(looper)} \cup Range(looper') /\ outbox' = outbox
    BY <1>4, CallbackSays, RangeTail DEF ServiceCallback, HandleMessage
  <2>2. Head(looper) \in Message /\ heard \in Seq(Message)
    BY <1>4, CallbackSays DEF AppTypeOK, TypeOK
  <2>3. Range(heard') \subseteq Range(heard) \cup {Head(looper)}
    BY <1>4, <2>2, RangeAppend DEF ServiceCallback, HandleMessage
  <2> QED
    BY <2>1, <2>3, HearsIs DEF Announced
<1>5. CASE \/ ModelReceives \/ ActivityCreated \/ FragmentReplaced \/ ActivityReused
           \/ ActivityCovered \/ ActivityLeft \/ ClickShutter \/ TapNotification \/ UNCHANGED appvars
  BY <1>1, <1>5 DEF ModelReceives, ActivityCreated, FragmentReplaced, ActivityReused, ActivityCovered,
     ActivityLeft, ClickShutter, TapNotification, appvars, app
<1>6. CASE Background
  <2>1. UNCHANGED <<app, heard>>
    BY <1>6, OverlapLasts, BackgroundStep DEF AppTypeOK
  <2>2. SaysNothing \/ (\E t \in InitThread : Stores(t)) \/ (\E r \in RecorderThread : Returns(r))
        \/ \E u \in Thread, m \in Message : Says(u, m)
    BY <1>6, OverlapLasts, BackgroundStep DEF AppTypeOK
  <2>3. ASSUME NEW u \in Thread, NEW q \in Seq(Message), outbox' = [outbox EXCEPT ![u] = q],
               looper' = looper,
               \A m \in Message : q = <<m>> => m.what # "ON_INITIALIZED"
        PROVE  Announced
    <3>1. \A t \in Thread, m \in Message :
            outbox'[t] = <<m>> /\ m.what = "ON_INITIALIZED" => outbox[t] = <<m>>
      BY <2>3 DEF AppTypeOK, TypeOK
    <3> QED
      BY <2>1, <2>3, <3>1 DEF Announced, Hears
  <2>4. CASE SaysNothing
    BY <1>1, <2>1, <2>4 DEF SaysNothing
  <2>5. ASSUME NEW t \in InitThread, Stores(t) PROVE Announced \/ Announces
    <3>1. t \in Thread /\ UNCHANGED looper /\ BusyInits' = {} /\ (StopUnsent' <=> StopUnsent)
      BY <2>5 DEF Stores, Thread
    <3>2. ASSUME NEW m \in Message, m.what = "ON_FAILED_TO_INIT", outbox' = [outbox EXCEPT ![t] = <<m>>]
          PROVE  Announced
      <4>1. \A n : <<m>> = <<n>> => m = n
        OBVIOUS
      <4>2. <<m>> \in Seq(Message)
        OBVIOUS
      <4> QED
        BY <2>3, <3>1, <3>2, <4>1, <4>2
    <3>3. ASSUME outbox' = [outbox EXCEPT ![t] = << >>] PROVE Announced
      <4>1. << >> \in Seq(Message) /\ \A m : << >> # <<m>>
        OBVIOUS
      <4> QED
        BY <2>3, <3>1, <3>3, <4>1
    <3>4. ASSUME NEW m \in Message, m.what = "ON_INITIALIZED", sState = "UNINITIALIZED", sState' = "FREE",
                 outbox' = [outbox EXCEPT ![t] = <<m>>]
          PROVE  Announces
      BY <2>1, <3>1, <3>4 DEF Announces
    <3> QED
      BY <2>5, <3>2, <3>3, <3>4 DEF Stores
  <2>6. ASSUME NEW r \in RecorderThread, Returns(r) PROVE Announced
    <3>1. <<StopOf(r)>> \in Seq(Message) /\ r \in Thread
      BY DEF StopOf, Message, What, Thread
    <3>2. \A m : <<StopOf(r)>> = <<m>> => m.what # "ON_INITIALIZED"
      BY DEF StopOf
    <3> QED
      BY <2>3, <2>6, <3>1, <3>2 DEF Returns
  <2>7. ASSUME NEW u \in Thread, NEW m \in Message, Says(u, m) PROVE Announced
    <3>1. Range(looper') = Range(looper) \cup {m} /\ outbox[u] = <<m>>
      BY <2>7, RangeAppend DEF Says, AppTypeOK, TypeOK
    <3>2. \A t \in Thread, n \in Message : outbox'[t] = <<n>> => outbox[t] = <<n>>
      <4>1. \A n : <<n>> # << >>
        OBVIOUS
      <4> QED
        BY <2>7, <4>1 DEF Says, AppTypeOK, TypeOK
    <3> QED
      BY <2>1, <3>1, <3>2 DEF Announced, Hears
  <2> QED
    BY <1>6, <2>2, <2>4, <2>5, <2>6, <2>7
<1> QED
  BY <1>2, <1>3, <1>4, <1>5, <1>6 DEF AppNext
LEMMA NoFailureSaidStep ==
  ASSUME AppTypeOK, IInv, DInv, OneMessage, InitsTell, NothingToSay, NoFailureSaid,
         [AppNext]_appvars
  PROVE  NoFailureSaid'
<1> SUFFICES ASSUME ~overlapped', Announced'
             PROVE  NoFailureSaid'
  BY DEF NoFailureSaid
<1> USE DEF intents, model, ui, transaction, history, core, vars, appVars
<1>1. ~AppCrash
  <2>1. AppCrash => looper' = << >> /\ heard' = << >> /\ \A t \in Thread : outbox'[t] = << >>
    BY DEF AppCrash, Crash
  <2>2. \A m : << >> # <<m>>
    OBVIOUS
  <2> QED
    BY <2>1, <2>2, RangeEmpty DEF Announced, Hears
<1>2. ~overlapped
  BY <1>1, OverlapLasts
<1>3. CASE Background /\ Announces
  <2>1. PICK t \in Thread, m \in Message :
          m.what = "ON_INITIALIZED" /\ outbox' = [outbox EXCEPT ![t] = <<m>>]
    BY <1>3 DEF Announces
  <2>2. /\ looper = << >> /\ \A u \in Thread : outbox[u] = << >>
        /\ broadcasts = << >> /\ mRecorderState = "UNINITIALIZED"
    BY <1>2, <1>3 DEF Announces, NothingToSay
  <2>3. \A u \in Thread, n \in Message : outbox'[u] = <<n>> => n = m
    <3>1. \A n : << >> # <<n>> /\ (<<m>> = <<n>> => m = n)
      OBVIOUS
    <3> QED
      BY <2>1, <2>2, <3>1 DEF AppTypeOK, TypeOK
  <2>4. looper' = << >> /\ broadcasts' = << >> /\ mRecorderState' = "UNINITIALIZED" /\ Initialized'
    BY <1>3, <2>2 DEF Announces, app, Initialized
  <2> QED
    BY <2>1, <2>3, <2>4, RangeEmpty DEF NoFailureSaid
<1> SUFFICES ASSUME Announced
             PROVE  NoFailureSaid'
  BY <1>1, <1>3, AnnouncedBefore
<1>4. Initialized /\ Initialized'
  BY <1>1, <1>2, InitializedLasts DEF NoFailureSaid
<1>5. /\ mRecorderState # "FAILED_TO_INIT"
      /\ \A c \in Range(broadcasts) : c.new # "FAILED_TO_INIT"
      /\ \A m \in Range(looper) : m.what # "ON_FAILED_TO_INIT"
      /\ \A t \in Thread, m \in Message : outbox[t] = <<m>> => m.what # "ON_FAILED_TO_INIT"
  BY <1>2 DEF NoFailureSaid
<1>6. CASE UNCHANGED <<mRecorderState, broadcasts, looper, outbox>>
  BY <1>4, <1>5, <1>6 DEF NoFailureSaid
<1>7. CASE ServiceInit
  <2>1. Answer => \A c \in Range(broadcasts') : c.new # "FAILED_TO_INIT"
    BY <1>5, AnswerSays DEF AnswerChange
  <2> QED
    BY <1>4, <1>5, <1>6, <1>7, <2>1 DEF ServiceInit, InitCall, NoFailureSaid
<1>8. CASE ServiceStart
  <2>1. ASSUME NEW r \in RecorderThread, Start(r)
        PROVE  outbox' = outbox /\ \A m \in Range(looper') : m.what # "ON_FAILED_TO_INIT"
    <3>1. Range(looper') = Range(looper) \cup {StartOf(r)} /\ StartOf(r).what # "ON_FAILED_TO_INIT"
      BY <2>1, StartSays DEF AppTypeOK, StartOf
    <3> QED
      BY <1>5, <2>1, <3>1 DEF Start
  <2>2. UNCHANGED <<mRecorderState, broadcasts>>
    BY <1>8 DEF ServiceStart
  <2>3. (\E r \in RecorderThread : Start(r)) => NoFailureSaid'
    BY <1>4, <1>5, <2>1, <2>2 DEF NoFailureSaid
  <2> QED
    BY <1>6, <1>8, <2>3 DEF ServiceStart
<1>9. CASE ServiceStopsNothing \/ ServiceFindsPid \/ ServiceKills
  BY <1>6, <1>9 DEF ServiceStopsNothing, ServiceFindsPid, StopFindPid, app, ServiceKills, StopKill
<1>10. CASE ServiceCallback
  <2>1. Head(looper) \in Message /\ Range(looper) = {Head(looper)} \cup Range(looper')
    BY <1>10, CallbackSays, RangeTail
  <2>2. ChangeOf(Head(looper)).new # "FAILED_TO_INIT"
    BY <1>5, <2>1 DEF ChangeOf, Message, What
  <2>3. \A c \in Range(broadcasts') : c.new # "FAILED_TO_INIT"
    BY <1>5, <1>10, <2>2, CallbackSays
  <2> QED
    BY <1>4, <1>5, <1>10, <2>1, <2>3 DEF ServiceCallback, HandleMessage, NoFailureSaid
<1>11. CASE ModelReceives
  BY <1>4, <1>5, <1>11, ReceiveTakes DEF ModelReceives, NoFailureSaid
<1>12. CASE \/ ActivityCreated \/ FragmentReplaced \/ ActivityReused \/ ActivityCovered \/ ActivityLeft
            \/ ClickShutter \/ TapNotification \/ UNCHANGED appvars
  BY <1>6, <1>12 DEF ActivityCreated, FragmentReplaced, ActivityReused, ActivityCovered, ActivityLeft,
     ClickShutter, TapNotification, appvars, app
<1>13. CASE Background
  <2>1. UNCHANGED app
    BY <1>13 DEF Background
  <2>2. SaysNothing \/ (\E t \in InitThread : Stores(t)) \/ (\E r \in RecorderThread : Returns(r))
        \/ \E u \in Thread, m \in Message : Says(u, m)
    BY <1>2, <1>13, BackgroundStep DEF AppTypeOK
  <2>3. CASE SaysNothing
    BY <1>6, <2>1, <2>3 DEF SaysNothing, app
  <2>4. CASE \E t \in InitThread : Stores(t)
    BY <1>4, <2>4 DEF Stores
  <2>5. ASSUME NEW r \in RecorderThread, Returns(r) PROVE NoFailureSaid'
    <3>1. \A m : <<StopOf(r)>> = <<m>> => m.what # "ON_FAILED_TO_INIT"
      BY DEF StopOf
    <3>2. \A t \in Thread, m \in Message : outbox'[t] = <<m>> => m.what # "ON_FAILED_TO_INIT"
      BY <1>5, <2>5, <3>1 DEF Returns, AppTypeOK, TypeOK
    <3> QED
      BY <1>4, <1>5, <2>1, <2>5, <3>2 DEF Returns, app, NoFailureSaid
  <2>6. ASSUME NEW u \in Thread, NEW m \in Message, Says(u, m) PROVE NoFailureSaid'
    <3>1. Range(looper') = Range(looper) \cup {m} /\ outbox[u] = <<m>>
      BY <2>6, RangeAppend DEF Says, AppTypeOK, TypeOK
    <3>2. \A t \in Thread, n \in Message : outbox'[t] = <<n>> => outbox[t] = <<n>>
      <4>1. \A n : <<n>> # << >>
        OBVIOUS
      <4> QED
        BY <2>6, <4>1 DEF Says, AppTypeOK, TypeOK
    <3> QED
      BY <1>4, <1>5, <2>1, <3>1, <3>2 DEF app, NoFailureSaid
  <2> QED
    BY <2>2, <2>3, <2>4, <2>5, <2>6
<1> QED
  BY <1>1, <1>7, <1>8, <1>9, <1>10, <1>11, <1>12, <1>13 DEF AppNext, Service

\* The last of a queue that is extended, and of one whose first is taken.
LastOf(q) == q[Len(q)]

LEMMA LastOfAppend ==
  ASSUME NEW S, NEW q \in Seq(S), NEW x \in S
  PROVE  Append(q, x) # << >> /\ LastOf(Append(q, x)) = x
BY DEF LastOf

LEMMA LastOfTail ==
  ASSUME NEW S, NEW q \in Seq(S), q # << >>
  PROVE  IF Tail(q) = << >> THEN LastOf(q) = Head(q) ELSE LastOf(Tail(q)) = LastOf(q)
BY DEF LastOf

\* s is what the parts of the app are to believe: the recorder's state, or,
\* of a recorder initialized silently, that it is not.
Agrees(s) ==
  \/ s = sState
  \/ s \in {"UNINITIALIZED", "FAILED_TO_INIT"} /\ sState = "FREE" /\ ~Announced

\* Nobody is about to be answered.
Answered == registered /\ BusyInits = {} /\ "INIT" \notin Range(commands)

NothingUnsent == \A t \in Thread : outbox[t] = << >>

\* What RecorderModel will believe once it has received what is broadcast.
Believed == IF broadcasts = << >> THEN mRecorderState ELSE LastOf(broadcasts).new

\* The last that is said agrees with the recorder.
LastAgrees ==
  ~overlapped /\ crossed # "unsent" =>
    /\ \A t \in Thread, m \in Message : outbox[t] = <<m>> => Agrees(ChangeOf(m).new)
    /\ NothingUnsent =>
         /\ looper # << >> => Agrees(ChangeOf(LastOf(looper)).new)
         /\ looper = << >> /\ Answered => Agrees(Believed)

\* What a broadcast, its receipt and the end of an intent do to that belief.
LEMMA BelievedLast ==
  ASSUME AppTypeOK, NEW c \in Change, broadcasts' = Append(broadcasts, c)
  PROVE  Believed' = c.new
BY LastOfAppend DEF Believed, AppTypeOK

LEMMA ReceiptKeepsBelief == ASSUME AppTypeOK, ModelReceives PROVE Believed' = Believed
<1>1. IF broadcasts' = << >> THEN LastOf(broadcasts) = Head(broadcasts)
                             ELSE LastOf(broadcasts') = LastOf(broadcasts)
  BY ReceiveTakes, LastOfTail
<1> QED
  BY <1>1, ReceiveTakes DEF ModelReceives, Believed

\* While calls of init() do not overlap, and its answer does not change,
\* nothing changes but what is said of it.
LEMMA AgreesStays ==
  ASSUME NEW s, Agrees(s), sState' = sState, Announced' => Announced
  PROVE  Agrees(s)'
BY DEF Agrees

LEMMA LastAgreesStep ==
  ASSUME AppTypeOK, IInv, DInv, OneMessage, InitsTell, StopInProgress, NothingToSay, SaidOnceTrue,
         SaidBeforeStart, NoFailureSaid, LastAgrees, [AppNext]_appvars
  PROVE  LastAgrees'
<1> SUFFICES ASSUME ~overlapped', crossed' # "unsent"
             PROVE  LastAgrees'
  BY DEF LastAgrees
<1> USE DEF intents, model, ui, transaction, history, core, vars, appVars
<1>1. CASE AppCrash
  <2>1. /\ looper' = << >> /\ \A t \in Thread : outbox'[t] = << >>
        /\ broadcasts' = << >> /\ registered' = FALSE
    BY <1>1 DEF AppCrash, Crash
  <2>2. \A m : << >> # <<m>>
    OBVIOUS
  <2> QED
    BY <2>1, <2>2 DEF LastAgrees, Answered
<1> SUFFICES ASSUME ~AppCrash
             PROVE  LastAgrees'
  BY <1>1
<1>2. ~overlapped
  BY OverlapLasts
<1>3. /\ crossed # "unsent"
      /\ \A t \in Thread, m \in Message : outbox[t] = <<m>> => Agrees(ChangeOf(m).new)
      /\ NothingUnsent => /\ looper # << >> => Agrees(ChangeOf(LastOf(looper)).new)
                          /\ looper = << >> /\ Answered => Agrees(Believed)
  <2>1. crossed # "unsent"
    BY DEF AppNext, Service, ServiceInit, ServiceStart, ServiceStopsNothing, ServiceFindsPid, ServiceKills,
       ServiceCallback, ModelReceives, ActivityCreated, FragmentReplaced, ActivityReused,
       ActivityCovered, ActivityLeft, ClickShutter, TapNotification, Background, appvars, app
  <2> QED
    BY <1>2, <2>1 DEF LastAgrees

\* the recorder says nothing
<1>4. ASSUME UNCHANGED <<sState, heard, looper, outbox>>,
             Answered' => Answered /\ Believed' = Believed
      PROVE  LastAgrees'
  <2>1. (Announced' => Announced) /\ (NothingUnsent' => NothingUnsent)
    BY <1>4 DEF Announced, Hears, NothingUnsent
  <2>2. \A s : Agrees(s) => Agrees(s)'
    BY <1>4, <2>1 DEF Agrees
  <2> QED
    BY <1>3, <1>4, <2>1, <2>2 DEF LastAgrees

\* one of its intents is handled, and not an INIT
<1>5. ASSUME UNCHANGED <<sState, heard, looper, outbox, initPc, broadcasts, model>>,
             Handled, commands # << >>, Head(commands) # "INIT"
      PROVE  LastAgrees'
  <2>1. Range(commands) = {Head(commands)} \cup Range(commands')
    BY <1>5, HandledShifts
  <2>2. Answered' => Answered /\ Believed' = Believed
    BY <1>5, <2>1 DEF Answered, BusyInits, Believed, LastOf
  <2> QED
    BY <1>4, <1>5, <2>2
<1>6. CASE ServiceInit
  <2>1. UNCHANGED <<sState, heard, looper, outbox>>
    BY <1>6 DEF ServiceInit, InitCall
  <2>2. ASSUME NEW t \in InitThread, InitCall(t) PROVE LastAgrees'
    <3>1. t \in BusyInits'
      BY <2>2 DEF InitCall, BusyInits, InitBusy, AppTypeOK, TypeOK
    <3> QED
      BY <1>4, <2>1, <3>1 DEF Answered
  <2>3. CASE Initialized /\ Answer /\ UNCHANGED core
    <3>1. registered => Believed' = sState
      BY <2>3, AnswerSays, BelievedLast DEF AnswerChange, AppTypeOK, TypeOK, State, Initialized
    <3>2. (Announced' => Announced) /\ (NothingUnsent' => NothingUnsent)
      BY <2>3 DEF Announced, Hears, NothingUnsent
    <3>3. \A s : Agrees(s) => Agrees(s)'
      BY <2>3, <3>2 DEF Agrees
    <3>4. Answered' => Agrees(Believed)'
      BY <1>6, <2>3, <3>1 DEF ServiceInit, Answered, Agrees
    <3> QED
      BY <1>3, <2>3, <3>2, <3>3, <3>4 DEF LastAgrees
  <2> QED
    BY <1>6, <2>2, <2>3 DEF ServiceInit
<1>7. CASE ServiceStart
  <2>1. CASE UNCHANGED core
    BY <1>5, <1>7, <2>1 DEF ServiceStart, Handles
  <2>2. ASSUME NEW r \in RecorderThread, Start(r), \A t \in Thread : outbox[t] = << >>
        PROVE  LastAgrees'
    <3>1. looper' # << >> /\ LastOf(looper') = StartOf(r)
      <4>1. StartOf(r) \in Message /\ looper \in Seq(Message) /\ looper' = Append(looper, StartOf(r))
        BY <2>2, StartSays DEF AppTypeOK
      <4>2. Append(looper, StartOf(r)) # << >> /\ LastOf(Append(looper, StartOf(r))) = StartOf(r)
        BY <4>1, LastOfAppend
      <4> QED
        BY <4>1, <4>2
    <3>2. ChangeOf(StartOf(r)).new = sState'
      BY <2>2 DEF Start, ChangeOf, StartOf
    <3>3. \A t \in Thread, m \in Message : outbox'[t] # <<m>>
      <4>1. \A m : << >> # <<m>>
        OBVIOUS
      <4> QED
        BY <2>2, <4>1 DEF Start
    <3>4. Agrees(ChangeOf(LastOf(looper)).new)'
      BY <3>1, <3>2 DEF Agrees
    <3> QED
      BY <3>1, <3>3, <3>4 DEF LastAgrees
  <2> QED
    BY <1>7, <2>1, <2>2 DEF ServiceStart
<1>8. CASE ServiceStopsNothing \/ ServiceKills
  <2>1. commands # << >> /\ Head(commands) = "STOP_REC" /\ Handled
    BY <1>8 DEF ServiceStopsNothing, Handles, ServiceKills, StopKill, StopInProgress
  <2>2. UNCHANGED <<sState, heard, looper, outbox, initPc, broadcasts, model>>
    BY <1>8 DEF ServiceStopsNothing, ServiceKills, StopKill
  <2> QED
    BY <1>5, <2>1, <2>2
<1>9. CASE ServiceCallback
  <2>1. UNCHANGED <<sState, outbox, initPc, registered, commands>>
    BY <1>9 DEF ServiceCallback, HandleMessage
  <2>2. Announced' => Announced
    BY <1>9, AnnouncedBefore DEF Announces, ServiceCallback, HandleMessage
  <2>3. \A s : Agrees(s) => Agrees(s)'
    BY <2>1, <2>2 DEF Agrees
  <2>4. IF looper' = << >> THEN LastOf(looper) = Head(looper) ELSE LastOf(looper') = LastOf(looper)
    BY <1>9, CallbackSays, LastOfTail
  <2>5. looper # << >> /\ (registered => Believed' = ChangeOf(Head(looper)).new)
    BY <1>9, CallbackSays, BelievedLast
  <2>6. ASSUME NothingUnsent', looper' = << >>, Answered' PROVE Agrees(Believed)'
    <3>1. Agrees(ChangeOf(Head(looper)).new)
      BY <1>3, <2>1, <2>4, <2>5, <2>6 DEF NothingUnsent
    <3>2. Believed' = ChangeOf(Head(looper)).new
      BY <2>1, <2>5, <2>6 DEF Answered
    <3> QED
      BY <2>1, <2>2, <3>1, <3>2 DEF Agrees
  <2>7. ASSUME NothingUnsent', looper' # << >> PROVE Agrees(ChangeOf(LastOf(looper)).new)'
    <3>1. Agrees(ChangeOf(LastOf(looper)).new)
      BY <1>3, <2>1, <2>5, <2>7 DEF NothingUnsent
    <3> QED
      BY <2>1, <2>2, <2>4, <2>7, <3>1 DEF Agrees
  <2> QED
    BY <1>3, <2>1, <2>3, <2>6, <2>7 DEF LastAgrees
<1>10. CASE ModelReceives
  <2>1. Answered' => Answered /\ Believed' = Believed
    BY <1>10, ReceiptKeepsBelief DEF ModelReceives, Answered, BusyInits
  <2> QED
    BY <1>4, <1>10, <2>1 DEF ModelReceives
<1>11. CASE ActivityCreated \/ ClickShutter \/ TapNotification
  <2>1. PICK command \in Action : Sends(command) /\ (ActivityCreated => command = "INIT")
    BY <1>11 DEF ActivityCreated, ClickShutter, ClickStart, ClickStop, TapNotification, Action
  <2>2. Range(commands') = Range(commands) \cup {command}
    BY <2>1, SendsAdds
  <2>3. /\ UNCHANGED <<sState, heard, looper, outbox, initPc, broadcasts, mRecorderState>>
        /\ ~ActivityCreated => registered' = registered
    BY <1>11 DEF ActivityCreated, ClickShutter, TapNotification
  <2>4. Answered' => Answered /\ Believed' = Believed
    BY <2>1, <2>2, <2>3 DEF Answered, BusyInits, Believed, LastOf
  <2> QED
    BY <1>4, <2>3, <2>4
<1>12. CASE \/ ServiceFindsPid \/ FragmentReplaced \/ ActivityReused \/ ActivityCovered
            \/ ActivityLeft \/ UNCHANGED appvars
  <2>1. UNCHANGED <<sState, heard, looper, outbox, initPc, broadcasts, model, commands>>
    BY <1>12 DEF ServiceFindsPid, StopFindPid, FragmentReplaced, ActivityReused, ActivityCovered,
       ActivityLeft, appvars, app
  <2>2. Answered' => Answered /\ Believed' = Believed
    BY <2>1 DEF Answered, BusyInits, Believed, LastOf
  <2> QED
    BY <1>4, <2>1, <2>2
<1>13. CASE Background
  <2>1. UNCHANGED <<app, heard>>
    BY <1>2, <1>13, BackgroundStep DEF AppTypeOK
  <2>2. SaysNothing \/ (\E t \in InitThread : Stores(t)) \/ (\E r \in RecorderThread : Returns(r))
        \/ \E u \in Thread, m \in Message : Says(u, m)
    BY <1>2, <1>13, BackgroundStep DEF AppTypeOK
  <2>3. CASE SaysNothing
    <3>1. Answered' => Answered /\ Believed' = Believed
      BY <2>1, <2>3 DEF SaysNothing, Answered, Believed, LastOf, app
    <3> QED
      BY <1>4, <2>1, <2>3, <3>1 DEF SaysNothing
  <2>4. ASSUME NEW t \in InitThread, Stores(t) PROVE LastAgrees'
    <3>1. /\ t \in Thread /\ looper' = looper
          /\ ~ModelInitialized /\ mRecorderState' = mRecorderState /\ broadcasts' = broadcasts
          /\ \A c \in Range(broadcasts) : c.new = "FAILED_TO_INIT"
          /\ \A m \in Range(looper) : ChangeOf(m).new = "FAILED_TO_INIT"
          /\ \A u \in Thread, m \in Message : outbox[u] = <<m>> => ChangeOf(m).new = "FAILED_TO_INIT"
      BY <1>2, <2>1, <2>4 DEF Stores, Thread, SaidOnceTrue, ChangeOf, app
    <3>2. ASSUME NEW m \in Message, m.what = "ON_FAILED_TO_INIT", sState' = "FAILED_TO_INIT",
                 outbox' = [outbox EXCEPT ![t] = <<m>>]
          PROVE  LastAgrees'
      <4>1. <<m>> # << >> /\ (\A n : <<m>> = <<n>> => m = n) /\ ChangeOf(m).new = "FAILED_TO_INIT"
        BY <3>2 DEF ChangeOf
      <4>2. \A u \in Thread, n \in Message : outbox'[u] = <<n>> => m = n \/ outbox[u] = <<n>>
        BY <3>2, <4>1 DEF AppTypeOK, TypeOK
      <4>3. \A u \in Thread, n \in Message : outbox'[u] = <<n>> => Agrees(ChangeOf(n).new)'
        BY <3>1, <3>2, <4>1, <4>2 DEF Agrees
      <4>4. ~NothingUnsent'
        BY <3>1, <3>2, <4>1 DEF NothingUnsent, AppTypeOK, TypeOK
      <4> QED
        BY <4>3, <4>4 DEF LastAgrees
    <3>3. ASSUME NEW m \in Message, m.what = "ON_INITIALIZED", sState = "UNINITIALIZED", sState' = "FREE",
                 outbox' = [outbox EXCEPT ![t] = <<m>>]
          PROVE  LastAgrees'
      <4>1. <<m>> # << >> /\ (\A n : <<m>> = <<n>> => m = n) /\ ChangeOf(m).new = "FREE"
        BY <3>3 DEF ChangeOf
      <4>2. \A u \in Thread : \A n : outbox[u] # <<n>>
        <5>1. \A n : << >> # <<n>>
          OBVIOUS
        <5> QED
          BY <1>2, <3>3, <5>1 DEF NothingToSay
      <4>3. \A u \in Thread, n \in Message : outbox'[u] = <<n>> => m = n
        BY <3>3, <4>1, <4>2 DEF AppTypeOK, TypeOK
      <4>4. \A u \in Thread, n \in Message : outbox'[u] = <<n>> => Agrees(ChangeOf(n).new)'
        BY <3>3, <4>1, <4>3 DEF Agrees
      <4>5. ~NothingUnsent'
        BY <3>1, <3>3, <4>1 DEF NothingUnsent, AppTypeOK, TypeOK
      <4> QED
        BY <4>4, <4>5 DEF LastAgrees
    <3>4. ASSUME sState = "FAILED_TO_INIT", sState' = "FREE", outbox' = [outbox EXCEPT ![t] = << >>]
          PROVE  LastAgrees'
      <4>1. ~Announced'
        <5>1. ~Announced
          BY <1>2, <2>4 DEF Stores, NoFailureSaid
        <5> QED
          BY <3>4, <5>1, AnnouncedBefore DEF Announces
      <4>2. \A s \in {"UNINITIALIZED", "FAILED_TO_INIT"} : Agrees(s)'
        BY <3>4, <4>1 DEF Agrees
      <4>3. \A u \in Thread, n \in Message : outbox'[u] = <<n>> => Agrees(ChangeOf(n).new)'
        <5>1. \A u \in Thread, n \in Message : outbox'[u] = <<n>> => outbox[u] = <<n>>
          <6>1. \A n : << >> # <<n>>
            OBVIOUS
          <6> QED
            BY <3>4, <6>1 DEF AppTypeOK, TypeOK
        <5> QED
          BY <3>1, <4>2, <5>1
      <4>4. looper' # << >> => Agrees(ChangeOf(LastOf(looper)).new)'
        <5>1. looper # << >> => LastOf(looper) \in Range(looper)
          BY RangeMember DEF LastOf, AppTypeOK, TypeOK
        <5>2. looper # << >> => ChangeOf(LastOf(looper)).new = "FAILED_TO_INIT"
          BY <3>1, <5>1
        <5> QED
          BY <3>1, <3>4, <4>1, <5>2 DEF Agrees
      <4>5. Agrees(Believed)'
        <5>1. broadcasts # << >> => LastOf(broadcasts) \in Range(broadcasts)
          BY RangeMember DEF LastOf, AppTypeOK
        <5>2. Believed \in {"UNINITIALIZED", "FAILED_TO_INIT"} /\ Believed' = Believed
          BY <3>1, <5>1 DEF Believed, ModelInitialized, LastOf
        <5> QED
          BY <3>4, <4>1, <5>2 DEF Agrees
      <4> QED
        BY <4>3, <4>4, <4>5 DEF LastAgrees
    <3> QED
      BY <2>4, <3>2, <3>3, <3>4 DEF Stores
  <2>5. ASSUME NEW r \in RecorderThread, Returns(r) PROVE LastAgrees'
    <3>1. <<StopOf(r)>> # << >> /\ (\A m : <<StopOf(r)>> = <<m>> => m = StopOf(r)) /\ r \in Thread
      BY DEF Thread
    <3>2. \A t \in Thread : outbox[t] = << >>
      BY <1>2, <1>3, <2>5 DEF Returns, SaidBeforeStart
    <3>3. outbox' = [outbox EXCEPT ![r] = <<StopOf(r)>>] /\ sState' = "FREE"
      BY <2>5 DEF Returns
    <3>4. \A m : << >> # <<m>>
      OBVIOUS
    <3>5. \A t \in Thread, m \in Message : outbox'[t] = <<m>> => m = StopOf(r)
      BY <3>1, <3>2, <3>3, <3>4 DEF AppTypeOK, TypeOK
    <3>6. ChangeOf(StopOf(r)).new = "FREE"
      BY DEF ChangeOf, StopOf
    <3>7. ~NothingUnsent'
      BY <3>1, <3>3 DEF NothingUnsent, AppTypeOK, TypeOK
    <3> QED
      BY <3>3, <3>5, <3>6, <3>7 DEF LastAgrees, Agrees
  <2>6. ASSUME NEW u \in Thread, NEW m \in Message, Says(u, m) PROVE LastAgrees'
    <3>1. /\ outbox[u] = <<m>> /\ outbox' = [outbox EXCEPT ![u] = << >>]
          /\ looper' = Append(looper, m) /\ sState' = sState
      BY <2>6 DEF Says
    <3>2. looper' # << >> /\ LastOf(looper') = m
      <4>0. looper \in Seq(Message)
        BY DEF AppTypeOK, TypeOK
      <4>1. Append(looper, m) # << >> /\ LastOf(Append(looper, m)) = m
        BY <4>0, LastOfAppend
      <4> QED
        BY <3>1, <4>1
    <3>3. Announced' => Announced
      <4>1. \A n : <<n>> # << >>
        OBVIOUS
      <4>2. ~Announces
        BY <3>1, <4>1, <3>2 DEF Announces, AppTypeOK, TypeOK
      <4> QED
        BY <4>2, AnnouncedBefore
    <3>4. \A t \in Thread, n \in Message : outbox'[t] = <<n>> => outbox[t] = <<n>>
      <4>1. \A n : <<n>> # << >>
        OBVIOUS
      <4> QED
        BY <3>1, <4>1 DEF AppTypeOK, TypeOK
    <3>5. \A s : Agrees(s) => Agrees(s)'
      BY <3>1, <3>3 DEF Agrees
    <3>6. Agrees(ChangeOf(m).new)
      BY <1>3, <3>1
    <3>7. Agrees(ChangeOf(LastOf(looper)).new)'
      BY <3>1, <3>2, <3>3, <3>6 DEF Agrees
    <3> QED
      BY <1>3, <3>2, <3>4, <3>5, <3>7 DEF LastAgrees
  <2> QED
    BY <2>2, <2>3, <2>4, <2>5, <2>6
<1> QED
  BY <1>6, <1>7, <1>8, <1>9, <1>10, <1>11, <1>12, <1>13 DEF AppNext, Service
-----------------------------------------------------------------------------
(***************************************************************************)
(* The shutter.  Once a recording has ended, its end follows, in every     *)
(* queue, all that says that it goes on.                                   *)
(***************************************************************************)

\* In q, whatever is in A is followed by something in B.
Followed(q, A, B) ==
  \A i \in DOMAIN q : q[i] \in A => \E j \in DOMAIN q : j > i /\ q[j] \in B

Starts == {m \in Message : m.what = "ON_START_RECORDER"}
Stops == {m \in Message : m.what = "ON_STOP_RECORDER"}
RecordingChanges == {c \in Change : c.new = "RECORDING"}
StopChanges == {c \in Change : c.old = "RECORDING"}

LEMMA FollowedEmpty == ASSUME NEW A, NEW B PROVE Followed(<< >>, A, B)
BY DEF Followed

LEMMA FollowedAppend ==
  ASSUME NEW S, NEW q \in Seq(S), NEW x \in S, NEW A, NEW B,
         x \notin A, x \in B \/ Followed(q, A, B)
  PROVE  Followed(Append(q, x), A, B)
<1>1. /\ Len(q) \in Nat /\ DOMAIN q = 1 .. Len(q) /\ DOMAIN Append(q, x) = 1 .. Len(q) + 1
      /\ \A i \in 1 .. Len(q) : Append(q, x)[i] = q[i]
      /\ Append(q, x)[Len(q) + 1] = x
  OBVIOUS
<1>2. SUFFICES ASSUME NEW i \in 1 .. Len(q), q[i] \in A
               PROVE  \E j \in 1 .. Len(q) + 1 : j > i /\ Append(q, x)[j] \in B
  BY <1>1 DEF Followed
<1>3. CASE x \in B
  <2>1. Len(q) + 1 \in 1 .. Len(q) + 1 /\ Len(q) + 1 > i
    BY <1>1
  <2> QED
    BY <1>1, <1>3, <2>1
<1>4. CASE Followed(q, A, B)
  <2>1. PICK j \in 1 .. Len(q) : j > i /\ q[j] \in B
    BY <1>1, <1>2, <1>4 DEF Followed
  <2>2. j \in 1 .. Len(q) + 1 /\ Append(q, x)[j] = q[j]
    BY <1>1
  <2> QED
    BY <2>1, <2>2
<1> QED
  BY <1>3, <1>4

LEMMA FollowedTail ==
  ASSUME NEW S, NEW q \in Seq(S), q # << >>, NEW A, NEW B, Followed(q, A, B)
  PROVE  /\ Followed(Tail(q), A, B)
         /\ Head(q) \in A => \E x \in Range(Tail(q)) : x \in B
<1>1. /\ Len(q) \in Nat \ {0} /\ DOMAIN q = 1 .. Len(q) /\ Head(q) = q[1]
      /\ DOMAIN Tail(q) = 1 .. Len(q) - 1
      /\ \A i \in 1 .. Len(q) - 1 : Tail(q)[i] = q[i + 1]
  OBVIOUS
<1>2. ASSUME NEW i \in 1 .. Len(q), q[i] \in A
      PROVE  \E j \in 1 .. Len(q) - 1 : j > i - 1 /\ Tail(q)[j] \in B
  <2>1. PICK k \in 1 .. Len(q) : k > i /\ q[k] \in B
    BY <1>1, <1>2 DEF Followed
  <2>2. k - 1 \in 1 .. Len(q) - 1 /\ k - 1 > i - 1 /\ (k - 1) + 1 = k
    BY <1>1, <2>1
  <2>3. Tail(q)[k - 1] = q[k]
    BY <1>1, <2>2
  <2> QED
    BY <2>1, <2>2, <2>3
<1>3. Followed(Tail(q), A, B)
  <2>1. SUFFICES ASSUME NEW i \in 1 .. Len(q) - 1, Tail(q)[i] \in A
                 PROVE  \E j \in 1 .. Len(q) - 1 : j > i /\ Tail(q)[j] \in B
    BY <1>1 DEF Followed
  <2>2. i + 1 \in 1 .. Len(q) /\ q[i + 1] \in A /\ (i + 1) - 1 = i
    BY <1>1, <2>1
  <2> QED
    BY <1>2, <2>2
<1>4. Head(q) \in A => \E x \in Range(Tail(q)) : x \in B
  <2>1. 1 \in 1 .. Len(q)
    BY <1>1
  <2> QED
    BY <1>1, <1>2, <2>1 DEF Range
<1> QED
  BY <1>3, <1>4

EndFollows ==
  ~overlapped /\ sState # "RECORDING" /\ ~StopUnsent =>
    /\ Followed(looper, Starts, Stops)
    /\ ~StopQueued =>
         /\ Followed(broadcasts, RecordingChanges, StopChanges)
         /\ mRecorderState = "RECORDING" \/ (screen = "recorder" /\ shutter # NewShutter) =>
              \E c \in Range(broadcasts) : c \in StopChanges

LEMMA EndFollowsStep ==
  ASSUME AppTypeOK, IInv, DInv, OneMessage, InitsTell, RegisteredFirst, KnownChanges, EndFollows,
         [AppNext]_appvars
  PROVE  EndFollows'
<1> SUFFICES ASSUME ~overlapped', sState' # "RECORDING", ~StopUnsent'
             PROVE  EndFollows'
  BY DEF EndFollows
<1> USE DEF intents, model, ui, transaction, history, core, vars, appVars
<1>1. CASE AppCrash
  <2>1. looper' = << >> /\ broadcasts' = << >> /\ mRecorderState' = "UNINITIALIZED" /\ screen' = "none"
    BY <1>1 DEF AppCrash, Destroyed, Crash
  <2> QED
    BY <2>1, FollowedEmpty DEF EndFollows
<1> SUFFICES ASSUME ~AppCrash
             PROVE  EndFollows'
  BY <1>1
<1>2. ~overlapped
  BY OverlapLasts
<1> DEFINE ShowsRecording ==
      mRecorderState = "RECORDING" \/ (screen = "recorder" /\ shutter # NewShutter)
<1> DEFINE StopBroadcast == \E c \in Range(broadcasts) : c \in StopChanges

\* the recorder says nothing
<1>3. ASSUME UNCHANGED <<sState, recPc, looper>>,
             Followed(broadcasts, RecordingChanges, StopChanges) =>
               Followed(broadcasts, RecordingChanges, StopChanges)',
             ShowsRecording' => ShowsRecording \/ StopBroadcast',
             StopBroadcast => StopBroadcast'
      PROVE  EndFollows'
  <2>1. ~StopUnsent /\ (StopQueued' <=> StopQueued)
    BY <1>3 DEF StopUnsent, StopQueued
  <2> QED
    BY <1>2, <1>3, <2>1 DEF EndFollows
<1>4. ASSUME UNCHANGED <<sState, recPc, looper, broadcasts>>, ShowsRecording' => ShowsRecording
      PROVE  EndFollows'
  BY <1>3, <1>4 DEF Followed
<1>5. CASE ServiceInit
  <2>1. UNCHANGED <<sState, recPc, looper, mRecorderState, screen, shutter>>
    BY <1>5 DEF ServiceInit, InitCall
  <2>2. CASE UNCHANGED broadcasts
    BY <1>4, <2>1, <2>2
  <2>3. CASE Answer
    <3>1. AnswerChange \in Change /\ AnswerChange.new = "FREE" /\ broadcasts \in Seq(Change)
      BY <2>1, <2>3, AnswerSays DEF AnswerChange, AppTypeOK
    <3>2. AnswerChange \notin RecordingChanges
      BY <3>1 DEF RecordingChanges
    <3>3. Followed(broadcasts, RecordingChanges, StopChanges) =>
            Followed(Append(broadcasts, AnswerChange), RecordingChanges, StopChanges)
      BY <3>1, <3>2, FollowedAppend
    <3> QED
      BY <1>3, <2>1, <2>3, <3>3, AnswerSays
  <2> QED
    BY <1>5, <2>2, <2>3 DEF ServiceInit
<1>6. CASE ServiceStart
  BY <1>6 DEF ServiceStart, Start, Initialized, AppTypeOK, TypeOK, State
<1>7. CASE ServiceStopsNothing \/ ServiceFindsPid \/ ServiceKills
  BY <1>4, <1>7 DEF ServiceStopsNothing, ServiceFindsPid, StopFindPid, app, ServiceKills, StopKill
<1>8. CASE ServiceCallback
  <2>1. UNCHANGED <<sState, recPc, registered, mRecorderState, screen, shutter>> /\ ~StopUnsent
    BY <1>8 DEF ServiceCallback, HandleMessage, StopUnsent
  <2>2. /\ looper # << >> /\ looper \in Seq(Message) /\ looper' = Tail(looper) /\ Head(looper) \in Message
        /\ Range(looper) = {Head(looper)} \cup Range(looper') /\ broadcasts \in Seq(Change)
    BY <1>8, CallbackSays, RangeTail DEF AppTypeOK
  <2>3. Followed(looper, Starts, Stops)
    BY <1>2, <2>1 DEF EndFollows
  <2>4. /\ Followed(looper, Starts, Stops)'
        /\ Head(looper) \in Starts => \E m \in Range(looper') : m \in Stops
    BY <2>2, <2>3, FollowedTail
  <2>5. SUFFICES ASSUME ~StopQueued'
                 PROVE  /\ Followed(broadcasts, RecordingChanges, StopChanges)'
                        /\ ShowsRecording' => StopBroadcast'
    BY <2>4 DEF EndFollows
  <2>6. Head(looper).what # "ON_START_RECORDER"
    BY <2>2, <2>4, <2>5, StopQueuedIs DEF Starts, Stops
  <2>7. ChangeOf(Head(looper)) \in Change /\ ChangeOf(Head(looper)) \notin RecordingChanges
    BY <1>8, <2>2, <2>6, CallbackSays DEF ChangeOf, RecordingChanges, Message, What
  <2>8. CASE ~registered
    <3>1. broadcasts' = << >> /\ mRecorderState' # "RECORDING" /\ screen' = "none"
      BY <1>8, <2>1, <2>8, CallbackSays DEF RegisteredFirst
    <3> QED
      BY <3>1, FollowedEmpty
  <2>9. CASE registered /\ Head(looper).what = "ON_STOP_RECORDER"
    <3>1. ChangeOf(Head(looper)) \in StopChanges
      BY <2>7, <2>9 DEF ChangeOf, StopChanges
    <3>2. Followed(Append(broadcasts, ChangeOf(Head(looper))), RecordingChanges, StopChanges)
      BY <2>2, <2>7, <3>1, FollowedAppend
    <3> QED
      BY <1>8, <2>9, <3>1, <3>2, CallbackSays
  <2>10. CASE registered /\ Head(looper).what # "ON_STOP_RECORDER"
    <3>1. ~StopQueued
      BY <2>2, <2>5, <2>10, StopQueuedIs
    <3>2. /\ Followed(broadcasts, RecordingChanges, StopChanges)
          /\ ShowsRecording => StopBroadcast
      BY <1>2, <2>1, <3>1 DEF EndFollows
    <3>3. Followed(Append(broadcasts, ChangeOf(Head(looper))), RecordingChanges, StopChanges)
      BY <2>2, <2>7, <3>2, FollowedAppend
    <3> QED
      BY <1>8, <2>1, <2>10, <3>2, <3>3, CallbackSays
  <2> QED
    BY <2>8, <2>9, <2>10
<1>9. CASE ModelReceives
  <2>1. /\ broadcasts # << >> /\ broadcasts \in Seq(Change) /\ broadcasts' = Tail(broadcasts)
        /\ Head(broadcasts) \in Change
        /\ Range(broadcasts) = {Head(broadcasts)} \cup Range(broadcasts')
    BY <1>9, ReceiveTakes
  <2>2. UNCHANGED <<sState, recPc, looper>> /\ ~StopUnsent /\ (StopQueued' <=> StopQueued)
    BY <1>9 DEF ModelReceives, StopUnsent, StopQueued
  <2>3. Followed(looper, Starts, Stops)'
    BY <1>2, <2>2 DEF EndFollows
  <2>4. SUFFICES ASSUME ~StopQueued
                 PROVE  /\ Followed(broadcasts, RecordingChanges, StopChanges)'
                        /\ ShowsRecording' => StopBroadcast'
    BY <2>2, <2>3 DEF EndFollows
  <2>5. Followed(broadcasts, RecordingChanges, StopChanges) /\ (ShowsRecording => StopBroadcast)
    BY <1>2, <2>2, <2>4 DEF EndFollows
  <2>6. /\ Followed(broadcasts, RecordingChanges, StopChanges)'
        /\ Head(broadcasts) \in RecordingChanges => StopBroadcast'
    BY <2>1, <2>5, FollowedTail
  <2>7. Head(broadcasts).new = "RECORDING" => StopBroadcast'
    BY <2>1, <2>6 DEF RecordingChanges
  <2>8. ASSUME ShowsRecording', Head(broadcasts).new # "RECORDING" PROVE StopBroadcast'
    <3>1. screen' = "recorder" /\ shutter' # NewShutter
      BY <1>9, <2>8 DEF ModelReceives
    <3>2. (Head(broadcasts).new = "RECORDING") = FALSE
      BY <2>8
    <3>3. Head(broadcasts).old = "UNINITIALIZED" /\ UNCHANGED <<screen, shutter>>
      BY <1>9, <3>1, <3>2 DEF ModelReceives, onInitEvent, onRecorderEvent, NewShutter
    <3>4. Head(broadcasts) \notin StopChanges /\ StopBroadcast
      BY <2>5, <3>1, <3>3 DEF StopChanges
    <3> QED
      BY <2>1, <3>4
  <2> QED
    BY <2>6, <2>7, <2>8
<1>10. CASE \/ ActivityCreated \/ FragmentReplaced \/ ActivityReused \/ ActivityCovered \/ ActivityLeft
            \/ TapNotification \/ UNCHANGED appvars
  BY <1>4, <1>10 DEF ActivityCreated, FragmentReplaced, ActivityReused, ActivityCovered, ActivityLeft,
     ExecPendingActions, Destroyed, TapNotification, appvars, app
<1>11. CASE ClickShutter
  BY <1>4, <1>11 DEF ClickShutter, ClickStart, ClickStop, Destroyed
<1>12. CASE Background
  <2>1. UNCHANGED app
    BY <1>12 DEF Background
  <2>2. SaysNothing \/ (\E t \in InitThread : Stores(t)) \/ (\E r \in RecorderThread : Returns(r))
        \/ \E u \in Thread, m \in Message : Says(u, m)
    BY <1>2, <1>12, BackgroundStep DEF AppTypeOK
  <2>3. ASSUME looper' = looper, StopUnsent' <=> StopUnsent, sState # "RECORDING" PROVE EndFollows'
    <3>1. StopQueued' <=> StopQueued
      BY <2>3 DEF StopQueued
    <3>2. UNCHANGED <<broadcasts, mRecorderState, screen, shutter>>
      BY <2>1 DEF app
    <3> QED
      BY <1>2, <2>3, <3>1, <3>2 DEF EndFollows, Followed
  <2>4. CASE SaysNothing \/ \E t \in InitThread : Stores(t)
    BY <2>3, <2>4 DEF SaysNothing, Stores, Initialized
  <2>5. CASE \E r \in RecorderThread : Returns(r)
    BY <2>5 DEF Returns
  <2>6. ASSUME NEW u \in Thread, NEW m \in Message, Says(u, m) PROVE EndFollows'
    <3>1. /\ looper \in Seq(Message) /\ looper' = Append(looper, m) /\ sState' = sState
          /\ m \notin Starts
      BY <2>6 DEF Says, Starts, AppTypeOK, TypeOK
    <3>2. Range(looper') = Range(looper) \cup {m}
      BY <3>1, RangeAppend
    <3>3. CASE m.what = "ON_STOP_RECORDER"
      <4>1. m \in Stops
        BY <3>3 DEF Stops
      <4>2. Followed(Append(looper, m), Starts, Stops)
        BY <3>1, <4>1, FollowedAppend
      <4> QED
        BY <3>1, <3>2, <3>3, <4>2, StopQueuedIs DEF EndFollows
    <3>4. CASE m.what # "ON_STOP_RECORDER"
      <4>1. ~StopUnsent /\ sState # "RECORDING"
        BY <2>6, <3>1, <3>4 DEF Says
      <4>2. Followed(looper, Starts, Stops)
        BY <1>2, <4>1 DEF EndFollows
      <4>3. Followed(Append(looper, m), Starts, Stops)
        BY <3>1, <4>2, FollowedAppend
      <4>4. StopQueued => StopQueued'
        BY <3>2, StopQueuedIs
      <4>5. UNCHANGED <<broadcasts, mRecorderState, screen, shutter>>
        BY <2>1 DEF app
      <4> QED
        BY <1>2, <3>1, <4>1, <4>3, <4>4, <4>5 DEF EndFollows, Followed
    <3> QED
      BY <3>3, <3>4
  <2> QED
    BY <2>2, <2>4, <2>5, <2>6
<1> QED
  BY <1>5, <1>6, <1>7, <1>8, <1>9, <1>10, <1>11, <1>12 DEF AppNext, Service

\* While a recording goes on undisturbed, the shutter of a RecorderFragment
\* that has been told everything is the one that stops it.
ShutterStops ==
  Undisturbed /\ crossed # "unsent" /\ sState = "RECORDING" /\ screen = "recorder"
    /\ posted = "none" /\ ~unheard
    /\ looper = << >> /\ broadcasts = << >> /\ (\A c \in Range(commands) : c = "START_REC")
  => shutter = [enabled |-> TRUE, checked |-> TRUE]

LEMMA ShutterStopsStep ==
  ASSUME AppTypeOK, IInv, DInv, OneMessage, InitsTell, NativeOnce, PostedInTime, RegisteredFirst,
         KnownChanges, SaidBeforeStart, LastAgrees, ShutterStops, [AppNext]_appvars
  PROVE  ShutterStops'
<1> SUFFICES ASSUME Undisturbed', crossed' # "unsent", sState' = "RECORDING", screen' = "recorder",
                    posted' = "none", ~unheard', looper' = << >>, broadcasts' = << >>,
                    \A c \in Range(commands') : c = "START_REC"
             PROVE  shutter' = [enabled |-> TRUE, checked |-> TRUE]
  BY DEF ShutterStops
<1> USE DEF intents, model, ui, transaction, history, core, vars, appVars
<1>0. ~AppCrash
  BY DEF AppCrash, Crash
<1>1. ~overlapped
  BY <1>0, OverlapLasts DEF Undisturbed
<1>2. CASE /\ UNCHANGED <<sState, sFileName, native, overlapped, stopLost, crossed>>
           /\ UNCHANGED <<screen, posted, unheard, looper, broadcasts, shutter>>
           /\ \A c \in Range(commands) : c = "START_REC"
  BY <1>2 DEF ShutterStops, Undisturbed
<1>3. \A S : \A q \in Seq(S) : \A x \in S : Append(q, x) # << >>
  OBVIOUS
<1>4. CASE ServiceInit
  <2>1. sState = "RECORDING" /\ screen = "recorder" /\ registered
    BY <1>4 DEF ServiceInit, InitCall, RegisteredFirst
  <2>2. Answer
    BY <1>4, <2>1 DEF ServiceInit, InitCall, StartsInitThread, Initialized
  <2>3. broadcasts' = Append(broadcasts, AnswerChange) /\ AnswerChange \in Change
    BY <2>1, <2>2, AnswerSays
  <2> QED
    BY <1>3, <2>3 DEF AppTypeOK
<1>5. CASE ServiceStart
  <2>1. ASSUME NEW r \in RecorderThread, Start(r) PROVE FALSE
    <3>1. StartOf(r) \in Message /\ looper \in Seq(Message) /\ looper' = Append(looper, StartOf(r))
      BY <2>1, StartSays DEF AppTypeOK
    <3> QED
      BY <1>3, <3>1
  <2>2. Handled /\ commands # << >> /\ Head(commands) = "START_REC"
    BY <1>5 DEF ServiceStart, Handles
  <2>3. \A c \in Range(commands) : c = "START_REC"
    BY <2>2, HandledShifts
  <2> QED
    BY <1>2, <1>5, <2>1, <2>3 DEF ServiceStart
<1>6. CASE ServiceStopsNothing
  BY <1>6 DEF ServiceStopsNothing, Undisturbed
<1>7. CASE ServiceKills
  BY <1>7, KillDisturbs DEF ServiceKills, StopKill, AppTypeOK
<1>8. CASE ServiceCallback
  <2>1. registered
    BY <1>8 DEF ServiceCallback, RegisteredFirst
  <2>2. broadcasts' = Append(broadcasts, ChangeOf(Head(looper))) /\ ChangeOf(Head(looper)) \in Change
    BY <1>8, <2>1, CallbackSays
  <2> QED
    BY <1>3, <2>2 DEF AppTypeOK
<1>9. CASE ModelReceives
  <2>1. /\ broadcasts # << >> /\ broadcasts \in Seq(Change) /\ broadcasts' = Tail(broadcasts)
        /\ Head(broadcasts) \in Change
        /\ Range(broadcasts) = {Head(broadcasts)} \cup Range(broadcasts')
    BY <1>9, ReceiveTakes
  <2>2. LastOf(broadcasts) = Head(broadcasts)
    BY <2>1, LastOfTail
  <2>3. UNCHANGED <<sState, looper, outbox, initPc, commands, registered, crossed>>
    BY <1>9 DEF ModelReceives
  <2>5. screen = "recorder" /\ registered
    BY <1>9 DEF ModelReceives, RegisteredFirst
  <2>6. BusyInits = {} /\ "INIT" \notin Range(commands) /\ NothingUnsent
    BY <1>1, <2>3 DEF IInv, InitIsAlone, Initialized, SaidBeforeStart, NothingUnsent
  <2>7. Agrees(Believed)
    BY <1>1, <2>3, <2>5, <2>6 DEF LastAgrees, Answered
  <2>8. Head(broadcasts).new = "RECORDING"
    BY <2>1, <2>2, <2>3, <2>7 DEF Agrees, Believed
  <2>9. Head(broadcasts).old # "UNINITIALIZED"
    BY <2>1, <2>8 DEF KnownChanges
  <2>10. (Head(broadcasts).new = "RECORDING") = TRUE
    BY <2>8
  <2> QED
    BY <1>9, <2>5, <2>9, <2>10 DEF ModelReceives, onRecorderEvent
<1>10. CASE ActivityCreated \/ ClickShutter \/ TapNotification
  <2>1. PICK command \in Action : Sends(command) /\ (command = "START_REC" => ClickStart)
    BY <1>10 DEF ActivityCreated, ClickShutter, ClickStart, ClickStop, TapNotification, Action
  <2>2. Range(commands') = Range(commands) \cup {command}
    BY <2>1, SendsAdds
  <2> QED
    BY <2>1, <2>2 DEF ClickStart, Destroyed
<1>11. CASE ServiceFindsPid \/ ActivityLeft \/ UNCHANGED appvars
  BY <1>2, <1>11 DEF ServiceFindsPid, StopFindPid, ActivityLeft, Destroyed, appvars, app
<1>12. CASE FragmentReplaced \/ ActivityReused \/ ActivityCovered
  <2>1. /\ UNCHANGED <<sState, sFileName, native, overlapped, stopLost, crossed, unheard, looper>>
        /\ UNCHANGED <<broadcasts, mRecorderState, registered, initPc, outbox, commands>>
        /\ screen # "none" /\ ExecPendingActions
    BY <1>12 DEF FragmentReplaced, ActivityReused, ActivityCovered, PostedInTime
  <2>2. CASE posted = "none"
    BY <1>2, <2>1, <2>2 DEF ExecPendingActions
  <2>3. CASE posted = "recorder"
    <3>1. mRecorderState = "FREE" /\ Believed = mRecorderState
      BY <2>1, <2>3 DEF PostedInTime, Believed
    <3>2. BusyInits = {} /\ "INIT" \notin Range(commands) /\ NothingUnsent /\ registered
      BY <1>1, <2>1 DEF IInv, InitIsAlone, Initialized, SaidBeforeStart, NothingUnsent, RegisteredFirst
    <3>3. Agrees(Believed)
      BY <1>1, <2>1, <3>2 DEF LastAgrees, Answered
    <3> QED
      BY <2>1, <3>1, <3>3 DEF Agrees
  <2> QED
    BY <2>1, <2>2, <2>3 DEF ExecPendingActions
<1>13. CASE Background
  <2>1. UNCHANGED app /\ UNCHANGED <<overlapped, sFileName>>
    BY <1>1, <1>13, BackgroundStep DEF AppTypeOK
  <2>2. SaysNothing \/ (\E t \in InitThread : Stores(t)) \/ (\E r \in RecorderThread : Returns(r))
        \/ \E u \in Thread, m \in Message : Says(u, m)
    BY <1>1, <1>13, BackgroundStep DEF AppTypeOK
  <2>3. sState' = sState /\ looper' = looper
    BY <1>3, <2>2 DEF SaysNothing, Stores, Returns, Says, AppTypeOK, TypeOK
  <2>4. Undisturbed
    BY <1>1, <1>13, <2>1, <2>3, UndisturbedBefore, SMTT(30) DEF AppTypeOK, app
  <2> QED
    BY <2>1, <2>3, <2>4 DEF ShutterStops, app
<1> QED
  BY <1>0, <1>4, <1>5, <1>6, <1>7, <1>8, <1>9, <1>10, <1>11, <1>12, <1>13 DEF AppNext, Service
-----------------------------------------------------------------------------
(***************************************************************************)
(* The InitFragment.  Whoever starts a recording has seen the recorder     *)
(* initialized, so RecorderModel has too, and an InitFragment that is      *)
(* still there is one whose answer is still under way.                     *)
(***************************************************************************)

\* Something has been said of a recording.
RecordingSaid ==
  \/ sState = "RECORDING" \/ StopUnsent
  \/ \E m \in Range(looper) : m.what \in {"ON_START_RECORDER", "ON_STOP_RECORDER"}
  \/ \E c \in Range(broadcasts) : c.old # "UNINITIALIZED"

\* Who starts recordings knows that the recorder is initialized.
StartersKnow ==
  ~overlapped /\ Announced =>
    /\ screen = "recorder" \/ posted = "recorder" => ModelInitialized
    /\ \A i \in DOMAIN commands : i > redelivered /\ commands[i] = "START_REC" => ModelInitialized
    /\ ~resumed /\ RecordingSaid => ModelInitialized
    /\ ~resumed /\ ~missed /\ ModelInitialized => screen # "init" \/ posted # "none"

\* A life in which ON_INITIALIZED has been sent began with nothing said.
LEMMA AnnouncesFirst ==
  ASSUME AppTypeOK, IInv, DInv, OneMessage, InitsTell, NothingToSay, SaidOnceTrue, ~overlapped, Announces
  PROVE  /\ ~ModelInitialized' /\ screen' # "recorder" /\ posted' # "recorder" /\ ~RecordingSaid'
         /\ \A i \in DOMAIN commands' : i > redelivered' => commands'[i] # "START_REC"
<1>1. /\ looper' = << >> /\ broadcasts' = << >> /\ UNCHANGED <<commands, redelivered>>
      /\ ~ModelInitialized' /\ screen' # "recorder" /\ posted' # "recorder" /\ \A t \in Thread : outbox[t] = << >>
  BY DEF Announces, NothingToSay, SaidOnceTrue, Initialized, ModelInitialized, app, intents, model, ui, transaction
<1>2. ~StopUnsent
  <2>1. \A m : <<m>> # << >>
    OBVIOUS
  <2> QED
    BY <1>1, <2>1 DEF StopUnsent, DInv, OutboxesTell, Thread
<1>3. ~RecordingSaid'
  BY <1>1, <1>2, RangeEmpty DEF Announces, RecordingSaid
<1> QED
  BY <1>1, <1>3 DEF Announces, SaidOnceTrue, Initialized

\* Once ON_INITIALIZED has been sent, RecorderModel does not unlearn it.
LEMMA ModelLearns ==
  ASSUME AppTypeOK, KnownChanges, NoFailureSaid, [AppNext]_appvars, ~AppCrash, ~overlapped, Announced
  PROVE  /\ ModelInitialized => ModelInitialized'
         /\ ModelReceives => ModelInitialized'
         /\ ~ModelReceives => mRecorderState' = mRecorderState
<1> USE DEF intents, model, ui, transaction, history
<1>1. ASSUME ModelReceives PROVE ModelInitialized'
  <2>1. Head(broadcasts) \in Range(broadcasts)
    BY <1>1, ReceiveTakes
  <2>2. Head(broadcasts).new \in {"FREE", "RECORDING"}
    BY <2>1 DEF KnownChanges, NoFailureSaid
  <2> QED
    BY <1>1, <2>2 DEF ModelReceives, ModelInitialized
<1>2. ASSUME ~ModelReceives PROVE mRecorderState' = mRecorderState
  BY <1>2 DEF AppNext, Service, ServiceInit, ServiceStart, ServiceStopsNothing, ServiceFindsPid,
     ServiceKills, ServiceCallback, ActivityCreated, FragmentReplaced, ActivityReused,
     ActivityCovered, ActivityLeft, ClickShutter, TapNotification, Background, appvars, app
<1> QED
  BY <1>1, <1>2 DEF ModelInitialized

\* Nothing is said of a recording but what had been said, or of one that
\* START_REC begins.
LEMMA RecordingSaidBefore ==
  ASSUME AppTypeOK, IInv, DInv, OneMessage, InitsTell, [AppNext]_appvars, ~AppCrash, ~overlapped,
         ~overlapped', ~ModelReceives, RecordingSaid'
  PROVE  RecordingSaid \/ \E r \in RecorderThread : ServiceStart /\ Start(r)
<1> USE DEF intents, model, ui, transaction, history, core, vars, appVars
<1>1. CASE UNCHANGED <<sState, recPc, looper, broadcasts>>
  BY <1>1 DEF RecordingSaid, StopUnsent
<1>2. CASE ServiceInit
  <2>1. UNCHANGED <<sState, recPc, looper>>
    BY <1>2 DEF ServiceInit, InitCall
  <2>2. Answer /\ sState # "RECORDING" =>
          \A c \in Range(broadcasts') : c \in Range(broadcasts) \/ c.old = "UNINITIALIZED"
    BY AnswerSays DEF AnswerChange
  <2>3. UNCHANGED broadcasts \/ sState = "RECORDING" \/ (Answer /\ sState # "RECORDING")
    BY <1>2 DEF ServiceInit
  <2> QED
    BY <1>1, <2>1, <2>2, <2>3 DEF RecordingSaid, StopUnsent
<1>3. CASE ServiceStart \/ ServiceStopsNothing \/ ServiceFindsPid \/ ServiceKills
  BY <1>1, <1>3 DEF ServiceStart, ServiceStopsNothing, ServiceFindsPid, StopFindPid, app, ServiceKills, StopKill
<1>4. CASE ServiceCallback
  <2>1. UNCHANGED <<sState, recPc>>
    BY <1>4 DEF ServiceCallback, HandleMessage
  <2>2. Range(looper) = {Head(looper)} \cup Range(looper') /\ Head(looper) \in Message
    BY <1>4, CallbackSays, RangeTail
  <2>3. \A c \in Range(broadcasts') : c \in Range(broadcasts) \/ c = ChangeOf(Head(looper))
    BY <1>4, CallbackSays
  <2>4. ChangeOf(Head(looper)).old # "UNINITIALIZED" =>
          Head(looper).what \in {"ON_START_RECORDER", "ON_STOP_RECORDER"}
    BY <2>2 DEF ChangeOf, Message, What
  <2> QED
    BY <2>1, <2>2, <2>3, <2>4 DEF RecordingSaid, StopUnsent
<1>5. CASE \/ ActivityCreated \/ FragmentReplaced \/ ActivityReused \/ ActivityCovered \/ ActivityLeft
           \/ ClickShutter \/ TapNotification \/ UNCHANGED appvars
  BY <1>1, <1>5 DEF ActivityCreated, FragmentReplaced, ActivityReused, ActivityCovered, ActivityLeft,
     ClickShutter, TapNotification, appvars, app
<1>6. CASE Background
  <2>1. UNCHANGED app
    BY <1>6 DEF Background
  <2>2. SaysNothing \/ (\E t \in InitThread : Stores(t)) \/ (\E r \in RecorderThread : Returns(r))
        \/ \E u \in Thread, m \in Message : Says(u, m)
    BY <1>6, BackgroundStep DEF AppTypeOK
  <2>3. CASE SaysNothing \/ \E t \in InitThread : Stores(t)
    BY <2>1, <2>3 DEF SaysNothing, Stores, RecordingSaid, app
  <2>4. CASE \E r \in RecorderThread : Returns(r)
    BY <2>4 DEF Returns, RecordingSaid
  <2>5. ASSUME NEW u \in Thread, NEW m \in Message, Says(u, m) PROVE RecordingSaid
    <3>1. /\ Range(looper') = Range(looper) \cup {m} /\ outbox[u] = <<m>> /\ sState' = sState
          /\ m.what # "ON_START_RECORDER"
      BY <2>5, RangeAppend DEF Says, AppTypeOK, TypeOK
    <3>2. CASE m.what = "ON_STOP_RECORDER"
      <4>1. u \in RecorderThread
        BY <3>1, <3>2 DEF InitsTell, Thread
      <4>2. <<m>> # << >>
        OBVIOUS
      <4>3. recPc[u] = "post"
        BY <3>1, <4>1, <4>2 DEF DInv, OutboxesTell
      <4> QED
        BY <4>1, <4>3 DEF RecordingSaid, StopUnsent
    <3>3. CASE m.what # "ON_STOP_RECORDER"
      <4>1. StopUnsent' <=> StopUnsent
        BY <2>5, <3>3 DEF Says
      <4>2. broadcasts' = broadcasts
        BY <2>1 DEF app
      <4> QED
        BY <3>1, <3>3, <4>1, <4>2 DEF RecordingSaid
    <3> QED
      BY <3>2, <3>3
  <2> QED
    BY <2>2, <2>3, <2>4, <2>5
<1> QED
  BY <1>2, <1>3, <1>4, <1>5, <1>6 DEF AppNext, Service

\* An InitFragment that stays, with nothing posted to replace it, had nothing
\* posted before: RecorderModel has received no answer.
LEMMA ReceivedByInit ==
  ASSUME ModelReceives, screen' = "init", posted' = "none", ~missed'
  PROVE  Head(broadcasts).old # "UNINITIALIZED" /\ screen = "init" /\ posted = "none" /\ ~missed
<1>1. screen = "init"
  BY DEF ModelReceives
<1>2. ~onInitEvent(Head(broadcasts).new = "FREE")
  BY <1>1 DEF onInitEvent
<1> QED
  BY <1>1, <1>2 DEF ModelReceives

LEMMA InitStays ==
  ASSUME AppTypeOK, [AppNext]_appvars, ~AppCrash, ~ActivityCreated, ~ModelReceives,
         screen' = "init", posted' = "none", ~missed'
  PROVE  screen = "init" /\ posted = "none" /\ ~missed
<1> USE DEF ui, transaction, history
<1>1. CASE FragmentReplaced \/ ActivityReused \/ ActivityCovered
  BY <1>1 DEF FragmentReplaced, ActivityReused, ActivityCovered, ExecPendingActions, AppTypeOK
<1>2. CASE ActivityLeft \/ (ClickShutter /\ ClickStart)
  BY <1>2 DEF ActivityLeft, ClickStart, Destroyed
<1>3. CASE \/ Service \/ ServiceCallback \/ (ClickShutter /\ ClickStop) \/ TapNotification \/ Background
           \/ UNCHANGED appvars
  <2>1. UNCHANGED <<screen, posted, missed>>
    BY <1>3 DEF Service, ServiceInit, ServiceStart, ServiceStopsNothing, ServiceFindsPid, ServiceKills,
       ServiceCallback, ClickShutter, ClickStop, TapNotification, Background, appvars, app
  <2> QED
    BY <2>1
<1> QED
  BY <1>1, <1>2, <1>3 DEF AppNext, ClickShutter

LEMMA StartersKnowStep ==
  ASSUME AppTypeOK, IInv, DInv, OneMessage, InitsTell, StopInProgress, KnownChanges, NothingToSay,
         SaidOnceTrue, NoFailureSaid, StartersKnow, [AppNext]_appvars
  PROVE  StartersKnow'
<1> SUFFICES ASSUME ~overlapped', Announced'
             PROVE  StartersKnow'
  BY DEF StartersKnow
<1> USE DEF intents, model, ui, transaction, history, core, vars, appVars
<1>1. ~AppCrash
  <2>1. AppCrash => looper' = << >> /\ heard' = << >> /\ \A t \in Thread : outbox'[t] = << >>
    BY DEF AppCrash, Crash
  <2>2. \A m : << >> # <<m>>
    OBVIOUS
  <2> QED
    BY <2>1, <2>2, RangeEmpty DEF Announced, Hears
<1>2. ~overlapped
  BY <1>1, OverlapLasts
<1>3. CASE Announces
  BY <1>2, <1>3, AnnouncesFirst DEF StartersKnow
<1> SUFFICES ASSUME Announced
             PROVE  StartersKnow'
  BY <1>1, <1>3, AnnouncedBefore
<1>4. /\ screen = "recorder" \/ posted = "recorder" => ModelInitialized
      /\ \A i \in DOMAIN commands : i > redelivered /\ commands[i] = "START_REC" => ModelInitialized
      /\ ~resumed /\ RecordingSaid => ModelInitialized
      /\ ~resumed /\ ~missed /\ ModelInitialized => screen # "init" \/ posted # "none"
  BY <1>2 DEF StartersKnow
<1>5. /\ ModelInitialized => ModelInitialized'
      /\ ModelReceives => ModelInitialized'
      /\ ~ModelReceives => mRecorderState' = mRecorderState
  BY <1>1, <1>2, ModelLearns
<1>6. screen' = "recorder" \/ posted' = "recorder" => ModelInitialized'
  <2>1. screen' = "recorder" \/ posted' = "recorder" =>
          \/ screen = "recorder" \/ posted = "recorder"
          \/ ModelReceives \/ (ActivityCreated /\ ModelInitialized)
    BY <1>1 DEF AppNext, Service, ServiceInit, ServiceStart, ServiceStopsNothing, ServiceFindsPid,
       ServiceKills, ServiceCallback, ActivityCreated, FragmentReplaced, ActivityReused, ActivityCovered,
       ActivityLeft, ExecPendingActions, Destroyed, ClickShutter, ClickStart, ClickStop, TapNotification,
       Background, appvars, app
  <2> QED
    BY <1>4, <1>5, <2>1
<1>7. \A i \in DOMAIN commands' : i > redelivered' /\ commands'[i] = "START_REC" => ModelInitialized'
  <2>1. CASE ServiceInit \/ ServiceStart \/ ServiceStopsNothing \/ ServiceKills
    <3>1. Handled /\ commands # << >>
      BY <2>1 DEF ServiceInit, ServiceStart, ServiceStopsNothing, Handles, ServiceKills, StopKill, StopInProgress
    <3> QED
      BY <1>4, <1>5, <3>1, HandledShifts
  <2>2. CASE ActivityCreated \/ ClickShutter \/ TapNotification
    <3>1. PICK command \in Action : Sends(command) /\ (command = "START_REC" => ModelInitialized)
      BY <1>4, <2>2 DEF ActivityCreated, ClickShutter, ClickStart, ClickStop, TapNotification, Action
    <3> QED
      BY <1>4, <1>5, <3>1, SendsAdds
  <2>3. CASE UNCHANGED intents
    BY <1>4, <1>5, <2>3
  <2> QED
    BY <1>1, <2>1, <2>2, <2>3 DEF AppNext, Service, ServiceFindsPid, ServiceCallback, ModelReceives,
       FragmentReplaced, ActivityReused, ActivityCovered, ActivityLeft, Background, appvars, app
<1>8. ~resumed' => ~resumed
  BY <1>1 DEF AppNext, Service, ServiceInit, ServiceStart, ServiceStopsNothing, ServiceFindsPid,
     ServiceKills, ServiceCallback, ModelReceives, ActivityCreated, FragmentReplaced, ActivityReused,
     ActivityCovered, ActivityLeft, ClickShutter, TapNotification, Background, appvars, app
<1>9. ~resumed' /\ RecordingSaid' => ModelInitialized'
  <2>1. SUFFICES ASSUME ~resumed', RecordingSaid', ~ModelReceives, ~RecordingSaid
                 PROVE  ModelInitialized
    BY <1>4, <1>5, <1>8
  <2>2. PICK r \in RecorderThread : ServiceStart /\ Start(r)
    BY <1>1, <1>2, <2>1, RecordingSaidBefore
  <2>3. ~(redelivered > 0)
    BY <2>1, <2>2 DEF ServiceStart, Start, CanStart, Initialized
  <2>4. commands # << >> /\ commands[1] = "START_REC"
    BY <2>2 DEF ServiceStart, Handles
  <2>5. 1 \in DOMAIN commands /\ 1 > redelivered
    BY <2>3, <2>4 DEF AppTypeOK
  <2> QED
    BY <1>4, <2>4, <2>5
<1>10. ~resumed' /\ ~missed' /\ ModelInitialized' => screen' # "init" \/ posted' # "none"
  <2>1. SUFFICES ASSUME ~resumed', ~missed', ModelInitialized', screen' = "init", posted' = "none"
                 PROVE  FALSE
    OBVIOUS
  <2>2. CASE ActivityCreated
    BY <2>1, <2>2 DEF ActivityCreated, ModelInitialized
  <2>3. CASE ModelReceives
    <3>1. Head(broadcasts).old # "UNINITIALIZED" /\ screen = "init" /\ posted = "none" /\ ~missed
      BY <2>1, <2>3, ReceivedByInit
    <3>2. Head(broadcasts) \in Range(broadcasts)
      BY <2>3, ReceiveTakes
    <3>3. RecordingSaid
      BY <3>1, <3>2 DEF RecordingSaid
    <3> QED
      BY <1>4, <1>8, <2>1, <3>1, <3>3
  <2>4. CASE ~ActivityCreated /\ ~ModelReceives
    <3>1. ModelInitialized
      BY <1>5, <2>1, <2>4 DEF ModelInitialized
    <3>2. screen = "init" /\ posted = "none" /\ ~missed
      BY <1>1, <2>1, <2>4, InitStays
    <3> QED
      BY <1>4, <1>8, <2>1, <3>1, <3>2
  <2> QED
    BY <2>2, <2>3, <2>4
<1> QED
  BY <1>6, <1>7, <1>9, <1>10 DEF StartersKnow

\* The answer that replaces the InitFragment, on one of its ways.
Answers(message) == message.what \in {"ON_INITIALIZED", "ON_FAILED_TO_INIT"}

AnswerUnderWay ==
  \/ "INIT" \in Range(commands) \/ BusyInits # {}
  \/ \E m \in Range(looper) : Answers(m)
  \/ \E t \in Thread, m \in Message : outbox[t] = <<m>> /\ Answers(m)
  \/ \E c \in Range(broadcasts) : c.old = "UNINITIALIZED"

InitAnswerComes ==
  ~overlapped /\ ~missed /\ ~resumed /\ screen = "init" /\ posted = "none"
    /\ (Initialized => Announced) => AnswerUnderWay

\* What the recorder's threads say leaves an answer under way.
LEMMA BackgroundAnswers ==
  ASSUME AppTypeOK, IInv, DInv, OneMessage, InitsTell, NoFailureSaid, Background, ~overlapped,
         ~AppCrash, [AppNext]_appvars, ~overlapped', Initialized' => Announced', AnswerUnderWay
  PROVE  AnswerUnderWay'
<1>1. UNCHANGED <<commands, broadcasts>>
  BY DEF Background, app, intents
<1>2. SaysNothing \/ (\E t \in InitThread : Stores(t)) \/ (\E r \in RecorderThread : Returns(r))
      \/ \E u \in Thread, m \in Message : Says(u, m)
  BY BackgroundStep DEF AppTypeOK
<1>3. CASE SaysNothing
  BY <1>1, <1>3 DEF SaysNothing, AnswerUnderWay
<1>4. ASSUME NEW t \in InitThread, Stores(t) PROVE AnswerUnderWay'
  <2>1. ASSUME NEW m \in Message, Answers(m), outbox' = [outbox EXCEPT ![t] = <<m>>]
        PROVE  AnswerUnderWay'
    BY <2>1 DEF AnswerUnderWay, AppTypeOK, TypeOK, Thread
  <2>2. ~(sState = "FAILED_TO_INIT" /\ sState' = "FREE")
    <3>1. SUFFICES ASSUME sState = "FAILED_TO_INIT", sState' = "FREE"
                   PROVE  FALSE
      OBVIOUS
    <3>2. Announced'
      BY <3>1 DEF Initialized
    <3>3. Announced
      BY <3>1, <3>2, AnnouncedBefore DEF Announces
    <3> QED
      BY <3>1, <3>3 DEF NoFailureSaid, Initialized
  <2> QED
    BY <1>4, <2>1, <2>2 DEF Stores, Answers
<1>5. ASSUME NEW r \in RecorderThread, Returns(r) PROVE AnswerUnderWay'
  <2>1. BusyInits' = BusyInits /\ looper' = looper /\ outbox' = [outbox EXCEPT ![r] = <<StopOf(r)>>]
    BY <1>5 DEF Returns
  <2>2. \A m \in Message : outbox[r] = <<m>> => ~Answers(m)
    <3>1. \A m : << >> # <<m>> /\ (<<StopOf(r)>> = <<m>> => m = StopOf(r))
      OBVIOUS
    <3>2. outbox[r] = <<StopOf(r)>> \/ outbox[r] = << >>
      BY DEF DInv, OutboxesTell
    <3>3. ~Answers(StopOf(r))
      BY DEF Answers, StopOf
    <3> QED
      BY <3>1, <3>2, <3>3
  <2>3. \A t \in Thread, m \in Message : outbox[t] = <<m>> /\ Answers(m) => outbox'[t] = <<m>>
    BY <2>1, <2>2 DEF AppTypeOK, TypeOK
  <2> QED
    BY <1>1, <2>1, <2>3 DEF AnswerUnderWay
<1>6. ASSUME NEW u \in Thread, NEW m \in Message, Says(u, m) PROVE AnswerUnderWay'
  <2>1. /\ Range(looper') = Range(looper) \cup {m} /\ BusyInits' = BusyInits
        /\ outbox[u] = <<m>> /\ outbox' = [outbox EXCEPT ![u] = << >>]
    BY <1>6, RangeAppend DEF Says, AppTypeOK, TypeOK
  <2>2. \A t \in Thread, n \in Message : outbox[t] = <<n>> => n = m \/ outbox'[t] = <<n>>
    <3>1. \A n : <<m>> = <<n>> => n = m
      OBVIOUS
    <3> QED
      BY <2>1, <3>1 DEF AppTypeOK, TypeOK
  <2> QED
    BY <1>1, <2>1, <2>2 DEF AnswerUnderWay
<1> QED
  BY <1>2, <1>3, <1>4, <1>5, <1>6

LEMMA InitAnswerComesStep ==
  ASSUME AppTypeOK, IInv, DInv, OneMessage, InitsTell, StopInProgress, RegisteredFirst, NoFailureSaid,
         SaidOnceTrue, StartersKnow, InitAnswerComes, [AppNext]_appvars
  PROVE  InitAnswerComes'
<1> SUFFICES ASSUME ~overlapped', ~missed', ~resumed', screen' = "init", posted' = "none",
                    Initialized' => Announced'
             PROVE  AnswerUnderWay'
  BY DEF InitAnswerComes
<1> USE DEF intents, model, ui, transaction, history, core, vars, appVars
<1>0. ~AppCrash
  BY DEF AppCrash, Destroyed
<1>1. ~overlapped
  BY <1>0, OverlapLasts
<1>2. CASE ActivityCreated
  <2>1. "INIT" \in Range(commands')
    BY <1>2, SendsAdds DEF ActivityCreated, Action
  <2> QED
    BY <2>1 DEF AnswerUnderWay
<1> SUFFICES ASSUME ~ActivityCreated
             PROVE  AnswerUnderWay'
  BY <1>2
<1>3. ModelReceives => Head(broadcasts).old # "UNINITIALIZED"
  BY ReceivedByInit
<1>4. screen = "init" /\ posted = "none" /\ ~missed
  BY <1>0, ReceivedByInit, InitStays
<1>5. ~resumed
  BY <1>0 DEF AppNext, Service, ServiceInit, ServiceStart, ServiceStopsNothing, ServiceFindsPid,
     ServiceKills, ServiceCallback, ModelReceives, FragmentReplaced, ActivityReused, ActivityCovered,
     ActivityLeft, ClickShutter, TapNotification, Background, appvars, app
<1>6. Initialized => Announced
  <2>1. Initialized => Announced'
    BY <1>0, InitializedLasts
  <2> QED
    BY <1>0, <2>1, AnnouncedBefore DEF Announces, Initialized
<1>7. AnswerUnderWay
  BY <1>1, <1>4, <1>5, <1>6 DEF InitAnswerComes
<1>8. registered
  BY <1>4 DEF RegisteredFirst
<1>9. CASE UNCHANGED <<commands, initPc, looper, outbox, broadcasts>>
  BY <1>7, <1>9 DEF AnswerUnderWay, BusyInits
<1>10. ASSUME Handled, commands # << >>, Head(commands) # "INIT", UNCHANGED <<initPc, outbox, broadcasts>>,
              Range(looper) \subseteq Range(looper')
       PROVE  AnswerUnderWay'
  <2>1. Range(commands) = {Head(commands)} \cup Range(commands')
    BY <1>10, HandledShifts
  <2> QED
    BY <1>7, <1>10, <2>1 DEF AnswerUnderWay, BusyInits
<1>11. CASE ServiceInit
  <2>1. ASSUME NEW t \in InitThread, InitCall(t) PROVE AnswerUnderWay'
    <3>1. t \in BusyInits'
      BY <2>1 DEF InitCall, BusyInits, InitBusy, AppTypeOK, TypeOK
    <3> QED
      BY <3>1 DEF AnswerUnderWay
  <2>2. CASE Initialized /\ Answer
    <3>1. sState # "RECORDING"
      BY <1>1, <1>4, <1>5, <1>6, <2>2 DEF StartersKnow, RecordingSaid
    <3>2. AnswerChange \in Range(broadcasts') /\ AnswerChange.old = "UNINITIALIZED"
      BY <1>8, <2>2, <3>1, AnswerSays DEF AnswerChange
    <3> QED
      BY <3>2 DEF AnswerUnderWay
  <2> QED
    BY <1>11, <2>1, <2>2 DEF ServiceInit
<1>12. CASE ServiceStart
  <2>1. Range(looper) \subseteq Range(looper') /\ UNCHANGED <<initPc, outbox>>
    <3>1. ASSUME NEW r \in RecorderThread, Start(r)
          PROVE  Range(looper) \subseteq Range(looper') /\ UNCHANGED <<initPc, outbox>>
      <4>1. Range(looper') = Range(looper) \cup {StartOf(r)}
        BY <3>1, StartSays DEF AppTypeOK
      <4> QED
        BY <3>1, <4>1 DEF Start
    <3> QED
      BY <1>12, <3>1 DEF ServiceStart
  <2> QED
    BY <1>10, <1>12, <2>1 DEF ServiceStart, Handles
<1>13. CASE ServiceStopsNothing \/ ServiceKills
  <2>1. commands # << >> /\ Head(commands) = "STOP_REC" /\ Handled
    BY <1>13 DEF ServiceStopsNothing, Handles, ServiceKills, StopKill, StopInProgress
  <2>2. UNCHANGED <<looper, outbox, initPc, broadcasts>>
    BY <1>13 DEF ServiceStopsNothing, ServiceKills, StopKill
  <2> QED
    BY <1>10, <2>1, <2>2
<1>14. CASE ServiceCallback
  <2>1. Range(looper) = {Head(looper)} \cup Range(looper') /\ Head(looper) \in Message
    BY <1>14, CallbackSays, RangeTail
  <2>2. Range(broadcasts') = Range(broadcasts) \cup {ChangeOf(Head(looper))}
    BY <1>8, <1>14, CallbackSays
  <2>3. Answers(Head(looper)) => ChangeOf(Head(looper)).old = "UNINITIALIZED"
    BY DEF Answers, ChangeOf
  <2>4. UNCHANGED <<commands, initPc, outbox>>
    BY <1>14 DEF ServiceCallback, HandleMessage
  <2> QED
    BY <1>7, <2>1, <2>2, <2>3, <2>4 DEF AnswerUnderWay, BusyInits
<1>15. CASE ModelReceives
  <2>1. Range(broadcasts) = {Head(broadcasts)} \cup Range(broadcasts')
    BY <1>15, ReceiveTakes
  <2>2. UNCHANGED <<commands, initPc, looper, outbox>>
    BY <1>15 DEF ModelReceives
  <2> QED
    BY <1>3, <1>7, <1>15, <2>1, <2>2 DEF AnswerUnderWay, BusyInits
<1>16. CASE ClickShutter \/ TapNotification
  <2>1. Sends("STOP_REC") /\ UNCHANGED <<initPc, looper, outbox, broadcasts>>
    BY <1>4, <1>16 DEF ClickShutter, TapNotification
  <2>2. Range(commands') = Range(commands) \cup {"STOP_REC"}
    BY <2>1, SendsAdds DEF Action
  <2> QED
    BY <1>7, <2>1, <2>2 DEF AnswerUnderWay, BusyInits
<1>17. CASE \/ ServiceFindsPid \/ FragmentReplaced \/ ActivityReused \/ ActivityCovered
            \/ ActivityLeft \/ UNCHANGED appvars
  BY <1>9, <1>17 DEF ServiceFindsPid, StopFindPid, FragmentReplaced, ActivityReused, ActivityCovered,
     ActivityLeft, appvars, app
<1>18. CASE Background
  BY <1>0, <1>1, <1>7, <1>18, BackgroundAnswers
<1> QED
  BY <1>0, <1>11, <1>12, <1>13, <1>14, <1>15, <1>16, <1>17, <1>18 DEF AppNext, Service
-----------------------------------------------------------------------------
(***************************************************************************)
(* All the parts are inductive together, on top of what the recorder keeps *)
(***************************************************************************)

AppInv ==
  /\ AppTypeOK /\ StopInProgress /\ NativeOnce /\ OneMessage /\ InitsTell
  /\ PostedInTime /\ RegisteredFirst /\ KnownChanges /\ NothingToSay /\ SaidOnceTrue
  /\ GhostGoes /\ SaidBeforeStart /\ NotificationStays
  /\ NoFailureSaid /\ LastAgrees /\ EndFollows /\ ShutterStops
  /\ StartersKnow /\ InitAnswerComes

\* The app starts with nothing said, nothing shown and nothing under way.
LEMMA AppInitKeeps == ASSUME AppInit PROVE AppInv
<1>1. AppTypeOK
  <2>1. TypeOK
    BY InitType DEF AppInit
  <2>2. /\ commands \in Seq(Action) /\ Len(commands) = 0 /\ broadcasts \in Seq(Change)
        /\ redelivered = 0
    BY DEF AppInit
  <2>3. shutter \in Shutter
    BY DEF AppInit, NewShutter, Shutter
  <2>4. {registered, saved, foreground, launching, stopLost, resumed, missed, unheard} \subseteq BOOLEAN
    BY DEF AppInit
  <2>5. Len(commands) <= MaxCommands /\ redelivered \in 0 .. Len(commands)
    BY <2>2, AppAssumption
  <2>6. /\ launches \in 0 .. MaxLaunches /\ crossed \in {"no", "queued", "unsent"}
        /\ mRecorderState \in State /\ screen \in {"none", "init", "recorder", "error"}
        /\ posted \in {"none", "recorder", "error"} /\ ahead = 0
    BY AppAssumption DEF AppInit, State
  <2> QED
    BY <2>1, <2>2, <2>3, <2>4, <2>5, <2>6 DEF AppTypeOK
<1>2. /\ sState = "UNINITIALIZED" /\ pidToKill = NULL /\ looper = << >> /\ heard = << >>
      /\ \A t \in Thread : outbox[t] = << >>
      /\ \A r \in RecorderThread : native[r] = "none" /\ recPc[r] = "new"
      /\ commands = << >> /\ broadcasts = << >> /\ registered = FALSE
      /\ mRecorderState = "UNINITIALIZED" /\ screen = "none" /\ posted = "none" /\ foreground = FALSE
  BY DEF AppInit, Init
<1>3. \A m : << >> # <<m>>
  OBVIOUS
<1>4. ~Announced
  BY <1>2, <1>3, RangeEmpty DEF Announced, Hears
<1>5. StopInProgress /\ NativeOnce /\ OneMessage /\ InitsTell /\ PostedInTime /\ RegisteredFirst
      /\ KnownChanges /\ NothingToSay
  <2>1. StopInProgress /\ NativeOnce /\ OneMessage
    BY <1>2 DEF StopInProgress, MainThreadFree, NativeOnce, OneMessage
  <2>2. InitsTell
    BY <1>2, <1>3 DEF InitsTell, Thread
  <2>3. PostedInTime /\ RegisteredFirst /\ KnownChanges /\ NothingToSay
    BY <1>2, RangeEmpty DEF PostedInTime, RegisteredFirst, KnownChanges, NothingToSay
  <2> QED
    BY <2>1, <2>2, <2>3
<1>6. SaidOnceTrue
  <2>1. \A i \in DOMAIN commands : FALSE
    BY <1>2
  <2> QED
    BY <1>2, <1>3, <2>1, RangeEmpty DEF SaidOnceTrue, ModelInitialized
<1>7. GhostGoes /\ SaidBeforeStart /\ NotificationStays /\ ShutterStops
  BY <1>2 DEF GhostGoes, SaidBeforeStart, NotificationStays, ShutterStops
<1>8. NoFailureSaid /\ StartersKnow
  BY <1>4 DEF NoFailureSaid, StartersKnow
<1>9. LastAgrees
  BY <1>2, <1>3 DEF LastAgrees, Answered
<1>10. EndFollows
  BY <1>2, FollowedEmpty DEF EndFollows
<1>11. InitAnswerComes
  BY <1>2 DEF InitAnswerComes
<1> QED
  BY <1>1, <1>5, <1>6, <1>7, <1>8, <1>9, <1>10, <1>11 DEF AppInv

LEMMA AppStepKeeps ==
  ASSUME IInv, DInv, AppInv, [AppNext]_appvars
  PROVE  AppInv'
<1> USE DEF AppInv
<1>1. AppTypeOK' /\ StopInProgress'
  BY AppTypeStep, StopInProgressStep
<1>2. NativeOnce' /\ OneMessage' /\ InitsTell'
  <2>1. TypeOK /\ [Next]_vars
    BY CoreStep DEF AppTypeOK
  <2> QED
    BY <2>1, NativeOnceStep, OneMessageStep, InitsTellStep
<1>3. PostedInTime' /\ RegisteredFirst' /\ KnownChanges' /\ NothingToSay' /\ SaidOnceTrue'
  BY PostedInTimeStep, RegisteredFirstStep, KnownChangesStep, NothingToSayStep, SaidOnceTrueStep
<1>4. GhostGoes' /\ SaidBeforeStart' /\ NotificationStays'
  BY GhostGoesStep, SaidBeforeStartStep, NotificationStaysStep
<1>5. NoFailureSaid' /\ LastAgrees'
  BY NoFailureSaidStep, LastAgreesStep
<1>6. EndFollows' /\ ShutterStops'
  BY EndFollowsStep, ShutterStopsStep
<1>7. StartersKnow' /\ InitAnswerComes'
  BY StartersKnowStep, InitAnswerComesStep
<1> QED
  BY <1>1, <1>2, <1>3, <1>4, <1>5, <1>6, <1>7

\* The four queues, the copies of the state and the recorder stay in step:
\* every handler, thread, click and death keeps the invariant.
THEOREM AppInductive == AppSpec => [](IInv /\ DInv /\ AppInv)
<1>1. AppInit => AppInv
  BY AppInitKeeps
<1>2. IInv /\ DInv /\ AppInv /\ [AppNext]_<<core, app>> => AppInv'
  BY AppStepKeeps DEF appvars
<1> QED
  BY <1>1, <1>2, CoreKept, PTL DEF AppSpec
-----------------------------------------------------------------------------
(* What follows of the properties of the app.                              *)

\* With nothing under way no recording's end is either.
LEMMA QuietIsOver ==
  ASSUME DInv, ~overlapped, Quiet
  PROVE  ~StopQueued /\ ~StopUnsent
<1>1. ~StopQueued
  BY DEF Quiet, StopQueued
<1>2. ASSUME NEW r \in RecorderThread, recPc[r] = "post" PROVE FALSE
  <2>1. outbox[r] = <<StopOf(r)>>
    BY <1>2 DEF DInv, OutboxesTell
  <2>2. outbox[r] = << >>
    BY DEF Quiet, Thread
  <2>3. <<StopOf(r)>> # << >>
    OBVIOUS
  <2> QED
    BY <2>1, <2>2, <2>3
<1> QED
  BY <1>1, <1>2 DEF StopUnsent

\* Every variable of the app keeps its type, and the queue of intents its
\* bound, through any number of deaths.
THEOREM AppTypeCorrect == AppSpec => []AppTypeOK
<1>1. AppInv => AppTypeOK
  BY DEF AppInv
<1> QED
  BY <1>1, AppInductive, PTL

\* start() and stop() never throw IllegalStateException for an intent sent
\* in this life of the app: RecorderService gets it after the recorder has
\* been initialized, and the recorder stays so.
THEOREM CommandsStayLegal == AppSpec => []CommandsAreLegal
<1>1. AppInv => CommandsAreLegal
  BY DEF AppInv, SaidOnceTrue, CommandsAreLegal
<1> QED
  BY <1>1, AppInductive, PTL

\* RecorderService takes its notification down once nothing is recorded,
\* also that of a START_REC which the recorder has refused.
THEOREM NotificationGoes == AppSpec => []NoGhostNotification
<1>1. DInv /\ AppInv => NoGhostNotification
  BY QuietIsOver DEF AppInv, GhostGoes, StopComing, NoGhostNotification, Settled
<1> QED
  BY <1>1, AppInductive, PTL

\* RecorderService keeps a notification that stops the recording while one
\* is in progress, whatever ends the one before.
THEOREM RecordingHasNotification == AppSpec => []RecordingIsVisible
<1>1. AppInv => RecordingIsVisible
  BY DEF AppInv, NotificationStays, RecordingIsVisible
<1> QED
  BY <1>1, AppInductive, PTL

\* RecorderModel's state, put together from broadcasts, is the recorder's.
THEOREM ModelIsRight == AppSpec => []ModelAgrees
<1>1. ASSUME AppInv, Settled, registered, ~overlapped, crossed # "unsent"
      PROVE  \/ mRecorderState = sState
             \/ ~ModelInitialized /\ sState = "FREE" /\ ~Hears("ON_INITIALIZED")
  <2>1. NothingUnsent /\ looper = << >>
    BY <1>1 DEF Settled, Quiet, NothingUnsent
  <2>2. Answered
    BY <1>1, RangeEmpty DEF Settled, Answered
  <2>3. Agrees(Believed) /\ Believed = mRecorderState
    BY <1>1, <2>1, <2>2 DEF AppInv, LastAgrees, Settled, Believed
  <2> QED
    BY <2>3 DEF Agrees, ModelInitialized, Announced
<1>2. AppInv => ModelAgrees
  BY <1>1 DEF ModelAgrees
<1> QED
  BY <1>2, AppInductive, PTL

\* The shutter of the RecorderFragment can be pressed and shows whether it
\* will start or stop a recording.
THEOREM ShutterIsRight == AppSpec => []ShutterTells
<1>1. ASSUME DInv, AppInv, Settled, Undisturbed, crossed # "unsent", ~unheard, screen = "recorder"
      PROVE  shutter = [enabled |-> TRUE, checked |-> sState = "RECORDING"]
  <2>1. /\ looper = << >> /\ broadcasts = << >> /\ ~overlapped /\ posted = "none"
        /\ \A c \in Range(commands) : c = "START_REC"
    BY <1>1, RangeEmpty DEF Settled, Quiet, Undisturbed
  <2>2. CASE sState = "RECORDING"
    BY <1>1, <2>1, <2>2 DEF AppInv, ShutterStops
  <2>3. CASE sState # "RECORDING"
    <3>1. ~StopQueued /\ ~StopUnsent
      BY <1>1, <2>1, QuietIsOver DEF Settled
    <3>2. shutter # NewShutter => \E c \in Range(broadcasts) : c \in StopChanges
      BY <1>1, <2>1, <2>3, <3>1 DEF AppInv, EndFollows
    <3>3. shutter = NewShutter
      BY <2>1, <3>2, RangeEmpty
    <3>4. (sState = "RECORDING") = FALSE
      BY <2>3
    <3> QED
      BY <3>3, <3>4 DEF NewShutter
  <2> QED
    BY <2>2, <2>3
<1>2. DInv /\ AppInv => ShutterTells
  BY <1>1 DEF ShutterTells
<1> QED
  BY <1>2, AppInductive, PTL

\* The InitFragment goes once init() has answered: the answer is shown, or
\* one is still under way to the activity.
THEOREM InitScreenIsReplaced == AppSpec => []InitScreenGoes
<1>1. ASSUME AppInv, Settled, ~overlapped, ~missed, ~resumed, screen = "init"
      PROVE  Initialized /\ ~Hears("ON_INITIALIZED")
  <2>1. /\ looper = << >> /\ broadcasts = << >> /\ commands = << >> /\ BusyInits = {}
        /\ posted = "none" /\ \A t \in Thread : outbox[t] = << >>
    BY <1>1 DEF Settled, Quiet
  <2>2. \A m : <<m>> # << >>
    OBVIOUS
  <2>3. ~AnswerUnderWay
    BY <2>1, <2>2, RangeEmpty DEF AnswerUnderWay
  <2>4. Initialized /\ ~Announced
    BY <1>1, <2>1, <2>3 DEF AppInv, InitAnswerComes
  <2> QED
    BY <2>4 DEF Announced
<1>2. AppInv => InitScreenGoes
  BY <1>1 DEF InitScreenGoes
<1> QED
  BY <1>2, AppInductive, PTL
=============================================================================
