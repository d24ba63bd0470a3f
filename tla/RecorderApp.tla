---------------------------- MODULE RecorderApp ----------------------------
(***************************************************************************)
(* The app around ShellScreenRecorder: RecorderService, which turns        *)
(* intents into its API calls and its callbacks into broadcasts;           *)
(* RecorderModel, which turns broadcasts into a state and events; and      *)
(* RecorderActivity with its fragments, which shows the events and turns   *)
(* clicks into intents.  All of it runs on the one main thread, in steps   *)
(* separated by the queues of intents, messages and broadcasts.            *)
(*                                                                         *)
(* The app may die and live again: what Android keeps for it is the        *)
(* intents that onStartCommand() has not finished.  finish() destroys the  *)
(* activity at once.  commit() only posts a fragment transaction to the    *)
(* main thread, behind what is queued there by then; that of onCreate() is *)
(* executed in onStart(), which follows at once.                           *)
(***************************************************************************)
EXTENDS ShellScreenRecorder, FiniteSets

CONSTANTS
  MaxLaunches,      \* bound on launches of the activity by the user
  MaxCommands       \* bound on intents under way

ASSUME AppAssumption ==
  MaxLaunches \in Nat /\ MaxCommands \in Nat

VARIABLES
  commands,         \* intents for RecorderService.onStartCommand()
  redelivered,      \* how many of the first of them are from an earlier life
  broadcasts,       \* ON_REC_STATE_CHANGED broadcasts under way
  registered,       \* has RecorderModel registered its receiver?
  mRecorderState,   \* RecorderModel.mRecorderState
  screen,           \* the fragment the activity shows; "none" without an activity
  saved,            \* is the activity stopped, onSaveInstanceState() called?
  posted,           \* the fragment of the committed transaction, "none" without one
  ahead,            \* how many of the broadcasts are queued ahead of it
  shutter,          \* the shutter of the RecorderFragment: enabled? checked?
  foreground,       \* is the service's notification, with its stop action, up?
  launching,        \* onStopRecorder() has started the activity
  launches,         \* launches by the user so far
  stopLost,         \* history: stop() did not reach the recording in progress
  crossed,          \* history: see ServiceStart
  resumed,          \* history: a redelivered START_REC has begun a recording
  missed,           \* history: the InitFragment could not be replaced
  unheard           \* history: an event found the new RecorderFragment still posted

history == <<stopLost, crossed, resumed, missed, unheard>>
intents == <<commands, redelivered>>
model == <<registered, mRecorderState>>
transaction == <<posted, ahead>>
ui == <<screen, saved, transaction, shutter, launching, launches>>
app == <<intents, broadcasts, model, foreground, ui, history>>
core == <<vars>>

Action == {"INIT", "START_REC", "STOP_REC"}
Change == [old : State, new : State]
Shutter == [enabled : BOOLEAN, checked : BOOLEAN]
NewShutter == [enabled |-> TRUE, checked |-> FALSE]
\* Mutant: isInitialized() forgets UNINITIALIZED
ModelNotFailed == mRecorderState # "FAILED_TO_INIT"

\* RecorderModel.isInitialized()
ModelInitialized == mRecorderState \notin {"UNINITIALIZED", "FAILED_TO_INIT"}

AppTypeOK ==
  /\ TypeOK
  /\ commands \in Seq(Action) /\ Len(commands) <= MaxCommands
  /\ redelivered \in 0 .. Len(commands)
  /\ broadcasts \in Seq(Change)
  /\ mRecorderState \in State
  /\ screen \in {"none", "init", "recorder", "error"}
  /\ posted \in {"none", "recorder", "error"} /\ ahead \in 0 .. Len(broadcasts)
  /\ shutter \in Shutter
  /\ {registered, saved, foreground, launching, stopLost, resumed, missed, unheard} \subseteq BOOLEAN
  /\ launches \in 0 .. MaxLaunches
  /\ crossed \in {"no", "queued", "unsent"}

AppInit ==
  /\ Init
  /\ commands = << >> /\ redelivered = 0
  /\ broadcasts = << >>
  /\ registered = FALSE /\ mRecorderState = "UNINITIALIZED"
  /\ screen = "none" /\ saved = FALSE /\ posted = "none" /\ ahead = 0
  /\ shutter = NewShutter
  /\ foreground = FALSE
  /\ launching = FALSE /\ launches = 0
  /\ stopLost = FALSE /\ crossed = "no" /\ resumed = FALSE
  /\ missed = FALSE /\ unheard = FALSE

Sends(command) ==
  /\ Len(commands) < MaxCommands
  /\ commands' = Append(commands, command)
  /\ UNCHANGED redelivered

Handles(command) ==
  /\ MainThreadFree /\ sStateListener
  /\ commands # << >> /\ Head(commands) = command

\* onStartCommand() returns
Handled ==
  /\ commands' = Tail(commands)
  /\ redelivered' = IF redelivered = 0 THEN 0 ELSE redelivered - 1

\* sendBroadcast() reaches the receivers there are
Broadcasts(old, new) ==
  broadcasts' = IF registered THEN Append(broadcasts, [old |-> old, new |-> new])
                              ELSE broadcasts
-----------------------------------------------------------------------------
(* RecorderService.onStartCommand().  start() and stop() throw unless the  *)
(* recorder is initialized; the exception kills the app: see AppCrash.     *)

\* Mutant: a recording in progress is not told
AnswerFree == Broadcasts("UNINITIALIZED", "FREE")

\* what an initialized recorder answers
Answer ==
  IF sState = "RECORDING" THEN Broadcasts("FREE", "RECORDING")
                          ELSE Broadcasts("UNINITIALIZED", "FREE")

\* INIT: an initialized recorder answers at once, another by a callback
ServiceInit ==
  /\ Handles("INIT")
  /\ Handled
  /\ \/ (\E t \in InitThread : InitCall(t)) /\ UNCHANGED broadcasts
     \/ Initialized /\ Answer /\ UNCHANGED core
  /\ UNCHANGED <<model, foreground, ui, history>>

\* START_REC: the notification is set up whether start() succeeds or not.
\* crossed tells whether it has succeeded while the end of an earlier
\* recording was still to be dispatched, or while the message of an earlier
\* change of state was still to be sent.
StopQueued == \E i \in DOMAIN looper : looper[i].what = "ON_STOP_RECORDER"

\* Mutant: no notification
setupNothing == UNCHANGED foreground

setupNotification == foreground' = TRUE

ServiceStart ==
  /\ Handles("START_REC")
  /\ Initialized
  /\ Handled
  /\ \/ /\ \E r \in RecorderThread : Start(r)
        /\ stopLost' = FALSE
        /\ crossed' = IF \E t \in Thread : outbox[t] # << >> THEN "unsent"
                      ELSE IF StopQueued /\ crossed = "no" THEN "queued"
                      ELSE crossed
        /\ resumed' = (resumed \/ redelivered > 0)
     \/ sState # "FREE" /\ UNCHANGED <<core, stopLost, crossed, resumed>>
  /\ setupNotification
  /\ UNCHANGED <<broadcasts, model, ui, missed, unheard>>

\* STOP_REC: stop() returns without effect when nothing is recorded or ps
\* shows no recorder; the notification goes in any case
ServiceStopsNothing ==
  /\ Handles("STOP_REC")
  /\ Initialized
  /\ Handled
  /\ stopLost' = (stopLost \/ sState = "RECORDING")
  /\ foreground' = FALSE
  /\ UNCHANGED <<core, broadcasts, model, ui, crossed, resumed, missed, unheard>>

\* stop() finds a process ...
ServiceFindsPid ==
  /\ Handles("STOP_REC")
  /\ \E r \in RecorderThread : StopFindPid(r)
  /\ UNCHANGED app

\* ... and sends it SIGINT, which may come too early, or hit a process that
\* has survived an earlier life of the app
ServiceKills ==
  /\ StopKill
  /\ Handled
  /\ stopLost' = (\/ stopLost \/ pidToKill # sFileName
                  \/ native'[pidToKill] \in {"starting", "encoding"})
  /\ foreground' = FALSE
  /\ UNCHANGED <<broadcasts, model, ui, crossed, resumed, missed, unheard>>
-----------------------------------------------------------------------------
(* RecorderService as the StateListener                                    *)

\* Mutant: no stopForeground()
onStopRecorderInForeground ==
  launching' = TRUE /\ UNCHANGED foreground /\ Broadcasts("RECORDING", "FREE")

onStopRecorder ==
  /\ launching' = TRUE
  /\ foreground' = FALSE
  /\ Broadcasts("RECORDING", "FREE")

\* Mutant: the error is broadcast under the key of the state
NewStateOrError(message) ==
  CASE message.what = "ON_INITIALIZED" -> "FREE"
    [] message.what = "ON_START_RECORDER" -> "RECORDING"
    [] message.what = "ON_FAILED_TO_INIT" -> message.arg

NewState(message) ==
  CASE message.what = "ON_INITIALIZED" -> "FREE"
    [] message.what = "ON_START_RECORDER" -> "RECORDING"
    [] message.what = "ON_FAILED_TO_INIT" -> "FAILED_TO_INIT"

ServiceCallback ==
  /\ HandleMessage
  /\ LET what == Head(looper).what
     IN  \/ what = "ON_STOP_RECORDER" /\ onStopRecorder
         \/ /\ what # "ON_STOP_RECORDER"
            /\ Broadcasts(IF what = "ON_START_RECORDER" THEN "FREE" ELSE "UNINITIALIZED",
                          NewState(Head(looper)))
            /\ UNCHANGED <<launching, foreground>>
  /\ UNCHANGED <<intents, model, screen, saved, transaction, shutter, launches, history>>
-----------------------------------------------------------------------------
(* RecorderModel.onStateChanged(), and the event it posts to the activity  *)
(* and the fragment if they are there                                      *)

\* Mutant: showErrorFragment() is not called
onInitEventErrorIgnored(succeeded) ==
  /\ posted' = IF succeeded /\ screen # "none" THEN "recorder" ELSE posted
  /\ unheard' = FALSE
  /\ UNCHANGED missed

\* showRecorderFragment() or showErrorFragment() commits a transaction; the
\* last of several posted ones decides.  A commit() after
\* onSaveInstanceState() throws; EventBus logs the exception and the event
\* is lost.
onInitEvent(succeeded) ==
  \/ screen = "none" /\ UNCHANGED <<posted, missed, unheard>>
  \/ /\ screen # "none" /\ ~saved
     /\ posted' = IF succeeded THEN "recorder" ELSE "error"
     /\ unheard' = FALSE
     /\ UNCHANGED missed
  \/ /\ screen # "none" /\ saved
     /\ missed' = (missed \/ screen = "init")
     /\ UNCHANGED <<posted, unheard>>

\* Mutant: the shutter is not enabled again
onRecorderEventOnce(isRecording) ==
  /\ shutter' = [shutter EXCEPT !.checked = isRecording]
  /\ UNCHANGED unheard

\* The event reaches the fragment on the screen, not one still posted.
onRecorderEvent(isRecording) ==
  /\ shutter' = IF screen = "recorder" THEN [enabled |-> TRUE, checked |-> isRecording]
                                       ELSE shutter
  /\ unheard' = (posted = "recorder")

ModelReceives ==
  /\ MainThreadFree
  /\ broadcasts # << >> /\ (posted # "none" => ahead > 0)
  /\ broadcasts' = Tail(broadcasts)
  /\ LET change == Head(broadcasts)
     IN  /\ mRecorderState' = change.new
         /\ \/ /\ change.old = "UNINITIALIZED"
               /\ onInitEvent(change.new = "FREE") /\ UNCHANGED shutter
            \/ /\ change.old # "UNINITIALIZED"
               /\ onRecorderEvent(change.new = "RECORDING") /\ UNCHANGED <<posted, missed>>
  /\ ahead' \in IF posted = "none" /\ posted' # "none" THEN 0 .. Len(broadcasts')
                ELSE {IF ahead = 0 THEN 0 ELSE ahead - 1}
  /\ UNCHANGED <<core, intents, registered, foreground, screen, saved, launching, launches,
                 stopLost, crossed, resumed>>

\* FragmentManager.execPendingActions(): the posted fragment replaces the
\* one on the screen, and a new RecorderFragment has a new shutter
ExecPendingActions ==
  /\ posted' = "none" /\ ahead' = 0
  /\ screen' = IF posted = "none" THEN screen ELSE posted
  /\ shutter' = IF posted = "none" THEN shutter ELSE NewShutter

\* the main thread gets to the posted transaction
FragmentReplaced ==
  /\ MainThreadFree
  /\ posted # "none" /\ ahead = 0
  /\ ExecPendingActions
  /\ UNCHANGED <<core, intents, broadcasts, model, saved, foreground, launching, launches, history>>
-----------------------------------------------------------------------------
(* RecorderActivity, RecorderFragment and the notification                 *)

\* onCreate(); launched by the user, or by onStopRecorder()
ActivityCreated ==
  /\ MainThreadFree
  /\ screen = "none"
  /\ \/ launching /\ UNCHANGED launches
     \/ launches < MaxLaunches /\ launches' = launches + 1
  /\ launching' = FALSE
  /\ registered' = TRUE
  /\ screen' = IF ModelInitialized THEN "recorder" ELSE "init"
  /\ saved' = FALSE /\ shutter' = NewShutter /\ missed' = FALSE /\ unheard' = FALSE
  /\ Sends("INIT")
  /\ UNCHANGED <<core, transaction, broadcasts, mRecorderState, foreground, stopLost, crossed, resumed>>

\* onStopRecorder() starts an activity that is there already: launchMode
\* is singleInstance; onPostResume() executes what is posted
ActivityReused ==
  /\ MainThreadFree
  /\ launching /\ screen # "none"
  /\ launching' = FALSE /\ saved' = FALSE
  /\ ExecPendingActions
  /\ UNCHANGED <<core, intents, broadcasts, model, foreground, launches, history>>

\* another activity, as the dialog of su, covers this one, which executes
\* what is posted and saves its state; it comes back
ActivityCovered ==
  /\ MainThreadFree
  /\ screen # "none" /\ saved' = ~saved
  /\ ExecPendingActions
  /\ UNCHANGED <<core, intents, broadcasts, model, foreground, launching, launches, history>>

\* the activity is destroyed, and a posted transaction with it
Destroyed == screen' = "none" /\ posted' = "none" /\ ahead' = 0

\* the user presses back
ActivityLeft ==
  /\ MainThreadFree
  /\ screen # "none" /\ ~saved
  /\ Destroyed
  /\ UNCHANGED <<core, intents, broadcasts, model, saved, shutter, foreground,
                 launching, launches, history>>

\* enough RecorderThreads are left for the intents under way: a bound
ThreadsLeft ==
  Cardinality({r \in RecorderThread : recPc[r] = "new"})
    > Cardinality({i \in DOMAIN commands : commands[i] = "START_REC"})

\* onClickShutter(), decided by the RecorderModel's state
ClickStart ==
  /\ mRecorderState # "RECORDING"
  /\ ThreadsLeft
  /\ Sends("START_REC")
  /\ Destroyed
  /\ UNCHANGED shutter

ClickStop ==
  /\ mRecorderState = "RECORDING"
  /\ Sends("STOP_REC")
  /\ shutter' = [enabled |-> FALSE, checked |-> ~shutter.checked]
  /\ UNCHANGED <<screen, transaction>>

ClickShutter ==
  /\ MainThreadFree
  /\ screen = "recorder" /\ ~saved /\ shutter.enabled
  /\ ClickStart \/ ClickStop
  /\ UNCHANGED <<core, broadcasts, model, foreground, saved, launching, launches, history>>

\* a tap on the notification fires its PendingIntent
TapNotification ==
  /\ foreground
  /\ Sends("STOP_REC")
  /\ UNCHANGED <<core, broadcasts, model, foreground, ui, history>>
-----------------------------------------------------------------------------
\* RecorderService.onCreate(), and the threads and processes of the recorder
Background ==
  /\ \/ SetsStateListener /\ commands # << >>
     \/ \E t \in InitThread : InitRun(t)
     \/ \E r \in RecorderThread : RecRun(r) \/ NativeProceeds(r)
  /\ UNCHANGED app

\* Android redelivers, in order, the intents that onStartCommand() has not
\* finished, but gives up those whose delivery has killed the app too often.
\* START_NOT_STICKY: without such an intent it does not start the service.
Redelivers ==
  /\ \E k \in 1 .. Len(commands) + 1 : commands' = SubSeq(commands, k, Len(commands))
  /\ redelivered' = Len(commands')

\* The app dies: its memory, its activity and its notification go with it.
AppCrash ==
  /\ Crash
  /\ Redelivers
  /\ broadcasts' = << >>
  /\ registered' = FALSE /\ mRecorderState' = "UNINITIALIZED"
  /\ Destroyed /\ saved' = FALSE /\ shutter' = NewShutter
  /\ foreground' = FALSE
  /\ launching' \in {launching, FALSE}
  /\ stopLost' = FALSE /\ crossed' = "no" /\ resumed' = FALSE
  /\ missed' = FALSE /\ unheard' = FALSE
  /\ UNCHANGED launches

Service == ServiceInit \/ ServiceStart \/ ServiceStopsNothing \/ ServiceFindsPid \/ ServiceKills

AppNext ==
  \/ Service \/ ServiceCallback \/ ModelReceives \/ FragmentReplaced
  \/ ActivityCreated \/ ActivityReused \/ ActivityCovered \/ ActivityLeft
  \/ ClickShutter \/ TapNotification
  \/ Background \/ AppCrash

AppSpec == AppInit /\ [][AppNext]_<<core, app>>
-----------------------------------------------------------------------------
(* Safety.  Settled: nothing is under way between the parts of the app.    *)

Settled ==
  /\ Quiet /\ MainThreadFree /\ BusyInits = {} /\ commands = << >> /\ broadcasts = << >>
  /\ posted = "none"

\* There is a recording that no stop request has reached, and none was lost.
Undisturbed ==
  /\ ~overlapped /\ ~stopLost
  /\ sState = "RECORDING" => native[sFileName] \notin {"stopping", "gone"}

\* start() and stop() throw IllegalStateException unless the recorder is
\* initialized.  The app sends their intents only after it has been; one
\* that is redelivered to a later life of the app may come too early.
CommandsAreLegal ==
  ~overlapped => \A i \in DOMAIN commands :
    i > redelivered /\ commands[i] # "INIT" => Initialized

\* The state RecorderModel has put together from broadcasts is the
\* recorder's, unless the message of an earlier change was sent after the
\* start of a recording, or a failed init() was repeated with success, which
\* is silent (InitializedIsAnnounced).
ModelAgrees ==
  Settled /\ registered /\ ~overlapped /\ crossed # "unsent" =>
    \/ mRecorderState = sState
    \/ ~ModelInitialized /\ sState = "FREE" /\ ~Hears("ON_INITIALIZED")

\* Nobody is left with the InitFragment once init() has answered, unless the
\* activity was covered when the answer came, or a recording had begun before
\* it: one redelivered, or one in a life whose recorder was initialized
\* silently, where the message of the failure may come after the success.
InitScreenGoes ==
  Settled /\ ~overlapped /\ ~missed /\ ~resumed =>
    screen # "init" \/ (Initialized /\ ~Hears("ON_INITIALIZED"))

\* A recording in progress has a notification that stops it, unless it
\* began while the end of the one before was still to be dispatched.
RecordingIsVisible ==
  Settled /\ Undisturbed /\ crossed = "no" /\ sState = "RECORDING" => foreground

\* No notification is left over once nothing is recorded, although START_REC
\* sets it up even if start() has refused.
NoGhostNotification == Settled /\ ~overlapped /\ sState # "RECORDING" => ~foreground

\* The shutter can be pressed, and shows whether it will start or stop,
\* unless the last event came while its fragment was still posted.
ShutterTells ==
  Settled /\ Undisturbed /\ crossed # "unsent" /\ ~unheard /\ screen = "recorder" =>
    shutter = [enabled |-> TRUE, checked |-> sState = "RECORDING"]

-----------------------------------------------------------------------------
(* Liveness.                                                               *)

\* Android's queues deliver; the recorder is scheduled as before
AppFairness ==
  /\ Fairness /\ WF_vars(SetsStateListener)
  /\ SF_<<core, app>>(Service)
  /\ SF_<<core, app>>(ModelReceives \/ FragmentReplaced)

FairAppSpec == AppSpec /\ AppFairness

\* A shutter disabled by a click is enabled again, or the fragment is gone,
\* or the stop request was lost.
ShutterComesBack ==
  ~shutter.enabled ~> shutter.enabled \/ screen # "recorder" \/ stopLost \/ overlapped

-----------------------------------------------------------------------------
(* What the code does not do.                                              *)

\* onStartCommand(): "We want this service to continue running until it is
\* explicitly stopped, so return sticky": a service whose app dies while a
\* recording goes on is running at once or about to be started again.
ServiceKeepsRunning ==
  [][sStateListener /\ sState = "RECORDING" /\ commands = << >> =>
       sStateListener' \/ commands' # << >>]_<<core, app>>
=============================================================================
