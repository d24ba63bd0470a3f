# ScreenRecorder: specification, model checking and proofs

ScreenRecorder is an Android app for rooted phones. It installs a rebuilt
`screenrecord` binary in its data directory, runs it through `su`, and shows a
shutter, a notification and the list of recorded clips. This directory holds
TLA+ specifications translated from its source, configurations that model-check
them with TLC, and theorems that TLAPS proves.

Paths below are relative to `src/app/src/main/`; `J/` stands for
`java/com/mindarc/screenrecorder/`.

## 1. The system

### Components

| Component | State it keeps | Operations | Talks to |
|---|---|---|---|
| `J/core/ShellScreenRecorder.java` (with `J/utils/AssetsHelper.java`) | `sState` under `sStateLock`, `sFileName`, the listener, the installed binary | `init()`, `start()`, `stop()`, `updateState()`, `InitThread`, `RecorderThread`, the `Handler` | worker threads; `Shell`; one native process per recording; messages to the main Looper |
| `jni/screenrecord.cpp` | `gStopRequested`, video size, dispositions of SIGINT and SIGHUP, encoder, display, muxer, file | `main`, `recordScreen`, `prepareEncoder`, `prepareVirtualDisplay`, `runEncoder`, `notifyMediaScanner`, `signalCatcher`, `configureSignals` | signals from `kill -2`; MediaCodec, MediaMuxer, SurfaceFlinger |
| `J/RecorderService.java` | the foreground notification | `onStartCommand` (INIT, START_REC, STOP_REC), the callbacks of `StateListener` | intents in, API calls and broadcasts out |
| `J/RecorderModel.java`, `J/event/*` | `mRecorderState`, a copy of the recorder's state | `onReceive`, the events it posts | broadcasts in, events out |
| `J/RecorderActivity.java`, `J/fragment/RecorderFragment.java`, `InitFragment`, `ErrorFragment` | the fragment on the screen, the shutter | life cycle, clicks, events | intents to the service |
| `J/utils/Settings.java`, the menus of `RecorderFragment` | preferences, their copy in memory, tables of sizes and bitrates | `init`, the setters, `onClickMenuItem`, `onClickSubMenuItem`, `start_rec` | arguments of the native program |
| `J/utils/Shell.java`, `getRecorderPid()` | one call at a time: process, pipes, result | `execCommandAsSu`, `requestRootPermission` | `su`, `ps` |
| `J/utils/StorageHelper.java` | `mIsInit`, `mStorageAvailable`, `mCursor`, a broadcast receiver | `init`, `deInit`, `getVideoClips`, `generateFileName` | activities, the list of clips, the content provider |
| `J/fragment/ClipsAdapter.java` | its cursor | `onContentChanged` and the thread it starts | the content provider, `StorageHelper`'s cursor |
| `J/utils/ImageLoader.java`, `BitmapCache.java` | tasks, the LRU cache | `loadBitmap`, `BitmapWorkerTask` | recycled views, AsyncTask's thread |

### What is hard in it

* **Threads and the Looper.** `updateState()` stores the state under a lock and
  sends the message after releasing it, so the messages of two threads can be
  queued in the other order. The main thread makes the API calls and dispatches
  the messages; `stop()` holds it for two calls of `su`.
* **Processes.** The native recorder outlives the app, a signal may reach it
  before it has a handler, between the handler and its loop, or twice.
* **Copies of state.** `RecorderModel`, the notification and the shutter are
  three copies of `sState`, each updated over a queue.
* **Life cycles.** An activity is destroyed some time after `finish()`,
  perhaps after its successor was created, and `StorageHelper` is shared by both.
  A fragment is there some time after its `commit()`, and hears no event before.
* **Shared resources.** Two adapters may hold one cursor and either closes it;
  views are recycled under loading thumbnails; the pipes of `su` are bounded and
  are read only after the process has ended.
* **Crashes.** The app may die while copying the binary, between two commits of
  preferences, or while it records: the native recorder lives on, the service is
  not restarted, and Android redelivers the intents that were not finished to a
  recorder that is uninitialized again.
* **Numbers.** The place of the picture in the video is computed with a float and
  truncated, and subtracted in unsigned integers.

The 40 hazards are listed in `PROJECT.json`, each at its line and with the
properties that cover it. A note says what the properties leave out: where the
code really fails, the case is an exception the property names (section 2,
"History variables") or a fairness assumption (section 3), and is not caught.

## 2. Modules

| Module | Models | Notes |
|---|---|---|
| `NativeLife` | the life of a native process as seen from outside | shared by the next three |
| `NativeRecorder` | abstract specification of one native process | `ScreenRecord` implements it, `ShellScreenRecorder` relies on it |
| `ShellScreenRecorder` | `ShellScreenRecorder.java`, `AssetsHelper.java` | the core |
| `RecorderContract` | abstract specification of the recorder: one recording at a time, start and stop told in order | `ShellScreenRecorder` implements it |
| `Projection` | the geometry of `prepareVirtualDisplay()` | pure operators |
| `ScreenRecord` | `screenrecord.cpp` from the opening of the output to the exit, its signals and the `am` child | EXTENDS `Projection` |
| `CommandLine` | the command line `RecorderThread` composes and `main()` parses | pure operators |
| `RecorderApp` | service, model, activity, fragments and notification | EXTENDS `ShellScreenRecorder`: the composition |
| `Settings` | `Settings.java` and the menus | EXTENDS `CommandLine` |
| `Shell` | `execCommandAsSu()`, `requestRootPermission()` and the process at the other end | |
| `RecorderPid` | `getRecorderPid()` | EXTENDS `Shell`: what `ps` printed, as far as it was read |
| `Clips` | `StorageHelper`, `ClipsAdapter`, and what the life cycle of activities does to them | |
| `ImageLoader` | `ImageLoader.java`, `BitmapCache.java` | |
| `*_proofs` | theorems about the module of that name; `Shell_proofs` also about `RecorderPid` | EXTENDS it and `TLAPS` |
| `MC*` | values of constants and symmetry sets for TLC | |

`PROJECT.json`, "map", names for every definition the lines it stands for.
Definitions marked "Mutant" in a comment are plausible errors; none of them is
used by a specification. Each property was seen to fail when its mutant
replaces the definition beside it.

### How state and actions correspond to the code

**ShellScreenRecorder.** One variable per static field. A worker thread is a
program counter (`initPc`, `recPc`) that names the call it is about to make.
`outbox` holds the message that `updateState()` has decided on inside the lock
and has still to send; `looper` is the Handler's share of the main thread's
queue. A call of an API function runs on the main thread in one step, except
`stop()`, which is `StopFindPid` (`ps`) and `StopKill` (`kill -2`): everything but
the main thread can move in between, and while `pidToKill` is set the main thread
does nothing else (`MainThreadFree`). `Crash` ends every thread, forgets every
static field and leaves the binary and the native processes; the app then lives
again. Threads of an earlier life are `dead`, or `cut` if they left a copy of the
binary unfinished. A file name is identified with the RecorderThread that records
into it.

**ScreenRecord.** `pc` names the next call; one action per call whose result
the code looks at. `Signal` may come between any two steps: `Catch` is
`signalCatcher()`, which restores the dispositions it saved, whatever it has saved
so far. The clock passing `endWhenNsec` is the action `TimeExpires`. `StopMuxer` may
fail to finish the file; the code ignores that (`:519`) and goes on as after a
success. The child that runs `am` (`Fork`, `AmEnds`, `Wait`) goes on if a signal kills
its parent.

**Projection.** `DisplayRects` is the set of rectangles the code may compute:
`Truncated(n, d)` says what `(uint32_t)` makes of a product or quotient with the float
`displayAspect`, whose exact value is `n / d`. Each of the two roundings to 24 bits
is off by 2^-24 of the value at most, together less than `RoundingError(n)` of `n`; so
a value just below a whole number may become that number, and one at it or just above
it the one below. Both happen: 4015x4023 in a video of width 3513 gives
3520, where the exact height is 3519.99994. Lengths are bounded by 65536
(`Dimension`), where that error stays below a hundredth of a pixel. The set contains
every value the code can compute and, near a whole number, one it may not.

**RecorderApp.** Three more queues: `commands` (intents for `onStartCommand()`),
`broadcasts` (service to model) and, for what `onStopRecorder()` starts,
`launching`. Each handler is one action, with every call it makes: `ServiceStart`
is `start()` and `setupNotification()`, `ModelReceives` is `onReceive()` with the
events it posts and what the fragments do on them. `ActivityCovered` puts another
activity, such as the dialog of `su`, on top and saves the state of this one: a
fragment committed then throws, EventBus catches that, and the event is lost.
`commit()` only posts the transaction (`posted`), behind the broadcasts that the main
thread's queue holds by then (`ahead` of them, any number of those under way), and
`FragmentReplaced` executes it; the life cycle executes it earlier
(`ExecPendingActions`) and `onDestroy()` drops it. Until then events go to the
fragment still on the screen. `onCreate()` commits too, but `onStart()` follows at once.
`AppCrash` keeps the intents that have not been finished, all or the later ones, and
`redelivered` counts those that the next life gets before any of its own.

**Clips.** `version[c]` is the version of the content that cursor `c` holds. A
change of the content starts a thread per observing adapter (`queries`); the
query (`QueryAgain`) and the `Runnable` it posts (`Swap`) are separate steps, and
results arrive in any order. `mounted` is the storage, `mStorageAvailable` what
`StorageHelper` believes of it: a broadcast may come late or never.

**Settings.** `Loads` is the constructor and `loading()` up to its first commit,
`Loaded` the rest; `Dies` may come in between. `ClickStart` goes from the menus to
the arguments the native program gets.

**Shell and RecorderPid.** Caller and process are two processes joined by two
pipes counted in lines. `successMsg` is the text of the `StringBuilder`: each line
read is appended (`Appends`), and as `readLine()` drops the line ends and nothing
replaces them, its first word becomes part of the last token (`Joined`). The pid is
found by counting seven tokens back from the path.

**ImageLoader.** AsyncTask is a queue, one running task and a set of finished
ones whose results wait for the main thread in any order. `BitmapWorkerTask.data`
is read by the main thread while the background thread assigns it, without
synchronization: `DataSeen` lets the reader see either value.

### History variables

They record what has happened and constrain nothing. The properties name them
where the code really does fail:

| Variable | Set when | What is excluded |
|---|---|---|
| `overlapped` (recorder) | `init()` starts a thread while another is busy | both copy the binary, and the later one stores its result over RECORDING |
| `recPc = "dead"`, `initPc = "cut"` | the app dies while recording, or copying the binary | a native recorder or a partial binary left by an earlier life; each is named where it matters, everything else holds in every life |
| `redelivered`, `resumed` (app) | an unfinished intent is redelivered; one of them begins a recording | a command that reaches an uninitialized recorder; an answer to INIT that is no InitEvent |
| `missed` (app) | an InitEvent comes while the activity is covered | the InitFragment that stays |
| `unheard` (app) | a RecorderEvent comes while the RecorderFragment is still posted | the new shutter has not heard the last event and shows the one before, until the next |
| `stopLost` | `stop()` finds no process, or its signal comes before the encoder loop | the recording goes on without a notification; nothing retries |
| `crossed` (app) | a recording starts while the message of an earlier change is unsent, or its end undispatched | the model believes the older message; the late end takes down the new notification |
| `overlapped` (clips) | an activity is created before `onDestroy()` of the one before | `onDestroy()` deinitializes the storage of its successor, which then closes cursors under its list; `ListIsCurrent` holds all the same |
| `untold` (clips) | the storage changes, until it is broadcast or the next activity is created | `mStorageAvailable` is stale, and a click throws with the storage mounted |
| `missed`, `crossed` (clips) | an adapter gets an old or closed cursor; an older result replaces a newer one | a stale list |
| `eos` | a buffer carried the end-of-stream flag | the flag clears a pending stop request (`screenrecord.cpp:370`) |
| `caught`, `written`, `attempted`, `heard`, `last`, `sent` | as named | nothing: properties speak of them |

## 3. Runs

| Run | Question | Bounds | Distinct states |
|---|---|---|---|
| `recorder` | Do state, processes, binary and listener agree in every interleaving? Does the recorder implement `RecorderContract`, answer each `init()`, and tell of the stop? | 2 calls of `init()`, 2 recordings, 3 lives of the app; callers that do not overlap `init()`; fairness | 68,676 |
| `recorder_announce` | (finding) Does whoever gets initialized say so? | 2 calls of `init()`, 1 recording, one life | violated |
| `native` | Is the encoder released, no frame lost, 720p tried, the picture whole, and does a stop or the time limit end it? | 5 displays, 4 values of `--size`, `--rotate`, 4 sizes the encoder takes, 2 announcements of a format, end-of-stream flags; fairness | 61,716 |
| `native_life` | Does it implement `NativeRecorder`? | the same without end-of-stream flags | 32,109 |
| `native_ctrl_c` | (finding) Does a Ctrl-C end the recording? | the same | violated |
| `app_safety` | Do notification, model, shutter and fragments tell the truth once the queues are empty? | 2 calls of `init()`, 2 recordings, 2 launches, 2 intents under way, 2 lives; overlapped calls of `init()` too; symmetry | 710,535 |
| `app_liveness` | Does the shutter come back after a click? | 1 call of `init()`, one life, else the same; fairness | 477,437 |
| `app_sticky` | (finding) Does the service go on after a death? | 1 recording, 2 lives | violated |
| `clips` | Is a cursor lost, the list stale, a name refused with the storage there or made without it? | 2 activities, 2 adapters, 5 cursors, 2 changes, storage that comes and goes, queries that fail; symmetry | 197,653 |
| `settings` | Is what the menus show what is recorded, accepted, and kept? | 4 screens, every setting, deaths | 25,468 |
| `root_commands` | Is a result complete, the right pid found, and does the call return? | 4 processes of 3 names, pipes of 4 lines, 5 lines of output on either stream | 153,500 |
| `thumbnails` | Does a view show another clip's thumbnail, or never its own? | 2 views, 2 clips, 3 tasks; fairness | 274,088 |

Why the bounds are enough: two calls of `init()` are needed for a retry after
failure and for an overlap, two recordings for a message of one to meet the
other, and every hazard of the recorder is about two of them. Two commands and
two launches let a click meet a tap on the notification and an activity come
back to a recording it did not start. One death in `app_safety` and two in
`recorder` let survivors and redelivered intents meet a whole life; a later death
only repeats that. For the native program the displays are portrait, landscape,
one that shares a dimension with 720p, one whose aspect the float cannot hold, and
one whose product the float rounds up to a whole number (with its video, 3513 wide):
the cases the code distinguishes; `PictureFits` covers all others up to 65536. A cursor can
be shared by two adapters, and two changes suffice for results to cross; the
fifth cursor adds few states to four. Two views, two clips and three tasks let a
view be rebound twice while its first task waits. A pipe of four lines is filled by a `ps` that lists four processes.

`CHECK_DEADLOCK FALSE` is used where the model really stops: bounded threads,
cursors and tasks are used up, the native process exits, a call on a full pipe
hangs. `settings` runs for ever and is checked for deadlock.

### Fairness

* Threads are scheduled: weak fairness of every step of an InitThread or
  RecorderThread, of `StopKill`, and of the Looper. Dispatch gets strong fairness:
  calls of the service disable it for a moment, but the Looper is FIFO and no
  number of them can overtake a message for ever.
* A native recorder that is stopping ends; `native_life` shows that the native
  program does. There is no fairness for one that nobody stops: its limit is a
  day, and "it stops some day" is nothing the app relies on.
* In the native program every call returns, `dequeueOutputBuffer()` after
  `kTimeout` at the latest, and `am` ends: weak fairness of its steps and of
  `AmEnds`. `StopEnds` does not assume that the limit ever expires;
  `TimeLimitEnds` is about what happens once it has.
* Android delivers intents and broadcasts, and the main thread executes what is posted
  to it: strong fairness of `Service` and of `ModelReceives` with `FragmentReplaced`, for
  the same reason as the Looper.
* `su`'s process and its caller both run; AsyncTask's thread runs and every
  posted result is delivered, unless the app has thrown.

## 4. Proofs

All theorems hold for every value of the constants that satisfies the named
assumptions of the module: `ConstantsAssumption`, `AppAssumption`, `SizesAssumption`,
`CodecAssumption`, `SettingsAssumption`, `ClipsAssumption`, `ShellAssumption`, `PsAssumption`
and `LoaderAssumption`. They say that threads and null are different values, that
bounds are naturals and sizes positive (and at most 65536 where the picture is
concerned), and that no process but a recorder is named by its path. The tables of
bitrates in `Settings` are no parameters: they are the source's. TLC evaluates them in the runs.

Every safety invariant and action property of the passing runs is a theorem.

| Module | Theorems |
|---|---|
| `ShellScreenRecorder_proofs` | `TypeCorrect`, `Inductive`; `StateIsTrue`, `ProcessesAreTrue`, `StopIsAimed`, `BinaryIsInstalled`; `Delivered`, `HeardIsTrue`; `ImplementsContract` (refinement) |
| `Projection_proofs` | `PictureFits` |
| `ScreenRecord_proofs` | `Inductive`; `SecondSignalKills`, `EncoderNotLeaked`, `FramesNotLost`, `AbortsExplained`, `PortraitStaysPortrait`, `SmallerSizeTried`, `PictureIsWhole`; `LivesItsLife` (refinement) |
| `RecorderApp_proofs` | `AppInductive`, `AppTypeCorrect`; `CommandsStayLegal`, `NotificationGoes`, `RecordingHasNotification`, `ModelIsRight`, `ShutterIsRight`, `InitScreenIsReplaced` |
| `Settings_proofs` | `Inductive`, `TypeCorrect`; `BitratesFit`, `MenusMakeCommands`, `ShownIsRecorded`, `ChoicesComeBack` |
| `Shell_proofs` | `Inductive`, `NoHalfResult`; `PidInductive`, `RecorderIsFound` |
| `Clips_proofs` | `TypeCorrect`, `Inductive`; `CursorsHaveOwners`, `NamesAreMade`; `ListInductive`, `ListReads`, `ListCatchesUp` |
| `ImageLoader_proofs` | `Inductive`; `ViewsShowTheirClips` |

**The recorder.** The invariant is the conjunction of `StateTellsRecording`,
`InitIsAlone`, `ProcessesWaitedFor`, `StopHitsCurrent`, `BinaryInstalled` and
`CopyInProgress`; none of them is inductive alone. `StateTellsRecording` survives
the end of an InitThread only because a busy InitThread finds the
recorder uninitialized (`InitIsAlone`). `StopHitsCurrent` and `ProcessesBelong` need
that a listed process has a thread of this life that waits for it or a dead one
(`ProcessesWaitedFor`), and that a busy thread is the one `sFileName` names.
`BinaryInstalled` needs that a partial binary has a thread still copying it, or one
cut short (`CopyInProgress`). Each is proved per action in lemmas (`InitRunKeeps`,
`RecRunKeeps`, `MainThreadKeeps`, `NativeKeeps`, `CrashKeeps`), for any number of
lives.

**Its messages.** `HeardMatchesState` needs to know what is in every outbox and in
the queue: the start of a recording is heard or queued exactly from the moment it
is started (`StartsSent`), its stop exactly once its thread is done (`StopsSent`), and
in between the thread holds it and nobody else does (`OutboxesTell`); a stop never
overtakes its start (`StartBeforeStop`), and there is a listener before anything is
said (`ListenerFirst`). Together they are `DInv` (`Delivered`). `ImplementsContract`
uses them step by step: what the contract calls started and not yet ended is what
the threads are busy with, and each dispatch is the next event that the contract
allows. A death maps to the contract's death.

**The native process.** `Inductive` says at which `pc` handlers, encoder, frames, sizes
and display can be what. `LivesItsLife` maps `pc` and the stop request to the life
that `ShellScreenRecorder` supposes; it needs an encoder without end-of-stream flags,
because one that sets the flag makes the program forget a stop.

**The geometry.** `Truncated(n, d)` leaves a rest of at most `d` but for the
rounding error, which is less than `d` (`TruncatedBounds`, from `Division`), so
content limited by width has at most the frame's height by the test of the code,
and content limited by height at most its width because the test has failed:
`ContentBounds`, by cancelling a positive factor (`Cancel`). `Middle` gives the
offsets, and `TurnedFits` the case of `--rotate`. `PictureIsWhole` then carries
the rectangle through the run: once wired it is never changed.

**The app.** A step of `RecorderApp` is a step of the recorder or leaves it alone
(`CoreStep`), so `IInv` and `DInv` hold here too (`CoreKept`). On top of them:

* `SaidOnceTrue`: before the recorder is initialized nothing in any queue says it
  is, so no fragment with a shutter and no command of this life exists. This gives
  `CommandsAreLegal`, with `InitsTell` (an InitThread says only how `init()` ended),
  `NothingToSay`, `KnownChanges` and `RegisteredFirst`.
* `GhostGoes`: a notification without a recording has a stop unsent or queued. It gives
  `NoGhostNotification`; `SaidBeforeStart` and `NotificationStays` (a start finds nothing
  left to be said that would take the notification down, but in the case `crossed`
  names) give `RecordingIsVisible`.
* `NoFailureSaid` and `LastAgrees`: the last thing said, wherever it waits, is the
  recorder's state; this gives `ModelAgrees`.
* `EndFollows` and `ShutterStops`: behind every start that is still under way there is its
  stop if nothing is recorded any more, and the last of them decides the shutter.
  They give `ShutterTells`.
* `StartersKnow` and `InitAnswerComes`: who starts recordings knows that the recorder is
  initialized, and an InitFragment has an answer under way or its successor posted. They
  give `InitScreenGoes`.
* `PostedInTime`: what is posted has no more broadcasts ahead of it than there are, and
  belongs to an activity that is there. With it, the event that decides a new shutter
  comes after its fragment, or the fragment has gone `unheard`.
* `NativeOnce`, `OneMessage` and `StopInProgress` keep these apart: a process starts once,
  a thread has one message to send, and `stop()` has the intent it is busy with.

**Settings.** `ShowsChoice` (the screen shows the choice in force), `InForce` (which is
what the preferences give back) and `LastRestored` (so is what a screen had when
the app died on it) are inductive with the invariants of the run; the action
properties follow from one step of it.

**Shell and the pid.** What is being read comes from a process that has ended, so
what is in the pipe and what was read add up to the output. Each line of `ps` adds
eight tokens to the text, so the pid of process `k` is token `8k + 1` and its name
begins token `8k + 8` (`TextTells`, by `JoinedLine`), and if a recorder is listed one
is listed first (`FirstListed`): `RecorderIsFound`, for lists of any length.

**Clips.** For the ownership of cursors: one activity alive at a time, only
existing adapters have threads, the cursor of a deinitialized helper is closed.
For file names: without an overlap `StorageHelper` is initialized exactly while
there is an activity (`InitializedForAlive`), so each one looks at the storage for
itself (`FlagTells`). For the list: a result's cursor is open and nobody else's
(`ResultsOwned`), so no swap closes it; a cursor shared by an adapter that has
threads is out of date (`SharedIsOld`), so whoever closes it has a thread to
replace it; the list reads what is current or its own, or a thread is coming
(`ShownReads`), and unless results crossed the latest content is shown or coming
(`LatestComes`).

**Thumbnails.** The task a view waits for loads the clip that view was last bound to.

Some proofs failed at first for a good reason, and changed the model or a property:

* `InitScreenGoes` excluded too little: when the message of a failed `init()` is sent
  after a second one has succeeded in silence, and a recording begins before it is
  dispatched, an activity of a later launch stays on its InitFragment. That takes
  more launches than the run has. The property now names it.
* `ListIsCurrent` excluded too much: overlapping activities do no harm to it.
* `TypeOK` of `Settings` nested two conjuncts under an implication and said less than
  was meant.
* `RecorderPid` computed the text from what had been read, by a fold, over which no
  prover here does induction; it is now the state it is in the code.

Only model-checked: the liveness properties (`InitIsAnswered`, `StopIsHeard`, `StopEnds`,
`TimeLimitEnds`, `ShutterComesBack`, `ReturnsIfItFits`, `ThumbnailArrives`), and the
fairness halves of `KeepsContract` and `LivesAsSupposed`, whose safety halves are
`ImplementsContract` and `LivesItsLife`. Liveness under fairness and `ENABLED` are out of
the prover's reach. That the code's float values are in `Truncated` is an argument about
roundings (section 2), not a theorem.

## 5. Where the code differs from what it says

Three runs show it:

* `recorder_announce`: `updateState()` (`J/core/ShellScreenRecorder.java:116`) has
  no message for FAILED_TO_INIT to FREE. A second `init()` that succeeds is silent,
  although `ShellScreenRecorderTest.setUp()` waits for the callback.
* `native_ctrl_c`: `runEncoder()` (`jni/screenrecord.cpp:310`) clears
  `gStopRequested` after the handler was installed. A Ctrl-C during start-up is
  forgotten, against `usage()`.
* `app_sticky`: `onStartCommand()` returns START_NOT_STICKY under a comment that says
  the service should go on, "so return sticky" (`J/RecorderService.java:126-128`).
  After a death the native recorder goes on, and nothing watches or stops it.

Others are named exceptions of properties that pass. Dropping the exception
makes TLC show them:

* `FallsBackTo720p`: the fallback is refused if width *or* height equals that of
  720p (`jni/screenrecord.cpp:471` compares with `&&`), so a 1280x800 display whose
  size the encoder refuses is given up, against `usage()` (`:624`).
* `NameOrNoStorage`: `onDestroy()` of an activity (`J/RecorderActivity.java:81`)
  deinitializes the `StorageHelper` of one created before it ran, whose next
  `generateFileName()` throws with the storage mounted. So it does when the storage
  is mounted under the activity and no broadcast tells (`J/utils/StorageHelper.java:42-45`
  registers without a data scheme).
* `SuccessKeepsFrames`: the result of `muxer->stop()` is ignored
  (`jni/screenrecord.cpp:519`); a file whose index could not be written is reported
  as a success and given to the media scanner.
* `ShutterTells`: a fragment is on the screen some time after `commit()`
  (`J/RecorderActivity.java:136`). With the answer to INIT under way, a click starts a
  recording and the activity is launched again; the answer replaces the fragment, but the
  event of the start is queued before the transaction and goes to the old one. The new
  shutter is not checked while the recording goes on, until the next event.
* `InitIsAnswered`: each `init()` that starts a thread gets an answer of its own, except
  one that succeeds after another has failed (`recorder_announce`).
* `InitScreenGoes`: an InitEvent that arrives while the dialog of `su` covers the
  activity is lost (`J/RecorderActivity.java:130`), and after a redelivered START_REC
  INIT is answered by a change to RECORDING, which is no InitEvent: the
  InitFragment spins on. So it does when the message of a failed `init()` comes
  after a later one has succeeded in silence and a recording has begun.
* `CommandsAreLegal`: a redelivered START_REC or STOP_REC meets an uninitialized
  recorder, which throws, and may kill the app again until Android gives it up.
* `BinaryInstalled`: a binary cut short by a death exists, and is never copied again
  (`J/core/ShellScreenRecorder.java:257`): every later recording ends at once.
* `StopHitsCurrent`: `stop()` may signal a recorder that has survived an earlier life
  instead of the current one, which then goes on.
* `ThumbnailArrives`: for a clip without a thumbnail `LruCache.put()` is given null
  (`J/utils/ImageLoader.java:145`, `BitmapCache.java:44`) and throws, although
  `onPostExecute()` provides for null (`:155`).
* `RecorderPid`: the comment of `getRecorderPid()` lists eight columns of `ps`
  (`J/core/ShellScreenRecorder.java:175`); seven tokens back from the name is the
  pid only with the ninth, unnamed state column that Android prints.

Smaller observations the models are built on: `StorageHelper` registers for storage
broadcasts without a data scheme, so they may not come at all, and unregisters
from another Context than it registered with, so the receiver stays; a
recording that is stopped before its first frame ends with success and leaves a
file without a track; between two adapters' swaps of a shared cursor the list
holds a closed one (`ListReadsOpenCursor` asks only that a thread is on its way to
replace it); the child of `fork()` allocates since "we're single-threaded"
(`jni/screenrecord.cpp:551`), in a process whose Binder threads were started at
`:436`; `usage()` gives the unit of `--bit-rate` as megabits (`:628`), and the code
takes bits.

## 6. Not modelled

* The orientation hint given to the muxer (`ContentFits` supposes that players
  follow it); the display of `main()`'s usage and version, and verbose output.
* A death inside a handler of `RecorderApp` other than `stop()`: deaths fall between
  handlers. A START_REC that was cut short after `start()` and redelivered would name
  the file of the recorder that survives; file names are identified with threads,
  so two recorders of one file are not in the model.
* The files that make `generateFileName()` add a suffix, and the year-to-second format
  of the name.
* `execCommand()` of `Shell`, `loadBitmap()` of a path and `ImageShrinker`: nobody
  calls them.
* Analytics, advertising, `LogUtil`, views and wording, resources, manifest, build
  files and tests.
* The headers and libraries under `jni/kikkat/` and the build output: third-party;
  MediaCodec, MediaMuxer, SurfaceFlinger, `su`, `ps` and Android's queues are
  external and modelled from how the code uses them. They are 73,600 of the
  repository's 77,000 lines of code; of the app's own 2,900 lines, imports, comments
  and layout included, more than half are mapped.

## 7. Plan

Done: the recorder and its contract, the native program, the app around them
with deaths and redelivered intents, settings, commands through `su`, clips and
thumbnails; theorems for every safety property of the passing runs and for the
safety halves of both refinements.

Left, as possible extensions: `Clips` composed with the service that ends the
recordings in the list; the names that `generateFileName()` makes within one
second; a death between `start()` and `setupNotification()`, with the file names
that two recorders would then share.
