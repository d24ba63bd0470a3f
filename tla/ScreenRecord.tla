---------------------------- MODULE ScreenRecord ----------------------------
(***************************************************************************)
(* jni/screenrecord.cpp: one run of the native recorder, from the opening  *)
(* of the output file to its exit, with its signals.  The arguments have   *)
(* been accepted.  MediaCodec, MediaMuxer and SurfaceFlinger are external: *)
(* any call on them may fail where the code looks at its result, and every *)
(* call returns.                                                           *)
(***************************************************************************)
EXTENDS Projection

CONSTANTS
  DisplaySizes,   \* sizes <<w, h>> of the main display, as it is held
  ArgSizes,       \* sizes that --size may have asked for
  EncoderSizes,   \* sizes the AVC encoder accepts
  MaxFormats,     \* how often the encoder announces its output format
  SendsEOS        \* may a buffer carry the end-of-stream flag?

ASSUME SizesAssumption ==
  DisplaySizes \subseteq Size /\ ArgSizes \subseteq Size /\ EncoderSizes \subseteq Size
ASSUME CodecAssumption == MaxFormats \in Nat /\ SendsEOS \in BOOLEAN

VARIABLES
  pc,              \* the next step of the process
  status,          \* how it ended
  displaySize,     \* mainDpyInfo, width and height swapped if it is rotated
  gSizeSpecified, gRotate,             \* --size, --rotate
  gVideo,          \* gVideoWidth and gVideoHeight
  projection,      \* displayRect of the virtual display
  sigint, sighup,  \* dispositions: "default" or "catcher"
  gStopRequested,
  expired,         \* has the clock passed endWhenNsec?
  encoder, display, muxer, file,       \* resources
  am,              \* the process that tells the media scanner
  trackIdx,        \* "none" is -1, "bad" the error addTrack() returned
  formats,         \* output formats announced so far
  caught,          \* history: a signal has been handled
  written,         \* history: a frame has been written to the muxer
  eos,             \* history: the end of the stream was flagged
  attempted        \* history: sizes prepareEncoder() was tried with

signals == <<sigint, sighup, caught>>
sizes == <<displaySize, gSizeSpecified, gRotate, gVideo, projection, attempted>>
media == <<encoder, display, muxer, file, am, trackIdx, formats, written, eos>>
vars == <<pc, status, gStopRequested, expired, signals, sizes, media>>

BeforeEncoder == {"open", "sigint", "sighup", "display"}
Startup == BeforeEncoder \cup {"prepare", "retry", "wire", "buffers", "clear"}
Looping == {"loop", "dequeue"}
Finishing == {"destroyDisplay", "stopEncoder", "stopMuxer", "release", "scan", "wait"}

TypeOK ==
  /\ pc \in Startup \cup Looping \cup Finishing \cup {"exited"}
  /\ status \in {"running", "ok", "failed", "killed", "aborted"}
  /\ status = "running" <=> pc # "exited"
  /\ displaySize \in DisplaySizes
  /\ gSizeSpecified \in BOOLEAN /\ gRotate \in BOOLEAN
  /\ gVideo \in Size \cup {<<0, 0>>} /\ attempted \subseteq Size \cup {<<0, 0>>}
  /\ projection \in Rect
  /\ sigint \in {"default", "catcher"} /\ sighup \in {"default", "catcher"}
  /\ gStopRequested \in BOOLEAN /\ expired \in BOOLEAN /\ caught \in BOOLEAN
  /\ written \in BOOLEAN /\ eos \in BOOLEAN
  /\ encoder \in {"none", "started", "stopped", "released"}
  /\ display \in {"none", "live", "destroyed"}
  /\ muxer \in {"none", "created", "started", "stopped", "failed"}
  /\ file \in {"absent", "unplayable", "complete"}
  /\ am \in {"none", "running", "ended"}
  /\ trackIdx \in {"none", "track", "bad"}
  /\ formats \in 0 .. MaxFormats

\* recordScreen() is reached with --size, or without it and with 0x0
Init ==
  /\ pc = "open" /\ status = "running"
  /\ displaySize \in DisplaySizes
  /\ gSizeSpecified \in BOOLEAN /\ gRotate \in BOOLEAN
  /\ projection = [x |-> 0, y |-> 0, w |-> 0, h |-> 0]
  /\ gVideo \in IF gSizeSpecified THEN ArgSizes ELSE {<<0, 0>>}
  /\ sigint = "default" /\ sighup = "default"
  /\ gStopRequested = FALSE /\ expired = FALSE
  /\ encoder = "none" /\ display = "none" /\ muxer = "none" /\ file = "absent" /\ am = "none"
  /\ trackIdx = "none" /\ formats = 0
  /\ caught = FALSE /\ written = FALSE /\ eos = FALSE /\ attempted = {}

Goto(from, to) == pc = from /\ pc' = to /\ UNCHANGED status
Exit(from, how) == pc = from /\ pc' = "exited" /\ status' = how
-----------------------------------------------------------------------------
(* Signals, delivered between any two steps of the process.                *)

\* Mutant: the original handlers are not restored
CatchAgain ==
  /\ gStopRequested' = TRUE
  /\ caught' = TRUE
  /\ UNCHANGED <<sigint, sighup, pc, status>>

\* signalCatcher() raises the flag and restores both dispositions
Catch ==
  /\ gStopRequested' = TRUE
  /\ caught' = TRUE
  /\ sigint' = "default" /\ sighup' = "default"
  /\ UNCHANGED <<pc, status>>

Die ==
  /\ pc' = "exited" /\ status' = "killed"
  /\ UNCHANGED <<signals, gStopRequested>>

Signal ==
  /\ pc # "exited"
  /\ \E disposition \in {sigint, sighup} : IF disposition = "catcher" THEN Catch ELSE Die
  /\ UNCHANGED <<expired, sizes, media>>
-----------------------------------------------------------------------------
(* main() and recordScreen() up to the encoder loop                        *)

\* main(): create the output file
OpenFile ==
  /\ \/ Goto("open", "sigint") /\ file' = "unplayable"
     \/ Exit("open", "failed") /\ UNCHANGED file
  /\ UNCHANGED <<gStopRequested, expired, signals, sizes>>
  /\ UNCHANGED <<encoder, display, muxer, am, trackIdx, formats, written, eos>>

\* configureSignals(): the two calls of sigaction(), in order
ConfigureSIGINT ==
  /\ \/ Goto("sigint", "sighup") /\ sigint' = "catcher"
     \/ Exit("sigint", "failed") /\ UNCHANGED sigint
  /\ UNCHANGED <<sighup, caught, gStopRequested, expired, sizes, media>>

ConfigureSIGHUP ==
  /\ \/ Goto("sighup", "display") /\ sighup' = "catcher"
     \/ Exit("sighup", "failed") /\ UNCHANGED sighup
  /\ UNCHANGED <<sigint, caught, gStopRequested, expired, sizes, media>>

\* getDisplayInfo(), and the default size
GetDisplayInfo ==
  /\ \/ /\ Goto("display", "prepare")
        /\ gVideo' = IF gVideo = <<0, 0>> THEN displaySize ELSE gVideo
     \/ Exit("display", "failed") /\ UNCHANGED gVideo
  /\ UNCHANGED <<displaySize, gSizeSpecified, gRotate, projection, attempted>>
  /\ UNCHANGED <<gStopRequested, expired, signals, media>>

\* Mutant: no swap in portrait
FallbackLandscape == <<1280, 720>>

\* kFallbackWidth x kFallbackHeight, swapped in portrait
Fallback == IF gVideo[1] < gVideo[2] THEN <<720, 1280>> ELSE <<1280, 720>>

\* Mutant: the other way round
MayFallBackIfSpecified == gSizeSpecified /\ gVideo[1] # Fallback[1] /\ gVideo[2] # Fallback[2]

MayFallBack == ~gSizeSpecified /\ gVideo[1] # Fallback[1] /\ gVideo[2] # Fallback[2]

\* the encoder cannot be created, does not take the size, or does not start;
\* prepareEncoder() has released it
EncoderFails(from) ==
  /\ \/ /\ from = "prepare" /\ MayFallBack
        /\ Goto(from, "retry")
        /\ gVideo' = Fallback
     \/ /\ from = "retry" \/ ~MayFallBack
        /\ Exit(from, "failed")
        /\ UNCHANGED gVideo
  /\ encoder' \in {"none", "released"}

EncoderStarts(from) ==
  /\ gVideo \in EncoderSizes
  /\ Goto(from, "wire")
  /\ encoder' = "started"
  /\ UNCHANGED gVideo

\* prepareEncoder(), and its second call at 720p
PrepareEncoder(from) ==
  /\ EncoderStarts(from) \/ EncoderFails(from)
  /\ attempted' = attempted \cup {gVideo}
  /\ UNCHANGED <<displaySize, gSizeSpecified, gRotate, projection>>
  /\ UNCHANGED <<gStopRequested, expired, signals>>
  /\ UNCHANGED <<display, muxer, file, am, trackIdx, formats, written, eos>>

\* prepareVirtualDisplay(), which always succeeds, and new MediaMuxer
WireDisplayAndMuxer ==
  /\ Goto("wire", "buffers")
  /\ display' = "live" /\ muxer' = "created"
  /\ projection' \in DisplayRects(displaySize, Drawn(gVideo, gRotate))
  /\ UNCHANGED <<displaySize, gSizeSpecified, gRotate, gVideo, attempted>>
  /\ UNCHANGED <<gStopRequested, expired, signals>>
  /\ UNCHANGED <<encoder, file, am, trackIdx, formats, written, eos>>
-----------------------------------------------------------------------------
(* runEncoder(), and what recordScreen() does when it fails                *)

\* Mutant: an encoder that is not released
RunEncoderFailsLeaking(from) == Exit(from, "failed") /\ UNCHANGED encoder

RunEncoderFails(from) == Exit(from, "failed") /\ encoder' = "released"

GetOutputBuffers ==
  /\ \/ Goto("buffers", "clear") /\ UNCHANGED encoder
     \/ RunEncoderFails("buffers")
  /\ UNCHANGED <<gStopRequested, expired, signals, sizes>>
  /\ UNCHANGED <<display, muxer, file, am, trackIdx, formats, written, eos>>

ClearStopRequested ==
  /\ Goto("clear", "loop")
  /\ gStopRequested' = FALSE
  /\ UNCHANGED <<expired, signals, sizes, media>>

\* the clock, once endWhenNsec is known
TimeExpires ==
  /\ pc \in {"clear"} \cup Looping /\ ~expired
  /\ expired' = TRUE
  /\ UNCHANGED <<pc, status, gStopRequested, signals, sizes, media>>

\* Mutants: one of the two conditions is not tested
KeepsRunningWhenStopped == ~expired
KeepsRunningWithoutLimit == ~gStopRequested

\* while (!gStopRequested), and the test of the time limit
KeepsRunning == ~gStopRequested /\ ~expired

LoopTest ==
  /\ Goto("loop", IF KeepsRunning THEN "dequeue" ELSE "destroyDisplay")
  /\ UNCHANGED <<gStopRequested, expired, signals, sizes, media>>

\* a buffer: ignored if it is codec config (or empty), else written
DequeueBuffer ==
  /\ \E hasData \in BOOLEAN, isEOS \in {FALSE, SendsEOS} :
       \/ /\ hasData /\ trackIdx = "none"     \* CHECK(trackIdx != -1)
          /\ Exit("dequeue", "aborted")
          /\ UNCHANGED <<encoder, written, eos, gStopRequested>>
       \/ /\ RunEncoderFails("dequeue")       \* write or release fails
          /\ UNCHANGED <<written, eos, gStopRequested>>
       \/ /\ hasData => trackIdx = "track" /\ muxer = "started"
          /\ Goto("dequeue", "loop")
          /\ written' = (written \/ hasData)
          /\ eos' = (eos \/ isEOS)
          /\ gStopRequested' = (gStopRequested /\ ~isEOS)
          /\ UNCHANGED encoder
  /\ UNCHANGED <<expired, signals, sizes, display, muxer, file, am, trackIdx, formats>>

\* Mutant: the result of addTrack() is not stored
TrackForgotten == trackIdx

\* addTrack() is refused by a muxer that has been started
Track == IF muxer = "created" THEN "track" ELSE "bad"

\* INFO_FORMAT_CHANGED: addTrack() and start(), which is refused as well
DequeueFormat ==
  /\ formats < MaxFormats
  /\ formats' = formats + 1
  /\ trackIdx' = Track
  /\ \/ /\ muxer = "created"
        /\ Goto("dequeue", "loop")
        /\ muxer' = "started"
        /\ UNCHANGED encoder
     \/ RunEncoderFails("dequeue") /\ UNCHANGED muxer
  /\ UNCHANGED <<gStopRequested, expired, signals, sizes, display, file, am, written, eos>>

\* no buffer within the timeout, or new output buffers
DequeueNothing ==
  /\ Goto("dequeue", "loop")
  /\ UNCHANGED <<gStopRequested, expired, signals, sizes, media>>

\* an error, a result the code does not know, or no new output buffers
DequeueFails ==
  /\ RunEncoderFails("dequeue")
  /\ UNCHANGED <<gStopRequested, expired, signals, sizes>>
  /\ UNCHANGED <<display, muxer, file, am, trackIdx, formats, written, eos>>
-----------------------------------------------------------------------------
(* the end of recordScreen(), and of main()                                *)

Finish(from, to) ==
  /\ Goto(from, to)
  /\ UNCHANGED <<gStopRequested, expired, signals, sizes, am, trackIdx, formats, written, eos>>

DestroyDisplay ==
  /\ Finish("destroyDisplay", "stopEncoder")
  /\ display' = "destroyed"
  /\ UNCHANGED <<encoder, muxer, file>>

StopEncoder ==
  /\ Finish("stopEncoder", "stopMuxer")
  /\ encoder' = "stopped"
  /\ UNCHANGED <<display, muxer, file>>

\* Mutant: the muxer is not stopped
MuxerForgotten == Finish("stopMuxer", "release") /\ UNCHANGED <<encoder, display, muxer, file>>

\* the result of stop() is ignored, also when it cannot finish the file; a
\* muxer that was not started, or has nothing to write, leaves a file no
\* player opens
StopMuxer ==
  /\ Finish("stopMuxer", "release")
  /\ \/ /\ muxer = "started" /\ muxer' = "stopped"
        /\ file' = IF written THEN "complete" ELSE file
     \/ muxer = "started" /\ muxer' = "failed" /\ UNCHANGED file
     \/ muxer # "started" /\ UNCHANGED <<muxer, file>>
  /\ UNCHANGED <<encoder, display>>

ReleaseEncoder ==
  /\ Finish("release", "scan")
  /\ encoder' = "released"
  /\ UNCHANGED <<display, muxer, file>>

\* notifyMediaScanner() forks a child that executes am; it does not matter
\* if that fails
Fork ==
  /\ \/ Goto("scan", "wait") /\ am' = "running"
     \/ Exit("scan", "ok") /\ UNCHANGED am
  /\ UNCHANGED <<gStopRequested, expired, signals, sizes>>
  /\ UNCHANGED <<encoder, display, muxer, file, trackIdx, formats, written, eos>>

\* the child, which lives on if a signal kills the recorder
AmEnds ==
  /\ am = "running" /\ am' = "ended"
  /\ UNCHANGED <<pc, status, gStopRequested, expired, signals, sizes>>
  /\ UNCHANGED <<encoder, display, muxer, file, trackIdx, formats, written, eos>>

\* waitpid(), repeated if a signal has been caught meanwhile
Wait ==
  /\ am = "ended"
  /\ Exit("wait", "ok")
  /\ UNCHANGED <<gStopRequested, expired, signals, sizes, media>>

Step ==
  \/ OpenFile \/ ConfigureSIGINT \/ ConfigureSIGHUP \/ GetDisplayInfo
  \/ \E from \in {"prepare", "retry"} : PrepareEncoder(from)
  \/ WireDisplayAndMuxer \/ GetOutputBuffers \/ ClearStopRequested
  \/ LoopTest \/ DequeueBuffer \/ DequeueFormat \/ DequeueNothing \/ DequeueFails
  \/ DestroyDisplay \/ StopEncoder \/ StopMuxer \/ ReleaseEncoder \/ Fork \/ Wait

Next == Step \/ AmEnds \/ Signal \/ TimeExpires

Spec == Init /\ [][Next]_vars

\* every call returns, dequeueOutputBuffer() after kTimeout at the latest; am
\* ends
FairSpec == Spec /\ WF_vars(Step) /\ WF_vars(AmEnds)
-----------------------------------------------------------------------------
(* Safety.                                                                 *)

\* signalCatcher(): once a signal has been handled, a second Ctrl-C kills
\* the process, even if the first one came between the two sigaction()s.
SecondCtrlCKills == caught => sigint = "default"

\* However the recording ends by itself, the encoder is released.
EncoderReleased == status \in {"ok", "failed"} => encoder \in {"none", "released"}

\* Success means that every frame written is in a file a player can open,
\* and the media scanner is not told of a recording before it is.  The one
\* exception is a muxer that could not finish the file, which nobody asks it.
SuccessKeepsFrames ==
  (am # "none" \/ status = "ok") /\ written => file = "complete" \/ muxer = "failed"

\* The process aborts only on an encoder that sends a frame before any format.
AbortsOnlyUnannounced == status = "aborted" => formats = 0

\* A size the user did not ask for is held the way the display is held:
\* falling back to 720p does not turn a portrait recording into landscape.
OrientationKept ==
  ~gSizeSpecified /\ gVideo # <<0, 0>> =>
    (gVideo[1] < gVideo[2] <=> displaySize[1] < displaySize[2])

\* usage(): "Default is the device's main display resolution (if supported),
\* 1280x720 if not": without --size the encoder is not given up before 720p
\* has been tried.  The exception is a display that has one dimension in
\* common with 720p, where MayFallBack refuses the other.
FallsBackTo720p ==
  status = "failed" /\ ~gSizeSpecified /\ attempted # {} /\ muxer = "none" =>
    \/ attempted \cap {<<1280, 720>>, <<720, 1280>>} # {}
    \/ displaySize[1] = Fallback[1] \/ displaySize[2] = Fallback[2]

\* The video shows the whole display, upright once the player has turned it
\* as --rotate makes the muxer ask, undistorted and in its middle, whatever
\* size has been asked for or fallen back to, and whichever way the float
\* computations were rounded.
ContentFits ==
  display # "none" =>
    IF gRotate THEN Fits(TurnedRect(projection), Turned(displaySize), gVideo)
               ELSE Fits(projection, displaySize, gVideo)
-----------------------------------------------------------------------------
(* The parts of an inductive invariant.                                    *)

\* Handlers are installed, and signals handled, only after the first sigaction()
HandlersInstalled ==
  sigint = "catcher" \/ sighup = "catcher" \/ caught => pc \notin {"open", "sigint"}

\* where an encoder may be running
EncoderInUse ==
  /\ pc \in BeforeEncoder \cup {"prepare", "retry"} => encoder \in {"none", "released"}
  /\ pc \in {"scan", "wait"} => encoder = "released"

\* where frames may have been written, and what has become of them
FramesKept ==
  /\ pc \in Startup => ~written
  /\ pc \in Looping \cup {"destroyDisplay", "stopEncoder", "stopMuxer"} /\ written =>
       muxer = "started"
  /\ pc \in {"release", "scan"} /\ written => file = "complete" \/ muxer = "failed"
  /\ am # "none" => pc \in {"wait", "exited"}

\* the virtual display is set up once, for a size that is known by then
DisplaySetUp ==
  /\ pc \in BeforeEncoder \cup {"prepare", "retry", "wire"} => display = "none"
  /\ pc \in {"buffers", "clear", "destroyDisplay"} \cup Looping => display = "live"
  /\ pc \in {"prepare", "retry", "wire"} => gVideo \in Size

\* what has been tried and is tried next, up to the encoder's start
SizesTried ==
  /\ pc \in BeforeEncoder \cup {"prepare"} => attempted = {}
  /\ ~gSizeSpecified =>
       /\ pc \in BeforeEncoder => gVideo = <<0, 0>>
       /\ pc = "prepare" => gVideo = displaySize
       /\ pc = "retry" => gVideo \in {<<1280, 720>>, <<720, 1280>>}
  /\ pc \in {"buffers", "clear"} \cup Looping => muxer # "none"

\* a format announced has been given to the muxer
FormatGiven == formats > 0 => trackIdx # "none"

IInv ==
  /\ SecondCtrlCKills /\ HandlersInstalled
  /\ EncoderReleased /\ EncoderInUse
  /\ SuccessKeepsFrames /\ FramesKept
  /\ AbortsOnlyUnannounced /\ FormatGiven
  /\ OrientationKept /\ FallsBackTo720p /\ SizesTried
  /\ ContentFits /\ DisplaySetUp

-----------------------------------------------------------------------------
(* Liveness.                                                               *)

\* A signal noticed in the encoder loop ends the process, however long the
\* time limit is, unless the encoder has flagged the end of its stream.
StopEnds == pc \in Looping /\ gStopRequested ~> pc = "exited" \/ eos

\* A time limit that has passed ends the recording, whatever the encoder
\* delivers and whatever becomes of the stop flag.
TimeLimitEnds == expired ~> pc = "exited"

-----------------------------------------------------------------------------
(* What the code does not do.                                              *)

\* usage(): "Recording continues until Ctrl-C is hit": after a Ctrl-C the
\* encoder loop does not go round again.
RecordsUntilCtrlC == [][caught /\ pc = "loop" => pc' # "dequeue"]_vars

-----------------------------------------------------------------------------
(* Refinement.                                                             *)

lifeOf ==
  CASE pc \in Startup -> "starting"
    [] pc \in Looping -> IF gStopRequested THEN "stopping" ELSE "encoding"
    [] pc \in Finishing -> "stopping"
    [] pc = "exited" -> "gone"

Native == INSTANCE NativeRecorder WITH life <- lifeOf

\* The process lives as ShellScreenRecorder supposes its native recorders do.
LivesAsSupposed == Native!Spec
=============================================================================
