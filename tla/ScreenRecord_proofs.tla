------------------------ MODULE ScreenRecord_proofs ------------------------
(***************************************************************************)
(* Safety of the native recorder, for all display sizes, encoders and      *)
(* sequences of codec results and signals.                                 *)
(***************************************************************************)
EXTENDS ScreenRecord, Projection_proofs

USE DEF signals, sizes, media, BeforeEncoder, Startup, Looping, Finishing, Goto, Exit

\* The fallback sizes are sizes.
LEMMA FallbackSize == Fallback \in Size
<1>1. 720 \in Dimension /\ 1280 \in Dimension
  BY DEF Dimension
<1>2. <<720, 1280>> \in Size /\ <<1280, 720>> \in Size
  BY <1>1 DEF Size
<1> QED
  BY <1>2 DEF Fallback

\* prepareVirtualDisplay() works on sizes that are known.
LEMMA SizesWired ==
  ASSUME TypeOK, DisplaySetUp, WireDisplayAndMuxer
  PROVE  /\ displaySize \in Size /\ gVideo \in Size /\ Turned(gVideo) \in Size
         /\ Drawn(gVideo, gRotate) = IF gRotate THEN Turned(gVideo) ELSE gVideo
<1>1. displaySize \in Size /\ gVideo \in Size
  BY SizesAssumption DEF TypeOK, DisplaySetUp, WireDisplayAndMuxer
<1>2. Turned(gVideo) \in Size
  BY <1>1 DEF Turned, Size
<1> QED
  BY <1>1, <1>2 DEF Drawn, Turned

\* Every step of the process keeps every variable in its type.
LEMMA TypeStep == ASSUME TypeOK, DisplaySetUp, [Next]_vars PROVE TypeOK'
<1> USE SizesAssumption, CodecAssumption DEF TypeOK
<1>1. CASE OpenFile
  BY <1>1 DEF OpenFile
<1>2. CASE ConfigureSIGINT
  BY <1>2 DEF ConfigureSIGINT
<1>3. CASE ConfigureSIGHUP
  BY <1>3 DEF ConfigureSIGHUP
<1>4. CASE GetDisplayInfo
  <2>1. gVideo' \in Size \cup {<<0, 0>>}
    BY <1>4 DEF GetDisplayInfo
  <2> QED
    BY <1>4, <2>1 DEF GetDisplayInfo
<1>5. ASSUME NEW from \in {"prepare", "retry"}, PrepareEncoder(from) PROVE TypeOK'
  <2>1. Fallback \in Size
    BY FallbackSize
  <2>2. /\ gVideo' \in Size \cup {<<0, 0>>}
        /\ attempted' \subseteq Size \cup {<<0, 0>>}
    BY <1>5, <2>1 DEF PrepareEncoder, EncoderStarts, EncoderFails
  <2> QED
    BY <1>5, <2>2 DEF PrepareEncoder, EncoderStarts, EncoderFails
<1>6. CASE WireDisplayAndMuxer
  <2>1. projection' \in DisplayRects(displaySize, Drawn(gVideo, gRotate))
    BY <1>6 DEF WireDisplayAndMuxer
  <2>2. Drawn(gVideo, gRotate) \in Size /\ displaySize \in Size
    BY <1>6, SizesWired
  <2>3. projection' \in Rect
    BY <2>1, <2>2, PictureFits
  <2> QED
    BY <1>6, <2>3 DEF WireDisplayAndMuxer
<1>7. CASE GetOutputBuffers
  BY <1>7 DEF GetOutputBuffers, RunEncoderFails
<1>8. CASE ClearStopRequested
  <2>1. gStopRequested' \in BOOLEAN
    BY <1>8 DEF ClearStopRequested
  <2> QED
    BY <1>8, <2>1 DEF ClearStopRequested
<1>9. CASE LoopTest
  BY <1>9 DEF LoopTest, KeepsRunning
<1>10. CASE DequeueBuffer
  <2>1. /\ gStopRequested' \in BOOLEAN /\ written' \in BOOLEAN /\ eos' \in BOOLEAN
        /\ pc' \in Looping \cup {"exited"} /\ encoder' \in {encoder, "released"}
        /\ status' \in {"running", "failed", "aborted"}
        /\ status' = "running" <=> pc' # "exited"
    BY <1>10 DEF DequeueBuffer, RunEncoderFails
  <2> QED
    BY <1>10, <2>1 DEF DequeueBuffer
<1>11. CASE DequeueFormat
  <2>1. formats' \in 0 .. MaxFormats
    BY <1>11 DEF DequeueFormat
  <2>2. trackIdx' \in {"none", "track", "bad"} /\ muxer' \in {"none", "created", "started", "stopped", "failed"}
    BY <1>11 DEF DequeueFormat, Track
  <2> QED
    BY <1>11, <2>1, <2>2 DEF DequeueFormat, RunEncoderFails
<1>12. CASE DequeueNothing
  BY <1>12 DEF DequeueNothing
<1>13. CASE DequeueFails
  BY <1>13 DEF DequeueFails, RunEncoderFails
<1>14. CASE DestroyDisplay
  BY <1>14 DEF DestroyDisplay, Finish
<1>15. CASE StopEncoder
  BY <1>15 DEF StopEncoder, Finish
<1>16. CASE StopMuxer
  BY <1>16 DEF StopMuxer, Finish
<1>17. CASE ReleaseEncoder
  BY <1>17 DEF ReleaseEncoder, Finish
<1>18. CASE Fork \/ AmEnds \/ Wait
  BY <1>18 DEF Fork, AmEnds, Wait
<1>19. CASE Signal
  <2>1. /\ gStopRequested' \in BOOLEAN /\ caught' \in BOOLEAN
        /\ sigint' \in {sigint, "default"} /\ sighup' \in {sighup, "default"}
        /\ <<pc', status'>> \in {<<pc, status>>, <<"exited", "killed">>}
    BY <1>19 DEF Signal, Catch, Die
  <2> QED
    BY <1>19, <2>1 DEF Signal
<1>20. CASE TimeExpires
  BY <1>20 DEF TimeExpires
<1>21. CASE UNCHANGED vars
  BY <1>21 DEF vars
<1> QED
  BY <1>1, <1>2, <1>3, <1>4, <1>5, <1>6, <1>7, <1>8, <1>9, <1>10, <1>11, <1>12, <1>13, <1>14, <1>15, <1>16, <1>17, <1>18, <1>19, <1>20, <1>21 DEF Next, Step

\* Every step of the process keeps what concerns signals, the encoder and
\* the frames written.
LEMMA EndStep ==
  ASSUME TypeOK, SecondCtrlCKills, HandlersInstalled, EncoderReleased, EncoderInUse,
         SuccessKeepsFrames, FramesKept, [Next]_vars
  PROVE  /\ SecondCtrlCKills' /\ HandlersInstalled' /\ EncoderReleased' /\ EncoderInUse'
         /\ SuccessKeepsFrames' /\ FramesKept'
<1> USE DEF TypeOK, SecondCtrlCKills, HandlersInstalled, EncoderReleased, EncoderInUse,
            SuccessKeepsFrames, FramesKept
<1>1. CASE OpenFile
  BY <1>1 DEF OpenFile
<1>2. CASE ConfigureSIGINT
  BY <1>2 DEF ConfigureSIGINT
<1>3. CASE ConfigureSIGHUP
  BY <1>3 DEF ConfigureSIGHUP
<1>4. CASE GetDisplayInfo
  BY <1>4 DEF GetDisplayInfo
<1>5. ASSUME NEW from \in {"prepare", "retry"}, PrepareEncoder(from)
      PROVE  /\ SecondCtrlCKills' /\ HandlersInstalled' /\ EncoderReleased' /\ EncoderInUse'
             /\ SuccessKeepsFrames' /\ FramesKept'
  BY <1>5 DEF PrepareEncoder, EncoderStarts, EncoderFails
<1>6. CASE WireDisplayAndMuxer
  BY <1>6 DEF WireDisplayAndMuxer
<1>7. CASE GetOutputBuffers
  BY <1>7 DEF GetOutputBuffers, RunEncoderFails
<1>8. CASE ClearStopRequested
  BY <1>8 DEF ClearStopRequested
<1>9. CASE LoopTest
  BY <1>9 DEF LoopTest, KeepsRunning
<1>10. CASE DequeueBuffer
  BY <1>10 DEF DequeueBuffer, RunEncoderFails
<1>11. CASE DequeueFormat
  BY <1>11 DEF DequeueFormat, RunEncoderFails, Track
<1>12. CASE DequeueNothing
  BY <1>12 DEF DequeueNothing
<1>13. CASE DequeueFails
  BY <1>13 DEF DequeueFails, RunEncoderFails
<1>14. CASE DestroyDisplay
  BY <1>14 DEF DestroyDisplay, Finish
<1>15. CASE StopEncoder
  BY <1>15 DEF StopEncoder, Finish
<1>16. CASE StopMuxer
  BY <1>16 DEF StopMuxer, Finish
<1>17. CASE ReleaseEncoder
  BY <1>17 DEF ReleaseEncoder, Finish
<1>18. CASE Fork \/ AmEnds \/ Wait
  BY <1>18 DEF Fork, AmEnds, Wait
<1>19. CASE Signal
  BY <1>19 DEF Signal, Catch, Die
<1>20. CASE TimeExpires
  BY <1>20 DEF TimeExpires
<1>21. CASE UNCHANGED vars
  BY <1>21 DEF vars
<1> QED
  BY <1>1, <1>2, <1>3, <1>4, <1>5, <1>6, <1>7, <1>8, <1>9, <1>10, <1>11, <1>12, <1>13, <1>14, <1>15, <1>16, <1>17, <1>18, <1>19, <1>20, <1>21 DEF Next, Step

\* Every step of the process keeps what concerns the output format.
LEMMA FormatStep ==
  ASSUME TypeOK, AbortsOnlyUnannounced, FormatGiven, [Next]_vars
  PROVE  AbortsOnlyUnannounced' /\ FormatGiven'
<1> USE CodecAssumption DEF TypeOK, AbortsOnlyUnannounced, FormatGiven
<1>1. CASE OpenFile
  BY <1>1 DEF OpenFile
<1>2. CASE ConfigureSIGINT
  BY <1>2 DEF ConfigureSIGINT
<1>3. CASE ConfigureSIGHUP
  BY <1>3 DEF ConfigureSIGHUP
<1>4. CASE GetDisplayInfo
  BY <1>4 DEF GetDisplayInfo
<1>5. ASSUME NEW from \in {"prepare", "retry"}, PrepareEncoder(from)
      PROVE  AbortsOnlyUnannounced' /\ FormatGiven'
  BY <1>5 DEF PrepareEncoder, EncoderStarts, EncoderFails
<1>6. CASE WireDisplayAndMuxer
  BY <1>6 DEF WireDisplayAndMuxer
<1>7. CASE GetOutputBuffers
  BY <1>7 DEF GetOutputBuffers, RunEncoderFails
<1>8. CASE ClearStopRequested
  BY <1>8 DEF ClearStopRequested
<1>9. CASE LoopTest
  BY <1>9 DEF LoopTest, KeepsRunning
<1>10. CASE DequeueBuffer
  BY <1>10 DEF DequeueBuffer, RunEncoderFails
<1>11. CASE DequeueFormat
  BY <1>11 DEF DequeueFormat, RunEncoderFails, Track
<1>12. CASE DequeueNothing
  BY <1>12 DEF DequeueNothing
<1>13. CASE DequeueFails
  BY <1>13 DEF DequeueFails, RunEncoderFails
<1>14. CASE DestroyDisplay
  BY <1>14 DEF DestroyDisplay, Finish
<1>15. CASE StopEncoder
  BY <1>15 DEF StopEncoder, Finish
<1>16. CASE StopMuxer
  BY <1>16 DEF StopMuxer, Finish
<1>17. CASE ReleaseEncoder
  BY <1>17 DEF ReleaseEncoder, Finish
<1>18. CASE Fork \/ AmEnds \/ Wait
  BY <1>18 DEF Fork, AmEnds, Wait
<1>19. CASE Signal
  BY <1>19 DEF Signal, Catch, Die
<1>20. CASE TimeExpires
  BY <1>20 DEF TimeExpires
<1>21. CASE UNCHANGED vars
  BY <1>21 DEF vars
<1> QED
  BY <1>1, <1>2, <1>3, <1>4, <1>5, <1>6, <1>7, <1>8, <1>9, <1>10, <1>11, <1>12, <1>13, <1>14, <1>15, <1>16, <1>17, <1>18, <1>19, <1>20, <1>21 DEF Next, Step

\* Every step of the process keeps what concerns the choice of the size.
LEMMA SizeStep ==
  ASSUME TypeOK, OrientationKept, FallsBackTo720p, SizesTried, [Next]_vars
  PROVE  OrientationKept' /\ FallsBackTo720p' /\ SizesTried'
<1> USE SizesAssumption DEF TypeOK, Fallback, OrientationKept, FallsBackTo720p, SizesTried
<1>1. CASE OpenFile
  BY <1>1 DEF OpenFile
<1>2. CASE ConfigureSIGINT
  BY <1>2 DEF ConfigureSIGINT
<1>3. CASE ConfigureSIGHUP
  BY <1>3 DEF ConfigureSIGHUP
<1>4. CASE GetDisplayInfo
  BY <1>4 DEF GetDisplayInfo
<1>5. ASSUME NEW from \in {"prepare", "retry"}, PrepareEncoder(from)
      PROVE  OrientationKept' /\ FallsBackTo720p' /\ SizesTried'
  <2>1. OrientationKept'
    BY <1>5 DEF PrepareEncoder, EncoderStarts, EncoderFails, Size
  <2>2. SizesTried'
    BY <1>5 DEF PrepareEncoder, EncoderStarts, EncoderFails
  <2>3. FallsBackTo720p'
    BY <1>5 DEF PrepareEncoder, EncoderStarts, EncoderFails, MayFallBack
  <2> QED
    BY <2>1, <2>2, <2>3
<1>6. CASE WireDisplayAndMuxer
  BY <1>6 DEF WireDisplayAndMuxer
<1>7. CASE GetOutputBuffers
  BY <1>7 DEF GetOutputBuffers, RunEncoderFails
<1>8. CASE ClearStopRequested
  BY <1>8 DEF ClearStopRequested
<1>9. CASE LoopTest
  BY <1>9 DEF LoopTest, KeepsRunning
<1>10. CASE DequeueBuffer
  BY <1>10 DEF DequeueBuffer, RunEncoderFails
<1>11. CASE DequeueFormat
  BY <1>11 DEF DequeueFormat, RunEncoderFails, Track
<1>12. CASE DequeueNothing
  BY <1>12 DEF DequeueNothing
<1>13. CASE DequeueFails
  BY <1>13 DEF DequeueFails, RunEncoderFails
<1>14. CASE DestroyDisplay
  BY <1>14 DEF DestroyDisplay, Finish
<1>15. CASE StopEncoder
  BY <1>15 DEF StopEncoder, Finish
<1>16. CASE StopMuxer
  BY <1>16 DEF StopMuxer, Finish
<1>17. CASE ReleaseEncoder
  BY <1>17 DEF ReleaseEncoder, Finish
<1>18. CASE Fork \/ AmEnds \/ Wait
  BY <1>18 DEF Fork, AmEnds, Wait
<1>19. CASE Signal
  BY <1>19 DEF Signal, Catch, Die
<1>20. CASE TimeExpires
  BY <1>20 DEF TimeExpires
<1>21. CASE UNCHANGED vars
  BY <1>21 DEF vars
<1> QED
  BY <1>1, <1>2, <1>3, <1>4, <1>5, <1>6, <1>7, <1>8, <1>9, <1>10, <1>11, <1>12, <1>13, <1>14, <1>15, <1>16, <1>17, <1>18, <1>19, <1>20, <1>21 DEF Next, Step

\* Every step of the process keeps what concerns the virtual display.
LEMMA DisplayStep ==
  ASSUME TypeOK, DisplaySetUp, [Next]_vars
  PROVE  DisplaySetUp'
<1> USE SizesAssumption DEF TypeOK, DisplaySetUp
<1>1. CASE OpenFile
  BY <1>1 DEF OpenFile
<1>2. CASE ConfigureSIGINT
  BY <1>2 DEF ConfigureSIGINT
<1>3. CASE ConfigureSIGHUP
  BY <1>3 DEF ConfigureSIGHUP
<1>4. CASE GetDisplayInfo
  BY <1>4 DEF GetDisplayInfo
<1>5. ASSUME NEW from \in {"prepare", "retry"}, PrepareEncoder(from)
      PROVE  DisplaySetUp'
  <2>1. Fallback \in Size
    BY FallbackSize
  <2> QED
    BY <1>5, <2>1 DEF PrepareEncoder, EncoderStarts, EncoderFails
<1>6. CASE WireDisplayAndMuxer
  BY <1>6 DEF WireDisplayAndMuxer
<1>7. CASE GetOutputBuffers
  BY <1>7 DEF GetOutputBuffers, RunEncoderFails
<1>8. CASE ClearStopRequested
  BY <1>8 DEF ClearStopRequested
<1>9. CASE LoopTest
  BY <1>9 DEF LoopTest, KeepsRunning
<1>10. CASE DequeueBuffer
  BY <1>10 DEF DequeueBuffer, RunEncoderFails
<1>11. CASE DequeueFormat
  BY <1>11 DEF DequeueFormat, RunEncoderFails, Track
<1>12. CASE DequeueNothing
  BY <1>12 DEF DequeueNothing
<1>13. CASE DequeueFails
  BY <1>13 DEF DequeueFails, RunEncoderFails
<1>14. CASE DestroyDisplay
  BY <1>14 DEF DestroyDisplay, Finish
<1>15. CASE StopEncoder
  BY <1>15 DEF StopEncoder, Finish
<1>16. CASE StopMuxer
  BY <1>16 DEF StopMuxer, Finish
<1>17. CASE ReleaseEncoder
  BY <1>17 DEF ReleaseEncoder, Finish
<1>18. CASE Fork \/ AmEnds \/ Wait
  BY <1>18 DEF Fork, AmEnds, Wait
<1>19. CASE Signal
  BY <1>19 DEF Signal, Catch, Die
<1>20. CASE TimeExpires
  BY <1>20 DEF TimeExpires
<1>21. CASE UNCHANGED vars
  BY <1>21 DEF vars
<1> QED
  BY <1>1, <1>2, <1>3, <1>4, <1>5, <1>6, <1>7, <1>8, <1>9, <1>10, <1>11, <1>12, <1>13, <1>14, <1>15, <1>16, <1>17, <1>18, <1>19, <1>20, <1>21 DEF Next, Step

\* A step other than WireDisplayAndMuxer leaves the picture where it is.
LEMMA PictureStays ==
  ASSUME TypeOK, DisplaySetUp, ContentFits, UNCHANGED <<displaySize, gRotate, projection>>,
         UNCHANGED gVideo \/ pc \in BeforeEncoder \cup {"prepare", "retry"},
         display' # "none" => display # "none"
  PROVE  ContentFits'
BY DEF DisplaySetUp, ContentFits

\* What prepareVirtualDisplay() sets up shows the whole display.
LEMMA PictureWired == ASSUME TypeOK, DisplaySetUp, WireDisplayAndMuxer PROVE ContentFits'
<1>1. displaySize \in Size /\ gVideo \in Size
  BY SizesWired
<1>2. CASE gRotate
  <2>1. projection' \in DisplayRects(displaySize, Turned(gVideo))
    BY <1>2, SizesWired DEF WireDisplayAndMuxer
  <2>2. Fits(TurnedRect(projection'), Turned(displaySize), gVideo)
    BY <1>1, <2>1, TurnedFits
  <2> QED
    BY <1>2, <2>2 DEF ContentFits, WireDisplayAndMuxer
<1>3. CASE ~gRotate
  <2>1. projection' \in DisplayRects(displaySize, gVideo)
    BY <1>3, SizesWired DEF WireDisplayAndMuxer
  <2>2. Fits(projection', displaySize, gVideo)
    BY <1>1, <2>1, PictureFits
  <2> QED
    BY <1>3, <2>2 DEF ContentFits, WireDisplayAndMuxer
<1> QED
  BY <1>2, <1>3 DEF TypeOK

\* The picture is in its place after every step.
LEMMA PictureStep == ASSUME TypeOK, DisplaySetUp, ContentFits, [Next]_vars PROVE ContentFits'
<1>1. CASE WireDisplayAndMuxer
  BY <1>1, PictureWired
<1>2. CASE GetDisplayInfo
  BY <1>2, PictureStays DEF GetDisplayInfo
<1>3. ASSUME NEW from \in {"prepare", "retry"}, PrepareEncoder(from) PROVE ContentFits'
  BY <1>3, PictureStays DEF PrepareEncoder, EncoderStarts, EncoderFails
<1>4. CASE UNCHANGED sizes /\ (display' # "none" => display # "none")
  BY <1>4, PictureStays
<1>5. CASE DestroyDisplay
  BY <1>4, <1>5 DEF DestroyDisplay, Finish, DisplaySetUp
<1> QED
  BY <1>1, <1>2, <1>3, <1>4, <1>5 DEF Next, Step, vars,
     OpenFile, ConfigureSIGINT, ConfigureSIGHUP, GetOutputBuffers, ClearStopRequested, LoopTest,
     DequeueBuffer, DequeueFormat, DequeueNothing, DequeueFails, RunEncoderFails, StopEncoder,
     StopMuxer, ReleaseEncoder, Finish, Fork, AmEnds, Wait, Signal, TimeExpires

\* Every step of the process keeps the invariant.
LEMMA InvariantStep == ASSUME TypeOK, IInv, [Next]_vars PROVE IInv'
BY EndStep, FormatStep, SizeStep, DisplayStep, PictureStep DEF IInv

\* The inductive invariant of the native recorder.
THEOREM Inductive == Spec => [](TypeOK /\ IInv)
<1>1. Init => TypeOK
  <2>1. Init => gVideo \in Size \cup {<<0, 0>>}
    BY SizesAssumption DEF Init
  <2>2. Init => formats \in 0 .. MaxFormats
    BY CodecAssumption DEF Init
  <2>3. Init => projection \in Rect
    BY DEF Init, Rect
  <2> QED
    BY <2>1, <2>2, <2>3 DEF Init, TypeOK
<1>2. Init => IInv
  <2>1. Init => /\ SecondCtrlCKills /\ HandlersInstalled /\ EncoderReleased /\ EncoderInUse
                /\ SuccessKeepsFrames /\ FramesKept
    BY DEF Init, SecondCtrlCKills, HandlersInstalled, EncoderReleased, EncoderInUse,
           SuccessKeepsFrames, FramesKept
  <2>2. Init => AbortsOnlyUnannounced /\ FormatGiven /\ ContentFits /\ DisplaySetUp
    BY DEF Init, AbortsOnlyUnannounced, FormatGiven, ContentFits, DisplaySetUp
  <2>3. Init => OrientationKept /\ FallsBackTo720p /\ SizesTried
    BY DEF Init, OrientationKept, FallsBackTo720p, SizesTried
  <2> QED
    BY <2>1, <2>2, <2>3 DEF IInv
<1>3. TypeOK /\ IInv /\ [Next]_vars => (TypeOK /\ IInv)'
  BY TypeStep, InvariantStep DEF IInv
<1> QED
  BY <1>1, <1>2, <1>3, PTL DEF Spec

\* Whenever the first signal comes, a second Ctrl-C kills the process.
THEOREM SecondSignalKills == Spec => []SecondCtrlCKills
<1>1. IInv => SecondCtrlCKills
  BY DEF IInv
<1> QED
  BY <1>1, Inductive, PTL

\* No way of ending by itself leaks the encoder.
THEOREM EncoderNotLeaked == Spec => []EncoderReleased
<1>1. IInv => EncoderReleased
  BY DEF IInv
<1> QED
  BY <1>1, Inductive, PTL

\* A recording reported as a success has all its frames in a complete file,
\* unless muxer->stop() could not finish it.
THEOREM FramesNotLost == Spec => []SuccessKeepsFrames
<1>1. IInv => SuccessKeepsFrames
  BY DEF IInv
<1> QED
  BY <1>1, Inductive, PTL

\* Only an encoder that sends a frame before any format aborts the process.
THEOREM AbortsExplained == Spec => []AbortsOnlyUnannounced
<1>1. IInv => AbortsOnlyUnannounced
  BY DEF IInv
<1> QED
  BY <1>1, Inductive, PTL

\* A size nobody asked for is held as the display is held.
THEOREM PortraitStaysPortrait == Spec => []OrientationKept
<1>1. IInv => OrientationKept
  BY DEF IInv
<1> QED
  BY <1>1, Inductive, PTL

\* Without --size the encoder is not given up before 720p has been tried,
\* but for displays that have one dimension in common with it.
THEOREM SmallerSizeTried == Spec => []FallsBackTo720p
<1>1. IInv => FallsBackTo720p
  BY DEF IInv
<1> QED
  BY <1>1, Inductive, PTL

\* Every video shows the whole display, upright and undistorted, for displays
\* and videos up to 65536 by 65536 and every rounding to single precision.
THEOREM PictureIsWhole == Spec => []ContentFits
<1>1. IInv => ContentFits
  BY DEF IInv
<1> QED
  BY <1>1, Inductive, PTL
-----------------------------------------------------------------------------
(***************************************************************************)
(* The life of the process as the app sees it.  SendsEOS is the exception: *)
(* a buffer that flags the end of the stream clears a stop request that    *)
(* has been noticed, and the process encodes on.                           *)
(***************************************************************************)

USE DEF lifeOf, Native!ByItself, Native!AfterSignal, Native!Running

\* A step that keeps the process among the same steps of its life, with the
\* same stop request, is none of the life it leads for the app.
LEMMA LifeUnchanged ==
  ASSUME UNCHANGED gStopRequested,
         \/ pc' = pc
         \/ {pc, pc'} \subseteq Startup \/ {pc, pc'} \subseteq Looping \/ {pc, pc'} \subseteq Finishing
  PROVE  UNCHANGED lifeOf
OBVIOUS

\* Every step of the process is one that ShellScreenRecorder supposes of its
\* native recorders, or none they notice.
LEMMA LifeStep ==
  ASSUME SendsEOS = FALSE, TypeOK, [Next]_vars
  PROVE  [Native!Proceeds \/ Native!Signalled]_lifeOf
<1> USE DEF TypeOK, Native!Proceeds, Native!Signalled
<1>1. ASSUME NEW from \in Startup, NEW to \in Startup, Goto(from, to), UNCHANGED gStopRequested
      PROVE  UNCHANGED lifeOf
  BY <1>1
<1>2. ASSUME pc # "exited", pc' = "exited" PROVE Native!Proceeds
  BY <1>2
<1>3. CASE \/ OpenFile \/ ConfigureSIGINT \/ ConfigureSIGHUP \/ GetDisplayInfo
           \/ WireDisplayAndMuxer \/ GetOutputBuffers
  BY <1>1, <1>2, <1>3 DEF OpenFile, ConfigureSIGINT, ConfigureSIGHUP, GetDisplayInfo,
     WireDisplayAndMuxer, GetOutputBuffers, RunEncoderFails
<1>4. ASSUME NEW from \in {"prepare", "retry"}, PrepareEncoder(from)
      PROVE  [Native!Proceeds \/ Native!Signalled]_lifeOf
  BY <1>1, <1>2, <1>4 DEF PrepareEncoder, EncoderStarts, EncoderFails
<1>5. CASE ClearStopRequested
  BY <1>5 DEF ClearStopRequested
<1>6. CASE LoopTest
  BY <1>6 DEF LoopTest, KeepsRunning
<1>7. CASE DequeueBuffer
  <2>1. \/ pc = "dequeue" /\ pc' = "exited"
        \/ pc = "dequeue" /\ pc' = "loop" /\ gStopRequested' = gStopRequested
    BY <1>7 DEF DequeueBuffer, RunEncoderFails
  <2> QED
    BY <1>2, <2>1
<1>8. CASE DequeueFormat \/ DequeueNothing \/ DequeueFails
  BY <1>2, <1>8 DEF DequeueFormat, DequeueNothing, DequeueFails, RunEncoderFails
<1>9. CASE DestroyDisplay \/ StopEncoder \/ StopMuxer \/ ReleaseEncoder
  BY <1>9 DEF DestroyDisplay, StopEncoder, StopMuxer, ReleaseEncoder, Finish
<1>10. CASE Fork \/ AmEnds \/ Wait
  BY <1>2, <1>10 DEF Fork, AmEnds, Wait
<1>11. CASE Signal
  <2>1. pc # "exited" /\ (pc' = "exited" \/ (pc' = pc /\ gStopRequested' = TRUE))
    BY <1>11 DEF Signal, Catch, Die
  <2>2. CASE pc' = "exited"
    BY <2>1, <2>2
  <2>3. CASE pc' = pc /\ gStopRequested' = TRUE
    BY <2>1, <2>3
  <2> QED
    BY <2>1, <2>2, <2>3
<1>12. CASE TimeExpires \/ UNCHANGED vars
  BY <1>12 DEF TimeExpires, vars
<1> QED
  BY <1>3, <1>4, <1>5, <1>6, <1>7, <1>8, <1>9, <1>10, <1>11, <1>12 DEF Next, Step

\* The safety half of LivesAsSupposed: with an encoder that does not flag
\* the end of its stream, the process starts, encodes, finishes and ends,
\* and takes signals, as ShellScreenRecorder supposes.
THEOREM LivesItsLife ==
  ASSUME SendsEOS = FALSE
  PROVE  Spec => Native!Init /\ [][Native!Proceeds \/ Native!Signalled]_lifeOf
<1>1. Init => Native!Init
  BY DEF Init, Native!Init
<1>2. TypeOK /\ [Next]_vars => [Native!Proceeds \/ Native!Signalled]_lifeOf
  BY LifeStep
<1> QED
  BY <1>1, <1>2, Inductive, PTL DEF Spec
=============================================================================
