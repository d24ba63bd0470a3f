\* The native recorder: safety, and the end of every recording.
SPECIFICATION FairSpec
CONSTANTS
  DisplaySizes <- MCDisplaySizes
  ArgSizes <- MCArgSizes
  EncoderSizes <- MCEncoderSizes
  MaxFormats = 2
  SendsEOS = TRUE
INVARIANTS
  ContentFits
  SecondCtrlCKills
  EncoderReleased
  SuccessKeepsFrames
  AbortsOnlyUnannounced
  OrientationKept
  FallsBackTo720p
PROPERTIES
  StopEnds
  TimeLimitEnds
CHECK_DEADLOCK FALSE
