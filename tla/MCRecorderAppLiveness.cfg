\* Liveness of the shutter: two recordings, two launches by the user.
SPECIFICATION FairAppSpec
CONSTANTS
  InitThread = {i1}
  RecorderThread = {r1, r2}
  NULL = NULL
  AbiSupported = TRUE
  MaxCrashes = 0
  MaxLaunches = 2
  MaxCommands = 2
PROPERTIES
  ShutterComesBack
CHECK_DEADLOCK FALSE
