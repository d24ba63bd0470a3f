\* Finding: the service that dies while it records is not started again.
SPECIFICATION FairAppSpec
CONSTANTS
  InitThread = {i1}
  RecorderThread = {r1}
  NULL = NULL
  AbiSupported = TRUE
  MaxCrashes = 1
  MaxLaunches = 1
  MaxCommands = 1
PROPERTIES
  ServiceKeepsRunning
CHECK_DEADLOCK FALSE
