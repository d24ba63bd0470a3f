\* The recorder, for callers that do not overlap calls of init(): two calls,
\* two recordings, three lives of the app.  Safety, liveness and refinement.
SPECIFICATION SerialSpec
CONSTANTS
  InitThread = {i1, i2}
  RecorderThread = {r1, r2}
  NULL = NULL
  AbiSupported = TRUE
  MaxCrashes = 2
INVARIANTS
  TypeOK
  StateTellsRecording
  ProcessesBelong
  StopHitsCurrent
  BinaryInstalled
  HeardMatchesState
PROPERTIES
  InitIsAnswered
  StopIsHeard
  KeepsContract
CHECK_DEADLOCK FALSE
