\* Finding: a recorder initialized at the second attempt never says so.
SPECIFICATION SerialSpec
CONSTANTS
  InitThread = {i1, i2}
  RecorderThread = {r1}
  NULL = NULL
  AbiSupported = TRUE
  MaxCrashes = 0
INVARIANTS
  InitializedIsAnnounced
CHECK_DEADLOCK FALSE
