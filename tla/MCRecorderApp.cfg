\* Safety of the whole app, which may die once and is given its unfinished
\* intents again.
SPECIFICATION AppSpec
CONSTANTS
  InitThread = {i1, i2}
  RecorderThread = {r1, r2}
  NULL = NULL
  AbiSupported = TRUE
  MaxCrashes = 1
  MaxLaunches = 2
  MaxCommands = 2
SYMMETRY Symmetry
INVARIANTS
  AppTypeOK
  CommandsAreLegal
  ModelAgrees
  InitScreenGoes
  RecordingIsVisible
  NoGhostNotification
  ShutterTells
CHECK_DEADLOCK FALSE
