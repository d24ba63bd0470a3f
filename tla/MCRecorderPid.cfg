\* getRecorderPid(): ps through su, with output up to beyond what a pipe holds.
SPECIFICATION PidSpec
CONSTANTS
  PATH = PATH
  OtherNames = {su, sh}
  MaxLines = 4
  PipeCapacity = 4
  MaxOutput = 5
INVARIANTS
  ResultIsComplete
  FindsRecorder
PROPERTIES
  ReturnsIfItFits
CHECK_DEADLOCK FALSE
