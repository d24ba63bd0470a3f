\* Finding: a Ctrl-C during start-up is forgotten.
SPECIFICATION FairSpec
CONSTANTS
  DisplaySizes <- MCDisplaySizes
  ArgSizes <- MCArgSizes
  EncoderSizes <- MCEncoderSizes
  MaxFormats = 2
  SendsEOS = FALSE
PROPERTIES
  RecordsUntilCtrlC
CHECK_DEADLOCK FALSE
