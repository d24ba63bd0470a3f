\* Refinement: the life of the process that the Java side relies on.
SPECIFICATION FairSpec
CONSTANTS
  DisplaySizes <- MCDisplaySizes
  ArgSizes <- MCArgSizes
  EncoderSizes <- MCEncoderSizes
  MaxFormats = 2
  SendsEOS = FALSE
PROPERTIES
  LivesAsSupposed
CHECK_DEADLOCK FALSE
