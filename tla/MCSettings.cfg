\* Safety of the settings, from the menus to the command line.
SPECIFICATION Spec
CONSTANTS
  Screens <- MCScreens
  NULL = NULL
INVARIANTS
  BitratesFitResolution
  CommandsAccepted
PROPERTIES
  RecordsWhatIsShown
  ChoicesSurvive
