\* Safety of the list of clips, of StorageHelper and of file names, on a
\* storage that comes and goes.
SPECIFICATION Spec
CONSTANTS
  Activity = {a1, a2}
  Adapter = {d1, d2}
  Cursor = {c1, c2, c3, c4, c5}
  NULL = NULL
  MaxChanges = 2
  MayUnmount = TRUE
  MayFail = TRUE
SYMMETRY Symmetry
INVARIANTS
  NoCursorLost
  ListReadsOpenCursor
  ListIsCurrent
  NameOrNoStorage
CHECK_DEADLOCK FALSE
