SPECIFICATION Spec
CONSTANTS
  Settings <- UndeleteSettings
  Crashes = {"process"}
  Backward = FALSE
  MaxGen = 2
INVARIANTS
  DeleteNotUndone
CHECK_DEADLOCK FALSE
