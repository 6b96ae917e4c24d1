SPECIFICATION Spec
CONSTANTS
  Settings <- ProcessSettings
  Crashes = {"process"}
  Backward = TRUE
  MaxGen = 3
INVARIANTS
  PublishedSurvives
  MarkerMeansCurrent
CHECK_DEADLOCK FALSE
