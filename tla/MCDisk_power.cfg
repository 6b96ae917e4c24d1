SPECIFICATION Spec
CONSTANTS
  Settings <- PowerSettings
  Crashes = {"power"}
  Backward = FALSE
  MaxGen = 2
INVARIANTS
  GoneStaysGone
  PublishedSurvives
  ServedIntact
CHECK_DEADLOCK FALSE
