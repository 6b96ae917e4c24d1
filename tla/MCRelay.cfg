SPECIFICATION FairSpec
CONSTANTS
  Readers = {r1}
  MaxBytes = 2
  Window = 1
  Intermediary = TRUE
  Panics = TRUE
INVARIANTS
  CompleteMeansWhole
  StoredIsWhole
  NextRequestReads
PROPERTIES
  StopIsNotBlamed
  TransfersEnd
CHECK_DEADLOCK FALSE
