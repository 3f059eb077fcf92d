SPECIFICATION Spec
CONSTANTS
  SnapshotEvery = 2
  AwaitsAppends = FALSE
  PutsLandTogether = TRUE
  MayDiscard = TRUE
  MaxMsgs = 8
  MaxEvictions = 3
INVARIANT SnapshotFoldsItsEvents
CHECK_DEADLOCK FALSE
