SPECIFICATION Spec
CONSTANTS
  p1 = p1
  p2 = p2
  p3 = p3
  Procs <- ThreeProcs
  Gone = Gone
  Foreign = Foreign
  Nobody = Nobody
  Unwritten = Unwritten
  Starts <- UsualStarts
  MaxEnds = 1
  EndsAnyTime = FALSE
  MaxSaves = 2
  MaxDeletes = 1
  DeleteUnderRun = FALSE
INVARIANTS
  TypeOK
  MutualExclusion
  NothingAckedIsLost
PROPERTIES
  ForeignLockStays
  OustedStaysOut
CHECK_DEADLOCK FALSE
