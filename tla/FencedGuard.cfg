SPECIFICATION Spec
CONSTANTS
  p1 = p1
  p2 = p2
  p3 = p3
  Procs <- TwoProcs
  Gone = Gone
  Foreign = Foreign
  Nobody = Nobody
  Unwritten = Unwritten
  Starts <- DeadGuard
  MaxEnds = 0
  EndsAnyTime = FALSE
  MaxSaves = 2
  MaxDeletes = 1
  DeleteUnderRun = FALSE
INVARIANT MutualExclusion
CHECK_DEADLOCK FALSE
