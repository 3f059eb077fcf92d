SPECIFICATION MCSpec
CONSTANTS
  Kinds = {"unwatched", "done", "idle"}
  HasStore = TRUE
  Strategy = "stop"
  NSubs = 1
  Wants <- OneSub
  Terms = {TRUE, FALSE}
  CmdCounts <- UpToOneCmd
  Origins = {"caller", "loop"}
  Observers = {"done", "idle"}
  EagerStart = TRUE
  DepsMayThrow = FALSE
  MaxWork = 3
  MaxDetach = 1
  IdleCap = 2
INVARIANTS
  TypeOK
  SaveBeforeEffects
  FoldsInOrder
  DropsAreCounted
  SubsFollowInstalled
  NoSubOutlivesStop
  DoneHears
  DrainedLeavesNothing
PROPERTIES
  StaysStopped
  ImplementsDurableRun
  DoneOnlyIfSaved
  IdleMeansQuiescent
CHECK_DEADLOCK FALSE
