SPECIFICATION MCSpec
CONSTANTS
  Kinds = {"memory"}
  HasStore = FALSE
  Strategy = "restart"
  NSubs = 1
  Wants <- OneSub
  Terms = {FALSE}
  CmdCounts <- UpToOneCmd
  Origins = {"caller", "loop"}
  Observers = {}
  EagerStart = TRUE
  DepsMayThrow = FALSE
  MaxWork = 2
  MaxDetach = 0
  IdleCap = 2
INVARIANTS
  OneHandlerAtATime
CHECK_DEADLOCK FALSE
