SPECIFICATION MCSpec
CONSTANTS
  Kinds = {"plain", "memory"}
  HasStore = TRUE
  Strategy = "stop"
  NSubs = 1
  Wants <- OneSub
  Terms = {FALSE}
  CmdCounts <- UpToOneCmd
  Origins = {"caller", "loop", "tell"}
  Observers = {}
  EagerStart = TRUE
  DepsMayThrow = FALSE
  MaxWork = 2
  MaxDetach = 1
  IdleCap = 2
PROPERTIES
  StopReturns
  FailureStops
  DispatchSettles
CHECK_DEADLOCK FALSE
