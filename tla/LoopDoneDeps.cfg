SPECIFICATION MCSpec
CONSTANTS
  Kinds = {"plain"}
  HasStore = TRUE
  Strategy = "stop"
  NSubs = 1
  Wants <- OneSub
  Terms = {TRUE, FALSE}
  CmdCounts <- UpToOneCmd
  Origins = {"caller", "loop"}
  Observers = {"done"}
  EagerStart = TRUE
  DepsMayThrow = TRUE
  MaxWork = 1
  MaxDetach = 0
  IdleCap = 2
INVARIANTS
  DoneHears
CHECK_DEADLOCK FALSE
