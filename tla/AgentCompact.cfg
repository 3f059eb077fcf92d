SPECIFICATION AgentSpec
CONSTANTS
  AgentCalls <- ThreeCalls
  AgentBare = {}
  AgentWindow = 1
  AgentStages = 0
  AgentBrain <- Twice
  AgentCompact <- Twice
  AgentTool <- TwiceInTime
  AgentDelay = 1
  AgentMaxTurns = 0
  AgentElapsed = 0
  AgentWatchdog = 0
  AgentStopWhen = {FALSE}
  AgentFolds = {0, 2}
  AgentMayCancel = FALSE
  AgentHorizon = 2
  AgentMaxCrashes = 1
  AgentMaxStarts = 1
INVARIANT RecordsNameTheirTurn
CHECK_DEADLOCK FALSE
