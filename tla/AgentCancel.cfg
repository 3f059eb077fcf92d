SPECIFICATION AgentSpec
CONSTANTS
  AgentCalls <- TwoCalls
  AgentBare = {}
  AgentWindow = 1
  AgentStages = 0
  AgentBrain <- Twice
  AgentCompact <- Twice
  AgentTool <- TwiceInTime
  AgentDelay = 1
  AgentMaxTurns = 0
  AgentElapsed = 0
  AgentWatchdog = 0
  AgentStopWhen = {FALSE}
  AgentFolds = {0, 2}
  AgentMayCancel = TRUE
  AgentHorizon = 4
  AgentMaxCrashes = 1
  AgentMaxStarts = 1
PROPERTY SettledIssuesNothing
CHECK_DEADLOCK FALSE
