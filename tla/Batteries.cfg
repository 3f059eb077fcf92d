SPECIFICATION BatteriesSpec
CONSTANTS
  SnapshotEvery = 2
  AwaitsAppends = TRUE
  PutsLandTogether = TRUE
  MayDiscard = TRUE
  MaxMsgs = 8
  MaxEvictions = 3
  AgentCalls <- TwoCalls
  AgentBare = {"c2"}
  AgentWindow = 1
  AgentStages = 2
  AgentBrain <- Twice
  AgentCompact <- Twice
  AgentTool <- TwiceInTime
  AgentDelay = 1
  AgentMaxTurns = 3
  AgentElapsed = 2
  AgentWatchdog = 2
  AgentStopWhen = {TRUE, FALSE}
  AgentFolds = {0, 2}
  AgentMayCancel = TRUE
  AgentHorizon = 4
  AgentMaxCrashes = 1
  AgentMaxStarts = 1
  AuthKeys = {"k1", "k2"}
  AuthConfig <- AuthBricks
  AuthDelays = {1}
  AuthHorizon = 4
  AuthMaxRuns = 1
  AuthMaxMints = 2
  OweCalls = {"a", "b"}
  OweMaxEvictions = 2
  OweMaxOwed = 4
  OweAgain = FALSE
  WfPlans <- FourSteps
  WfCallers = {"host"}
  WfSnapshotEvery = {2, 100}
  WfMaxEvents = 6
  WfMaxEvictions = 2
  StepRuns = {"r"}
  StepCalls <- OneRun
  StepMaxPosts = 4
  StepMaxEvictions = 1
  StepMaxRestarts = 1
  QueueClients = {"a", "b"}
  QueueMaxIds = 2
  QueueMaxOps = 4
  Authors = {"a", "b"}
  Hasty = {"a"}
  JournalMaxAppends = 2
  JournalMaxPushes = 2
  JournalMaxLog = 3
  RecPages = 3
  RecPlans <- Plans
  RecConfig <- PageBricks
  RecDelay = 1
  RecHorizon = 5
  RecMaxEvictions = 2
  PollEvery = 2
  PollDelay = 1
  PollAttempts = 2
  PollKeys = {"x", "y"}
  PollHorizon = 6
  PollMaxInFlight = 2
  PollMaxEvictions = 2
  PollMaxStarts = 2
  Reacts <- BothReacts
  MountMaxEvents = 5
  MountMaxSends = 2
  MountMaxCommits = 2
  SagaSteps = 3
  SagaMaxCrashes = 2
  IntakeKeys = {"a", "b"}
  IntakeMaxItems = 4
  IntakeMaxCrashes = 2
  Child = {"x", "y"}
  Surface = {"popup"}
  BridgeMaxState = 4
  BridgeMaxStops = 2
  BridgeMaxOpens = 2
  BatchMax = 3
  BatchItems = 5
  BatchMaxCrashes = 1
  ThrottleConfigs <- Throttles
  ThrottleValues = {"u", "v"}
  ThrottleSamples = 3
  ThrottleHorizon = 5
  HostRegs = {"r", "s"}
  HostMaxMsgs = 3
  HandleRuns = {"r"}
  HandleKeys = {"x", "y"}
  HandleMax = 4
  ClassKeys = {"p", "q"}
  ClassMax = 2
  ClassWindow = 1
  ClassTtl = 1
  ClassHorizon = 2
  ClassMaxItems = 4
  ClassMaxCrashes = 1
  MoveRows = {"f", "g"}
  MoveMaxCuts = 2
  MoveMaxCommits = 2
INVARIANTS
  SnapshotFoldsItsEvents
  LogIsTheState
  ReplayIsBounded
  EveryCallAnsweredOnce
  NeverStuck
  AttemptsAreBudgeted
  WaitingIsLive
  UnansweredIsOwed
  DoneOnce
  NothingHalfDone
  LoneOpsStick
  ReplicasAgree
  PassIsExact
  NeverSilent
  RunFollowsScreen
  ScopesHold
PROPERTIES
  ImplementsEventLog
  BreakerShields
  StepsGoThrough
CHECK_DEADLOCK FALSE
