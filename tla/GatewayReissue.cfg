SPECIFICATION OweSpec
CONSTANTS
  OweCalls = {"a", "b"}
  OweMaxEvictions = 2
  OweMaxOwed = 4
  OweAgain = FALSE
INVARIANT AnsweredIsConfirmed
CHECK_DEADLOCK FALSE
