SPECIFICATION WfSpec
CONSTANTS
  WfPlans <- FourSteps
  WfCallers = {"host"}
  WfSnapshotEvery = {1}
  WfMaxEvents = 6
  WfMaxEvictions = 2
INVARIANT OneIdPerEffect
CHECK_DEADLOCK FALSE
