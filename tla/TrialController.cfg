SPECIFICATION FairSpec
CONSTANTS
  Condition <- MCCondition
  Scenario <- MCScenario
  MaxLaunches = 2
  MaxFaults = 2
INVARIANTS
  ValidRunWasIsolated
  FaultEndsBeforeDrain
  FailedStaysFailed
PROPERTIES
  ResetSparesOpenWork
  EvidenceIsKept
  InvocationEnds
CHECK_DEADLOCK FALSE
