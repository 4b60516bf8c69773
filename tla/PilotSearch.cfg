SPECIFICATION SearchSpec
CONSTANTS
  StartRate = 4
  MaximumRate = 8
  RelativeWidth = 20
  ScreeningReplicates = 1
  BoundaryReplicates = 2
  FaultReplicates = 1
  LoadPercentages <- MCLoadPercentages
  FaultScenarios = {"adapter-crash", "database-delay"}
INVARIANTS
  SharedRateHolds
PROPERTIES
  SearchEnds
CHECK_DEADLOCK FALSE
