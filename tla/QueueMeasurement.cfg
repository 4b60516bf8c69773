SPECIFICATION MeasurementSpec
CONSTANTS
  Windows = 8
  Drain = 1
  MaxTransfers = 3
  MaxAnomalies = 1
INVARIANTS
  MeasuredBacklogIsReal
  VerdictNeedsSettledWork
  RulesAgree
CHECK_DEADLOCK FALSE
