SPECIFICATION Spec
CONSTANTS
  MaximumRuns = 4
  MaximumActive = 2
  MaxRepetitions = 2
  MaxSessions = 3
  MaxClock = 3
  MaxFaults = 1
INVARIANTS
  PausedIsResumable
  TimeIsAccounted
PROPERTIES
  NoTrialAfterLoss
  PauseKeepsPairs
CHECK_DEADLOCK FALSE
