SPECIFICATION Spec
CONSTANTS
  alice = alice
  bob = bob
  NoCommand = NoCommand
  NoCause = NoCause
  NoVerdict = NoVerdict
  Keys = {k1, k2}
  Declined = {}
  Accounts = {alice, bob}
  Commands <- MCCommands
  Answer <- MCAnswer
  FailureCodes = {"ADAPTER_UNAVAILABLE"}
  Causes = {"COMPLETED", "LIMIT_EXCEEDED", "ADAPTER_UNAVAILABLE"}
  Lanes = {"request", "task"}
  DefaultPayerBalance = 3
  MaxAttempts = 1
  MaxFaults = 1
  ClientMode = "sync"
  WorkerConcurrency = 2
  CallbackMaxAttempts = 1
SYMMETRY MCSymmetry
INVARIANTS
  LedgerMatchesTransfers
  WaitFindsSettled
  StaleWorkLeavesNoTrace
  OneOutcomeToldUntilReset
CHECK_DEADLOCK FALSE
