SPECIFICATION FairSpec
CONSTANTS
  alice = alice
  bob = bob
  NoCommand = NoCommand
  NoCause = NoCause
  NoVerdict = NoVerdict
  Keys = {"k1"}
  Declined = {}
  Accounts = {alice, bob}
  Commands <- MCTwoCommands
  Answer <- MCAnswer
  FailureCodes = {"ADAPTER_OUTCOME_UNKNOWN", "ADAPTER_UNAVAILABLE"}
  Causes = {"COMPLETED", "LIMIT_EXCEEDED", "ADAPTER_OUTCOME_UNKNOWN", "ADAPTER_UNAVAILABLE"}
  Lanes = {"request", "task"}
  DefaultPayerBalance = 3
  MaxAttempts = 2
  MaxFaults = 2
  ClientMode = "sync"
  WorkerConcurrency = 2
  CallbackMaxAttempts = 2
INVARIANTS
  OneOutcomeTold
PROPERTIES
  EventuallyDelivered
