SPECIFICATION Spec
CONSTANTS
  alice = alice
  bob = bob
  NoCommand = NoCommand
  NoCause = NoCause
  NoVerdict = NoVerdict
  Keys = {"k1", "k2"}
  Declined = {"k2"}
  Accounts = {alice, bob}
  Commands <- MCCommands
  Answer <- MCAnswer
  FailureCodes = {"ADAPTER_OUTCOME_UNKNOWN", "ADAPTER_ERROR"}
  Causes = {"COMPLETED", "LIMIT_EXCEEDED", "ADAPTER_OUTCOME_UNKNOWN", "ADAPTER_ERROR"}
  Lanes = {"request", "task"}
  DefaultPayerBalance = 3
  MaxAttempts = 2
  MaxFaults = 2
  ClientMode = "async"
  WorkerConcurrency = 1
  CallbackMaxAttempts = 2
INVARIANTS
  FailureIsDefinite
  VerdictExplainsSettlement
PROPERTIES
  VerdictIsFinal
