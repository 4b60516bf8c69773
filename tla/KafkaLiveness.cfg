SPECIFICATION FairSpec
CONSTANTS
  alice = alice
  bob = bob
  NoCommand = NoCommand
  NoCause = NoCause
  NoVerdict = NoVerdict
  Keys = {"k1"}
  Declined = {}
  Accounts = {alice, bob}
  Commands <- MCTwoCommands
  Answer <- MCAnswer
  FailureCodes = {"ADAPTER_OUTCOME_UNKNOWN", "ADAPTER_ERROR"}
  Causes = {"COMPLETED", "LIMIT_EXCEEDED", "ADAPTER_OUTCOME_UNKNOWN", "ADAPTER_ERROR"}
  Lanes <- MCLanes
  DefaultPayerBalance = 3
  MaxAttempts = 2
  MaxFaults = 1
  ClientMode = "sync"
  WorkerConcurrency = 1
  CallbackMaxAttempts = 1
PROPERTIES
  EventuallyDelivered
