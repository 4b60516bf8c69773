SPECIFICATION ReportSpec
CONSTANTS
  alice = alice
  bob = bob
  NoCommand = NoCommand
  NoCause = NoCause
  Keys = {"k1", "k2", "k3"}
  Accounts = {alice, bob}
  Commands <- MCCommands
  Causes = {"PROVIDER_FAILED"}
  DefaultPayerBalance = 3
INVARIANTS
  LedgerMatchesTransfers
  NoOverdraft
  AlarmsAreTorn
PROPERTIES
  TerminalNeverReversed
  RefinesContract
