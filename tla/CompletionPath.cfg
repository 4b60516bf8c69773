SPECIFICATION PathFairSpec
CONSTANTS
  Waiters = {"w1", "w2"}
  Sets = {"s1", "s2", "s3"}
  NoSet = NoSet
  Calls = {"c1", "c2", "c3", "c4", "c5"}
  Limit = 2
  Mine = "c1"
  MaxFailures = 1
INVARIANTS
  WaiterIsReachable
  NoSlotWasted
PROPERTIES
  SettlementIsHeard
