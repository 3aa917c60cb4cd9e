SPECIFICATION FairSpec
CONSTANTS
  w1 = w1
  w2 = w2
  a1 = a1
  Workers = {w1, w2}
  AccountOf <- OneAccount
  MaxCycles = 1
  LeaseTicks = 2
  NoWorker = NoWorker
  NoRun = NoRun
INVARIANTS
  PendingIsOwned
  CurrentIsNewest
PROPERTIES
  ImplementsChain
  ImplementsStatus
  ShutdownsAndClaimsEnd
CHECK_DEADLOCK FALSE
