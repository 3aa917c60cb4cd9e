SPECIFICATION Spec
CONSTANTS
  AAPL = AAPL
  SPY = SPY
  Symbol = {AAPL, SPY}
  Acknowledged <- Lists
  QueueCapacity = 2
  MaximumAttempts = 1
  MaxSessions = 3
  MaxBars = 3
  MaxFaults = 1
INVARIANTS
  TypeOK
  SessionsAreWatched
  BarsInOrder
  FailuresAreBounded
PROPERTIES
  FollowsContract
  StreamSettles
CHECK_DEADLOCK FALSE
