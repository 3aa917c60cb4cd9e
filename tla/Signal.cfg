SPECIFICATION FairSpec
CONSTANTS
  w1 = w1
  w2 = w2
  c1 = c1
  c2 = c2
  c3 = c3
  Worker = {w1}
  Config = {c1, c2}
  Disabled = Disabled
  Nobody = Nobody
  NoRun = NoRun
  NoStop = NoStop
  BacklogLimit = 2
  BatchSize = 2
  MaxAttempts = 2
  MaxRuns = 3
  MaxPosition = 3
  MaxFence = 12
  MaxFaults = 2
  MaxOrders = 2
INVARIANTS
  RunsAreAccountedFor
PROPERTIES
  ImplementsQueue
  WorkIsFinished
CHECK_DEADLOCK FALSE
