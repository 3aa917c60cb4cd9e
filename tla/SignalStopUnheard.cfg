SPECIFICATION FairSpec
CONSTANTS
  w1 = w1
  w2 = w2
  c1 = c1
  c2 = c2
  c3 = c3
  Worker = {w1}
  Config = {c1}
  Disabled = Disabled
  Nobody = Nobody
  NoRun = NoRun
  NoStop = NoStop
  BacklogLimit = 2
  BatchSize = 2
  MaxAttempts = 2
  MaxRuns = 1
  MaxPosition = 1
  MaxFence = 4
  MaxFaults = 0
  MaxOrders = 1
PROPERTIES
  WorkerStops
CHECK_DEADLOCK FALSE
