SPECIFICATION CapabilitySpec
CONSTANTS
  ingestA = ingestA
  ingestB = ingestB
  aapl = aapl
  spy = spy
  PaperSession <- MCSession
  SignalWorker = worker
  SeriesOrder <- MCSeriesOrder
  Counter = counter
  Threshold <- MCThreshold
  ThresholdOf <- MCThresholdOf
  LeaseTicks = 2
  MaxTime = 3
  MaxChanges = 1
  NoRun = NoRun
  NoSeries = NoSeries
  Nobody = Nobody
INVARIANTS
  OpenWritersAreCompatible
  NoLockCycle
PROPERTIES
  FencedForGood
CHECK_DEADLOCK FALSE
