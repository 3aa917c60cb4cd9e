SPECIFICATION Spec
CONSTANTS
  SessionOf <- MCSessionOf
  Lookback = 2
  Multiplier = 2
  Freshness = 1
  Greatest = 100
  None = None
  Events <- MCEvents
  Clock <- MCClock
  Workers = {w1, w2}
  QueueCapacity = 3
  MaxArrivals = 5
  MaxFence = 2
SYMMETRY MCSymmetry
INVARIANTS
  TypeOK
  ResultsAreTheReference
  HonestJournalIsProcessed
  OnTimeNeedsNoHindsight
CHECK_DEADLOCK FALSE
