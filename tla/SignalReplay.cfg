SPECIFICATION ReplaySpec
CONSTANTS
  Events <- MCEvents
  SessionOf <- MCSessionOf
  Lookback = 1
  Multiplier = 1
  Freshness = 1
  Greatest = 100
  None = None
  Process = {p1, p2}
  Recordings <- MCRecordings
  MaxStarts = 3
  MaxFaults = 2
SYMMETRY MCSymmetry
INVARIANTS
  ReplayTypeOK
  CompletedIsReference
PROPERTIES
  TargetsObeyTheirOwner
CHECK_DEADLOCK FALSE
