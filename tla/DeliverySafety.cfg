SPECIFICATION Spec
CONSTANTS
  p1 = p1
  p2 = p2
  e1 = e1
  e2 = e2
  Session = {p1, p2}
  Event = {e1, e2}
  QueueCapacity = 1
  StreamLength = 1
  BatchSize = 2
  LostPublishes = FALSE
  MaxEntries = 2
  MaxFaults = 1
SYMMETRY Symmetry
INVARIANTS
  TypeOK
  NothingIsLost
  OncePerEvent
PROPERTIES
  PendingGapIsExplicit
CHECK_DEADLOCK FALSE
