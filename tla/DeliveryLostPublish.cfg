SPECIFICATION Spec
CONSTANTS
  p1 = p1
  p2 = p2
  e1 = e1
  e2 = e2
  Session = {p1, p2}
  Event = {e1, e2}
  QueueCapacity = 2
  StreamLength = 3
  BatchSize = 2
  LostPublishes = TRUE
  MaxEntries = 3
  MaxFaults = 1
SYMMETRY Symmetry
INVARIANTS
  UnpersistedIsRecoverable
CHECK_DEADLOCK FALSE
