CONSTANTS
  s1 = s1
  s2 = s2
  Snapshots = {s1, s2}
  NoRun = NoRun
  NoRows = NoRows
  Requests = {1, 2}
  RowsOf <- MCRowsOf
  Complete = {s1, s2}
  Limit = 1
  KindOf <- MCKindOf
  OffsetOf <- MCOffsetOf
  PoolMax = 2
  MaxFaults = 1
  MaxLapses = 1
SPECIFICATION Spec
INVARIANTS
  TypeOK
  AnswersAreSound
  ConnectionsAreFreed
PROPERTIES
  RequestsEnd
CHECK_DEADLOCK FALSE
