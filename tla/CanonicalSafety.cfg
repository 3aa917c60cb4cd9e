SPECIFICATION Spec
CONSTANTS
  w1 = w1
  w2 = w2
  aapl = aapl
  spy = spy
  Writer = {w1, w2}
  SeriesOrder <- TwoSeries
  Minute = {1, 2, 3, 4}
  Calendar <- OpenThenClosed
  Entries <- SmallFeed
  MaxScan = 2
  MaxCutovers = 2
  SignalWorker = SignalWorker
  Nobody = Nobody
  NoEvent = NoEvent
  NoChange = NoChange
  Undecided = Undecided
SYMMETRY Symmetry
INVARIANTS
  TypeOK
  TablesAgree
  JournalIsSound
