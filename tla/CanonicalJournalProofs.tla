------------------------ MODULE CanonicalJournalProofs ------------------------
(* Proofs about CanonicalJournal for any writers, series, minutes, calendar *)
(* and events: the canonical bar is the greatest event of the ledger, the   *)
(* gap rows agree with the bars, and the journal reproduces the bars and    *)
(* never refuses a change.  The argument is that of the code: a decision    *)
(* stays current from the lock of its series to the commit.                 *)
EXTENDS CanonicalJournal, TLAPS, WellFoundedInduction

-----------------------------------------------------------------------------
(* The inductive invariant.                                                 *)

(* q comes before r in its series: by start, then by precedence.            *)
Before(q, r) ==
  \/ q.event.start < r.event.start
  \/ q.event.start = r.event.start /\ Precedes(q.event, r.event)

IsLast(r, rows) == \A q \in rows : q = r \/ Before(q, r)

HasLast(rows) == rows = {} \/ \E r \in rows : IsLast(r, rows)

(* Nothing is stored twice, and the bars of a series, and the versions of   *)
(* each bar, have a last one.                                               *)
LedgerIsOrdered ==
  /\ \A p, q \in ledger : p.event.id = q.event.id => p = q
  /\ \A e \in Entries : HasLast(Versions(e))
  /\ \A s \in Series : HasLast(CoreRows(s))

(* Who is in a transaction holds the locks that its step needs.             *)
LocksAreHeld ==
  \A w \in Writer :
    /\ tx[w].pc = "idle" => tx[w] = Idle
    /\ tx[w].pc # "idle" => tx[w].entry \in Entries /\ lock[tx[w].entry.series] = w
    /\ tx[w].pc = "committing" /\ tx[w].decision.change # NoChange => lock["counter"] = w

(* What a transaction decided is what it would decide now.                  *)
DecisionsAreCurrent ==
  \A w \in Writer :
    /\ tx[w].pc \in {"changing", "committing"} =>
         /\ \A r \in ledger : r.event.id # tx[w].entry.id
         /\ \A e \in Entries : e = tx[w].entry => tx[w].decision = DecisionOf(e)
    /\ tx[w].pc = "changing" => tx[w].decision.change # NoChange
    /\ tx[w].journaled <=>
         tx[w].pc = "committing" /\ capturing /\ tx[w].decision.change # NoChange

(* A series with an open gap row is gapped at its last bar.                 *)
GappedStays ==
  \A b \in Bar :
    gaps[b] = "detected" =>
      CoreRows(b[1]) # {} /\ LastVersion(CoreRows(b[1])).gap = "gapped"

(* What was journaled is stored.                                            *)
JournalIsStored ==
  \A i \in 1..Len(journal) : \E r \in ledger : r.event = journal[i].new

StoredRight ==
  /\ LedgerIsOrdered /\ CanonicalIsGreatest /\ GapRowsAgree /\ GappedStays
  /\ JournalIsStored

IInv ==
  /\ TypeOK /\ StoredRight /\ LocksAreHeld /\ DecisionsAreCurrent
  /\ JournalReproducesBars /\ NeverRejected

-----------------------------------------------------------------------------
(* The order of precedence.                                                 *)

\* The fields of an entry, and those of a row.
LEMMA EntryFields ==
  ASSUME NEW e \in Entries
  PROVE  e.series \in Series /\ e.start \in Minute /\ e.start \in Nat
         /\ e.id \in Nat /\ e.received \in Nat /\ BarOf(e) \in Bar
BY EntriesAssumption DEF BarOf, Bar

LEMMA RowFields ==
  ASSUME NEW r \in Row
  PROVE  r.event \in Entries /\ r.class \in Classes /\ r.gap \in GapStates
BY DEF Row

\* Of two rows with different event ids one comes before the other.
LEMMA BeforeIsTotal ==
  ASSUME NEW p \in Row, NEW q \in Row, p.event.id # q.event.id
  PROVE  Before(p, q) \/ Before(q, p)
BY RowFields, EntryFields DEF Before, Precedes

\* No two rows come before each other.
LEMMA BeforeIsAsymmetric ==
  ASSUME NEW p \in Row, NEW q \in Row, Before(p, q)
  PROVE  ~Before(q, p)
BY RowFields, EntryFields DEF Before, Precedes

LEMMA BeforeIsTransitive ==
  ASSUME NEW p \in Row, NEW q \in Row, NEW r \in Row, Before(p, q), Before(q, r)
  PROVE  Before(p, r)
BY RowFields, EntryFields DEF Before, Precedes

\* LastVersion is the last row wherever there is one.
LEMMA LastVersionIsLast ==
  ASSUME NEW rows, rows # {}, HasLast(rows)
  PROVE  LastVersion(rows) \in rows /\ IsLast(LastVersion(rows), rows)
<1>1. PICK r \in rows : IsLast(r, rows)
  BY DEF HasLast
<1> QED
  BY <1>1 DEF LastVersion, IsLast, Before

\* There is only one last row.
LEMMA LastIsUnique ==
  ASSUME NEW rows \in SUBSET Row, NEW r \in rows, NEW q \in rows,
         IsLast(r, rows), IsLast(q, rows)
  PROVE  r = q
BY BeforeIsAsymmetric DEF IsLast

LEMMA LastVersionIsThat ==
  ASSUME NEW rows \in SUBSET Row, NEW r \in rows, IsLast(r, rows)
  PROVE  LastVersion(rows) = r
BY LastVersionIsLast, LastIsUnique DEF HasLast

\* A new row keeps a last one: itself, or the one there was.
LEMMA LastAfterAdding ==
  ASSUME NEW rows \in SUBSET Row, HasLast(rows), NEW x \in Row,
         \A q \in rows : q.event.id # x.event.id
  PROVE  HasLast(rows \cup {x})
<1>1. CASE rows = {}
  BY <1>1 DEF HasLast, IsLast
<1>2. CASE rows # {}
  <2>1. PICK r \in rows : IsLast(r, rows)
    BY <1>2 DEF HasLast
  <2>2. CASE Before(x, r)
    BY <2>1, <2>2 DEF HasLast, IsLast
  <2>3. CASE Before(r, x)
    <3>1. \A q \in rows : Before(q, x)
      BY <2>1, <2>3, BeforeIsTransitive DEF IsLast
    <3> QED
      BY <3>1 DEF HasLast, IsLast
  <2> QED
    BY <2>2, <2>3, BeforeIsTotal
<1> QED
  BY <1>1, <1>2

-----------------------------------------------------------------------------
(* What a transaction decides.                                              *)

\* The rows that a decision reads are rows of the ledger with a last one.
LEMMA RowsRead ==
  ASSUME TypeOK, LedgerIsOrdered, NEW e \in Entries
  PROVE  /\ Versions(e) \in SUBSET Row /\ CoreRows(e.series) \in SUBSET Row
         /\ Versions(e) # {} =>
              /\ LastVersion(Versions(e)) \in Versions(e)
              /\ IsLast(LastVersion(Versions(e)), Versions(e))
              /\ LastVersion(Versions(e)) \in Row
         /\ CoreRows(e.series) # {} =>
              /\ LastVersion(CoreRows(e.series)) \in CoreRows(e.series)
              /\ IsLast(LastVersion(CoreRows(e.series)), CoreRows(e.series))
              /\ LastVersion(CoreRows(e.series)) \in Row
<1>1. Versions(e) \in SUBSET Row /\ CoreRows(e.series) \in SUBSET Row
  BY DEF TypeOK, Versions, CoreRows
<1>2. HasLast(Versions(e)) /\ HasLast(CoreRows(e.series))
  BY EntryFields DEF LedgerIsOrdered
<1> QED
  BY <1>1, <1>2, LastVersionIsLast

\* assessIntervalGap reports missing minutes only of a gapped interval.
LEMMA IntervalGapAnswers ==
  ASSUME NEW from \in Nat, NEW to \in Nat
  PROVE  LET gap == IntervalGap(from, to)
         IN /\ gap.state \in GapStates /\ gap.missing \in SUBSET Minute
            /\ gap.missing # {} => gap.state = "gapped"
            /\ \A m \in gap.missing : from < m /\ m < to
<1> DEFINE missing == MissingBetween(from, to)
           gap == IntervalGap(from, to)
<1>1. missing \in SUBSET Minute /\ \A m \in missing : from < m /\ m < to
  BY DEF MissingBetween
<1>2. \/ gap = Assessment("unknown", {})
      \/ gap = Assessment(IF missing = {} THEN "complete" ELSE "gapped", missing)
  BY DEF IntervalGap
<1> HIDE DEF missing, gap
<1> QED
  BY <1>1, <1>2 DEF Assessment, GapStates, gap

\* The four answers of classifyOrdering.
LEMMA OrderingCases ==
  ASSUME NEW e \in Entries
  PROVE  LET o == Ordering(e)
             core == CoreRows(e.series)
             latest == LastVersion(core)
         IN \/ /\ Versions(e) # {}
               /\ o = Classified("correction", Assessment(LastVersion(Versions(e)).gap, {}))
            \/ /\ Versions(e) = {} /\ core = {}
               /\ o = Classified("accepted", Assessment("unknown", {}))
            \/ /\ Versions(e) = {} /\ core # {} /\ e.start < latest.event.start
               /\ o = Classified("out_of_order", Assessment(latest.gap, {}))
            \/ /\ Versions(e) = {} /\ core # {} /\ ~(e.start < latest.event.start) /\ Core(e)
               /\ o = Classified("accepted", GapAfter(latest, e))
            \/ /\ Versions(e) = {} /\ core # {} /\ ~(e.start < latest.event.start) /\ ~Core(e)
               /\ o = Classified("accepted", Assessment("unknown", {}))
BY DEF Ordering

\* Its types, and that only a bar that arrives as the last of a series that is
\* not gapped yet has missing minutes before it.
LEMMA OrderingType ==
  ASSUME TypeOK, LedgerIsOrdered, NEW e \in Entries
  PROVE  LET o == Ordering(e)
         IN /\ o.class \in Classes /\ o.gap.state \in GapStates /\ o.gap.missing \in SUBSET Minute
            /\ o.gap.missing # {} =>
                 /\ o.class = "accepted" /\ o.gap.state = "gapped" /\ Core(e)
                 /\ Versions(e) = {} /\ CoreRows(e.series) # {}
                 /\ \A m \in o.gap.missing :
                      LastVersion(CoreRows(e.series)).event.start < m /\ m < e.start
<1> DEFINE o == Ordering(e)
           latest == LastVersion(CoreRows(e.series))
<1>1. CASE Versions(e) # {}
  <2>1. o = Classified("correction", Assessment(LastVersion(Versions(e)).gap, {}))
    BY <1>1, OrderingCases
  <2>2. LastVersion(Versions(e)).gap \in GapStates
    BY <1>1, RowsRead, RowFields
  <2> QED
    BY <2>1, <2>2 DEF Classified, Assessment, Classes
<1>2. CASE Versions(e) = {} /\ CoreRows(e.series) # {}
  <2>1. latest \in Row /\ latest.gap \in GapStates /\ latest.event.start \in Nat /\ e.start \in Nat
    BY <1>2, RowsRead, RowFields, EntryFields
  <2> DEFINE gap == GapAfter(latest, e)
  <2>2. /\ gap.state \in GapStates /\ gap.missing \in SUBSET Minute
        /\ gap.missing # {} => gap.state = "gapped"
        /\ \A m \in gap.missing : latest.event.start < m /\ m < e.start
    <3>1. CASE latest.gap = "gapped"
      BY <3>1 DEF GapAfter, Assessment, GapStates
    <3>2. CASE latest.gap # "gapped"
      <4>1. gap = IntervalGap(latest.event.start, e.start)
        BY <3>2 DEF GapAfter
      <4> QED
        BY <4>1, <2>1, IntervalGapAnswers
    <3> QED
      BY <3>1, <3>2
  <2>3. \/ o = Classified("out_of_order", Assessment(latest.gap, {}))
        \/ Core(e) /\ o = Classified("accepted", gap)
        \/ o = Classified("accepted", Assessment("unknown", {}))
    BY <1>2, OrderingCases
  <2> HIDE DEF gap, latest, o
  <2>4. CASE o = Classified("out_of_order", Assessment(latest.gap, {}))
    BY <2>1, <2>4 DEF Classified, Assessment, Classes, o, latest
  <2>5. CASE Core(e) /\ o = Classified("accepted", gap)
    <3>1. o.class = "accepted" /\ o.gap = gap
      BY <2>5 DEF Classified
    <3> QED
      BY <3>1, <1>2, <2>2, <2>5 DEF Classes, o, latest
  <2>6. CASE o = Classified("accepted", Assessment("unknown", {}))
    BY <2>6 DEF Classified, Assessment, Classes, GapStates, o
  <2> QED
    BY <2>3, <2>4, <2>5, <2>6
<1>3. CASE Versions(e) = {} /\ CoreRows(e.series) = {}
  <2>1. o = Classified("accepted", Assessment("unknown", {}))
    BY <1>3, OrderingCases
  <2> QED
    BY <2>1 DEF Classified, Assessment, Classes, GapStates
<1> QED
  BY <1>1, <1>2, <1>3

\* A change is made exactly when the event is core and wins, and it says what
\* it replaces and why.
LEMMA ChangeMade ==
  ASSUME TypeOK, LedgerIsOrdered, NEW e \in Entries
  PROVE  LET r == ChangeOf(e, Ordering(e))
             current == bars[BarOf(e)]
             wins == Core(e) /\ (current = NoEvent \/ Precedes(current, e))
         IN /\ r # NoChange <=> wins
            /\ wins =>
                 /\ r \in Revision /\ r.new = e /\ r.previous = current
                 /\ r.operation = IF current = NoEvent THEN "insert" ELSE "replace"
                 /\ r.class = Ordering(e).class /\ r.gap = Ordering(e).gap.state
                 /\ r.historical = Historical(e)
                 /\ r.filled = (current = NoEvent /\ gaps[BarOf(e)] = "detected")
<1> DEFINE o == Ordering(e)
           current == bars[BarOf(e)]
           wins == Core(e) /\ (current = NoEvent \/ Precedes(current, e))
           r == ChangeOf(e, o)
           filled == current = NoEvent /\ gaps[BarOf(e)] = "detected"
           operation == IF current = NoEvent THEN "insert" ELSE "replace"
           change == [operation |-> operation, previous |-> current, new |-> e,
                      class |-> o.class, historical |-> Historical(e),
                      gap |-> o.gap.state, filled |-> filled]
<1>1. o.class \in Classes /\ o.gap.state \in GapStates
  BY OrderingType
<1>2. current \in Entries \cup {NoEvent}
  BY EntryFields DEF TypeOK
<1>3. Historical(e) \in BOOLEAN /\ filled \in BOOLEAN
  BY DEF Historical
<1>4. operation \in {"insert", "replace"} /\ (operation = "insert" <=> current = NoEvent)
  OBVIOUS
<1>5. r = IF wins THEN change ELSE NoChange
  BY DEF ChangeOf, Wins, Previous
<1> HIDE DEF o, current, wins, r, filled, operation
<1>6. change \in Revision
  BY <1>1, <1>2, <1>3, <1>4 DEF Revision
<1>7. (r = change /\ wins) \/ (r = NoChange /\ ~wins)
  BY <1>5
<1>8. r # NoChange <=> wins
  BY <1>6, <1>7, ChangeAssumption
<1>9. wins => r = change
  BY <1>7
<1> HIDE DEF change
<1>10. wins => r \in Revision
  BY <1>6, <1>9
<1>11. /\ change.new = e /\ change.previous = current /\ change.operation = operation
       /\ change.class = o.class /\ change.gap = o.gap.state
       /\ change.historical = Historical(e) /\ change.filled = filled
  BY DEF change
<1>12. wins => /\ r.new = e /\ r.previous = current /\ r.operation = operation
               /\ r.class = o.class /\ r.gap = o.gap.state
               /\ r.historical = Historical(e) /\ r.filled = filled
  BY <1>9, <1>11
<1> QED
  BY <1>8, <1>10, <1>12 DEF r, o, wins, current, operation, filled

\* A decision is one, and is about its event.
LEMMA DecisionType ==
  ASSUME TypeOK, LedgerIsOrdered, NEW e \in Entries
  PROVE  LET d == DecisionOf(e)
             o == Ordering(e)
         IN /\ d \in Decision
            /\ d.row = [event |-> e, class |-> o.class, gap |-> o.gap.state] /\ d.row \in Row
            /\ d.change = ChangeOf(e, o)
            /\ d.missing = IF d.change = NoChange THEN {} ELSE o.gap.missing
<1> DEFINE o == Ordering(e)
           r == ChangeOf(e, o)
           row == [event |-> e, class |-> o.class, gap |-> o.gap.state]
           missing == IF r = NoChange THEN {} ELSE o.gap.missing
<1>1. row \in Row /\ missing \in SUBSET Minute
  BY OrderingType DEF Row
<1>2. r \in Revision \cup {NoChange}
  BY ChangeMade
<1>3. DecisionOf(e) = [row |-> row, missing |-> missing, change |-> r]
  BY DEF DecisionOf
<1> HIDE DEF o, r, row, missing
<1>4. DecisionOf(e) \in Decision
  BY <1>1, <1>2, <1>3 DEF Decision
<1>5. /\ DecisionOf(e).row = row /\ DecisionOf(e).missing = missing /\ DecisionOf(e).change = r
  BY <1>3
<1> QED
  BY <1>1, <1>4, <1>5 DEF o, r, row, missing

-----------------------------------------------------------------------------
(* Bars and rows.                                                           *)

\* A bar is the event of a row, and a core row is outdone by its bar.
LEMMA BarsAndRows ==
  ASSUME TypeOK, CanonicalIsGreatest
  PROVE  /\ \A b \in Bar :
              bars[b] # NoEvent =>
                \E r \in CoreRows(b[1]) :
                  r.event = bars[b] /\ BarOf(r.event) = b /\ r.event.start = b[2]
         /\ \A s \in Series : \A r \in CoreRows(s) :
              /\ r \in Row /\ BarOf(r.event) \in Bar /\ bars[BarOf(r.event)] \in Entries
              /\ BarOf(r.event) = <<s, r.event.start>>
              /\ r.event = bars[BarOf(r.event)] \/ Precedes(r.event, bars[BarOf(r.event)])
<1> DEFINE versions(b) == {r.event : r \in {q \in ledger : BarOf(q.event) = b /\ Core(q.event)}}
<1>1. \A r \in ledger : r \in Row /\ r.event \in Entries /\ BarOf(r.event) \in Bar
  BY RowFields, EntryFields DEF TypeOK
<1>2. ASSUME NEW b \in Bar, bars[b] # NoEvent
      PROVE  \E r \in CoreRows(b[1]) :
               r.event = bars[b] /\ BarOf(r.event) = b /\ r.event.start = b[2]
  <2>1. bars[b] \in versions(b)
    BY <1>2 DEF CanonicalIsGreatest
  <2>2. PICK r \in ledger : r.event = bars[b] /\ BarOf(r.event) = b /\ Core(r.event)
    BY <2>1
  <2>3. r.event.series = b[1] /\ r.event.start = b[2]
    BY <2>2 DEF BarOf
  <2> QED
    BY <2>2, <2>3 DEF CoreRows
<1>3. ASSUME NEW s \in Series, NEW r \in CoreRows(s)
      PROVE  /\ r \in Row /\ BarOf(r.event) \in Bar /\ bars[BarOf(r.event)] \in Entries
             /\ BarOf(r.event) = <<s, r.event.start>>
             /\ r.event = bars[BarOf(r.event)] \/ Precedes(r.event, bars[BarOf(r.event)])
  <2> DEFINE b == BarOf(r.event)
  <2>1. r \in ledger /\ Core(r.event) /\ r.event.series = s
    BY DEF CoreRows
  <2>2. b \in Bar /\ r \in Row
    BY <1>1, <2>1
  <2>3. r.event \in versions(b)
    BY <2>1
  <2>4. bars[b] \in versions(b) /\ (r.event = bars[b] \/ Precedes(r.event, bars[b]))
    BY <2>2, <2>3 DEF CanonicalIsGreatest
  <2>5. bars[b] \in Entries
    BY <2>4, <1>1
  <2>6. b = <<s, r.event.start>>
    BY <2>1 DEF BarOf
  <2> QED
    BY <2>2, <2>4, <2>5, <2>6
<1> QED
  BY <1>2, <1>3

\* A core event has earlier versions exactly when its bar exists.
LEMMA VersionsOfCore ==
  ASSUME TypeOK, CanonicalIsGreatest, NEW e \in Entries, Core(e)
  PROVE  /\ Versions(e) = {} <=> bars[BarOf(e)] = NoEvent
         /\ Versions(e) \in SUBSET CoreRows(e.series)
         /\ \A r \in CoreRows(e.series) : r.event.start = e.start => r \in Versions(e)
<1>1. Versions(e) \in SUBSET CoreRows(e.series)
  BY DEF Versions, CoreRows, BarOf, Core
<1>2. \A r \in CoreRows(e.series) : r.event.start = e.start => r \in Versions(e)
  BY DEF Versions, CoreRows, BarOf
<1>3. BarOf(e) \in Bar /\ BarOf(e)[1] = e.series /\ e.series \in Series
  BY EntryFields DEF BarOf
<1>4. ASSUME bars[BarOf(e)] # NoEvent PROVE Versions(e) # {}
  <2>1. PICK r \in CoreRows(e.series) : BarOf(r.event) = BarOf(e)
    BY <1>3, <1>4, BarsAndRows
  <2> QED
    BY <2>1 DEF Versions, CoreRows
<1>5. ASSUME NEW r \in Versions(e) PROVE bars[BarOf(e)] # NoEvent
  <2>1. r \in CoreRows(e.series) /\ BarOf(r.event) = BarOf(e)
    BY <1>1, <1>5 DEF Versions
  <2> QED
    BY <2>1, <1>3, BarsAndRows, EntriesAssumption
<1> QED
  BY <1>1, <1>2, <1>4, <1>5

\* No bar of a series is later than its last core row, whose bar exists.
LEMMA LastRowIsLastBar ==
  ASSUME TypeOK, LedgerIsOrdered, CanonicalIsGreatest,
         NEW s \in Series, CoreRows(s) # {}
  PROVE  LET latest == LastVersion(CoreRows(s))
         IN /\ latest \in CoreRows(s) /\ IsLast(latest, CoreRows(s)) /\ latest \in Row
            /\ latest.event \in Entries /\ latest.event.start \in Minute
            /\ bars[<<s, latest.event.start>>] # NoEvent
            /\ \A m \in Minute : bars[<<s, m>>] # NoEvent => m <= latest.event.start
<1> DEFINE latest == LastVersion(CoreRows(s))
<1>1. latest \in CoreRows(s) /\ IsLast(latest, CoreRows(s))
  BY LastVersionIsLast DEF LedgerIsOrdered
<1>2. latest \in Row /\ latest.event \in Entries
  BY <1>1, BarsAndRows, RowFields
<1>3. latest.event.start \in Minute /\ latest.event.start \in Nat
  BY <1>2, EntryFields
<1>4. bars[<<s, latest.event.start>>] # NoEvent
  BY <1>1, BarsAndRows, EntriesAssumption
<1>5. ASSUME NEW m \in Minute, bars[<<s, m>>] # NoEvent
      PROVE  m <= latest.event.start
  <2>1. <<s, m>> \in Bar /\ m \in Nat
    BY EntriesAssumption DEF Bar
  <2>2. PICK r \in CoreRows(s) : r.event.start = m
    BY <2>1, <1>5, BarsAndRows
  <2>3. r = latest \/ Before(r, latest)
    BY <1>1, <2>2 DEF IsLast
  <2> QED
    BY <2>1, <2>2, <2>3, <1>3 DEF Before
<1> QED
  BY <1>1, <1>2, <1>3, <1>4, <1>5

\* What a core event without a bar is classified as: the bars of its series
\* decide whether it is late, and an open gap row whether the series is gapped.
LEMMA FirstVersion ==
  ASSUME TypeOK, StoredRight, NEW e \in Entries, Core(e), bars[BarOf(e)] = NoEvent
  PROVE  LET o == Ordering(e)
         IN /\ o.class \in {"accepted", "out_of_order"}
            /\ o.class = "out_of_order" => Historical(e)
            /\ gaps[BarOf(e)] = "detected" => o.class = "out_of_order" /\ o.gap.state = "gapped"
<1> DEFINE o == Ordering(e)
           s == e.series
           latest == LastVersion(CoreRows(s))
<1>1. Versions(e) = {}
  BY VersionsOfCore DEF StoredRight
<1>2. s \in Series /\ BarOf(e) \in Bar /\ BarOf(e)[1] = s /\ BarOf(e)[2] = e.start /\ e.start \in Nat
      /\ BarOf(e) = <<s, e.start>>
  BY EntryFields DEF BarOf
<1>3. CASE CoreRows(s) = {}
  <2>1. o = Classified("accepted", Assessment("unknown", {}))
    BY <1>1, <1>3, OrderingCases
  <2>2. gaps[BarOf(e)] # "detected"
    BY <1>2, <1>3 DEF StoredRight, GappedStays
  <2> QED
    BY <2>1, <2>2 DEF Classified, Assessment
<1>4. CASE CoreRows(s) # {}
  <2>1. /\ latest.event.start \in Minute /\ bars[<<s, latest.event.start>>] # NoEvent
        /\ \A m \in Minute : bars[<<s, m>>] # NoEvent => m <= latest.event.start
    BY <1>2, <1>4, LastRowIsLastBar DEF StoredRight
  <2>2. latest.event.start \in Nat
    BY <2>1, EntriesAssumption
  <2>3. CASE e.start < latest.event.start
    <3>1. o = Classified("out_of_order", Assessment(latest.gap, {}))
      BY <1>1, <1>4, <2>3, OrderingCases
    <3>2. o.class = "out_of_order" /\ o.gap.state = latest.gap
      BY <3>1 DEF Classified, Assessment
    <3>3. Historical(e)
      BY <2>1, <2>2, <2>3, <1>2 DEF Historical
    <3>4. gaps[BarOf(e)] = "detected" => latest.gap = "gapped"
      BY <1>2 DEF StoredRight, GappedStays
    <3> QED
      BY <3>2, <3>3, <3>4
  <2>4. CASE ~(e.start < latest.event.start)
    <3>1. o.class = "accepted"
      BY <1>1, <1>4, <2>4, OrderingCases DEF Classified
    <3>2. ASSUME gaps[BarOf(e)] = "detected" PROVE FALSE
      <4>1. PICK n \in Minute : e.start < n /\ bars[<<s, n>>] # NoEvent
        BY <1>2, <3>2 DEF StoredRight, GapRowsAgree
      <4>2. n <= latest.event.start /\ n \in Nat
        BY <4>1, <2>1, EntriesAssumption
      <4> QED
        BY <4>1, <4>2, <2>2, <2>4, <1>2
    <3> QED
      BY <3>1, <3>2
  <2> QED
    BY <2>3, <2>4
<1> QED
  BY <1>3, <1>4

\* A change of an event that is not stored passes its validation.
LEMMA ChangeIsAcceptable ==
  ASSUME TypeOK, StoredRight, NEW e \in Entries,
         \A r \in ledger : r.event.id # e.id,
         DecisionOf(e).change # NoChange
  PROVE  Acceptable(DecisionOf(e).change)
<1> DEFINE r == DecisionOf(e).change
           current == bars[BarOf(e)]
           o == Ordering(e)
<1> SUFFICES Acceptable(r)
  OBVIOUS
<1>0. r = ChangeOf(e, o) /\ r # NoChange
  BY DecisionType DEF StoredRight
<1>1. /\ Core(e)
      /\ r \in Revision /\ r.new = e /\ r.previous = current
      /\ r.operation = IF current = NoEvent THEN "insert" ELSE "replace"
      /\ r.class = o.class /\ r.gap = o.gap.state /\ r.historical = Historical(e)
      /\ r.filled = (current = NoEvent /\ gaps[BarOf(e)] = "detected")
  <2> DEFINE wins == Core(e) /\ (current = NoEvent \/ Precedes(current, e))
  <2>1. wins
    BY <1>0, ChangeMade DEF StoredRight
  <2>2. wins =>
                 /\ r \in Revision /\ r.new = e /\ r.previous = current
                 /\ r.operation = IF current = NoEvent THEN "insert" ELSE "replace"
                 /\ r.class = o.class /\ r.gap = o.gap.state
                 /\ r.historical = Historical(e)
                 /\ r.filled = (current = NoEvent /\ gaps[BarOf(e)] = "detected")
    <3> HIDE DEF r
    <3> QED
      BY <1>0, ChangeMade DEF StoredRight
  <2> QED
    BY <2>1, <2>2
<1>2. r \notin Range(journal)
  <2>1. SUFFICES ASSUME NEW i \in DOMAIN journal, journal[i] = r PROVE FALSE
    BY DEF Range
  <2>2. i \in 1..Len(journal)
    BY DEF TypeOK
  <2>3. PICK q \in ledger : q.event = journal[i].new
    BY <2>2 DEF StoredRight, JournalIsStored
  <2> QED
    BY <2>1, <2>3, <1>1
<1>3. CASE current = NoEvent
  BY <1>1, <1>2, <1>3, FirstVersion DEF Acceptable
<1>4. CASE current # NoEvent
  <2>1. Versions(e) # {}
    BY <1>1, <1>4, VersionsOfCore DEF StoredRight
  <2>2. o.class = "correction"
    BY <2>1, OrderingCases DEF Classified
  <2>3. current # e
    <3>1. BarOf(e) \in Bar
      BY EntryFields
    <3>2. PICK q \in CoreRows(BarOf(e)[1]) : q.event = current
      BY <3>1, <1>4, BarsAndRows DEF StoredRight
    <3> QED
      BY <3>2 DEF CoreRows
  <2> HIDE DEF r, current, o
  <2> QED
    BY <1>1, <1>2, <1>4, <2>2, <2>3 DEF Acceptable
<1> QED
  BY <1>3, <1>4

\* A decision depends on its own series only.
LEMMA DecisionIsLocal ==
  ASSUME NEW e \in Entries,
         Versions(e)' = Versions(e), CoreRows(e.series)' = CoreRows(e.series),
         \A m \in Minute : bars'[<<e.series, m>>] = bars[<<e.series, m>>],
         gaps'[BarOf(e)] = gaps[BarOf(e)]
  PROVE  DecisionOf(e)' = DecisionOf(e)
<1>1. Ordering(e)' = Ordering(e)
  BY DEF Ordering
<1>2. bars'[BarOf(e)] = bars[BarOf(e)]
  BY EntryFields DEF BarOf
<1>3. Historical(e)' = Historical(e)
  BY DEF Historical
<1> QED
  BY <1>1, <1>2, <1>3 DEF DecisionOf, ChangeOf, Previous, Wins

-----------------------------------------------------------------------------
(* What a commit stores.                                                    *)

(* The tables take the decision about an event they do not have.            *)
Stores(e) ==
  /\ \A r \in ledger : r.event.id # e.id
  /\ ledger' = WithEvent(DecisionOf(e))
  /\ \/ DecisionOf(e).change = NoChange /\ UNCHANGED <<bars, gaps>>
     \/ /\ DecisionOf(e).change # NoChange
        /\ bars' = WithBar(e)
        /\ gaps' = GapRows(e.series, DecisionOf(e))

\* A commit does that, and journals the change while a run captures.
LEMMA CommitStores ==
  ASSUME IInv, NEW w \in Writer, Commit(w)
  PROVE  \E e \in Entries :
           /\ e = tx[w].entry /\ lock[e.series] = w /\ Stores(e)
           /\ DecisionOf(e).change # NoChange => lock["counter"] = w
           /\ journal' = IF capturing /\ DecisionOf(e).change # NoChange
                         THEN Append(journal, DecisionOf(e).change) ELSE journal
           /\ tx' = [tx EXCEPT ![w] = Idle] /\ lock' = Released(w)
           /\ UNCHANGED <<capturing, cutovers, base, rejected>>
<1> DEFINE e == tx[w].entry
<1>1. tx[w].pc = "committing"
  BY DEF Commit
<1>2. e \in Entries /\ lock[e.series] = w
  BY <1>1 DEF IInv, LocksAreHeld
<1>3. /\ \A r \in ledger : r.event.id # e.id
      /\ tx[w].decision = DecisionOf(e)
      /\ tx[w].journaled <=> capturing /\ tx[w].decision.change # NoChange
  BY <1>1, <1>2 DEF IInv, DecisionsAreCurrent
<1>4. tx[w].decision.change # NoChange => lock["counter"] = w
  BY <1>1 DEF IInv, LocksAreHeld
<1>5. Stores(e)
  BY <1>3 DEF Commit, Stores
<1>6. journal' = WithRevision(w) /\ tx' = [tx EXCEPT ![w] = Idle] /\ lock' = Released(w)
      /\ UNCHANGED <<capturing, cutovers, base, rejected>>
  BY DEF Commit
<1>7. journal' = IF capturing /\ DecisionOf(e).change # NoChange
                 THEN Append(journal, DecisionOf(e).change) ELSE journal
  BY <1>3, <1>6 DEF WithRevision
<1> QED
  BY <1>2, <1>3, <1>4, <1>5, <1>6, <1>7

\* The rows of its bar and of its series gain the row of the event.
LEMMA StoresRows ==
  ASSUME TypeOK, LedgerIsOrdered, NEW e \in Entries, Stores(e)
  PROVE  LET x == DecisionOf(e).row
         IN /\ x \in Row /\ x.event = e /\ x.gap = Ordering(e).gap.state
            /\ ledger' = ledger \cup {x}
            /\ \A f \in Entries :
                 Versions(f)' = IF BarOf(f) = BarOf(e) THEN Versions(f) \cup {x} ELSE Versions(f)
            /\ \A s \in Series :
                 CoreRows(s)' = IF s = e.series /\ Core(e) THEN CoreRows(s) \cup {x}
                                ELSE CoreRows(s)
<1> DEFINE x == DecisionOf(e).row
<1>0. /\ x = [event |-> e, class |-> Ordering(e).class, gap |-> Ordering(e).gap.state]
      /\ x \in Row
  BY DecisionType
<1>1. x \in Row /\ x.event = e /\ x.gap = Ordering(e).gap.state
  BY <1>0
<1>2. ledger' = ledger \cup {x}
  BY DEF Stores, WithEvent
<1> HIDE DEF x
<1>3. ASSUME NEW f \in Entries
      PROVE  Versions(f)' = IF BarOf(f) = BarOf(e) THEN Versions(f) \cup {x} ELSE Versions(f)
  BY <1>1, <1>2 DEF Versions
<1>4. ASSUME NEW s \in Series
      PROVE  CoreRows(s)' = IF s = e.series /\ Core(e) THEN CoreRows(s) \cup {x} ELSE CoreRows(s)
  BY <1>1, <1>2 DEF CoreRows
<1> QED
  BY <1>1, <1>2, <1>3, <1>4 DEF x

\* The bar of the event becomes the event if that wins, no other bar changes.
LEMMA StoresBars ==
  ASSUME TypeOK, LedgerIsOrdered, NEW e \in Entries, Stores(e)
  PROVE  LET wins == Core(e) /\ (bars[BarOf(e)] = NoEvent \/ Precedes(bars[BarOf(e)], e))
         IN /\ bars' \in [Bar -> Entries \cup {NoEvent}]
            /\ bars'[BarOf(e)] = IF wins THEN e ELSE bars[BarOf(e)]
            /\ \A b \in Bar : b # BarOf(e) => bars'[b] = bars[b]
            /\ DecisionOf(e).change # NoChange <=> wins
<1> DEFINE wins == Core(e) /\ (bars[BarOf(e)] = NoEvent \/ Precedes(bars[BarOf(e)], e))
<1>1. DecisionOf(e).change # NoChange <=> wins
  BY DecisionType, ChangeMade
<1>2. BarOf(e) \in Bar /\ bars \in [Bar -> Entries \cup {NoEvent}]
  BY EntryFields DEF TypeOK
<1>3. bars' = IF wins THEN [bars EXCEPT ![BarOf(e)] = e] ELSE bars
  BY <1>1 DEF Stores, WithBar
<1> HIDE DEF wins
<1> QED
  BY <1>1, <1>2, <1>3 DEF wins

LEMMA StoresOrdered ==
  ASSUME TypeOK, LedgerIsOrdered, NEW e \in Entries, Stores(e)
  PROVE  LedgerIsOrdered'
<1> DEFINE x == DecisionOf(e).row
<1>1. x \in Row /\ x.event = e /\ ledger' = ledger \cup {x} /\ ledger \in SUBSET Row
  BY StoresRows DEF TypeOK
<1>2. \A r \in ledger : r.event.id # x.event.id
  BY <1>1 DEF Stores
<1>3. \A p, q \in ledger' : p.event.id = q.event.id => p = q
  BY <1>1, <1>2 DEF LedgerIsOrdered
<1>4. ASSUME NEW f \in Entries PROVE HasLast(Versions(f)')
  <2>1. Versions(f) \in SUBSET Row /\ HasLast(Versions(f)) /\ Versions(f) \in SUBSET ledger
    BY <1>1 DEF LedgerIsOrdered, Versions
  <2>2. HasLast(Versions(f) \cup {x})
    BY <2>1, <1>1, <1>2, LastAfterAdding
  <2> QED
    BY <2>1, <2>2, StoresRows
<1>5. ASSUME NEW s \in Series PROVE HasLast(CoreRows(s)')
  <2>1. CoreRows(s) \in SUBSET Row /\ HasLast(CoreRows(s)) /\ CoreRows(s) \in SUBSET ledger
    BY <1>1 DEF LedgerIsOrdered, CoreRows
  <2>2. HasLast(CoreRows(s) \cup {x})
    BY <2>1, <1>1, <1>2, LastAfterAdding
  <2> QED
    BY <2>1, <2>2, StoresRows
<1>6. /\ \A f \in Entries : HasLast(Versions(f))'
      /\ \A s \in Series : HasLast(CoreRows(s))'
  BY <1>4, <1>5
<1> QED
  BY <1>3, <1>6 DEF LedgerIsOrdered

\* Precedence between the events of two rows.
LEMMA PrecedesIsOrder ==
  /\ \A x, y \in Entries : x.id # y.id => Precedes(x, y) \/ Precedes(y, x)
  /\ \A x, y, z \in Entries : Precedes(x, y) /\ Precedes(y, z) => Precedes(x, z)
<1>1. \A x \in Entries : x.id \in Nat /\ x.received \in Nat
  BY EntryFields
<1> QED
  BY <1>1 DEF Precedes

LEMMA StoresGreatest ==
  ASSUME TypeOK, LedgerIsOrdered, CanonicalIsGreatest, NEW e \in Entries, Stores(e)
  PROVE  CanonicalIsGreatest'
<1> DEFINE x == DecisionOf(e).row
           versions(b) == {r.event : r \in {q \in ledger : BarOf(q.event) = b /\ Core(q.event)}}
           after(b) == {r.event : r \in {q \in ledger' : BarOf(q.event) = b /\ Core(q.event)}}
           wins == Core(e) /\ (bars[BarOf(e)] = NoEvent \/ Precedes(bars[BarOf(e)], e))
           right(b) == IF after(b) = {} THEN bars'[b] = NoEvent
                       ELSE bars'[b] \in after(b)
                            /\ \A y \in after(b) : y = bars'[b] \/ Precedes(y, bars'[b])
<1>1. x.event = e /\ ledger' = ledger \cup {x}
  BY StoresRows
<1>2. \A r \in ledger : r.event \in Entries /\ r.event.id # e.id
  BY RowFields DEF TypeOK, Stores
<1> HIDE DEF x
<1>3. SUFFICES ASSUME NEW b \in Bar PROVE right(b)
  BY DEF CanonicalIsGreatest
<1>4. IF versions(b) = {} THEN bars[b] = NoEvent
      ELSE bars[b] \in versions(b) /\ \A y \in versions(b) : y = bars[b] \/ Precedes(y, bars[b])
  BY DEF CanonicalIsGreatest
<1>5. after(b) = IF b = BarOf(e) /\ Core(e) THEN versions(b) \cup {e} ELSE versions(b)
  BY <1>1
<1>6. \A y \in versions(b) : y \in Entries /\ y.id # e.id
  BY <1>2
<1>7. NoEvent \notin Entries
  BY EntriesAssumption
<1> HIDE DEF versions, after
<1>8. CASE ~(b = BarOf(e) /\ Core(e))
  <2>1. bars'[b] = bars[b]
    BY <1>8, StoresBars
  <2> QED
    BY <2>1, <1>4, <1>5, <1>8
<1>9. CASE b = BarOf(e) /\ Core(e)
  <2>1. bars'[b] = IF bars[b] = NoEvent \/ Precedes(bars[b], e) THEN e ELSE bars[b]
    BY <1>9, StoresBars
  <2>2. after(b) = versions(b) \cup {e}
    BY <1>5, <1>9
  <2>3. CASE versions(b) = {}
    BY <2>1, <2>2, <2>3, <1>4
  <2>4. CASE versions(b) # {} /\ Precedes(bars[b], e)
    <3>1. \A y \in versions(b) : Precedes(y, e)
      BY <2>4, <1>4, <1>6, PrecedesIsOrder
    <3> QED
      BY <3>1, <2>1, <2>2, <2>4
  <2>5. CASE versions(b) # {} /\ ~Precedes(bars[b], e)
    <3>1. bars[b] \in versions(b) /\ bars[b] # NoEvent
      BY <2>5, <1>4, <1>6, <1>7
    <3>2. Precedes(e, bars[b])
      BY <3>1, <2>5, <1>6, PrecedesIsOrder
    <3> QED
      BY <3>1, <3>2, <2>1, <2>2, <2>5, <1>4
  <2> QED
    BY <2>3, <2>4, <2>5
<1> QED
  BY <1>8, <1>9

\* What a change does to the gap rows: it closes the one of its minute and
\* opens those of the minutes it finds missing before it.
LEMMA StoresGapRows ==
  ASSUME TypeOK, LedgerIsOrdered, NEW e \in Entries, Stores(e)
  PROVE  LET change == DecisionOf(e).change # NoChange
             missing == Ordering(e).gap.missing
         IN /\ gaps' \in [Bar -> {"none", "detected", "observed_later"}]
            /\ \A b \in Bar :
                 gaps'[b] =
                   IF change /\ b = BarOf(e) /\ gaps[b] = "detected" THEN "observed_later"
                   ELSE IF change /\ b[1] = e.series /\ b[2] \in missing /\ gaps[b] = "none"
                   THEN "detected" ELSE gaps[b]
<1> DEFINE d == DecisionOf(e)
           missing == Ordering(e).gap.missing
<1>1. d.row.event = e
  BY StoresRows
<1>2. d.change # NoChange => d.missing = missing
  BY DecisionType
<1>3. gaps \in [Bar -> {"none", "detected", "observed_later"}]
  BY DEF TypeOK
<1>4. CASE d.change = NoChange
  BY <1>3, <1>4 DEF Stores
<1>5. CASE d.change # NoChange
  <2>1. gaps' = GapRows(e.series, d)
    BY <1>5 DEF Stores
  <2> HIDE DEF d, missing
  <2>2. gaps' = [b \in Bar |->
                   IF b = BarOf(e) /\ gaps[b] = "detected" THEN "observed_later"
                   ELSE IF b[1] = e.series /\ b[2] \in missing /\ gaps[b] = "none"
                   THEN "detected" ELSE gaps[b]]
    BY <2>1, <1>1, <1>2, <1>5 DEF GapRows
  <2> QED
    BY <2>2, <1>3, <1>5 DEF d, missing
<1> QED
  BY <1>4, <1>5

LEMMA StoresGapsAgree ==
  ASSUME TypeOK, StoredRight, NEW e \in Entries, Stores(e)
  PROVE  GapRowsAgree'
<1> DEFINE change == DecisionOf(e).change # NoChange
           missing == Ordering(e).gap.missing
           s == e.series
           latest == LastVersion(CoreRows(s))
           between(b) ==
             \E m, n \in Minute :
               m < b[2] /\ b[2] < n /\ bars'[<<b[1], m>>] # NoEvent /\ bars'[<<b[1], n>>] # NoEvent
<1>0. LedgerIsOrdered /\ CanonicalIsGreatest /\ GapRowsAgree
  BY DEF StoredRight
<1>1. /\ BarOf(e) \in Bar /\ BarOf(e) = <<s, e.start>> /\ s \in Series /\ e.start \in Minute
      /\ \A t \in Series, m \in Minute : <<t, m>> \in Bar
      /\ NoEvent \notin Entries
  BY EntryFields, EntriesAssumption DEF BarOf, Bar
<1>2. \A b \in Bar : bars[b] # NoEvent => bars'[b] # NoEvent
  BY <1>0, <1>1, StoresBars
<1>3. change => bars'[BarOf(e)] = e
  BY <1>0, StoresBars
<1>4. \A b \in Bar : bars[b] = NoEvent /\ ~(change /\ b = BarOf(e)) => bars'[b] = NoEvent
  BY <1>0, StoresBars
<1>5. \A b \in Bar :
        gaps'[b] =
          IF change /\ b = BarOf(e) /\ gaps[b] = "detected" THEN "observed_later"
          ELSE IF change /\ b[1] = s /\ b[2] \in missing /\ gaps[b] = "none"
          THEN "detected" ELSE gaps[b]
  BY <1>0, StoresGapRows
<1>6. ASSUME NEW b \in Bar, gaps'[b] = "detected", gaps[b] = "detected"
      PROVE  bars'[b] = NoEvent /\ between(b)
  <2>1. ~(change /\ b = BarOf(e)) /\ bars[b] = NoEvent
    BY <1>0, <1>5, <1>6 DEF GapRowsAgree
  <2>2. PICK m, n \in Minute :
          m < b[2] /\ b[2] < n /\ bars[<<b[1], m>>] # NoEvent /\ bars[<<b[1], n>>] # NoEvent
    BY <1>0, <1>6 DEF GapRowsAgree
  <2>3. <<b[1], m>> \in Bar /\ <<b[1], n>> \in Bar
    BY DEF Bar
  <2> QED
    BY <2>1, <2>2, <2>3, <1>2, <1>4
<1>7. ASSUME NEW b \in Bar, gaps'[b] = "detected", gaps[b] # "detected"
      PROVE  bars'[b] = NoEvent /\ between(b)
  <2>1. change /\ b[1] = s /\ b[2] \in missing
    BY <1>5, <1>7
  <2>2. CoreRows(s) # {} /\ latest.event.start < b[2] /\ b[2] < e.start
    BY <2>1, <1>0, OrderingType
  <2>3. /\ latest.event.start \in Minute /\ bars[<<s, latest.event.start>>] # NoEvent
        /\ \A m \in Minute : bars[<<s, m>>] # NoEvent => m <= latest.event.start
    BY <2>2, <1>0, <1>1, LastRowIsLastBar
  <2> HIDE DEF latest, missing, change
  <2>4. b[2] \in Minute /\ b = <<s, b[2]>> /\ b[2] \in Nat /\ latest.event.start \in Nat /\ e.start \in Nat
    <3>1. b[2] \in Minute /\ b = <<b[1], b[2]>>
      BY DEF Bar
    <3>2. Minute \subseteq Nat
      BY EntriesAssumption
    <3> QED
      BY <3>1, <3>2, <2>1, <2>3, <1>1
  <2>5. bars[b] = NoEvent /\ b # BarOf(e)
    BY <2>2, <2>3, <2>4, <1>1
  <2>6. bars'[b] = NoEvent
    BY <2>5, <1>4
  <2>7. bars'[<<s, latest.event.start>>] # NoEvent
    BY <2>3, <1>1, <1>2
  <2>8. bars'[<<s, e.start>>] # NoEvent
    BY <2>1, <1>1, <1>3
  <2> QED
    BY <2>1, <2>2, <2>3, <2>6, <2>7, <2>8, <1>1
<1>8. ASSUME NEW b \in Bar, gaps'[b] = "observed_later"
      PROVE  bars'[b] # NoEvent
  <2>1. CASE gaps[b] = "observed_later"
    BY <2>1, <1>0, <1>2 DEF GapRowsAgree
  <2>2. CASE gaps[b] # "observed_later"
    <3>1. change /\ b = BarOf(e)
      BY <2>2, <1>5, <1>8
    <3> QED
      BY <3>1, <1>1, <1>3
  <2> QED
    BY <2>1, <2>2
<1>9. ASSUME NEW b \in Bar
      PROVE  /\ gaps'[b] = "detected" => bars'[b] = NoEvent /\ between(b)
             /\ gaps'[b] = "observed_later" => bars'[b] # NoEvent
  BY <1>6, <1>7, <1>8
<1> QED
  BY <1>9 DEF GapRowsAgree

LEMMA StoresGapped ==
  ASSUME TypeOK, StoredRight, NEW e \in Entries, Stores(e)
  PROVE  GappedStays'
<1> DEFINE missing == Ordering(e).gap.missing
           s == e.series
           x == DecisionOf(e).row
           latest == LastVersion(CoreRows(s))
<1>0. LedgerIsOrdered /\ CanonicalIsGreatest /\ GappedStays
  BY DEF StoredRight
<1>1. SUFFICES ASSUME NEW b \in Bar, gaps'[b] = "detected"
               PROVE  CoreRows(b[1])' # {} /\ LastVersion(CoreRows(b[1])').gap = "gapped"
  BY DEF GappedStays
<1>2. b[1] \in Series
  BY DEF Bar
<1>3. gaps[b] = "detected" => CoreRows(b[1]) # {} /\ LastVersion(CoreRows(b[1])).gap = "gapped"
  BY <1>0 DEF GappedStays
<1>4. gaps[b] # "detected" => Core(e) /\ b[1] = s /\ b[2] \in missing
  BY <1>0, <1>1, StoresGapRows, StoresBars
<1>5. CASE ~(b[1] = s /\ Core(e))
  <2>1. CoreRows(b[1])' = CoreRows(b[1])
    BY <1>0, <1>2, <1>5, StoresRows
  <2> QED
    BY <2>1, <1>3, <1>4, <1>5
<1>6. CASE b[1] = s /\ Core(e)
  <2>1. CoreRows(s)' = CoreRows(s) \cup {x} /\ x \in Row /\ x.event = e /\ x.gap = Ordering(e).gap.state
    BY <1>0, <1>2, <1>6, StoresRows
  <2>2. CoreRows(s) # {} /\ s \in Series
    <3>1. missing # {} => CoreRows(s) # {}
      BY <1>0, OrderingType
    <3> QED
      BY <3>1, <1>2, <1>3, <1>4, <1>6
  <2>3. latest \in CoreRows(s) /\ IsLast(latest, CoreRows(s)) /\ latest \in Row
    BY <2>2, <1>0, LastRowIsLastBar
  <2>4. CoreRows(s) \in SUBSET ledger /\ CoreRows(s) \in SUBSET Row
    BY DEF CoreRows, TypeOK
  <2>5. latest.event.id # x.event.id
    BY <2>1, <2>3, <2>4 DEF Stores
  <2>6. CASE Before(x, latest)
    <3>1. IsLast(latest, CoreRows(s) \cup {x})
      BY <2>3, <2>6 DEF IsLast
    <3>2. LastVersion(CoreRows(s)') = latest
      BY <3>1, <2>1, <2>3, <2>4, LastVersionIsThat
    <3>3. missing = {}
      <4>1. SUFFICES ASSUME NEW m \in missing PROVE FALSE
        OBVIOUS
      <4>2. latest.event.start < m /\ m < e.start /\ m \in Minute
        BY <4>1, <1>0, OrderingType
      <4>3. latest.event.start \in Nat /\ e.start \in Nat /\ m \in Nat
        BY <4>2, <2>3, RowFields, EntryFields, EntriesAssumption
      <4>4. e.start <= latest.event.start
        BY <2>1, <2>6, <4>3 DEF Before
      <4> QED
        BY <4>2, <4>3, <4>4
    <3> QED
      BY <3>2, <3>3, <2>1, <1>3, <1>4, <1>6
  <2>7. CASE Before(latest, x)
    <3>1. \A q \in CoreRows(s) : Before(q, x)
      BY <2>1, <2>3, <2>4, <2>7, BeforeIsTransitive DEF IsLast
    <3>2. IsLast(x, CoreRows(s) \cup {x})
      BY <3>1 DEF IsLast
    <3>3. LastVersion(CoreRows(s)') = x
      BY <3>2, <2>1, <2>4, LastVersionIsThat
    <3>4. CASE missing # {}
      BY <3>3, <3>4, <2>1, <1>0, <1>6, OrderingType
    <3>5. CASE missing = {}
      <4>1. latest.gap = "gapped"
        BY <3>5, <1>3, <1>4, <1>6
      <4>2. CASE Versions(e) # {}
        <5>1. PICK v \in CoreRows(s) : v.event.start = e.start /\ v \in Versions(e)
          <6>1. PICK v \in Versions(e) : TRUE
            BY <4>2
          <6> QED
            BY <6>1, <1>0, <1>6, VersionsOfCore DEF Versions, BarOf
        <5>2. v = latest \/ Before(v, latest)
          BY <5>1, <2>3 DEF IsLast
        <5>3. e.start = latest.event.start
          <6>1. v \in Row /\ v.event.start \in Nat /\ latest.event.start \in Nat /\ e.start \in Nat
            BY <2>3, <2>4, <5>1, RowFields, EntryFields
          <6> QED
            BY <6>1, <5>1, <5>2, <2>1, <2>7 DEF Before
        <5>4. latest \in Versions(e) /\ IsLast(latest, Versions(e))
          BY <5>3, <2>3, <1>0, <1>6, VersionsOfCore DEF IsLast
        <5>5. LastVersion(Versions(e)) = latest
          BY <5>4, <1>0, RowsRead, LastVersionIsThat
        <5>6. Ordering(e).gap.state = latest.gap
          BY <5>5, <4>2, OrderingCases DEF Classified, Assessment
        <5> QED
          BY <5>6, <4>1, <3>3, <2>1, <1>6
      <4>3. CASE Versions(e) = {}
        <5>1. ~(e.start < latest.event.start)
          <6>1. latest.event.start \in Nat /\ e.start \in Nat
            BY <2>3, RowFields, EntryFields
          <6> QED
            BY <6>1, <2>1, <2>7 DEF Before
        <5>2. Ordering(e) = Classified("accepted", GapAfter(latest, e))
          BY <5>1, <4>3, <2>2, <1>6, OrderingCases
        <5>3. Ordering(e).gap.state = "gapped"
          BY <5>2, <4>1 DEF Classified, GapAfter, Assessment
        <5> QED
          BY <5>3, <3>3, <2>1, <1>6
      <4> QED
        BY <4>2, <4>3
    <3> QED
      BY <3>4, <3>5
  <2> QED
    BY <2>1, <2>3, <2>5, <2>6, <2>7, BeforeIsTotal
<1> QED
  BY <1>5, <1>6

\* What the tables hold stays right when they take a decision and the journal
\* takes its change.
LEMMA StoresRight ==
  ASSUME TypeOK, StoredRight, NEW e \in Entries, Stores(e),
         \/ journal' = journal
         \/ /\ DecisionOf(e).change # NoChange
            /\ journal' = Append(journal, DecisionOf(e).change)
  PROVE  StoredRight'
<1>0. LedgerIsOrdered /\ CanonicalIsGreatest /\ JournalIsStored
  BY DEF StoredRight
<1>1. JournalIsStored'
  <2> DEFINE x == DecisionOf(e).row
             r == DecisionOf(e).change
  <2>1. ledger' = ledger \cup {x} /\ x.event = e
    BY <1>0, StoresRows
  <2>2. r # NoChange => r \in Revision /\ r.new = e
    BY <1>0, DecisionType, ChangeMade
  <2>3. journal \in Seq(Revision)
    BY DEF TypeOK
  <2>4. \A i \in 1..Len(journal) : \E q \in ledger : q.event = journal[i].new
    BY <1>0 DEF JournalIsStored
  <2> HIDE DEF x, r
  <2>5. CASE journal' = journal
    BY <2>1, <2>4, <2>5 DEF JournalIsStored
  <2>6. CASE r # NoChange /\ journal' = Append(journal, r)
    <3>1. SUFFICES ASSUME NEW i \in 1..Len(journal') PROVE \E q \in ledger' : q.event = journal'[i].new
      BY DEF JournalIsStored
    <3>2. CASE i \in 1..Len(journal)
      BY <2>1, <2>2, <2>3, <2>4, <2>6, <3>2
    <3>3. CASE i = Len(journal) + 1
      BY <2>1, <2>2, <2>3, <2>6, <3>3
    <3> QED
      BY <2>2, <2>3, <2>6, <3>1, <3>2, <3>3
  <2> QED
    BY <2>5, <2>6 DEF r
<1> QED
  BY <1>0, <1>1, StoresOrdered, StoresGreatest, StoresGapsAgree, StoresGapped DEF StoredRight

-----------------------------------------------------------------------------
(* The journal reproduces the bars.                                         *)

\* The greatest of the numbers up to some bound.
LEMMA MaxOfBounded ==
  ASSUME NEW n \in Nat, NEW S \in SUBSET (0..n), S # {}
  PROVE  Max(S) \in S /\ \A y \in S : y <= Max(S)
<1> DEFINE R == {ss \in Nat \X Nat : ss[1] < ss[2]}
           T == {n - y : y \in S}
<1>1. R = OpToRel(<, Nat)
  BY DEF OpToRel
<1>2. IsWellFoundedOn(R, Nat)
  BY <1>1, NatLessThanWellFounded
<1>3. \A y, z \in Nat : y < z => <<y, z>> \in R
  OBVIOUS
<1>4. T \subseteq Nat /\ T # {}
  <2>1. \A y \in S : n - y \in Nat
    OBVIOUS
  <2>2. PICK y \in S : TRUE
    OBVIOUS
  <2>3. n - y \in T
    OBVIOUS
  <2> QED
    BY <2>1, <2>3
<1> HIDE DEF R
<1>5. PICK t \in T : \A u \in T : ~(<<u, t>> \in R)
  BY <1>2, <1>4, WFMin
<1>6. PICK x \in S : t = n - x
  BY <1>5
<1>7. ASSUME NEW y \in S PROVE y <= x
  <2>1. n - y \in T /\ n - y \in Nat /\ t \in Nat
    BY <1>4, <1>5
  <2>2. ~(n - y < t)
    BY <2>1, <1>3, <1>5
  <2> QED
    BY <2>2, <1>6
<1> QED
  BY <1>6, <1>7 DEF Max

(* BarAt and JournalReproducesBars, of any journal and any table of bars.   *)
BarIn(start, revisions, b, position) ==
  LET own == {i \in (start.position + 1)..position : BarOf(revisions[i].new) = b}
  IN IF own = {} THEN start.bars[b] ELSE revisions[Max(own)].new

Reproduces(start, revisions, table) ==
  /\ \A b \in Bar : BarIn(start, revisions, b, Len(revisions)) = table[b]
  /\ \A i \in (start.position + 1)..Len(revisions) :
       revisions[i].previous = BarIn(start, revisions, BarOf(revisions[i].new), i - 1)

LEMMA ReproducesNow ==
  /\ JournalReproducesBars <=> (capturing => Reproduces(base, journal, bars))
  /\ JournalReproducesBars' <=> (capturing' => Reproduces(base', journal', bars'))
BY DEF JournalReproducesBars, Reproduces, BarAt, BarIn

\* At a cutover there is nothing to apply.
LEMMA ReproducesAtFirst ==
  ASSUME NEW start, NEW revisions \in Seq(Revision), start.position = Len(revisions)
  PROVE  Reproduces(start, revisions, start.bars)
BY DEF Reproduces, BarIn

\* A revision that links to the bar it replaces takes the bars along.
LEMMA ReproducesMore ==
  ASSUME NEW start, NEW revisions \in Seq(Revision), start.position \in 0..Len(revisions),
         NEW table \in [Bar -> Entries \cup {NoEvent}], Reproduces(start, revisions, table),
         NEW r \in Revision, r.previous = table[BarOf(r.new)]
  PROVE  Reproduces(start, Append(revisions, r), [table EXCEPT ![BarOf(r.new)] = r.new])
<1> DEFINE n == Len(revisions)
           more == Append(revisions, r)
           after == [table EXCEPT ![BarOf(r.new)] = r.new]
           own(rs, b, p) == {i \in (start.position + 1)..p : BarOf(rs[i].new) = b}
<1>1. /\ n \in Nat /\ Len(more) = n + 1 /\ more[n + 1] = r
      /\ \A i \in 1..n : more[i] = revisions[i]
      /\ start.position \in Nat /\ start.position <= n
  OBVIOUS
<1>2. r.new \in Entries /\ BarOf(r.new) \in Bar
  <2>1. r.new \in Entries
    BY DEF Revision
  <2> QED
    BY <2>1, EntryFields
<1> HIDE DEF more, n
<1>3. ASSUME NEW b, NEW p \in 0..n
      PROVE  BarIn(start, more, b, p) = BarIn(start, revisions, b, p)
  <2>1. own(more, b, p) = own(revisions, b, p)
    BY <1>1
  <2>2. own(revisions, b, p) \in SUBSET (0..p) /\ own(revisions, b, p) \in SUBSET (1..n)
    BY <1>1
  <2> DEFINE S == own(revisions, b, p)
  <2>3. S # {} => Max(S) \in 1..n
    <3>0. p \in Nat /\ S \in SUBSET (0..p)
      BY <2>2, <1>1
    <3> HIDE DEF S
    <3>1. S # {} => Max(S) \in S
      BY <3>0, MaxOfBounded
    <3> QED
      BY <3>1, <2>2 DEF S
  <2> QED
    BY <2>1, <2>3, <1>1 DEF BarIn
<1>4. ASSUME NEW b \in Bar PROVE BarIn(start, more, b, n + 1) = after[b]
  <2>1. CASE b # BarOf(r.new)
    <3>1. own(more, b, n + 1) = own(more, b, n)
      BY <2>1, <1>1
    <3>2. BarIn(start, more, b, n + 1) = BarIn(start, more, b, n)
      BY <3>1 DEF BarIn
    <3>3. BarIn(start, revisions, b, n) = table[b]
      BY DEF Reproduces, n
    <3> QED
      BY <3>2, <3>3, <2>1, <1>1, <1>3
  <2>2. CASE b = BarOf(r.new)
    <3> DEFINE S == own(more, b, n + 1)
    <3> DEFINE top == n + 1
    <3>0. top \in Nat /\ top = n + 1
      BY <1>1
    <3>1. top \in S /\ S \in SUBSET (0..top) /\ S # {}
      BY <2>2, <1>1
    <3>4. BarIn(start, more, b, n + 1) = IF S = {} THEN start.bars[b] ELSE more[Max(S)].new
      BY DEF BarIn
    <3> HIDE DEF S, top
    <3>2. Max(S) \in S /\ top <= Max(S)
      BY <3>0, <3>1, MaxOfBounded
    <3>3. Max(S) = n + 1
      <4>1. Max(S) \in 0..top
        BY <3>1, <3>2
      <4> QED
        BY <4>1, <3>0, <3>2
    <3>5. BarIn(start, more, b, n + 1) = r.new
      BY <3>1, <3>3, <3>4, <1>1
    <3> QED
      BY <3>5, <2>2, <1>2
  <2> QED
    BY <2>1, <2>2
<1>5. ASSUME NEW i \in (start.position + 1)..(n + 1)
      PROVE  more[i].previous = BarIn(start, more, BarOf(more[i].new), i - 1)
  <2>1. CASE i \in 1..n
    <3>1. revisions[i].previous = BarIn(start, revisions, BarOf(revisions[i].new), i - 1)
      BY <2>1, <1>1 DEF Reproduces, n
    <3>2. i - 1 \in 0..n
      BY <2>1, <1>1
    <3> QED
      BY <3>1, <3>2, <2>1, <1>1, <1>3
  <2>2. CASE i = n + 1
    <3>1. BarIn(start, revisions, BarOf(r.new), n) = table[BarOf(r.new)]
      BY <1>2 DEF Reproduces, n
    <3> QED
      BY <3>1, <2>2, <1>1, <1>3
  <2> QED
    BY <2>1, <2>2, <1>1
<1> QED
  BY <1>1, <1>4, <1>5 DEF Reproduces, more

-----------------------------------------------------------------------------
(* Steps that leave the tables alone.                                       *)

\* Then what they hold is as right as before, and so is every decision.
LEMMA SameTables ==
  ASSUME UNCHANGED tables
  PROVE  /\ StoredRight => StoredRight'
         /\ \A e \in Entries : DecisionOf(e)' = DecisionOf(e)
<1>1. ledger' = ledger /\ bars' = bars /\ gaps' = gaps /\ journal' = journal
  BY DEF tables
<1>2. /\ \A e \in Entries : Versions(e)' = Versions(e)
      /\ \A s : CoreRows(s)' = CoreRows(s)
  BY <1>1 DEF Versions, CoreRows
<1>3. ASSUME StoredRight PROVE StoredRight'
  <2>1. LedgerIsOrdered'
    BY <1>1, <1>2, <1>3 DEF StoredRight, LedgerIsOrdered
  <2>2. CanonicalIsGreatest'
    BY <1>1, <1>3 DEF StoredRight, CanonicalIsGreatest
  <2>3. GapRowsAgree'
    BY <1>1, <1>3 DEF StoredRight, GapRowsAgree
  <2>4. GappedStays'
    BY <1>1, <1>2, <1>3 DEF StoredRight, GappedStays
  <2>5. JournalIsStored'
    BY <1>1, <1>3 DEF StoredRight, JournalIsStored
  <2> QED
    BY <2>1, <2>2, <2>3, <2>4, <2>5 DEF StoredRight
<1>4. ASSUME NEW e \in Entries PROVE DecisionOf(e)' = DecisionOf(e)
  BY <1>1, <1>2, DecisionIsLocal
<1> QED
  BY <1>3, <1>4

\* The bars and the journal agree as before when no run begins to capture.
LEMMA SameJournal ==
  ASSUME UNCHANGED <<bars, journal, base>>, capturing' => capturing, JournalReproducesBars
  PROVE  JournalReproducesBars'
BY ReproducesNow

\* A transaction is one after each of its steps.
LEMMA TransactionEdits ==
  ASSUME NEW t \in Transaction
  PROVE  /\ \A e \in Entries : [t EXCEPT !.pc = "locked", !.entry = e] \in Transaction
         /\ \A d \in Decision, p \in {"changing", "committing"} :
              [t EXCEPT !.pc = p, !.decision = d] \in Transaction
         /\ \A b \in BOOLEAN : [t EXCEPT !.pc = "committing", !.journaled = b] \in Transaction
         /\ Idle \in Transaction
<1>1. \A e \in Entries : [t EXCEPT !.pc = "locked", !.entry = e] \in Transaction
  BY DEF Transaction
<1>2. \A d \in Decision, p \in {"changing", "committing"} :
        [t EXCEPT !.pc = p, !.decision = d] \in Transaction
  BY DEF Transaction
<1>3. \A b \in BOOLEAN : [t EXCEPT !.pc = "committing", !.journaled = b] \in Transaction
  BY DEF Transaction
<1>4. Idle \in Transaction
  BY DEF Transaction, Idle
<1> QED
  BY <1>1, <1>2, <1>3, <1>4

\* Only the locks of the holder become free.
LEMMA ReleasedLocks ==
  ASSUME TypeOK, NEW who
  PROVE  /\ Released(who) \in [Series \cup {"counter"} -> Writer \cup {SignalWorker, Nobody}]
         /\ \A l \in Series \cup {"counter"} : lock[l] # who => Released(who)[l] = lock[l]
BY DEF Released, TypeOK

-----------------------------------------------------------------------------
(* Every action keeps the invariant.                                        *)

LEMMA BeginStep ==
  ASSUME IInv, NEW w \in Writer, NEW e \in Entries, Begin(w, e)
  PROVE  IInv'
<1> DEFINE t == [tx[w] EXCEPT !.pc = "locked", !.entry = e]
<1>1. /\ tx[w].pc = "idle" /\ lock[e.series] = Nobody
      /\ lock' = [lock EXCEPT ![e.series] = w] /\ tx' = [tx EXCEPT ![w] = t]
      /\ UNCHANGED <<tables, capturing, cutovers, base, rejected>>
  BY DEF Begin, MayLock
<1>2. /\ tx \in [Writer -> Transaction] /\ e.series \in Series \cup {"counter"}
      /\ lock \in [Series \cup {"counter"} -> Writer \cup {SignalWorker, Nobody}]
  BY EntryFields DEF IInv, TypeOK
<1>3. t \in Transaction
  BY <1>2, TransactionEdits
<1>4. t.pc = "locked" /\ t.entry = e /\ t.journaled = FALSE
  BY <1>1, <1>2 DEF Transaction, IInv, LocksAreHeld, Idle
<1> HIDE DEF t
<1>5. tx'[w] = t /\ \A v \in Writer : v # w => tx'[v] = tx[v]
  BY <1>1, <1>2
<1>6. lock'[e.series] = w
  BY <1>1, <1>2
<1>7. \A l \in Series \cup {"counter"}, v \in Writer : lock[l] = v => lock'[l] = v
  BY <1>1, <1>2, EntriesAssumption
<1>8. TypeOK'
  <2>1. tx' \in [Writer -> Transaction]
    BY <1>1, <1>2, <1>3
  <2>2. lock' \in [Series \cup {"counter"} -> Writer \cup {SignalWorker, Nobody}]
    BY <1>1, <1>2
  <2> QED
    BY <2>1, <2>2, <1>1 DEF IInv, TypeOK, tables
<1>9. LocksAreHeld'
  <2>1. SUFFICES ASSUME NEW v \in Writer
        PROVE  /\ tx'[v].pc = "idle" => tx'[v] = Idle
               /\ tx'[v].pc # "idle" => tx'[v].entry \in Entries /\ lock'[tx'[v].entry.series] = v
               /\ tx'[v].pc = "committing" /\ tx'[v].decision.change # NoChange =>
                    lock'["counter"] = v
    BY DEF LocksAreHeld
  <2>2. CASE v = w
    BY <2>2, <1>4, <1>5, <1>6
  <2>3. CASE v # w
    BY <2>3, <1>5, <1>7, EntryFields DEF IInv, LocksAreHeld
  <2> QED
    BY <2>2, <2>3
<1>10. DecisionsAreCurrent'
  <2>1. SUFFICES ASSUME NEW v \in Writer
        PROVE  /\ tx'[v].pc \in {"changing", "committing"} =>
                    /\ \A r \in ledger' : r.event.id # tx'[v].entry.id
                    /\ \A f \in Entries : f = tx'[v].entry => tx'[v].decision = DecisionOf(f)'
               /\ tx'[v].pc = "changing" => tx'[v].decision.change # NoChange
               /\ tx'[v].journaled <=>
                    tx'[v].pc = "committing" /\ capturing' /\ tx'[v].decision.change # NoChange
    BY DEF DecisionsAreCurrent
  <2>2. CASE v = w
    BY <2>2, <1>4, <1>5
  <2>3. CASE v # w
    BY <2>3, <1>1, <1>5, SameTables DEF IInv, DecisionsAreCurrent, tables
  <2> QED
    BY <2>2, <2>3
<1>11. StoredRight' /\ JournalReproducesBars' /\ NeverRejected'
  BY <1>1, SameTables, SameJournal DEF IInv, tables, NeverRejected
<1> QED
  BY <1>8, <1>9, <1>10, <1>11 DEF IInv

\* A transaction that ends without effect.
LEMMA EndedStep ==
  ASSUME IInv, NEW w \in Writer, Ended(w), UNCHANGED rejected
  PROVE  IInv'
<1>1. /\ tx' = [tx EXCEPT ![w] = Idle] /\ lock' = Released(w)
      /\ UNCHANGED <<tables, capturing, cutovers, base, rejected>>
  BY DEF Ended
<1>2. tx \in [Writer -> Transaction]
  BY DEF IInv, TypeOK
<1>3. Idle \in Transaction /\ Idle.pc = "idle" /\ Idle.journaled = FALSE
  BY DEF Transaction, Idle
<1>5. tx'[w] = Idle /\ \A v \in Writer : v # w => tx'[v] = tx[v]
  BY <1>1, <1>2
<1>7. \A l \in Series \cup {"counter"}, v \in Writer : v # w /\ lock[l] = v => lock'[l] = v
  BY <1>1, ReleasedLocks DEF IInv
<1>8. TypeOK'
  <2>1. tx' \in [Writer -> Transaction]
    BY <1>1, <1>2, <1>3
  <2>2. lock' \in [Series \cup {"counter"} -> Writer \cup {SignalWorker, Nobody}]
    BY <1>1, ReleasedLocks DEF IInv
  <2> QED
    BY <2>1, <2>2, <1>1 DEF IInv, TypeOK, tables
<1>9. LocksAreHeld'
  <2>1. SUFFICES ASSUME NEW v \in Writer
        PROVE  /\ tx'[v].pc = "idle" => tx'[v] = Idle
               /\ tx'[v].pc # "idle" => tx'[v].entry \in Entries /\ lock'[tx'[v].entry.series] = v
               /\ tx'[v].pc = "committing" /\ tx'[v].decision.change # NoChange =>
                    lock'["counter"] = v
    BY DEF LocksAreHeld
  <2>2. CASE v = w
    BY <2>2, <1>3, <1>5
  <2>3. CASE v # w
    BY <2>3, <1>5, <1>7, EntryFields DEF IInv, LocksAreHeld
  <2> QED
    BY <2>2, <2>3
<1>10. DecisionsAreCurrent'
  <2>1. SUFFICES ASSUME NEW v \in Writer
        PROVE  /\ tx'[v].pc \in {"changing", "committing"} =>
                    /\ \A r \in ledger' : r.event.id # tx'[v].entry.id
                    /\ \A f \in Entries : f = tx'[v].entry => tx'[v].decision = DecisionOf(f)'
               /\ tx'[v].pc = "changing" => tx'[v].decision.change # NoChange
               /\ tx'[v].journaled <=>
                    tx'[v].pc = "committing" /\ capturing' /\ tx'[v].decision.change # NoChange
    BY DEF DecisionsAreCurrent
  <2>2. CASE v = w
    BY <2>2, <1>3, <1>5
  <2>3. CASE v # w
    BY <2>3, <1>1, <1>5, SameTables DEF IInv, DecisionsAreCurrent, tables
  <2> QED
    BY <2>2, <2>3
<1>11. StoredRight' /\ JournalReproducesBars' /\ NeverRejected'
  BY <1>1, SameTables, SameJournal DEF IInv, tables, NeverRejected
<1> QED
  BY <1>8, <1>9, <1>10, <1>11 DEF IInv

LEMMA DecideStep ==
  ASSUME IInv, NEW w \in Writer, Decide(w)
  PROVE  IInv'
<1>0. PICK e \in Entries : e = tx[w].entry /\ lock[e.series] = w
  BY DEF Decide, IInv, LocksAreHeld
<1> DEFINE d == DecisionOf(e)
           p == IF d.change = NoChange THEN "committing" ELSE "changing"
           t == [tx[w] EXCEPT !.pc = p, !.decision = d]
<1>1. /\ tx[w].pc = "locked" /\ \A r \in ledger : r.event.id # e.id
      /\ tx' = [tx EXCEPT ![w] = t]
      /\ UNCHANGED <<tables, capturing, lock, cutovers, base, rejected>>
  BY <1>0 DEF Decide
<1>2. tx \in [Writer -> Transaction]
  BY DEF IInv, TypeOK
<1>3. d \in Decision /\ d' = d
  BY <1>1, DecisionType, SameTables DEF IInv, StoredRight
<1> HIDE DEF d
<1>4. t \in Transaction
  BY <1>2, <1>3, TransactionEdits
<1>5. t.pc = p /\ t.entry = e /\ t.decision = d /\ t.journaled = FALSE
  <2>1. tx[w].journaled = FALSE
    BY <1>1, <1>2 DEF IInv, DecisionsAreCurrent, Transaction
  <2> QED
    BY <2>1, <1>0, <1>2 DEF Transaction
<1> HIDE DEF t
<1>6. tx'[w] = t /\ \A v \in Writer : v # w => tx'[v] = tx[v]
  BY <1>1, <1>2
<1>7. TypeOK'
  <2>1. tx' \in [Writer -> Transaction]
    BY <1>1, <1>2, <1>4
  <2> QED
    BY <2>1, <1>1 DEF IInv, TypeOK, tables
<1>8. LocksAreHeld'
  <2>1. SUFFICES ASSUME NEW v \in Writer
        PROVE  /\ tx'[v].pc = "idle" => tx'[v] = Idle
               /\ tx'[v].pc # "idle" => tx'[v].entry \in Entries /\ lock'[tx'[v].entry.series] = v
               /\ tx'[v].pc = "committing" /\ tx'[v].decision.change # NoChange =>
                    lock'["counter"] = v
    BY DEF LocksAreHeld
  <2>2. CASE v = w
    BY <2>2, <1>0, <1>1, <1>5, <1>6
  <2>3. CASE v # w
    BY <2>3, <1>1, <1>6 DEF IInv, LocksAreHeld
  <2> QED
    BY <2>2, <2>3
<1>9. DecisionsAreCurrent'
  <2>1. SUFFICES ASSUME NEW v \in Writer
        PROVE  /\ tx'[v].pc \in {"changing", "committing"} =>
                    /\ \A r \in ledger' : r.event.id # tx'[v].entry.id
                    /\ \A f \in Entries : f = tx'[v].entry => tx'[v].decision = DecisionOf(f)'
               /\ tx'[v].pc = "changing" => tx'[v].decision.change # NoChange
               /\ tx'[v].journaled <=>
                    tx'[v].pc = "committing" /\ capturing' /\ tx'[v].decision.change # NoChange
    BY DEF DecisionsAreCurrent
  <2>2. CASE v = w
    <3>1. \A r \in ledger' : r.event.id # e.id
      BY <1>1 DEF tables
    <3>2. \A f \in Entries : f = e => d = DecisionOf(f)'
      BY <1>3 DEF d
    <3> QED
      BY <2>2, <3>1, <3>2, <1>5, <1>6
  <2>3. CASE v # w
    BY <2>3, <1>1, <1>6, SameTables DEF IInv, DecisionsAreCurrent, tables
  <2> QED
    BY <2>2, <2>3
<1>10. StoredRight' /\ JournalReproducesBars' /\ NeverRejected'
  BY <1>1, SameTables, SameJournal DEF IInv, tables, NeverRejected
<1> QED
  BY <1>7, <1>8, <1>9, <1>10 DEF IInv

LEMMA JournalStep ==
  ASSUME IInv, NEW w \in Writer, Journal(w)
  PROVE  IInv'
<1>0. PICK e \in Entries : e = tx[w].entry /\ lock[e.series] = w
  BY DEF Journal, IInv, LocksAreHeld
<1>1. /\ tx[w].pc = "changing" /\ lock["counter"] = Nobody
      /\ \A r \in ledger : r.event.id # e.id
      /\ tx[w].decision = DecisionOf(e) /\ tx[w].decision.change # NoChange
  BY <1>0 DEF Journal, IInv, DecisionsAreCurrent
<1>2. Acceptable(tx[w].decision.change)
  <2>1. Acceptable(DecisionOf(e).change)
    BY <1>1, ChangeIsAcceptable DEF IInv
  <2> QED
    BY <2>1, <1>1
<1> DEFINE t == [tx[w] EXCEPT !.pc = "committing", !.journaled = capturing]
<1>3. /\ lock' = [lock EXCEPT !["counter"] = w] /\ tx' = [tx EXCEPT ![w] = t]
      /\ UNCHANGED <<tables, capturing, cutovers, base, rejected>>
  BY <1>2 DEF Journal
<1>4. /\ tx \in [Writer -> Transaction] /\ capturing \in BOOLEAN
      /\ lock \in [Series \cup {"counter"} -> Writer \cup {SignalWorker, Nobody}]
  BY DEF IInv, TypeOK
<1>5. t \in Transaction
  BY <1>4, TransactionEdits
<1>6. t.pc = "committing" /\ t.entry = e /\ t.decision = tx[w].decision /\ t.journaled = capturing
  BY <1>0, <1>4 DEF Transaction
<1> HIDE DEF t
<1>7. tx'[w] = t /\ \A v \in Writer : v # w => tx'[v] = tx[v]
  BY <1>3, <1>4
<1>8. /\ lock'["counter"] = w
      /\ \A l \in Series \cup {"counter"}, v \in Writer : lock[l] = v => lock'[l] = v
  BY <1>1, <1>3, <1>4, EntriesAssumption
<1>9. TypeOK'
  <2>1. tx' \in [Writer -> Transaction]
    BY <1>3, <1>4, <1>5
  <2>2. lock' \in [Series \cup {"counter"} -> Writer \cup {SignalWorker, Nobody}]
    BY <1>3, <1>4
  <2> QED
    BY <2>1, <2>2, <1>3 DEF IInv, TypeOK, tables
<1>10. LocksAreHeld'
  <2>1. SUFFICES ASSUME NEW v \in Writer
        PROVE  /\ tx'[v].pc = "idle" => tx'[v] = Idle
               /\ tx'[v].pc # "idle" => tx'[v].entry \in Entries /\ lock'[tx'[v].entry.series] = v
               /\ tx'[v].pc = "committing" /\ tx'[v].decision.change # NoChange =>
                    lock'["counter"] = v
    BY DEF LocksAreHeld
  <2>2. CASE v = w
    BY <2>2, <1>0, <1>6, <1>7, <1>8, EntryFields
  <2>3. CASE v # w
    BY <2>3, <1>7, <1>8, EntryFields DEF IInv, LocksAreHeld
  <2> QED
    BY <2>2, <2>3
<1>11. DecisionsAreCurrent'
  <2>1. SUFFICES ASSUME NEW v \in Writer
        PROVE  /\ tx'[v].pc \in {"changing", "committing"} =>
                    /\ \A r \in ledger' : r.event.id # tx'[v].entry.id
                    /\ \A f \in Entries : f = tx'[v].entry => tx'[v].decision = DecisionOf(f)'
               /\ tx'[v].pc = "changing" => tx'[v].decision.change # NoChange
               /\ tx'[v].journaled <=>
                    tx'[v].pc = "committing" /\ capturing' /\ tx'[v].decision.change # NoChange
    BY DEF DecisionsAreCurrent
  <2>2. CASE v = w
    <3>1. \A r \in ledger' : r.event.id # e.id
      BY <1>1, <1>3 DEF tables
    <3>2. \A f \in Entries : f = e => tx[w].decision = DecisionOf(f)'
      BY <1>1, <1>3, SameTables
    <3> QED
      BY <2>2, <3>1, <3>2, <1>1, <1>3, <1>6, <1>7
  <2>3. CASE v # w
    BY <2>3, <1>3, <1>7, SameTables DEF IInv, DecisionsAreCurrent, tables
  <2> QED
    BY <2>2, <2>3
<1>12. StoredRight' /\ JournalReproducesBars' /\ NeverRejected'
  BY <1>3, SameTables, SameJournal DEF IInv, tables, NeverRejected
<1> QED
  BY <1>9, <1>10, <1>11, <1>12 DEF IInv

LEMMA CommitStep ==
  ASSUME IInv, NEW w \in Writer, Commit(w)
  PROVE  IInv'
<1>0. PICK e \in Entries :
        /\ e = tx[w].entry /\ lock[e.series] = w /\ Stores(e)
        /\ DecisionOf(e).change # NoChange => lock["counter"] = w
        /\ journal' = IF capturing /\ DecisionOf(e).change # NoChange
                      THEN Append(journal, DecisionOf(e).change) ELSE journal
        /\ tx' = [tx EXCEPT ![w] = Idle] /\ lock' = Released(w)
        /\ UNCHANGED <<capturing, cutovers, base, rejected>>
  BY CommitStores
<1> DEFINE r == DecisionOf(e).change
           x == DecisionOf(e).row
           b == BarOf(e)
<1>1. TypeOK /\ StoredRight /\ LedgerIsOrdered
  BY DEF IInv, StoredRight
<1>2. /\ tx \in [Writer -> Transaction] /\ journal \in Seq(Revision)
      /\ bars \in [Bar -> Entries \cup {NoEvent}] /\ base.position \in 0..Len(journal)
      /\ base \in [bars : [Bar -> Entries \cup {NoEvent}], position : 0..Len(journal)]
      /\ b \in Bar
  BY EntryFields DEF IInv, TypeOK
<1>3. Idle \in Transaction /\ Idle.pc = "idle" /\ Idle.journaled = FALSE
  BY DEF Transaction, Idle
<1>4. tx'[w] = Idle /\ \A v \in Writer : v # w => tx'[v] = tx[v]
  BY <1>0, <1>2
<1>5. \A l \in Series \cup {"counter"}, v \in Writer : v # w /\ lock[l] = v => lock'[l] = v
  BY <1>0, <1>1, ReleasedLocks
<1>6. r # NoChange => r \in Revision /\ r.new = e /\ r.previous = bars[b]
  BY <1>1, DecisionType, ChangeMade
<1>7. TypeOK'
  <2>1. tx' \in [Writer -> Transaction]
    BY <1>0, <1>2, <1>3
  <2>2. lock' \in [Series \cup {"counter"} -> Writer \cup {SignalWorker, Nobody}]
    BY <1>0, <1>1, ReleasedLocks
  <2>3. ledger' \in SUBSET Row
    BY <1>0, <1>1, StoresRows DEF TypeOK
  <2>4. bars' \in [Bar -> Entries \cup {NoEvent}] /\ gaps' \in [Bar -> {"none", "detected", "observed_later"}]
    BY <1>0, <1>1, StoresBars, StoresGapRows
  <2>5. journal' \in Seq(Revision) /\ Len(journal) <= Len(journal')
    BY <1>0, <1>2, <1>6
  <2>6. base' \in [bars : [Bar -> Entries \cup {NoEvent}], position : 0..Len(journal')]
    BY <2>5, <1>0, <1>2
  <2> QED
    BY <2>1, <2>2, <2>3, <2>4, <2>5, <2>6, <1>0, <1>1 DEF TypeOK
<1>8. LocksAreHeld'
  <2>1. SUFFICES ASSUME NEW v \in Writer
        PROVE  /\ tx'[v].pc = "idle" => tx'[v] = Idle
               /\ tx'[v].pc # "idle" => tx'[v].entry \in Entries /\ lock'[tx'[v].entry.series] = v
               /\ tx'[v].pc = "committing" /\ tx'[v].decision.change # NoChange =>
                    lock'["counter"] = v
    BY DEF LocksAreHeld
  <2>2. CASE v = w
    BY <2>2, <1>3, <1>4
  <2>3. CASE v # w
    BY <2>3, <1>4, <1>5, EntryFields DEF IInv, LocksAreHeld
  <2> QED
    BY <2>2, <2>3
<1>9. DecisionsAreCurrent'
  <2>1. SUFFICES ASSUME NEW v \in Writer
        PROVE  /\ tx'[v].pc \in {"changing", "committing"} =>
                    /\ \A q \in ledger' : q.event.id # tx'[v].entry.id
                    /\ \A f \in Entries : f = tx'[v].entry => tx'[v].decision = DecisionOf(f)'
               /\ tx'[v].pc = "changing" => tx'[v].decision.change # NoChange
               /\ tx'[v].journaled <=>
                    tx'[v].pc = "committing" /\ capturing' /\ tx'[v].decision.change # NoChange
    BY DEF DecisionsAreCurrent
  <2>2. CASE v = w
    BY <2>2, <1>3, <1>4
  <2>3. CASE v # w
    <3>1. tx'[v] = tx[v] /\ capturing' = capturing
      BY <2>3, <1>0, <1>4
    <3>2. SUFFICES ASSUME tx[v].pc \in {"changing", "committing"}
          PROVE  /\ \A q \in ledger' : q.event.id # tx[v].entry.id
                 /\ \A f \in Entries : f = tx[v].entry => tx[v].decision = DecisionOf(f)'
      BY <3>1 DEF IInv, DecisionsAreCurrent
    <3>3. PICK f \in Entries : f = tx[v].entry /\ lock[f.series] = v
      BY <3>2 DEF IInv, LocksAreHeld
    <3>4. f.series # e.series /\ f.id # e.id
      BY <3>3, <2>3, <1>0, EntriesAssumption
    <3>5. ledger' = ledger \cup {x} /\ x.event = e
      BY <1>0, <1>1, StoresRows
    <3>6. \A q \in ledger' : q.event.id # f.id
      BY <3>2, <3>3, <3>4, <3>5 DEF IInv, DecisionsAreCurrent
    <3>7. DecisionOf(f)' = DecisionOf(f)
      <4>1. BarOf(f) # b /\ BarOf(f) \in Bar /\ f.series \in Series /\ b[1] = e.series
            /\ BarOf(f)[1] = f.series
        BY <3>4, EntryFields DEF BarOf
      <4>2. Versions(f)' = Versions(f) /\ CoreRows(f.series)' = CoreRows(f.series)
        BY <4>1, <3>4, <1>0, <1>1, StoresRows
      <4>3. ASSUME NEW m \in Minute PROVE bars'[<<f.series, m>>] = bars[<<f.series, m>>]
        <5>1. <<f.series, m>> \in Bar /\ <<f.series, m>> # b
          BY <4>1, <3>4 DEF Bar, BarOf
        <5> QED
          BY <5>1, <1>0, <1>1, StoresBars
      <4>4. gaps'[BarOf(f)] = gaps[BarOf(f)]
        BY <4>1, <3>4, <1>0, <1>1, StoresGapRows
      <4> QED
        BY <4>2, <4>3, <4>4, DecisionIsLocal
    <3>8. tx[v].decision = DecisionOf(f)
      BY <3>2, <3>3 DEF IInv, DecisionsAreCurrent
    <3> QED
      BY <3>3, <3>6, <3>7, <3>8
  <2> QED
    BY <2>2, <2>3
<1>10. StoredRight'
  BY <1>0, <1>1, StoresRight
<1>11. JournalReproducesBars'
  <2>1. SUFFICES ASSUME capturing PROVE Reproduces(base, journal', bars')
    BY <1>0, ReproducesNow
  <2>2. Reproduces(base, journal, bars)
    BY <2>1, ReproducesNow DEF IInv
  <2> HIDE DEF r, b
  <2>3. CASE r = NoChange
    BY <2>2, <2>3, <1>0 DEF Stores, r
  <2>4. CASE r # NoChange
    <3>1. journal' = Append(journal, r) /\ bars' = [bars EXCEPT ![b] = e]
      BY <2>1, <2>4, <1>0 DEF Stores, WithBar, r, b
    <3>2. Reproduces(base, Append(journal, r), [bars EXCEPT ![BarOf(r.new)] = r.new])
      BY <2>2, <2>4, <1>2, <1>6, ReproducesMore DEF b
    <3> QED
      BY <3>1, <3>2, <2>4, <1>6 DEF b
  <2> QED
    BY <2>3, <2>4
<1> QED
  BY <1>0, <1>7, <1>8, <1>9, <1>10, <1>11 DEF IInv, NeverRejected

\* A step of the cutover that takes or gives back locks of nobody else.
LEMMA CutoverLocks ==
  ASSUME IInv,
         lock' \in [Series \cup {"counter"} -> Writer \cup {SignalWorker, Nobody}],
         \A l \in Series \cup {"counter"}, v \in Writer : lock[l] = v => lock'[l] = v,
         UNCHANGED <<tables, capturing, tx, base, rejected>>, cutovers' \in 0..MaxCutovers
  PROVE  IInv'
<1>1. TypeOK'
  BY DEF IInv, TypeOK, tables
<1>2. LocksAreHeld'
  BY EntryFields DEF IInv, LocksAreHeld
<1>3. DecisionsAreCurrent'
  BY SameTables DEF IInv, DecisionsAreCurrent, tables
<1>4. StoredRight' /\ JournalReproducesBars' /\ NeverRejected'
  BY SameTables, SameJournal DEF IInv, tables, NeverRejected
<1> QED
  BY <1>1, <1>2, <1>3, <1>4 DEF IInv

LEMMA LockNextSeriesStep ==
  ASSUME IInv, LockNextSeries
  PROVE  IInv'
<1>1. PICK s : lock[s] = Nobody /\ lock' = [lock EXCEPT ![s] = SignalWorker]
  BY DEF LockNextSeries
<1>2. lock \in [Series \cup {"counter"} -> Writer \cup {SignalWorker, Nobody}]
  BY DEF IInv, TypeOK
<1>3. cutovers' \in 0..MaxCutovers
  BY EntriesAssumption DEF LockNextSeries, IInv, TypeOK
<1>4. \A l \in Series \cup {"counter"}, v \in Writer : lock[l] = v => lock'[l] = v
  BY <1>1, <1>2, EntriesAssumption
<1>5. lock' \in [Series \cup {"counter"} -> Writer \cup {SignalWorker, Nobody}]
  BY <1>1, <1>2
<1> QED
  BY <1>3, <1>4, <1>5, CutoverLocks DEF LockNextSeries

LEMMA CutoverRollsBackStep ==
  ASSUME IInv, CutoverRollsBack
  PROVE  IInv'
<1>1. lock' = Released(SignalWorker) /\ cutovers' \in 0..MaxCutovers
  BY DEF CutoverRollsBack, IInv, TypeOK
<1>2. \A l \in Series \cup {"counter"}, v \in Writer : lock[l] = v => lock'[l] = v
  BY <1>1, ReleasedLocks, EntriesAssumption DEF IInv
<1> QED
  BY <1>1, <1>2, ReleasedLocks, CutoverLocks DEF CutoverRollsBack, IInv

\* A cutover commits while no transaction is open.
LEMMA CutOverStep ==
  ASSUME IInv, CutOver
  PROVE  IInv'
<1>1. PICK enable \in BOOLEAN :
        /\ capturing' = enable
        /\ base' = IF enable THEN [bars |-> bars, position |-> Len(journal)] ELSE base
        /\ enable \/ capturing
  BY DEF CutOver
<1>2. lock' = Released(SignalWorker) /\ UNCHANGED <<tables, tx, cutovers, rejected>>
  BY DEF CutOver
<1>3. \A v \in Writer : tx[v].pc = "idle" /\ tx[v] = Idle
  <2>1. SUFFICES ASSUME NEW v \in Writer, tx[v].pc # "idle" PROVE FALSE
    BY DEF IInv, LocksAreHeld
  <2>2. PICK s \in Series : lock[s] = v
    BY <2>1, EntryFields DEF IInv, LocksAreHeld
  <2>3. lock[s] = SignalWorker
    BY DEF CutOver, MayCutOver, Held
  <2> QED
    BY <2>2, <2>3, EntriesAssumption
<1>4. TypeOK'
  <2>1. base' \in [bars : [Bar -> Entries \cup {NoEvent}], position : 0..Len(journal)]
    BY <1>1 DEF IInv, TypeOK
  <2>2. lock' \in [Series \cup {"counter"} -> Writer \cup {SignalWorker, Nobody}]
    BY <1>2, ReleasedLocks DEF IInv
  <2> QED
    BY <2>1, <2>2, <1>1, <1>2 DEF IInv, TypeOK, tables
<1>5. LocksAreHeld' /\ DecisionsAreCurrent'
  <2>1. \A v \in Writer : tx'[v] = Idle
    BY <1>2, <1>3
  <2>2. Idle.pc = "idle" /\ Idle.journaled = FALSE
    BY DEF Idle
  <2> QED
    BY <2>1, <2>2 DEF LocksAreHeld, DecisionsAreCurrent
<1>6. StoredRight' /\ NeverRejected'
  BY <1>2, SameTables DEF IInv, NeverRejected
<1>7. JournalReproducesBars'
  <2>1. CASE enable
    <3>1. base'.position = Len(journal) /\ base'.bars = bars /\ journal' = journal /\ bars' = bars
      BY <2>1, <1>1, <1>2 DEF tables
    <3>2. Reproduces(base', journal, base'.bars)
      BY <3>1, ReproducesAtFirst DEF IInv, TypeOK
    <3> QED
      BY <3>1, <3>2, ReproducesNow
  <2>2. CASE ~enable
    BY <2>2, <1>1, ReproducesNow
  <2> QED
    BY <2>1, <2>2
<1> QED
  BY <1>4, <1>5, <1>6, <1>7 DEF IInv

LEMMA InitInvariant == Init => IInv
<1> SUFFICES ASSUME Init PROVE IInv
  OBVIOUS
<1> USE DEF Init
<1>1. TypeOK
  <2>1. Idle \in Transaction
    BY DEF Transaction, Idle
  <2>2. base \in [bars : [Bar -> Entries \cup {NoEvent}], position : 0..Len(journal)]
    OBVIOUS
  <2>3. journal \in Seq(Revision) /\ cutovers \in 0..MaxCutovers
    BY EntriesAssumption
  <2> QED
    BY <2>1, <2>2, <2>3 DEF TypeOK
<1>2. StoredRight
  <2>1. LedgerIsOrdered
    BY DEF LedgerIsOrdered, HasLast, Versions, CoreRows
  <2>2. CanonicalIsGreatest
    BY DEF CanonicalIsGreatest
  <2>3. GapRowsAgree /\ GappedStays /\ JournalIsStored
    BY DEF GapRowsAgree, GappedStays, JournalIsStored
  <2> QED
    BY <2>1, <2>2, <2>3 DEF StoredRight
<1>3. LocksAreHeld /\ DecisionsAreCurrent
  BY DEF LocksAreHeld, DecisionsAreCurrent, Idle
<1>4. JournalReproducesBars /\ NeverRejected
  BY DEF JournalReproducesBars, NeverRejected
<1> QED
  BY <1>1, <1>2, <1>3, <1>4 DEF IInv

LEMMA NextInvariant == IInv /\ [Next]_vars => IInv'
<1> SUFFICES ASSUME IInv, [Next]_vars PROVE IInv'
  OBVIOUS
<1>1. ASSUME NEW w \in Writer, NEW e \in Entries, Begin(w, e) PROVE IInv'
  BY <1>1, BeginStep
<1>2. ASSUME NEW w \in Writer, Duplicate(w) PROVE IInv'
  BY <1>2, EndedStep DEF Duplicate
<1>3. ASSUME NEW w \in Writer, Decide(w) PROVE IInv'
  BY <1>3, DecideStep
<1>4. ASSUME NEW w \in Writer, Journal(w) PROVE IInv'
  BY <1>4, JournalStep
<1>5. ASSUME NEW w \in Writer, Commit(w) PROVE IInv'
  BY <1>5, CommitStep
<1>6. ASSUME NEW w \in Writer, RollBack(w) PROVE IInv'
  BY <1>6, EndedStep DEF RollBack
<1>7. CASE LockNextSeries
  BY <1>7, LockNextSeriesStep
<1>8. CASE CutOver
  BY <1>8, CutOverStep
<1>9. CASE CutoverRollsBack
  BY <1>9, CutoverRollsBackStep
<1>10. CASE UNCHANGED vars
  <2>1. cutovers' \in 0..MaxCutovers
    BY <1>10 DEF vars, IInv, TypeOK
  <2> QED
    BY <2>1, <1>10, CutoverLocks DEF vars, IInv, TypeOK
<1> QED
  BY <1>1, <1>2, <1>3, <1>4, <1>5, <1>6, <1>7, <1>8, <1>9, <1>10 DEF Next

-----------------------------------------------------------------------------
(* The results.                                                             *)

\* Every reachable state satisfies the inductive invariant.
THEOREM Invariance == Spec => []IInv
BY InitInvariant, NextInvariant, PTL DEF Spec

\* The variables keep their types (persistEntry and the cutover).
THEOREM TypeCorrect == Spec => []TypeOK
<1>1. IInv => TypeOK
  BY DEF IInv
<1> QED
  BY <1>1, Invariance, PTL

\* The ledger, the bars and the gap rows that persistEntry writes agree, for
\* any writers and any order in which events arrive.
THEOREM TablesAlwaysAgree == Spec => []TablesAgree
<1>1. IInv => TablesAgree
  BY DEF IInv, StoredRight, TablesAgree
<1> QED
  BY <1>1, Invariance, PTL

\* While a run captures, the journal reproduces the bars, and no change that
\* persistEntry decides is ever refused by the validation of its revision.
THEOREM JournalAlwaysSound == Spec => []JournalIsSound
<1>1. IInv => JournalIsSound
  BY DEF IInv, JournalIsSound
<1> QED
  BY <1>1, Invariance, PTL
=============================================================================
