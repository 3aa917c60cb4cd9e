-------------------------- MODULE CanonicalJournal --------------------------
(* How MarketDataRepository.persistEntry turns stored events into canonical *)
(* one-minute bars, gap rows and revisions of the journal, against other    *)
(* writers and against the cutover of the signal worker, which takes        *)
(* journaling over, hands it to another run, or ends it.                    *)
(*                                                                          *)
(* A transaction is four steps: it takes the lock of its market series,     *)
(* reads and decides under that lock, takes the lock of the revision        *)
(* counter, and commits; it may be rolled back before any of them.  What it *)
(* has written is its own until it commits.  The sessions entries belong    *)
(* to, and the backlog limit, are the subject of MarketDelivery and         *)
(* SignalRuns.                                                              *)
EXTENDS Integers, Sequences, SequencesExt, FiniteSetsExt

CONSTANTS
  Writer,       \* processes that persist entries
  SeriesOrder,  \* the market series in the order a cutover locks them
  Minute,       \* the bar starts modelled
  Calendar,     \* classification of each minute by the session calendar
  Entries,      \* what the providers deliver; a resend has a later receivedAt
  MaxScan,      \* MAX_GAP_SCAN_INTERVALS
  MaxCutovers,  \* bound on cutovers
  SignalWorker, \* the holder of the locks a cutover takes
  Nobody,       \* a free lock
  NoEvent,      \* no canonical bar yet
  NoChange,     \* the canonical transition is a no_op
  Undecided     \* nothing has been read yet

Series == Range(SeriesOrder)

ASSUME EntriesAssumption ==
  /\ Minute \subseteq Nat /\ Calendar \in [Minute -> {"open", "outside", "unknown"}]
  /\ Entries \subseteq [series : Series, start : Minute, id : Nat, received : Nat]
  /\ \A x, y \in Entries : x.id = y.id => x.series = y.series /\ x.start = y.start
  /\ MaxScan \in Nat /\ MaxCutovers \in Nat
  /\ Nobody \notin Writer \cup {SignalWorker} /\ SignalWorker \notin Writer
  /\ NoEvent \notin Entries /\ "counter" \notin Series

VARIABLES
  ledger,    \* market_data_event_ledger
  bars,      \* market_data_one_minute_bars: the canonical event of each bar
  gaps,      \* market_data_gaps: the status of each missing minute
  journal,   \* market_data_canonical_revisions in position order
  capturing, \* whether some signal run has capture_active
  lock,      \* holder of each series lock and of the revision counter
  tx,        \* the transaction of each writer
  cutovers,  \* cutovers begun
  base,      \* history: the bars and the position at the last cutover
  rejected   \* history: a canonical change failed its own validation

tables == <<ledger, bars, gaps, journal>>
vars == <<tables, capturing, lock, tx, cutovers, base, rejected>>

Bar == Series \X Minute
BarOf(e) == <<e.series, e.start>>

Classes == {"accepted", "correction", "out_of_order"}
GapStates == {"complete", "gapped", "unknown"}
Row == [event : Entries, class : Classes, gap : GapStates]

(* An insert has no previous event and a replacement has one.               *)
Revision == {r \in
  [operation : {"insert", "replace"}, previous : Entries \cup {NoEvent}, new : Entries,
   class : Classes, historical : BOOLEAN, gap : GapStates, filled : BOOLEAN] :
  r.operation = "insert" <=> r.previous = NoEvent}

ASSUME ChangeAssumption == NoChange \notin Revision

(* What a transaction decided under the series lock.                        *)
Decision == [row : Row, missing : SUBSET Minute, change : Revision \cup {NoChange}]

Transaction ==
  [pc : {"idle", "locked", "changing", "committing"},
   entry : Entries \cup {NoEvent},
   decision : Decision \cup {Undecided},
   journaled : BOOLEAN]

Idle == [pc |-> "idle", entry |-> NoEvent, decision |-> Undecided, journaled |-> FALSE]

TypeOK ==
  /\ ledger \subseteq Row
  /\ bars \in [Bar -> Entries \cup {NoEvent}]
  /\ gaps \in [Bar -> {"none", "detected", "observed_later"}]
  /\ journal \in Seq(Revision)
  /\ capturing \in BOOLEAN
  /\ lock \in [Series \cup {"counter"} -> Writer \cup {SignalWorker, Nobody}]
  /\ tx \in [Writer -> Transaction]
  /\ cutovers \in 0..MaxCutovers
  /\ base \in [bars : [Bar -> Entries \cup {NoEvent}], position : 0..Len(journal)]
  /\ rejected \in BOOLEAN

Init ==
  /\ ledger = {} /\ bars = [b \in Bar |-> NoEvent] /\ gaps = [b \in Bar |-> "none"]
  /\ journal = <<>> /\ capturing = FALSE
  /\ lock = [l \in Series \cup {"counter"} |-> Nobody]
  /\ tx = [w \in Writer |-> Idle]
  /\ cutovers = 0 /\ base = [bars |-> bars, position |-> 0]
  /\ rejected = FALSE

-----------------------------------------------------------------------------
(* Classification.                                                          *)

(* The order of canonical precedence: (receivedAt, eventId).                *)
Precedes(x, y) ==
  x.received < y.received \/ (x.received = y.received /\ x.id < y.id)

(* Only bars of an open session are canonical.                              *)
Core(e) == Calendar[e.start] = "open"

Versions(e) == {r \in ledger : BarOf(r.event) = BarOf(e)}
CoreRows(s) == {r \in ledger : r.event.series = s /\ Core(r.event)}

LastVersion(rows) ==
  CHOOSE r \in rows : \A q \in rows :
    q = r \/ q.event.start < r.event.start
          \/ (q.event.start = r.event.start /\ Precedes(q.event, r.event))

Assessment(state, missing) == [state |-> state, missing |-> missing]

(* missingGapIntervals: the minutes that get a gap row.                     *)
MissingBetween(from, to) ==
  {m \in Minute : from < m /\ m < to /\ Calendar[m] = "open"}

(* assessIntervalGap between two starts of one series.                      *)
IntervalGap(from, to) ==
  LET between == {m \in Minute : from < m /\ m < to}
      missing == MissingBetween(from, to)
  IN CASE to - from - 1 > MaxScan -> Assessment("unknown", {})
       [] to - from - 1 <= MaxScan /\ \E m \in between : Calendar[m] = "unknown" ->
            Assessment("unknown", {})
       [] OTHER -> Assessment(IF missing = {} THEN "complete" ELSE "gapped", missing)

(* Once a series is gapped it stays gapped, and nothing more is assessed.   *)
GapAfter(latest, e) ==
  IF latest.gap = "gapped" THEN Assessment("gapped", {})
  ELSE IntervalGap(latest.event.start, e.start)

(* classifyOrdering.                                                        *)
Classified(class, gap) == [class |-> class, gap |-> gap]

Ordering(e) ==
  LET versions == Versions(e)
      core == CoreRows(e.series)
      latest == LastVersion(core)
  IN IF versions # {}
       THEN Classified("correction", Assessment(LastVersion(versions).gap, {}))
     ELSE IF core = {} THEN Classified("accepted", Assessment("unknown", {}))
     ELSE IF e.start < latest.event.start
       THEN Classified("out_of_order", Assessment(latest.gap, {}))
     ELSE Classified("accepted",
                     IF Core(e) THEN GapAfter(latest, e) ELSE Assessment("unknown", {}))

\* Mutant of Historical: later bars of the series are not looked for.
HistoricalNever(e) == FALSE

(* isHistoricalCanonicalChange: the series has a later canonical bar.       *)
Historical(e) ==
  \E m \in Minute : m > e.start /\ bars[<<e.series, m>>] # NoEvent

\* Mutant of Previous: the revision links to nothing.
PreviousUnlinked(e) == NoEvent

Previous(e) == bars[BarOf(e)]

\* Mutant of Wins: ties of receivedAt are not broken by the event id.
WinsTies(e, current) == current.received <= e.received

Wins(e, current) == Precedes(current, e)

(* decideCanonicalTransition, and the revision the change would journal.    *)
ChangeOf(e, ordering) ==
  LET current == bars[BarOf(e)]
  IN IF Core(e) /\ (current = NoEvent \/ Wins(e, current))
     THEN [operation  |-> IF current = NoEvent THEN "insert" ELSE "replace",
           previous   |-> Previous(e),
           new        |-> e,
           class      |-> ordering.class,
           historical |-> Historical(e),
           gap        |-> ordering.gap.state,
           filled     |-> current = NoEvent /\ gaps[BarOf(e)] = "detected"]
     ELSE NoChange

(* What persistEntry decides of an event that the ledger does not have.     *)
DecisionOf(e) ==
  LET ordering == Ordering(e)
      change == ChangeOf(e, ordering)
  IN [row     |-> [event |-> e, class |-> ordering.class, gap |-> ordering.gap.state],
      missing |-> IF change = NoChange THEN {} ELSE ordering.gap.missing,
      change  |-> change]

(* What createCanonicalRevision and the tables accept: the metadata agree   *)
(* with the operation, and no revision is journaled twice.                  *)
Acceptable(r) ==
  /\ r.class = "out_of_order" => r.historical
  /\ r.operation = "insert" => r.previous = NoEvent /\ r.class # "correction"
  /\ r.operation = "replace" =>
       r.previous \notin {NoEvent, r.new} /\ r.class = "correction" /\ ~r.filled
  /\ r.filled => r.class = "out_of_order" /\ r.gap = "gapped"
  /\ r \notin Range(journal)

-----------------------------------------------------------------------------
(* persistEntry.                                                            *)

\* Mutant of MayLock: the series is not locked against other writers.
MayLockAlways(s) == TRUE

MayLock(s) == lock[s] = Nobody

Begin(w, e) ==
  /\ tx[w].pc = "idle"
  /\ MayLock(e.series)
  /\ lock' = [lock EXCEPT ![e.series] = w]
  /\ tx' = [tx EXCEPT ![w].pc = "locked", ![w].entry = e]
  /\ UNCHANGED <<tables, capturing, cutovers, base, rejected>>

Released(who) == [l \in DOMAIN lock |-> IF lock[l] = who THEN Nobody ELSE lock[l]]

(* The transaction ends without effect.                                     *)
Ended(w) ==
  /\ tx' = [tx EXCEPT ![w] = Idle]
  /\ lock' = Released(w)
  /\ UNCHANGED <<tables, capturing, cutovers, base>>

(* The event is known: at most a session link is added.                     *)
Duplicate(w) ==
  /\ tx[w].pc = "locked"
  /\ \E r \in ledger : r.event.id = tx[w].entry.id
  /\ Ended(w)
  /\ UNCHANGED rejected

Decide(w) ==
  /\ tx[w].pc = "locked"
  /\ \A r \in ledger : r.event.id # tx[w].entry.id
  /\ LET d == DecisionOf(tx[w].entry)
     IN tx' = [tx EXCEPT
          ![w].pc = IF d.change = NoChange THEN "committing" ELSE "changing",
          ![w].decision = d]
  /\ UNCHANGED <<tables, capturing, lock, cutovers, base, rejected>>

(* journalCanonicalChange: the counter is locked until the transaction      *)
(* ends; a revision is created only while a run captures.                   *)
Journal(w) ==
  /\ tx[w].pc = "changing"
  /\ lock["counter"] = Nobody
  /\ \/ /\ ~capturing \/ Acceptable(tx[w].decision.change)
        /\ lock' = [lock EXCEPT !["counter"] = w]
        /\ tx' = [tx EXCEPT ![w].pc = "committing", ![w].journaled = capturing]
        /\ UNCHANGED <<tables, capturing, cutovers, base, rejected>>
     \/ /\ capturing /\ ~Acceptable(tx[w].decision.change)
        /\ rejected' = TRUE
        /\ Ended(w)

\* Mutant of GapRows: the arrival of a missing minute is not marked.
GapRowsNeverObserved(s, d) ==
  [b \in Bar |-> IF b[1] = s /\ b[2] \in d.missing /\ gaps[b] = "none"
                 THEN "detected" ELSE gaps[b]]

(* The gap row of the arrived minute is marked, the missing ones are added. *)
GapRows(s, d) ==
  [b \in Bar |->
     IF b = BarOf(d.row.event) /\ gaps[b] = "detected" THEN "observed_later"
     ELSE IF b[1] = s /\ b[2] \in d.missing /\ gaps[b] = "none" THEN "detected"
     ELSE gaps[b]]

(* INSERT_LEDGER_EVENT_SQL.                                                 *)
WithEvent(d) == ledger \cup {d.row}

(* UPSERT_CANONICAL_BAR_SQL; that the event wins was decided under the lock.*)
WithBar(e) == [bars EXCEPT ![BarOf(e)] = e]

(* A revision takes the next position, and the counter moves past it.       *)
WithRevision(w) ==
  IF tx[w].journaled THEN Append(journal, tx[w].decision.change) ELSE journal

Commit(w) ==
  /\ tx[w].pc = "committing"
  /\ LET d == tx[w].decision
         e == tx[w].entry
     IN /\ ledger' = WithEvent(d)
        /\ journal' = WithRevision(w)
        /\ \/ d.change = NoChange /\ UNCHANGED <<bars, gaps>>
           \/ /\ d.change # NoChange
              /\ bars' = WithBar(e)
              /\ gaps' = GapRows(e.series, d)
  /\ tx' = [tx EXCEPT ![w] = Idle]
  /\ lock' = Released(w)
  /\ UNCHANGED <<capturing, cutovers, base, rejected>>

(* Any failure before the commit: the session is closed, the capability or  *)
(* the backlog does not admit the change, the connection or the process     *)
(* dies.                                                                    *)
RollBack(w) ==
  /\ tx[w].pc # "idle"
  /\ Ended(w)
  /\ UNCHANGED rejected

-----------------------------------------------------------------------------
(* The cutover of the signal worker: enableOrResume and disable.            *)

Held == {s \in Series : lock[s] = SignalWorker}

(* lockCutover takes the series locks one by one, in a fixed order.         *)
LockNextSeries ==
  /\ Held # Series
  /\ Held = {} => cutovers < MaxCutovers
  /\ LET s == SeriesOrder[Cardinality(Held) + 1]
     IN lock[s] = Nobody /\ lock' = [lock EXCEPT ![s] = SignalWorker]
  /\ cutovers' = IF Held = {} THEN cutovers + 1 ELSE cutovers
  /\ UNCHANGED <<tables, capturing, tx, base, rejected>>

\* Mutant of MayCutOver: the series locks are not taken.
MayCutOverUnlocked == Held # {}

MayCutOver == Held = Series /\ lock["counter"] = Nobody

(* A run begins to capture, or the capturing run is replaced or frozen.  A  *)
(* new run starts from the canonical bars of this moment.                   *)
CutOver ==
  /\ MayCutOver
  /\ \E enable \in BOOLEAN :
       /\ enable \/ capturing
       /\ capturing' = enable
       /\ base' = IF enable THEN [bars |-> bars, position |-> Len(journal)] ELSE base
  /\ lock' = Released(SignalWorker)
  /\ UNCHANGED <<tables, tx, cutovers, rejected>>

CutoverRollsBack ==
  /\ Held # {}
  /\ lock' = Released(SignalWorker)
  /\ UNCHANGED <<tables, capturing, tx, cutovers, base, rejected>>

Next ==
  \/ \E w \in Writer :
       \/ \E e \in Entries : Begin(w, e)
       \/ Duplicate(w) \/ Decide(w) \/ Journal(w) \/ Commit(w) \/ RollBack(w)
  \/ LockNextSeries \/ CutOver \/ CutoverRollsBack

Spec == Init /\ [][Next]_vars

-----------------------------------------------------------------------------
(* Safety.                                                                  *)

(* The canonical bar is the core event of the ledger that is greatest by    *)
(* (receivedAt, eventId), in whatever order, by whichever writers and       *)
(* however often the events were persisted.                                 *)
CanonicalIsGreatest ==
  \A b \in Bar :
    LET versions == {r.event : r \in {q \in ledger : BarOf(q.event) = b /\ Core(q.event)}}
    IN IF versions = {} THEN bars[b] = NoEvent
       ELSE bars[b] \in versions /\ \A x \in versions : x = bars[b] \/ Precedes(x, bars[b])

(* A bar as the capturing run knows it at a position of the journal: as it  *)
(* was at the cutover, or as the last revision since has left it.           *)
BarAt(b, position) ==
  LET revisions == {i \in (base.position + 1)..position : BarOf(journal[i].new) = b}
  IN IF revisions = {} THEN base.bars[b] ELSE journal[Max(revisions)].new

(* The revisions since the cutover, applied in position order to the bars   *)
(* the capturing run started from, link to one another and give the         *)
(* canonical bars: no change escapes the journal and none enters it twice.  *)
JournalReproducesBars ==
  capturing =>
    /\ \A b \in Bar : BarAt(b, Len(journal)) = bars[b]
    /\ \A i \in (base.position + 1)..Len(journal) :
         journal[i].previous = BarAt(BarOf(journal[i].new), i - 1)

(* A change that the ordering classification and the precedence decision    *)
(* produce always passes the validation of createCanonicalRevision and the  *)
(* uniqueness of the revision id: no stored sequence of events makes an     *)
(* entry impossible to persist.                                             *)
NeverRejected == ~rejected

(* The journal is complete and can always go on (journalCanonicalChange).   *)
JournalIsSound == JournalReproducesBars /\ NeverRejected

(* A gap row is open exactly while its minute has no canonical bar, and     *)
(* lies between two canonical bars.                                         *)
GapRowsAgree ==
  \A b \in Bar :
    /\ gaps[b] = "detected" =>
         /\ bars[b] = NoEvent
         /\ \E m, n \in Minute :
              m < b[2] /\ b[2] < n /\ bars[<<b[1], m>>] # NoEvent /\ bars[<<b[1], n>>] # NoEvent
    /\ gaps[b] = "observed_later" => bars[b] # NoEvent

(* Ledger, bars and gap rows tell the same story, although each is written  *)
(* from what was read of the others (persistEntry).                         *)
TablesAgree == CanonicalIsGreatest /\ GapRowsAgree

(* When a bar arrives beyond the last one of its series, the minutes that   *)
(* assessIntervalGap finds missing between the two have gap rows            *)
(* afterwards: user-stories/phase-2-06-stream-recovery.md:13 says that      *)
(* detectable missing intervals are recorded as gaps.                       *)
MissingMinutesAreRecorded ==
  [][\A s \in Series, m, n \in Minute :
       /\ m < n /\ bars[<<s, m>>] # NoEvent
       /\ \A k \in Minute : k > m => bars[<<s, k>>] = NoEvent
       /\ bars'[<<s, n>>] # NoEvent
       => \A k \in IntervalGap(m, n).missing : gaps'[<<s, k>>] = "detected"]_vars
=============================================================================
