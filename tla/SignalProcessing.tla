-------------------------- MODULE SignalProcessing --------------------------
(* What a live signal run computes: bars arrive in any order and replace    *)
(* each other, a run is bootstrapped from the bars of that moment, and a    *)
(* worker takes the journaled changes one by one, rebuilds the session from *)
(* bootstrap and journal, evaluates the affected bars and appends a         *)
(* transition for each that changed.  Fences and claims of several runs are *)
(* in SignalRuns; here two workers contend for one run.                     *)
EXTENDS SignalRules

CONSTANTS
  Workers,
  Clock,           \* wall-clock minutes at which capture may be enabled
  QueueCapacity,   \* SIGNAL_QUEUE_CAPACITY
  MaxArrivals, MaxFence    \* bounds

ASSUME BoundsAssumption ==
  /\ Clock \subseteq Int /\ QueueCapacity \in Nat
  /\ MaxArrivals \in Nat /\ MaxFence \in Nat \ {0}

VARIABLES
  arrived,      \* market_data_event_ledger
  canonical,    \* market_data_one_minute_bars
  run,          \* signal_run_bootstrap_events and signal_run_boundaries, or None
  journal,      \* market_data_canonical_revisions of the run
  cursor,       \* cursor_position
  fence,        \* claim_fence
  evaluations,  \* signal_evaluations, which the runs share
  latest,       \* signal_run_latest_evaluations
  transitions,  \* signal_run_transitions
  claims,       \* each worker's claim with what it computed, or None
  failure       \* the failure_code of the revision a worker could not process

vars == <<arrived, canonical, run, journal, cursor, fence, evaluations, latest,
          transitions, claims, failure>>

Run == [base : SUBSET Events, boundary : [Series -> Int]]

Claim == [fence : Nat, cursor : Nat, computed : BOOLEAN, work : SUBSET Result]

ASSUME NoneAssumption ==
  /\ None \notin Run /\ None \notin Claim
  /\ None \notin {"stored_data_invalid", "capacity_exceeded"}

TypeOK ==
  /\ arrived \subseteq Events /\ canonical \subseteq arrived
  /\ run = None \/ /\ run.base \subseteq Events
                   /\ run.boundary \in [Series -> Int]
  /\ \A i \in DOMAIN journal : /\ journal[i].operation \in {"insert", "replace"}
                               /\ journal[i].event \in arrived
                               /\ journal[i].previous \in {e.id : e \in arrived} \cup {None}
  /\ cursor \in 0 .. Len(journal) /\ fence \in 0 .. MaxFence
  /\ \A e \in evaluations : e.outcome \in {"fired", "not_fired", "suppressed"}
  /\ latest \subseteq evaluations
  /\ \A i \in DOMAIN transitions : transitions[i].position \in 1 .. cursor
  /\ \A w \in Workers : claims[w] = None \/ /\ claims[w].fence \in 1 .. fence
                                            /\ claims[w].cursor \in 0 .. cursor
  /\ failure \in {None, "stored_data_invalid", "capacity_exceeded"}

Init ==
  /\ arrived = {} /\ canonical = {} /\ run = None /\ journal = <<>>
  /\ cursor = 0 /\ fence = 0 /\ evaluations = {} /\ latest = {} /\ transitions = <<>>
  /\ claims = [w \in Workers |-> None] /\ failure = None

-----------------------------------------------------------------------------
(* The market-data writer and the cutover *)

\* An event is stored; when it changes a canonical bar and a run captures, the
\* change is journaled in the same transaction.
Deliver(event) ==
  LET decision == Decide(canonical, event)
      same == {b \in canonical : SameKey(b, event)}
      previous == IF same = {} THEN None ELSE (CHOOSE b \in same : TRUE).id
      revision == [operation |-> decision, event |-> event, previous |-> previous]
  IN  /\ event \notin arrived /\ Cardinality(arrived) < MaxArrivals
      /\ arrived' = arrived \cup {event}
      /\ canonical' = IF decision = "no_op" THEN canonical ELSE Apply(canonical, event)
      /\ journal' = IF decision = "no_op" \/ run = None THEN journal
                    ELSE Append(journal, revision)
      /\ UNCHANGED <<run, cursor, fence, evaluations, latest, transitions, claims, failure>>

LatestSession(bars) == Session(Max({b.start : b \in bars}))

\* warmupRows of one series: the last bars of its latest session.
Warmup(bars) ==
  {b \in bars : /\ Session(b.start) = LatestSession(bars)
                /\ Cardinality({c \in bars : c.start > b.start}) < Lookback}

\* The first bar start that the run evaluates.
FirstEvaluated(bars, now) ==
  IF bars = {} THEN now ELSE Max({b.start : b \in bars}) + 1

\* A claim just taken, with nothing computed.
Claimed(token) == [fence |-> token, cursor |-> cursor, computed |-> FALSE, work |-> {}]

\* enableOrResume with no run capturing.
Enable(worker, now) ==
  LET of(series) == {b \in canonical : b.series = series}
  IN  /\ run = None /\ \A e \in arrived : e.received <= now
      /\ run' = [base |-> UNION {Warmup(of(s)) : s \in Series},
                 boundary |-> [s \in Series |-> FirstEvaluated(of(s), now)]]
      /\ fence' = 1
      /\ claims' = [claims EXCEPT ![worker] = Claimed(1)]
      /\ UNCHANGED <<arrived, canonical, journal, cursor, evaluations, latest,
                     transitions, failure>>

\* enableOrResume of the capturing run, its claim released or expired.
Resume(worker) ==
  /\ run # None /\ claims[worker] = None /\ fence < MaxFence
  /\ fence' = fence + 1
  /\ claims' = [claims EXCEPT ![worker] = Claimed(fence + 1)]
  /\ UNCHANGED <<arrived, canonical, run, journal, cursor, evaluations, latest,
                 transitions, failure>>

Crash(worker) ==
  /\ claims[worker] # None
  /\ claims' = [claims EXCEPT ![worker] = None]
  /\ UNCHANGED <<arrived, canonical, run, journal, cursor, fence, evaluations, latest,
                 transitions, failure>>

-----------------------------------------------------------------------------
(* LiveJournalProcessor *)

\* loadSessionBars: the bars of a session as the journal up to a position has
\* left them, each minute from its latest revision or else the bootstrap.
SessionBars(bar, position) ==
  LET revised == {p \in 1 .. position : /\ journal[p].event.series = bar.series
                                        /\ Session(journal[p].event.start) = Session(bar.start)}
      kept == {b \in run.base : b.series = bar.series /\ Session(b.start) = Session(bar.start)}
  IN  {b \in kept : \A p \in revised : journal[p].event.start # b.start}
      \cup {journal[p].event : p \in {q \in revised :
              \A r \in revised : journal[r].event.start = journal[q].event.start => r <= q}}

\* Mutant of InfluenceEnds: a replaced bar must belong to the bootstrap.
InfluenceNeverEnds(event) == FALSE

\* influenceEndsBeforeBoundary.
InfluenceEnds(event) == event.start + Lookback < run.boundary[event.series]

\* What the processor makes of the revision after a position: the evaluations
\* of the affected bars that this run owns, or a failure.
Work(position) ==
  LET revision == journal[position + 1]
      event == revision.event
      bars == SessionBars(event, position)
      prior == {b \in bars : SameKey(b, event)}
      next == Apply(bars, event)
      affected == Affected(next, event)
      owned == {b \in affected : b.start >= run.boundary[b.series]}
      fails(code) == [failure |-> code, evaluations |-> {}]
      unknown == revision.operation = "replace" /\ {b.id : b \in prior} # {revision.previous}
  IN  IF revision.operation = "insert" /\ prior # {} THEN fails("stored_data_invalid")
      ELSE IF unknown /\ (prior # {} \/ ~InfluenceEnds(event))
        THEN fails("stored_data_invalid")
      ELSE IF unknown THEN fails(None)
      ELSE IF Cardinality(affected) > QueueCapacity THEN fails("capacity_exceeded")
      ELSE [failure |-> None, evaluations |-> {Evaluate(next, b) : b \in owned}]

\* process up to the call of commitRevision: a failure ends the worker.
Compute(worker) ==
  LET claim == claims[worker]
  IN  /\ claim # None /\ ~claim.computed /\ claim.cursor < Len(journal)
      /\ \E work \in {Work(claim.cursor)} :
           /\ claims' = [claims EXCEPT ![worker] =
                           IF work.failure # None THEN None
                           ELSE [claim EXCEPT !.computed = TRUE,
                                              !.work = work.evaluations]]
           /\ failure' = IF work.failure # None THEN work.failure ELSE failure
      /\ UNCHANGED <<arrived, canonical, run, journal, cursor, fence, evaluations, latest,
                     transitions>>

\* Mutant of Holds: neither fence nor cursor is compared.
HoldsAlways(claim) == TRUE

\* The row lock and the checks at the head of commitRevision.
Holds(claim) == claim.fence = fence /\ claim.cursor = cursor

\* commitRevision: evaluations, transitions by bar start, latest evaluations and
\* the cursor in one transaction; a claim that was taken over ends the worker (cursor_conflict).
Commit(worker) ==
  LET claim == claims[worker]
  IN  /\ claim # None /\ claim.computed
      /\ IF Holds(claim)
         THEN /\ \E new \in {Transitions(latest, claim.work)} :
                   transitions' = transitions \o
                     [i \in DOMAIN new |-> Associated(cursor + 1, new[i])]
              /\ evaluations' = Stored(evaluations, claim.work)
              /\ latest' = Superseding(latest, claim.work)
              /\ cursor' = cursor + 1
              /\ claims' = [claims EXCEPT ![worker] =
                              [claim EXCEPT !.cursor = cursor + 1, !.computed = FALSE,
                                            !.work = {}]]
         ELSE /\ claims' = [claims EXCEPT ![worker] = None]
              /\ UNCHANGED <<evaluations, transitions, latest, cursor>>
      /\ UNCHANGED <<arrived, canonical, run, journal, fence, failure>>

Next ==
  \/ \E event \in Events : Deliver(event)
  \/ \E worker \in Workers :
       \/ \E now \in Clock : Enable(worker, now)
       \/ Resume(worker) \/ Crash(worker) \/ Compute(worker) \/ Commit(worker)

Spec == Init /\ [][Next]_vars

-----------------------------------------------------------------------------
(* Properties *)

Drained == run # None /\ cursor = Len(journal)

\* When the journal is drained, the run's evaluations are those that one pass
\* over all events that ever arrived would give, from the run's first minute
\* on: neither the order of arrival, nor the moment of the bootstrap, nor
\* crashes and takeovers show (loadSessionBars, affectedEvaluationEventIds).
ConvergesOnReference ==
  Drained => latest = {e \in Reference(arrived) :
                         Of(e).start >= run.boundary[Of(e).series]}

\* A journal that the writer produced is never rejected as stored_data_invalid,
\* although the bootstrap knows only the last bars, and exhausts the evaluation
\* queue only if that is smaller than the lookback window (processor.ts).
HonestJournalIsProcessed ==
  /\ failure # "stored_data_invalid"
  /\ QueueCapacity > Lookback => failure # "capacity_exceeded"

\* When the journal is drained, an on-time result is what was known when its
\* bar was received: evaluated from the events received until then it would
\* be the same, whatever was received since.  A late insert or replacement in
\* the window makes the result retrospective (evaluationMode).
OnTimeNeedsNoHindsight ==
  \A e \in latest :
    LET known == {a \in arrived : a.received <= Of(e).received}
    IN  Drained /\ e.feature.mode = "on_time" => e = Evaluate(Winners(known), Of(e))

\* The earlier transitions of the bar that the i-th one is about.
EarlierOfBar(i) ==
  {j \in 1 .. (i - 1) :
     SameKey(Of(transitions[j].transition.current), Of(transitions[i].transition.current))}

\* The transitions of a bar are a chain: each supersedes or retracts the one
\* before it, none returns to an earlier evaluation, positions grow, and the
\* last is the latest evaluation; every evaluation stored is in such a chain and
\* rests on events in the ledger (createSignalTransition, commitRevision).
TransitionsFormAChain ==
  /\ evaluations = {transitions[i].transition.current : i \in DOMAIN transitions}
  /\ \A e \in evaluations : EvidenceOf(e) \subseteq arrived
  /\ \A i \in DOMAIN transitions :
       LET step == transitions[i].transition
       IN  /\ step.predecessor = IF EarlierOfBar(i) = {} THEN None
                                 ELSE transitions[Max(EarlierOfBar(i))].transition.current
           /\ \A j \in EarlierOfBar(i) : /\ transitions[j].position < transitions[i].position
                                         /\ transitions[j].transition.current # step.current
  /\ \A e \in latest : \E i \in DOMAIN transitions :
       /\ transitions[i].transition.current = e
       /\ \A j \in DOMAIN transitions : i \notin EarlierOfBar(j)

\* The results, and the transitions that lead to them, are those of a pass over
\* all bars, whatever happened on the way.
ResultsAreTheReference == ConvergesOnReference /\ TransitionsFormAChain
=============================================================================
