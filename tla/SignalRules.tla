----------------------------- MODULE SignalRules -----------------------------
(* The pure signal package: reference windows, the features of a bar, the   *)
(* breakout_plus_volume.v1 rule, the bars a change affects, the transition  *)
(* between two evaluations; and which of several events for one minute is   *)
(* the canonical bar.                                                       *)
(*                                                                          *)
(* Times are minutes and decimals integers: the package computes without    *)
(* rounding and rejects results beyond its precision.  Ids are hashes of    *)
(* content, so a result stands for its own id.                              *)
EXTENDS Integers, FiniteSets, FiniteSetsExt, SequencesExt

CONSTANTS
  Events,        \* one-minute bar events of open minutes
  SessionOf,     \* the calendar: the open minutes, each with its session
  Lookback,      \* lookbackBars
  Multiplier,    \* volumeMultiplier
  Freshness,     \* freshnessThresholdMs
  Greatest,      \* the greatest decimal that is not an overflow
  None

ASSUME RulesAssumption ==
  /\ Lookback \in Nat \ {0} /\ Multiplier \in Nat \ {0}
  /\ Freshness \in Nat /\ Greatest \in Nat

Session(minute) == IF minute \in DOMAIN SessionOf THEN SessionOf[minute] ELSE "closed"

\* An id names one event.  Sessions are further apart than the longest window
\* the configuration accepts (390 minutes; a night has more).
ASSUME EventsAssumption ==
  /\ \A e \in Events : e.start \in Int /\ e.received \in Int /\ e.id \in Int
  /\ \A e, f \in Events : e.id = f.id => e = f
  /\ \A e, f \in Events : e.start < f.start /\ Session(e.start) # Session(f.start)
       => e.start + Lookback <= f.start

BarEnd(bar) == bar.start + 1

\* The minutes of the same session among the Lookback before a bar.
ExpectedStarts(bar) ==
  {minute \in (bar.start - Lookback) .. (bar.start - 1) :
     Session(minute) = Session(bar.start)}

IsWarm(bar) ==
  \A minute \in (bar.start - Lookback) .. (bar.start - 1) :
    Session(minute) = Session(bar.start)

References(bars, bar) ==
  {b \in bars : b.series = bar.series /\ b.start \in ExpectedStarts(bar)}

PriorVolume(references) == MapThenSumSet(LAMBDA b : b.volume, references)
PriorHigh(references) == Max({b.high : b \in references})
PriorLow(references) == Min({b.low : b \in references})

\* Mutant of Mode: evidence that came later does not count.
ModeByFreshness(bar, references) ==
  IF bar.received - BarEnd(bar) <= Freshness THEN "on_time" ELSE "retrospective"

Mode(bar, references) ==
  IF /\ bar.received - BarEnd(bar) <= Freshness
     /\ \A b \in references : b.received <= bar.received
  THEN "on_time" ELSE "retrospective"

IsFuture(bar) == BarEnd(bar) > bar.received

\* Why a feature is suppressed, in the order the code asks; None if it is ready.
\* Decimals that the package does not accept count as an overflow.
Suppression(bar, references) ==
  CASE IsFuture(bar) -> "future_evaluation_bar"
    [] ~IsFuture(bar) /\ ~IsWarm(bar) -> "insufficient_warmup"
    [] ~IsFuture(bar) /\ IsWarm(bar) /\ Cardinality(references) # Lookback
         -> "missing_interval"
    [] OTHER -> IF PriorVolume(references) = 0 THEN "unusable_volume_baseline"
                ELSE IF PriorVolume(references) > Greatest THEN "arithmetic_overflow"
                ELSE None

\* A feature result as far as the evaluation and its id depend on it.
Feature(bars, bar) ==
  LET window == References(bars, bar)
      references == IF IsFuture(bar) THEN {} ELSE window
  IN  [bar |-> bar, references |-> references, mode |-> Mode(bar, references),
       knowledge |-> Max({b.received : b \in references \cup {bar}}),
       suppressed |-> Suppression(bar, window)]

BreakoutDirection(feature) ==
  IF feature.bar.close > PriorHigh(feature.references) THEN "upward"
  ELSE IF feature.bar.close < PriorLow(feature.references) THEN "downward" ELSE "none"

\* A comparison of products: no average is computed.
LeftProduct(feature) == feature.bar.volume * Cardinality(feature.references)
RightProduct(feature) == PriorVolume(feature.references) * Multiplier

\* evaluateBreakoutPlusVolume.
Evaluation(feature) ==
  LET outcome(o, reason) == [feature |-> feature, outcome |-> o, reason |-> reason]
  IN  IF feature.suppressed # None THEN outcome("suppressed", feature.suppressed)
      ELSE IF LeftProduct(feature) > Greatest \/ RightProduct(feature) > Greatest
        THEN outcome("suppressed", "arithmetic_overflow")
      ELSE IF BreakoutDirection(feature) = "none"
        THEN outcome("not_fired", "price_not_breakout")
      ELSE IF LeftProduct(feature) < RightProduct(feature)
        THEN outcome("not_fired", "volume_not_confirmed")
      ELSE outcome("fired", BreakoutDirection(feature))

Evaluate(bars, bar) == Evaluation(Feature(bars, bar))

\* Mutant of Affected: the window ends one bar early.
AffectedWithin(bars, changed) ==
  {b \in bars :
     /\ b.series = changed.series /\ Session(b.start) = Session(changed.start)
     /\ changed.start <= b.start /\ b.start < changed.start + Lookback}

\* affectedEvaluationEventIds.
Affected(bars, changed) ==
  {b \in bars :
     /\ b.series = changed.series /\ Session(b.start) = Session(changed.start)
     /\ changed.start <= b.start /\ b.start <= changed.start + Lookback}

\* createSignalTransition; predecessor is None for a bar's first evaluation.
Transition(predecessor, current) ==
  LET retracted == predecessor # None /\ predecessor.outcome = "fired"
                                      /\ current.outcome # "fired"
  IN  [current |-> current, predecessor |-> predecessor, retracts |-> retracted,
       kind |-> IF predecessor = None THEN "initial"
                ELSE IF retracted THEN "retraction" ELSE "supersession"]

SameKey(a, b) == a.series = b.series /\ a.start = b.start

Of(evaluation) == evaluation.feature.bar

\* signal_evaluation_evidence: the events that an evaluation rests on.
EvidenceOf(evaluation) == evaluation.feature.references \cup {Of(evaluation)}

\* persistSignalEvaluation: an evaluation stored under its id is compared and
\* kept, with its evidence and its occurrence; a new one is added.
Stored(evaluations, new) == evaluations \cup new

\* The evaluation of the same bar among the latest ones of a run.
Predecessor(latest, evaluation) ==
  LET same == {l \in latest : SameKey(Of(l), Of(evaluation))}
  IN  IF same = {} THEN None ELSE CHOOSE l \in same : TRUE

\* The evaluations that differ from the latest ones.
Changed(latest, evaluations) == {e \in evaluations : e # Predecessor(latest, e)}

\* Evaluations of different bars of one series in the order of their bars.
ByStart(evaluations) ==
  LET n == Cardinality(evaluations)
  IN  CHOOSE ordered \in [1 .. n -> evaluations] :
        \A i, j \in 1 .. n : i < j => Of(ordered[i]).start < Of(ordered[j]).start

\* The transitions of one change of the canonical bars, by bar start.
Transitions(latest, evaluations) ==
  LET ordered == ByStart(Changed(latest, evaluations))
  IN  [i \in DOMAIN ordered |-> Transition(Predecessor(latest, ordered[i]), ordered[i])]

Superseding(latest, evaluations) ==
  {l \in latest : \A e \in evaluations : ~SameKey(Of(l), Of(e))} \cup evaluations

\* persistSignalRunAssociation: a transition with the position, in the journal
\* or in the schedule, of the change that led to it.
Associated(position, transition) == [position |-> position, transition |-> transition]

-----------------------------------------------------------------------------
(* decideCanonicalTransition *)

Wins(candidate, current) ==
  \/ candidate.received > current.received
  \/ candidate.received = current.received /\ candidate.id > current.id

\* What an event does to the canonical bars: insert, replace or nothing.
Decide(canonical, event) ==
  LET same == {b \in canonical : SameKey(b, event)}
  IN  IF same = {} THEN "insert"
      ELSE IF \A b \in same : b.id # event.id /\ Wins(event, b) THEN "replace" ELSE "no_op"

Apply(canonical, event) == {b \in canonical : ~SameKey(b, event)} \cup {event}

\* The reference: the canonical bars of a set of events, in whatever order
\* they came, and what must be known about each of them.
Winners(events) ==
  {e \in events : \A f \in events : SameKey(e, f) /\ e # f => Wins(e, f)}

Reference(events) == {Evaluate(Winners(events), b) : b \in Winners(events)}

Series == {e.series : e \in Events}

Result == {Evaluate(bars, bar) : bars \in SUBSET Events, bar \in Events}

ASSUME ResultAssumption == None \notin Result
=============================================================================
