--------------------------- MODULE SignalRulesProofs ---------------------------
(* Proofs about the signal rules and the two components that apply them,    *)
(* for any events, workers and bounds.  SignalProcessing: a run ends with   *)
(* the evaluations of one pass over all bars, its transitions are a chain   *)
(* for every bar, an honest journal is never refused and what is called on  *)
(* time needed no hindsight.  SignalReplay: a projection ends with the      *)
(* evaluations of one pass over its events, a completed target holds them,  *)
(* and a target obeys the owner of its latest claim.                        *)
EXTENDS SignalProcessing, SignalReplay, FiniteSetTheorems, SequenceTheorems, TLAPS

-----------------------------------------------------------------------------
(* Precedence and canonical bars.                                           *)

\* The fields of an event.
LEMMA EventFields ==
  ASSUME NEW e \in Events
  PROVE  e.start \in Int /\ e.received \in Int /\ e.id \in Int /\ e.series \in Series
         /\ BarEnd(e) \in Int /\ Lookback \in Nat \ {0}
BY EventsAssumption, RulesAssumption DEF Series, BarEnd

\* Two events of a minute are ordered by precedence, strictly.
LEMMA WinsIsTotal ==
  ASSUME NEW e \in Events, NEW f \in Events, e # f
  PROVE  Wins(e, f) \/ Wins(f, e)
<1>1. e.id # f.id
  BY EventsAssumption
<1> QED
  BY <1>1, EventFields DEF Wins

LEMMA WinsIsStrict ==
  ASSUME NEW e \in Events, NEW f \in Events
  PROVE  ~(Wins(e, f) /\ Wins(f, e)) /\ ~Wins(e, e)
BY EventFields DEF Wins

LEMMA WinsIsTransitive ==
  ASSUME NEW e \in Events, NEW f \in Events, NEW g \in Events, Wins(e, f), Wins(f, g)
  PROVE  Wins(e, g)
BY EventFields DEF Wins

OnePer(bars) == \A a, b \in bars : SameKey(a, b) => a = b

\* A set of bars has for every event of another one that is as good or better.
Covers(bars, events) ==
  \A a \in events : \E b \in bars : SameKey(a, b) /\ (b = a \/ Wins(b, a))

\* The canonical bars of a set of events are the bars that cover it, one each.
LEMMA CoversAreWinners ==
  ASSUME NEW events \in SUBSET Events, NEW bars \in SUBSET events,
         OnePer(bars), Covers(bars, events)
  PROVE  bars = Winners(events)
<1>1. ASSUME NEW b \in bars PROVE b \in Winners(events)
  <2>1. SUFFICES ASSUME NEW f \in events, SameKey(b, f), b # f PROVE Wins(b, f)
    BY DEF Winners
  <2>2. PICK c \in bars : SameKey(f, c) /\ (c = f \/ Wins(c, f))
    BY DEF Covers
  <2>3. c = b
    BY <2>1, <2>2 DEF OnePer, SameKey
  <2> QED
    BY <2>1, <2>2, <2>3
<1>2. ASSUME NEW e \in Winners(events) PROVE e \in bars
  <2>1. e \in events /\ \A f \in events : SameKey(e, f) /\ e # f => Wins(e, f)
    BY DEF Winners
  <2>2. PICK c \in bars : SameKey(e, c) /\ (c = e \/ Wins(c, e))
    BY <2>1 DEF Covers
  <2>3. c # e => Wins(e, c) /\ Wins(c, e)
    BY <2>1, <2>2
  <2> QED
    BY <2>1, <2>2, <2>3, WinsIsStrict
<1> QED
  BY <1>1, <1>2

\* A bar put in the place of its predecessor.
LEMMA ApplyRules ==
  ASSUME NEW bars, NEW event
  PROVE  /\ event \in Apply(bars, event)
         /\ \A b : b \in Apply(bars, event) <=> b = event \/ (b \in bars /\ ~SameKey(b, event))
         /\ OnePer(bars) => OnePer(Apply(bars, event))
BY DEF Apply, OnePer, SameKey

-----------------------------------------------------------------------------
(* Evaluations.                                                             *)

\* An evaluation depends on the bars only through its window.
LEMMA EvaluateByWindow ==
  ASSUME NEW X, NEW Y, NEW b, References(X, b) = References(Y, b)
  PROVE  Evaluate(X, b) = Evaluate(Y, b)
<1>1. Feature(X, b) = Feature(Y, b)
  BY DEF Feature
<1> QED
  BY <1>1 DEF Evaluate

\* What an evaluation says of its bar, its window and its outcome.
LEMMA EvaluateFields ==
  ASSUME NEW X, NEW b
  PROVE  /\ Of(Evaluate(X, b)) = b
         /\ Evaluate(X, b).feature = Feature(X, b)
         /\ Evaluate(X, b).feature.references = IF IsFuture(b) THEN {} ELSE References(X, b)
         /\ Evaluate(X, b).outcome \in {"fired", "not_fired", "suppressed"}
<1> DEFINE f == Feature(X, b)
<1>1. Evaluate(X, b) = Evaluation(f)
  BY DEF Evaluate
<1>2. f.bar = b /\ f.references = IF IsFuture(b) THEN {} ELSE References(X, b)
  BY DEF Feature
<1> HIDE DEF f
<1>3. Evaluation(f).feature = f /\ Evaluation(f).outcome \in {"fired", "not_fired", "suppressed"}
  BY DEF Evaluation
<1> QED
  BY <1>1, <1>2, <1>3 DEF Of, f

\* A future bar is evaluated without its window.
LEMMA EvaluateFuture ==
  ASSUME NEW X, NEW Y, NEW b, IsFuture(b)
  PROVE  Evaluate(X, b) = Evaluate(Y, b)
<1>1. Suppression(b, References(X, b)) = "future_evaluation_bar"
  BY DEF Suppression
<1>2. Suppression(b, References(Y, b)) = "future_evaluation_bar"
  BY DEF Suppression
<1>3. Feature(X, b) = Feature(Y, b)
  BY <1>1, <1>2 DEF Feature
<1> QED
  BY <1>3 DEF Evaluate

-----------------------------------------------------------------------------
(* Sets of bars by their starts.                                            *)

\* Bars of different minutes of a window are no more than its minutes.
LEMMA BarsOfWindow ==
  ASSUME NEW S \in SUBSET Events, \A a, b \in S : a.start = b.start => a = b,
         NEW lo \in Int, NEW hi \in Int, lo <= hi + 1, \A b \in S : b.start \in lo .. hi
  PROVE  IsFiniteSet(S) /\ Cardinality(S) \in Nat /\ Cardinality(S) <= hi - lo + 1
<1> DEFINE f == [b \in S |-> b.start]
<1>1. f \in Injection(S, lo .. hi)
  BY DEF Injection, IsInjective
<1>2. IsFiniteSet(lo .. hi) /\ Cardinality(lo .. hi) = IF lo > hi THEN 0 ELSE hi - lo + 1
  BY FS_Interval
<1> HIDE DEF f
<1>3. IsFiniteSet(S) /\ Cardinality(S) <= Cardinality(lo .. hi)
  BY <1>1, <1>2, FS_Injection
<1>4. Cardinality(S) \in Nat
  BY <1>3, FS_CardinalityType
<1> QED
  BY <1>2, <1>3, <1>4

\* The bars a change affects are no more than a window and itself.
LEMMA AffectedBound ==
  ASSUME NEW bars \in SUBSET Events, OnePer(bars), NEW event \in Events
  PROVE  /\ IsFiniteSet(Affected(bars, event))
         /\ Cardinality(Affected(bars, event)) \in Nat
         /\ Cardinality(Affected(bars, event)) <= Lookback + 1
<1> DEFINE S == Affected(bars, event)
           lo == event.start
           hi == event.start + Lookback
<1>1. lo \in Int /\ hi \in Int /\ lo <= hi + 1 /\ hi - lo + 1 = Lookback + 1
  BY EventFields
<1>2. S \in SUBSET Events
  BY DEF Affected
<1>3. \A a, b \in S : a.start = b.start => a = b
  BY DEF Affected, OnePer, SameKey
<1>4. \A b \in S : b.start \in lo .. hi
  BY <1>2, EventFields DEF Affected
<1> HIDE DEF S, lo, hi
<1>5. IsFiniteSet(S) /\ Cardinality(S) \in Nat /\ Cardinality(S) <= hi - lo + 1
  BY <1>1, <1>2, <1>3, <1>4, BarsOfWindow
<1>6. IsFiniteSet(S) /\ Cardinality(S) \in Nat /\ Cardinality(S) <= Lookback + 1
  BY <1>1, <1>5
<1> QED
  BY <1>6 DEF S

ApartByStart(S) ==
  /\ \A a \in S : Of(a).start \in Int
  /\ \A a, b \in S : Of(a).start = Of(b).start => a = b

\* The evaluations up to one of them.
Upto(S, e) == {x \in S : Of(x).start <= Of(e).start}

\* Evaluations of different minutes can be put in order, each once.
LEMMA ByStartRules ==
  ASSUME NEW S, IsFiniteSet(S), ApartByStart(S)
  PROVE  /\ Cardinality(S) \in Nat
         /\ ByStart(S) \in [1 .. Cardinality(S) -> S]
         /\ \A i, j \in 1 .. Cardinality(S) : ByStart(S)[i] = ByStart(S)[j] => i = j
         /\ \A e \in S : \E i \in 1 .. Cardinality(S) : ByStart(S)[i] = e
<1> DEFINE n == Cardinality(S)
           rank == [e \in S |-> Cardinality(Upto(S, e))]
           sorted(o) == \A i, j \in 1 .. n : i < j => Of(o[i]).start < Of(o[j]).start
<1>1. n \in Nat /\ IsFiniteSet(1 .. n) /\ Cardinality(1 .. n) = n
  <2>1. n \in Nat
    BY FS_CardinalityType
  <2> HIDE DEF n
  <2> QED
    BY <2>1, FS_Interval
<1>2. \A e \in S : IsFiniteSet(Upto(S, e)) /\ Cardinality(Upto(S, e)) \in 1 .. n
  <2>1. TAKE e \in S
  <2>2. Upto(S, e) \in SUBSET S /\ e \in Upto(S, e)
    BY DEF ApartByStart, Upto
  <2> DEFINE U == Upto(S, e)
  <2>3. U \in SUBSET S /\ e \in U
    BY <2>2
  <2> HIDE DEF U
  <2>4. IsFiniteSet(U) /\ Cardinality(U) <= n
    BY <2>3, FS_Subset
  <2>5. Cardinality(U) \in Nat
    BY <2>4, FS_CardinalityType
  <2>6. Cardinality(U) # 0
    BY <2>3, <2>4, FS_EmptySet
  <2> HIDE DEF n
  <2>7. IsFiniteSet(U) /\ Cardinality(U) \in 1 .. n
    BY <1>1, <2>4, <2>5, <2>6
  <2> QED
    BY <2>7 DEF U
<1>3. \A a, b \in S : Of(a).start < Of(b).start => Cardinality(Upto(S, a)) < Cardinality(Upto(S, b))
  <2>1. SUFFICES ASSUME NEW a \in S, NEW b \in S, Of(a).start < Of(b).start
                 PROVE  Cardinality(Upto(S, a)) < Cardinality(Upto(S, b))
    OBVIOUS
  <2>2. \A x \in S : Of(x).start \in Int
    BY DEF ApartByStart
  <2>3. Upto(S, a) \in SUBSET Upto(S, b) /\ Upto(S, a) # Upto(S, b)
    <3>0. Of(a).start \in Int /\ Of(b).start \in Int
      BY <2>2
    <3>1. b \in Upto(S, b) /\ b \notin Upto(S, a)
      BY <2>1, <3>0 DEF Upto
    <3>2. \A x \in Upto(S, a) : x \in Upto(S, b)
      <4>1. TAKE x \in Upto(S, a)
      <4>2. x \in S /\ Of(x).start \in Int /\ Of(x).start <= Of(a).start
        BY <2>2 DEF Upto
      <4> QED
        BY <2>1, <3>0, <4>2 DEF Upto
    <3> QED
      BY <3>1, <3>2
  <2>4. IsFiniteSet(Upto(S, b)) /\ Cardinality(Upto(S, b)) \in Nat /\ Cardinality(Upto(S, a)) \in Nat
    BY <1>2
  <2>5. Cardinality(Upto(S, a)) <= Cardinality(Upto(S, b)) /\ Cardinality(Upto(S, a)) # Cardinality(Upto(S, b))
    BY <2>3, <2>4, FS_Subset
  <2> QED
    BY <2>4, <2>5
<1>4. rank \in Injection(S, 1 .. n)
  <2>1. rank \in [S -> 1 .. n]
    BY <1>2
  <2>2. ASSUME NEW a \in S, NEW b \in S, rank[a] = rank[b] PROVE a = b
    <3>1. Cardinality(Upto(S, a)) = Cardinality(Upto(S, b)) /\ Cardinality(Upto(S, a)) \in Int
      BY <1>2, <2>2
    <3>2. ~(Of(a).start < Of(b).start) /\ ~(Of(b).start < Of(a).start)
      BY <1>3, <3>1
    <3> QED
      BY <3>2 DEF ApartByStart
  <2> HIDE DEF rank
  <2> QED
    BY <2>1, <2>2 DEF Injection, IsInjective
<1>5. \A k \in 1 .. n : \E e \in S : rank[e] = k
  <2> HIDE DEF rank, n
  <2>1. Cardinality(S) = Cardinality(1 .. n)
    BY <1>1 DEF n
  <2>2. rank \in Surjection(S, 1 .. n)
    BY <1>1, <1>4, <2>1, FS_Injection
  <2> QED
    BY <2>2 DEF Surjection
<1> DEFINE g == [k \in 1 .. n |-> CHOOSE e \in S : rank[e] = k]
<1>6. \A k \in 1 .. n : g[k] \in S /\ rank[g[k]] = k
  <2> HIDE DEF rank, n
  <2> QED
    BY <1>5
<1>7. g \in [1 .. n -> S] /\ sorted(g)
  <2>1. g \in [1 .. n -> S]
    BY <1>6
  <2>2. ASSUME NEW i \in 1 .. n, NEW j \in 1 .. n, i < j PROVE Of(g[i]).start < Of(g[j]).start
    <3>1. g[i] \in S /\ g[j] \in S /\ Cardinality(Upto(S, g[i])) = i /\ Cardinality(Upto(S, g[j])) = j
      BY <1>6
    <3> HIDE DEF g, rank
    <3>2. ~(Of(g[j]).start < Of(g[i]).start)
      BY <1>3, <2>2, <3>1
    <3>3. g[i] # g[j]
      BY <2>2, <3>1
    <3> QED
      BY <3>1, <3>2, <3>3 DEF ApartByStart
  <2> HIDE DEF g, n
  <2> QED
    BY <2>1, <2>2
<1> HIDE DEF g
<1> DEFINE o == ByStart(S)
<1>8. o \in [1 .. n -> S] /\ sorted(o)
  BY <1>7 DEF ByStart
<1> HIDE DEF o
<1>9. ASSUME NEW i \in 1 .. n, NEW j \in 1 .. n, o[i] = o[j] PROVE i = j
  <2>1. o[i] \in S /\ Of(o[i]).start \in Int
    BY <1>8 DEF ApartByStart
  <2>2. ~(Of(o[i]).start < Of(o[j]).start) /\ ~(Of(o[j]).start < Of(o[i]).start)
    BY <1>9, <2>1
  <2>3. ~(i < j) /\ ~(j < i)
    BY <1>8, <2>2
  <2> HIDE DEF n
  <2> QED
    BY <1>1, <2>3
<1>10. o \in Injection(1 .. n, S)
  BY <1>8, <1>9 DEF Injection, IsInjective
<1>11. o \in Surjection(1 .. n, S)
  <2> HIDE DEF n
  <2>1. Cardinality(1 .. n) = Cardinality(S)
    BY <1>1 DEF n
  <2> QED
    BY <1>10, <2>1, FS_Injection
<1>12. \A e \in S : \E i \in 1 .. n : o[i] = e
  BY <1>11 DEF Surjection
<1> HIDE DEF n
<1>13. n \in Nat /\ o \in [1 .. n -> S] /\ (\A i, j \in 1 .. n : o[i] = o[j] => i = j)
         /\ \A e \in S : \E i \in 1 .. n : o[i] = e
  BY <1>1, <1>8, <1>9, <1>12
<1> QED
  BY <1>13 DEF n, o

-----------------------------------------------------------------------------
(* What a run knows after a prefix of its journal.                          *)

Known(base, rows, p) ==
  {b \in base : \A q \in 1 .. p : ~SameKey(rows[q].event, b)}
    \cup {rows[q].event : q \in {q \in 1 .. p :
            \A r \in 1 .. p : SameKey(rows[r].event, rows[q].event) => r <= q}}

LEMMA KnownMember ==
  ASSUME NEW base, NEW rows, NEW p, NEW b
  PROVE  b \in Known(base, rows, p) <=>
           \/ b \in base /\ \A q \in 1 .. p : ~SameKey(rows[q].event, b)
           \/ \E q \in 1 .. p : /\ b = rows[q].event
                                /\ \A r \in 1 .. p : SameKey(rows[r].event, b) => r <= q
BY DEF Known

LEMMA KnownStart ==
  ASSUME NEW base, NEW rows
  PROVE  Known(base, rows, 0) = base
<1>1. \A b : b \in Known(base, rows, 0) <=> b \in base
  BY KnownMember
<1> QED
  BY <1>1

\* The next row puts its event in the place of the one it replaces.
LEMMA KnownStep ==
  ASSUME NEW base, NEW rows, NEW p \in Nat
  PROVE  Known(base, rows, p + 1) = Apply(Known(base, rows, p), rows[p + 1].event)
<1> DEFINE e == rows[p + 1].event
           K == Known(base, rows, p)
           L == Known(base, rows, p + 1)
<1>1. \A q : q \in 1 .. (p + 1) <=> q \in 1 .. p \/ q = p + 1
  OBVIOUS
<1>2. \A q \in 1 .. p : q <= p + 1 /\ ~(p + 1 <= q) /\ q \in Nat
  OBVIOUS
<1>3. \A b : SameKey(e, b) <=> SameKey(b, e)
  BY DEF SameKey
<1> HIDE DEF e
<1>4. ASSUME NEW b, b \in L PROVE b = e \/ (b \in K /\ ~SameKey(b, e))
  <2>1. CASE b \in base /\ \A q \in 1 .. (p + 1) : ~SameKey(rows[q].event, b)
    <3>1. b \in K
      BY <1>1, <2>1, KnownMember DEF K
    <3>2. ~SameKey(e, b)
      BY <1>1, <2>1 DEF e
    <3> QED
      BY <1>3, <3>1, <3>2
  <2>2. ASSUME NEW q \in 1 .. (p + 1), b = rows[q].event,
               \A r \in 1 .. (p + 1) : SameKey(rows[r].event, b) => r <= q
        PROVE  b = e \/ (b \in K /\ ~SameKey(b, e))
    <3>1. CASE q = p + 1
      BY <2>2, <3>1 DEF e
    <3>2. CASE q \in 1 .. p
      <4>1. b \in K
        BY <1>1, <2>2, <3>2, KnownMember DEF K
      <4>2. ~SameKey(e, b)
        BY <1>1, <1>2, <2>2, <3>2 DEF e
      <4> QED
        BY <1>3, <4>1, <4>2
    <3> QED
      BY <1>1, <3>1, <3>2
  <2> QED
    BY <1>4, <2>1, <2>2, KnownMember DEF L
<1>5. e \in L
  <2>1. p + 1 \in 1 .. (p + 1) /\ \A r \in 1 .. (p + 1) : r <= p + 1
    OBVIOUS
  <2> QED
    BY <2>1, KnownMember DEF e, L
<1>6. ASSUME NEW b \in K, ~SameKey(b, e) PROVE b \in L
  <2>1. CASE b \in base /\ \A q \in 1 .. p : ~SameKey(rows[q].event, b)
    <3>1. \A q \in 1 .. (p + 1) : ~SameKey(rows[q].event, b)
      BY <1>1, <1>3, <1>6, <2>1 DEF e
    <3> QED
      BY <2>1, <3>1, KnownMember DEF L
  <2>2. ASSUME NEW q \in 1 .. p, b = rows[q].event,
               \A r \in 1 .. p : SameKey(rows[r].event, b) => r <= q
        PROVE  b \in L
    <3>1. q \in 1 .. (p + 1)
      OBVIOUS
    <3>2. \A r \in 1 .. (p + 1) : SameKey(rows[r].event, b) => r <= q
      BY <1>1, <1>3, <1>6, <2>2 DEF e
    <3> QED
      BY <2>2, <3>1, <3>2, KnownMember DEF L
  <2> QED
    BY <2>1, <2>2, KnownMember DEF K
<1>7. \A b : b \in L <=> b = e \/ (b \in K /\ ~SameKey(b, e))
  BY <1>4, <1>5, <1>6
<1> HIDE DEF K, L
<1>8. L = Apply(K, e)
  BY <1>7, ApplyRules
<1> QED
  BY <1>8 DEF K, L, e

\* What is known has one bar for a minute and is among what has arrived.
LEMMA KnownRules ==
  ASSUME NEW base, NEW rows, NEW p \in Nat, NEW all,
         OnePer(base), base \subseteq all, \A q \in 1 .. p : rows[q].event \in all
  PROVE  OnePer(Known(base, rows, p)) /\ Known(base, rows, p) \subseteq all
<1> DEFINE K == Known(base, rows, p)
<1>1. K \subseteq all
  BY KnownMember
<1>2. ASSUME NEW a \in K, NEW b \in K, SameKey(a, b) PROVE a = b
  <2>0. SameKey(b, a) /\ SameKey(a, a) /\ SameKey(b, b)
    BY <1>2 DEF SameKey
  <2>1. ASSUME a \in base, \A q \in 1 .. p : ~SameKey(rows[q].event, a) PROVE a = b
    <3>1. ~ \E q \in 1 .. p : b = rows[q].event
      BY <2>0, <2>1
    <3>2. b \in base
      BY <3>1, KnownMember
    <3> QED
      BY <1>2, <2>1, <3>2 DEF OnePer
  <2>2. ASSUME b \in base, \A q \in 1 .. p : ~SameKey(rows[q].event, b) PROVE a = b
    <3>1. ~ \E q \in 1 .. p : a = rows[q].event
      BY <1>2, <2>2
    <3>2. a \in base
      BY <3>1, KnownMember
    <3> QED
      BY <1>2, <2>2, <3>2 DEF OnePer
  <2>3. ASSUME NEW q \in 1 .. p, a = rows[q].event,
               \A r \in 1 .. p : SameKey(rows[r].event, a) => r <= q,
               NEW t \in 1 .. p, b = rows[t].event,
               \A r \in 1 .. p : SameKey(rows[r].event, b) => r <= t
        PROVE  a = b
    <3>1. q <= t /\ t <= q
      BY <1>2, <2>0, <2>3
    <3>2. q = t
      BY <3>1
    <3> QED
      BY <2>3, <3>2
  <2> QED
    BY <2>1, <2>2, <2>3, KnownMember
<1> HIDE DEF K
<1>3. OnePer(K)
  BY <1>2 DEF OnePer
<1> QED
  BY <1>1, <1>3 DEF K

\* What is known after a prefix depends on the prefix only.
LEMMA KnownPrefix ==
  ASSUME NEW base, NEW rows, NEW more, NEW p, \A q \in 1 .. p : more[q] = rows[q]
  PROVE  Known(base, more, p) = Known(base, rows, p)
<1>1. \A b : b \in Known(base, more, p) <=> b \in Known(base, rows, p)
  BY KnownMember
<1> QED
  BY <1>1

-----------------------------------------------------------------------------
(* What a revision makes of the current evaluations.                        *)

\* The bars of the session of an event.
SessionPart(X, event) ==
  {b \in X : b.series = event.series /\ Session(b.start) = Session(event.start)}

Owned(X, boundary) == {b \in X : b.start >= boundary[b.series]}

\* The evaluations of a run that knows the bars X.
Current(X, boundary) == {Evaluate(X, b) : b \in Owned(X, boundary)}

Before(event, boundary) == event.start + Lookback < boundary[event.series]

\* A row that the writer of the journal wrote over the bars X.
Honest(X, row, boundary) ==
  /\ row.operation = "insert" => \A b \in X : ~SameKey(b, row.event)
  /\ \/ row.operation = "insert" \/ Before(row.event, boundary)
     \/ \E b \in X : SameKey(b, row.event)
  /\ \A b \in X : SameKey(b, row.event) => b.id = row.previous /\ Wins(row.event, b)

Unheard(X, row) == row.operation = "replace" /\ \A b \in X : ~SameKey(b, row.event)

\* The evaluations of the bars that a row affects.
Renewed(X, event, boundary) ==
  LET next == Apply(SessionPart(X, event), event)
  IN  {Evaluate(next, b) : b \in Owned(Affected(next, event), boundary)}

Delta(X, row, boundary) ==
  IF Unheard(X, row) THEN {} ELSE Renewed(X, row.event, boundary)

\* The session of an event is enough to find and evaluate what it affects.
LEMMA SessionIsEnough ==
  ASSUME NEW X, NEW event
  PROVE  LET next == Apply(SessionPart(X, event), event)
             all == Apply(X, event)
         IN  /\ Affected(next, event) = Affected(all, event)
             /\ \A b \in Affected(all, event) :
                  /\ References(next, b) = References(all, b)
                  /\ Evaluate(next, b) = Evaluate(all, b)
<1> DEFINE next == Apply(SessionPart(X, event), event)
           all == Apply(X, event)
<1>1. \A b : b \in next <=> b = event \/ (b \in SessionPart(X, event) /\ ~SameKey(b, event))
  BY ApplyRules
<1>2. \A b : b \in all <=> b = event \/ (b \in X /\ ~SameKey(b, event))
  BY ApplyRules
<1> HIDE DEF next, all
<1>3. \A b : b \in next <=>
        b \in all /\ b.series = event.series /\ Session(b.start) = Session(event.start)
  BY <1>1, <1>2 DEF SessionPart
<1>4. Affected(next, event) = Affected(all, event)
  BY <1>3 DEF Affected
<1>5. ASSUME NEW b \in Affected(all, event)
      PROVE  References(next, b) = References(all, b) /\ Evaluate(next, b) = Evaluate(all, b)
  <2>1. b.series = event.series /\ Session(b.start) = Session(event.start)
    BY DEF Affected
  <2>2. \A c : c \in References(next, b) <=> c \in References(all, b)
    BY <1>3, <2>1 DEF References, ExpectedStarts
  <2>3. References(next, b) = References(all, b)
    BY <2>2
  <2> QED
    BY <2>3, EvaluateByWindow
<1>6. /\ Affected(next, event) = Affected(all, event)
      /\ \A b \in Affected(all, event) :
           References(next, b) = References(all, b) /\ Evaluate(next, b) = Evaluate(all, b)
  BY <1>4, <1>5
<1> QED
  BY <1>6 DEF next, all

\* A bar that an event does not affect keeps its window.
LEMMA UnaffectedKeepsWindow ==
  ASSUME NEW X \in SUBSET Events, NEW event \in Events, NEW b \in Apply(X, event),
         b \notin Affected(Apply(X, event), event)
  PROVE  /\ b \in X /\ ~SameKey(b, event)
         /\ References(Apply(X, event), b) = References(X, b)
         /\ Evaluate(Apply(X, event), b) = Evaluate(X, b)
<1> DEFINE Y == Apply(X, event)
<1>1. \A c : c \in Y <=> c = event \/ (c \in X /\ ~SameKey(c, event))
  BY ApplyRules
<1>2. event \in Affected(Y, event)
  BY <1>1, EventFields DEF Affected
<1>3. b \in X /\ ~SameKey(b, event) /\ b \in Events /\ b \in Y
  BY <1>1, <1>2
<1>4. ~(event.series = b.series /\ event.start \in ExpectedStarts(b))
  <2>1. SUFFICES ASSUME event.series = b.series, event.start \in ExpectedStarts(b) PROVE FALSE
    OBVIOUS
  <2>2. /\ b.start \in Int /\ event.start \in Int /\ Lookback \in Int
    BY <1>3, EventFields
  <2>3. event.start <= b.start /\ b.start <= event.start + Lookback
        /\ Session(event.start) = Session(b.start)
    BY <2>1, <2>2 DEF ExpectedStarts
  <2> HIDE DEF Y
  <2> QED
    BY <1>3, <2>1, <2>3 DEF Affected, Y
<1> HIDE DEF Y
<1>5. \A c : c \in References(Y, b) <=> c \in References(X, b)
  BY <1>1, <1>4 DEF References, SameKey
<1>6. References(Y, b) = References(X, b)
  BY <1>5
<1>7. Evaluate(Y, b) = Evaluate(X, b)
  BY <1>6, EvaluateByWindow
<1> QED
  BY <1>3, <1>6, <1>7 DEF Y

\* Replacing the evaluations of the affected bars makes all evaluations current.
LEMMA CurrentStep ==
  ASSUME NEW X \in SUBSET Events, OnePer(X), NEW event \in Events, NEW boundary
  PROVE  Superseding(Current(X, boundary), Renewed(X, event, boundary))
           = Current(Apply(X, event), boundary)
<1> DEFINE Y == Apply(X, event)
           A == Affected(Y, event)
           R == Renewed(X, event, boundary)
<1>1. \A b : b \in Y <=> b = event \/ (b \in X /\ ~SameKey(b, event))
  BY ApplyRules
<1>2. OnePer(Y) /\ event \in Y
  BY ApplyRules
<1>3. \A b \in Y : b \notin A =>
        b \in X /\ ~SameKey(b, event) /\ Evaluate(Y, b) = Evaluate(X, b)
  BY UnaffectedKeepsWindow
<1>4. \A b \in A : b \in Y
  BY DEF Affected
<1>5. event \in A
  BY <1>2, EventFields DEF Affected
<1>6. \A x : x \in R <=> \E b \in A : b.start >= boundary[b.series] /\ x = Evaluate(Y, b)
  <2> DEFINE next == Apply(SessionPart(X, event), event)
  <2>1. Affected(next, event) = A /\ \A b \in A : Evaluate(next, b) = Evaluate(Y, b)
    BY SessionIsEnough
  <2>2. R = {Evaluate(next, b) : b \in Owned(Affected(next, event), boundary)}
    BY DEF Renewed
  <2> HIDE DEF next, Y, A, R
  <2>3. \A x : x \in R <=> \E b \in Owned(A, boundary) : x = Evaluate(next, b)
    BY <2>1, <2>2
  <2> QED
    BY <2>1, <2>3 DEF Owned
<1>7. \A Z, x : x \in Current(Z, boundary) <=>
        \E b \in Z : b.start >= boundary[b.series] /\ x = Evaluate(Z, b)
  BY DEF Current, Owned
<1>8. \A Z, b : Of(Evaluate(Z, b)) = b
  BY EvaluateFields
<1> DEFINE C == Current(X, boundary)
           D == Current(Y, boundary)
           S == Superseding(C, R)
<1>9. \A x : x \in S <=> x \in R \/ (x \in C /\ \A e \in R : ~SameKey(Of(x), Of(e)))
  BY DEF Superseding
<1> HIDE DEF A, R, C, D, S
<1>10. ASSUME NEW x \in S PROVE x \in D
  <2>1. CASE x \in R
    BY <1>4, <1>6, <1>7, <2>1 DEF D
  <2>2. CASE x \in C /\ \A e \in R : ~SameKey(Of(x), Of(e))
    <3>1. PICK b \in X : b.start >= boundary[b.series] /\ x = Evaluate(X, b)
      BY <1>7, <2>2 DEF C
    <3>2. Of(x) = b
      BY <1>8, <3>1
    <3>3. ~SameKey(b, event)
      <4>1. SUFFICES ASSUME SameKey(b, event) PROVE FALSE
        OBVIOUS
      <4>2. event.start >= boundary[event.series]
        BY <3>1, <4>1 DEF SameKey
      <4>3. Evaluate(Y, event) \in R
        BY <1>5, <1>6, <4>2
      <4> QED
        BY <1>8, <2>2, <3>2, <4>1, <4>3
    <3>4. b \in Y
      BY <1>1, <3>3
    <3>5. b \notin A
      <4>1. SUFFICES ASSUME b \in A PROVE FALSE
        OBVIOUS
      <4>2. Evaluate(Y, b) \in R
        BY <1>6, <3>1, <4>1
      <4>3. SameKey(b, b)
        BY DEF SameKey
      <4> QED
        BY <1>8, <2>2, <3>2, <4>2, <4>3
    <3>6. x = Evaluate(Y, b)
      BY <1>3, <3>1, <3>4, <3>5
    <3> QED
      BY <1>7, <3>1, <3>4, <3>6 DEF D
  <2> QED
    BY <1>9, <2>1, <2>2
<1>11. ASSUME NEW x \in D PROVE x \in S
  <2>1. PICK b \in Y : b.start >= boundary[b.series] /\ x = Evaluate(Y, b)
    BY <1>7 DEF D
  <2>2. CASE b \in A
    BY <1>6, <1>9, <2>1, <2>2
  <2>3. CASE b \notin A
    <3>1. b \in X /\ x = Evaluate(X, b)
      BY <1>3, <2>1, <2>3
    <3>2. x \in C
      BY <1>7, <2>1, <3>1 DEF C
    <3>3. \A e \in R : ~SameKey(Of(x), Of(e))
      <4>1. SUFFICES ASSUME NEW e \in R, SameKey(Of(x), Of(e)) PROVE FALSE
        OBVIOUS
      <4>2. PICK c \in A : e = Evaluate(Y, c)
        BY <1>6
      <4>3. SameKey(b, c) /\ c \in Y
        BY <1>4, <1>8, <2>1, <4>1, <4>2
      <4> QED
        BY <1>2, <2>3, <4>2, <4>3 DEF OnePer
    <3> QED
      BY <1>9, <3>2, <3>3
  <2> QED
    BY <2>2, <2>3
<1>12. S = D
  BY <1>10, <1>11
<1> QED
  BY <1>12 DEF S, D, C, R

\* A change whose influence ends before the boundary changes nothing.
LEMMA CurrentIdle ==
  ASSUME NEW X \in SUBSET Events, NEW event \in Events, NEW boundary \in [Series -> Int],
         Before(event, boundary), \A b \in X : ~SameKey(b, event)
  PROVE  Current(Apply(X, event), boundary) = Current(X, boundary)
<1> DEFINE Y == Apply(X, event)
<1>1. \A b : b \in Y <=> b = event \/ b \in X
  BY ApplyRules
<1>2. ASSUME NEW b \in X, b.start >= boundary[b.series] PROVE b \notin Affected(Y, event)
  <2>1. b \in Events /\ b.start \in Int /\ event.start \in Int /\ boundary[event.series] \in Int
        /\ Lookback \in Int
    BY EventFields
  <2>2. event.start + Lookback < boundary[event.series]
    BY DEF Before
  <2> HIDE DEF Y
  <2> QED
    BY <1>2, <2>1, <2>2 DEF Affected
<1>3. ~(event.start >= boundary[event.series])
  <2>1. event.start \in Int /\ boundary[event.series] \in Int /\ Lookback \in Nat
    BY EventFields
  <2> QED
    BY <2>1 DEF Before
<1>4. \A b \in X : b.start >= boundary[b.series] => Evaluate(Y, b) = Evaluate(X, b)
  BY <1>1, <1>2, UnaffectedKeepsWindow
<1> HIDE DEF Y
<1>5. \A x : x \in Current(Y, boundary) <=> x \in Current(X, boundary)
  BY <1>1, <1>3, <1>4 DEF Current, Owned
<1>6. Current(Y, boundary) = Current(X, boundary)
  BY <1>5
<1> QED
  BY <1>6 DEF Y

\* What a worker computes of an honest row makes the evaluations current.
LEMMA DeltaStep ==
  ASSUME NEW X \in SUBSET Events, OnePer(X), NEW row, row.event \in Events,
         NEW boundary \in [Series -> Int], Honest(X, row, boundary)
  PROVE  Superseding(Current(X, boundary), Delta(X, row, boundary))
           = Current(Apply(X, row.event), boundary)
<1>1. CASE Unheard(X, row)
  <2>1. \A b \in X : ~SameKey(b, row.event)
    BY <1>1 DEF Unheard
  <2>2. Before(row.event, boundary)
    BY <1>1, <2>1 DEF Honest, Unheard
  <2>3. Delta(X, row, boundary) = {}
    BY <1>1 DEF Delta
  <2>4. Superseding(Current(X, boundary), {}) = Current(X, boundary)
    BY DEF Superseding
  <2> QED
    BY <2>1, <2>2, <2>3, <2>4, CurrentIdle
<1>2. CASE ~Unheard(X, row)
  BY <1>2, CurrentStep DEF Delta
<1> QED
  BY <1>1, <1>2

-----------------------------------------------------------------------------
(* The evaluations of a bar only grow.                                      *)

Window(e) == e.feature.references

\* An evaluation of stored events that follows from its own evidence.
Sound(e, all) ==
  /\ e = Evaluate(Window(e), Of(e))
  /\ OnePer(Window(e)) /\ EvidenceOf(e) \subseteq all

\* e rests on the bar of d or a better one, and then on a window as good.
Grows(d, e) ==
  /\ SameKey(Of(d), Of(e))
  /\ \/ Wins(Of(e), Of(d))
     \/ Of(d) = Of(e) /\ Covers(Window(e), Window(d))

LEMMA EvaluateIsSound ==
  ASSUME NEW all \in SUBSET Events, NEW X \in SUBSET all, OnePer(X), NEW b \in X
  PROVE  Sound(Evaluate(X, b), all)
<1> DEFINE e == Evaluate(X, b)
<1>1. Of(e) = b /\ Window(e) = IF IsFuture(b) THEN {} ELSE References(X, b)
  BY EvaluateFields DEF Window
<1> HIDE DEF e
<1>2. e = Evaluate(Window(e), b)
  <2>1. CASE IsFuture(b)
    BY <2>1, EvaluateFuture DEF e
  <2>2. CASE ~IsFuture(b)
    <3>1. References(References(X, b), b) = References(X, b)
      BY DEF References
    <3> QED
      BY <1>1, <2>2, <3>1, EvaluateByWindow DEF e
  <2> QED
    BY <2>1, <2>2
<1>3. Window(e) \subseteq X
  BY <1>1 DEF References
<1>4. OnePer(Window(e)) /\ EvidenceOf(e) \subseteq all
  BY <1>1, <1>3 DEF OnePer, EvidenceOf, Window
<1> QED
  BY <1>1, <1>2, <1>4 DEF Sound, e

LEMMA CoversIsTransitive ==
  ASSUME NEW X \in SUBSET Events, NEW Y \in SUBSET Events, NEW Z \in SUBSET Events,
         Covers(Y, X), Covers(Z, Y)
  PROVE  Covers(Z, X)
<1>1. SUFFICES ASSUME NEW a \in X PROVE \E c \in Z : SameKey(a, c) /\ (c = a \/ Wins(c, a))
  BY DEF Covers
<1>2. PICK b \in Y : SameKey(a, b) /\ (b = a \/ Wins(b, a))
  BY DEF Covers
<1>3. PICK c \in Z : SameKey(b, c) /\ (c = b \/ Wins(c, b))
  BY DEF Covers
<1>4. SameKey(a, c)
  BY <1>2, <1>3 DEF SameKey
<1> QED
  BY <1>2, <1>3, <1>4, WinsIsTransitive

\* Two sets of bars that cover each other are the same.
LEMMA CoversIsAntisymmetric ==
  ASSUME NEW X \in SUBSET Events, NEW Y \in SUBSET Events, OnePer(X), OnePer(Y),
         Covers(X, Y), Covers(Y, X)
  PROVE  X \subseteq Y
<1>1. SUFFICES ASSUME NEW x \in X PROVE x \in Y
  OBVIOUS
<1>2. PICK y \in Y : SameKey(x, y) /\ (y = x \/ Wins(y, x))
  BY DEF Covers
<1>3. PICK z \in X : SameKey(y, z) /\ (z = y \/ Wins(z, y))
  BY DEF Covers
<1>4. z = x
  BY <1>2, <1>3 DEF OnePer, SameKey
<1> QED
  BY <1>2, <1>3, <1>4, WinsIsStrict

LEMMA SoundFields ==
  ASSUME NEW all \in SUBSET Events, NEW e, Sound(e, all)
  PROVE  Of(e) \in Events /\ Window(e) \in SUBSET Events
BY DEF Sound, EvidenceOf, Window

LEMMA GrowsIsTransitive ==
  ASSUME NEW all \in SUBSET Events, NEW c, NEW d, NEW e,
         Sound(c, all), Sound(d, all), Sound(e, all), Grows(c, d), Grows(d, e)
  PROVE  Grows(c, e)
<1>1. /\ Of(c) \in Events /\ Of(d) \in Events /\ Of(e) \in Events
      /\ Window(c) \in SUBSET Events /\ Window(d) \in SUBSET Events
      /\ Window(e) \in SUBSET Events
  BY SoundFields
<1>2. SameKey(Of(c), Of(e))
  BY DEF Grows, SameKey
<1>3. CASE Wins(Of(e), Of(d))
  <2>1. Wins(Of(e), Of(c))
    BY <1>1, <1>3, WinsIsTransitive DEF Grows
  <2> QED
    BY <1>2, <2>1 DEF Grows
<1>4. CASE Of(d) = Of(e) /\ Covers(Window(e), Window(d))
  <2>1. CASE Wins(Of(d), Of(c))
    BY <1>2, <1>4, <2>1 DEF Grows
  <2>2. CASE Of(c) = Of(d) /\ Covers(Window(d), Window(c))
    <3>1. Covers(Window(e), Window(c))
      BY <1>1, <1>4, <2>2, CoversIsTransitive
    <3> QED
      BY <1>2, <1>4, <2>2, <3>1 DEF Grows
  <2> QED
    BY <2>1, <2>2 DEF Grows
<1> QED
  BY <1>3, <1>4 DEF Grows

LEMMA GrowsIsAntisymmetric ==
  ASSUME NEW all \in SUBSET Events, NEW d, NEW e,
         Sound(d, all), Sound(e, all), Grows(d, e), Grows(e, d)
  PROVE  d = e
<1>1. /\ Of(d) \in Events /\ Of(e) \in Events
      /\ Window(d) \in SUBSET Events /\ Window(e) \in SUBSET Events
  BY SoundFields
<1>2. ~(Wins(Of(e), Of(d)) /\ Wins(Of(d), Of(e))) /\ ~Wins(Of(d), Of(d))
  BY <1>1, WinsIsStrict
<1>3. /\ Of(d) = Of(e)
      /\ Covers(Window(e), Window(d)) /\ Covers(Window(d), Window(e))
  BY <1>2 DEF Grows
<1>4. OnePer(Window(d)) /\ OnePer(Window(e))
  BY DEF Sound
<1>5. Window(d) = Window(e)
  <2>1. Window(d) \subseteq Window(e) /\ Window(e) \subseteq Window(d)
    BY <1>1, <1>3, <1>4, CoversIsAntisymmetric
  <2> QED
    BY <2>1
<1> QED
  BY <1>3, <1>5 DEF Sound

\* The evaluation of a bar after an honest row grows out of the one before it.
LEMMA GrowsStep ==
  ASSUME NEW X \in SUBSET Events, OnePer(X), NEW row, row.event \in Events, NEW boundary,
         Honest(X, row, boundary), NEW b \in X, NEW c \in Apply(X, row.event), SameKey(b, c)
  PROVE  Grows(Evaluate(X, b), Evaluate(Apply(X, row.event), c))
<1> DEFINE event == row.event
           Y == Apply(X, event)
           d == Evaluate(X, b)
           e == Evaluate(Y, c)
<1>1. \A x : x \in Y <=> x = event \/ (x \in X /\ ~SameKey(x, event))
  BY ApplyRules
<1>2. \A x \in X : SameKey(x, event) => Wins(event, x)
  BY DEF Honest
<1>3. /\ Of(d) = b /\ Window(d) = IF IsFuture(b) THEN {} ELSE References(X, b)
      /\ Of(e) = c /\ Window(e) = IF IsFuture(c) THEN {} ELSE References(Y, c)
  BY EvaluateFields DEF Window
<1> HIDE DEF event, Y, d, e
<1>4. ASSUME c = event PROVE Grows(d, e)
  BY <1>2, <1>3, <1>4 DEF Grows
<1>5. ASSUME c # event PROVE Grows(d, e)
  <2>1. c = b
    BY <1>1, <1>5 DEF OnePer, Y, event
  <2>2. ASSUME NEW x \in Window(d)
        PROVE  \E y \in Window(e) : SameKey(x, y) /\ (y = x \/ Wins(y, x))
    <3>1. ~IsFuture(b) /\ x \in References(X, b) /\ Window(e) = References(Y, b)
      BY <1>3, <2>1, <2>2
    <3>2. x \in X /\ x.series = b.series /\ x.start \in ExpectedStarts(b)
      BY <3>1 DEF References
    <3>3. CASE SameKey(x, event)
      <4>1. event \in References(Y, b)
        BY <1>1, <3>2, <3>3 DEF References, SameKey
      <4> QED
        BY <1>2, <3>1, <3>2, <3>3, <4>1
    <3>4. CASE ~SameKey(x, event)
      <4>1. x \in References(Y, b) /\ SameKey(x, x)
        BY <1>1, <3>2, <3>4 DEF References, SameKey
      <4> QED
        BY <3>1, <4>1
    <3> QED
      BY <3>3, <3>4
  <2>3. Covers(Window(e), Window(d))
    BY <2>2 DEF Covers
  <2> QED
    BY <1>3, <2>1, <2>3 DEF Grows
<1>6. Grows(d, e)
  BY <1>4, <1>5
<1> QED
  BY <1>6 DEF d, e, Y, event

\* What a worker computes of a row is finite, in different minutes and current.
LEMMA DeltaRules ==
  ASSUME NEW X \in SUBSET Events, OnePer(X), NEW row, row.event \in Events, NEW boundary
  PROVE  LET D == Delta(X, row, boundary)
         IN  /\ IsFiniteSet(D) /\ ApartByStart(D)
             /\ \A e \in D : e \in Current(Apply(X, row.event), boundary)
             /\ \A d, e \in D : SameKey(Of(d), Of(e)) => d = e
<1> DEFINE event == row.event
           D == Delta(X, row, boundary)
           next == Apply(SessionPart(X, event), event)
           Y == Apply(X, event)
           O == Owned(Affected(next, event), boundary)
           f == [b \in O |-> Evaluate(next, b)]
<1>1. CASE Unheard(X, row)
  <2>1. D = {}
    BY <1>1 DEF Delta
  <2>2. IsFiniteSet(D) /\ ApartByStart(D)
        /\ (\A e \in D : e \in Current(Y, boundary))
        /\ \A d, e \in D : SameKey(Of(d), Of(e)) => d = e
    BY <2>1, FS_EmptySet DEF ApartByStart
  <2> QED
    BY <2>2
<1>2. CASE ~Unheard(X, row)
  <2>1. \A x : x \in D <=> \E b \in O : x = Evaluate(next, b)
    BY <1>2 DEF Delta, Renewed
  <2>2. next \in SUBSET Events /\ OnePer(next) /\ event \in Events
    <3>1. SessionPart(X, event) \in SUBSET Events /\ OnePer(SessionPart(X, event))
      BY DEF SessionPart, OnePer
    <3> QED
      BY <3>1, ApplyRules
  <2>3. Affected(next, event) = Affected(Y, event)
        /\ \A b \in Affected(Y, event) : Evaluate(next, b) = Evaluate(Y, b)
    BY SessionIsEnough
  <2> HIDE DEF next, Y, event
  <2>4. \A b \in O : /\ b \in Affected(next, event) /\ b.start >= boundary[b.series]
                     /\ b \in next /\ b \in Events /\ b.series = event.series
                     /\ b.start \in Int
    BY <2>2, EventFields DEF Owned, Affected
  <2>5. \A b \in O : b \in Y /\ Evaluate(next, b) = Evaluate(Y, b)
    BY <2>3, <2>4 DEF Affected
  <2>6. \A b \in O : Of(Evaluate(next, b)) = b
    BY EvaluateFields
  <2>7. IsFiniteSet(O)
    <3>1. IsFiniteSet(Affected(next, event)) /\ O \in SUBSET Affected(next, event)
      BY <2>2, <2>4, AffectedBound
    <3> HIDE DEF O
    <3> QED
      BY <3>1, FS_Subset
  <2> HIDE DEF O, D
  <2>8. f \in Surjection(O, D)
    BY <2>1 DEF Surjection
  <2> HIDE DEF f
  <2>9. IsFiniteSet(D)
    BY <2>7, <2>8, FS_Surjection
  <2>10. \A a, b \in O : a.start = b.start => a = b
    BY <2>2, <2>4 DEF OnePer, SameKey
  <2>11. ApartByStart(D)
    <3>1. \A d \in D : \E b \in O : d = Evaluate(next, b) /\ Of(d) = b /\ b.start \in Int
      BY <2>1, <2>4, <2>6
    <3> QED
      BY <2>10, <3>1 DEF ApartByStart
  <2>12. \A e \in D : e \in Current(Y, boundary)
    <3>1. \A b \in O : b.start >= boundary[b.series]
      BY <2>4
    <3> QED
      BY <2>1, <2>5, <3>1 DEF Current, Owned
  <2>13. \A d, e \in D : SameKey(Of(d), Of(e)) => d = e
    BY <2>11 DEF ApartByStart, SameKey
  <2>14. IsFiniteSet(D) /\ ApartByStart(D)
        /\ (\A e \in D : e \in Current(Y, boundary))
        /\ \A d, e \in D : SameKey(Of(d), Of(e)) => d = e
    BY <2>9, <2>11, <2>12, <2>13
  <2> QED
    BY <2>14 DEF D, Y, event
<1> QED
  BY <1>1, <1>2

-----------------------------------------------------------------------------
(* The work on a revision.                                                  *)

\* A worker rebuilds the part of a session of what the run knows.
LEMMA SessionBarsRule ==
  ASSUME NEW bar, NEW p \in Nat
  PROVE  SessionBars(bar, p) = SessionPart(Known(run.base, journal, p), bar)
<1> DEFINE revised == {q \in 1 .. p : /\ journal[q].event.series = bar.series
                                      /\ Session(journal[q].event.start) = Session(bar.start)}
           S == SessionBars(bar, p)
           P == SessionPart(Known(run.base, journal, p), bar)
           in(b) == b.series = bar.series /\ Session(b.start) = Session(bar.start)
<1>1. \A b : b \in S <=>
        \/ b \in run.base /\ in(b) /\ \A q \in revised : journal[q].event.start # b.start
        \/ \E q \in revised : /\ b = journal[q].event
                              /\ \A r \in revised : journal[r].event.start = b.start => r <= q
  BY DEF SessionBars
<1>2. \A b : b \in P <=> in(b) /\ b \in Known(run.base, journal, p)
  BY DEF SessionPart
<1>3. \A b, q : in(b) =>
        (q \in 1 .. p /\ SameKey(journal[q].event, b)
           <=> q \in revised /\ journal[q].event.start = b.start)
  BY DEF SameKey
<1>4. \A q : q \in revised <=> q \in 1 .. p /\ in(journal[q].event)
  OBVIOUS
<1> HIDE DEF S, P, revised, in
<1>5. ASSUME NEW b \in S PROVE b \in P
  <2>1. CASE b \in run.base /\ in(b) /\ \A q \in revised : journal[q].event.start # b.start
    BY <1>2, <1>3, <2>1, KnownMember
  <2>2. ASSUME NEW q \in revised, b = journal[q].event,
               \A r \in revised : journal[r].event.start = b.start => r <= q
        PROVE  b \in P
    <3>1. in(b) /\ q \in 1 .. p
      BY <1>4, <2>2
    <3>2. \A r \in 1 .. p : SameKey(journal[r].event, b) => r <= q
      BY <1>3, <2>2, <3>1
    <3> QED
      BY <1>2, <2>2, <3>1, <3>2, KnownMember
  <2> QED
    BY <1>1, <2>1, <2>2
<1>6. ASSUME NEW b \in P PROVE b \in S
  <2>0. in(b)
    BY <1>2
  <2>1. CASE b \in run.base /\ \A q \in 1 .. p : ~SameKey(journal[q].event, b)
    BY <1>1, <1>3, <2>0, <2>1
  <2>2. ASSUME NEW q \in 1 .. p, b = journal[q].event,
               \A r \in 1 .. p : SameKey(journal[r].event, b) => r <= q
        PROVE  b \in S
    <3>1. q \in revised
      BY <1>4, <2>0, <2>2
    <3>2. \A r \in revised : journal[r].event.start = b.start => r <= q
      BY <1>3, <2>0, <2>2
    <3> QED
      BY <1>1, <2>2, <3>1, <3>2
  <2> QED
    BY <1>2, <2>1, <2>2, KnownMember
<1>7. S = P
  BY <1>5, <1>6
<1> QED
  BY <1>7 DEF S, P

Rows == [operation : {"insert", "replace"}, event : Events, previous : Int \cup {None}]

\* An honest row is processed, unless the queue is smaller than the window.
LEMMA WorkRule ==
  ASSUME NEW p \in Nat, NEW X \in SUBSET Events, X = Known(run.base, journal, p), OnePer(X),
         journal[p + 1] \in Rows, Honest(X, journal[p + 1], run.boundary)
  PROVE  /\ Work(p).failure \in {None, "capacity_exceeded"}
         /\ QueueCapacity > Lookback => Work(p).failure # "capacity_exceeded"
         /\ Work(p).failure = None =>
              Work(p).evaluations = Delta(X, journal[p + 1], run.boundary)
<1> DEFINE row == journal[p + 1]
           event == row.event
           bars == SessionBars(event, p)
           prior == {b \in bars : SameKey(b, event)}
           next == Apply(bars, event)
           A == Affected(next, event)
           owned == {b \in A : b.start >= run.boundary[b.series]}
           unknown == row.operation = "replace" /\ {b.id : b \in prior} # {row.previous}
           W == Work(p)
           fails(code) == [failure |-> code, evaluations |-> {}]
<1>1. W = IF row.operation = "insert" /\ prior # {} THEN fails("stored_data_invalid")
          ELSE IF unknown /\ (prior # {} \/ ~InfluenceEnds(event))
            THEN fails("stored_data_invalid")
          ELSE IF unknown THEN fails(None)
          ELSE IF Cardinality(A) > QueueCapacity THEN fails("capacity_exceeded")
          ELSE [failure |-> None, evaluations |-> {Evaluate(next, b) : b \in owned}]
  BY DEF Work
<1>2. bars = SessionPart(X, event)
  BY SessionBarsRule
<1>3. event \in Events /\ row.operation \in {"insert", "replace"}
  BY DEF Rows
<1>4. owned = Owned(A, run.boundary)
  BY DEF Owned
<1>5. InfluenceEnds(event) <=> Before(event, run.boundary)
  BY DEF InfluenceEnds, Before
<1>6. \A b : b \in prior <=> b \in X /\ SameKey(b, event)
  <2> HIDE DEF event
  <2> QED
    BY <1>2 DEF SessionPart, SameKey
<1> HIDE DEF bars, prior, event, row
<1>7. next \in SUBSET Events /\ OnePer(next)
  <2>1. bars \in SUBSET Events /\ OnePer(bars)
    BY <1>2 DEF SessionPart, OnePer
  <2> QED
    BY <1>3, <2>1, ApplyRules
<1>8. Cardinality(A) \in Nat /\ Cardinality(A) <= Lookback + 1
  <2> HIDE DEF next
  <2> QED
    BY <1>3, <1>7, AffectedBound
<1>9. Delta(X, row, run.boundary)
        = IF Unheard(X, row) THEN {} ELSE {Evaluate(next, b) : b \in owned}
  BY <1>2, <1>4 DEF Delta, Renewed, event
<1> HIDE DEF next, A, owned, W
<1>10. row.operation = "insert" => prior = {}
  BY <1>6 DEF Honest, row, event
<1>11. \A b \in prior : b.id = row.previous
  BY <1>6 DEF Honest, row, event
<1>12. prior # {} => {b.id : b \in prior} = {row.previous}
  BY <1>11
<1>13. Unheard(X, row) <=> row.operation = "replace" /\ prior = {}
  BY <1>6 DEF Unheard, event
<1>14. row.operation = "replace" /\ prior = {} => InfluenceEnds(event)
  BY <1>5, <1>6 DEF Honest, row, event
<1>15. unknown <=> Unheard(X, row)
  BY <1>12, <1>13
<1>16. unknown => prior = {} /\ InfluenceEnds(event)
  BY <1>13, <1>14, <1>15
<1> HIDE DEF unknown
<1>17. Lookback \in Nat /\ QueueCapacity \in Nat /\ None # "capacity_exceeded"
  BY RulesAssumption, BoundsAssumption, NoneAssumption
<1>18. CASE unknown
  <2>1. W = fails(None)
    BY <1>1, <1>10, <1>16, <1>18
  <2>2. W.failure = None /\ W.evaluations = {}
    BY <2>1
  <2> QED
    BY <1>9, <1>15, <1>17, <1>18, <2>2 DEF W, row
<1>19. CASE ~unknown
  <2>1. CASE Cardinality(A) > QueueCapacity
    <3>1. W = fails("capacity_exceeded")
      BY <1>1, <1>10, <1>19, <2>1
    <3>2. W.failure = "capacity_exceeded"
      BY <3>1
    <3>3. ~(QueueCapacity > Lookback)
      BY <1>8, <1>17, <2>1
    <3> QED
      BY <1>17, <3>2, <3>3 DEF W
  <2>2. CASE ~(Cardinality(A) > QueueCapacity)
    <3> DEFINE E == {Evaluate(next, b) : b \in owned}
    <3>1. W = [failure |-> None, evaluations |-> E]
      BY <1>1, <1>10, <1>19, <2>2
    <3> HIDE DEF E
    <3>2. W.failure = None /\ W.evaluations = E
      BY <3>1
    <3>3. Delta(X, row, run.boundary) = E
      BY <1>9, <1>15, <1>19 DEF E
    <3> QED
      BY <1>17, <3>2, <3>3 DEF W, row
  <2> QED
    BY <2>1, <2>2
<1> QED
  BY <1>18, <1>19

-----------------------------------------------------------------------------
(* The inductive invariant.                                                 *)

\* The canonical bars are the best of what arrived.
Best(bars, events) == bars \subseteq events /\ OnePer(bars) /\ Covers(bars, events)

ArrivedRight ==
  arrived \in SUBSET Events /\ IsFiniteSet(arrived) /\ Best(canonical, arrived)

\* Rows over events that arrived.
RowsOf(events) ==
  [operation : {"insert", "replace"}, event : events,
   previous : {e.id : e \in events} \cup {None}]

\* Before a run is enabled nothing is journaled or computed.
NothingYet ==
  /\ journal = <<>> /\ cursor = 0 /\ fence = 0
  /\ evaluations = {} /\ latest = {} /\ transitions = <<>>
  /\ \A w \in Workers : claims[w] = None

\* What a run knows are canonical bars; those that it does not know are too old
\* to be in the window of a bar it evaluates.
KnowsCanonical(known, bars, boundary) ==
  known \subseteq bars /\ \A b \in bars : b \in known \/ Before(b, boundary)

AllHonest(r, rows) ==
  \A p \in 0 .. (Len(rows) - 1) : Honest(Known(r.base, rows, p), rows[p + 1], r.boundary)

BasedOn(r, events) == r \in Run /\ r.base \subseteq events /\ OnePer(r.base)

JournalRight(r, rows, bars) ==
  KnowsCanonical(Known(r.base, rows, Len(rows)), bars, r.boundary) /\ AllHonest(r, rows)

RunRight ==
  /\ run = None => NothingYet
  /\ run # None => /\ BasedOn(run, arrived) /\ JournalRight(run, journal, canonical)
                   /\ latest = Current(Known(run.base, journal, cursor), run.boundary)

CountersRight ==
  /\ journal \in Seq(RowsOf(arrived)) /\ cursor \in 0 .. Len(journal) /\ fence \in 0 .. MaxFence
  /\ failure \in {None, "capacity_exceeded"}
  /\ QueueCapacity > Lookback => failure # "capacity_exceeded"

\* What a worker has computed is what its revision makes of what was known.
ClaimRight(claim, r, rows, position, token) ==
  claim # None =>
    /\ claim \in Claim /\ claim.fence \in 1 .. token /\ claim.cursor \in 0 .. position
    /\ claim.computed =>
         /\ claim.cursor < Len(rows)
         /\ claim.work = Delta(Known(r.base, rows, claim.cursor), rows[claim.cursor + 1],
                               r.boundary)

ClaimsRight ==
  /\ claims \in [Workers -> Claim \cup {None}]
  /\ \A w \in Workers : ClaimRight(claims[w], run, journal, cursor, fence)

Steps == [position : Nat,
          transition : [current : Result, predecessor : Result \cup {None},
                        retracts : BOOLEAN, kind : {"initial", "retraction", "supersession"}]]

At(rows, i) == rows[i].transition.current

Earlier(rows, i) == {j \in 1 .. (i - 1) : SameKey(Of(At(rows, j)), Of(At(rows, i)))}

\* The i-th transition follows on the one before it of the same bar.
Follows(rows, i) ==
  /\ rows[i].transition.predecessor
       = IF Earlier(rows, i) = {} THEN None ELSE At(rows, Max(Earlier(rows, i)))
  /\ \A j \in Earlier(rows, i) :
       rows[j].position < rows[i].position /\ At(rows, j) # At(rows, i)

IsLastOf(rows, i, e) == At(rows, i) = e /\ \A j \in DOMAIN rows : i \notin Earlier(rows, j)

\* The transitions and the evaluations that they led to.
History(rows, now, events, position) ==
  /\ rows \in Seq(Steps)
  /\ \A i \in DOMAIN rows :
       /\ rows[i].position \in 1 .. position
       /\ Sound(At(rows, i), events) /\ Follows(rows, i)
       /\ \E e \in now : Grows(At(rows, i), e)
  /\ \A e \in now : \E i \in DOMAIN rows : IsLastOf(rows, i, e)

HistoryRight ==
  /\ History(transitions, latest, arrived, cursor)
  /\ evaluations = {At(transitions, i) : i \in DOMAIN transitions}

IInv == ArrivedRight /\ RunRight /\ CountersRight /\ ClaimsRight /\ HistoryRight

-----------------------------------------------------------------------------
(* Greatest numbers and predecessors.                                       *)

Above(S, x) == {y \in S : y > x}

\* A finite set of numbers that is not empty has a greatest one.
LEMMA MaxOfFinite ==
  ASSUME NEW S \in SUBSET Int, IsFiniteSet(S), S # {}
  PROVE  Max(S) \in S /\ \A y \in S : y <= Max(S)
<1> DEFINE R == {ss \in Nat \X Nat : ss[1] < ss[2]}
           c == [x \in S |-> Cardinality(Above(S, x))]
           T == {c[x] : x \in S}
<1>1. R = OpToRel(<, Nat)
  BY DEF OpToRel
<1>2. IsWellFoundedOn(R, Nat)
  BY <1>1, NatLessThanWellFounded
<1>3. \A y, z \in Nat : y < z => <<y, z>> \in R
  OBVIOUS
<1>4. \A x \in S : IsFiniteSet(Above(S, x)) /\ Cardinality(Above(S, x)) \in Nat
  <2>1. TAKE x \in S
  <2>2. Above(S, x) \in SUBSET S
    BY DEF Above
  <2>3. IsFiniteSet(Above(S, x))
    BY <2>2, FS_Subset
  <2> QED
    BY <2>3, FS_CardinalityType
<1>5. T \subseteq Nat /\ T # {}
  BY <1>4
<1> HIDE DEF R
<1>6. PICK t \in T : \A u \in T : ~(<<u, t>> \in R)
  BY <1>2, <1>5, WFMin
<1>7. PICK x \in S : t = Cardinality(Above(S, x))
  BY <1>6
<1>8. ASSUME NEW y \in S PROVE y <= x
  <2>1. SUFFICES ASSUME y > x PROVE FALSE
    OBVIOUS
  <2> DEFINE A == Above(S, x)
             B == Above(S, y)
  <2>2. B \in SUBSET A
    <3>1. \A z \in S : z > y => z > x
      BY <2>1
    <3> QED
      BY <3>1 DEF Above
  <2>3. B # A
    BY <2>1 DEF Above
  <2>4. IsFiniteSet(A) /\ Cardinality(A) \in Nat /\ Cardinality(B) \in Nat /\ Cardinality(B) \in T
    BY <1>4
  <2> HIDE DEF A, B
  <2>5. Cardinality(B) <= Cardinality(A) /\ Cardinality(B) # Cardinality(A)
    BY <2>2, <2>3, <2>4, FS_Subset
  <2>6. Cardinality(B) < Cardinality(A)
    BY <2>4, <2>5
  <2> QED
    BY <1>3, <1>6, <1>7, <2>4, <2>6 DEF A
<1> QED
  BY <1>7, <1>8 DEF Max

LEMMA MaxOfEarlier ==
  ASSUME NEW n \in Nat, NEW S \in SUBSET (1 .. n), S # {}
  PROVE  Max(S) \in S /\ \A y \in S : y <= Max(S)
<1>0. IsFiniteSet(1 .. n)
  BY FS_Interval
<1>1. IsFiniteSet(S)
  BY <1>0, FS_Subset
<1>2. S \in SUBSET Int
  OBVIOUS
<1> QED
  BY <1>1, <1>2, MaxOfFinite

\* A greatest element is the greatest.
LEMMA MaxIs ==
  ASSUME NEW S \in SUBSET Int, NEW m \in S, \A y \in S : y <= m
  PROVE  Max(S) = m
<1>1. \A x, y \in S : x >= y /\ y >= x => x = y
  OBVIOUS
<1>2. Max(S) \in S /\ \A y \in S : Max(S) >= y
  BY DEF Max
<1> QED
  BY <1>1, <1>2

\* The predecessor of an evaluation among evaluations of different bars.
LEMMA PredecessorRules ==
  ASSUME NEW now, \A d, e \in now : SameKey(Of(d), Of(e)) => d = e, NEW x
  PROVE  /\ \A l \in now : SameKey(Of(l), Of(x)) => Predecessor(now, x) = l
         /\ (\A l \in now : ~SameKey(Of(l), Of(x))) => Predecessor(now, x) = None
<1> DEFINE same == {l \in now : SameKey(Of(l), Of(x))}
<1>1. Predecessor(now, x) = IF same = {} THEN None ELSE CHOOSE l \in same : TRUE
  BY DEF Predecessor
<1>2. \A d, e \in same : d = e
  BY DEF SameKey
<1>3. ASSUME NEW l \in now, SameKey(Of(l), Of(x)) PROVE Predecessor(now, x) = l
  <2>1. l \in same
    BY <1>3
  <2> HIDE DEF same
  <2>2. (CHOOSE k \in same : TRUE) \in same
    BY <2>1
  <2> QED
    BY <1>1, <1>2, <2>1, <2>2
<1>4. ASSUME \A l \in now : ~SameKey(Of(l), Of(x)) PROVE Predecessor(now, x) = None
  BY <1>1, <1>4
<1> QED
  BY <1>3, <1>4

\* The evaluations of a run are of different bars, sound and results.
LEMMA CurrentRules ==
  ASSUME NEW all \in SUBSET Events, NEW X \in SUBSET all, OnePer(X), NEW boundary
  PROVE  /\ \A e \in Current(X, boundary) :
              /\ Sound(e, all) /\ e \in Result /\ e # None
              /\ \E b \in X : e = Evaluate(X, b) /\ Of(e) = b
         /\ \A d, e \in Current(X, boundary) : SameKey(Of(d), Of(e)) => d = e
<1>1. \A b \in X : Evaluate(X, b) \in Result /\ Of(Evaluate(X, b)) = b /\ Sound(Evaluate(X, b), all)
  <2>1. TAKE b \in X
  <2>2. X \in SUBSET Events /\ b \in Events
    OBVIOUS
  <2>3. Evaluate(X, b) \in Result
    BY <2>2 DEF Result
  <2> QED
    BY <2>3, EvaluateFields, EvaluateIsSound
<1>2. \A e \in Current(X, boundary) : \E b \in X : e = Evaluate(X, b)
  BY DEF Current, Owned
<1>3. \A e \in Current(X, boundary) :
        /\ Sound(e, all) /\ e \in Result /\ e # None
        /\ \E b \in X : e = Evaluate(X, b) /\ Of(e) = b
  BY <1>1, <1>2, ResultAssumption
<1>4. \A d, e \in Current(X, boundary) : SameKey(Of(d), Of(e)) => d = e
  BY <1>3 DEF OnePer
<1> QED
  BY <1>3, <1>4

-----------------------------------------------------------------------------
(* The history of a run.                                                    *)

LEMMA GrowsIsReflexive ==
  ASSUME NEW e
  PROVE  Grows(e, e)
BY DEF Grows, Covers, SameKey

\* More events and later positions keep a history.
LEMMA HistoryKeeps ==
  ASSUME NEW rows, NEW now, NEW all, NEW more, NEW position \in Nat,
         all \subseteq more, History(rows, now, all, position)
  PROVE  History(rows, now, more, position)
<1>1. \A e : Sound(e, all) => Sound(e, more)
  BY DEF Sound
<1> QED
  BY <1>1 DEF History

\* What a worker computes continues every evaluation of the same bar.
Continues(now, D) ==
  \A d \in now : \A e \in D : SameKey(Of(d), Of(e)) => Grows(d, e)

LEMMA DeltaContinues ==
  ASSUME NEW all \in SUBSET Events, NEW X \in SUBSET all, OnePer(X), NEW row,
         row.event \in all, NEW boundary, Honest(X, row, boundary)
  PROVE  Continues(Current(X, boundary), Delta(X, row, boundary))
<1> DEFINE Y == Apply(X, row.event)
           D == Delta(X, row, boundary)
<1>1. OnePer(Y) /\ Y \in SUBSET all
  BY ApplyRules
<1>2. SUFFICES ASSUME NEW d \in Current(X, boundary), NEW e \in D, SameKey(Of(d), Of(e))
               PROVE  Grows(d, e)
  BY DEF Continues
<1>3. e \in Current(Y, boundary)
  BY DeltaRules
<1>4. PICK b \in X : d = Evaluate(X, b) /\ Of(d) = b
  BY CurrentRules
<1> HIDE DEF Y
<1>5. PICK c \in Y : e = Evaluate(Y, c) /\ Of(e) = c
  BY <1>1, <1>3, CurrentRules
<1> QED
  BY <1>2, <1>4, <1>5, GrowsStep DEF Y

\* The rows of the transitions that a revision leads to.
RowsAt(position, D, now) ==
  LET new == Transitions(now, D)
  IN  [i \in DOMAIN new |-> Associated(position, new[i])]

\* What a revision adds to a history: a transition for each evaluation that
\* changed, each with its predecessor and growing out of it.
Adds(added, now, D, position) ==
  /\ \A k \in DOMAIN added :
       /\ added[k].position = position /\ At(added, k) \in Changed(now, D)
       /\ added[k].transition.predecessor = Predecessor(now, At(added, k))
  /\ \A j, k \in DOMAIN added : At(added, j) = At(added, k) => j = k
  /\ \A e \in Changed(now, D) : \E k \in DOMAIN added : At(added, k) = e

Distinct(S) == \A d, e \in S : SameKey(Of(d), Of(e)) => d = e

AllSound(S, events) == \A e \in S : Sound(e, events) /\ e # None

\* The transitions of one revision: one for each evaluation that changed.
LEMMA TransitionsRules ==
  ASSUME NEW now \in SUBSET Result, Distinct(now),
         NEW D \in SUBSET Result, IsFiniteSet(D), ApartByStart(D), NEW position \in Nat,
         NEW added, added = RowsAt(position, D, now)
  PROVE  added \in Seq(Steps) /\ Adds(added, now, D, position)
<1> DEFINE C == Changed(now, D)
           n == Cardinality(C)
           o == ByStart(C)
           new == Transitions(now, D)
<1>1. IsFiniteSet(C) /\ ApartByStart(C) /\ C \in SUBSET D
  <2>1. C \in SUBSET D
    BY DEF Changed
  <2> HIDE DEF C
  <2> QED
    BY <2>1, FS_Subset DEF ApartByStart
<1> HIDE DEF C
<1>2. /\ n \in Nat /\ o \in [1 .. n -> C]
      /\ \A i, j \in 1 .. n : o[i] = o[j] => i = j
      /\ \A e \in C : \E i \in 1 .. n : o[i] = e
  BY <1>1, ByStartRules
<1>3. new = [i \in DOMAIN o |-> Transition(Predecessor(now, o[i]), o[i])]
  BY DEF Transitions, C
<1> HIDE DEF new, o, n
<1>4. added = [i \in 1 .. n |-> Associated(position, Transition(Predecessor(now, o[i]), o[i]))]
  BY <1>2, <1>3 DEF RowsAt, new
<1>5. ASSUME NEW i \in 1 .. n
      PROVE  /\ added[i] \in Steps /\ added[i].position = position /\ At(added, i) = o[i]
             /\ added[i].transition.predecessor = Predecessor(now, o[i])
  <2> DEFINE p == Predecessor(now, o[i])
             t == Transition(p, o[i])
  <2>1. p \in Result \cup {None}
    BY PredecessorRules DEF Distinct
  <2>2. o[i] \in Result
    BY <1>1, <1>2
  <2> HIDE DEF p
  <2>3. /\ t \in [current : Result, predecessor : Result \cup {None},
                  retracts : BOOLEAN, kind : {"initial", "retraction", "supersession"}]
        /\ t.current = o[i] /\ t.predecessor = p
    BY <2>1, <2>2 DEF Transition
  <2> HIDE DEF t
  <2>4. added[i] = [position |-> position, transition |-> t]
    BY <1>4 DEF Associated, t, p
  <2> QED
    BY <2>3, <2>4 DEF Steps, At, p
<1>6. added \in Seq(Steps) /\ DOMAIN added = 1 .. n
  <2>1. added = [i \in DOMAIN added |-> added[i]] /\ DOMAIN added = 1 .. n
    BY <1>4
  <2>2. added \in [1 .. n -> Steps]
    BY <1>5, <2>1
  <2>3. \A m \in Nat : [1 .. m -> Steps] \subseteq Seq(Steps)
    OBVIOUS
  <2>4. n \in Nat
    BY <1>2
  <2> QED
    BY <2>1, <2>2, <2>3, <2>4
<1>7. /\ \A i \in DOMAIN added :
           /\ added[i].position = position /\ At(added, i) \in C
           /\ added[i].transition.predecessor = Predecessor(now, At(added, i))
      /\ \A i, j \in DOMAIN added : At(added, i) = At(added, j) => i = j
      /\ \A e \in C : \E i \in DOMAIN added : At(added, i) = e
  BY <1>2, <1>5, <1>6
<1> QED
  BY <1>6, <1>7 DEF Adds, C

\* A sequence and what is added to it, as far as their evaluations go.
LEMMA AddedRows ==
  ASSUME NEW rows \in Seq(Steps), NEW added \in Seq(Steps)
  PROVE  LET all == rows \o added
             L == Len(rows)
         IN  /\ all \in Seq(Steps) /\ L \in Nat /\ DOMAIN rows = 1 .. L
             /\ \A i \in DOMAIN rows : i \in DOMAIN all /\ all[i] = rows[i] /\ At(all, i) = At(rows, i)
             /\ \A k \in DOMAIN added :
                  /\ k + L \in DOMAIN all /\ all[k + L] = added[k] /\ At(all, k + L) = At(added, k)
             /\ \A i \in DOMAIN all : i \in DOMAIN rows \/ \E k \in DOMAIN added : i = k + L
<1> DEFINE all == rows \o added
           L == Len(rows)
           M == Len(added)
<1>1. L \in Nat /\ M \in Nat /\ DOMAIN rows = 1 .. L /\ DOMAIN added = 1 .. M
  OBVIOUS
<1>2. /\ all \in Seq(Steps) /\ Len(all) = L + M
      /\ \A i \in 1 .. L + M : all[i] = IF i <= L THEN rows[i] ELSE added[i - L]
  BY ConcatProperties
<1> HIDE DEF all, L, M
<1>3. DOMAIN all = 1 .. (L + M)
  BY <1>2
<1>4. \A i \in DOMAIN rows : i \in DOMAIN all /\ all[i] = rows[i]
  BY <1>1, <1>2, <1>3
<1>5. \A k \in DOMAIN added : k + L \in DOMAIN all /\ all[k + L] = added[k]
  <2>1. TAKE k \in DOMAIN added
  <2>2. k + L \in 1 .. (L + M) /\ ~(k + L <= L) /\ (k + L) - L = k
    BY <1>1
  <2> QED
    BY <1>2, <1>3, <2>2
<1>6. \A i \in DOMAIN all : i \in DOMAIN rows \/ \E k \in DOMAIN added : i = k + L
  <2>1. TAKE i \in DOMAIN all
  <2>2. CASE i <= L
    BY <1>1, <1>3, <2>2
  <2>3. CASE ~(i <= L)
    <3>1. i - L \in DOMAIN added /\ i = (i - L) + L
      BY <1>1, <1>3, <2>3
    <3> QED
      BY <3>1
  <2> QED
    BY <2>2, <2>3
<1>7. /\ all \in Seq(Steps) /\ L \in Nat /\ DOMAIN rows = 1 .. L
      /\ \A i \in DOMAIN rows : i \in DOMAIN all /\ all[i] = rows[i] /\ At(all, i) = At(rows, i)
      /\ \A k \in DOMAIN added :
           /\ k + L \in DOMAIN all /\ all[k + L] = added[k] /\ At(all, k + L) = At(added, k)
      /\ \A i \in DOMAIN all : i \in DOMAIN rows \/ \E k \in DOMAIN added : i = k + L
  BY <1>1, <1>2, <1>4, <1>5, <1>6 DEF At
<1> QED
  BY <1>7 DEF all, L

\* The latest evaluation of a bar is the last of its transitions.
LEMMA LastIsLatest ==
  ASSUME NEW all \in SUBSET Events, NEW now, NEW position, NEW rows, Distinct(now),
         History(rows, now, all, position), NEW e \in now
  PROVE  \E i \in DOMAIN rows :
           /\ At(rows, i) = e
           /\ \A j \in DOMAIN rows : SameKey(Of(At(rows, j)), Of(e)) => j <= i /\ Grows(At(rows, j), e)
<1>1. PICK i \in DOMAIN rows : IsLastOf(rows, i, e)
  BY DEF History
<1>2. DOMAIN rows = 1 .. Len(rows) /\ Len(rows) \in Nat
  BY DEF History
<1>3. ASSUME NEW j \in DOMAIN rows, SameKey(Of(At(rows, j)), Of(e))
      PROVE  j <= i /\ Grows(At(rows, j), e)
  <2>1. j <= i
    <3>1. SUFFICES ASSUME i < j PROVE FALSE
      BY <1>2
    <3>2. i \in 1 .. (j - 1)
      BY <1>2, <3>1
    <3>3. SameKey(Of(At(rows, i)), Of(At(rows, j)))
      BY <1>1, <1>3 DEF IsLastOf, SameKey
    <3>4. i \in Earlier(rows, j)
      BY <3>2, <3>3 DEF Earlier
    <3> QED
      BY <1>1, <3>4 DEF IsLastOf
  <2>2. PICK l \in now : Grows(At(rows, j), l)
    BY DEF History
  <2>3. SameKey(Of(l), Of(e))
    BY <1>3, <2>2 DEF Grows, SameKey
  <2> QED
    BY <2>1, <2>2, <2>3 DEF Distinct
<1> QED
  BY <1>1, <1>3 DEF IsLastOf

\* A history, and what a revision adds to it.
Extension(rows, added, now, D, events, position) ==
  /\ rows \in Seq(Steps) /\ added \in Seq(Steps) /\ position \in Nat
  /\ History(rows, now, events, position) /\ Adds(added, now, D, position + 1)
  /\ Distinct(now) /\ AllSound(now, events) /\ Distinct(D) /\ AllSound(D, events)
  /\ Continues(now, D)

\* What was there follows as it did.
LEMMA OldStepsFollow ==
  ASSUME NEW events, NEW rows, NEW added, NEW now, NEW D, NEW position,
         Extension(rows, added, now, D, events, position), NEW i \in DOMAIN rows
  PROVE  LET all == rows \o added
         IN  Earlier(all, i) = Earlier(rows, i) /\ Follows(all, i)
<1> DEFINE all == rows \o added
           E == Earlier(rows, i)
<1>1. rows \in Seq(Steps) /\ added \in Seq(Steps) /\ Follows(rows, i)
  BY DEF Extension, History
<1>2. DOMAIN rows = 1 .. Len(rows) /\ Len(rows) \in Nat
  BY <1>1
<1>3. \A j \in DOMAIN rows : all[j] = rows[j] /\ At(all, j) = At(rows, j)
  BY <1>1, AddedRows
<1>4. i \in Nat /\ i - 1 \in Nat /\ \A j \in 1 .. (i - 1) : j \in DOMAIN rows
  BY <1>2
<1> HIDE DEF all
<1>5. Earlier(all, i) = E
  BY <1>3, <1>4 DEF Earlier
<1>6. E \in SUBSET (1 .. (i - 1))
  BY DEF Earlier
<1>7. E # {} => At(all, Max(E)) = At(rows, Max(E))
  <2> HIDE DEF E
  <2>1. E # {} => Max(E) \in E
    BY <1>4, <1>6, MaxOfEarlier
  <2> QED
    BY <1>3, <1>4, <1>6, <2>1
<1>8. \A j \in E : j \in DOMAIN rows
  BY <1>4, <1>6
<1>9. all[i] = rows[i] /\ At(all, i) = At(rows, i)
  BY <1>3
<1>10. Follows(all, i)
  BY <1>1, <1>3, <1>5, <1>7, <1>8, <1>9 DEF Follows
<1> QED
  BY <1>5, <1>10 DEF all

\* The rows before a new one that are about its bar are old ones.
LEMMA EarlierOfNew ==
  ASSUME NEW events, NEW rows, NEW added, NEW now, NEW D, NEW position,
         Extension(rows, added, now, D, events, position), NEW k \in DOMAIN added
  PROVE  LET all == rows \o added
             new == k + Len(rows)
         IN  \A j : j \in Earlier(all, new) <=>
                      j \in DOMAIN rows /\ SameKey(Of(At(rows, j)), Of(At(added, k)))
<1> DEFINE all == rows \o added
           L == Len(rows)
           new == k + L
<1>1. rows \in Seq(Steps) /\ added \in Seq(Steps) /\ Distinct(D)
      /\ Adds(added, now, D, position + 1)
  BY DEF Extension
<1>2. DOMAIN rows = 1 .. L /\ L \in Nat /\ DOMAIN added = 1 .. Len(added)
  BY <1>1
<1>3. /\ \A j \in DOMAIN rows : At(all, j) = At(rows, j)
      /\ \A m \in DOMAIN added : m + L \in DOMAIN all /\ At(all, m + L) = At(added, m)
      /\ \A j \in DOMAIN all : j \in DOMAIN rows \/ \E m \in DOMAIN added : j = m + L
      /\ DOMAIN all = 1 .. Len(all) /\ Len(all) \in Nat
  BY <1>1, AddedRows
<1> HIDE DEF all, L
<1>4. \A m \in DOMAIN added : SameKey(Of(At(added, m)), Of(At(added, k))) => m = k
  <2>1. \A m \in DOMAIN added : At(added, m) \in D
    BY <1>1 DEF Adds, Changed
  <2> QED
    BY <1>1, <2>1 DEF Adds, Distinct
<1>5. \A j \in DOMAIN rows : j \in 1 .. (new - 1)
  BY <1>2
<1>6. new \in Int /\ new \in DOMAIN all /\ At(all, new) = At(added, k)
  BY <1>2, <1>3
<1>7. \A j \in 1 .. (new - 1) : j \in DOMAIN all /\ j # new
  BY <1>3, <1>6
<1>8. ASSUME NEW j \in 1 .. (new - 1), SameKey(Of(At(all, j)), Of(At(added, k)))
      PROVE  j \in DOMAIN rows
  <2>1. SUFFICES ASSUME NEW m \in DOMAIN added, j = m + L PROVE FALSE
    BY <1>3, <1>7
  <2>2. m = k
    BY <1>3, <1>4, <1>8, <2>1
  <2> QED
    BY <1>7, <2>1, <2>2
<1> HIDE DEF new
<1>9. \A j : j \in Earlier(all, new) <=>
        j \in 1 .. (new - 1) /\ SameKey(Of(At(all, j)), Of(At(added, k)))
  BY <1>6 DEF Earlier
<1>10. \A j : j \in Earlier(all, new) <=>
         j \in DOMAIN rows /\ SameKey(Of(At(rows, j)), Of(At(added, k)))
  BY <1>3, <1>5, <1>8, <1>9
<1> QED
  BY <1>10 DEF new, all, L

\* What is added follows: on nothing, or on the latest evaluation of its bar.
LEMMA NewStepsFollow ==
  ASSUME NEW events \in SUBSET Events, NEW rows, NEW added, NEW now, NEW D, NEW position,
         Extension(rows, added, now, D, events, position), NEW k \in DOMAIN added
  PROVE  Follows(rows \o added, k + Len(rows))
<1> DEFINE all == rows \o added
           new == k + Len(rows)
           e == At(added, k)
           E == Earlier(all, new)
<1>1. /\ rows \in Seq(Steps) /\ added \in Seq(Steps) /\ position \in Nat
      /\ History(rows, now, events, position) /\ Adds(added, now, D, position + 1)
      /\ Distinct(now) /\ AllSound(now, events) /\ AllSound(D, events) /\ Continues(now, D)
  BY DEF Extension
<1>2. /\ \A j \in DOMAIN rows : all[j] = rows[j] /\ At(all, j) = At(rows, j)
      /\ all[new] = added[k] /\ At(all, new) = e
      /\ DOMAIN rows = 1 .. Len(rows) /\ Len(rows) \in Nat
  BY <1>1, AddedRows
<1>3. \A j : j \in E <=> j \in DOMAIN rows /\ SameKey(Of(At(rows, j)), Of(e))
  BY EarlierOfNew
<1> HIDE DEF all, new
<1>4. e \in D /\ e # Predecessor(now, e) /\ added[k].position = position + 1
      /\ added[k].transition.predecessor = Predecessor(now, e)
  BY <1>1 DEF Adds, Changed
<1> HIDE DEF e, E
<1>5. E # {} => \E l \in now : SameKey(Of(l), Of(e))
  <2>1. SUFFICES ASSUME NEW j \in E PROVE \E l \in now : SameKey(Of(l), Of(e))
    OBVIOUS
  <2>2. PICK l \in now : Grows(At(rows, j), l)
    BY <1>1, <1>3, <2>1 DEF History
  <2> QED
    BY <1>3, <2>1, <2>2 DEF Grows, SameKey
<1>6. all[new].transition.predecessor = IF E = {} THEN None ELSE At(all, Max(E))
  <2>1. ASSUME \A l \in now : ~SameKey(Of(l), Of(e))
        PROVE  E = {} /\ Predecessor(now, e) = None
    BY <1>1, <1>5, <2>1, PredecessorRules DEF Distinct
  <2>2. ASSUME NEW l \in now, SameKey(Of(l), Of(e))
        PROVE  E # {} /\ Predecessor(now, e) = At(all, Max(E))
    <3>1. PICK i \in DOMAIN rows :
            /\ At(rows, i) = l
            /\ \A j \in DOMAIN rows : SameKey(Of(At(rows, j)), Of(l)) => j <= i
      BY <1>1, LastIsLatest
    <3>2. i \in E
      BY <1>3, <2>2, <3>1
    <3>3. \A j \in E : j <= i
      BY <1>3, <2>2, <3>1 DEF SameKey
    <3>4. E \in SUBSET Int
      BY <1>2, <1>3
    <3>5. Max(E) = i
      BY <3>2, <3>3, <3>4, MaxIs
    <3>6. Predecessor(now, e) = l
      BY <1>1, <2>2, PredecessorRules DEF Distinct
    <3> QED
      BY <1>2, <3>1, <3>2, <3>5, <3>6
  <2> QED
    BY <1>2, <1>4, <2>1, <2>2
<1>7. ASSUME NEW j \in E PROVE all[j].position < all[new].position /\ At(all, j) # At(all, new)
  <2>1. j \in DOMAIN rows /\ SameKey(Of(At(rows, j)), Of(e))
    BY <1>3, <1>7
  <2>2. rows[j].position \in 1 .. position /\ Sound(At(rows, j), events)
    BY <1>1, <2>1 DEF History
  <2>3. all[j].position < all[new].position
    BY <1>1, <1>2, <1>4, <2>1, <2>2
  <2>4. ASSUME At(rows, j) = e PROVE FALSE
    <3>1. PICK l \in now : Grows(e, l)
      BY <1>1, <2>1, <2>4 DEF History
    <3>2. SameKey(Of(l), Of(e))
      BY <3>1 DEF Grows, SameKey
    <3>3. Grows(l, e) /\ Sound(l, events) /\ Sound(e, events)
      BY <1>1, <1>4, <3>2 DEF Continues, AllSound
    <3>4. l = e
      BY <3>1, <3>3, GrowsIsAntisymmetric
    <3>5. Predecessor(now, e) = l
      BY <1>1, <3>2, PredecessorRules DEF Distinct
    <3> QED
      BY <1>4, <3>4, <3>5
  <2> QED
    BY <1>2, <2>1, <2>3, <2>4
<1>8. Follows(all, new)
  BY <1>6, <1>7 DEF Follows, E
<1> QED
  BY <1>8 DEF all, new

LEMMA SupersedingMember ==
  ASSUME NEW now, NEW D, NEW x
  PROVE  x \in Superseding(now, D) <=>
           x \in D \/ (x \in now /\ \A e \in D : ~SameKey(Of(x), Of(e)))
BY DEF Superseding

\* Every transition still leads to a latest evaluation.
LEMMA GrowthGoesOn ==
  ASSUME NEW events \in SUBSET Events, NEW rows, NEW added, NEW now, NEW D, NEW position,
         Extension(rows, added, now, D, events, position)
  PROVE  /\ \A i \in DOMAIN rows : \E e \in Superseding(now, D) : Grows(At(rows, i), e)
         /\ \A k \in DOMAIN added : \E e \in Superseding(now, D) : Grows(At(added, k), e)
<1> DEFINE after == Superseding(now, D)
<1>1. /\ History(rows, now, events, position) /\ Adds(added, now, D, position + 1)
      /\ AllSound(now, events) /\ AllSound(D, events) /\ Continues(now, D)
  BY DEF Extension
<1>2. \A x : x \in after <=> x \in D \/ (x \in now /\ \A e \in D : ~SameKey(Of(x), Of(e)))
  BY SupersedingMember
<1> HIDE DEF after
<1>3. ASSUME NEW i \in DOMAIN rows PROVE \E e \in after : Grows(At(rows, i), e)
  <2>1. PICK l \in now : Grows(At(rows, i), l)
    BY <1>1 DEF History
  <2>2. ASSUME NEW e \in D, SameKey(Of(l), Of(e)) PROVE Grows(At(rows, i), e)
    <3>1. Grows(l, e)
      BY <1>1, <2>2 DEF Continues
    <3>2. Sound(At(rows, i), events) /\ Sound(l, events) /\ Sound(e, events)
      BY <1>1 DEF History, AllSound
    <3> QED
      BY <2>1, <3>1, <3>2, GrowsIsTransitive
  <2> QED
    BY <1>2, <2>1, <2>2
<1>4. ASSUME NEW k \in DOMAIN added PROVE \E e \in after : Grows(At(added, k), e)
  <2>1. At(added, k) \in D
    BY <1>1 DEF Adds, Changed
  <2> QED
    BY <1>2, <2>1, GrowsIsReflexive
<1> QED
  BY <1>3, <1>4 DEF after

\* Every latest evaluation is the last of its bar.
LEMMA LastStaysLast ==
  ASSUME NEW events \in SUBSET Events, NEW rows, NEW added, NEW now, NEW D, NEW position,
         Extension(rows, added, now, D, events, position), NEW e \in Superseding(now, D)
  PROVE  \E i \in DOMAIN (rows \o added) : IsLastOf(rows \o added, i, e)
<1> DEFINE all == rows \o added
           L == Len(rows)
<1>1. /\ rows \in Seq(Steps) /\ added \in Seq(Steps)
      /\ History(rows, now, events, position) /\ Adds(added, now, D, position + 1)
      /\ Distinct(now) /\ Distinct(D) /\ AllSound(D, events)
  BY DEF Extension
<1>2. /\ \A j \in DOMAIN rows : j \in DOMAIN all /\ At(all, j) = At(rows, j)
      /\ \A m \in DOMAIN added : m + L \in DOMAIN all /\ At(all, m + L) = At(added, m)
      /\ \A j \in DOMAIN all : j \in DOMAIN rows \/ \E m \in DOMAIN added : j = m + L
      /\ DOMAIN rows = 1 .. L /\ L \in Nat /\ DOMAIN added = 1 .. Len(added)
  BY <1>1, AddedRows
<1>3. e \in D \/ (e \in now /\ \A d \in D : ~SameKey(Of(e), Of(d)))
  BY SupersedingMember
<1>4. \A i \in DOMAIN rows : Earlier(all, i) = Earlier(rows, i)
  BY OldStepsFollow
<1>5. \A k \in DOMAIN added : \A j \in Earlier(all, k + L) :
        j \in DOMAIN rows /\ SameKey(Of(At(rows, j)), Of(At(added, k)))
  BY EarlierOfNew
<1>6. \A k \in DOMAIN added : At(added, k) \in D /\ At(added, k) # Predecessor(now, At(added, k))
  BY <1>1 DEF Adds, Changed
<1> HIDE DEF all, L
<1>7. ASSUME NEW k \in DOMAIN added, At(added, k) = e PROVE \E i \in DOMAIN all : IsLastOf(all, i, e)
  <2>1. k + L \in DOMAIN all /\ At(all, k + L) = e /\ k + L \notin DOMAIN rows
    BY <1>2, <1>7
  <2>2. \A j \in DOMAIN rows : Earlier(rows, j) \subseteq DOMAIN rows
    BY <1>2 DEF Earlier
  <2>3. \A j \in DOMAIN all : k + L \notin Earlier(all, j)
    BY <1>2, <1>4, <1>5, <2>1, <2>2
  <2> QED
    BY <2>1, <2>3 DEF IsLastOf
<1>8. ASSUME e \in now, \A k \in DOMAIN added : ~SameKey(Of(e), Of(At(added, k)))
      PROVE  \E i \in DOMAIN all : IsLastOf(all, i, e)
  <2>1. PICK i \in DOMAIN rows : IsLastOf(rows, i, e)
    BY <1>1, <1>8 DEF History
  <2>2. i \in DOMAIN all /\ At(all, i) = e /\ At(rows, i) = e
    BY <1>2, <2>1 DEF IsLastOf
  <2>3. \A j \in DOMAIN rows : i \notin Earlier(all, j)
    BY <1>4, <2>1 DEF IsLastOf
  <2>4. \A k \in DOMAIN added : i \notin Earlier(all, k + L)
    BY <1>5, <1>8, <2>2
  <2> QED
    BY <1>2, <2>2, <2>3, <2>4 DEF IsLastOf
<1>9. ASSUME e \in D, \A k \in DOMAIN added : At(added, k) # e
      PROVE  e \in now /\ \A k \in DOMAIN added : ~SameKey(Of(e), Of(At(added, k)))
  <2>1. e \notin Changed(now, D)
    BY <1>1, <1>9 DEF Adds
  <2>2. Predecessor(now, e) = e /\ e # None
    BY <1>1, <1>9, <2>1 DEF Changed, AllSound
  <2>3. PICK l \in now : SameKey(Of(l), Of(e))
    BY <1>1, <2>2, PredecessorRules DEF Distinct
  <2>4. l = e
    BY <1>1, <2>2, <2>3, PredecessorRules DEF Distinct
  <2>5. \A k \in DOMAIN added : ~SameKey(Of(e), Of(At(added, k)))
    BY <1>1, <1>6, <1>9 DEF Distinct
  <2> QED
    BY <2>4, <2>5
<1>10. \E i \in DOMAIN all : IsLastOf(all, i, e)
  BY <1>3, <1>6, <1>7, <1>8, <1>9
<1> QED
  BY <1>10 DEF all

\* The evaluations that led to transitions.
Told(rows) == {At(rows, i) : i \in DOMAIN rows}

\* A revision carries a history on.
LEMMA HistoryStep ==
  ASSUME NEW events \in SUBSET Events, NEW rows, NEW added, NEW now, NEW D, NEW position,
         Extension(rows, added, now, D, events, position)
  PROVE  /\ History(rows \o added, Superseding(now, D), events, position + 1)
         /\ Told(rows \o added) \subseteq Told(rows) \cup D
<1> DEFINE all == rows \o added
           after == Superseding(now, D)
           L == Len(rows)
<1>1. /\ rows \in Seq(Steps) /\ added \in Seq(Steps) /\ position \in Nat
      /\ History(rows, now, events, position) /\ Adds(added, now, D, position + 1)
      /\ AllSound(D, events)
  BY DEF Extension
<1>2. /\ all \in Seq(Steps)
      /\ \A j \in DOMAIN rows : all[j] = rows[j] /\ At(all, j) = At(rows, j)
      /\ \A m \in DOMAIN added : all[m + L] = added[m] /\ At(all, m + L) = At(added, m)
      /\ \A j \in DOMAIN all : j \in DOMAIN rows \/ \E m \in DOMAIN added : j = m + L
  BY <1>1, AddedRows
<1>3. /\ \A i \in DOMAIN rows : Follows(all, i)
      /\ \A k \in DOMAIN added : Follows(all, k + L)
      /\ \A e \in after : \E i \in DOMAIN all : IsLastOf(all, i, e)
      /\ \A i \in DOMAIN rows : \E e \in after : Grows(At(rows, i), e)
      /\ \A k \in DOMAIN added : \E e \in after : Grows(At(added, k), e)
  BY OldStepsFollow, NewStepsFollow, GrowthGoesOn, LastStaysLast
<1> HIDE DEF all, after, L
<1>4. ASSUME NEW i \in DOMAIN all
      PROVE  /\ all[i].position \in 1 .. (position + 1)
             /\ Sound(At(all, i), events) /\ Follows(all, i)
             /\ \E e \in after : Grows(At(all, i), e)
  <2>1. CASE i \in DOMAIN rows
    <3>1. rows[i].position \in 1 .. position /\ Sound(At(rows, i), events)
      BY <1>1, <2>1 DEF History
    <3>2. rows[i].position \in 1 .. (position + 1)
      BY <1>1, <3>1
    <3> QED
      BY <1>2, <1>3, <2>1, <3>1, <3>2
  <2>2. ASSUME NEW m \in DOMAIN added, i = m + L
        PROVE  /\ all[i].position \in 1 .. (position + 1)
               /\ Sound(At(all, i), events) /\ Follows(all, i)
               /\ \E e \in after : Grows(At(all, i), e)
    <3>1. added[m].position = position + 1 /\ At(added, m) \in D
      BY <1>1, <2>2 DEF Adds, Changed
    <3>2. position + 1 \in 1 .. (position + 1)
      BY <1>1
    <3> QED
      BY <1>1, <1>2, <1>3, <2>2, <3>1, <3>2 DEF AllSound
  <2> QED
    BY <1>2, <2>1, <2>2
<1>5. History(all, after, events, position + 1)
  BY <1>2, <1>3, <1>4 DEF History
<1>6. \A m \in DOMAIN added : At(added, m) \in D
  BY <1>1 DEF Adds, Changed
<1>7. \A i \in DOMAIN all : At(all, i) \in Told(rows) \cup D
  BY <1>2, <1>6 DEF Told
<1>8. Told(all) \subseteq Told(rows) \cup D
  BY <1>7 DEF Told
<1> QED
  BY <1>5, <1>8 DEF all, after

\* Every evaluation computed is told, and none told is forgotten.
LEMMA ToldStep ==
  ASSUME NEW events \in SUBSET Events, NEW rows, NEW added, NEW now, NEW D, NEW position,
         Extension(rows, added, now, D, events, position)
  PROVE  Told(rows \o added) = Told(rows) \cup D
<1> DEFINE all == rows \o added
<1>1. rows \in Seq(Steps) /\ added \in Seq(Steps)
  BY DEF Extension
<1>2. \A j \in DOMAIN rows : j \in DOMAIN all /\ At(all, j) = At(rows, j)
  BY <1>1, AddedRows
<1>3. Told(all) \subseteq Told(rows) \cup D
  BY HistoryStep
<1>4. ASSUME NEW d \in D PROVE d \in Told(all)
  <2>1. d \in Superseding(now, D)
    BY SupersedingMember
  <2>2. PICK i \in DOMAIN all : IsLastOf(all, i, d)
    BY <2>1, LastStaysLast
  <2> QED
    BY <2>2 DEF IsLastOf, Told
<1> HIDE DEF all
<1>5. Told(rows) \subseteq Told(all)
  BY <1>2 DEF Told
<1>6. Told(all) = Told(rows) \cup D
  BY <1>3, <1>4, <1>5
<1> QED
  BY <1>6 DEF all

-----------------------------------------------------------------------------
(* The initial states.                                                      *)

LEMMA EmptyHistory ==
  ASSUME NEW events, NEW position \in Nat
  PROVE  History(<<>>, {}, events, position) /\ Told(<<>>) = {}
<1>1. <<>> \in Seq(Steps) /\ DOMAIN <<>> = {}
  OBVIOUS
<1>2. \A i : i \notin DOMAIN <<>>
  BY <1>1
<1>3. Told(<<>>) = {}
  BY <1>2 DEF Told
<1> QED
  BY <1>1, <1>2, <1>3 DEF History

LEMMA InitIsRight == Init => IInv
<1> SUFFICES ASSUME Init PROVE IInv
  OBVIOUS
<1>1. ArrivedRight
  <2>1. IsFiniteSet(arrived)
    BY FS_EmptySet DEF Init
  <2> QED
    BY <2>1 DEF Init, ArrivedRight, Best, OnePer, Covers
<1>2. RunRight
  BY DEF Init, RunRight, NothingYet
<1>3. CountersRight
  <2>1. journal \in Seq(RowsOf(arrived)) /\ cursor \in 0 .. Len(journal)
    BY DEF Init
  <2>2. fence \in 0 .. MaxFence
    BY BoundsAssumption DEF Init
  <2> QED
    BY <2>1, <2>2, NoneAssumption DEF Init, CountersRight
<1>4. ClaimsRight
  BY DEF Init, ClaimsRight, ClaimRight
<1>5. HistoryRight
  <2>1. History(<<>>, {}, arrived, 0) /\ Told(<<>>) = {}
    BY EmptyHistory
  <2> QED
    BY <2>1 DEF Init, HistoryRight, Told
<1> QED
  BY <1>1, <1>2, <1>3, <1>4, <1>5 DEF IInv

-----------------------------------------------------------------------------
(* The market-data writer.                                                  *)

\* What the writer decides keeps the best of what arrived.
LEMMA DecideRules ==
  ASSUME NEW events \in SUBSET Events, NEW bars, Best(bars, events),
         NEW e \in Events, e \notin events
  PROVE  /\ Decide(bars, e) \in {"insert", "replace", "no_op"}
         /\ Decide(bars, e) = "insert" => \A b \in bars : ~SameKey(b, e)
         /\ Decide(bars, e) = "replace" => \E b \in bars : SameKey(b, e)
         /\ Decide(bars, e) # "no_op" => /\ \A b \in bars : SameKey(b, e) => Wins(e, b)
                                         /\ Best(Apply(bars, e), events \cup {e})
         /\ Decide(bars, e) = "no_op" => Best(bars, events \cup {e})
<1> DEFINE same == {b \in bars : SameKey(b, e)}
           beats == \A b \in same : b.id # e.id /\ Wins(e, b)
           more == events \cup {e}
<1>1. Decide(bars, e) = IF same = {} THEN "insert" ELSE IF beats THEN "replace" ELSE "no_op"
  BY DEF Decide
<1>2. bars \in SUBSET events /\ OnePer(bars) /\ Covers(bars, events) /\ more \in SUBSET Events
  BY DEF Best
<1>3. same = {} => \A b \in bars : ~SameKey(b, e)
  OBVIOUS
<1>4. same # {} => \E b \in bars : SameKey(b, e)
  OBVIOUS
<1>5. \A b \in same : b \in bars /\ SameKey(b, e)
  OBVIOUS
<1>6. ASSUME same = {} \/ beats
      PROVE  /\ \A b \in bars : SameKey(b, e) => Wins(e, b)
             /\ Best(Apply(bars, e), more)
  <2>1. \A b \in bars : SameKey(b, e) => Wins(e, b)
    BY <1>6
  <2>2. /\ \A b : b \in Apply(bars, e) <=> b = e \/ (b \in bars /\ ~SameKey(b, e))
        /\ OnePer(Apply(bars, e))
    BY <1>2, ApplyRules
  <2>3. Apply(bars, e) \subseteq more
    BY <1>2, <2>2
  <2>4. ASSUME NEW a \in more
        PROVE  \E b \in Apply(bars, e) : SameKey(a, b) /\ (b = a \/ Wins(b, a))
    <3>1. CASE a = e
      BY <2>2, <3>1 DEF SameKey
    <3>2. ASSUME a \in events PROVE \E b \in Apply(bars, e) : SameKey(a, b) /\ (b = a \/ Wins(b, a))
      <4>1. PICK b \in bars : SameKey(a, b) /\ (b = a \/ Wins(b, a))
        BY <1>2, <3>2 DEF Covers
      <4>2. CASE ~SameKey(b, e)
        BY <2>2, <4>1, <4>2
      <4>3. CASE SameKey(b, e)
        <5>1. SameKey(a, e) /\ Wins(e, b)
          BY <2>1, <4>1, <4>3 DEF SameKey
        <5>2. Wins(e, a)
          BY <1>2, <3>2, <4>1, <5>1, WinsIsTransitive
        <5> QED
          BY <2>2, <5>1, <5>2
      <4> QED
        BY <4>2, <4>3
    <3> QED
      BY <3>1, <3>2
  <2> QED
    BY <2>1, <2>2, <2>3, <2>4 DEF Best, Covers
<1>7. ASSUME same # {}, ~beats PROVE Best(bars, more)
  <2>1. PICK c \in same : ~(c.id # e.id /\ Wins(e, c))
    BY <1>7
  <2>2. c \in bars /\ SameKey(c, e) /\ c \in Events /\ c # e
    BY <1>2
  <2>3. c.id # e.id
    BY <2>2, EventsAssumption
  <2>4. Wins(c, e) /\ SameKey(e, c)
    BY <2>1, <2>2, <2>3, WinsIsTotal DEF SameKey
  <2> HIDE DEF same, beats
  <2>5. Covers(bars, more)
    BY <1>2, <2>2, <2>4 DEF Covers
  <2> QED
    BY <1>2, <2>5 DEF Best
<1> HIDE DEF same, beats
<1> QED
  BY <1>1, <1>3, <1>4, <1>6, <1>7

\* The row that the writer journals with its decision.
Revision(bars, e) ==
  [operation |-> Decide(bars, e), event |-> e,
   previous |-> IF {b \in bars : SameKey(b, e)} = {} THEN None
                ELSE (CHOOSE b \in {b \in bars : SameKey(b, e)} : TRUE).id]

\* The row is honest for a run that knows the canonical bars.
LEMMA RevisionIsHonest ==
  ASSUME NEW events \in SUBSET Events, NEW bars, Best(bars, events),
         NEW e \in Events, e \notin events, Decide(bars, e) # "no_op",
         NEW known, NEW boundary, KnowsCanonical(known, bars, boundary)
  PROVE  /\ Revision(bars, e) \in RowsOf(events \cup {e})
         /\ Honest(known, Revision(bars, e), boundary)
         /\ KnowsCanonical(Apply(known, e), Apply(bars, e), boundary)
<1> DEFINE same == {b \in bars : SameKey(b, e)}
           row == Revision(bars, e)
           more == events \cup {e}
<1>1. row = [operation |-> Decide(bars, e), event |-> e,
             previous |-> IF same = {} THEN None ELSE (CHOOSE b \in same : TRUE).id]
  BY DEF Revision
<1>2. /\ Decide(bars, e) \in {"insert", "replace"}
      /\ Decide(bars, e) = "insert" => \A b \in bars : ~SameKey(b, e)
      /\ Decide(bars, e) = "replace" => \E b \in bars : SameKey(b, e)
      /\ \A b \in bars : SameKey(b, e) => Wins(e, b)
  BY DecideRules
<1>3. bars \subseteq events /\ OnePer(bars)
  BY DEF Best
<1>4. known \subseteq bars /\ \A b \in bars : b \in known \/ Before(b, boundary)
  BY DEF KnowsCanonical
<1>5. ASSUME NEW b \in bars, SameKey(b, e) PROVE row.previous = b.id
  <2>1. \A a \in same : a = b
    BY <1>3, <1>5 DEF OnePer, SameKey
  <2>2. b \in same
    BY <1>5
  <2> HIDE DEF same, row
  <2>3. (CHOOSE c \in same : TRUE) = b
    BY <2>1, <2>2
  <2> QED
    BY <1>1, <2>2, <2>3
<1>6. row.previous \in {a.id : a \in more} \cup {None}
  <2>1. same = {} => row.previous = None
    BY <1>1
  <2>2. same # {} => \E b \in bars : SameKey(b, e)
    OBVIOUS
  <2> HIDE DEF row, same
  <2> QED
    BY <1>3, <1>5, <2>1, <2>2
<1>7. row.operation = Decide(bars, e) /\ row.event = e
  BY <1>1
<1>8. row \in RowsOf(more)
  <2>1. row = [operation |-> row.operation, event |-> row.event, previous |-> row.previous]
    BY <1>1
  <2> HIDE DEF row
  <2> QED
    BY <1>2, <1>6, <1>7, <2>1 DEF RowsOf
<1> HIDE DEF row, same
<1>9. Honest(known, row, boundary)
  <2>1. Decide(bars, e) = "replace" => Before(e, boundary) \/ \E b \in known : SameKey(b, e)
    <3>1. \A b \in bars : SameKey(b, e) /\ Before(b, boundary) => Before(e, boundary)
      BY DEF SameKey, Before
    <3> QED
      BY <1>2, <1>4, <3>1
  <2> QED
    BY <1>2, <1>4, <1>5, <1>7, <2>1 DEF Honest
<1>10. KnowsCanonical(Apply(known, e), Apply(bars, e), boundary)
  <2>1. \A b : b \in Apply(known, e) <=> b = e \/ (b \in known /\ ~SameKey(b, e))
    BY ApplyRules
  <2>2. \A b : b \in Apply(bars, e) <=> b = e \/ (b \in bars /\ ~SameKey(b, e))
    BY ApplyRules
  <2> QED
    BY <1>4, <2>1, <2>2 DEF KnowsCanonical
<1> QED
  BY <1>8, <1>9, <1>10 DEF row

LEMMA AppendRules ==
  ASSUME NEW events, NEW more, events \subseteq more,
         NEW rows \in Seq(RowsOf(events)), NEW row \in RowsOf(more)
  PROVE  /\ rows \in Seq(RowsOf(more)) /\ Append(rows, row) \in Seq(RowsOf(more))
         /\ Len(rows) \in Nat /\ Len(Append(rows, row)) = Len(rows) + 1
         /\ \A q \in 1 .. Len(rows) : Append(rows, row)[q] = rows[q]
         /\ Append(rows, row)[Len(rows) + 1] = row
<1>1. RowsOf(events) \subseteq RowsOf(more)
  BY DEF RowsOf
<1> DEFINE R == RowsOf(events)
           M == RowsOf(more)
<1> HIDE DEF R, M
<1>2. R \subseteq M /\ rows \in Seq(R) /\ row \in M
  BY <1>1 DEF R, M
<1>3. rows \in Seq(M)
  BY <1>2
<1>4. /\ Append(rows, row) \in Seq(M) /\ Len(Append(rows, row)) = Len(rows) + 1
      /\ \A q \in 1 .. Len(rows) : Append(rows, row)[q] = rows[q]
      /\ Append(rows, row)[Len(rows) + 1] = row
  BY <1>2, <1>3, AppendProperties
<1> QED
  BY <1>3, <1>4 DEF M

\* A journal continued: what was known after its rows stays known after them.
ContinuedBy(rows, more) ==
  Len(rows) <= Len(more) /\ \A q \in 1 .. Len(rows) : more[q] = rows[q]

LEMMA ContinuedRules ==
  ASSUME NEW base, NEW rows, NEW more, Len(rows) \in Nat, Len(more) \in Nat,
         ContinuedBy(rows, more), NEW p \in 0 .. Len(rows)
  PROVE  /\ Known(base, more, p) = Known(base, rows, p)
         /\ p < Len(rows) => p < Len(more) /\ more[p + 1] = rows[p + 1]
<1>1. \A q \in 1 .. p : more[q] = rows[q]
  BY DEF ContinuedBy
<1>2. Known(base, more, p) = Known(base, rows, p)
  BY <1>1, KnownPrefix
<1>3. p < Len(rows) => p + 1 \in 1 .. Len(rows)
  OBVIOUS
<1> QED
  BY <1>2, <1>3 DEF ContinuedBy

\* A claim is right whatever is appended to the journal.
LEMMA ClaimContinues ==
  ASSUME NEW claim, NEW r, NEW rows, NEW more, Len(rows) \in Nat, Len(more) \in Nat,
         ContinuedBy(rows, more), NEW position \in 0 .. Len(rows), NEW token,
         ClaimRight(claim, r, rows, position, token)
  PROVE  ClaimRight(claim, r, more, position, token)
<1> SUFFICES ASSUME claim # None PROVE ClaimRight(claim, r, more, position, token)
  BY DEF ClaimRight
<1>1. claim.cursor \in 0 .. position
  BY DEF ClaimRight
<1>2. claim.cursor \in 0 .. Len(rows)
  BY <1>1
<1> QED
  BY <1>2, ContinuedRules DEF ClaimRight

LEMMA DeliverRules ==
  ASSUME NEW event \in Events, Deliver(event)
  PROVE  LET decision == Decide(canonical, event)
         IN  /\ event \notin arrived /\ arrived' = arrived \cup {event}
             /\ canonical' = IF decision = "no_op" THEN canonical ELSE Apply(canonical, event)
             /\ journal' = IF decision = "no_op" \/ run = None THEN journal
                           ELSE Append(journal, Revision(canonical, event))
             /\ UNCHANGED <<run, cursor, fence, evaluations, latest, transitions, claims,
                            failure>>
BY DEF Deliver, Revision

\* The journal of a run stays right.
LEMMA DeliverJournal ==
  ASSUME IInv, NEW event \in Events, Deliver(event), run # None
  PROVE  /\ JournalRight(run, journal', canonical') /\ ContinuedBy(journal, journal')
         /\ journal' \in Seq(RowsOf(arrived'))
<1> DEFINE row == Revision(canonical, event)
           K == Known(run.base, journal, Len(journal))
           decision == Decide(canonical, event)
<1>1. /\ arrived \in SUBSET Events /\ Best(canonical, arrived)
      /\ journal \in Seq(RowsOf(arrived)) /\ JournalRight(run, journal, canonical)
  BY DEF IInv, ArrivedRight, RunRight, CountersRight
<1>2. /\ event \notin arrived /\ arrived' = arrived \cup {event}
      /\ canonical' = IF decision = "no_op" THEN canonical ELSE Apply(canonical, event)
      /\ journal' = IF decision = "no_op" \/ run = None THEN journal ELSE Append(journal, row)
  BY DeliverRules
<1>3. arrived \subseteq arrived' /\ RowsOf(arrived) \subseteq RowsOf(arrived')
  BY <1>2 DEF RowsOf
<1>4. KnowsCanonical(K, canonical, run.boundary) /\ AllHonest(run, journal)
  BY <1>1 DEF JournalRight
<1> HIDE DEF decision, row
<1>5. CASE decision = "no_op"
  <2>1. journal' = journal /\ canonical' = canonical
    BY <1>2, <1>5
  <2>2. journal \in Seq(RowsOf(arrived')) /\ Len(journal) \in Nat
    BY <1>1, <1>3
  <2> QED
    BY <1>1, <2>1, <2>2 DEF ContinuedBy
<1>6. CASE decision # "no_op"
  <2>1. journal' = Append(journal, row) /\ canonical' = Apply(canonical, event)
    BY <1>2, <1>6
  <2>2. /\ row \in RowsOf(arrived') /\ Honest(K, row, run.boundary)
        /\ KnowsCanonical(Apply(K, event), canonical', run.boundary) /\ row.event = event
    <3>1. row.event = event
      BY DEF row, Revision
    <3> HIDE DEF K
    <3>2. /\ Revision(canonical, event) \in RowsOf(arrived \cup {event})
          /\ Honest(K, Revision(canonical, event), run.boundary)
          /\ KnowsCanonical(Apply(K, event), Apply(canonical, event), run.boundary)
      BY <1>1, <1>2, <1>4, <1>6, RevisionIsHonest DEF decision
    <3> QED
      BY <1>2, <2>1, <3>1, <3>2 DEF row
  <2>3. /\ journal' \in Seq(RowsOf(arrived')) /\ Len(journal) \in Nat
        /\ Len(journal') = Len(journal) + 1
        /\ \A q \in 1 .. Len(journal) : journal'[q] = journal[q]
        /\ journal'[Len(journal) + 1] = row
    BY <1>1, <1>3, <2>1, <2>2, AppendRules
  <2>4. ContinuedBy(journal, journal')
    BY <2>3 DEF ContinuedBy
  <2>5. \A p \in 0 .. Len(journal) : Known(run.base, journal', p) = Known(run.base, journal, p)
    BY <2>3, <2>4, ContinuedRules
  <2>6. Known(run.base, journal', Len(journal')) = Apply(K, event)
    <3>1. Known(run.base, journal', Len(journal) + 1)
            = Apply(Known(run.base, journal', Len(journal)), journal'[Len(journal) + 1].event)
      BY <2>3, KnownStep
    <3> QED
      BY <2>2, <2>3, <2>5, <3>1
  <2>7. ASSUME NEW p \in 0 .. (Len(journal') - 1)
        PROVE  Honest(Known(run.base, journal', p), journal'[p + 1], run.boundary)
    <3>1. CASE p = Len(journal)
      BY <2>2, <2>3, <2>5, <3>1
    <3>2. CASE p \in 0 .. (Len(journal) - 1)
      <4>1. p \in 0 .. Len(journal) /\ p + 1 \in 1 .. Len(journal)
        BY <2>3, <3>2
      <4> QED
        BY <1>4, <2>3, <2>5, <3>2, <4>1 DEF AllHonest
    <3> QED
      BY <2>3, <3>1, <3>2
  <2>8. AllHonest(run, journal')
    BY <2>7 DEF AllHonest
  <2> QED
    BY <2>2, <2>3, <2>4, <2>6, <2>8 DEF JournalRight
<1> QED
  BY <1>5, <1>6

LEMMA DeliverStep ==
  ASSUME IInv, NEW event \in Events, Deliver(event)
  PROVE  IInv'
<1>1. /\ event \notin arrived /\ arrived' = arrived \cup {event}
      /\ UNCHANGED <<run, cursor, fence, evaluations, latest, transitions, claims, failure>>
  BY DeliverRules
<1>2. /\ arrived \in SUBSET Events /\ IsFiniteSet(arrived) /\ Best(canonical, arrived)
      /\ journal \in Seq(RowsOf(arrived)) /\ cursor \in 0 .. Len(journal)
      /\ Len(journal) \in Nat
  BY DEF IInv, ArrivedRight, CountersRight
<1>3. ArrivedRight'
  <2>1. IsFiniteSet(arrived')
    BY <1>1, <1>2, FS_AddElement
  <2>2. canonical' = IF Decide(canonical, event) = "no_op" THEN canonical
                     ELSE Apply(canonical, event)
    BY DeliverRules
  <2>3. Best(canonical', arrived')
    BY <1>1, <1>2, <2>2, DecideRules
  <2> QED
    BY <1>1, <1>2, <2>1, <2>3 DEF ArrivedRight
<1>4. journal' \in Seq(RowsOf(arrived')) /\ Len(journal') \in Nat /\ ContinuedBy(journal, journal')
  <2>1. CASE run # None
    BY <2>1, DeliverJournal
  <2>2. CASE run = None
    <3>1. journal' = journal
      BY <2>2, DeliverRules
    <3>2. RowsOf(arrived) \subseteq RowsOf(arrived')
      BY <1>1 DEF RowsOf
    <3>3. journal \in Seq(RowsOf(arrived'))
      BY <1>2, <3>2
    <3> QED
      BY <1>2, <3>1, <3>3 DEF ContinuedBy
  <2> QED
    BY <2>1, <2>2
<1>5. RunRight'
  <2>1. CASE run = None
    <3>1. journal' = journal
      BY <2>1, DeliverRules
    <3> QED
      BY <1>1, <2>1, <3>1 DEF IInv, RunRight, NothingYet
  <2>2. CASE run # None
    <3>1. BasedOn(run, arrived) /\ latest = Current(Known(run.base, journal, cursor), run.boundary)
      BY <2>2 DEF IInv, RunRight
    <3>2. BasedOn(run, arrived')
      BY <1>1, <3>1 DEF BasedOn
    <3>3. Known(run.base, journal', cursor) = Known(run.base, journal, cursor)
      BY <1>2, <1>4, ContinuedRules
    <3>4. JournalRight(run, journal', canonical')
      BY <2>2, DeliverJournal
    <3> QED
      BY <1>1, <2>2, <3>1, <3>2, <3>3, <3>4 DEF RunRight
  <2> QED
    BY <2>1, <2>2
<1>6. CountersRight'
  <2>1. cursor \in 0 .. Len(journal')
    BY <1>2, <1>4 DEF ContinuedBy
  <2> QED
    BY <1>1, <1>4, <2>1 DEF IInv, CountersRight
<1>7. ClaimsRight'
  <2>1. \A w \in Workers : ClaimRight(claims[w], run, journal', cursor, fence)
    BY <1>2, <1>4, ClaimContinues DEF IInv, ClaimsRight
  <2> QED
    BY <1>1, <2>1 DEF IInv, ClaimsRight
<1>8. HistoryRight'
  <2>1. History(transitions, latest, arrived, cursor)
        /\ evaluations = {At(transitions, i) : i \in DOMAIN transitions}
    BY DEF IInv, HistoryRight
  <2>2. History(transitions, latest, arrived', cursor)
    BY <1>1, <1>2, <2>1, HistoryKeeps
  <2> QED
    BY <1>1, <2>1, <2>2 DEF HistoryRight
<1> QED
  BY <1>3, <1>5, <1>6, <1>7, <1>8 DEF IInv

-----------------------------------------------------------------------------
(* The cutover.                                                             *)

OfSeries(bars, s) == {b \in bars : b.series = s}

BaseOf(bars) == UNION {Warmup(OfSeries(bars, s)) : s \in Series}

BoundaryOf(bars, now) == [s \in Series |-> FirstEvaluated(OfSeries(bars, s), now)]

\* The first bar that a run evaluates is later than those it starts from, and
\* a bar that is not in its bootstrap is in no window of those it evaluates.
LEMMA BoundaryRules ==
  ASSUME NEW bars \in SUBSET Events, IsFiniteSet(bars), OnePer(bars), NEW now \in Int,
         NEW s \in Series
  PROVE  LET S == OfSeries(bars, s)
         IN  /\ FirstEvaluated(S, now) \in Int
             /\ \A b \in S : /\ b.start < FirstEvaluated(S, now)
                             /\ b \in Warmup(S) \/ b.start + Lookback < FirstEvaluated(S, now)
<1> DEFINE S == OfSeries(bars, s)
           begins == {b.start : b \in S}
           first == FirstEvaluated(S, now)
           g == [b \in S |-> b.start]
<1>1. /\ S \in SUBSET Events /\ S \in SUBSET bars
      /\ \A a, b \in S : a.start = b.start => a = b
  BY DEF OfSeries, OnePer, SameKey
<1> HIDE DEF S
<1>2. IsFiniteSet(S) /\ begins \in SUBSET Int
  BY <1>1, FS_Subset, EventFields
<1>3. g \in Surjection(S, begins)
  BY DEF Surjection
<1> HIDE DEF g
<1>4. IsFiniteSet(begins)
  BY <1>2, <1>3, FS_Surjection
<1>5. CASE S = {}
  <2>1. first = now
    BY <1>5 DEF FirstEvaluated
  <2> QED
    BY <1>5, <2>1 DEF S
<1>6. CASE S # {}
  <2> DEFINE M == Max(begins)
  <2>1. first = M + 1
    BY <1>6 DEF FirstEvaluated
  <2>2. begins # {}
    BY <1>6
  <2>3. \A b \in S : b.start \in begins
    OBVIOUS
  <2>4. \A x \in begins : \E b \in S : x = b.start
    OBVIOUS
  <2> HIDE DEF begins
  <2>5. M \in begins /\ \A x \in begins : x <= M
    BY <1>2, <1>4, <2>2, MaxOfFinite
  <2>6. PICK m \in S : m.start = M
    BY <2>4, <2>5
  <2>7. M \in Int /\ \A b \in S : b.start <= M /\ b.start \in Int
    BY <1>2, <2>3, <2>5
  <2> HIDE DEF M
  <2>8. ASSUME NEW b \in S, b \notin Warmup(S) PROVE b.start + Lookback <= M
    <3> DEFINE H == {c \in S : c.start > b.start}
    <3>1. Session(b.start) # Session(M) \/ ~(Cardinality(H) < Lookback)
      BY <2>8 DEF Warmup, LatestSession, M, begins
    <3>2. CASE Session(b.start) # Session(M)
      <4>1. b.start < m.start
        BY <2>6, <2>7, <3>2
      <4> QED
        BY <1>1, <2>6, <3>2, <4>1, EventsAssumption
    <3>3. CASE ~(Cardinality(H) < Lookback)
      <4>1. H \in SUBSET Events /\ \A a, c \in H : a.start = c.start => a = c
        BY <1>1
      <4>2. \A c \in H : c.start \in (b.start + 1) .. M
        BY <2>7
      <4>3. b.start + 1 \in Int /\ b.start + 1 <= M + 1
        BY <2>7
      <4> HIDE DEF H
      <4>4. Cardinality(H) \in Nat /\ Cardinality(H) <= M - (b.start + 1) + 1
        BY <2>7, <4>1, <4>2, <4>3, BarsOfWindow
      <4>5. Lookback \in Nat
        BY RulesAssumption
      <4> QED
        BY <2>7, <3>3, <4>4, <4>5
    <3> QED
      BY <3>1, <3>2, <3>3
  <2>9. Lookback \in Nat
    BY RulesAssumption
  <2>10. /\ first \in Int
         /\ \A b \in S : b.start < first /\ (b \in Warmup(S) \/ b.start + Lookback < first)
    BY <2>1, <2>7, <2>8, <2>9
  <2> QED
    BY <2>10 DEF S
<1> QED
  BY <1>5, <1>6

\* A run begins with canonical bars, with nothing to evaluate.
LEMMA EnableRules ==
  ASSUME ArrivedRight, NEW now \in Int, NEW r,
         r = [base |-> BaseOf(canonical), boundary |-> BoundaryOf(canonical, now)]
  PROVE  /\ BasedOn(r, arrived) /\ r # None
         /\ KnowsCanonical(r.base, canonical, r.boundary)
         /\ Current(r.base, r.boundary) = {}
<1>1. /\ arrived \in SUBSET Events /\ canonical \in SUBSET Events /\ IsFiniteSet(canonical)
      /\ canonical \subseteq arrived /\ OnePer(canonical)
  BY FS_Subset DEF ArrivedRight, Best
<1>2. r.base = BaseOf(canonical) /\ r.boundary = BoundaryOf(canonical, now)
  OBVIOUS
<1>3. BaseOf(canonical) \subseteq canonical
  BY DEF BaseOf, Warmup, OfSeries
<1>4. \A s \in Series : /\ BoundaryOf(canonical, now)[s] = FirstEvaluated(OfSeries(canonical, s), now)
                        /\ BoundaryOf(canonical, now)[s] \in Int
  BY <1>1, BoundaryRules DEF BoundaryOf
<1>5. BoundaryOf(canonical, now) \in [Series -> Int]
  BY <1>4 DEF BoundaryOf
<1>6. ASSUME NEW b \in canonical
      PROVE  /\ b.start < BoundaryOf(canonical, now)[b.series]
             /\ b \in BaseOf(canonical) \/ Before(b, BoundaryOf(canonical, now))
  <2>1. b.series \in Series /\ b \in OfSeries(canonical, b.series)
    BY <1>1, EventFields DEF OfSeries
  <2>2. b \in Warmup(OfSeries(canonical, b.series)) => b \in BaseOf(canonical)
    BY <2>1 DEF BaseOf
  <2> QED
    BY <1>1, <1>4, <2>1, <2>2, BoundaryRules DEF Before
<1>7. r \in Run
  BY <1>1, <1>3, <1>5 DEF Run
<1>8. BasedOn(r, arrived) /\ r # None
  BY <1>1, <1>2, <1>3, <1>7, NoneAssumption DEF BasedOn, OnePer
<1>9. KnowsCanonical(r.base, canonical, r.boundary)
  BY <1>2, <1>3, <1>6 DEF KnowsCanonical
<1>10. \A b \in r.base : ~(b.start >= r.boundary[b.series])
  <2>1. TAKE b \in r.base
  <2>2. b \in canonical /\ b.start \in Int /\ b.series \in Series
    BY <1>1, <1>2, <1>3, EventFields
  <2>3. b.start < r.boundary[b.series] /\ r.boundary[b.series] \in Int
    BY <1>2, <1>4, <1>6, <2>2
  <2> QED
    BY <2>2, <2>3
<1>11. Current(r.base, r.boundary) = {}
  BY <1>10 DEF Current, Owned
<1> QED
  BY <1>8, <1>9, <1>11

\* A claim just taken is right.
LEMMA ClaimedRules ==
  ASSUME NEW token \in Nat \ {0}, cursor \in Nat
  PROVE  /\ Claimed(token) \in Claim
         /\ \A r, rows : ClaimRight(Claimed(token), r, rows, cursor, token)
<1>1. Claimed(token) = [fence |-> token, cursor |-> cursor, computed |-> FALSE, work |-> {}]
  BY DEF Claimed
<1>2. Claimed(token) \in Claim
  <2>1. {} \in SUBSET Result
    OBVIOUS
  <2> QED
    BY <1>1, <2>1 DEF Claim
<1>3. token \in 1 .. token /\ cursor \in 0 .. cursor
  OBVIOUS
<1>4. /\ Claimed(token).fence = token /\ Claimed(token).cursor = cursor
      /\ ~Claimed(token).computed
  BY <1>1
<1>5. \A r, rows : ClaimRight(Claimed(token), r, rows, cursor, token)
  BY <1>2, <1>3, <1>4 DEF ClaimRight
<1> QED
  BY <1>2, <1>5

LEMMA EnableStep ==
  ASSUME IInv, NEW worker \in Workers, NEW now \in Clock, Enable(worker, now)
  PROVE  IInv'
<1>1. /\ run = None /\ fence' = 1 /\ claims' = [claims EXCEPT ![worker] = Claimed(1)]
      /\ run' = [base |-> BaseOf(canonical), boundary |-> BoundaryOf(canonical, now)]
      /\ UNCHANGED <<arrived, canonical, journal, cursor, evaluations, latest, transitions,
                     failure>>
  BY DEF Enable, BaseOf, BoundaryOf, OfSeries
<1>2. /\ journal = <<>> /\ cursor = 0 /\ latest = {}
      /\ \A w \in Workers : claims[w] = None
  BY <1>1 DEF IInv, RunRight, NothingYet
<1>3. ArrivedRight'
  BY <1>1 DEF IInv, ArrivedRight
<1>4. /\ BasedOn(run', arrived) /\ run' # None
      /\ KnowsCanonical(run'.base, canonical, run'.boundary)
      /\ Current(run'.base, run'.boundary) = {}
  <2>1. now \in Int
    BY BoundsAssumption
  <2> QED
    BY <1>1, <2>1, EnableRules DEF IInv
<1>5. RunRight'
  <2>1. Known(run'.base, journal, 0) = run'.base
    BY KnownStart
  <2>2. Len(journal) = 0 /\ 0 .. (Len(journal) - 1) = {}
    BY <1>2
  <2>3. JournalRight(run', journal, canonical)
    BY <1>4, <2>1, <2>2 DEF JournalRight, AllHonest
  <2> QED
    BY <1>1, <1>2, <1>4, <2>1, <2>3 DEF RunRight
<1>6. CountersRight'
  <2>1. 1 \in 0 .. MaxFence
    BY BoundsAssumption
  <2> QED
    BY <1>1, <2>1 DEF IInv, CountersRight
<1>7. ClaimsRight'
  <2>1. Claimed(1) \in Claim /\ ClaimRight(Claimed(1), run', journal, cursor, 1)
    BY <1>2, ClaimedRules
  <2>2. claims \in [Workers -> Claim \cup {None}]
    BY DEF IInv, ClaimsRight
  <2>3. claims' \in [Workers -> Claim \cup {None}]
    BY <1>1, <2>1, <2>2
  <2>4. \A w \in Workers : claims'[w] = IF w = worker THEN Claimed(1) ELSE None
    BY <1>1, <1>2, <2>2
  <2>5. \A w \in Workers : ClaimRight(claims'[w], run', journal, cursor, 1)
    BY <2>1, <2>4 DEF ClaimRight
  <2> QED
    BY <1>1, <2>3, <2>5 DEF ClaimsRight
<1>8. HistoryRight'
  BY <1>1 DEF IInv, HistoryRight
<1> QED
  BY <1>3, <1>5, <1>6, <1>7, <1>8 DEF IInv

-----------------------------------------------------------------------------
(* Claims, computation and commit.                                          *)

LEMMA ClaimLater ==
  ASSUME NEW claim, NEW r, NEW rows, NEW position \in Nat, NEW token \in Nat,
         NEW later \in {position, position + 1}, NEW next \in {token, token + 1},
         ClaimRight(claim, r, rows, position, token)
  PROVE  ClaimRight(claim, r, rows, later, next)
<1>1. 1 .. token \subseteq 1 .. next /\ 0 .. position \subseteq 0 .. later
  OBVIOUS
<1> QED
  BY <1>1 DEF ClaimRight

LEMMA NoClaim ==
  ASSUME NEW r, NEW rows, NEW position, NEW token
  PROVE  ClaimRight(None, r, rows, position, token)
BY DEF ClaimRight

\* Another claim of one worker leaves those of the others as they are.
LEMMA OneClaimChanges ==
  ASSUME ClaimsRight, NEW worker \in Workers, NEW claim \in Claim \cup {None},
         NEW later \in {cursor, cursor + 1}, NEW next \in {fence, fence + 1},
         cursor \in Nat, fence \in Nat,
         ClaimRight(claim, run, journal, later, next)
  PROVE  LET new == [claims EXCEPT ![worker] = claim]
         IN  /\ new \in [Workers -> Claim \cup {None}]
             /\ \A w \in Workers : ClaimRight(new[w], run, journal, later, next)
<1> DEFINE C == Claim \cup {None}
           new == [claims EXCEPT ![worker] = claim]
<1>1. claims \in [Workers -> C] /\ claim \in C
  BY DEF ClaimsRight
<1> HIDE DEF C
<1>2. /\ new \in [Workers -> C]
      /\ \A w \in Workers : new[w] = IF w = worker THEN claim ELSE claims[w]
  BY <1>1
<1>3. \A w \in Workers : ClaimRight(claims[w], run, journal, cursor, fence)
  BY DEF ClaimsRight
<1>4. \A w \in Workers : ClaimRight(claims[w], run, journal, later, next)
  BY <1>3, ClaimLater
<1> HIDE DEF new
<1>5. \A w \in Workers : ClaimRight(new[w], run, journal, later, next)
  BY <1>2, <1>4
<1> QED
  BY <1>2, <1>5 DEF new, C

LEMMA ResumeStep ==
  ASSUME IInv, NEW worker \in Workers, Resume(worker)
  PROVE  IInv'
<1>1. /\ run # None /\ fence < MaxFence /\ fence' = fence + 1
      /\ claims' = [claims EXCEPT ![worker] = Claimed(fence + 1)]
      /\ UNCHANGED <<arrived, canonical, run, journal, cursor, evaluations, latest,
                     transitions, failure>>
  BY DEF Resume
<1>2. cursor \in Nat /\ fence \in 0 .. MaxFence /\ fence \in Nat
  BY DEF IInv, CountersRight
<1>3. ArrivedRight' /\ RunRight' /\ HistoryRight'
  BY <1>1 DEF IInv, ArrivedRight, RunRight, HistoryRight
<1>4. CountersRight'
  <2>1. fence + 1 \in 0 .. MaxFence
    BY <1>1, <1>2, BoundsAssumption
  <2> QED
    BY <1>1, <2>1 DEF IInv, CountersRight
<1>5. ClaimsRight'
  <2>1. fence + 1 \in Nat \ {0}
    BY <1>2
  <2>2. Claimed(fence + 1) \in Claim /\ ClaimRight(Claimed(fence + 1), run, journal, cursor, fence + 1)
    BY <1>2, <2>1, ClaimedRules
  <2>3. ClaimsRight
    BY DEF IInv
  <2>4. /\ claims' \in [Workers -> Claim \cup {None}]
        /\ \A w \in Workers : ClaimRight(claims'[w], run, journal, cursor, fence + 1)
    BY <1>1, <1>2, <2>2, <2>3, OneClaimChanges
  <2> QED
    BY <1>1, <2>4 DEF ClaimsRight
<1> QED
  BY <1>3, <1>4, <1>5 DEF IInv

LEMMA CrashStep ==
  ASSUME IInv, NEW worker \in Workers, Crash(worker)
  PROVE  IInv'
<1>1. /\ claims' = [claims EXCEPT ![worker] = None] /\ claims[worker] # None
      /\ UNCHANGED <<arrived, canonical, run, journal, cursor, fence, evaluations, latest,
                     transitions, failure>>
  BY DEF Crash
<1>2. cursor \in Nat /\ fence \in Nat /\ ClaimsRight
  BY DEF IInv, CountersRight
<1>3. ArrivedRight' /\ CountersRight' /\ HistoryRight'
  BY <1>1 DEF IInv, ArrivedRight, CountersRight, HistoryRight
<1>4. RunRight'
  BY <1>1 DEF IInv, RunRight, NothingYet
<1>5. ClaimsRight'
  <2>1. /\ claims' \in [Workers -> Claim \cup {None}]
        /\ \A w \in Workers : ClaimRight(claims'[w], run, journal, cursor, fence)
    BY <1>1, <1>2, NoClaim, OneClaimChanges
  <2> QED
    BY <1>1, <2>1 DEF ClaimsRight
<1> QED
  BY <1>3, <1>4, <1>5 DEF IInv

\* What a run knows after a part of its journal.
LEMMA KnownOfRun ==
  ASSUME IInv, run # None, NEW p \in 0 .. Len(journal)
  PROVE  LET X == Known(run.base, journal, p)
         IN  /\ X \in SUBSET arrived /\ arrived \in SUBSET Events /\ OnePer(X)
             /\ run.boundary \in [Series -> Int]
             /\ p < Len(journal) => /\ Honest(X, journal[p + 1], run.boundary)
                                    /\ journal[p + 1] \in Rows
                                    /\ journal[p + 1].event \in arrived
<1>1. /\ BasedOn(run, arrived) /\ AllHonest(run, journal) /\ arrived \in SUBSET Events
      /\ journal \in Seq(RowsOf(arrived)) /\ Len(journal) \in Nat
  BY DEF IInv, ArrivedRight, RunRight, CountersRight, JournalRight
<1>2. \A q \in 1 .. Len(journal) : journal[q] \in RowsOf(arrived)
  BY <1>1
<1>3. \A row \in RowsOf(arrived) : row.event \in arrived /\ row \in Rows
  BY <1>1, EventsAssumption DEF RowsOf, Rows
<1>4. run.base \subseteq arrived /\ OnePer(run.base) /\ run.boundary \in [Series -> Int]
  BY <1>1 DEF BasedOn, Run
<1>5. p \in Nat /\ \A q \in 1 .. p : journal[q].event \in arrived
  BY <1>1, <1>2, <1>3
<1>6. OnePer(Known(run.base, journal, p)) /\ Known(run.base, journal, p) \subseteq arrived
  BY <1>4, <1>5, KnownRules
<1>7. p < Len(journal) => p \in 0 .. (Len(journal) - 1) /\ p + 1 \in 1 .. Len(journal)
  BY <1>1
<1> QED
  BY <1>1, <1>2, <1>3, <1>4, <1>6, <1>7 DEF AllHonest

LEMMA ComputeStep ==
  ASSUME IInv, NEW worker \in Workers, Compute(worker)
  PROVE  IInv'
<1> DEFINE claim == claims[worker]
           p == claim.cursor
           X == Known(run.base, journal, p)
           row == journal[p + 1]
           work == Work(p)
           new == IF work.failure # None THEN None
                  ELSE [claim EXCEPT !.computed = TRUE, !.work = work.evaluations]
<1>1. /\ claim # None /\ p < Len(journal)
      /\ claims' = [claims EXCEPT ![worker] = new]
      /\ failure' = IF work.failure # None THEN work.failure ELSE failure
      /\ UNCHANGED <<arrived, canonical, run, journal, cursor, fence, evaluations, latest,
                     transitions>>
  BY DEF Compute
<1>2. run # None
  BY <1>1 DEF IInv, RunRight, NothingYet
<1>3. /\ claim \in Claim /\ claim.fence \in 1 .. fence /\ p \in 0 .. cursor
      /\ cursor \in 0 .. Len(journal) /\ Len(journal) \in Nat /\ fence \in Nat
  BY <1>1 DEF IInv, ClaimsRight, ClaimRight, CountersRight
<1>4. p \in 0 .. Len(journal) /\ p \in Nat /\ cursor \in Nat
  BY <1>3
<1>5. /\ X \in SUBSET arrived /\ arrived \in SUBSET Events /\ OnePer(X)
      /\ Honest(X, row, run.boundary) /\ row \in Rows /\ row.event \in arrived
  BY <1>1, <1>2, <1>4, KnownOfRun
<1>6. /\ work.failure \in {None, "capacity_exceeded"}
      /\ QueueCapacity > Lookback => work.failure # "capacity_exceeded"
      /\ work.failure = None => work.evaluations = Delta(X, row, run.boundary)
  BY <1>4, <1>5, WorkRule
<1>7. Delta(X, row, run.boundary) \in SUBSET Result
  <2> DEFINE Y == Apply(X, row.event)
             b == run.boundary
  <2>1. OnePer(Y) /\ Y \in SUBSET Events
    BY <1>5, ApplyRules
  <2> HIDE DEF Y, X, row, b
  <2>2. \A e \in Current(Y, b) : e \in Result
    BY <2>1, CurrentRules
  <2>3. \A e \in Delta(X, row, b) : e \in Current(Y, b)
    BY <1>5, DeltaRules DEF Y
  <2> QED
    BY <2>2, <2>3 DEF b
<1> HIDE DEF work, row, X
<1>8. new \in Claim \cup {None} /\ ClaimRight(new, run, journal, cursor, fence)
  <2>1. CASE work.failure # None
    BY <2>1, NoClaim
  <2>2. CASE work.failure = None
    <3> DEFINE D == Delta(X, row, run.boundary)
               full == [claim EXCEPT !.computed = TRUE, !.work = D]
    <3>1. new = full
      BY <1>6, <2>2
    <3>2. D \in SUBSET Result
      BY <1>7
    <3> HIDE DEF D, claim
    <3>3. /\ full \in Claim /\ full.fence = claim.fence /\ full.cursor = claim.cursor
          /\ full.work = D
      BY <1>3, <3>2 DEF Claim
    <3> HIDE DEF full
    <3>4. ClaimRight(full, run, journal, cursor, fence)
      BY <1>1, <1>3, <3>3 DEF ClaimRight, D, X, row
    <3> QED
      BY <3>1, <3>3, <3>4
  <2> QED
    BY <2>1, <2>2
<1>9. ArrivedRight' /\ HistoryRight'
  BY <1>1 DEF IInv, ArrivedRight, HistoryRight
<1>10. RunRight'
  BY <1>1, <1>2 DEF IInv, RunRight
<1>11. CountersRight'
  BY <1>1, <1>6 DEF IInv, CountersRight
<1>12. ClaimsRight'
  <2> HIDE DEF new
  <2>1. ClaimsRight
    BY DEF IInv
  <2>2. /\ claims' \in [Workers -> Claim \cup {None}]
        /\ \A w \in Workers : ClaimRight(claims'[w], run, journal, cursor, fence)
    BY <1>1, <1>3, <1>4, <1>8, <2>1, OneClaimChanges
  <2> QED
    BY <1>1, <2>2 DEF ClaimsRight
<1> QED
  BY <1>9, <1>10, <1>11, <1>12 DEF IInv

\* What a commit adds to the transitions extends their history.
LEMMA CommitExtends ==
  ASSUME NEW events \in SUBSET Events, NEW X \in SUBSET events, OnePer(X), NEW row,
         row.event \in events, NEW boundary \in [Series -> Int], Honest(X, row, boundary),
         NEW now, now = Current(X, boundary), NEW D, D = Delta(X, row, boundary),
         NEW position \in Nat, NEW rows, History(rows, now, events, position),
         NEW added, added = RowsAt(position + 1, D, now)
  PROVE  Extension(rows, added, now, D, events, position)
<1> DEFINE Y == Apply(X, row.event)
<1>1. OnePer(Y) /\ Y \in SUBSET events /\ X \in SUBSET Events /\ row.event \in Events
  BY ApplyRules
<1> HIDE DEF Y
<1>2. /\ \A e \in now : Sound(e, events) /\ e \in Result /\ e # None
      /\ Distinct(now)
  BY CurrentRules DEF Distinct
<1>3. /\ IsFiniteSet(D) /\ ApartByStart(D) /\ Distinct(D)
      /\ \A e \in D : e \in Current(Y, boundary)
  BY <1>1, DeltaRules DEF Distinct, Y
<1>4. \A e \in D : Sound(e, events) /\ e \in Result /\ e # None
  BY <1>1, <1>3, CurrentRules
<1>5. AllSound(now, events) /\ AllSound(D, events)
  BY <1>2, <1>4 DEF AllSound
<1>6. Continues(now, D)
  BY DeltaContinues
<1>7. now \in SUBSET Result /\ D \in SUBSET Result /\ position + 1 \in Nat
  BY <1>2, <1>4
<1>8. added \in Seq(Steps) /\ Adds(added, now, D, position + 1)
  BY <1>2, <1>3, <1>7, TransitionsRules
<1>9. rows \in Seq(Steps)
  BY DEF History
<1> QED
  BY <1>2, <1>3, <1>5, <1>6, <1>8, <1>9 DEF Extension

\* What is committed under the claim is what the next revision makes of what
\* was known.
LEMMA CommitRules ==
  ASSUME IInv, NEW worker \in Workers, Commit(worker), Holds(claims[worker])
  PROVE  LET X == Known(run.base, journal, cursor)
             row == journal[cursor + 1]
             D == claims[worker].work
         IN  /\ run # None /\ cursor \in Nat /\ cursor + 1 \in 0 .. Len(journal)
             /\ latest = Current(X, run.boundary) /\ D = Delta(X, row, run.boundary)
             /\ X \in SUBSET arrived /\ arrived \in SUBSET Events /\ OnePer(X)
             /\ run.boundary \in [Series -> Int] /\ Honest(X, row, run.boundary)
             /\ row.event \in arrived
<1>1. claims[worker] # None /\ claims[worker].computed /\ claims[worker].cursor = cursor
  BY DEF Commit, Holds
<1>2. run # None
  BY <1>1 DEF IInv, RunRight, NothingYet
<1>3. /\ ClaimRight(claims[worker], run, journal, cursor, fence)
      /\ cursor \in 0 .. Len(journal) /\ Len(journal) \in Nat
      /\ latest = Current(Known(run.base, journal, cursor), run.boundary)
  BY <1>2 DEF IInv, ClaimsRight, RunRight, CountersRight
<1>4. /\ cursor < Len(journal)
      /\ claims[worker].work = Delta(Known(run.base, journal, cursor), journal[cursor + 1],
                                     run.boundary)
  BY <1>1, <1>3 DEF ClaimRight
<1> QED
  BY <1>2, <1>3, <1>4, KnownOfRun

LEMMA CommitStep ==
  ASSUME IInv, NEW worker \in Workers, Commit(worker)
  PROVE  IInv'
<1> DEFINE claim == claims[worker]
<1>1. ArrivedRight'
  BY DEF Commit, IInv, ArrivedRight
<1>2. claim # None /\ claim.computed /\ UNCHANGED <<arrived, canonical, run, journal, fence, failure>>
  BY DEF Commit
<1>3. run # None
  BY <1>2 DEF IInv, RunRight, NothingYet
<1>4. ClaimsRight /\ cursor \in Nat /\ fence \in Nat
  BY DEF IInv, CountersRight
<1>5. CASE ~Holds(claim)
  <2>1. /\ claims' = [claims EXCEPT ![worker] = None]
        /\ UNCHANGED <<evaluations, transitions, latest, cursor>>
    BY <1>5 DEF Commit
  <2>2. RunRight'
    BY <1>2, <1>3, <2>1 DEF IInv, RunRight
  <2>3. CountersRight' /\ HistoryRight'
    BY <1>2, <2>1 DEF IInv, CountersRight, HistoryRight
  <2>4. ClaimsRight'
    <3>1. /\ claims' \in [Workers -> Claim \cup {None}]
          /\ \A w \in Workers : ClaimRight(claims'[w], run, journal, cursor, fence)
      BY <1>4, <2>1, NoClaim, OneClaimChanges
    <3> QED
      BY <1>2, <2>1, <3>1 DEF ClaimsRight
  <2> QED
    BY <1>1, <2>2, <2>3, <2>4 DEF IInv
<1>6. CASE Holds(claim)
  <2> DEFINE X == Known(run.base, journal, cursor)
             row == journal[cursor + 1]
             D == claim.work
             added == RowsAt(cursor + 1, D, latest)
             next == [claim EXCEPT !.cursor = cursor + 1, !.computed = FALSE, !.work = {}]
  <2>1. /\ transitions' = transitions \o added /\ evaluations' = evaluations \cup D
        /\ latest' = Superseding(latest, D) /\ cursor' = cursor + 1
        /\ claims' = [claims EXCEPT ![worker] = next]
    BY <1>6 DEF Commit, Stored, RowsAt
  <2>2. /\ cursor + 1 \in 0 .. Len(journal)
        /\ latest = Current(X, run.boundary) /\ D = Delta(X, row, run.boundary)
        /\ X \in SUBSET arrived /\ arrived \in SUBSET Events /\ OnePer(X)
        /\ run.boundary \in [Series -> Int] /\ Honest(X, row, run.boundary)
        /\ row.event \in arrived
    BY <1>6, CommitRules
  <2>3. /\ History(transitions, latest, arrived, cursor)
        /\ evaluations = Told(transitions)
    BY DEF IInv, HistoryRight, Told
  <2>4. added = RowsAt(cursor + 1, D, latest)
    OBVIOUS
  <2> HIDE DEF added
  <2>5. Extension(transitions, added, latest, D, arrived, cursor)
    <3> DEFINE b == run.boundary
    <3> HIDE DEF X, row, b, D
    <3>1. /\ arrived \in SUBSET Events /\ X \in SUBSET arrived /\ OnePer(X)
          /\ row.event \in arrived /\ b \in [Series -> Int] /\ Honest(X, row, b)
          /\ latest = Current(X, b) /\ D = Delta(X, row, b)
      BY <2>2 DEF b
    <3> QED
      BY <1>4, <2>3, <2>4, <3>1, CommitExtends
  <2>6. HistoryRight'
    <3>1. /\ History(transitions \o added, Superseding(latest, D), arrived, cursor + 1)
          /\ Told(transitions \o added) = evaluations \cup D
      <4>1. arrived \in SUBSET Events /\ evaluations = Told(transitions)
        BY <2>2, <2>3
      <4> HIDE DEF D
      <4>2. History(transitions \o added, Superseding(latest, D), arrived, cursor + 1)
        BY <2>5, <4>1, HistoryStep
      <4>3. Told(transitions \o added) = Told(transitions) \cup D
        BY <2>5, <4>1, ToldStep
      <4> QED
        BY <4>1, <4>2, <4>3
    <3> QED
      BY <1>2, <2>1, <3>1 DEF HistoryRight, Told
  <2>7. RunRight'
    <3>1. Superseding(latest, D) = Current(Apply(X, row.event), run.boundary)
      <4> DEFINE b == run.boundary
      <4> HIDE DEF X, row, b, D
      <4>1. X \in SUBSET Events /\ row.event \in Events
        BY <2>2
      <4> QED
        BY <2>2, <4>1, DeltaStep DEF b
    <3>2. Known(run.base, journal, cursor + 1) = Apply(X, row.event)
      BY <1>4, KnownStep
    <3>3. BasedOn(run, arrived) /\ JournalRight(run, journal, canonical)
      BY <1>3 DEF IInv, RunRight
    <3> QED
      BY <1>2, <1>3, <2>1, <3>1, <3>2, <3>3 DEF RunRight
  <2>8. CountersRight'
    BY <1>2, <2>1, <2>2 DEF IInv, CountersRight
  <2>9. ClaimsRight'
    <3>1. claim \in Claim /\ claim.fence \in 1 .. fence
      BY <1>2, <1>4 DEF ClaimsRight, ClaimRight
    <3>2. {} \in SUBSET Result /\ cursor + 1 \in Nat /\ cursor + 1 \in 0 .. (cursor + 1)
      BY <1>4
    <3> HIDE DEF claim
    <3>3. next \in Claim /\ next.fence = claim.fence /\ next.cursor = cursor + 1 /\ ~next.computed
      BY <3>1, <3>2 DEF Claim
    <3> HIDE DEF next
    <3>4. ClaimRight(next, run, journal, cursor + 1, fence)
      BY <3>1, <3>2, <3>3 DEF ClaimRight
    <3>5. /\ claims' \in [Workers -> Claim \cup {None}]
          /\ \A w \in Workers : ClaimRight(claims'[w], run, journal, cursor + 1, fence)
      BY <1>4, <2>1, <3>3, <3>4, OneClaimChanges
    <3> QED
      BY <1>2, <2>1, <3>5 DEF ClaimsRight
  <2> QED
    BY <1>1, <2>6, <2>7, <2>8, <2>9 DEF IInv
<1> QED
  BY <1>5, <1>6

\* In every state of every run of the system the invariant holds.
THEOREM Invariance == Spec => []IInv
<1>1. IInv /\ [Next]_vars => IInv'
  <2> SUFFICES ASSUME IInv, [Next]_vars PROVE IInv'
    OBVIOUS
  <2>1. ASSUME NEW event \in Events, Deliver(event) PROVE IInv'
    BY <2>1, DeliverStep
  <2>2. ASSUME NEW worker \in Workers, NEW now \in Clock, Enable(worker, now) PROVE IInv'
    BY <2>2, EnableStep
  <2>3. ASSUME NEW worker \in Workers, Resume(worker) PROVE IInv'
    BY <2>3, ResumeStep
  <2>4. ASSUME NEW worker \in Workers, Crash(worker) PROVE IInv'
    BY <2>4, CrashStep
  <2>5. ASSUME NEW worker \in Workers, Compute(worker) PROVE IInv'
    BY <2>5, ComputeStep
  <2>6. ASSUME NEW worker \in Workers, Commit(worker) PROVE IInv'
    BY <2>6, CommitStep
  <2>7. CASE UNCHANGED vars
    BY <2>7 DEF vars, IInv, ArrivedRight, RunRight, NothingYet, CountersRight, ClaimsRight,
                HistoryRight
  <2> QED
    BY <2>1, <2>2, <2>3, <2>4, <2>5, <2>6, <2>7 DEF Next
<1> QED
  BY <1>1, InitIsRight, PTL DEF Spec

-----------------------------------------------------------------------------
(* What follows from the invariant.                                         *)

LEMMA InvariantIsTyped == IInv => TypeOK
<1> SUFFICES ASSUME IInv PROVE TypeOK
  OBVIOUS
<1>1. arrived \in SUBSET Events /\ canonical \subseteq arrived
  BY DEF IInv, ArrivedRight, Best
<1>2. run = None \/ (run.base \subseteq Events /\ run.boundary \in [Series -> Int])
  BY DEF IInv, RunRight, BasedOn, Run
<1>3. /\ journal \in Seq(RowsOf(arrived)) /\ cursor \in 0 .. Len(journal)
      /\ fence \in 0 .. MaxFence /\ failure \in {None, "capacity_exceeded"}
  BY DEF IInv, CountersRight
<1>4. \A i \in DOMAIN journal : journal[i] \in RowsOf(arrived)
  BY <1>3
<1>5. \A i \in DOMAIN journal : /\ journal[i].operation \in {"insert", "replace"}
                                /\ journal[i].event \in arrived
                                /\ journal[i].previous \in {e.id : e \in arrived} \cup {None}
  BY <1>4 DEF RowsOf
<1>6. /\ History(transitions, latest, arrived, cursor)
      /\ evaluations = {At(transitions, i) : i \in DOMAIN transitions}
  BY DEF IInv, HistoryRight
<1>7. ASSUME NEW e \in evaluations PROVE e.outcome \in {"fired", "not_fired", "suppressed"}
  <2>1. Sound(e, arrived)
    BY <1>6, <1>7 DEF History
  <2> QED
    BY <2>1, EvaluateFields DEF Sound
<1>8. latest \subseteq evaluations
  BY <1>6 DEF History, IsLastOf
<1>9. \A i \in DOMAIN transitions : transitions[i].position \in 1 .. cursor
  BY <1>6 DEF History
<1>10. \A w \in Workers : claims[w] = None \/ /\ claims[w].fence \in 1 .. fence
                                              /\ claims[w].cursor \in 0 .. cursor
  BY DEF IInv, ClaimsRight, ClaimRight
<1> QED
  BY <1>1, <1>2, <1>3, <1>5, <1>7, <1>8, <1>9, <1>10 DEF TypeOK

\* Every variable stays of its type: rows name stored events, transitions the
\* positions committed, claims fences and cursors that the run has reached.
THEOREM TypeCorrect == Spec => []TypeOK
BY Invariance, InvariantIsTyped, PTL

\* The canonical bars are those of one pass over all events.
LEMMA CanonicalIsWinners ==
  ASSUME IInv
  PROVE  /\ arrived \in SUBSET Events /\ canonical = Winners(arrived)
         /\ canonical \in SUBSET arrived /\ OnePer(canonical) /\ Covers(canonical, arrived)
BY CoversAreWinners DEF IInv, ArrivedRight, Best

\* A run that knows all canonical bars but some that are too old evaluates its
\* bars as if it knew them all.
LEMMA OldBarsDoNotMatter ==
  ASSUME NEW bars \in SUBSET Events, NEW known \in SUBSET bars,
         NEW boundary \in [Series -> Int], KnowsCanonical(known, bars, boundary)
  PROVE  /\ Owned(known, boundary) = Owned(bars, boundary)
         /\ \A b \in Owned(bars, boundary) : Evaluate(known, b) = Evaluate(bars, b)
<1>1. \A b \in bars : b \in known \/ Before(b, boundary)
  BY DEF KnowsCanonical
<1>2. ASSUME NEW b \in bars
      PROVE  b.start \in Int /\ boundary[b.series] \in Int /\ Lookback \in Nat
  BY EventFields
<1>3. ASSUME NEW b \in bars, b.start >= boundary[b.series] PROVE b \in known
  BY <1>1, <1>2, <1>3 DEF Before
<1>4. Owned(known, boundary) = Owned(bars, boundary)
  BY <1>3 DEF Owned
<1>5. ASSUME NEW b \in Owned(bars, boundary) PROVE Evaluate(known, b) = Evaluate(bars, b)
  <2>1. b \in bars /\ b.start >= boundary[b.series]
    BY <1>5 DEF Owned
  <2>2. ASSUME NEW c \in bars, c.series = b.series, c.start \in ExpectedStarts(b)
        PROVE  c \in known
    <3>1. c.start >= b.start - Lookback
      BY <1>2, <2>1, <2>2 DEF ExpectedStarts
    <3>2. c.start + Lookback >= boundary[c.series]
      BY <1>2, <2>1, <2>2, <3>1
    <3> QED
      BY <1>1, <1>2, <3>2 DEF Before
  <2>3. \A c : c \in References(known, b) <=> c \in References(bars, b)
    BY <2>2 DEF References
  <2>4. References(known, b) = References(bars, b)
    BY <2>3
  <2> QED
    BY <2>4, EvaluateByWindow
<1> QED
  BY <1>4, <1>5

LEMMA DrainedIsCurrent ==
  ASSUME IInv, Drained
  PROVE  latest = Current(canonical, run.boundary) /\ run.boundary \in [Series -> Int]
<1> DEFINE K == Known(run.base, journal, Len(journal))
           b == run.boundary
<1>1. run # None /\ cursor = Len(journal)
  BY DEF Drained
<1>2. KnowsCanonical(K, canonical, b) /\ latest = Current(K, b) /\ b \in [Series -> Int]
  BY <1>1 DEF IInv, RunRight, JournalRight, BasedOn, Run
<1>3. canonical \in SUBSET Events /\ K \in SUBSET canonical
  BY <1>2, CanonicalIsWinners DEF KnowsCanonical
<1> HIDE DEF K, b
<1>4. /\ Owned(K, b) = Owned(canonical, b)
      /\ \A c \in Owned(canonical, b) : Evaluate(K, c) = Evaluate(canonical, c)
  BY <1>2, <1>3, OldBarsDoNotMatter
<1>5. \A x : x \in Current(K, b) <=> x \in Current(canonical, b)
  BY <1>4 DEF Current
<1>6. latest = Current(canonical, b)
  BY <1>2, <1>5
<1> QED
  BY <1>2, <1>6 DEF b

LEMMA InvariantConverges == IInv => ConvergesOnReference
<1> SUFFICES ASSUME IInv, Drained
             PROVE  latest = {e \in Reference(arrived) :
                                Of(e).start >= run.boundary[Of(e).series]}
  BY DEF ConvergesOnReference
<1>1. latest = Current(canonical, run.boundary) /\ canonical = Winners(arrived)
  BY DrainedIsCurrent, CanonicalIsWinners
<1>2. \A b : Of(Evaluate(canonical, b)) = b
  BY EvaluateFields
<1>3. \A e : e \in Reference(arrived) <=> \E b \in canonical : e = Evaluate(canonical, b)
  BY <1>1 DEF Reference
<1>4. \A e : e \in Current(canonical, run.boundary) <=>
        \E b \in canonical : e = Evaluate(canonical, b) /\ b.start >= run.boundary[b.series]
  BY DEF Current, Owned
<1>5. \A e : e \in Current(canonical, run.boundary) <=>
        e \in Reference(arrived) /\ Of(e).start >= run.boundary[Of(e).series]
  BY <1>2, <1>3, <1>4
<1> QED
  BY <1>1, <1>5

\* A run that has worked off its journal holds the evaluations of one pass over
\* all events that ever arrived, whatever the order of arrival, the moment of
\* the bootstrap, the crashes and the takeovers (loadSessionBars,
\* affectedEvaluationEventIds, influenceEndsBeforeBoundary).
THEOREM AlwaysConverges == Spec => []ConvergesOnReference
BY Invariance, InvariantConverges, PTL

LEMMA InvariantChains == IInv => TransitionsFormAChain
<1> SUFFICES ASSUME IInv PROVE TransitionsFormAChain
  OBVIOUS
<1>1. /\ History(transitions, latest, arrived, cursor)
      /\ evaluations = {At(transitions, i) : i \in DOMAIN transitions}
  BY DEF IInv, HistoryRight
<1>2. evaluations = {transitions[i].transition.current : i \in DOMAIN transitions}
  BY <1>1 DEF At
<1>3. \A e \in evaluations : EvidenceOf(e) \subseteq arrived
  BY <1>1 DEF History, Sound
<1>4. \A i : EarlierOfBar(i) = Earlier(transitions, i)
  BY DEF EarlierOfBar, Earlier, At
<1>5. ASSUME NEW i \in DOMAIN transitions
      PROVE  /\ transitions[i].transition.predecessor
                  = IF EarlierOfBar(i) = {} THEN None
                    ELSE transitions[Max(EarlierOfBar(i))].transition.current
             /\ \A j \in EarlierOfBar(i) :
                  /\ transitions[j].position < transitions[i].position
                  /\ transitions[j].transition.current # transitions[i].transition.current
  <2>1. Follows(transitions, i)
    BY <1>1 DEF History
  <2> QED
    BY <1>4, <2>1 DEF Follows, At
<1>6. \A e \in latest : \E i \in DOMAIN transitions :
        /\ transitions[i].transition.current = e
        /\ \A j \in DOMAIN transitions : i \notin EarlierOfBar(j)
  BY <1>1, <1>4 DEF History, IsLastOf, At
<1> QED
  BY <1>2, <1>3, <1>5, <1>6 DEF TransitionsFormAChain

\* Every transition of a bar supersedes or retracts the one before it, none
\* returns to an earlier evaluation, and the last is the latest evaluation;
\* nothing is stored outside of such a chain (createSignalTransition,
\* commitRevision).
THEOREM AlwaysChained == Spec => []TransitionsFormAChain
BY Invariance, InvariantChains, PTL

\* Both: a drained run holds the results of one pass over all bars, by chains
\* of transitions that lead nowhere else (SignalPostgresRepository).
THEOREM AlwaysTheReference == Spec => []ResultsAreTheReference
<1>1. ConvergesOnReference /\ TransitionsFormAChain => ResultsAreTheReference
  BY DEF ResultsAreTheReference
<1> QED
  BY AlwaysConverges, AlwaysChained, <1>1, PTL

LEMMA InvariantProcesses == IInv => HonestJournalIsProcessed
BY NoneAssumption DEF IInv, CountersRight, HonestJournalIsProcessed

\* A worker never refuses what the writer journaled, and the evaluation queue
\* suffices when it is greater than the lookback window (processor.ts).
THEOREM AlwaysProcessed == Spec => []HonestJournalIsProcessed
BY Invariance, InvariantProcesses, PTL

\* What was known when a bar was received: the best of the events until then.
\* If the references of a bar are all known by then, they are its references.
LEMMA KnownReferences ==
  ASSUME NEW events \in SUBSET Events, NEW bars \in SUBSET events, bars = Winners(events),
         Covers(bars, events), NEW b \in events,
         \A c \in References(bars, b) : c.received <= b.received
  PROVE  References(Winners({a \in events : a.received <= b.received}), b) = References(bars, b)
<1> DEFINE known == {a \in events : a.received <= b.received}
<1>1. ASSUME NEW c \in References(bars, b) PROVE c \in References(Winners(known), b)
  <2>1. c \in bars /\ c \in known /\ c.series = b.series /\ c.start \in ExpectedStarts(b)
    BY <1>1 DEF References
  <2>2. c \in Winners(known)
    BY <2>1 DEF Winners
  <2> QED
    BY <2>1, <2>2 DEF References
<1>2. ASSUME NEW c \in References(Winners(known), b) PROVE c \in References(bars, b)
  <2>1. c \in Winners(known) /\ c.series = b.series /\ c.start \in ExpectedStarts(b)
    BY <1>2 DEF References
  <2>2. c \in known /\ c \in events /\ \A f \in known : SameKey(c, f) /\ c # f => Wins(c, f)
    BY <2>1 DEF Winners
  <2>3. PICK d \in bars : SameKey(c, d) /\ (d = c \/ Wins(d, c))
    BY <2>2 DEF Covers
  <2>4. d \in References(bars, b)
    BY <2>1, <2>3 DEF References, SameKey
  <2>5. d \in known
    BY <2>4
  <2>6. c = d
    <3>1. c \in Events /\ d \in Events
      BY <2>2, <2>3
    <3> QED
      BY <2>2, <2>3, <2>5, <3>1, WinsIsStrict
  <2> QED
    BY <2>4, <2>6
<1> HIDE DEF known
<1>3. References(Winners(known), b) = References(bars, b)
  BY <1>1, <1>2
<1> QED
  BY <1>3 DEF known

LEMMA InvariantNeedsNoHindsight == IInv => OnTimeNeedsNoHindsight
<1> SUFFICES ASSUME IInv, NEW e \in latest, Drained, e.feature.mode = "on_time"
             PROVE  e = Evaluate(Winners({a \in arrived : a.received <= Of(e).received}), Of(e))
  BY DEF OnTimeNeedsNoHindsight
<1>1. /\ latest = Current(canonical, run.boundary) /\ arrived \in SUBSET Events
      /\ canonical = Winners(arrived) /\ canonical \in SUBSET arrived
      /\ Covers(canonical, arrived)
  BY DrainedIsCurrent, CanonicalIsWinners
<1>2. PICK b \in canonical : e = Evaluate(canonical, b)
  BY <1>1 DEF Current, Owned
<1>3. Of(e) = b /\ b \in arrived
  BY <1>1, <1>2, EvaluateFields
<1> DEFINE known == Winners({a \in arrived : a.received <= b.received})
<1>4. Evaluate(known, b) = Evaluate(canonical, b)
  <2>1. CASE IsFuture(b)
    BY <2>1, EvaluateFuture
  <2>2. CASE ~IsFuture(b)
    <3>1. \A c \in References(canonical, b) : c.received <= b.received
      <4>1. e.feature = Feature(canonical, b)
        BY <1>2, EvaluateFields
      <4>2. Mode(b, References(canonical, b)) = "on_time"
        BY <2>2, <4>1 DEF Feature
      <4> QED
        BY <4>2 DEF Mode
    <3>2. References(known, b) = References(canonical, b)
      BY <1>1, <1>3, <3>1, KnownReferences
    <3> QED
      BY <3>2, EvaluateByWindow
  <2> QED
    BY <2>1, <2>2
<1> QED
  BY <1>2, <1>3, <1>4

\* When the journal is drained, an on-time result is what the events received
\* until its bar give: nothing that came later went into it (evaluationMode).
THEOREM NeverNeedsHindsight == Spec => []OnTimeNeedsNoHindsight
BY Invariance, InvariantNeedsNoHindsight, PTL

-----------------------------------------------------------------------------
(* The projection of a recording.                                           *)

\* A set of numbers that is not empty has a least one.
LEMMA LeastNumber ==
  ASSUME NEW T \in SUBSET Nat, T # {}
  PROVE  \E t \in T : \A u \in T : t <= u
<1> DEFINE R == {ss \in Nat \X Nat : ss[1] < ss[2]}
<1>1. R = OpToRel(<, Nat)
  BY DEF OpToRel
<1>2. IsWellFoundedOn(R, Nat)
  BY <1>1, NatLessThanWellFounded
<1>3. \A y, z \in Nat : y < z => <<y, z>> \in R
  OBVIOUS
<1> HIDE DEF R
<1>4. PICK t \in T : \A u \in T : ~(<<u, t>> \in R)
  BY <1>2, WFMin
<1>5. ASSUME NEW u \in T PROVE t <= u
  <2>1. t \in Nat /\ u \in Nat /\ ~(<<u, t>> \in R)
    BY <1>4
  <2>2. ~(u < t)
    BY <1>3, <2>1
  <2> QED
    BY <2>1, <2>2
<1> QED
  BY <1>4, <1>5

Blank == [entry |-> 0, canonical |-> {}, latest |-> {}, artifacts |-> <<>>]

\* The state of the loop after up to n entries.
StagesUpto(f, entries, n) ==
  f = [i \in 0 .. n |-> IF i = 0 THEN Blank ELSE ProjectEntry(f[i - 1], entries[i])]

LEMMA StagesExist ==
  ASSUME NEW entries, NEW n \in Nat
  PROVE  \E f : StagesUpto(f, entries, n)
<1> DEFINE T == {m \in Nat : ~ \E f : StagesUpto(f, entries, m)}
<1>1. SUFFICES ASSUME T # {} PROVE FALSE
  OBVIOUS
<1>2. PICK m \in T : \A u \in T : m <= u
  BY <1>1, LeastNumber
<1>3. CASE m = 0
  <2> DEFINE f == [i \in 0 .. 0 |-> Blank]
  <2>1. f = [i \in 0 .. 0 |-> IF i = 0 THEN Blank ELSE ProjectEntry(f[i - 1], entries[i])]
    OBVIOUS
  <2>2. StagesUpto(f, entries, 0)
    BY <2>1 DEF StagesUpto
  <2> QED
    BY <1>2, <1>3, <2>2
<1>4. CASE m # 0
  <2>1. m - 1 \in Nat /\ m - 1 \notin T
    BY <1>2, <1>4
  <2>2. PICK f : StagesUpto(f, entries, m - 1)
    BY <2>1
  <2> DEFINE g == [i \in 0 .. m |-> IF i = m THEN ProjectEntry(f[m - 1], entries[m]) ELSE f[i]]
  <2>3. \A i \in 0 .. (m - 1) :
          f[i] = IF i = 0 THEN Blank ELSE ProjectEntry(f[i - 1], entries[i])
    BY <2>2 DEF StagesUpto
  <2>4. \A i \in 0 .. m :
          g[i] = IF i = 0 THEN Blank ELSE ProjectEntry(g[i - 1], entries[i])
    BY <1>2, <1>4, <2>3
  <2>5. g = [i \in 0 .. m |-> IF i = 0 THEN Blank ELSE ProjectEntry(g[i - 1], entries[i])]
    BY <2>4
  <2> HIDE DEF g
  <2>6. StagesUpto(g, entries, m)
    BY <2>5 DEF StagesUpto
  <2> QED
    BY <1>2, <2>6
<1> QED
  BY <1>3, <1>4

\* The recursion of the model is what it says.
LEMMA StagesRule ==
  ASSUME NEW entries, Len(entries) \in Nat
  PROVE  /\ Stages(entries)[0] = Blank
         /\ \A n \in 1 .. Len(entries) :
              Stages(entries)[n] = ProjectEntry(Stages(entries)[n - 1], entries[n])
<1>1. Stages(entries) = CHOOSE f : StagesUpto(f, entries, Len(entries))
  BY DEF Stages, StagesUpto, Blank
<1>2. \E f : StagesUpto(f, entries, Len(entries))
  BY StagesExist
<1>3. StagesUpto(Stages(entries), entries, Len(entries))
  BY <1>1, <1>2
<1>4. \A f : StagesUpto(f, entries, Len(entries)) =>
        \A i \in 0 .. Len(entries) :
          f[i] = IF i = 0 THEN Blank ELSE ProjectEntry(f[i - 1], entries[i])
  BY DEF StagesUpto
<1>5. \A i \in 0 .. Len(entries) :
        Stages(entries)[i] = IF i = 0 THEN Blank ELSE ProjectEntry(Stages(entries)[i - 1], entries[i])
  BY <1>3, <1>4
<1> QED
  BY <1>5

\* No bar of a set starts before the boundary of its series.
AllOwned(bars, boundary) == \A b \in bars : b.start >= boundary[b.series]

Stage == [entry : Nat, canonical : SUBSET Events, latest : SUBSET Result, artifacts : Seq(Steps)]

\* The projection after some entries: the best of their events, each evaluated
\* over all of them, and how the evaluations came about.
StageRight(s, events, boundary, n) ==
  /\ s \in Stage /\ s.entry = n
  /\ Best(s.canonical, events)
  /\ s.latest = Current(s.canonical, boundary)
  /\ History(s.artifacts, s.latest, events, n)

\* An event that is known already changes nothing.
LEMMA RepeatedIsNoOp ==
  ASSUME NEW events \in SUBSET Events, NEW bars, Best(bars, events), NEW e \in events
  PROVE  Decide(bars, e) = "no_op"
<1> DEFINE same == {b \in bars : SameKey(b, e)}
<1>1. PICK b \in bars : SameKey(e, b) /\ (b = e \/ Wins(b, e))
  BY DEF Best, Covers
<1>2. b \in same
  BY <1>1 DEF SameKey
<1>3. ~(b.id # e.id /\ Wins(e, b))
  BY <1>1, WinsIsStrict DEF Best
<1> QED
  BY <1>2, <1>3 DEF Decide

LEMMA LaterHistory ==
  ASSUME NEW rows, NEW now, NEW events, NEW position \in Nat,
         History(rows, now, events, position)
  PROVE  History(rows, now, events, position + 1)
<1>1. \A k \in 1 .. position : k \in 1 .. (position + 1)
  OBVIOUS
<1> QED
  BY <1>1 DEF History

\* Without a boundary all that an event affects is evaluated.
LEMMA RenewedIsAll ==
  ASSUME NEW X, NEW e, NEW boundary, AllOwned(Apply(X, e), boundary)
  PROVE  Renewed(X, e, boundary)
           = {Evaluate(Apply(X, e), b) : b \in Affected(Apply(X, e), e)}
<1> DEFINE next == Apply(SessionPart(X, e), e)
           all == Apply(X, e)
<1>1. /\ Affected(next, e) = Affected(all, e)
      /\ \A b \in Affected(all, e) : Evaluate(next, b) = Evaluate(all, b)
  BY SessionIsEnough
<1>2. Renewed(X, e, boundary) = {Evaluate(next, b) : b \in Owned(Affected(next, e), boundary)}
  BY DEF Renewed
<1>3. \A b \in Affected(all, e) : b \in all
  BY DEF Affected
<1>4. Owned(Affected(all, e), boundary) = Affected(all, e)
  BY <1>3 DEF Owned, AllOwned
<1> HIDE DEF next, all
<1> QED
  BY <1>1, <1>2, <1>4 DEF all

\* What an entry that changes a bar adds to the artifacts.
LEMMA EntryAdds ==
  ASSUME NEW s, NEW e
  PROVE  ProjectEntry(s, e) =
           IF Decide(s.canonical, e) = "no_op" THEN [s EXCEPT !.entry = s.entry + 1]
           ELSE LET bars == Apply(s.canonical, e)
                    D == {Evaluate(bars, b) : b \in Affected(bars, e)}
                IN  [entry |-> s.entry + 1, canonical |-> bars,
                     latest |-> Superseding(s.latest, D),
                     artifacts |-> s.artifacts \o RowsAt(s.entry + 1, D, s.latest)]
BY DEF ProjectEntry, RowsAt

LEMMA StageStep ==
  ASSUME NEW events \in SUBSET Events, NEW e \in Events, NEW n \in Nat,
         NEW boundary \in [Series -> Int], AllOwned(events \cup {e}, boundary),
         NEW s, StageRight(s, events, boundary, n)
  PROVE  StageRight(ProjectEntry(s, e), events \cup {e}, boundary, n + 1)
<1> DEFINE X == s.canonical
           more == events \cup {e}
<1>1. /\ s \in Stage /\ s.entry = n /\ Best(X, events) /\ s.latest = Current(X, boundary)
      /\ History(s.artifacts, s.latest, events, n)
  BY DEF StageRight
<1>2. History(s.artifacts, s.latest, more, n)
  BY <1>1, HistoryKeeps
<1>3. CASE Decide(X, e) = "no_op"
  <2>1. ProjectEntry(s, e) = [s EXCEPT !.entry = n + 1]
    BY <1>1, <1>3, EntryAdds
  <2>2. Best(X, more)
    <3>1. CASE e \in events
      <4>1. more = events
        BY <3>1
      <4> QED
        BY <1>1, <4>1
    <3>2. CASE e \notin events
      BY <1>1, <1>3, <3>2, DecideRules
    <3> QED
      BY <3>1, <3>2
  <2>3. History(s.artifacts, s.latest, more, n + 1)
    BY <1>2, LaterHistory
  <2> HIDE DEF more
  <2> DEFINE t == ProjectEntry(s, e)
  <2>4. /\ t \in Stage /\ t.entry = n + 1 /\ t.canonical = X /\ t.latest = s.latest
        /\ t.artifacts = s.artifacts
    BY <1>1, <2>1 DEF Stage
  <2> HIDE DEF t
  <2>5. StageRight(t, more, boundary, n + 1)
    BY <1>1, <2>2, <2>3, <2>4 DEF StageRight
  <2> QED
    BY <2>5 DEF t, more
<1>4. CASE Decide(X, e) # "no_op"
  <2> DEFINE Y == Apply(X, e)
             row == Revision(X, e)
             D == Renewed(X, e, boundary)
             added == RowsAt(n + 1, D, s.latest)
             rows == s.artifacts
             t == ProjectEntry(s, e)
  <2>1. e \notin events
    BY <1>1, <1>4, RepeatedIsNoOp
  <2>2. X \in SUBSET events /\ X \in SUBSET more /\ OnePer(X) /\ more \in SUBSET Events
    BY <1>1 DEF Best
  <2>3. Best(Y, more)
    BY <1>1, <1>4, <2>1, DecideRules
  <2>4. Honest(X, row, boundary)
    <3>1. KnowsCanonical(X, X, boundary)
      BY DEF KnowsCanonical
    <3> QED
      BY <1>1, <1>4, <2>1, <3>1, RevisionIsHonest
  <2>5. row.event = e /\ row.operation = Decide(X, e)
    BY DEF Revision
  <2>6. D = Delta(X, row, boundary)
    <3>1. ~Unheard(X, row)
      BY <1>1, <2>1, <2>5, DecideRules DEF Unheard
    <3> QED
      BY <2>5, <3>1 DEF Delta
  <2>7. AllOwned(Y, boundary)
    <3>1. Y \subseteq more
      BY <2>3 DEF Best
    <3> QED
      BY <3>1 DEF AllOwned
  <2>8. D = {Evaluate(Y, b) : b \in Affected(Y, e)}
    BY <2>7, RenewedIsAll
  <2> HIDE DEF Y, D, more
  <2>9. t = [entry |-> n + 1, canonical |-> Y, latest |-> Superseding(s.latest, D),
             artifacts |-> rows \o added]
    BY <1>1, <1>4, <2>8, EntryAdds DEF Y
  <2>10. e \in more
    BY DEF more
  <2> HIDE DEF row, added, X
  <2>11. Extension(rows, added, s.latest, D, more, n)
    BY <1>1, <1>2, <2>2, <2>4, <2>5, <2>6, <2>10, CommitExtends DEF added
  <2>12. History(rows \o added, Superseding(s.latest, D), more, n + 1)
    BY <2>2, <2>11, HistoryStep
  <2>13. Superseding(s.latest, D) = Current(Y, boundary)
    <3>1. X \in SUBSET Events
      BY <2>2
    <3> QED
      BY <1>1, <2>2, <3>1, CurrentStep DEF D, Y
  <2>14. Y \in SUBSET Events /\ Current(Y, boundary) \in SUBSET Result
    <3>1. Y \in SUBSET more /\ OnePer(Y)
      BY <2>3 DEF Best
    <3>2. \A d \in Current(Y, boundary) : d \in Result
      BY <2>2, <3>1, CurrentRules
    <3> QED
      BY <2>2, <3>1, <3>2
  <2>15. rows \o added \in Seq(Steps)
    BY <2>12 DEF History
  <2> HIDE DEF rows, t
  <2>16. /\ t \in Stage /\ t.entry = n + 1 /\ t.canonical = Y
         /\ t.latest = Superseding(s.latest, D) /\ t.artifacts = rows \o added
    BY <2>9, <2>13, <2>14, <2>15 DEF Stage
  <2>17. StageRight(t, more, boundary, n + 1)
    BY <2>3, <2>12, <2>13, <2>16 DEF StageRight
  <2> QED
    BY <2>17 DEF t, more
<1> QED
  BY <1>3, <1>4

EventsUpto(entries, n) == {entries[k] : k \in 1 .. n}

LEMMA EventsUptoStep ==
  ASSUME NEW entries \in Seq(Events), NEW n \in Nat, n < Len(entries)
  PROVE  /\ EventsUpto(entries, 0) = {}
         /\ EventsUpto(entries, n) \in SUBSET Events /\ entries[n + 1] \in Events
         /\ EventsUpto(entries, n + 1) = EventsUpto(entries, n) \cup {entries[n + 1]}
<1>1. \A k \in 1 .. n : k \in 1 .. Len(entries) /\ entries[k] \in Events
  OBVIOUS
<1>2. n + 1 \in 1 .. Len(entries) /\ entries[n + 1] \in Events
  OBVIOUS
<1>3. \A k : k \in 1 .. (n + 1) <=> k \in 1 .. n \/ k = n + 1
  OBVIOUS
<1> QED
  BY <1>1, <1>2, <1>3 DEF EventsUpto

\* The bars of a recording have a first minute.
LEMMA FirstMinute ==
  ASSUME NEW entries \in Seq(Events)
  PROVE  \E lo \in Int : \A e \in EventsUpto(entries, Len(entries)) : e.start >= lo
<1> DEFINE Bounded(n) == \E lo \in Int : \A e \in EventsUpto(entries, n) : e.start >= lo
           T == {n \in Nat : n <= Len(entries) /\ ~Bounded(n)}
<1>1. Len(entries) \in Nat
  OBVIOUS
<1>2. SUFFICES ASSUME T # {} PROVE FALSE
  BY <1>1
<1>3. PICK n \in T : \A u \in T : n <= u
  <2> HIDE DEF Bounded
  <2> QED
    BY <1>2, LeastNumber
<1>4. CASE n = 0
  <2>1. EventsUpto(entries, 0) = {}
    BY DEF EventsUpto
  <2> QED
    BY <1>3, <1>4, <2>1
<1>5. CASE n # 0
  <2> DEFINE m == n - 1
  <2>1. m \in Nat /\ m < Len(entries) /\ n = m + 1 /\ m \notin T
    BY <1>1, <1>3, <1>5
  <2>2. PICK lo \in Int : \A e \in EventsUpto(entries, m) : e.start >= lo
    BY <1>1, <2>1
  <2> HIDE DEF m
  <2>3. /\ EventsUpto(entries, n) = EventsUpto(entries, m) \cup {entries[n]}
        /\ EventsUpto(entries, m) \in SUBSET Events /\ entries[n] \in Events
    BY <2>1, EventsUptoStep
  <2>4. entries[n].start \in Int /\ \A e \in EventsUpto(entries, m) : e.start \in Int
    BY <2>3, EventFields
  <2> DEFINE low == IF entries[n].start < lo THEN entries[n].start ELSE lo
  <2>5. low \in Int /\ low <= lo /\ low <= entries[n].start
    BY <2>4
  <2> HIDE DEF low
  <2>6. \A e \in EventsUpto(entries, n) : e.start >= low
    BY <2>2, <2>3, <2>4, <2>5
  <2> QED
    BY <1>3, <2>5, <2>6
<1> QED
  BY <1>4, <1>5

LEMMA BlankIsRight ==
  ASSUME NEW boundary
  PROVE  StageRight(Blank, {}, boundary, 0)
<1>1. History(<<>>, {}, {}, 0)
  BY EmptyHistory
<1>2. Best({}, {})
  BY DEF Best, OnePer, Covers
<1>3. Current({}, boundary) = {}
  BY DEF Current, Owned
<1>4. {} \in SUBSET Events /\ {} \in SUBSET Result /\ <<>> \in Seq(Steps)
  OBVIOUS
<1> QED
  BY <1>1, <1>2, <1>3, <1>4 DEF StageRight, Blank, Stage

\* Every stage of the projection is right.
LEMMA StagesAreRight ==
  ASSUME NEW entries \in Seq(Events), NEW boundary \in [Series -> Int],
         AllOwned(EventsUpto(entries, Len(entries)), boundary), NEW n \in 0 .. Len(entries)
  PROVE  StageRight(Stages(entries)[n], EventsUpto(entries, n), boundary, n)
<1> DEFINE Right(k) == StageRight(Stages(entries)[k], EventsUpto(entries, k), boundary, k)
           T == {k \in Nat : k <= Len(entries) /\ ~Right(k)}
<1>1. Len(entries) \in Nat
  OBVIOUS
<1>2. SUFFICES ASSUME T # {} PROVE FALSE
  BY <1>1
<1>3. PICK k \in T : \A u \in T : k <= u
  <2> HIDE DEF Right
  <2> QED
    BY <1>2, LeastNumber
<1>4. CASE k = 0
  <2>1. EventsUpto(entries, 0) = {} /\ Stages(entries)[0] = Blank
    BY <1>1, StagesRule DEF EventsUpto
  <2> QED
    BY <1>3, <1>4, <2>1, BlankIsRight
<1>5. CASE k # 0
  <2> DEFINE m == k - 1
  <2>1. m \in Nat /\ m < Len(entries) /\ k = m + 1 /\ m \notin T /\ k \in 1 .. Len(entries)
    BY <1>1, <1>3, <1>5
  <2>2. Right(m)
    BY <1>1, <2>1
  <2>3. Stages(entries)[k] = ProjectEntry(Stages(entries)[m], entries[k])
    BY <1>1, <2>1, StagesRule
  <2> HIDE DEF m, Right
  <2>4. /\ EventsUpto(entries, k) = EventsUpto(entries, m) \cup {entries[k]}
        /\ EventsUpto(entries, m) \in SUBSET Events /\ entries[k] \in Events
    BY <2>1, EventsUptoStep
  <2>5. AllOwned(EventsUpto(entries, m) \cup {entries[k]}, boundary)
    <3>1. EventsUpto(entries, k) \subseteq EventsUpto(entries, Len(entries))
      BY <1>1, <2>1 DEF EventsUpto
    <3> QED
      BY <2>4, <3>1 DEF AllOwned
  <2>6. StageRight(Stages(entries)[m], EventsUpto(entries, m), boundary, m)
    BY <2>2 DEF Right
  <2>7. StageRight(ProjectEntry(Stages(entries)[m], entries[k]),
                   EventsUpto(entries, m) \cup {entries[k]}, boundary, m + 1)
    BY <2>1, <2>4, <2>5, <2>6, StageStep
  <2>8. Right(k)
    BY <2>1, <2>3, <2>4, <2>7 DEF Right
  <2> QED
    BY <1>3, <2>8
<1> QED
  BY <1>4, <1>5

\* What is projected from a recording: the evaluations of one pass over its
\* events, by transitions that continue each other.
LEMMA ProjectedRules ==
  ASSUME NEW entries \in Seq(Events)
  PROVE  LET all == Projected(entries)
         IN  /\ all.latest = Reference(Range(entries)) /\ Distinct(all.latest)
             /\ History(all.artifacts, all.latest, Range(entries), Len(entries))
<1> DEFINE events == EventsUpto(entries, Len(entries))
           all == Projected(entries)
<1>1. Len(entries) \in Nat /\ Range(entries) = events
  BY DEF Range, EventsUpto
<1>2. events \in SUBSET Events
  <2>1. \A k \in 1 .. Len(entries) : entries[k] \in Events
    OBVIOUS
  <2> QED
    BY <2>1 DEF EventsUpto
<1>3. PICK lo \in Int : \A e \in events : e.start >= lo
  BY FirstMinute
<1> DEFINE boundary == [s \in Series |-> lo]
<1>4. boundary \in [Series -> Int] /\ \A e \in Events : boundary[e.series] = lo
  BY DEF Series
<1>5. AllOwned(events, boundary)
  BY <1>2, <1>3, <1>4 DEF AllOwned
<1> HIDE DEF boundary
<1>6. StageRight(all, events, boundary, Len(entries))
  BY <1>1, <1>4, <1>5, StagesAreRight DEF Projected
<1> DEFINE X == all.canonical
<1>7. /\ Best(X, events) /\ all.latest = Current(X, boundary)
      /\ History(all.artifacts, all.latest, events, Len(entries))
  BY <1>6 DEF StageRight
<1>8. X = Winners(events) /\ X \in SUBSET events /\ OnePer(X)
  BY <1>2, <1>7, CoversAreWinners DEF Best
<1> HIDE DEF all, events, X
<1>9. Owned(X, boundary) = X
  BY <1>5, <1>8 DEF Owned, AllOwned
<1>10. all.latest = Reference(events)
  BY <1>7, <1>8, <1>9 DEF Current, Reference
<1>11. Distinct(all.latest)
  <2>1. \A d, e \in Current(X, boundary) : SameKey(Of(d), Of(e)) => d = e
    BY <1>2, <1>8, CurrentRules
  <2> QED
    BY <1>7, <2>1 DEF Distinct
<1> QED
  BY <1>1, <1>7, <1>10, <1>11 DEF all

\* The latest evaluation of a bar is the current one of its last transition.
LEMMA LatestOfMember ==
  ASSUME NEW rows, NEW e
  PROVE  e \in LatestOf(rows) <=>
           \E i \in DOMAIN rows :
             /\ e = At(rows, i)
             /\ \A k \in (i + 1) .. Len(rows) : ~SameKey(Of(At(rows, k)), Of(e))
BY DEF LatestOf, At

LEMMA LastIsLast ==
  ASSUME NEW rows \in Seq(Steps), NEW i \in DOMAIN rows
  PROVE  (\A k \in (i + 1) .. Len(rows) : ~SameKey(Of(At(rows, k)), Of(At(rows, i))))
           <=> \A j \in DOMAIN rows : i \notin Earlier(rows, j)
<1>1. Len(rows) \in Nat /\ DOMAIN rows = 1 .. Len(rows)
  OBVIOUS
<1>2. \A j \in DOMAIN rows :
        i \in Earlier(rows, j) <=> i < j /\ SameKey(Of(At(rows, i)), Of(At(rows, j)))
  BY <1>1 DEF Earlier
<1>3. \A j : SameKey(Of(At(rows, i)), Of(At(rows, j))) <=> SameKey(Of(At(rows, j)), Of(At(rows, i)))
  BY DEF SameKey
<1>4. \A j \in DOMAIN rows : i < j <=> j \in (i + 1) .. Len(rows)
  BY <1>1
<1>5. \A j \in (i + 1) .. Len(rows) : j \in DOMAIN rows
  BY <1>1
<1> QED
  BY <1>2, <1>3, <1>4, <1>5

\* A history's evaluations are the latest of its transitions.
LEMMA LatestOfHistory ==
  ASSUME NEW rows, NEW now, NEW events, NEW position,
         History(rows, now, events, position), Distinct(now)
  PROVE  LatestOf(rows) = now
<1>1. rows \in Seq(Steps) /\ Len(rows) \in Nat /\ DOMAIN rows = 1 .. Len(rows)
  BY DEF History
<1>2. ASSUME NEW e \in now PROVE e \in LatestOf(rows)
  <2>1. PICK i \in DOMAIN rows : IsLastOf(rows, i, e)
    BY DEF History
  <2> QED
    BY <1>1, <2>1, LastIsLast, LatestOfMember DEF IsLastOf
<1>3. ASSUME NEW e \in LatestOf(rows) PROVE e \in now
  <2>1. PICK i \in DOMAIN rows :
          /\ e = At(rows, i)
          /\ \A k \in (i + 1) .. Len(rows) : ~SameKey(Of(At(rows, k)), Of(e))
    BY LatestOfMember
  <2>2. \A j \in DOMAIN rows : i \notin Earlier(rows, j)
    BY <1>1, <2>1, LastIsLast
  <2>3. PICK d \in now : Grows(At(rows, i), d)
    BY DEF History
  <2>4. PICK l \in DOMAIN rows : At(rows, l) = d /\ \A j \in DOMAIN rows : l \notin Earlier(rows, j)
    BY DEF History, IsLastOf
  <2>5. SameKey(Of(At(rows, i)), Of(At(rows, l))) /\ SameKey(Of(At(rows, l)), Of(At(rows, i)))
    BY <2>3, <2>4 DEF Grows, SameKey
  <2>6. ~(i < l) /\ ~(l < i)
    BY <1>1, <2>2, <2>4, <2>5 DEF Earlier
  <2>7. i = l
    BY <1>1, <2>6
  <2> QED
    BY <2>1, <2>4, <2>7
<1> QED
  BY <1>2, <1>3

\* One more association: its evaluation supersedes that of the same bar.
LEMMA LatestOfAppend ==
  ASSUME NEW rows \in Seq(Steps), NEW row \in Steps
  PROVE  /\ LatestOf(Append(rows, row)) = Superseding(LatestOf(rows), {row.transition.current})
         /\ Told(Append(rows, row)) = Told(rows) \cup {row.transition.current}
<1> DEFINE all == Append(rows, row)
           x == row.transition.current
           L == Len(rows)
<1>1. /\ L \in Nat /\ DOMAIN rows = 1 .. L /\ Len(all) = L + 1 /\ DOMAIN all = 1 .. (L + 1)
      /\ \A i \in 1 .. L : all[i] = rows[i]
      /\ all[L + 1] = row
  OBVIOUS
<1> HIDE DEF all, L
<1>2. At(all, L + 1) = x /\ \A i \in 1 .. L : At(all, i) = At(rows, i)
  BY <1>1 DEF At
<1>3. Told(all) = Told(rows) \cup {x}
  <2>1. \A i : i \in 1 .. (L + 1) <=> i \in 1 .. L \/ i = L + 1
    BY <1>1
  <2> QED
    BY <1>1, <1>2, <2>1 DEF Told
<1>4. ASSUME NEW e PROVE e \in LatestOf(all) <=> e \in Superseding(LatestOf(rows), {x})
  <2>1. e \in Superseding(LatestOf(rows), {x})
          <=> e = x \/ (e \in LatestOf(rows) /\ ~SameKey(Of(e), Of(x)))
    BY SupersedingMember
  <2>2. SameKey(Of(e), Of(x)) <=> SameKey(Of(x), Of(e))
    BY DEF SameKey
  <2>3. x \in LatestOf(all)
    <3>1. L + 1 \in DOMAIN all /\ \A k \in ((L + 1) + 1) .. Len(all) : FALSE
      BY <1>1
    <3> QED
      BY <1>2, <3>1, LatestOfMember
  <2>4. ASSUME e \in LatestOf(rows), ~SameKey(Of(x), Of(e)) PROVE e \in LatestOf(all)
    <3>1. PICK i \in DOMAIN rows :
            /\ e = At(rows, i)
            /\ \A k \in (i + 1) .. L : ~SameKey(Of(At(rows, k)), Of(e))
      BY <2>4, LatestOfMember DEF L
    <3>2. i \in DOMAIN all /\ e = At(all, i)
      BY <1>1, <1>2, <3>1
    <3>3. ASSUME NEW k \in (i + 1) .. Len(all) PROVE ~SameKey(Of(At(all, k)), Of(e))
      <4>1. CASE k = L + 1
        BY <1>2, <2>4, <4>1
      <4>2. CASE k # L + 1
        <5>1. k \in (i + 1) .. L /\ k \in 1 .. L
          BY <1>1, <3>1, <4>2
        <5> QED
          BY <1>2, <3>1, <5>1
      <4> QED
        BY <4>1, <4>2
    <3> QED
      BY <3>2, <3>3, LatestOfMember
  <2>5. ASSUME e \in LatestOf(all), e # x PROVE e \in LatestOf(rows) /\ ~SameKey(Of(x), Of(e))
    <3>1. PICK i \in DOMAIN all :
            /\ e = At(all, i)
            /\ \A k \in (i + 1) .. Len(all) : ~SameKey(Of(At(all, k)), Of(e))
      BY <2>5, LatestOfMember
    <3>2. i \in 1 .. L
      BY <1>1, <1>2, <2>5, <3>1
    <3>3. L + 1 \in (i + 1) .. Len(all)
      BY <1>1, <3>2
    <3>4. ~SameKey(Of(x), Of(e))
      BY <1>2, <3>1, <3>3
    <3>5. \A k \in (i + 1) .. L : k \in (i + 1) .. Len(all) /\ k \in 1 .. L
      BY <1>1, <3>2
    <3>6. \A k \in (i + 1) .. L : ~SameKey(Of(At(rows, k)), Of(e))
      BY <1>2, <3>1, <3>5
    <3>7. e = At(rows, i) /\ i \in DOMAIN rows
      BY <1>1, <1>2, <3>1, <3>2
    <3> QED
      BY <3>4, <3>6, <3>7, LatestOfMember DEF L
  <2> QED
    BY <2>1, <2>2, <2>3, <2>4, <2>5
<1> QED
  BY <1>3, <1>4 DEF all

-----------------------------------------------------------------------------
(* The inductive invariant of a replay.                                     *)

Target == [state : {"active", "failed", "completed"}, cursor : Nat, fence : Nat \ {0}]

Proc == [pc : {"idle", "seed", "begin", "persist", "complete", "failing", "failed", "done"},
         fence : Nat \cup {None}, ordinal : Nat, faulted : BOOLEAN]

\* What a process has in hand, for the row of its target and n associations: a
\* claim that was issued, its place in the projection and, as long as the claim
\* is the latest, a target that has reached this place and was not failed.
ProcRight(s, row, n) ==
  /\ s.fence # None => row # None /\ s.fence \in 1 .. row.fence
  /\ s.pc \in {"idle", "seed", "begin"} => s.fence = None
  /\ s.pc \in {"persist", "complete", "done"} => s.fence # None
  /\ s.ordinal \in 0 .. (n + 1)
  /\ s.pc = "persist" => s.ordinal \in 1 .. n
  /\ s.pc = "complete" => s.ordinal = n + 1
  /\ s.pc \in {"persist", "complete"} /\ s.fence = row.fence
       => s.ordinal <= row.cursor + 1 /\ row.state # "failed"
  /\ s.pc = "done" => row.state = "completed"
  /\ s.pc \in {"failing", "failed"} /\ ~s.faulted => s.fence # None /\ s.fence < row.fence

ProcessesRight ==
  /\ process \in [Process -> Proc]
  /\ \A p \in Process : ProcRight(process[p], target, Len(projection))

\* Until the target is complete, nobody shares the latest claim.
OneOwner ==
  target # None /\ target.state # "completed" =>
    \A p, q \in Process : process[p].fence = target.fence /\ process[q].fence = target.fence => p = q

TablesRight ==
  /\ target = None \/ target \in Target
  /\ associations \in Seq(Steps) /\ ContinuedBy(associations, projection)
  /\ stored = Told(associations) /\ newest = LatestOf(associations)
  /\ target = None => associations = <<>>
  /\ target # None => target.cursor = Len(associations)
  /\ target # None /\ target.state = "completed" => associations = projection

LedgerRight ==
  /\ ledger \subseteq Range(schedule)
  /\ target # None => ledger = Range(schedule)
  /\ \A p \in Process : process[p].pc \notin {"idle", "seed"} => ledger = Range(schedule)

\* The starts that have yet to claim the target.
Pending == {p \in Process : process[p].pc \in {"seed", "begin"}}

Issued(row) == IF row = None THEN 0 ELSE row.fence - 1

StartsRight ==
  /\ starts \in 0 .. MaxStarts /\ faults \in 0 .. MaxFaults
  /\ IsFiniteSet(Pending) /\ Issued(target) + Cardinality(Pending) <= starts

ReplayInv ==
  /\ schedule \in Recordings
  /\ TablesRight /\ ProcessesRight /\ OneOwner /\ LedgerRight /\ StartsRight

\* The projection of the recording replayed.
LEMMA ProjectionRules ==
  ASSUME schedule \in Recordings
  PROVE  /\ projection \in Seq(Steps) /\ Len(projection) \in Nat
         /\ \A i \in 1 .. Len(projection) : projection[i] \in Steps
         /\ LatestOf(projection) = Reference(Range(schedule))
         /\ \A e \in Told(projection) : EvidenceOf(e) \subseteq Range(schedule)
<1>1. schedule \in Seq(Events)
  BY RecordingsAssumption
<1> DEFINE all == Projected(schedule)
<1>2. projection = all.artifacts
  BY DEF projection, Projections
<1>3. /\ all.latest = Reference(Range(schedule)) /\ Distinct(all.latest)
      /\ History(all.artifacts, all.latest, Range(schedule), Len(schedule))
  BY <1>1, ProjectedRules
<1> HIDE DEF all
<1>4. LatestOf(projection) = Reference(Range(schedule))
  BY <1>2, <1>3, LatestOfHistory
<1>5. projection \in Seq(Steps)
  BY <1>2, <1>3 DEF History
<1>6. \A e \in Told(projection) : EvidenceOf(e) \subseteq Range(schedule)
  BY <1>2, <1>3 DEF History, Told, Sound
<1>7. Len(projection) \in Nat /\ \A i \in 1 .. Len(projection) : projection[i] \in Steps
  BY <1>5
<1> QED
  BY <1>4, <1>5, <1>6, <1>7

LEMMA ProjectionStays ==
  ASSUME UNCHANGED schedule
  PROVE  projection' = projection
BY DEF projection

LEMMA ReplayStart == ReplayInit => ReplayInv
<1> SUFFICES ASSUME ReplayInit PROVE ReplayInv
  OBVIOUS
<1> USE DEF ReplayInit
<1>1. /\ schedule \in Recordings /\ ledger = {} /\ target = None /\ associations = <<>>
      /\ stored = {} /\ newest = {} /\ starts = 0 /\ faults = 0
      /\ process = [p \in Process |-> Idle]
  OBVIOUS
<1>2. TablesRight
  <2>1. associations \in Seq(Steps) /\ Len(associations) = 0 /\ Len(projection) \in Nat
    BY <1>1, ProjectionRules
  <2>2. ContinuedBy(associations, projection)
    BY <2>1 DEF ContinuedBy
  <2>3. stored = Told(associations) /\ newest = LatestOf(associations)
    BY <1>1 DEF Told, LatestOf
  <2> QED
    BY <1>1, <2>1, <2>2, <2>3 DEF TablesRight
<1>3. ProcessesRight
  <2>1. Idle \in Proc /\ Idle.pc = "idle" /\ Idle.fence = None /\ Idle.ordinal = 0 /\ Idle.faulted = FALSE
    BY DEF Idle, Proc
  <2>2. Len(projection) \in Nat
    BY <1>1, ProjectionRules
  <2>3. ProcRight(Idle, target, Len(projection))
    BY <2>1, <2>2 DEF ProcRight
  <2> QED
    BY <1>1, <2>1, <2>3 DEF ProcessesRight
<1>4. OneOwner
  BY <1>1 DEF OneOwner
<1>5. LedgerRight
  BY <1>1 DEF LedgerRight, Idle
<1>6. StartsRight
  <2>1. Pending = {}
    BY <1>1 DEF Pending, Idle
  <2> QED
    BY <1>1, <2>1, FS_EmptySet, RecordingsAssumption DEF StartsRight, Issued
<1> QED
  BY <1>1, <1>2, <1>3, <1>4, <1>5, <1>6 DEF ReplayInv

\* What a step of the target's row may be for a process that does not take it:
\* the row keeps its claim, goes on and may fail only for the owner of the
\* claim, or it gets a later claim; a completed row stays.
RowStep(row, next, s) ==
  /\ row = None \/ row \in Target
  /\ next = None \/ next \in Target
  /\ row # None => /\ next # None /\ next.fence >= row.fence
                   /\ row.state = "completed" => next.state = "completed"
                   /\ next.fence = row.fence =>
                        /\ next.cursor >= row.cursor
                        /\ next.state = "failed" => row.state = "failed" \/ s.fence # row.fence

LEMMA OthersStayRight ==
  ASSUME NEW s \in Proc, NEW row, NEW next, NEW n \in Nat, ProcRight(s, row, n),
         RowStep(row, next, s)
  PROVE  ProcRight(s, next, n)
<1>0. None \notin Nat
  BY TargetAssumption
<1>1. CASE row = None
  <2>1. s.fence = None /\ s.pc \notin {"persist", "complete", "done"}
    BY <1>1 DEF ProcRight
  <2> QED
    BY <1>1, <2>1 DEF ProcRight
<1>2. CASE row # None
  <2>1. /\ row \in Target /\ next \in Target /\ next # None /\ next.fence >= row.fence
        /\ row.state = "completed" => next.state = "completed"
        /\ next.fence = row.fence =>
             /\ next.cursor >= row.cursor
             /\ next.state = "failed" => row.state = "failed" \/ s.fence # row.fence
    BY <1>2 DEF RowStep
  <2>2. /\ row.fence \in Nat /\ next.fence \in Nat /\ row.cursor \in Nat /\ next.cursor \in Nat
        /\ s.ordinal \in Nat
    BY <2>1 DEF Target, Proc
  <2>3. s.fence # None => next # None /\ s.fence \in 1 .. next.fence
    BY <2>1, <2>2 DEF ProcRight
  <2>4. ASSUME s.pc \in {"persist", "complete"}, s.fence = next.fence
        PROVE  s.ordinal <= next.cursor + 1 /\ next.state # "failed"
    <3>1. s.fence # None /\ s.fence \in 1 .. row.fence
      BY <2>4 DEF ProcRight
    <3>2. next.fence = row.fence /\ s.fence = row.fence
      BY <2>1, <2>2, <2>4, <3>1
    <3>3. s.ordinal <= row.cursor + 1 /\ row.state # "failed"
      BY <2>4, <3>2 DEF ProcRight
    <3> QED
      BY <2>1, <2>2, <3>2, <3>3
  <2>5. ASSUME s.pc \in {"failing", "failed"}, ~s.faulted
        PROVE  s.fence # None /\ s.fence < next.fence
    <3>1. s.fence # None /\ s.fence < row.fence /\ s.fence \in 1 .. row.fence
      BY <2>5 DEF ProcRight
    <3> QED
      BY <2>1, <2>2, <3>1
  <2> QED
    BY <2>1, <2>3, <2>4, <2>5 DEF ProcRight
<1> QED
  BY <1>1, <1>2

\* One process moves; the others see a step of the row.
LEMMA OneProcessMoves ==
  ASSUME ProcessesRight, UNCHANGED schedule, schedule \in Recordings,
         NEW p \in Process, NEW x \in Proc, process' = [process EXCEPT ![p] = x],
         ProcRight(x, target', Len(projection)),
         \A q \in Process : q # p => RowStep(target, target', process[q])
  PROVE  ProcessesRight'
<1>1. Len(projection) \in Nat /\ projection' = projection
  BY ProjectionRules, ProjectionStays
<1>2. /\ process \in [Process -> Proc]
      /\ \A q \in Process : ProcRight(process[q], target, Len(projection))
  BY DEF ProcessesRight
<1>3. process' \in [Process -> Proc]
  BY <1>2
<1>4. ASSUME NEW q \in Process PROVE ProcRight(process'[q], target', Len(projection))
  <2>1. CASE q = p
    BY <1>2, <2>1
  <2>2. CASE q # p
    <3>1. process'[q] = process[q] /\ process[q] \in Proc
      BY <1>2, <2>2
    <3> QED
      BY <1>1, <1>2, <2>2, <3>1, OthersStayRight
  <2> QED
    BY <2>1, <2>2
<1> QED
  BY <1>1, <1>3, <1>4 DEF ProcessesRight

LEMMA RowStays ==
  ASSUME TablesRight, NEW s
  PROVE  RowStep(target, target, s)
<1>1. target = None \/ target \in Target
  BY DEF TablesRight
<1> QED
  BY <1>1 DEF RowStep, Target

\* Who has the latest claim when one process takes over x.
LEMMA OwnerStays ==
  ASSUME OneOwner, process \in [Process -> Proc], NEW p \in Process, NEW x,
         process' = [process EXCEPT ![p] = x], target' # None => target'.fence \in Nat,
         target' # None /\ target'.state # "completed" =>
           /\ target # None /\ target.state # "completed" /\ target'.fence = target.fence,
         x.fence = process[p].fence \/ x.fence = None
  PROVE  OneOwner'
<1> SUFFICES ASSUME target' # None, target'.state # "completed",
                    NEW q \in Process, NEW r \in Process,
                    process'[q].fence = target'.fence, process'[r].fence = target'.fence
             PROVE  q = r
  BY DEF OneOwner
<1>1. target'.fence # None
  BY TargetAssumption
<1>2. \A s \in Process : process'[s].fence = target'.fence => process[s].fence = target.fence
  <2>1. TAKE s \in Process
  <2>2. process'[s] = IF s = p THEN x ELSE process[s]
    OBVIOUS
  <2> QED
    BY <1>1, <2>2
<1> QED
  BY <1>2 DEF OneOwner

\* What a move does to the starts that have yet to claim the target.
LEMMA PendingRules ==
  ASSUME process \in [Process -> Proc], IsFiniteSet(Pending), NEW p \in Process, NEW x,
         process' = [process EXCEPT ![p] = x]
  PROVE  /\ IsFiniteSet(Pending') /\ Cardinality(Pending) \in Nat /\ Cardinality(Pending') \in Nat
         /\ Cardinality(Pending') <= Cardinality(Pending) + 1
         /\ x.pc \notin {"seed", "begin"} \/ p \in Pending
              => Cardinality(Pending') <= Cardinality(Pending)
         /\ x.pc \notin {"seed", "begin"} /\ p \in Pending
              => Cardinality(Pending') = Cardinality(Pending) - 1
<1>1. \A q \in Process : process'[q] = IF q = p THEN x ELSE process[q]
  OBVIOUS
<1>2. CASE x.pc \in {"seed", "begin"}
  <2>1. Pending' = Pending \cup {p}
    BY <1>1, <1>2 DEF Pending
  <2>2. /\ IsFiniteSet(Pending \cup {p}) /\ Cardinality(Pending) \in Nat
        /\ Cardinality(Pending \cup {p})
             = IF p \in Pending THEN Cardinality(Pending) ELSE Cardinality(Pending) + 1
    BY FS_AddElement, FS_CardinalityType
  <2> QED
    BY <1>2, <2>1, <2>2
<1>3. CASE x.pc \notin {"seed", "begin"}
  <2>1. Pending' = Pending \ {p}
    BY <1>1, <1>3 DEF Pending
  <2>2. /\ IsFiniteSet(Pending \ {p}) /\ Cardinality(Pending) \in Nat
        /\ Cardinality(Pending \ {p}) \in Nat
        /\ Cardinality(Pending \ {p})
             = IF p \in Pending THEN Cardinality(Pending) - 1 ELSE Cardinality(Pending)
    BY FS_RemoveElement, FS_CardinalityType
  <2> QED
    BY <1>3, <2>1, <2>2
<1> QED
  BY <1>2, <1>3

\* A step that leaves the tables alone.
LEMMA QuietStep ==
  ASSUME ReplayInv, UNCHANGED <<schedule, tables>>, NEW p \in Process, NEW x \in Proc,
         process' = [process EXCEPT ![p] = x], ProcRight(x, target, Len(projection)),
         x.fence = process[p].fence \/ x.fence = None,
         ledger' = ledger \/ ledger' = Range(schedule),
         x.pc \notin {"idle", "seed"} => ledger' = Range(schedule),
         StartsRight'
  PROVE  ReplayInv'
<1>1. /\ schedule \in Recordings /\ TablesRight /\ ProcessesRight /\ OneOwner /\ LedgerRight
      /\ process \in [Process -> Proc]
  BY DEF ReplayInv, ProcessesRight
<1>2. /\ schedule' = schedule /\ projection' = projection
      /\ target' = target /\ associations' = associations /\ stored' = stored /\ newest' = newest
  BY ProjectionStays DEF tables
<1>3. TablesRight'
  BY <1>1, <1>2 DEF TablesRight
<1>4. ProcessesRight'
  <2>1. \A q \in Process : RowStep(target, target, process[q])
    BY <1>1, RowStays
  <2> QED
    BY <1>1, <1>2, <2>1, OneProcessMoves
<1>5. OneOwner'
  <2>1. target # None => target.fence \in Nat
    BY <1>1 DEF TablesRight, Target
  <2>2. target' # None => target'.fence \in Nat
    BY <1>2, <2>1
  <2>3. CASE target # None /\ target.state # "completed"
    BY <1>1, <1>2, <2>2, <2>3, OwnerStays
  <2>4. CASE ~(target # None /\ target.state # "completed")
    BY <1>2, <2>4 DEF OneOwner
  <2> QED
    BY <2>3, <2>4
<1>6. LedgerRight'
  <2>1. \A q \in Process : process'[q] = IF q = p THEN x ELSE process[q]
    BY <1>1
  <2>2. /\ ledger' \subseteq Range(schedule)
        /\ ledger = Range(schedule) => ledger' = Range(schedule)
    BY <1>1 DEF LedgerRight
  <2> QED
    BY <1>1, <1>2, <2>1, <2>2 DEF LedgerRight
<1> QED
  BY <1>1, <1>2, <1>3, <1>4, <1>5, <1>6 DEF ReplayInv

\* The counters when a process that does not start moves.
LEMMA StartsKeep ==
  ASSUME ReplayInv, NEW p \in Process, NEW x, process' = [process EXCEPT ![p] = x],
         UNCHANGED starts, faults' = faults \/ (faults < MaxFaults /\ faults' = faults + 1),
         Issued(target') \in Int,
         \/ Issued(target') <= Issued(target) /\ (x.pc \notin {"seed", "begin"} \/ p \in Pending)
         \/ Issued(target') <= Issued(target) + 1 /\ x.pc \notin {"seed", "begin"} /\ p \in Pending
  PROVE  StartsRight'
<1>1. /\ process \in [Process -> Proc] /\ IsFiniteSet(Pending)
      /\ starts \in 0 .. MaxStarts /\ faults \in 0 .. MaxFaults
      /\ Issued(target) + Cardinality(Pending) <= starts
      /\ target = None \/ target \in Target
  BY DEF ReplayInv, ProcessesRight, StartsRight, TablesRight
<1>2. Issued(target) \in Int
  BY <1>1 DEF Issued, Target
<1>3. /\ IsFiniteSet(Pending') /\ Cardinality(Pending) \in Nat /\ Cardinality(Pending') \in Nat
      /\ x.pc \notin {"seed", "begin"} \/ p \in Pending
           => Cardinality(Pending') <= Cardinality(Pending)
      /\ x.pc \notin {"seed", "begin"} /\ p \in Pending
           => Cardinality(Pending') = Cardinality(Pending) - 1
  BY <1>1, PendingRules
<1>4. Issued(target') + Cardinality(Pending') <= starts
  BY <1>1, <1>2, <1>3
<1>5. faults' \in 0 .. MaxFaults
  BY <1>1, RecordingsAssumption
<1>6. starts' = starts
  OBVIOUS
<1> QED
  BY <1>1, <1>3, <1>4, <1>5, <1>6 DEF StartsRight

-----------------------------------------------------------------------------
(* The steps of a replay.                                                   *)

\* What the invariant says of one process.
LEMMA OneProcess ==
  ASSUME ReplayInv, NEW p \in Process
  PROVE  /\ schedule \in Recordings /\ TablesRight
         /\ process \in [Process -> Proc] /\ process[p] \in Proc /\ Len(projection) \in Nat
         /\ ProcRight(process[p], target, Len(projection))
         /\ target = None \/ target \in Target
         /\ Issued(target) \in Int
         /\ process[p].pc \notin {"idle", "seed"} => ledger = Range(schedule)
         /\ target # None => ledger = Range(schedule)
<1>1. /\ schedule \in Recordings /\ TablesRight /\ ProcessesRight /\ LedgerRight
      /\ target = None \/ target \in Target
  BY DEF ReplayInv, TablesRight
<1>2. Issued(target) \in Int
  BY <1>1 DEF Issued, Target
<1> QED
  BY <1>1, <1>2, ProjectionRules DEF ProcessesRight, LedgerRight

LEMMA IssuedStays ==
  ASSUME ReplayInv, target' = target
  PROVE  Issued(target') \in Int /\ Issued(target') <= Issued(target)
<1>1. target = None \/ target \in Target
  BY DEF ReplayInv, TablesRight
<1>2. Issued(target) \in Int
  BY <1>1 DEF Issued, Target
<1> QED
  BY <1>2

LEMMA StartStep ==
  ASSUME ReplayInv, NEW p \in Process, Start(p)
  PROVE  ReplayInv'
<1> DEFINE s == process[p]
           x == [Idle EXCEPT !.pc = IF s.pc = "idle" THEN "seed" ELSE "begin"]
<1>1. /\ s.pc \in {"idle", "failed", "done"} /\ starts < MaxStarts /\ starts' = starts + 1
      /\ process' = [process EXCEPT ![p] = x]
      /\ UNCHANGED <<schedule, ledger, tables, faults>>
  BY DEF Start
<1>2. /\ x \in Proc /\ x.pc \in {"seed", "begin"} /\ x.fence = None /\ x.ordinal = 0
      /\ x.faulted = FALSE /\ (x.pc = "begin" => s.pc # "idle")
  BY DEF Idle, Proc
<1>3. schedule \in Recordings /\ Len(projection) \in Nat /\ process \in [Process -> Proc]
  BY OneProcess
<1> HIDE DEF x
<1>4. ProcRight(x, target, Len(projection))
  BY <1>2, <1>3 DEF ProcRight
<1>5. x.pc \notin {"idle", "seed"} => ledger' = Range(schedule)
  BY <1>1, <1>2, OneProcess
<1>6. StartsRight'
  <2>1. /\ starts \in 0 .. MaxStarts /\ faults \in 0 .. MaxFaults /\ IsFiniteSet(Pending)
        /\ Issued(target) + Cardinality(Pending) <= starts /\ Issued(target) \in Int
    BY OneProcess DEF ReplayInv, StartsRight
  <2>2. /\ IsFiniteSet(Pending') /\ Cardinality(Pending) \in Nat /\ Cardinality(Pending') \in Nat
        /\ Cardinality(Pending') <= Cardinality(Pending) + 1
    BY <1>1, <1>3, <2>1, PendingRules
  <2>3. target' = target /\ faults' = faults
    BY <1>1 DEF tables
  <2>4. starts' \in 0 .. MaxStarts /\ Issued(target) + Cardinality(Pending') <= starts'
    BY <1>1, <2>1, <2>2, RecordingsAssumption
  <2> QED
    BY <2>1, <2>2, <2>3, <2>4 DEF StartsRight
<1>7. ledger' = ledger
  BY <1>1
<1> QED
  BY <1>1, <1>2, <1>4, <1>5, <1>6, <1>7, QuietStep

LEMMA SeedStep ==
  ASSUME ReplayInv, NEW p \in Process, Seed(p)
  PROVE  ReplayInv'
<1> DEFINE s == process[p]
           x == [s EXCEPT !.pc = "begin"]
<1>1. s.pc = "seed" /\ ledger' = ledger \cup Range(schedule) /\ UNCHANGED <<schedule, tables, starts>>
  BY DEF Seed
<1>2. \/ process' = [process EXCEPT ![p].pc = "begin"] /\ faults' = faults
      \/ /\ faults < MaxFaults /\ faults' = faults + 1
         /\ process' = [process EXCEPT ![p] = Idle]
  BY DEF Seed, Go
<1>3. /\ schedule \in Recordings /\ Len(projection) \in Nat /\ process \in [Process -> Proc]
      /\ s \in Proc /\ ProcRight(s, target, Len(projection)) /\ Issued(target) \in Int
  BY OneProcess
<1>4. ledger' = Range(schedule)
  <2>1. ledger \subseteq Range(schedule)
    BY DEF ReplayInv, LedgerRight
  <2> QED
    BY <1>1, <2>1
<1>5. p \in Pending /\ target' = target /\ starts' = starts
  BY <1>1 DEF Pending, tables
<1>6. CASE process' = [process EXCEPT ![p].pc = "begin"] /\ faults' = faults
  <2>1. process' = [process EXCEPT ![p] = x]
    BY <1>3, <1>6
  <2>2. /\ x \in Proc /\ x.pc = "begin" /\ x.fence = s.fence /\ x.ordinal = s.ordinal
        /\ x.faulted = s.faulted
    BY <1>3 DEF Proc
  <2> HIDE DEF x
  <2>3. ProcRight(x, target, Len(projection))
    BY <1>1, <1>3, <2>2 DEF ProcRight
  <2>4. StartsRight'
    BY <1>3, <1>5, <1>6, <2>1, <2>2, StartsKeep, IssuedStays
  <2> QED
    BY <1>1, <1>4, <2>1, <2>2, <2>3, <2>4, QuietStep
<1>7. CASE /\ faults < MaxFaults /\ faults' = faults + 1
           /\ process' = [process EXCEPT ![p] = Idle]
  <2>1. /\ Idle \in Proc /\ Idle.pc = "idle" /\ Idle.fence = None /\ Idle.ordinal = 0
        /\ Idle.faulted = FALSE
    BY DEF Idle, Proc
  <2>2. ProcRight(Idle, target, Len(projection))
    BY <1>3, <2>1 DEF ProcRight
  <2>3. StartsRight'
    BY <1>3, <1>5, <1>7, <2>1, StartsKeep, IssuedStays
  <2> QED
    BY <1>1, <1>4, <1>7, <2>1, <2>2, <2>3, QuietStep
<1> QED
  BY <1>2, <1>6, <1>7

\* The path of an error.
Broken(s) == [s EXCEPT !.pc = "failing", !.faulted = TRUE]

LEMMA BrokenRules ==
  ASSUME NEW s \in Proc, NEW row, NEW n, ProcRight(s, row, n)
  PROVE  /\ Broken(s) \in Proc /\ Broken(s).pc = "failing" /\ Broken(s).fence = s.fence
         /\ ProcRight(Broken(s), row, n)
<1> DEFINE x == Broken(s)
<1> DEFINE y == [s EXCEPT !.pc = "failing"]
<1>0. x = [y EXCEPT !.faulted = TRUE]
  BY DEF Broken
<1>1. y \in Proc /\ y.pc = "failing" /\ y.fence = s.fence /\ y.ordinal = s.ordinal
  BY DEF Proc
<1> HIDE DEF y
<1>2. /\ x \in Proc /\ x.pc = "failing" /\ x.fence = s.fence /\ x.ordinal = s.ordinal
      /\ x.faulted = TRUE
  BY <1>0, <1>1 DEF Proc
<1> HIDE DEF x
<1>3. ProcRight(x, row, n)
  BY <1>2 DEF ProcRight
<1> QED
  BY <1>2, <1>3 DEF x

LEMMA FaultStep ==
  ASSUME ReplayInv, NEW p \in Process, Fault(p)
  PROVE  ReplayInv'
<1> DEFINE s == process[p]
           x == Broken(s)
<1>1. /\ s.pc \in {"begin", "persist", "complete"} /\ faults < MaxFaults /\ faults' = faults + 1
      /\ process' = [process EXCEPT ![p].pc = "failing", ![p].faulted = TRUE]
      /\ UNCHANGED <<schedule, ledger, tables, starts>>
  BY DEF Fault
<1>2. /\ schedule \in Recordings /\ process \in [Process -> Proc]
      /\ s \in Proc /\ ProcRight(s, target, Len(projection)) /\ Issued(target) \in Int
      /\ ledger = Range(schedule)
  BY <1>1, OneProcess
<1>3. process' = [process EXCEPT ![p] = x]
  BY <1>1, <1>2 DEF Broken
<1>4. /\ x \in Proc /\ x.pc = "failing" /\ x.fence = s.fence /\ ProcRight(x, target, Len(projection))
  BY <1>2, BrokenRules
<1>5. target' = target /\ starts' = starts /\ ledger' = ledger
  BY <1>1 DEF tables
<1> HIDE DEF x
<1>6. StartsRight'
  BY <1>1, <1>2, <1>3, <1>4, <1>5, StartsKeep, IssuedStays
<1> QED
  BY <1>1, <1>2, <1>3, <1>4, <1>5, <1>6, QuietStep

LEMMA CrashReplayStep ==
  ASSUME ReplayInv, NEW p \in Process, CrashReplay(p)
  PROVE  ReplayInv'
<1>1. /\ faults < MaxFaults /\ faults' = faults + 1
      /\ process' = [process EXCEPT ![p] = Idle]
      /\ UNCHANGED <<schedule, ledger, tables, starts>>
  BY DEF CrashReplay
<1>2. /\ Idle \in Proc /\ Idle.pc = "idle" /\ Idle.fence = None /\ Idle.ordinal = 0
      /\ Idle.faulted = FALSE
  BY DEF Idle, Proc
<1>3. Len(projection) \in Nat /\ Issued(target) \in Int
  BY OneProcess
<1>4. ProcRight(Idle, target, Len(projection))
  BY <1>2, <1>3 DEF ProcRight
<1>5. target' = target /\ starts' = starts /\ ledger' = ledger
  BY <1>1 DEF tables
<1>6. StartsRight'
  BY <1>1, <1>2, <1>3, <1>5, StartsKeep, IssuedStays
<1> QED
  BY <1>1, <1>2, <1>4, <1>5, <1>6, QuietStep

\* A step that changes the row of the target or the tables.
LEMMA TableStep ==
  ASSUME ReplayInv, UNCHANGED <<schedule, ledger>>, NEW p \in Process, NEW x \in Proc,
         process' = [process EXCEPT ![p] = x], ProcRight(x, target', Len(projection)),
         \A q \in Process : q # p => RowStep(target, target', process[q]),
         ledger = Range(schedule), TablesRight', OneOwner', StartsRight'
  PROVE  ReplayInv'
<1>1. schedule \in Recordings /\ ProcessesRight
  BY DEF ReplayInv
<1>2. ProcessesRight'
  BY <1>1, OneProcessMoves
<1>3. schedule' = schedule /\ ledger' = ledger
  OBVIOUS
<1>4. LedgerRight'
  BY <1>3 DEF LedgerRight
<1> QED
  BY <1>1, <1>2, <1>3, <1>4 DEF ReplayInv

\* What a process does after a call that committed.
LEMMA AnsweredRules ==
  ASSUME process \in [Process -> Proc], NEW p \in Process, NEW after, Answered(p, after)
  PROVE  /\ faults' = faults \/ (faults < MaxFaults /\ faults' = faults + 1)
         /\ \E x \in {after, Broken(process[p])} : process' = [process EXCEPT ![p] = x]
<1>1. CASE process' = [process EXCEPT ![p] = after] /\ UNCHANGED faults
  BY <1>1
<1>2. CASE /\ faults < MaxFaults /\ faults' = faults + 1
           /\ process' = [process EXCEPT ![p].pc = "failing", ![p].faulted = TRUE]
  <2>1. process' = [process EXCEPT ![p] = Broken(process[p])]
    BY <1>2 DEF Broken
  <2> QED
    BY <1>2, <2>1
<1> QED
  BY <1>1, <1>2 DEF Answered

LEMMA NextOrdinalRules ==
  ASSUME NEW p \in Process, process[p] \in Proc, NEW token \in Nat, NEW ordinal \in Nat
  PROVE  LET x == NextOrdinal(p, token, ordinal)
         IN  /\ x \in Proc /\ x.fence = token /\ x.ordinal = ordinal
             /\ x.faulted = process[p].faulted
             /\ x.pc = IF ordinal <= Len(projection) THEN "persist" ELSE "complete"
<1> DEFINE s == process[p]
           next == IF ordinal <= Len(projection) THEN "persist" ELSE "complete"
           y == [s EXCEPT !.fence = token]
           z == [y EXCEPT !.ordinal = ordinal]
           x == NextOrdinal(p, token, ordinal)
<1>1. x = [z EXCEPT !.pc = next]
  BY DEF NextOrdinal
<1>2. y \in Proc /\ y.fence = token /\ y.faulted = s.faulted
  BY DEF Proc
<1> HIDE DEF y
<1>3. z \in Proc /\ z.fence = token /\ z.faulted = s.faulted /\ z.ordinal = ordinal
  BY <1>2 DEF Proc
<1> HIDE DEF z
<1>4. /\ [z EXCEPT !.pc = next] \in Proc /\ [z EXCEPT !.pc = next].fence = token
      /\ [z EXCEPT !.pc = next].faulted = s.faulted /\ [z EXCEPT !.pc = next].ordinal = ordinal
      /\ [z EXCEPT !.pc = next].pc = next
  BY <1>3 DEF Proc
<1> QED
  BY <1>1, <1>4

\* The row after a target was begun.
LEMMA BegunRules ==
  ASSUME ReplayInv, NEW p \in Process, BeginTarget(p)
  PROVE  /\ target' \in Target /\ target' # None
         /\ target'.state \in {"active", "completed"} /\ target'.cursor = Len(associations)
         /\ target # None =>
              \/ target.state = "completed" /\ target' = target
              \/ target.state # "completed" /\ target'.state = "active"
                 /\ target'.fence = target.fence + 1
         /\ target = None => target'.state = "active"
         /\ Issued(target') \in Int /\ Issued(target') <= Issued(target) + 1
<1> DEFINE row == IF target = None THEN [state |-> "active", cursor |-> 0, fence |-> 1] ELSE target
<1>1. target' = Begun(row)
  BY DEF BeginTarget
<1>2. /\ target = None \/ target \in Target
      /\ target = None => associations = <<>>
      /\ target # None => target.cursor = Len(associations)
  BY DEF ReplayInv, TablesRight
<1>3. row \in Target /\ row.cursor = Len(associations)
  BY <1>2 DEF Target
<1>4. \A r \in Target : r # None
  BY TargetAssumption DEF Target
<1>5. CASE row.state = "completed"
  <2>1. target' = row /\ row = target /\ target # None
    BY <1>1, <1>2, <1>3, <1>4, <1>5 DEF Begun
  <2> QED
    BY <1>2, <1>3, <1>5, <2>1 DEF Issued, Target
<1>6. CASE row.state # "completed"
  <2> DEFINE claimed == [row EXCEPT !.state = "active"]
  <2>1. claimed \in Target /\ claimed.state = "active" /\ claimed.cursor = row.cursor
        /\ claimed.fence = row.fence
    BY <1>3 DEF Target
  <2>2. target' = [claimed EXCEPT !.fence = row.fence + 1]
    BY <1>1, <1>6 DEF Begun
  <2> HIDE DEF claimed
  <2>3. /\ target' \in Target /\ target'.state = "active" /\ target'.cursor = row.cursor
        /\ target'.fence = row.fence + 1
    BY <1>3, <2>1, <2>2 DEF Target
  <2>4. row.fence \in Nat /\ (target = None => row.fence = 1) /\ (target # None => row = target)
    BY <1>3 DEF Target
  <2>5. Issued(target') \in Int /\ Issued(target') <= Issued(target) + 1
    BY <1>2, <1>4, <2>3, <2>4 DEF Issued, Target
  <2> QED
    BY <1>3, <1>4, <1>6, <2>3, <2>4, <2>5
<1> QED
  BY <1>5, <1>6

LEMMA BeginTargetStep ==
  ASSUME ReplayInv, NEW p \in Process, BeginTarget(p)
  PROVE  ReplayInv'
<1> DEFINE s == process[p]
           n == Len(projection)
           after == NextOrdinal(p, target'.fence, 1)
<1>1. /\ s.pc = "begin" /\ Answered(p, after)
      /\ UNCHANGED <<schedule, ledger, associations, stored, newest, starts>>
  BY DEF BeginTarget
<1>2. /\ schedule \in Recordings /\ TablesRight /\ process \in [Process -> Proc] /\ s \in Proc
      /\ n \in Nat /\ ProcRight(s, target, n) /\ (target = None \/ target \in Target)
      /\ ledger = Range(schedule)
  BY <1>1, OneProcess
<1>3. /\ target' \in Target /\ target' # None
      /\ target'.state \in {"active", "completed"} /\ target'.cursor = Len(associations)
      /\ target # None =>
           \/ target.state = "completed" /\ target' = target
           \/ target.state # "completed" /\ target'.state = "active"
              /\ target'.fence = target.fence + 1
      /\ target = None => target'.state = "active"
      /\ Issued(target') \in Int /\ Issued(target') <= Issued(target) + 1
  BY BegunRules
<1>4. target'.fence \in Nat \ {0} /\ target'.cursor \in Nat
  BY <1>3 DEF Target
<1>5. /\ after \in Proc /\ after.fence = target'.fence /\ after.ordinal = 1
      /\ after.pc = IF 1 <= n THEN "persist" ELSE "complete"
  BY <1>2, <1>4, NextOrdinalRules
<1> HIDE DEF after
<1>6. ASSUME NEW q \in Process PROVE RowStep(target, target', process[q])
  BY <1>2, <1>3 DEF RowStep, Target
<1>7. ProcRight(after, target', n)
  BY <1>2, <1>3, <1>4, <1>5, TargetAssumption DEF ProcRight
<1>8. ProcRight(Broken(s), target', n) /\ Broken(s) \in Proc /\ Broken(s).pc = "failing"
      /\ Broken(s).fence = s.fence
  BY <1>2, <1>6, OthersStayRight, BrokenRules
<1>9. PICK x \in {after, Broken(s)} : process' = [process EXCEPT ![p] = x]
  BY <1>1, <1>2, AnsweredRules
<1>10. x \in Proc /\ ProcRight(x, target', n) /\ x.pc \notin {"seed", "begin"}
  BY <1>5, <1>7, <1>8, <1>9
<1>11. TablesRight'
  <2>1. projection' = projection
    BY <1>1, ProjectionStays
  <2> QED
    BY <1>1, <1>2, <1>3, <2>1 DEF TablesRight
<1>12. OneOwner'
  <2>1. SUFFICES ASSUME target'.state # "completed",
                        NEW q \in Process, NEW r \in Process,
                        process'[q].fence = target'.fence, process'[r].fence = target'.fence
                 PROVE  q = r
    BY DEF OneOwner
  <2>2. ASSUME NEW t \in Process, t # p PROVE process'[t].fence # target'.fence
    <3>1. process'[t] = process[t] /\ ProcRight(process[t], target, n)
      BY <1>9, <2>2, OneProcess
    <3>2. process[t].fence # None => target # None /\ process[t].fence \in 1 .. target.fence
      BY <3>1 DEF ProcRight
    <3>3. target # None => target.fence \in Nat /\ target'.fence = target.fence + 1
      BY <1>2, <1>3, <2>1 DEF Target
    <3> QED
      BY <1>4, <3>1, <3>2, <3>3, TargetAssumption
  <2> QED
    BY <2>1, <2>2
<1>13. StartsRight'
  <2>1. p \in Pending
    BY <1>1 DEF Pending
  <2> QED
    BY <1>1, <1>2, <1>3, <1>9, <1>10, <2>1, AnsweredRules, StartsKeep
<1> QED
  BY <1>1, <1>2, <1>6, <1>9, <1>10, <1>11, <1>12, <1>13, TableStep

\* What the invariant says of a process that has begun its target.
LEMMA BegunProcess ==
  ASSUME ReplayInv, NEW p \in Process, process[p].pc \in {"persist", "complete"}
  PROVE  LET s == process[p]
         IN  /\ target # None /\ target \in Target /\ target.fence \in Nat \ {0}
             /\ target.cursor \in Nat /\ target.cursor = Len(associations)
             /\ associations \in Seq(Steps) /\ ContinuedBy(associations, projection)
             /\ projection \in Seq(Steps) /\ Len(projection) \in Nat
             /\ target.state = "completed" => associations = projection
             /\ s.fence # None /\ s.fence \in 1 .. target.fence /\ s.ordinal \in Nat
             /\ s.fence = target.fence => s.ordinal <= target.cursor + 1 /\ target.state # "failed"
<1> DEFINE s == process[p]
<1>1. /\ s \in Proc /\ ProcRight(s, target, Len(projection)) /\ TablesRight
      /\ schedule \in Recordings
  BY OneProcess
<1>2. target # None /\ s.fence # None /\ s.fence \in 1 .. target.fence /\ s.ordinal \in Nat
  BY <1>1 DEF ProcRight, Proc
<1>3. s.fence = target.fence => s.ordinal <= target.cursor + 1 /\ target.state # "failed"
  BY <1>1 DEF ProcRight
<1>4. /\ target \in Target /\ target.cursor = Len(associations)
      /\ associations \in Seq(Steps) /\ ContinuedBy(associations, projection)
      /\ target.state = "completed" => associations = projection
  BY <1>1, <1>2 DEF TablesRight
<1>5. target.fence \in Nat \ {0} /\ target.cursor \in Nat
  BY <1>4 DEF Target
<1> QED
  BY <1>1, <1>2, <1>3, <1>4, <1>5, ProjectionRules

\* A process that has the latest claim is never refused.
LEMMA OwnerIsNotRefused ==
  ASSUME ReplayInv, NEW p \in Process, process[p].fence = target.fence
  PROVE  /\ process[p].pc = "persist" => Advances(p) \/ Verified(p)
         /\ process[p].pc = "complete" =>
              target.state \in {"active", "completed"} /\ target.cursor = Len(projection)
                /\ StoredAsProjected
<1> DEFINE s == process[p]
           n == Len(projection)
<1>1. ASSUME s.pc = "persist" PROVE Advances(p) \/ Verified(p)
  <2>1. /\ target.cursor = Len(associations) /\ target.cursor \in Nat /\ n \in Nat
        /\ ContinuedBy(associations, projection)
        /\ target.state = "completed" => associations = projection
        /\ s.ordinal <= target.cursor + 1 /\ target.state # "failed" /\ target \in Target
    BY <1>1, BegunProcess
  <2>2. s.ordinal \in 1 .. n
    BY <1>1, OneProcess DEF ProcRight
  <2>3. CASE s.ordinal <= target.cursor
    <3>1. associations[s.ordinal] = projection[s.ordinal]
      BY <2>1, <2>2, <2>3 DEF ContinuedBy
    <3> QED
      BY <2>3, <3>1 DEF Verified
  <2>4. CASE ~(s.ordinal <= target.cursor)
    <3>1. s.ordinal = target.cursor + 1
      BY <2>1, <2>2, <2>4
    <3>2. target.state # "completed"
      BY <2>1, <2>2, <3>1
    <3>3. target.state = "active"
      BY <2>1, <3>2 DEF Target
    <3> QED
      BY <3>1, <3>3 DEF Advances
  <2> QED
    BY <2>3, <2>4
<1>2. ASSUME s.pc = "complete"
      PROVE  target.state \in {"active", "completed"} /\ target.cursor = n /\ StoredAsProjected
  <2>1. /\ target.cursor = Len(associations) /\ target.cursor \in Nat /\ n \in Nat
        /\ ContinuedBy(associations, projection)
        /\ s.ordinal <= target.cursor + 1 /\ target.state # "failed" /\ target \in Target
        /\ associations \in Seq(Steps) /\ projection \in Seq(Steps)
    BY <1>2, BegunProcess
  <2>2. s.ordinal = n + 1
    BY <1>2, OneProcess DEF ProcRight
  <2>3. target.cursor = n
    BY <2>1, <2>2 DEF ContinuedBy
  <2>4. associations = projection
    <3>1. Len(associations) = Len(projection) /\ \A q \in 1 .. Len(associations) : projection[q] = associations[q]
      BY <2>1, <2>3 DEF ContinuedBy
    <3> QED
      BY <2>1, <3>1, SeqEqual
  <2>5. newest = LatestOf(associations)
    BY DEF ReplayInv, TablesRight
  <2> QED
    BY <2>1, <2>3, <2>4, <2>5 DEF StoredAsProjected, Target
<1> QED
  BY <1>1, <1>2

\* The path of an error from a call that was refused.
LEMMA RefusedStep ==
  ASSUME ReplayInv, NEW p \in Process, process[p].pc \in {"persist", "complete"},
         process[p].fence # target.fence, Go(p, "failing"),
         UNCHANGED <<schedule, ledger, tables, starts, faults>>
  PROVE  ReplayInv'
<1> DEFINE s == process[p]
           x == [s EXCEPT !.pc = "failing"]
<1>1. /\ s \in Proc /\ ProcRight(s, target, Len(projection)) /\ process \in [Process -> Proc]
      /\ schedule \in Recordings /\ ledger = Range(schedule)
  BY OneProcess
<1>2. /\ target.fence \in Nat /\ s.fence # None /\ s.fence \in 1 .. target.fence
  BY BegunProcess
<1>3. /\ x \in Proc /\ x.pc = "failing" /\ x.fence = s.fence /\ x.ordinal = s.ordinal
      /\ x.faulted = s.faulted
  BY <1>1 DEF Proc
<1>4. process' = [process EXCEPT ![p] = x]
  BY <1>1 DEF Go
<1> HIDE DEF x
<1>5. ProcRight(x, target, Len(projection))
  BY <1>1, <1>2, <1>3 DEF ProcRight
<1>6. target' = target /\ ledger' = ledger /\ starts' = starts /\ faults' = faults
  BY DEF tables
<1>7. StartsRight'
  BY <1>1, <1>3, <1>4, <1>6, IssuedStays, StartsKeep
<1> QED
  BY <1>1, <1>3, <1>4, <1>5, <1>6, <1>7, QuietStep

LEMMA FailTargetStep ==
  ASSUME ReplayInv, NEW p \in Process, FailTarget(p)
  PROVE  ReplayInv'
<1> DEFINE s == process[p]
           n == Len(projection)
           x == [s EXCEPT !.pc = "failed"]
<1>1. /\ s.pc = "failing" /\ Go(p, "failed")
      /\ target' = IF MayFail(p) THEN [target EXCEPT !.state = "failed"] ELSE target
      /\ UNCHANGED <<schedule, ledger, associations, stored, newest, starts, faults>>
  BY DEF FailTarget
<1>2. /\ s \in Proc /\ ProcRight(s, target, n) /\ process \in [Process -> Proc] /\ n \in Nat
      /\ schedule \in Recordings /\ ledger = Range(schedule) /\ TablesRight
      /\ target = None \/ target \in Target
  BY <1>1, OneProcess
<1>3. /\ x \in Proc /\ x.pc = "failed" /\ x.fence = s.fence /\ x.ordinal = s.ordinal
      /\ x.faulted = s.faulted
  BY <1>2 DEF Proc
<1>4. process' = [process EXCEPT ![p] = x]
  BY <1>1, <1>2 DEF Go
<1> HIDE DEF x
<1>5. ProcRight(x, target, n)
  BY <1>1, <1>2, <1>3 DEF ProcRight
<1>6. CASE ~MayFail(p)
  <2>1. target' = target /\ UNCHANGED <<schedule, tables>>
    BY <1>1, <1>6 DEF tables
  <2>2. StartsRight'
    BY <1>1, <1>3, <1>4, <2>1, IssuedStays, StartsKeep
  <2> QED
    BY <1>1, <1>2, <1>3, <1>4, <1>5, <2>1, <2>2, QuietStep
<1>7. CASE MayFail(p)
  <2>1. target # None /\ target.state = "active" /\ target.fence = s.fence /\ target \in Target
    BY <1>2, <1>7 DEF MayFail, ProcRight
  <2>2. target' = [target EXCEPT !.state = "failed"]
    BY <1>1, <1>7
  <2>3. /\ target' \in Target /\ target'.state = "failed" /\ target'.fence = target.fence
        /\ target'.cursor = target.cursor
    BY <2>1, <2>2 DEF Target
  <2>4. target' # None /\ target.fence \in Nat /\ target.cursor \in Nat
    BY <2>1, <2>3, TargetAssumption DEF Target
  <2>5. ASSUME NEW q \in Process, q # p PROVE RowStep(target, target', process[q])
    <3>1. process[q].fence # target.fence
      BY <2>1, <2>5 DEF ReplayInv, OneOwner
    <3> QED
      BY <2>1, <2>3, <2>4, <3>1 DEF RowStep
  <2>6. ProcRight(x, target', n)
    BY <1>3, <1>5, <2>1, <2>3, <2>4 DEF ProcRight
  <2>7. TablesRight'
    <3>1. projection' = projection
      BY <1>1, ProjectionStays
    <3> QED
      BY <1>1, <1>2, <2>1, <2>3, <2>4, <3>1 DEF TablesRight
  <2>8. OneOwner'
    <3>1. OneOwner
      BY DEF ReplayInv
    <3> QED
      BY <1>2, <1>3, <1>4, <2>1, <2>3, <2>4, <3>1, OwnerStays
  <2>9. StartsRight'
    <3>1. Issued(target') = Issued(target) /\ Issued(target) \in Int
      BY <2>1, <2>3, <2>4 DEF Issued
    <3>2. Issued(target') \in Int /\ Issued(target') <= Issued(target)
      BY <3>1
    <3>3. starts' = starts /\ faults' = faults
      BY <1>1
    <3> QED
      BY <1>3, <1>4, <3>2, <3>3, StartsKeep
  <2> QED
    BY <1>1, <1>2, <1>3, <1>4, <2>5, <2>6, <2>7, <2>8, <2>9, TableStep
<1> QED
  BY <1>6, <1>7

\* A call of the owner that advances the target by one association.
LEMMA AdvancingStep ==
  ASSUME ReplayInv, NEW p \in Process, PersistAssociation(p), process[p].fence = target.fence,
         Advances(p)
  PROVE  ReplayInv'
<1> DEFINE s == process[p]
           n == Len(projection)
           artifact == projection[s.ordinal]
           current == artifact.transition.current
           after == NextOrdinal(p, s.fence, s.ordinal + 1)
<1>1. /\ s.pc = "persist" /\ Answered(p, after)
      /\ associations' = Append(associations, artifact)
      /\ stored' = stored \cup {current}
      /\ newest' = Superseding(newest, {current})
      /\ target' = [target EXCEPT !.cursor = @ + 1]
      /\ schedule' = schedule /\ ledger' = ledger /\ starts' = starts
  BY DEF PersistAssociation, Stored
<1>2. /\ s \in Proc /\ ProcRight(s, target, n) /\ process \in [Process -> Proc] /\ n \in Nat
      /\ schedule \in Recordings /\ ledger = Range(schedule) /\ TablesRight
      /\ Issued(target) \in Int
  BY <1>1, OneProcess
<1>3. /\ target # None /\ target \in Target /\ target.fence \in Nat \ {0}
      /\ target.cursor \in Nat /\ target.cursor = Len(associations)
      /\ associations \in Seq(Steps) /\ ContinuedBy(associations, projection)
      /\ s.fence # None /\ s.fence \in 1 .. target.fence /\ s.ordinal \in Nat
  BY <1>1, BegunProcess
<1>4. target.state = "active" /\ s.ordinal = target.cursor + 1
  BY DEF Advances
<1>5. s.ordinal \in 1 .. n
  BY <1>1, <1>2 DEF ProcRight
<1>6. /\ target' \in Target /\ target'.state = "active" /\ target'.fence = target.fence
      /\ target'.cursor = target.cursor + 1 /\ target' # None
  BY <1>1, <1>3, <1>4, TargetAssumption DEF Target
<1>7. projection' = projection
  BY <1>1, ProjectionStays
<1>8. artifact \in Steps
  BY <1>2, <1>5, ProjectionRules
<1>9. TablesRight'
  <2>1. /\ associations' \in Seq(Steps) /\ Len(associations') = target.cursor + 1
        /\ \A i \in 1 .. target.cursor : associations'[i] = associations[i]
        /\ associations'[target.cursor + 1] = artifact
    BY <1>1, <1>3, <1>8
  <2>2. ContinuedBy(associations', projection)
    BY <1>2, <1>3, <1>4, <1>5, <2>1 DEF ContinuedBy
  <2>3. stored' = Told(associations') /\ newest' = LatestOf(associations')
    BY <1>1, <1>2, <1>3, <1>8, LatestOfAppend DEF TablesRight
  <2> QED
    BY <1>6, <1>7, <2>1, <2>2, <2>3 DEF TablesRight
<1>10. ASSUME NEW q \in Process PROVE RowStep(target, target', process[q])
  BY <1>3, <1>4, <1>6 DEF RowStep
<1>11. /\ after \in Proc /\ after.fence = s.fence /\ after.ordinal = s.ordinal + 1
       /\ after.pc = IF s.ordinal + 1 <= n THEN "persist" ELSE "complete"
  BY <1>2, <1>3, NextOrdinalRules
<1> HIDE DEF after
<1>12. ProcRight(after, target', n)
  BY <1>2, <1>3, <1>4, <1>5, <1>6, <1>11 DEF ProcRight
<1>13. /\ Broken(s) \in Proc /\ Broken(s).pc = "failing" /\ Broken(s).fence = s.fence
       /\ ProcRight(Broken(s), target', n)
  BY <1>2, <1>10, OthersStayRight, BrokenRules
<1>14. PICK x \in {after, Broken(s)} : process' = [process EXCEPT ![p] = x]
  BY <1>1, <1>2, AnsweredRules
<1>15. x \in Proc /\ ProcRight(x, target', n) /\ x.pc \notin {"seed", "begin"} /\ x.fence = s.fence
  BY <1>11, <1>12, <1>13, <1>14
<1>16. OneOwner'
  <2>1. OneOwner /\ target'.fence \in Nat
    BY <1>3, <1>6 DEF ReplayInv
  <2> QED
    BY <1>2, <1>3, <1>4, <1>6, <1>14, <1>15, <2>1, OwnerStays
<1>17. StartsRight'
  <2>1. Issued(target') = Issued(target)
    BY <1>3, <1>6 DEF Issued
  <2>2. Issued(target') \in Int /\ Issued(target') <= Issued(target)
    BY <1>2, <2>1
  <2>3. faults' = faults \/ (faults < MaxFaults /\ faults' = faults + 1)
    BY <1>1, <1>2, AnsweredRules
  <2> QED
    BY <1>1, <1>14, <1>15, <2>2, <2>3, StartsKeep
<1> QED
  BY <1>1, <1>2, <1>10, <1>14, <1>15, <1>9, <1>16, <1>17, TableStep

\* An association that the target has already reached was stored with its
\* evaluation.
LEMMA VerifiedIsStored ==
  ASSUME ReplayInv, NEW p \in Process, PersistAssociation(p), process[p].fence = target.fence,
         Verified(p), ~Advances(p)
  PROVE  stored' = stored
<1> DEFINE s == process[p]
           current == projection[s.ordinal].transition.current
<1>1. s.pc = "persist" /\ stored' = stored \cup {current}
  BY DEF PersistAssociation, Stored
<1>2. /\ TablesRight /\ s.ordinal \in Nat /\ associations \in Seq(Steps)
      /\ target.cursor = Len(associations) /\ target.cursor \in Nat
  BY <1>1, OneProcess, BegunProcess
<1>3. s.ordinal <= target.cursor /\ associations[s.ordinal] = projection[s.ordinal]
  BY DEF Verified
<1>4. s.ordinal \in 1 .. Len(projection)
  BY <1>1, OneProcess DEF ProcRight
<1>5. s.ordinal \in DOMAIN associations /\ current = At(associations, s.ordinal)
  BY <1>2, <1>3, <1>4 DEF At
<1>6. current \in Told(associations)
  BY <1>5 DEF Told
<1> QED
  BY <1>1, <1>2, <1>6 DEF TablesRight

\* A call of the owner for an association that is stored already.
LEMMA VerifyingStep ==
  ASSUME ReplayInv, NEW p \in Process, PersistAssociation(p), process[p].fence = target.fence,
         Verified(p), ~Advances(p)
  PROVE  ReplayInv'
<1> DEFINE s == process[p]
           n == Len(projection)
           after == NextOrdinal(p, s.fence, s.ordinal + 1)
<1>1. /\ s.pc = "persist" /\ Answered(p, after)
      /\ target' = target /\ associations' = associations /\ newest' = newest
      /\ schedule' = schedule /\ ledger' = ledger /\ starts' = starts
  BY DEF PersistAssociation
<1>2. /\ s \in Proc /\ ProcRight(s, target, n) /\ process \in [Process -> Proc] /\ n \in Nat
      /\ schedule \in Recordings /\ ledger = Range(schedule) /\ TablesRight
      /\ Issued(target) \in Int
  BY <1>1, OneProcess
<1>3. /\ target # None /\ target \in Target /\ target.fence \in Nat \ {0}
      /\ target.cursor \in Nat /\ target.cursor = Len(associations)
      /\ associations \in Seq(Steps)
      /\ s.fence # None /\ s.fence \in 1 .. target.fence /\ s.ordinal \in Nat
      /\ target.state # "failed"
  BY <1>1, BegunProcess
<1>4. s.ordinal <= target.cursor /\ associations[s.ordinal] = projection[s.ordinal]
  BY DEF Verified
<1>5. s.ordinal \in 1 .. n
  BY <1>1, <1>2 DEF ProcRight
<1>6. stored' = stored
  BY VerifiedIsStored
<1>7. /\ after \in Proc /\ after.fence = s.fence /\ after.ordinal = s.ordinal + 1
      /\ after.pc = IF s.ordinal + 1 <= n THEN "persist" ELSE "complete"
  BY <1>2, <1>3, NextOrdinalRules
<1> HIDE DEF after
<1>8. ProcRight(after, target, n)
  BY <1>2, <1>3, <1>4, <1>5, <1>7 DEF ProcRight
<1>9. /\ Broken(s) \in Proc /\ Broken(s).pc = "failing" /\ Broken(s).fence = s.fence
      /\ ProcRight(Broken(s), target, n)
  BY <1>2, BrokenRules
<1>10. PICK x \in {after, Broken(s)} : process' = [process EXCEPT ![p] = x]
  BY <1>1, <1>2, AnsweredRules
<1>11. x \in Proc /\ ProcRight(x, target, n) /\ x.pc \notin {"seed", "begin"} /\ x.fence = s.fence
  BY <1>7, <1>8, <1>9, <1>10
<1>12. StartsRight'
  <2>1. faults' = faults \/ (faults < MaxFaults /\ faults' = faults + 1)
    BY <1>1, <1>2, AnsweredRules
  <2> QED
    BY <1>1, <1>10, <1>11, <2>1, IssuedStays, StartsKeep
<1> QED
  BY <1>1, <1>2, <1>6, <1>10, <1>11, <1>12, QuietStep DEF tables

LEMMA PersistAssociationStep ==
  ASSUME ReplayInv, NEW p \in Process, PersistAssociation(p)
  PROVE  ReplayInv'
<1>1. process[p].pc = "persist"
  BY DEF PersistAssociation
<1>2. CASE process[p].fence = target.fence /\ Advances(p)
  BY <1>2, AdvancingStep
<1>3. CASE process[p].fence = target.fence /\ Verified(p) /\ ~Advances(p)
  BY <1>3, VerifyingStep
<1>4. CASE process[p].fence = target.fence /\ ~Verified(p) /\ ~Advances(p)
  BY <1>1, <1>4, OwnerIsNotRefused
<1>5. CASE process[p].fence # target.fence
  <2>1. Go(p, "failing") /\ UNCHANGED <<schedule, ledger, tables, starts, faults>>
    BY <1>5 DEF PersistAssociation, tables
  <2> QED
    BY <1>1, <1>5, <2>1, RefusedStep
<1> QED
  BY <1>2, <1>3, <1>4, <1>5

LEMMA CompleteTargetStep ==
  ASSUME ReplayInv, NEW p \in Process, CompleteTarget(p)
  PROVE  ReplayInv'
<1> DEFINE s == process[p]
           n == Len(projection)
           done == [s EXCEPT !.pc = "done"]
<1>1. s.pc = "complete"
  BY DEF CompleteTarget
<1>2. CASE s.fence # target.fence
  <2>1. Go(p, "failing") /\ UNCHANGED <<schedule, ledger, tables, starts, faults>>
    BY <1>2 DEF CompleteTarget, tables
  <2> QED
    BY <1>1, <1>2, <2>1, RefusedStep
<1>3. CASE s.fence = target.fence
  <2>1. /\ target.state \in {"active", "completed"} /\ target.cursor = n /\ StoredAsProjected
    BY <1>1, <1>3, OwnerIsNotRefused
  <2>2. /\ target' = [target EXCEPT !.state = "completed"] /\ Answered(p, done)
        /\ schedule' = schedule /\ ledger' = ledger /\ associations' = associations
        /\ stored' = stored /\ newest' = newest /\ starts' = starts
    BY <1>3, <2>1 DEF CompleteTarget
  <2>3. /\ s \in Proc /\ ProcRight(s, target, n) /\ process \in [Process -> Proc] /\ n \in Nat
        /\ schedule \in Recordings /\ ledger = Range(schedule) /\ TablesRight
        /\ Issued(target) \in Int
    BY <1>1, OneProcess
  <2>4. /\ target # None /\ target \in Target /\ target.fence \in Nat \ {0}
        /\ target.cursor \in Nat /\ s.fence # None
    BY <1>1, BegunProcess
  <2>5. /\ target' \in Target /\ target'.state = "completed" /\ target'.fence = target.fence
        /\ target'.cursor = target.cursor /\ target' # None
    BY <2>2, <2>4, TargetAssumption DEF Target
  <2>6. projection' = projection /\ associations = projection
    BY <2>1, <2>2, ProjectionStays DEF StoredAsProjected
  <2>7. TablesRight'
    BY <2>2, <2>3, <2>4, <2>5, <2>6 DEF TablesRight
  <2>8. OneOwner'
    BY <2>5 DEF OneOwner
  <2>9. ASSUME NEW q \in Process PROVE RowStep(target, target', process[q])
    BY <2>4, <2>5 DEF RowStep
  <2>10. /\ done \in Proc /\ done.pc = "done" /\ done.fence = s.fence
         /\ done.ordinal = s.ordinal
    BY <2>3 DEF Proc
  <2> HIDE DEF done
  <2>11. ProcRight(done, target', n)
    BY <2>3, <2>4, <2>5, <2>10 DEF ProcRight
  <2>12. /\ Broken(s) \in Proc /\ Broken(s).pc = "failing"
         /\ ProcRight(Broken(s), target', n)
    BY <2>3, <2>9, OthersStayRight, BrokenRules
  <2>13. PICK x \in {done, Broken(s)} : process' = [process EXCEPT ![p] = x]
    BY <2>2, <2>3, AnsweredRules
  <2>14. x \in Proc /\ ProcRight(x, target', n) /\ x.pc \notin {"seed", "begin"}
    BY <2>10, <2>11, <2>12, <2>13
  <2>15. StartsRight'
    <3>1. Issued(target') = Issued(target)
      BY <2>4, <2>5 DEF Issued
    <3>2. Issued(target') \in Int /\ Issued(target') <= Issued(target)
      BY <2>3, <3>1
    <3>3. faults' = faults \/ (faults < MaxFaults /\ faults' = faults + 1)
      BY <2>2, <2>3, AnsweredRules
    <3> QED
      BY <2>2, <2>13, <2>14, <3>2, <3>3, StartsKeep
  <2> QED
    BY <2>2, <2>3, <2>7, <2>8, <2>9, <2>13, <2>14, <2>15, TableStep
<1> QED
  BY <1>2, <1>3

LEMMA ReplayStep ==
  ASSUME ReplayInv, [ReplayNext]_replayVars
  PROVE  ReplayInv'
<1>1. CASE UNCHANGED replayVars
  <2>1. /\ schedule' = schedule /\ ledger' = ledger /\ target' = target /\ stored' = stored
        /\ associations' = associations /\ newest' = newest /\ process' = process
        /\ starts' = starts /\ faults' = faults
    BY <1>1 DEF replayVars, tables
  <2>2. projection' = projection /\ Pending' = Pending
    BY <2>1, ProjectionStays DEF Pending
  <2>3. TablesRight' /\ ProcessesRight'
    BY <2>1, <2>2 DEF ReplayInv, TablesRight, ProcessesRight
  <2>4. OneOwner' /\ LedgerRight'
    BY <2>1 DEF ReplayInv, OneOwner, LedgerRight
  <2>5. StartsRight'
    BY <2>1, <2>2 DEF ReplayInv, StartsRight
  <2> QED
    BY <2>1, <2>3, <2>4, <2>5 DEF ReplayInv
<1>2. CASE ReplayNext
  <2>1. PICK p \in Process :
          \/ Start(p) \/ Seed(p) \/ Fault(p) \/ CrashReplay(p)
          \/ BeginTarget(p) \/ PersistAssociation(p) \/ CompleteTarget(p) \/ FailTarget(p)
    BY <1>2 DEF ReplayNext
  <2>2. CASE Start(p)
    BY <2>2, StartStep
  <2>3. CASE Seed(p)
    BY <2>3, SeedStep
  <2>4. CASE Fault(p)
    BY <2>4, FaultStep
  <2>5. CASE CrashReplay(p)
    BY <2>5, CrashReplayStep
  <2>6. CASE BeginTarget(p)
    BY <2>6, BeginTargetStep
  <2>7. CASE PersistAssociation(p)
    BY <2>7, PersistAssociationStep
  <2>8. CASE CompleteTarget(p)
    BY <2>8, CompleteTargetStep
  <2>9. CASE FailTarget(p)
    BY <2>9, FailTargetStep
  <2> QED
    BY <2>1, <2>2, <2>3, <2>4, <2>5, <2>6, <2>7, <2>8, <2>9
<1> QED
  BY <1>1, <1>2

\* The invariant of a replay holds in every reachable state, for every set of
\* verified recordings and any number of processes (sink.ts).
THEOREM ReplayInvariance == ReplaySpec => []ReplayInv
<1>1. ReplayInit => ReplayInv
  BY ReplayStart
<1>2. ReplayInv /\ [ReplayNext]_replayVars => ReplayInv'
  BY ReplayStep
<1> QED
  BY <1>1, <1>2, PTL DEF ReplaySpec

LEMMA ReplayIsTyped == ReplayInv => ReplayTypeOK
<1> SUFFICES ASSUME ReplayInv PROVE ReplayTypeOK
  OBVIOUS
<1> DEFINE n == Len(projection)
<1>1. /\ schedule \in Recordings /\ TablesRight /\ ProcessesRight /\ LedgerRight /\ StartsRight
  BY DEF ReplayInv
<1>2. n \in Nat
  BY <1>1, ProjectionRules
<1>3. newest \subseteq stored
  <2>1. ASSUME NEW e \in LatestOf(associations) PROVE e \in Told(associations)
    BY <2>1, LatestOfMember DEF Told
  <2> QED
    BY <1>1, <2>1 DEF TablesRight
<1>4. MaxStarts \in Nat /\ starts \in 0 .. MaxStarts /\ faults \in 0 .. MaxFaults
  BY <1>1, RecordingsAssumption DEF StartsRight
<1>5. target # None => target \in Target /\ target.fence \in 1 .. MaxStarts + 1
  <2>1. SUFFICES ASSUME target # None PROVE target \in Target /\ target.fence \in 1 .. MaxStarts + 1
    OBVIOUS
  <2>2. target \in Target /\ target.fence \in Nat \ {0}
    BY <1>1, <2>1 DEF TablesRight, Target
  <2>3. Cardinality(Pending) \in Nat /\ target.fence - 1 + Cardinality(Pending) <= starts
    BY <1>1, <2>1, FS_CardinalityType DEF StartsRight, Issued
  <2> QED
    BY <1>4, <2>2, <2>3
<1>6. target # None =>
        /\ target.state \in {"active", "failed", "completed"}
        /\ target.cursor = Len(associations) /\ target.cursor <= n
  BY <1>1, <1>5 DEF TablesRight, ContinuedBy, Target
<1>7. ASSUME NEW p \in Process
      PROVE  /\ process[p].pc \in {"idle", "seed", "begin", "persist", "complete",
                                   "failing", "failed", "done"}
             /\ process[p].fence \in (1 .. MaxStarts + 1) \cup {None}
             /\ process[p].ordinal \in 0 .. n + 1 /\ process[p].faulted \in BOOLEAN
  <2>1. process[p] \in Proc /\ ProcRight(process[p], target, n)
    BY <1>1 DEF ProcessesRight
  <2>2. process[p].fence # None => process[p].fence \in 1 .. MaxStarts + 1
    <3>1. process[p].fence # None => target # None /\ process[p].fence \in 1 .. target.fence
      BY <2>1 DEF ProcRight
    <3> QED
      BY <1>4, <1>5, <3>1
  <2>3. process[p].ordinal \in 0 .. (n + 1)
    BY <2>1 DEF ProcRight
  <2> QED
    BY <2>1, <2>2, <2>3 DEF Proc
<1>8. ledger \subseteq Range(schedule)
  BY <1>1 DEF LedgerRight
<1> QED
  BY <1>3, <1>4, <1>5, <1>6, <1>7, <1>8 DEF ReplayTypeOK

\* The state of a replay has its types: claims and cursors are within their
\* bounds, and the latest evaluations are stored.
THEOREM ReplayTypeCorrect == ReplaySpec => []ReplayTypeOK
BY ReplayInvariance, ReplayIsTyped, PTL

LEMMA ReplayConverges == ReplayInv => CompletedIsReference
<1> SUFFICES ASSUME ReplayInv PROVE CompletedIsReference
  OBVIOUS
<1>1. /\ schedule \in Recordings /\ TablesRight /\ ProcessesRight /\ LedgerRight
  BY DEF ReplayInv
<1>2. /\ associations \in Seq(Steps) /\ ContinuedBy(associations, projection)
      /\ stored = Told(associations) /\ newest = LatestOf(associations)
      /\ projection \in Seq(Steps)
  BY <1>1, ProjectionRules DEF TablesRight
<1>3. stored = {associations[i].transition.current : i \in DOMAIN associations}
  BY <1>2 DEF Told, At
<1>4. ASSUME NEW e \in stored PROVE EvidenceOf(e) \subseteq ledger
  <2>1. PICK i \in DOMAIN associations : e = At(associations, i)
    BY <1>2, <1>4 DEF Told
  <2>2. associations # <<>> /\ i \in 1 .. Len(associations) /\ Len(associations) \in Nat
    BY <1>2, <2>1
  <2>3. ledger = Range(schedule)
    BY <1>1, <2>2 DEF TablesRight, LedgerRight
  <2>4. i \in DOMAIN projection /\ e = At(projection, i)
    BY <1>2, <2>1, <2>2 DEF ContinuedBy, At
  <2>5. e \in Told(projection)
    BY <2>4 DEF Told
  <2> QED
    BY <1>1, <2>3, <2>5, ProjectionRules
<1>5. ASSUME NEW p \in Process, process[p].pc = "done"
      PROVE  target # None /\ target.state = "completed"
  BY <1>1, <1>5 DEF ProcessesRight, ProcRight
<1>6. ASSUME target # None, target.state = "completed"
      PROVE  newest = Reference(Range(schedule))
  <2>1. associations = projection
    BY <1>1, <1>6 DEF TablesRight
  <2> QED
    BY <1>1, <1>2, <2>1, ProjectionRules
<1> QED
  BY <1>3, <1>4, <1>5, <1>6 DEF CompletedIsReference

\* A completed replay has the evaluations that one pass over the events of the
\* recording gives, for every recording, order of its events, number of
\* processes, faults and starts (persistVerifiedSignalReplay).
THEOREM ReplayIsReference == ReplaySpec => []CompletedIsReference
BY ReplayInvariance, ReplayConverges, PTL

LEMMA CompletedRowStays ==
  ASSUME ReplayInv, [ReplayNext]_replayVars
  PROVE  CompletedStays
<1> SUFFICES ASSUME target # None, target.state = "completed" PROVE UNCHANGED tables
  BY DEF CompletedStays
<1>1. target \in Target
  BY DEF ReplayInv, TablesRight
<1>2. CASE UNCHANGED replayVars
  BY <1>2 DEF replayVars
<1>3. CASE ReplayNext
  <2>1. PICK p \in Process :
          \/ Start(p) \/ Seed(p) \/ Fault(p) \/ CrashReplay(p)
          \/ BeginTarget(p) \/ PersistAssociation(p) \/ CompleteTarget(p) \/ FailTarget(p)
    BY <1>3 DEF ReplayNext
  <2>2. CASE Start(p) \/ Seed(p) \/ Fault(p) \/ CrashReplay(p)
    BY <2>2 DEF Start, Seed, Fault, CrashReplay
  <2>3. CASE BeginTarget(p)
    <3>1. target' = target
      BY <2>3, BegunRules
    <3> QED
      BY <2>3, <3>1 DEF BeginTarget, tables
  <2>4. CASE PersistAssociation(p)
    <3>1. ~Advances(p) /\ target' = target /\ associations' = associations /\ newest' = newest
      BY <2>4 DEF PersistAssociation, Advances
    <3>2. CASE process[p].fence = target.fence /\ Verified(p)
      <4>1. stored' = stored
        BY <2>4, <3>1, <3>2, VerifiedIsStored
      <4> QED
        BY <3>1, <4>1 DEF tables
    <3>3. CASE ~(process[p].fence = target.fence /\ Verified(p))
      <4>1. stored' = stored
        BY <2>4, <3>1, <3>3 DEF PersistAssociation
      <4> QED
        BY <3>1, <4>1 DEF tables
    <3> QED
      BY <3>2, <3>3
  <2>5. CASE CompleteTarget(p)
    <3>1. target' = target
      <4>1. target' = [target EXCEPT !.state = "completed"] \/ target' = target
        BY <2>5 DEF CompleteTarget
      <4> QED
        BY <1>1, <4>1 DEF Target
    <3> QED
      BY <2>5, <3>1 DEF CompleteTarget, tables
  <2>6. CASE FailTarget(p)
    <3>1. target' = target
      BY <2>6 DEF FailTarget, MayFail
    <3> QED
      BY <2>6, <3>1 DEF FailTarget, tables
  <2> QED
    BY <2>1, <2>2, <2>3, <2>4, <2>5, <2>6
<1> QED
  BY <1>2, <1>3

LEMMA FailureIsOwn == ReplayInv => FailureIsItsOwn
<1> SUFFICES ASSUME ReplayInv, NEW p \in Process, process[p].pc = "failed", ~process[p].faulted
             PROVE  process[p].fence < target.fence
  BY DEF FailureIsItsOwn
<1>1. ProcRight(process[p], target, Len(projection))
  BY OneProcess
<1> QED
  BY <1>1 DEF ProcRight

\* A completed target never changes again, and a replay without a fault of its
\* own fails only when its claim was superseded: for every step of any number
\* of processes (beginTarget, persistAssociation, completeTarget, failTarget).
THEOREM ReplayObeysOwner == ReplaySpec => TargetsObeyTheirOwner
<1>1. ReplayInv /\ [ReplayNext]_replayVars => [CompletedStays /\ FailureIsItsOwn']_replayVars
  <2> SUFFICES ASSUME ReplayInv, [ReplayNext]_replayVars PROVE CompletedStays /\ FailureIsItsOwn'
    OBVIOUS
  <2>1. CompletedStays
    BY CompletedRowStays
  <2>2. ReplayInv'
    BY ReplayStep
  <2>3. FailureIsItsOwn'
    BY <2>2, FailureIsOwn, PTL
  <2> QED
    BY <2>1, <2>3
<1>2. ReplaySpec => []ReplayInv
  BY ReplayInvariance
<1> QED
  BY <1>1, <1>2, PTL DEF ReplaySpec, TargetsObeyTheirOwner
=============================================================================
