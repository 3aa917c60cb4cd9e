--------------------------- MODULE IngestionProofs ---------------------------
(* Proofs about the processes that ingest paper market data, for any of     *)
(* them: about MarketDelivery, what they deliver from the stream to the     *)
(* ledger, for any events, capacities, batches and retention, and about     *)
(* WriterCapability, the capability of their sessions, for any series and   *)
(* thresholds.                                                              *)
(* What is acknowledged is persisted, an event is in the ledger once, a     *)
(* pending entry that was trimmed away fails the loop, and, unless the      *)
(* reply to an executed XADD is lost, a session is closed only when         *)
(* everything it published is persisted.  The audit of a cutover stays true *)
(* until its commit because both need the series locks, a lost lease fences *)
(* its writer, and the order of the locks excludes a circle.                *)
EXTENDS MarketDelivery, WriterCapability, FiniteSetTheorems, WellFoundedInduction, TLAPS

-----------------------------------------------------------------------------
(* MarketDelivery: the inductive invariant.                                 *)

Own(s) == {id \in DOMAIN log : log[id].session = s}

(* What the main path keeps: who has not started or has ended has no        *)
(* memory, nothing is in flight once the intake is closed, a connection has *)
(* one publish in flight, and a drained process has counted down to zero.   *)
ProcessRight ==
  \A s \in Session :
    /\ proc[s].main = "new" => proc[s] = Fresh /\ Own(s) = {}
    /\ proc[s].main = "new" <=> session[s] = "none"
    /\ proc[s].main = "ended" => proc[s] = Gone
    /\ session[s] = "closed" => proc[s].main = "ended"
    /\ proc[s].main \notin {"running", "stopping"} => proc[s].inflight = {}
    /\ \A x, y \in proc[s].inflight : x.live = y.live => x = y
    /\ proc[s].drained => proc[s].count = 0 /\ proc[s].main \in {"joining", "closing"}
    /\ -2 * faults <= proc[s].count /\ proc[s].count <= QueueCapacity

(* What the loop keeps: it handles what was delivered, and what it          *)
(* acknowledges is persisted.                                               *)
LoopRight ==
  \A s \in Session :
    /\ proc[s].batch \subseteq 1..delivered
    /\ proc[s].step # "next" => proc[s].loop \in {"claimed", "fetched"} /\ proc[s].batch # {}
    /\ proc[s].step = "ack" => Linked(Current(proc[s]))

IInv == TypeOK /\ ProcessRight /\ LoopRight /\ AcknowledgedIsPersisted /\ OncePerEvent

(* The entries of a process that its own handler may still count down: not  *)
(* persisted, or persisted by another process and not yet out of its way.   *)
Acknowledging(s) == IF proc[s].step = "ack" THEN {Current(proc[s])} ELSE {}

Outstanding(s) ==
  {id \in Own(s) : ~Linked(id) \/ id \in pending \/ id > delivered \/ id \in proc[s].batch}
    \ Acknowledging(s)

Unadded(p) == {x \in p.inflight : ~x.added}

Sound(p) == p.main \notin {"new", "ended"} /\ p.loop \notin {"failed", "killed"}

Counted ==
  \A s \in Session :
    Sound(proc[s]) =>
      Cardinality(Outstanding(s)) + Cardinality(Unadded(proc[s])) <= proc[s].count

ClosedIsPersisted ==
  \A s \in Session : session[s] = "closed" => \A id \in Own(s) : Linked(id)

-----------------------------------------------------------------------------
(* Numbers.                                                                 *)

LEMMA MinOfNaturals ==
  ASSUME NEW S \in SUBSET Nat, S # {}
  PROVE  Min(S) \in S /\ \A y \in S : Min(S) <= y
<1> DEFINE R == {ss \in Nat \X Nat : ss[1] < ss[2]}
<1>1. R = OpToRel(<, Nat)
  BY DEF OpToRel
<1>2. IsWellFoundedOn(R, Nat)
  BY <1>1, NatLessThanWellFounded
<1>3. \A y, z \in Nat : y < z => <<y, z>> \in R
  OBVIOUS
<1> HIDE DEF R
<1>4. PICK x \in S : \A y \in S : ~(<<y, x>> \in R)
  BY <1>2, WFMin
<1>5. \A y \in S : x <= y
  <2>1. SUFFICES ASSUME NEW y \in S, y < x PROVE FALSE
    OBVIOUS
  <2> QED
    BY <2>1, <1>3, <1>4
<1> QED
  BY <1>5 DEF Min

LEMMA MaxOfBounded ==
  ASSUME NEW n \in Nat, NEW S \in SUBSET (0..n), S # {}
  PROVE  Max(S) \in S /\ \A y \in S : y <= Max(S)
<1> DEFINE T == {n - y : y \in S}
<1>1. T \in SUBSET Nat
  <2>1. \A y \in S : n - y \in Nat
    OBVIOUS
  <2> QED
    BY <2>1
<1>2. T # {}
  <2>1. PICK y \in S : TRUE
    OBVIOUS
  <2>2. n - y \in T
    OBVIOUS
  <2> QED
    BY <2>2
<1>3. Min(T) \in T /\ \A t \in T : Min(T) <= t
  BY <1>1, <1>2, MinOfNaturals
<1>4. PICK x \in S : Min(T) = n - x
  BY <1>3
<1>5. ASSUME NEW y \in S PROVE y <= x
  <2>1. n - y \in T
    OBVIOUS
  <2>2. n - x <= n - y
    BY <2>1, <1>3, <1>4
  <2> QED
    BY <2>2
<1> QED
  BY <1>4, <1>5 DEF Max

\* At most two publishes are in flight: one of the present connection, one of
\* an earlier one.
LEMMA AtMostTwo ==
  ASSUME NEW S \in SUBSET Publish, \A x, y \in S : x.live = y.live => x = y
  PROVE  IsFiniteSet(S) /\ Cardinality(S) \in 0..2
<1> DEFINE a == CHOOSE x \in S : x.live
           b == CHOOSE x \in S : ~x.live
<1>1. \A x \in S : x.live => x = a
  OBVIOUS
<1>2. \A x \in S : ~x.live => x = b
  BY DEF Publish
<1> HIDE DEF a, b
<1>3. IsFiniteSet({a}) /\ Cardinality({a}) = 1
  BY FS_Singleton
<1>4. IsFiniteSet({a} \cup {b}) /\ Cardinality({a} \cup {b}) \in 1..2
  BY <1>3, FS_AddElement
<1>5. S \in SUBSET ({a} \cup {b})
  BY <1>1, <1>2 DEF Publish
<1>6. IsFiniteSet(S) /\ Cardinality(S) <= Cardinality({a} \cup {b})
  BY <1>4, <1>5, FS_Subset
<1>7. Cardinality(S) \in Nat
  BY <1>6, FS_CardinalityType
<1> QED
  BY <1>4, <1>6, <1>7

\* A batch is a beginning of what there is to read.
LEMMA FirstBatchIsFirst ==
  ASSUME NEW n \in Nat, NEW ids \in SUBSET (1..n)
  PROVE  /\ FirstBatch(ids) \in SUBSET ids
         /\ \A i \in FirstBatch(ids), j \in ids : j < i => j \in FirstBatch(ids)
<1>1. FirstBatch(ids) \in SUBSET ids
  BY DEF FirstBatch
<1>2. ASSUME NEW i \in FirstBatch(ids), NEW j \in ids, j < i
      PROVE  j \in FirstBatch(ids)
  <2> DEFINE I == {k \in ids : k < i}
             J == {k \in ids : k < j}
  <2>1. IsFiniteSet(1..n)
    BY FS_Interval
  <2>2. IsFiniteSet(I) /\ IsFiniteSet(J)
    <3>1. I \in SUBSET (1..n) /\ J \in SUBSET (1..n)
      OBVIOUS
    <3> HIDE DEF I, J
    <3> QED
      BY <2>1, <3>1, FS_Subset
  <2>3. J \in SUBSET I
    <3>0. i \in ids /\ \A k \in ids : k \in Nat
      BY <1>1, <1>2
    <3>1. i \in Nat /\ j \in Nat /\ \A k \in ids : k \in Nat
      BY <3>0
    <3>2. \A k \in ids : k < j => k < i
      BY <3>1, <1>2
    <3> QED
      BY <3>2
  <2> HIDE DEF I, J
  <2>4. Cardinality(J) <= Cardinality(I) /\ Cardinality(I) \in Nat /\ Cardinality(J) \in Nat
    BY <2>2, <2>3, FS_Subset, FS_CardinalityType
  <2>5. Cardinality(I) < BatchSize
    BY DEF FirstBatch, I
  <2>6. Cardinality(J) < BatchSize
    BY <2>4, <2>5, BoundsAssumption
  <2> QED
    BY <2>6 DEF FirstBatch, J
<1> QED
  BY <1>1, <1>2

-----------------------------------------------------------------------------
(* Steps of one process.                                                    *)

(* What the others rely on only grows: the stream by entries of s.          *)
Grows(s) ==
  /\ log' \in Seq(Entry) /\ Len(log) <= Len(log')
  /\ \A id \in DOMAIN log : log'[id] = log[id]
  /\ \A t \in Session : t # s => Own(t)' = Own(t)
  /\ links \subseteq links' /\ delivered' \in Nat /\ delivered <= delivered'
  /\ faults' \in 0..MaxFaults /\ faults <= faults'
  /\ session' \in [Session -> {"none", "open", "closed"}]
  /\ \A t \in Session : t # s => session'[t] = session[t]

(* The process s has opened its session and is q now.                       *)
Becomes(s, q) ==
  /\ proc' = [proc EXCEPT ![s] = q] /\ q \in Proc
  /\ q.main # "new" /\ session'[s] # "none"
  /\ q.main = "ended" => q = Gone
  /\ session'[s] = "closed" => q.main = "ended"
  /\ q.main \notin {"running", "stopping"} => q.inflight = {}
  /\ \A x, y \in q.inflight : x.live = y.live => x = y
  /\ q.drained => q.count = 0 /\ q.main \in {"joining", "closing"}
  /\ -2 * faults' <= q.count /\ q.count <= QueueCapacity
  /\ q.batch \subseteq 1..delivered'
  /\ q.step # "next" => q.loop \in {"claimed", "fetched"} /\ q.batch # {}
  /\ q.step = "ack" => <<log'[Current(q)].session, log'[Current(q)].event>> \in links'

\* The entry at the head of a batch is one of the batch, and of the stream.
LEMMA CurrentIsDelivered ==
  ASSUME TypeOK, NEW p, p.batch \subseteq 1..delivered, p.batch # {}
  PROVE  /\ Current(p) \in p.batch /\ Current(p) \in 1..delivered /\ Current(p) \in DOMAIN log
         /\ log[Current(p)] \in Entry
<1>1. p.batch \in SUBSET Nat
  BY DEF TypeOK
<1>2. Current(p) \in p.batch
  BY <1>1, MinOfNaturals DEF Current
<1>3. delivered \in 0..Len(log) /\ log \in Seq(Entry)
  BY DEF TypeOK
<1> QED
  BY <1>2, <1>3

\* Then every process is as it should be.
LEMMA OthersStayRight ==
  ASSUME IInv, NEW s \in Session, NEW q, Becomes(s, q), Grows(s)
  PROVE  /\ ProcessRight' /\ LoopRight' /\ proc' \in [Session -> Proc]
         /\ proc'[s] = q /\ \A t \in Session : t # s => proc'[t] = proc[t]
<1>1. proc \in [Session -> Proc]
  BY DEF IInv, TypeOK
<1>2. proc'[s] = q /\ \A t \in Session : t # s => proc'[t] = proc[t]
  BY <1>1 DEF Becomes
<1>3. proc' \in [Session -> Proc]
  BY <1>1 DEF Becomes
<1>4. ProcessRight'
  <2>1. SUFFICES ASSUME NEW t \in Session
        PROVE  /\ proc'[t].main = "new" => proc'[t] = Fresh /\ Own(t)' = {}
               /\ proc'[t].main = "new" <=> session'[t] = "none"
               /\ proc'[t].main = "ended" => proc'[t] = Gone
               /\ session'[t] = "closed" => proc'[t].main = "ended"
               /\ proc'[t].main \notin {"running", "stopping"} => proc'[t].inflight = {}
               /\ \A x, y \in proc'[t].inflight : x.live = y.live => x = y
               /\ proc'[t].drained => proc'[t].count = 0 /\ proc'[t].main \in {"joining", "closing"}
               /\ -2 * faults' <= proc'[t].count /\ proc'[t].count <= QueueCapacity
    BY DEF ProcessRight
  <2>2. CASE t = s
    BY <2>2, <1>2 DEF Becomes
  <2>3. CASE t # s
    <3>1. proc'[t] = proc[t] /\ session'[t] = session[t] /\ Own(t)' = Own(t)
      BY <2>3, <1>2 DEF Grows
    <3>2. proc[t].count \in Int /\ faults \in Nat /\ faults' \in Nat /\ faults <= faults'
      BY <1>1, BoundsAssumption DEF IInv, TypeOK, Grows, Proc
    <3>3. -2 * faults' <= proc'[t].count
      BY <3>1, <3>2 DEF IInv, ProcessRight
    <3> QED
      BY <3>1, <3>3 DEF IInv, ProcessRight
  <2> QED
    BY <2>2, <2>3
<1>5. LoopRight'
  <2>1. SUFFICES ASSUME NEW t \in Session
        PROVE  /\ proc'[t].batch \subseteq 1..delivered'
               /\ proc'[t].step # "next" =>
                    proc'[t].loop \in {"claimed", "fetched"} /\ proc'[t].batch # {}
               /\ proc'[t].step = "ack" =>
                    <<log'[Current(proc'[t])].session, log'[Current(proc'[t])].event>> \in links'
    BY DEF LoopRight, Linked
  <2>2. CASE t = s
    BY <2>2, <1>2 DEF Becomes
  <2>3. CASE t # s
    <3>1. proc'[t] = proc[t]
      BY <2>3, <1>2
    <3>2. proc[t].batch \subseteq 1..delivered /\ 1..delivered \subseteq 1..delivered'
      BY DEF IInv, LoopRight, Grows, TypeOK
    <3>3. ASSUME proc[t].step = "ack"
          PROVE  <<log'[Current(proc[t])].session, log'[Current(proc[t])].event>> \in links'
      <4>1. proc[t].batch # {} /\ Linked(Current(proc[t]))
        BY <3>3 DEF IInv, LoopRight
      <4>2. Current(proc[t]) \in DOMAIN log
        BY <4>1, <3>2, CurrentIsDelivered DEF IInv
      <4> QED
        BY <4>1, <4>2 DEF Linked, Grows
    <3> QED
      BY <3>1, <3>2, <3>3 DEF IInv, LoopRight
  <2> QED
    BY <2>2, <2>3
<1> QED
  BY <1>2, <1>3, <1>4, <1>5

\* A step of a process that leaves the stream and the events alone.
LEMMA QuietStep ==
  ASSUME IInv, NEW s \in Session, NEW q, Becomes(s, q),
         UNCHANGED <<stream, ledger, links>>,
         faults' \in 0..MaxFaults, faults <= faults',
         session' \in [Session -> {"none", "open", "closed"}],
         \A t \in Session : t # s => session'[t] = session[t]
  PROVE  IInv' /\ Grows(s)
<1>1. \A t \in Session : Own(t)' = Own(t)
  BY DEF Own, stream
<1>2. delivered \in Nat /\ delivered' = delivered
  BY DEF IInv, TypeOK, stream
<1>3. log' = log /\ log \in Seq(Entry) /\ Len(log) \in Nat
  BY DEF IInv, TypeOK, stream
<1>4. Grows(s)
  BY <1>1, <1>2, <1>3 DEF Grows
<1>5. TypeOK'
  BY <1>4, OthersStayRight DEF IInv, TypeOK, stream
<1>6. AcknowledgedIsPersisted' /\ OncePerEvent'
  BY DEF IInv, AcknowledgedIsPersisted, OncePerEvent, Linked, stream
<1> QED
  BY <1>4, <1>5, <1>6, OthersStayRight DEF IInv

-----------------------------------------------------------------------------
(* The memory of a process.                                                 *)

LEMMA ProcFields ==
  ASSUME IInv, NEW s \in Session
  PROVE  /\ proc[s] \in Proc /\ proc[s].main \in Mains /\ proc[s].loop \in Loops
         /\ proc[s].step \in {"next", "persist", "ack"} /\ proc[s].batch \in SUBSET Nat
         /\ proc[s].count \in Int /\ proc[s].count >= -2 * MaxFaults
         /\ proc[s].inflight \in SUBSET Publish /\ proc[s].drained \in BOOLEAN
         /\ faults \in Nat /\ faults <= MaxFaults /\ MaxFaults \in Nat /\ QueueCapacity \in Nat \ {0}
         /\ delivered \in Nat
<1>1. proc[s] \in Proc
  BY DEF IInv, TypeOK
<1>2. faults \in 0..MaxFaults /\ delivered \in 0..Len(log) /\ Len(log) \in Nat
  BY DEF IInv, TypeOK
<1> QED
  BY <1>1, <1>2, BoundsAssumption DEF Proc

\* A fresh memory, and that of a process that has ended.
LEMMA GoneFields ==
  /\ Gone \in Proc /\ Gone.main = "ended" /\ Gone.loop = "off" /\ Gone.step = "next"
  /\ Gone.batch = {} /\ Gone.count = 0 /\ Gone.inflight = {} /\ Gone.drained = FALSE
  /\ Fresh \in Proc /\ Fresh.main = "new" /\ Fresh.loop = "off" /\ Fresh.step = "next"
  /\ Fresh.batch = {} /\ Fresh.count = 0 /\ Fresh.inflight = {} /\ Fresh.drained = FALSE
<1>1. 0 \in (-2 * MaxFaults)..QueueCapacity
  BY BoundsAssumption
<1> QED
  BY <1>1 DEF Gone, Fresh, Proc, Mains, Loops

\* Stopping the provider changes the main path only.
LEMMA StoppedFields ==
  ASSUME NEW p \in Proc
  PROVE  LET q == Stopped(p)
         IN /\ q \in Proc
            /\ q.main = IF p.main = "running" THEN "stopping" ELSE p.main
            /\ q.loop = p.loop /\ q.step = p.step /\ q.batch = p.batch
            /\ q.count = p.count /\ q.inflight = p.inflight /\ q.drained = p.drained
BY DEF Stopped, Proc, Mains

\* A failing loop forgets its batch and stops the provider.
LEMMA LoopFailedFields ==
  ASSUME NEW p \in Proc
  PROVE  LET q == LoopFailed(p)
         IN /\ q \in Proc
            /\ q.main = IF p.main = "running" THEN "stopping" ELSE p.main
            /\ q.loop = "failed" /\ q.step = "next" /\ q.batch = {}
            /\ q.count = p.count /\ q.inflight = p.inflight /\ q.drained = p.drained
<1> DEFINE r == Stopped(p)
<1>1. r \in Proc
  BY StoppedFields
<1>2. LoopFailed(p) = [r EXCEPT !.loop = "failed", !.batch = {}, !.step = "next"]
  BY DEF LoopFailed
<1> HIDE DEF r
<1>3. LoopFailed(p) \in Proc
  BY <1>1, <1>2 DEF Proc, Loops
<1>4. /\ LoopFailed(p).loop = "failed" /\ LoopFailed(p).step = "next" /\ LoopFailed(p).batch = {}
      /\ LoopFailed(p).main = r.main /\ LoopFailed(p).count = r.count
      /\ LoopFailed(p).inflight = r.inflight /\ LoopFailed(p).drained = r.drained
  BY <1>1, <1>2 DEF Proc
<1> QED
  BY <1>3, <1>4, StoppedFields DEF r

\* A process that fails its loop, or ends, is as it should be.
LEMMA FailingIsRight ==
  ASSUME IInv, NEW s \in Session, proc[s].main \notin {"new", "ended"},
         proc' = [proc EXCEPT ![s] = LoopFailed(proc[s])],
         session'[s] = session[s], faults' \in 0..MaxFaults, faults <= faults',
         delivered' \in Nat
  PROVE  Becomes(s, LoopFailed(proc[s])) /\ LoopFailed(proc[s]).loop = "failed"
<1> DEFINE p == proc[s]
           q == LoopFailed(p)
<1>1. /\ q \in Proc /\ q.main = IF p.main = "running" THEN "stopping" ELSE p.main
      /\ q.loop = "failed" /\ q.step = "next" /\ q.batch = {}
      /\ q.count = p.count /\ q.inflight = p.inflight /\ q.drained = p.drained
  BY ProcFields, LoopFailedFields
<1>2. /\ proc[s].main = "new" <=> session[s] = "none"
      /\ session[s] = "closed" => p.main = "ended"
      /\ p.main \notin {"running", "stopping"} => p.inflight = {}
      /\ \A x, y \in p.inflight : x.live = y.live => x = y
      /\ p.drained => p.count = 0 /\ p.main \in {"joining", "closing"}
      /\ -2 * faults <= p.count /\ p.count <= QueueCapacity
  BY DEF IInv, ProcessRight
<1>3. -2 * faults' <= p.count
  BY <1>2, ProcFields
<1> HIDE DEF q
<1>4. Becomes(s, q)
  BY <1>1, <1>2, <1>3 DEF Becomes, q
<1> QED
  BY <1>1, <1>4 DEF q

LEMMA EndingIsRight ==
  ASSUME IInv, NEW s \in Session,
         proc' = [proc EXCEPT ![s] = Gone], session'[s] # "none",
         faults' \in 0..MaxFaults, faults <= faults', delivered' \in Nat
  PROVE  Becomes(s, Gone)
<1>1. faults' \in Nat /\ QueueCapacity \in Nat
  BY BoundsAssumption
<1>2. ASSUME NEW n \in Nat PROVE -2 * n <= 0
  OBVIOUS
<1>3. -2 * faults' <= 0
  BY <1>1, <1>2
<1>4. 0 <= QueueCapacity
  BY <1>1
<1> QED
  BY <1>3, <1>4, GoneFields DEF Becomes

-----------------------------------------------------------------------------
(* The main path.                                                           *)

(* What a step of s that leaves the stream alone does to its count: it does *)
(* not fall by more than the publishes that were not executed.              *)
CountKept(s) ==
  Sound(proc'[s]) =>
    /\ Sound(proc[s])
    /\ proc'[s].batch \subseteq proc[s].batch /\ Acknowledging(s)' = Acknowledging(s)
    /\ proc[s].count - Cardinality(Unadded(proc[s]))
         <= proc'[s].count - Cardinality(Unadded(proc'[s]))

LEMMA InFlight ==
  ASSUME IInv, NEW s \in Session
  PROVE  /\ proc[s].inflight \in SUBSET Publish
         /\ IsFiniteSet(proc[s].inflight) /\ Cardinality(proc[s].inflight) \in 0..2
         /\ IsFiniteSet(Unadded(proc[s])) /\ Cardinality(Unadded(proc[s])) \in 0..2
<1>1. proc[s].inflight \in SUBSET Publish
  BY ProcFields
<1>2. \A x, y \in proc[s].inflight : x.live = y.live => x = y
  BY DEF IInv, ProcessRight
<1>3. Unadded(proc[s]) \in SUBSET Publish /\ \A x, y \in Unadded(proc[s]) : x.live = y.live => x = y
  BY <1>1, <1>2 DEF Unadded
<1> QED
  BY <1>1, <1>2, <1>3, AtMostTwo

LEMMA OpenStep ==
  ASSUME IInv, NEW s \in Session, Open(s)
  PROVE  IInv'
<1> DEFINE p == proc[s]
           q == [p EXCEPT !.main = "running", !.loop = "claim"]
<1>1. /\ p = Fresh /\ proc' = [proc EXCEPT ![s] = q]
      /\ session' = [session EXCEPT ![s] = "open"] /\ faults' = faults
      /\ UNCHANGED <<stream, ledger, links>>
  BY DEF Open, IInv, ProcessRight
<1>2. session \in [Session -> {"none", "open", "closed"}]
  BY DEF IInv, TypeOK
<1>3. /\ q \in Proc /\ q.main = "running" /\ q.loop = "claim" /\ q.step = "next"
      /\ q.batch = {} /\ q.count = 0 /\ q.inflight = {} /\ q.drained = FALSE
  BY <1>1, GoneFields DEF Proc, Mains, Loops
<1>4. -2 * faults' <= 0 /\ 0 <= QueueCapacity
  BY <1>1, ProcFields
<1> HIDE DEF q
<1>5. Becomes(s, q)
  BY <1>1, <1>2, <1>3, <1>4 DEF Becomes
<1>6. faults' \in 0..MaxFaults /\ faults <= faults'
  BY <1>1, ProcFields
<1> QED
  BY <1>1, <1>2, <1>5, <1>6, QuietStep

LEMMA FaultCounted ==
  ASSUME IInv, Fault
  PROVE  faults' \in 0..MaxFaults /\ faults' = faults + 1 /\ faults <= faults' /\ faults \in Nat
BY BoundsAssumption DEF Fault, IInv, TypeOK

\* A process ends: interrupted at its start, at the close, or in a crash.
LEMMA EndStep ==
  ASSUME IInv, NEW s \in Session,
         proc' = [proc EXCEPT ![s] = Gone], UNCHANGED <<stream, ledger, links>>,
         faults' \in 0..MaxFaults, faults <= faults',
         session' \in [Session -> {"none", "open", "closed"}], session'[s] # "none",
         \A t \in Session : t # s => session'[t] = session[t]
  PROVE  IInv' /\ CountKept(s)
<1>1. delivered' \in Nat
  BY ProcFields DEF stream
<1>2. Becomes(s, Gone)
  BY <1>1, EndingIsRight
<1>3. IInv' /\ Grows(s)
  BY <1>2, QuietStep
<1>4. proc'[s] = Gone
  BY <1>2, <1>3, OthersStayRight
<1> QED
  BY <1>3, <1>4, GoneFields DEF CountKept, Sound

LEMMA OpenInterruptedStep ==
  ASSUME IInv, NEW s \in Session, OpenInterrupted(s)
  PROVE  IInv' /\ CountKept(s)
BY FaultCounted, EndStep DEF OpenInterrupted, IInv, TypeOK

LEMMA CloseSessionStep ==
  ASSUME IInv, NEW s \in Session, CloseSession(s)
  PROVE  IInv' /\ CountKept(s)
<1>1. session[s] # "none" /\ session \in [Session -> {"none", "open", "closed"}]
  BY DEF CloseSession, IInv, ProcessRight, TypeOK
<1>2. faults' \in 0..MaxFaults /\ faults <= faults'
  BY FaultCounted, ProcFields DEF CloseSession
<1>3. /\ session' \in [Session -> {"none", "open", "closed"}] /\ session'[s] # "none"
      /\ \A t \in Session : t # s => session'[t] = session[t]
  BY <1>1 DEF CloseSession
<1> QED
  BY <1>2, <1>3, EndStep DEF CloseSession

LEMMA CrashStep ==
  ASSUME IInv, NEW s \in Session, Crash(s)
  PROVE  IInv' /\ CountKept(s)
<1>1. session[s] # "none" /\ session \in [Session -> {"none", "open", "closed"}]
  BY DEF Crash, IInv, ProcessRight, TypeOK
<1> QED
  BY <1>1, FaultCounted, EndStep DEF Crash, database

(* A step in the memory of a process that runs: it is q now.                *)
Keeps(s, q) ==
  /\ proc' = [proc EXCEPT ![s] = q] /\ q \in Proc
  /\ UNCHANGED <<stream, database>> /\ faults' \in 0..MaxFaults /\ faults <= faults'
  /\ proc[s].main \notin {"new", "ended"} /\ q.main \notin {"new", "ended"}
  /\ q.main \notin {"running", "stopping"} => q.inflight = {}
  /\ \A x, y \in q.inflight : x.live = y.live => x = y
  /\ q.drained => q.count = 0 /\ q.main \in {"joining", "closing"}
  /\ -2 * faults' <= q.count /\ q.count <= QueueCapacity
  /\ q.batch \subseteq proc[s].batch
  /\ q.step # "next" => q.loop \in {"claimed", "fetched"} /\ q.batch # {}
  /\ q.step = "ack" => proc[s].step = "ack" /\ q.batch = proc[s].batch

LEMMA MemoryStep ==
  ASSUME IInv, NEW s \in Session, NEW q, Keeps(s, q)
  PROVE  IInv' /\ proc'[s] = q
<1>1. UNCHANGED <<stream, ledger, links>> /\ session' = session
  BY DEF database, Keeps
<1>2. session \in [Session -> {"none", "open", "closed"}] /\ session[s] = "open"
  BY DEF IInv, TypeOK, ProcessRight, Keeps
<1>3. proc[s].batch \subseteq 1..delivered /\ delivered' = delivered /\ log' = log
  BY DEF IInv, LoopRight, stream, Keeps
<1>4. ASSUME q.step = "ack" PROVE <<log'[Current(q)].session, log'[Current(q)].event>> \in links'
  <2>1. Current(q) = Current(proc[s]) /\ Linked(Current(proc[s]))
    BY <1>4 DEF Current, IInv, LoopRight, Keeps
  <2> QED
    BY <2>1, <1>1, <1>3 DEF Linked
<1>5. Becomes(s, q)
  BY <1>1, <1>2, <1>3, <1>4 DEF Becomes, Keeps
<1>6. IInv' /\ Grows(s)
  BY <1>1, <1>2, <1>5, QuietStep DEF Keeps
<1> QED
  BY <1>5, <1>6, OthersStayRight

LEMMA NoFault ==
  ASSUME IInv, UNCHANGED <<stream, database, faults>>
  PROVE  UNCHANGED <<stream, database>> /\ faults' \in 0..MaxFaults /\ faults <= faults' /\ faults' = faults
BY ProcFields DEF IInv, TypeOK

\* What the invariant says of a process that runs.
LEMMA RunningRules ==
  ASSUME IInv, NEW s \in Session
  PROVE  /\ proc[s].main \notin {"running", "stopping"} => proc[s].inflight = {}
         /\ \A x, y \in proc[s].inflight : x.live = y.live => x = y
         /\ proc[s].drained => proc[s].count = 0 /\ proc[s].main \in {"joining", "closing"}
         /\ -2 * faults <= proc[s].count /\ proc[s].count <= QueueCapacity
         /\ -2 * MaxFaults <= proc[s].count
         /\ proc[s].batch \subseteq 1..delivered
         /\ proc[s].step # "next" => proc[s].loop \in {"claimed", "fetched"} /\ proc[s].batch # {}
         /\ proc[s].step = "ack" => Linked(Current(proc[s]))
         /\ proc[s].main = "new" => proc[s] = Fresh
         /\ proc[s].main = "ended" => proc[s] = Gone
         /\ faults \in 0..MaxFaults /\ faults <= faults
BY ProcFields DEF IInv, ProcessRight, LoopRight

\* What a step does to the count of a process, from its memory before and after.
LEMMA CountKeptBy ==
  ASSUME NEW s \in Session, NEW q, proc'[s] = q,
         Sound(q) =>
           /\ Sound(proc[s]) /\ q.batch \subseteq proc[s].batch
           /\ q.step = "ack" <=> proc[s].step = "ack"
           /\ q.step = "ack" => q.batch = proc[s].batch
           /\ proc[s].count - Cardinality(Unadded(proc[s])) <= q.count - Cardinality(Unadded(q))
  PROVE  CountKept(s)
<1>1. SUFFICES ASSUME Sound(q) PROVE
        /\ Sound(proc[s])
        /\ q.batch \subseteq proc[s].batch /\ Acknowledging(s)' = Acknowledging(s)
        /\ proc[s].count - Cardinality(Unadded(proc[s])) <= q.count - Cardinality(Unadded(q))
  BY DEF CountKept
<1>2. CASE q.step = "ack"
  <2>1. Current(q) = Current(proc[s])
    BY <1>1, <1>2 DEF Current
  <2>2. Acknowledging(s)' = {Current(q)} /\ Acknowledging(s) = {Current(proc[s])}
    BY <1>1, <1>2 DEF Acknowledging
  <2> QED
    BY <1>1, <2>1, <2>2
<1>3. CASE q.step # "ack"
  BY <1>1, <1>3 DEF Acknowledging
<1> QED
  BY <1>2, <1>3

LEMMA StopStep ==
  ASSUME IInv, NEW s \in Session, proc[s].main = "running",
         proc' = [proc EXCEPT ![s] = Stopped(proc[s])], UNCHANGED <<stream, database, faults>>
  PROVE  IInv' /\ CountKept(s)
<1> DEFINE p == proc[s]
           q == Stopped(p)
<1>1. /\ q \in Proc /\ q.main = "stopping" /\ q.loop = p.loop /\ q.step = p.step
      /\ q.batch = p.batch /\ q.count = p.count /\ q.inflight = p.inflight /\ q.drained = p.drained
  BY ProcFields, StoppedFields
<1>2. proc' = [proc EXCEPT ![s] = q]
  OBVIOUS
<1> HIDE DEF q
<1>0. p.main \notin {"new", "ended"} /\ ~q.drained /\ q.main \notin {"new", "ended"}
  BY <1>1, RunningRules
<1>3. IInv' /\ proc'[s] = q
  <2>1. Keeps(s, q)
    BY <1>0, <1>1, <1>2, NoFault, RunningRules DEF Keeps
  <2> QED
    BY <2>1, MemoryStep
<1>4. Unadded(q) = Unadded(p) /\ (Sound(q) => Sound(p))
  BY <1>1 DEF Unadded, Sound
<1>5. p.count - Cardinality(Unadded(p)) <= q.count - Cardinality(Unadded(q))
  BY <1>1, <1>4, InFlight, ProcFields
<1> QED
  BY <1>1, <1>3, <1>4, <1>5, CountKeptBy

LEMMA RequestStopStep ==
  ASSUME IInv, NEW s \in Session, RequestStop(s)
  PROVE  IInv' /\ CountKept(s)
BY StopStep DEF RequestStop

LEMMA StartPublishStep ==
  ASSUME IInv, NEW s \in Session, NEW e \in Event, StartPublish(s, e)
  PROVE  IInv' /\ CountKept(s)
<1> DEFINE p == proc[s]
           x == [event |-> e, added |-> FALSE, live |-> TRUE]
           q == [p EXCEPT !.count = @ + 1, !.inflight = @ \cup {x}]
<1>1. proc \in [Session -> Proc] /\ p.main = "running" /\ UNCHANGED <<stream, database, faults>>
  BY DEF StartPublish, IInv, TypeOK
<1>2. CASE ~HasRoom(p) /\ proc' = [proc EXCEPT ![s] = Stopped(p)]
  BY <1>1, <1>2, StopStep
<1>3. CASE HasRoom(p) /\ proc' = [proc EXCEPT ![s].count = @ + 1, ![s].inflight = @ \cup {x}]
  <2>1. proc' = [proc EXCEPT ![s] = q]
    BY <1>1, <1>3
  <2>2. x \in Publish /\ \A y \in p.inflight : ~y.live
    BY DEF Publish, StartPublish
  <2>3. p \in Proc /\ p.count + 1 \in -2 * MaxFaults..QueueCapacity
    BY <1>3, ProcFields DEF HasRoom
  <2>4. /\ q \in Proc /\ q.main = "running" /\ q.loop = p.loop
        /\ q.step = p.step /\ q.batch = p.batch /\ q.count = p.count + 1
        /\ q.inflight = p.inflight \cup {x} /\ q.drained = p.drained
    BY <1>1, <2>2, <2>3 DEF Proc
  <2>5. \A y, z \in q.inflight : y.live = z.live => y = z
    <3>1. \A y, z \in p.inflight : y.live = z.live => y = z
      BY RunningRules
    <3>2. x.live = TRUE
      OBVIOUS
    <3> HIDE DEF x
    <3> QED
      BY <2>2, <2>4, <3>1, <3>2
  <2> HIDE DEF q, x
  <2>6. q.main \notin {"new", "ended"} /\ q.drained = FALSE /\ q.count <= QueueCapacity
        /\ -2 * faults' <= q.count /\ faults' \in 0..MaxFaults /\ faults <= faults'
    BY <1>1, <1>3, <2>3, <2>4, RunningRules, ProcFields DEF HasRoom
  <2>7. IInv' /\ proc'[s] = q
    <3>1. Keeps(s, q)
      BY <1>1, <2>1, <2>4, <2>5, <2>6, NoFault, RunningRules DEF Keeps
    <3> QED
      BY <3>1, MemoryStep
  <2>8. Unadded(q) \subseteq Unadded(p) \cup {x}
    BY <2>4 DEF Unadded
  <2>9. Cardinality(Unadded(q)) <= Cardinality(Unadded(p)) + 1
        /\ Cardinality(Unadded(q)) \in Nat /\ Cardinality(Unadded(p)) \in Nat
    <3>1. IsFiniteSet(Unadded(p)) /\ Cardinality(Unadded(p)) \in Nat
      BY InFlight
    <3>2. IsFiniteSet(Unadded(p) \cup {x})
          /\ Cardinality(Unadded(p) \cup {x}) \in {Cardinality(Unadded(p)), Cardinality(Unadded(p)) + 1}
      BY <3>1, FS_AddElement
    <3>3. IsFiniteSet(Unadded(q)) /\ Cardinality(Unadded(q)) <= Cardinality(Unadded(p) \cup {x})
      BY <2>8, <3>2, FS_Subset
    <3>4. Cardinality(Unadded(q)) \in Nat
      BY <3>3, FS_CardinalityType
    <3> QED
      BY <3>1, <3>2, <3>3, <3>4
  <2>10. Sound(q) => Sound(p)
    BY <1>1, <2>4 DEF Sound
  <2>11. p.count - Cardinality(Unadded(p)) <= q.count - Cardinality(Unadded(q))
    BY <2>4, <2>9, ProcFields
  <2> QED
    BY <2>4, <2>7, <2>10, <2>11, CountKeptBy
<1> QED
  BY <1>2, <1>3 DEF StartPublish

\* A reply that has been seen: the publish leaves the process.
LEMMA PublishConfirmedStep ==
  ASSUME IInv, NEW s \in Session, NEW x, PublishConfirmed(s, x)
  PROVE  IInv' /\ CountKept(s)
<1> DEFINE p == proc[s]
           q == [p EXCEPT !.inflight = @ \ {x}]
<1>1. proc \in [Session -> Proc] /\ UNCHANGED <<stream, database, faults>> /\ x \in p.inflight /\ x.added
  BY DEF PublishConfirmed, IInv, TypeOK
<1>2. proc' = [proc EXCEPT ![s] = q]
  BY <1>1 DEF PublishConfirmed
<1>3. /\ q \in Proc /\ q.main = p.main /\ q.loop = p.loop /\ q.step = p.step
      /\ q.batch = p.batch /\ q.count = p.count /\ q.inflight = p.inflight \ {x} /\ q.drained = p.drained
  BY ProcFields DEF Proc
<1> HIDE DEF q
<1>4. p.main \notin {"new", "ended"}
  BY <1>1, RunningRules
<1>5. IInv' /\ proc'[s] = q
  <2>1. Keeps(s, q)
    BY <1>1, <1>2, <1>3, <1>4, NoFault, RunningRules DEF Keeps
  <2> QED
    BY <2>1, MemoryStep
<1>6. Unadded(q) = Unadded(p) /\ (Sound(q) => Sound(p))
  BY <1>1, <1>3 DEF Unadded, Sound
<1>7. p.count - Cardinality(Unadded(p)) <= q.count - Cardinality(Unadded(q))
  BY <1>3, <1>6, InFlight, ProcFields
<1> QED
  BY <1>3, <1>5, <1>6, <1>7, CountKeptBy

\* A failed publish is taken back from the count; the count keeps covering the
\* stream only if the entry was not added.
LEMMA PublishLostStep ==
  ASSUME IInv, NEW s \in Session, NEW x \in proc[s].inflight, PublishLost(s, x)
  PROVE  IInv' /\ (~LostPublishes => CountKept(s))
<1> DEFINE p == proc[s]
           r == IF x.live THEN Stopped(p) ELSE p
           q == [r EXCEPT !.inflight = @ \ {x}, !.count = @ - 1]
<1>1. proc \in [Session -> Proc] /\ UNCHANGED <<stream, database>> /\ x \in MayFail(p)
  BY DEF PublishLost, IInv, TypeOK
<1>2. proc' = [proc EXCEPT ![s] = q]
  BY <1>1 DEF PublishLost
<1>3. faults' \in 0..MaxFaults /\ faults' = faults + 1 /\ faults <= faults' /\ faults \in Nat
  BY FaultCounted DEF PublishLost
<1>4. /\ r \in Proc /\ r.main \in {p.main, "stopping"} /\ r.loop = p.loop /\ r.step = p.step
      /\ r.batch = p.batch /\ r.count = p.count /\ r.inflight = p.inflight /\ r.drained = p.drained
      /\ r.main # p.main => p.main = "running"
  BY ProcFields, StoppedFields
<1>5. /\ p.count - 1 \in -2 * MaxFaults..QueueCapacity /\ -2 * faults' <= p.count - 1
      /\ p.count - 1 <= QueueCapacity
  BY <1>3, ProcFields, RunningRules
<1> HIDE DEF r
<1>6. /\ q \in Proc /\ q.main = r.main /\ q.loop = p.loop /\ q.step = p.step
      /\ q.batch = p.batch /\ q.count = p.count - 1 /\ q.inflight = p.inflight \ {x}
      /\ q.drained = p.drained
  BY <1>4, <1>5 DEF Proc
<1> HIDE DEF q
<1>7. p.main \in {"running", "stopping"} /\ q.main \in {"running", "stopping"} /\ ~q.drained
  BY <1>4, <1>6, RunningRules
<1>8. IInv' /\ proc'[s] = q
  <2>1. Keeps(s, q)
    BY <1>1, <1>2, <1>3, <1>5, <1>6, <1>7, RunningRules DEF Keeps
  <2> QED
    BY <2>1, MemoryStep
<1>9. ASSUME ~LostPublishes PROVE p.count - Cardinality(Unadded(p)) <= q.count - Cardinality(Unadded(q))
  <2>1. x \in Unadded(p) /\ Unadded(q) = Unadded(p) \ {x}
    BY <1>1, <1>6, <1>9 DEF MayFail, Unadded
  <2>2. Cardinality(Unadded(q)) = Cardinality(Unadded(p)) - 1
    BY <2>1, InFlight, FS_RemoveElement
  <2>3. Cardinality(Unadded(p)) \in Int
    BY InFlight
  <2> QED
    BY <1>6, <2>2, <2>3, ProcFields
<1>10. Sound(q) => Sound(p)
  BY <1>6, <1>7 DEF Sound
<1> QED
  BY <1>6, <1>8, <1>9, <1>10, CountKeptBy

LEMMA ReconnectStep ==
  ASSUME IInv, NEW s \in Session, Reconnect(s)
  PROVE  IInv' /\ CountKept(s)
<1>1. PICK x \in proc[s].inflight :
        /\ x.live /\ proc[s].inflight = {x}
        /\ proc' = [proc EXCEPT ![s].inflight = {[x EXCEPT !.live = FALSE]}]
  BY DEF Reconnect
<1> DEFINE p == proc[s]
           y == [x EXCEPT !.live = FALSE]
           q == [p EXCEPT !.inflight = {y}]
<1>2. proc \in [Session -> Proc] /\ UNCHANGED <<stream, database, faults>> /\ p.main = "running"
  BY DEF Reconnect, IInv, TypeOK
<1>3. proc' = [proc EXCEPT ![s] = q]
  BY <1>1, <1>2
<1>4. y \in Publish /\ y.added = x.added
  BY ProcFields DEF Publish
<1> HIDE DEF y
<1>5. /\ q \in Proc /\ q.main = p.main /\ q.loop = p.loop /\ q.step = p.step
      /\ q.batch = p.batch /\ q.count = p.count /\ q.inflight = {y} /\ q.drained = p.drained
  BY <1>4, ProcFields DEF Proc
<1> HIDE DEF q
<1>6. IInv' /\ proc'[s] = q
  <2>1. Keeps(s, q)
    BY <1>2, <1>3, <1>5, NoFault, RunningRules DEF Keeps
  <2> QED
    BY <2>1, MemoryStep
<1>7. Unadded(q) = (IF x.added THEN {} ELSE {y}) /\ Unadded(p) = (IF x.added THEN {} ELSE {x})
  BY <1>1, <1>4, <1>5 DEF Unadded
<1>8. Cardinality(Unadded(q)) = Cardinality(Unadded(p))
  BY <1>7, FS_Singleton
<1>9. p.count - Cardinality(Unadded(p)) <= q.count - Cardinality(Unadded(q))
  BY <1>5, <1>8, InFlight, ProcFields
<1>10. Sound(q) => Sound(p)
  BY <1>5 DEF Sound
<1> QED
  BY <1>5, <1>6, <1>9, <1>10, CountKeptBy

\* The intake is closed; what was in flight at the deadline fails before or
\* after the counter is read.
LEMMA CloseIntakeStep ==
  ASSUME IInv, NEW s \in Session, CloseIntake(s)
  PROVE  IInv' /\ (~LostPublishes => CountKept(s))
<1> DEFINE p == proc[s]
           q(lost) == [p EXCEPT !.main = "draining", !.inflight = {}, !.count = @ - lost]
<1>1. /\ proc \in [Session -> Proc] /\ UNCHANGED <<stream, database>>
      /\ p.main = "stopping" /\ ~p.drained /\ p.main \notin {"new", "ended"}
  BY RunningRules DEF CloseIntake, IInv, TypeOK
<1>2. IsFiniteSet(MayFail(p)) /\ Cardinality(MayFail(p)) \in 0..2
  <2>1. MayFail(p) \in SUBSET Publish /\ \A x, y \in MayFail(p) : x.live = y.live => x = y
    BY ProcFields, RunningRules DEF MayFail
  <2> QED
    BY <2>1, AtMostTwo
<1>3. PICK lost \in 0..2 :
        /\ proc' = [proc EXCEPT ![s] = q(lost)]
        /\ lost \in {0, Cardinality(MayFail(p))}
        /\ \/ lost = 0 /\ faults' = faults
           \/ Fault
  <2>1. CASE p.inflight = {} /\ UNCHANGED faults /\ proc' = [proc EXCEPT ![s].main = "draining"]
    <3>1. p.count - 0 = p.count
      BY ProcFields
    <3>2. proc' = [proc EXCEPT ![s] = q(0)]
      BY <1>1, <2>1, <3>1, ProcFields DEF Proc
    <3>3. 0 \in 0..2
      OBVIOUS
    <3> HIDE DEF q
    <3> QED
      BY <2>1, <3>2, <3>3
  <2>2. CASE /\ Fault
             /\ \E lost \in {0, Cardinality(MayFail(p))} :
                  proc' = [proc EXCEPT ![s].main = "draining", ![s].inflight = {},
                                       ![s].count = @ - lost]
    <3>1. PICK lost \in {0, Cardinality(MayFail(p))} :
            proc' = [proc EXCEPT ![s].main = "draining", ![s].inflight = {},
                                 ![s].count = @ - lost]
      BY <2>2
    <3>2. proc' = [proc EXCEPT ![s] = q(lost)]
      BY <1>1, <3>1
    <3>3. lost \in 0..2
      BY <1>2
    <3> HIDE DEF q
    <3> QED
      BY <2>2, <3>2, <3>3
  <2> QED
    BY <2>1, <2>2 DEF CloseIntake
<1>4. faults' \in 0..MaxFaults /\ faults <= faults' /\ -2 * faults' <= p.count - lost
  <2>1. CASE lost = 0 /\ faults' = faults
    BY <2>1, ProcFields, RunningRules
  <2>2. CASE Fault
    BY <2>2, FaultCounted, ProcFields, RunningRules
  <2> QED
    BY <1>3, <2>1, <2>2
<1>5. p.count - lost \in -2 * MaxFaults..QueueCapacity /\ p.count - lost <= QueueCapacity
  <2>1. PICK f \in 0..MaxFaults : f = faults'
    BY <1>4
  <2>2. -2 * f <= p.count - lost
    BY <1>4, <2>1
  <2> QED
    BY <2>2, ProcFields, RunningRules
<1>6. PICK r : r = q(lost)
  OBVIOUS
<1>7. /\ r \in Proc /\ r.main = "draining" /\ r.loop = p.loop /\ r.step = p.step
      /\ r.batch = p.batch /\ r.count = p.count - lost /\ r.inflight = {} /\ r.drained = p.drained
  BY <1>5, <1>6, ProcFields DEF Proc, Mains
<1>8. proc' = [proc EXCEPT ![s] = r]
  BY <1>3, <1>6
<1> HIDE DEF q
<1>9. IInv' /\ proc'[s] = r
  <2>1. Keeps(s, r)
    BY <1>1, <1>4, <1>5, <1>7, <1>8, RunningRules DEF Keeps
  <2> QED
    BY <2>1, MemoryStep
<1>10. ASSUME ~LostPublishes PROVE p.count - Cardinality(Unadded(p)) <= r.count - Cardinality(Unadded(r))
  <2>1. MayFail(p) = Unadded(p) /\ Unadded(r) = {}
    BY <1>7, <1>10 DEF MayFail, Unadded
  <2>2. lost <= Cardinality(Unadded(p)) /\ Cardinality(Unadded(p)) \in Nat
    BY <1>2, <1>3, <2>1
  <2>3. Cardinality(Unadded(r)) = 0
    BY <2>1, FS_EmptySet
  <2> QED
    BY <1>7, <2>2, <2>3, ProcFields
<1>11. Sound(r) => Sound(p)
  BY <1>1, <1>7 DEF Sound
<1> QED
  BY <1>7, <1>9, <1>10, <1>11, CountKeptBy

LEMMA EndDrainStep ==
  ASSUME IInv, NEW s \in Session, EndDrain(s)
  PROVE  IInv' /\ CountKept(s)
<1> DEFINE p == proc[s]
           q == [p EXCEPT !.main = "joining", !.drained = (p.count = 0)]
<1>1. /\ proc \in [Session -> Proc] /\ UNCHANGED <<stream, database, faults>>
      /\ p.main = "draining" /\ p.main \notin {"new", "ended"}
  BY DEF EndDrain, IInv, TypeOK
<1>2. proc' = [proc EXCEPT ![s] = q]
  BY <1>1 DEF EndDrain
<1>3. /\ q \in Proc /\ q.main = "joining" /\ q.loop = p.loop /\ q.step = p.step
      /\ q.batch = p.batch /\ q.count = p.count /\ q.inflight = p.inflight
      /\ q.drained => p.count = 0
  BY ProcFields DEF Proc, Mains
<1> HIDE DEF q
<1>4. IInv' /\ proc'[s] = q
  <2>1. Keeps(s, q)
    BY <1>1, <1>2, <1>3, NoFault, RunningRules DEF Keeps
  <2> QED
    BY <2>1, MemoryStep
<1>5. Unadded(q) = Unadded(p) /\ (Sound(q) => Sound(p))
  BY <1>1, <1>3 DEF Unadded, Sound
<1>6. p.count - Cardinality(Unadded(p)) <= q.count - Cardinality(Unadded(q))
  BY <1>3, <1>5, InFlight, ProcFields
<1> QED
  BY <1>3, <1>4, <1>5, <1>6, CountKeptBy

LEMMA JoinLoopStep ==
  ASSUME IInv, NEW s \in Session, JoinLoop(s)
  PROVE  IInv' /\ CountKept(s)
<1> DEFINE p == proc[s]
<1>1. /\ proc \in [Session -> Proc] /\ UNCHANGED <<stream, database>>
      /\ p.main = "joining" /\ p.main \notin {"new", "ended"} /\ p.inflight = {}
  BY RunningRules DEF JoinLoop, IInv, TypeOK
<1>2. CASE UNCHANGED faults /\ proc' = [proc EXCEPT ![s].main = "closing"]
  <2> DEFINE q == [p EXCEPT !.main = "closing"]
  <2>1. proc' = [proc EXCEPT ![s] = q]
    BY <1>1, <1>2
  <2>2. /\ q \in Proc /\ q.main = "closing" /\ q.loop = p.loop /\ q.step = p.step
        /\ q.batch = p.batch /\ q.count = p.count /\ q.inflight = p.inflight /\ q.drained = p.drained
    BY ProcFields DEF Proc, Mains
  <2> HIDE DEF q
  <2>3. IInv' /\ proc'[s] = q
    <3>1. Keeps(s, q)
      BY <1>1, <1>2, <2>1, <2>2, NoFault, RunningRules DEF Keeps
    <3> QED
      BY <3>1, MemoryStep
  <2>4. Unadded(q) = Unadded(p) /\ (Sound(q) => Sound(p))
    BY <1>1, <2>2 DEF Unadded, Sound
  <2>5. p.count - Cardinality(Unadded(p)) <= q.count - Cardinality(Unadded(q))
    BY <2>2, <2>4, InFlight, ProcFields
  <2> QED
    BY <2>2, <2>3, <2>4, <2>5, CountKeptBy
<1>3. CASE Fault /\ proc' = [proc EXCEPT ![s].main = "closing", ![s].loop = "killed",
                                         ![s].batch = {}, ![s].step = "next"]
  <2> DEFINE q == [p EXCEPT !.main = "closing", !.loop = "killed", !.batch = {}, !.step = "next"]
  <2>1. proc' = [proc EXCEPT ![s] = q]
    BY <1>1, <1>3
  <2>2. /\ q \in Proc /\ q.main = "closing" /\ q.loop = "killed" /\ q.step = "next"
        /\ q.batch = {} /\ q.count = p.count /\ q.inflight = p.inflight /\ q.drained = p.drained
    BY ProcFields DEF Proc, Mains, Loops
  <2> HIDE DEF q
  <2>3. faults' \in 0..MaxFaults /\ faults <= faults' /\ -2 * faults' <= q.count
    BY <1>3, <2>2, FaultCounted, RunningRules, ProcFields
  <2>4. IInv' /\ proc'[s] = q
    <3>1. Keeps(s, q)
      BY <1>1, <2>1, <2>2, <2>3, RunningRules DEF Keeps
    <3> QED
      BY <3>1, MemoryStep
  <2> QED
    BY <2>2, <2>4 DEF CountKept, Sound
<1> QED
  BY <1>2, <1>3 DEF JoinLoop

-----------------------------------------------------------------------------
(* The consumer loop.                                                       *)

\* A loop that is alive belongs to a process that runs.
LEMMA AliveRuns ==
  ASSUME IInv, NEW s \in Session, proc[s].loop # "off"
  PROVE  proc[s].main \notin {"new", "ended"} /\ session[s] = "open"
<1>1. proc[s].main \notin {"new", "ended"}
  BY RunningRules, GoneFields
<1> QED
  BY <1>1 DEF IInv, ProcessRight, TypeOK

LEMMA StopLoopStep ==
  ASSUME IInv, NEW s \in Session, StopLoop(s)
  PROVE  IInv' /\ CountKept(s)
<1> DEFINE p == proc[s]
           q == [p EXCEPT !.loop = "done", !.batch = {}]
<1>1. /\ proc \in [Session -> Proc] /\ UNCHANGED <<stream, database, faults>>
      /\ p.main \notin {"new", "ended"} /\ p.step = "next" /\ p.loop \in {"claim", "claimed", "fetched"}
  BY RunningRules, AliveRuns DEF StopLoop, IInv, TypeOK
<1>2. proc' = [proc EXCEPT ![s] = q]
  BY <1>1 DEF StopLoop
<1>3. /\ q \in Proc /\ q.main = p.main /\ q.loop = "done" /\ q.step = "next"
      /\ q.batch = {} /\ q.count = p.count /\ q.inflight = p.inflight /\ q.drained = p.drained
  BY <1>1, ProcFields DEF Proc, Loops
<1> HIDE DEF q
<1>4. IInv' /\ proc'[s] = q
  <2>1. Keeps(s, q)
    BY <1>1, <1>2, <1>3, NoFault, RunningRules DEF Keeps
  <2> QED
    BY <2>1, MemoryStep
<1>5. Unadded(q) = Unadded(p) /\ (Sound(q) => Sound(p))
  BY <1>1, <1>3 DEF Unadded, Sound
<1>6. p.count - Cardinality(Unadded(p)) <= q.count - Cardinality(Unadded(q))
  BY <1>3, <1>5, InFlight, ProcFields
<1> QED
  BY <1>1, <1>3, <1>4, <1>5, <1>6, CountKeptBy

LEMMA NextEntryStep ==
  ASSUME IInv, NEW s \in Session, NextEntry(s)
  PROVE  IInv' /\ CountKept(s)
<1> DEFINE p == proc[s]
<1>1. /\ proc \in [Session -> Proc] /\ UNCHANGED <<stream, database, faults>>
      /\ p.main \notin {"new", "ended"} /\ p.step = "next" /\ p.loop \in {"claimed", "fetched"}
  BY AliveRuns DEF NextEntry, IInv, TypeOK
<1>2. PICK step \in {"next", "persist"}, loop \in {"claim", "read", p.loop} :
        /\ proc' = [proc EXCEPT ![s] = [p EXCEPT !.step = step, !.loop = loop]]
        /\ step = "persist" => loop = p.loop /\ p.batch # {}
  <2>1. CASE p.batch # {} /\ proc' = [proc EXCEPT ![s].step = "persist"]
    <3>1. proc' = [proc EXCEPT ![s] = [p EXCEPT !.step = "persist", !.loop = p.loop]]
      BY <1>1, <2>1, ProcFields DEF Proc
    <3> QED
      BY <2>1, <3>1
  <2>2. CASE proc' = [proc EXCEPT ![s].loop = IF @ = "claimed" THEN "read" ELSE "claim"]
    <3> DEFINE loop == IF p.loop = "claimed" THEN "read" ELSE "claim"
    <3>1. proc' = [proc EXCEPT ![s] = [p EXCEPT !.step = "next", !.loop = loop]]
      BY <1>1, <2>2, ProcFields DEF Proc
    <3> QED
      BY <3>1
  <2> QED
    BY <2>1, <2>2 DEF NextEntry
<1> DEFINE q == [p EXCEPT !.step = step, !.loop = loop]
<1>3. /\ q \in Proc /\ q.main = p.main /\ q.loop = loop /\ q.step = step
      /\ q.batch = p.batch /\ q.count = p.count /\ q.inflight = p.inflight /\ q.drained = p.drained
  BY <1>1, ProcFields DEF Proc, Loops
<1>4. proc' = [proc EXCEPT ![s] = q]
  BY <1>2
<1> HIDE DEF q
<1>5. IInv' /\ proc'[s] = q
  <2>1. Keeps(s, q)
    BY <1>1, <1>2, <1>3, <1>4, NoFault, RunningRules DEF Keeps
  <2> QED
    BY <2>1, MemoryStep
<1>6. Unadded(q) = Unadded(p) /\ (Sound(q) => Sound(p))
  BY <1>1, <1>3 DEF Unadded, Sound
<1>7. p.count - Cardinality(Unadded(p)) <= q.count - Cardinality(Unadded(q))
  BY <1>3, <1>6, InFlight, ProcFields
<1> QED
  BY <1>1, <1>3, <1>5, <1>6, <1>7, CountKeptBy

\* A loop that fails.
LEMMA AcknowledgeUnsentStep ==
  ASSUME IInv, NEW s \in Session, AcknowledgeUnsent(s)
  PROVE  IInv' /\ CountKept(s)
<1> DEFINE q == LoopFailed(proc[s])
<1>1. /\ proc[s].main \notin {"new", "ended"} /\ UNCHANGED <<stream, database>>
      /\ proc' = [proc EXCEPT ![s] = q]
  BY RunningRules, AliveRuns DEF AcknowledgeUnsent
<1>2. faults' \in 0..MaxFaults /\ faults <= faults' /\ delivered' \in Nat
  BY FaultCounted, ProcFields DEF AcknowledgeUnsent, stream
<1>3. Becomes(s, q) /\ q.loop = "failed"
  BY <1>1, <1>2, FailingIsRight DEF database
<1> HIDE DEF q
<1>4. IInv' /\ Grows(s)
  BY <1>1, <1>2, <1>3, QuietStep DEF database, IInv, TypeOK
<1> QED
  BY <1>3, <1>4, OthersStayRight DEF CountKept, Sound

-----------------------------------------------------------------------------
(* Counting what is outstanding.                                            *)

LEMMA OutstandingIsFinite ==
  ASSUME TypeOK, NEW t \in Session
  PROVE  Outstanding(t) \in SUBSET DOMAIN log /\ IsFiniteSet(Outstanding(t))
<1>1. Outstanding(t) \in SUBSET DOMAIN log
  BY DEF Outstanding, Own
<1>2. DOMAIN log = 1..Len(log) /\ Len(log) \in Nat
  BY DEF TypeOK
<1>3. IsFiniteSet(1..Len(log))
  BY <1>2, FS_Interval
<1> QED
  BY <1>1, <1>2, <1>3, FS_Subset

(* What a step of s does to the pending list: an entry that joins it was    *)
(* not delivered before.                                                    *)
OnlyNewPending == \A id \in DOMAIN log : id \in pending' => id \in pending \/ id > delivered

\* What is outstanding for the others does not grow.
LEMMA OthersStayCounted ==
  ASSUME IInv, Counted, NEW s \in Session, Grows(s), OnlyNewPending,
         NEW t \in Session, t # s, proc'[t] = proc[t], Sound(proc'[t])
  PROVE  Cardinality(Outstanding(t)') + Cardinality(Unadded(proc'[t])) <= proc'[t].count
<1>1. Own(t)' = Own(t) /\ \A id \in Own(t) : id \in DOMAIN log
  BY DEF Grows, Own
<1>2. \A id \in Own(t) : Linked(id) => Linked(id)'
  BY <1>1 DEF Linked, Grows
<1>3. \A id \in Own(t) : id > delivered' => id > delivered
  <2>1. delivered \in Nat /\ delivered' \in Nat /\ delivered <= delivered'
    BY ProcFields DEF Grows
  <2>2. \A id \in Own(t) : id \in Nat
    BY <1>1 DEF IInv, TypeOK
  <2> QED
    BY <2>1, <2>2
<1>4. Acknowledging(t)' = Acknowledging(t)
  BY DEF Acknowledging, Current
<1>5. Outstanding(t)' \in SUBSET Outstanding(t)
  BY <1>1, <1>2, <1>3, <1>4 DEF Outstanding, OnlyNewPending
<1>6. IsFiniteSet(Outstanding(t))
  BY OutstandingIsFinite DEF IInv
<1> DEFINE A == Outstanding(t)
           B == Outstanding(t)'
<1> HIDE DEF A, B
<1>7. Cardinality(B) <= Cardinality(A) /\ Cardinality(A) \in Nat /\ Cardinality(B) \in Nat
  <2>1. B \in SUBSET A /\ IsFiniteSet(A)
    BY <1>5, <1>6 DEF A, B
  <2> QED
    BY <2>1, FS_Subset, FS_CardinalityType
<1>8. Cardinality(A) + Cardinality(Unadded(proc[t])) <= proc[t].count
  BY DEF Counted, A
<1>9. Cardinality(Unadded(proc[t])) \in Int /\ proc[t].count \in Int
  BY InFlight, ProcFields
<1>10. Cardinality(B) + Cardinality(Unadded(proc[t])) <= proc[t].count
  BY <1>7, <1>8, <1>9
<1> QED
  BY <1>10 DEF B

\* The process s itself stays counted when it has no more outstanding.
LEMMA SelfStaysCounted ==
  ASSUME IInv, Counted, NEW s \in Session, Sound(proc[s]),
         Outstanding(s)' \in SUBSET Outstanding(s),
         Cardinality(Unadded(proc'[s])) \in Int, proc'[s].count \in Int,
         proc[s].count - Cardinality(Unadded(proc[s]))
           <= proc'[s].count - Cardinality(Unadded(proc'[s]))
  PROVE  Cardinality(Outstanding(s)') + Cardinality(Unadded(proc'[s])) <= proc'[s].count
<1>1. IsFiniteSet(Outstanding(s))
  BY OutstandingIsFinite DEF IInv
<1> DEFINE A == Outstanding(s)
           B == Outstanding(s)'
<1> HIDE DEF A, B
<1>2. Cardinality(B) <= Cardinality(A) /\ Cardinality(A) \in Nat /\ Cardinality(B) \in Nat
  <2>1. B \in SUBSET A /\ IsFiniteSet(A)
    BY <1>1 DEF A, B
  <2> QED
    BY <2>1, FS_Subset, FS_CardinalityType
<1>3. Cardinality(A) + Cardinality(Unadded(proc[s])) <= proc[s].count
  BY DEF Counted, A
<1>4. Cardinality(Unadded(proc[s])) \in Int /\ proc[s].count \in Int
  BY InFlight, ProcFields
<1>5. Cardinality(B) + Cardinality(Unadded(proc'[s])) <= proc'[s].count
  BY <1>2, <1>3, <1>4
<1> QED
  BY <1>5 DEF B

\* A step that leaves the stream and the tables of events alone.
LEMMA QuietCounted ==
  ASSUME IInv, IInv', Counted, NEW s \in Session, UNCHANGED <<stream, links>>, CountKept(s),
         \A t \in Session : t # s => proc'[t] = proc[t]
  PROVE  Counted'
<1>1. /\ \A t \in Session : Own(t)' = Own(t)
      /\ \A id : Linked(id)' = Linked(id)
      /\ pending' = pending /\ delivered' = delivered
  BY DEF Own, Linked, stream
<1>2. SUFFICES ASSUME NEW t \in Session, Sound(proc'[t])
      PROVE  Cardinality(Outstanding(t)') + Cardinality(Unadded(proc'[t])) <= proc'[t].count
  BY DEF Counted
<1>3. CASE t # s
  <2>1. Outstanding(t)' = Outstanding(t) /\ proc'[t] = proc[t]
    BY <1>1, <1>3 DEF Outstanding, Acknowledging, Current
  <2> QED
    BY <1>2, <2>1 DEF Counted
<1>4. CASE t = s
  <2>1. /\ Sound(proc[s]) /\ proc'[s].batch \subseteq proc[s].batch
        /\ Acknowledging(s)' = Acknowledging(s)
        /\ proc[s].count - Cardinality(Unadded(proc[s]))
             <= proc'[s].count - Cardinality(Unadded(proc'[s]))
    BY <1>2, <1>4 DEF CountKept
  <2>2. Outstanding(s)' \in SUBSET Outstanding(s)
    BY <1>1, <2>1 DEF Outstanding
  <2>3. Cardinality(Unadded(proc'[s])) \in Int /\ proc'[s].count \in Int
    <3>1. (Cardinality(Unadded(proc[s])) \in 0..2 /\ proc[s].count \in Int)'
      BY InFlight, ProcFields, PTL
    <3> QED
      BY <3>1
  <2> QED
    BY <1>4, <2>1, <2>2, <2>3, SelfStaysCounted
<1> QED
  BY <1>3, <1>4

-----------------------------------------------------------------------------
(* Steps on the stream.                                                     *)

(* The counts after a step of s: what is outstanding for s, and the rest.   *)
SelfCounted(s) ==
  Sound(proc'[s]) =>
    Cardinality(Outstanding(s)') + Cardinality(Unadded(proc'[s])) <= proc'[s].count

LEMMA AllCounted ==
  ASSUME IInv, Counted, NEW s \in Session, NEW q, Becomes(s, q), Grows(s), OnlyNewPending,
         SelfCounted(s)
  PROVE  Counted'
<1>1. \A t \in Session : t # s => proc'[t] = proc[t]
  BY OthersStayRight
<1>2. SUFFICES ASSUME NEW t \in Session, Sound(proc'[t])
      PROVE  Cardinality(Outstanding(t)') + Cardinality(Unadded(proc'[t])) <= proc'[t].count
  BY DEF Counted
<1>3. CASE t # s
  BY <1>1, <1>2, <1>3, OthersStayCounted
<1>4. CASE t = s
  BY <1>2, <1>4 DEF SelfCounted
<1> QED
  BY <1>3, <1>4

\* Redis adds an entry: the others keep theirs, and the publish that was
\* counted as in flight is counted as an entry from now on.
LEMMA AddEntryStep ==
  ASSUME IInv, NEW s \in Session, NEW x, AddEntry(s, x)
  PROVE  IInv' /\ (Counted => Counted')
<1> DEFINE p == proc[s]
           y == [x EXCEPT !.added = TRUE]
           q == [p EXCEPT !.inflight = (@ \ {x}) \cup {y}]
           entry == [session |-> s, event |-> x.event]
           n == Len(log) + 1
<1>1. /\ proc \in [Session -> Proc] /\ log \in Seq(Entry) /\ Len(log) \in Nat
      /\ UNCHANGED <<delivered, pending, idle, session, ledger, links, faults>>
      /\ x \in p.inflight /\ ~x.added /\ p.main \in {"running", "stopping"}
  BY RunningRules DEF AddEntry, IInv, TypeOK, database
<1>2. x \in Publish /\ y \in Publish /\ y.added = TRUE /\ y.live = x.live /\ x.event \in Event
  BY <1>1, ProcFields DEF Publish
<1>3. log' = Append(log, entry) /\ entry \in Entry
  BY <1>2 DEF AddEntry, Entry
<1>4. /\ log' \in Seq(Entry) /\ Len(log') = n /\ log'[n] = entry
      /\ \A id \in 1..Len(log) : log'[id] = log[id]
  BY <1>1, <1>3
<1>5. proc' = [proc EXCEPT ![s] = q]
  BY <1>1 DEF AddEntry
<1> HIDE DEF y
<1>6. /\ q \in Proc /\ q.main = p.main /\ q.loop = p.loop /\ q.step = p.step
      /\ q.batch = p.batch /\ q.count = p.count /\ q.inflight = (p.inflight \ {x}) \cup {y}
      /\ q.drained = p.drained
  BY <1>2, ProcFields DEF Proc
<1> HIDE DEF q, entry
<1>7. DOMAIN log = 1..Len(log) /\ DOMAIN log' = 1..n
  BY <1>1, <1>4
<1>8. /\ \A t \in Session : t # s => Own(t)' = Own(t)
      /\ Own(s)' = Own(s) \cup {n}
  <2>1. \A id \in 1..n : id = n \/ id \in 1..Len(log)
    BY <1>1
  <2>2. \A id \in 1..Len(log) : id \in 1..n /\ id # n
    BY <1>1
  <2>3. entry.session = s /\ n \in 1..n
    BY <1>1 DEF entry
  <2> QED
    BY <1>4, <1>7, <2>1, <2>2, <2>3 DEF Own
<1>9. Grows(s)
  BY <1>1, <1>4, <1>7, <1>8, ProcFields DEF Grows, IInv, TypeOK
<1>10. Becomes(s, q)
  <2>1. \A z, w \in q.inflight : z.live = w.live => z = w
    BY <1>1, <1>2, <1>6, RunningRules
  <2>2. -2 * faults' <= q.count /\ q.count <= QueueCapacity
    BY <1>1, <1>6, RunningRules
  <2>3. q.batch \subseteq 1..delivered' /\ ~q.drained
    BY <1>1, <1>6, RunningRules
  <2>4. session' = session /\ session[s] = "open"
    BY <1>1 DEF IInv, TypeOK, ProcessRight
  <2>5. ASSUME q.step = "ack"
        PROVE  <<log'[Current(q)].session, log'[Current(q)].event>> \in links'
    <3>1. Current(q) = Current(p) /\ Linked(Current(p)) /\ p.batch # {} /\ p.batch \subseteq 1..delivered
      BY <1>6, <2>5, RunningRules DEF Current
    <3>2. Current(p) \in 1..Len(log)
      BY <3>1, <1>7, CurrentIsDelivered DEF IInv
    <3> QED
      BY <1>1, <1>4, <3>1, <3>2 DEF Linked
  <2>6. q.step # "next" => q.loop \in {"claimed", "fetched"} /\ q.batch # {}
    BY <1>6, RunningRules
  <2> QED
    BY <1>1, <1>5, <1>6, <2>1, <2>2, <2>3, <2>4, <2>5, <2>6 DEF Becomes
<1>11. floor \in Nat /\ floor' \in 0..Len(log') /\ floor <= floor'
  BY <1>1, <1>4, BoundsAssumption DEF AddEntry, IInv, TypeOK
<1>12. TypeOK'
  <2>1. delivered' \in 0..Len(log')
    BY <1>1, <1>4 DEF IInv, TypeOK
  <2> QED
    BY <1>1, <1>4, <1>9, <1>10, <1>11, <2>1, OthersStayRight DEF IInv, TypeOK
<1>13. AcknowledgedIsPersisted'
  <2>1. \A id \in 1..delivered : id > floor' => id > floor
    BY <1>11 DEF IInv, TypeOK
  <2>2. \A id \in 1..delivered : id \in 1..Len(log)
    BY DEF IInv, TypeOK
  <2> QED
    BY <1>1, <1>4, <2>1, <2>2 DEF IInv, AcknowledgedIsPersisted, Linked
<1>14. IInv'
  BY <1>1, <1>9, <1>10, <1>12, <1>13, OthersStayRight DEF IInv, OncePerEvent
<1>15. ASSUME Counted PROVE Counted'
  <2>1. OnlyNewPending
    BY <1>1 DEF OnlyNewPending
  <2>2. proc'[s] = q
    BY <1>9, <1>10, OthersStayRight
  <2>3. ASSUME Sound(q)
        PROVE  Cardinality(Outstanding(s)') + Cardinality(Unadded(q)) <= q.count
    <3>1. Acknowledging(s)' = Acknowledging(s)
      BY <1>6, <2>2 DEF Acknowledging, Current
    <3>2. \A id \in Own(s) : Linked(id)' = Linked(id)
      BY <1>1, <1>4, <1>7 DEF Linked, Own
    <3>3. Outstanding(s)' \in SUBSET (Outstanding(s) \cup {n})
      BY <1>1, <1>6, <1>8, <2>2, <3>1, <3>2 DEF Outstanding
    <3> DEFINE A == Outstanding(s)
               B == Outstanding(s)'
    <3>4. IsFiniteSet(A) /\ B \in SUBSET (A \cup {n})
      BY <3>3, OutstandingIsFinite DEF IInv
    <3> HIDE DEF A, B
    <3>5. Cardinality(A) \in Nat /\ Cardinality(B) \in Nat /\ Cardinality(B) <= Cardinality(A) + 1
      <4>1. IsFiniteSet(A \cup {n}) /\ Cardinality(A) \in Nat
            /\ Cardinality(A \cup {n}) \in {Cardinality(A), Cardinality(A) + 1}
        BY <3>4, FS_AddElement, FS_CardinalityType
      <4>2. IsFiniteSet(B) /\ Cardinality(B) <= Cardinality(A \cup {n})
        BY <3>4, <4>1, FS_Subset
      <4>3. Cardinality(B) \in Nat
        BY <4>2, FS_CardinalityType
      <4> QED
        BY <4>1, <4>2, <4>3
    <3>6. Unadded(q) = Unadded(p) \ {x} /\ x \in Unadded(p)
      BY <1>1, <1>2, <1>6 DEF Unadded
    <3>7. Cardinality(Unadded(q)) = Cardinality(Unadded(p)) - 1
          /\ Cardinality(Unadded(p)) \in Int /\ Cardinality(Unadded(q)) \in Int
      <4>1. IsFiniteSet(Unadded(p)) /\ Cardinality(Unadded(p)) \in 0..2
        BY InFlight
      <4>2. Cardinality(Unadded(q)) = Cardinality(Unadded(p)) - 1
        BY <3>6, <4>1, FS_RemoveElement
      <4> QED
        BY <4>1, <4>2
    <3>8. Cardinality(A) + Cardinality(Unadded(p)) <= p.count
      BY <1>6, <1>15, <2>3 DEF Counted, Sound, A
    <3>9. Cardinality(B) + Cardinality(Unadded(q)) <= q.count
      BY <1>6, <3>5, <3>7, <3>8, ProcFields
    <3> QED
      BY <3>9 DEF B
  <2> QED
    BY <1>9, <1>10, <1>15, <2>1, <2>2, <2>3, AllCounted DEF SelfCounted
<1> QED
  BY <1>14, <1>15

LEMMA BecomeIdleStep ==
  ASSUME IInv, BecomeIdle
  PROVE  IInv' /\ (Counted => Counted')
<1>1. /\ UNCHANGED <<log, floor, delivered, pending, session, ledger, links, proc, faults>>
      /\ idle' \subseteq pending'
  BY DEF BecomeIdle, database, IInv, TypeOK
<1>2. /\ \A t \in Session : Own(t)' = Own(t) /\ Acknowledging(t)' = Acknowledging(t)
      /\ \A id : Linked(id)' = Linked(id)
  BY <1>1 DEF Own, Acknowledging, Current, Linked
<1>3. \A t \in Session : Outstanding(t)' = Outstanding(t)
  BY <1>1, <1>2 DEF Outstanding
<1>4. TypeOK' /\ OncePerEvent' /\ AcknowledgedIsPersisted'
  BY <1>1, <1>2 DEF IInv, TypeOK, OncePerEvent, AcknowledgedIsPersisted
<1>5. ProcessRight' /\ LoopRight'
  BY <1>1, <1>2 DEF IInv, ProcessRight, LoopRight
<1>6. Counted => Counted'
  BY <1>1, <1>3 DEF Counted
<1> QED
  BY <1>4, <1>5, <1>6 DEF IInv

-----------------------------------------------------------------------------
(* Steps on the group: what is delivered, pending and idle.                 *)

Delivers ==
  /\ UNCHANGED <<log, floor, session, ledger, links>>
  /\ delivered' \in 0..Len(log) /\ delivered <= delivered'
  /\ pending' \subseteq 1..delivered' /\ idle' \subseteq pending'
  /\ faults' \in 0..MaxFaults /\ faults <= faults'
  /\ \A id \in 1..delivered' : id > floor /\ id \notin pending' => Linked(id)
  /\ OnlyNewPending

LEMMA DeliverStep ==
  ASSUME IInv, NEW s \in Session, NEW q, Becomes(s, q), Delivers, Counted => SelfCounted(s)
  PROVE  IInv' /\ (Counted => Counted')
<1>1. /\ log' = log /\ log \in Seq(Entry) /\ Len(log) \in Nat /\ session' = session
      /\ links' = links /\ ledger' = ledger /\ floor' = floor /\ delivered' \in Nat
  BY DEF Delivers, IInv, TypeOK
<1>2. \A t \in Session : Own(t)' = Own(t)
  BY <1>1 DEF Own
<1>3. \A id : Linked(id)' = Linked(id)
  BY <1>1 DEF Linked
<1>4. session \in [Session -> {"none", "open", "closed"}]
  BY DEF IInv, TypeOK
<1>5. Grows(s)
  BY <1>1, <1>2, <1>4 DEF Grows, Delivers
<1>6. TypeOK'
  BY <1>1, <1>4, <1>5, OthersStayRight DEF IInv, TypeOK, Delivers
<1>7. AcknowledgedIsPersisted' /\ OncePerEvent'
  BY <1>1, <1>3 DEF IInv, AcknowledgedIsPersisted, OncePerEvent, Delivers
<1>8. IInv'
  BY <1>5, <1>6, <1>7, OthersStayRight DEF IInv
<1>9. Counted => Counted'
  BY <1>5, AllCounted DEF Delivers
<1> QED
  BY <1>8, <1>9

LEMMA DeliverFails ==
  ASSUME IInv, NEW s \in Session, proc[s].loop # "off", Delivers,
         proc' = [proc EXCEPT ![s] = LoopFailed(proc[s])]
  PROVE  IInv' /\ (Counted => Counted') /\ proc'[s].loop = "failed"
<1>1. proc[s].main \notin {"new", "ended"}
  BY AliveRuns
<1>2. delivered' \in Nat /\ session' = session
  BY DEF Delivers, IInv, TypeOK
<1>3. Becomes(s, LoopFailed(proc[s])) /\ LoopFailed(proc[s]).loop = "failed"
  BY <1>1, <1>2, FailingIsRight DEF Delivers
<1>4. proc'[s] = LoopFailed(proc[s])
  BY DEF IInv, TypeOK
<1>5. SelfCounted(s)
  BY <1>3, <1>4 DEF SelfCounted, Sound
<1> QED
  BY <1>3, <1>4, <1>5, DeliverStep

\* Of what is idle the first ids are claimed, all of them pending.
LEMMA ClaimableIsPending ==
  ASSUME IInv
  PROVE  Claimable \in SUBSET idle /\ idle \in SUBSET pending /\ pending \in SUBSET (1..delivered)
BY DEF IInv, TypeOK, Claimable, FirstBatch

LEMMA ClaimPendingStep ==
  ASSUME IInv, NEW s \in Session, ClaimPending(s)
  PROVE  IInv' /\ (Counted => Counted')
<1> DEFINE p == proc[s]
           deleted == {id \in Claimable : id <= floor}
           q == [p EXCEPT !.loop = "claimed", !.batch = Claimable \ deleted]
<1>1. /\ p.loop = "claim" /\ p.step = "next" /\ idle' = idle \ Claimable
      /\ pending' = pending \ deleted /\ proc \in [Session -> Proc]
      /\ UNCHANGED <<log, floor, delivered, session, ledger, links>>
  BY RunningRules DEF ClaimPending, database, IInv, TypeOK
<1>2. Claimable \in SUBSET idle /\ idle \in SUBSET pending /\ pending \in SUBSET (1..delivered)
  BY ClaimableIsPending
<1>3. /\ delivered \in 0..Len(log) /\ delivered \in Nat /\ floor \in Nat
  BY DEF IInv, TypeOK
<1>4. \A id \in 1..delivered : id > floor /\ id \notin pending' => Linked(id)
  <2>1. \A id \in 1..delivered : id > floor => id \notin deleted
    BY <1>3
  <2> QED
    BY <1>1, <2>1 DEF IInv, AcknowledgedIsPersisted
<1>5. faults' \in 0..MaxFaults /\ faults <= faults'
  BY FaultCounted, ProcFields DEF ClaimPending
<1>6. Delivers
  <2>1. deleted \in SUBSET Claimable
    OBVIOUS
  <2>2. delivered' = delivered /\ delivered <= delivered' /\ delivered' \in 0..Len(log)
    BY <1>1, <1>3
  <2> HIDE DEF deleted
  <2>3. pending' \subseteq 1..delivered' /\ idle' \subseteq pending' /\ OnlyNewPending
    BY <1>1, <1>2, <2>1, <2>2 DEF OnlyNewPending
  <2> QED
    BY <1>1, <1>4, <1>5, <2>2, <2>3 DEF Delivers
<1>7. CASE proc' = [proc EXCEPT ![s].loop = "claimed", ![s].batch = Claimable \ deleted]
  <2>1. proc' = [proc EXCEPT ![s] = q]
    BY <1>1, <1>7
  <2>2. Claimable \ deleted \in SUBSET pending
    BY <1>2
  <2>3. Claimable \ deleted \in SUBSET (1..delivered) /\ Claimable \ deleted \in SUBSET Nat
    <3>1. \A id \in 1..delivered : id \in Nat
      BY <1>3
    <3> QED
      BY <1>2, <2>2, <3>1
  <2>4. /\ q \in Proc /\ q.main = p.main /\ q.loop = "claimed" /\ q.step = "next"
        /\ q.batch = Claimable \ deleted /\ q.count = p.count /\ q.inflight = p.inflight
        /\ q.drained = p.drained
    BY <1>1, <2>3, ProcFields DEF Proc, Loops
  <2>5. p.main \notin {"new", "ended"} /\ session'[s] = "open"
    BY <1>1, AliveRuns
  <2> HIDE DEF q, deleted
  <2>6. -2 * faults' <= q.count
    BY <1>5, <2>4, RunningRules, ProcFields
  <2>7. Becomes(s, q)
    BY <1>1, <2>1, <2>3, <2>4, <2>5, <2>6, RunningRules DEF Becomes
  <2>8. ASSUME Counted PROVE SelfCounted(s)
    <3>1. proc'[s] = q
      BY <1>1, <2>1
    <3>2. SUFFICES ASSUME Sound(q)
          PROVE  Cardinality(Outstanding(s)') + Cardinality(Unadded(proc'[s])) <= proc'[s].count
      BY <3>1 DEF SelfCounted
    <3>3. Sound(p) /\ Unadded(q) = Unadded(p)
      BY <1>1, <2>4, <2>5 DEF Sound, Unadded
    <3>4. Acknowledging(s)' = {} /\ Acknowledging(s) = {}
      BY <1>1, <2>4, <3>1 DEF Acknowledging
    <3>5. \A id : Own(s)' = Own(s) /\ Linked(id)' = Linked(id)
      BY <1>1 DEF Own, Linked
    <3>6. Outstanding(s)' \in SUBSET Outstanding(s)
      BY <1>1, <2>2, <2>4, <3>1, <3>4, <3>5 DEF Outstanding
    <3>7. /\ Cardinality(Unadded(proc'[s])) \in Int /\ proc'[s].count \in Int
          /\ p.count - Cardinality(Unadded(p)) <= proc'[s].count - Cardinality(Unadded(proc'[s]))
      BY <2>4, <3>1, <3>3, InFlight, ProcFields
    <3> QED
      BY <2>8, <3>3, <3>6, <3>7, SelfStaysCounted
  <2> QED
    BY <1>6, <2>7, <2>8, DeliverStep
<1>8. CASE proc' = [proc EXCEPT ![s] = LoopFailed(p)]
  BY <1>1, <1>6, <1>8, DeliverFails
<1> QED
  BY <1>7, <1>8 DEF ClaimPending

\* What is read is the first part of what was not delivered, so everything up
\* to its last entry is delivered or trimmed away.
LEMMA FetchedIsNext ==
  ASSUME IInv, NEW fetched, fetched = FirstBatch(Unread), NEW last,
         last = IF fetched = {} THEN delivered ELSE Max(fetched)
  PROVE  /\ fetched \in SUBSET (1..last) /\ last \in 0..Len(log) /\ delivered <= last
         /\ \A id \in fetched : id > delivered
         /\ \A id \in 1..last : id <= delivered \/ id <= floor \/ id \in fetched
<1>1. delivered \in Nat /\ floor \in Nat /\ delivered \in 0..Len(log) /\ Len(log) \in Nat
  BY DEF IInv, TypeOK
<1>2. Unread \in SUBSET (1..Len(log)) /\ \A id \in 1..Len(log) : id \in Unread <=> id > delivered /\ id > floor
  BY DEF Unread
<1> HIDE DEF Unread
<1>3. /\ fetched \in SUBSET Unread
      /\ \A i \in fetched, j \in Unread : j < i => j \in fetched
  BY <1>1, <1>2, FirstBatchIsFirst
<1>4. CASE fetched = {}
  <2>1. last = delivered
    BY <1>4
  <2> QED
    BY <1>1, <1>4, <2>1
<1>5. CASE fetched # {}
  <2>1. fetched \in SUBSET (0..Len(log)) /\ fetched \in SUBSET (1..Len(log))
    <3>1. \A id \in 1..Len(log) : id \in 0..Len(log)
      BY <1>1
    <3>2. fetched \in SUBSET (1..Len(log))
      BY <1>2, <1>3
    <3> QED
      BY <3>1, <3>2
  <2>2. last \in fetched /\ \A y \in fetched : y <= last
    BY <1>1, <1>5, <2>1, MaxOfBounded
  <2>3. last \in 1..Len(log) /\ last > delivered
    BY <1>2, <1>3, <2>1, <2>2
  <2>4. ASSUME NEW id \in 1..last, id > delivered, id > floor PROVE id \in fetched
    <3>1. id \in Unread
      BY <1>1, <1>2, <2>3, <2>4
    <3>2. id = last \/ id < last
      BY <2>3
    <3> QED
      BY <1>3, <2>2, <3>1, <3>2
  <2>5. \A id \in fetched : id \in 1..last /\ id > delivered
    BY <1>2, <1>3, <2>1, <2>2, <2>3
  <2>6. \A id \in 1..last : id <= delivered \/ id <= floor \/ id \in fetched
    BY <1>1, <2>3, <2>4
  <2> QED
    BY <1>1, <2>3, <2>5, <2>6
<1> QED
  BY <1>4, <1>5

LEMMA ReadNewStep ==
  ASSUME IInv, NEW s \in Session, ReadNew(s)
  PROVE  IInv' /\ (Counted => Counted')
<1> DEFINE p == proc[s]
<1>1. PICK fetched : fetched = FirstBatch(Unread)
  OBVIOUS
<1> DEFINE q == [p EXCEPT !.loop = "fetched", !.batch = fetched]
<1>2. /\ p.loop = "read" /\ p.step = "next" /\ proc \in [Session -> Proc]
      /\ pending' = pending \cup fetched
      /\ delivered' = IF fetched = {} THEN delivered ELSE Max(fetched)
      /\ UNCHANGED <<log, floor, idle, session, ledger, links>>
  BY <1>1, RunningRules DEF ReadNew, database, IInv, TypeOK
<1>3. /\ fetched \in SUBSET (1..delivered') /\ delivered' \in 0..Len(log) /\ delivered <= delivered'
      /\ \A id \in fetched : id > delivered
      /\ \A id \in 1..delivered' : id <= delivered \/ id <= floor \/ id \in fetched
  BY <1>1, <1>2, FetchedIsNext
<1>4. /\ pending \in SUBSET (1..delivered) /\ idle \in SUBSET pending
      /\ delivered \in Nat /\ floor \in Nat /\ delivered' \in Nat
  BY <1>3 DEF IInv, TypeOK
<1>5. pending' \in SUBSET (1..delivered')
  <2>1. 1..delivered \subseteq 1..delivered'
    BY <1>3, <1>4
  <2> QED
    BY <1>2, <1>3, <1>4, <2>1
<1>6. \A id \in 1..delivered' : id > floor /\ id \notin pending' => Linked(id)
  <2>1. \A id \in 1..delivered' : id > floor /\ id \notin fetched => id \in 1..delivered
    BY <1>3, <1>4
  <2> QED
    BY <1>2, <2>1 DEF IInv, AcknowledgedIsPersisted
<1>7. faults' \in 0..MaxFaults /\ faults <= faults'
  BY FaultCounted, ProcFields DEF ReadNew
<1>8. Delivers
  BY <1>2, <1>3, <1>4, <1>5, <1>6, <1>7 DEF Delivers, OnlyNewPending
<1>9. CASE proc' = [proc EXCEPT ![s].loop = "fetched", ![s].batch = fetched]
  <2>1. proc' = [proc EXCEPT ![s] = q]
    BY <1>2, <1>9
  <2>3. fetched \in SUBSET Nat
    BY <1>3, <1>4
  <2>4. /\ q \in Proc /\ q.main = p.main /\ q.loop = "fetched" /\ q.step = "next"
        /\ q.batch = fetched /\ q.count = p.count /\ q.inflight = p.inflight
        /\ q.drained = p.drained
    BY <1>2, <2>3, ProcFields DEF Proc, Loops
  <2>5. p.main \notin {"new", "ended"} /\ session'[s] = "open"
    BY <1>2, AliveRuns
  <2> HIDE DEF q
  <2>6. -2 * faults' <= q.count
    BY <1>7, <2>4, RunningRules, ProcFields
  <2>7. Becomes(s, q)
    BY <1>2, <1>3, <2>1, <2>4, <2>5, <2>6, RunningRules DEF Becomes
  <2>8. ASSUME Counted PROVE SelfCounted(s)
    <3>1. proc'[s] = q
      BY <1>2, <2>1
    <3>2. SUFFICES ASSUME Sound(q)
          PROVE  Cardinality(Outstanding(s)') + Cardinality(Unadded(proc'[s])) <= proc'[s].count
      BY <3>1 DEF SelfCounted
    <3>3. Sound(p) /\ Unadded(q) = Unadded(p)
      BY <1>2, <2>4, <2>5 DEF Sound, Unadded
    <3>4. Acknowledging(s)' = {} /\ Acknowledging(s) = {}
      BY <1>2, <2>4, <3>1 DEF Acknowledging
    <3>5. \A id : Own(s)' = Own(s) /\ Linked(id)' = Linked(id)
      BY <1>2 DEF Own, Linked
    <3>6. \A id \in Own(s) : id > delivered' => id > delivered
      <4>1. \A id \in Own(s) : id \in Nat
        BY DEF Own, IInv, TypeOK
      <4> QED
        BY <1>3, <1>4, <4>1
    <3>7. Outstanding(s)' \in SUBSET Outstanding(s)
      BY <1>2, <1>3, <2>4, <3>1, <3>4, <3>5, <3>6 DEF Outstanding
    <3>8. /\ Cardinality(Unadded(proc'[s])) \in Int /\ proc'[s].count \in Int
          /\ p.count - Cardinality(Unadded(p)) <= proc'[s].count - Cardinality(Unadded(proc'[s]))
      BY <2>4, <3>1, <3>3, InFlight, ProcFields
    <3> QED
      BY <2>8, <3>3, <3>7, <3>8, SelfStaysCounted
  <2> QED
    BY <1>8, <2>7, <2>8, DeliverStep
<1>10. CASE proc' = [proc EXCEPT ![s] = LoopFailed(p)]
  BY <1>2, <1>8, <1>10, DeliverFails
<1> QED
  BY <1>1, <1>9, <1>10 DEF ReadNew

\* An acknowledged entry leaves the pending list persisted.
LEMMA AcknowledgeStep ==
  ASSUME IInv, NEW s \in Session, Acknowledge(s)
  PROVE  IInv' /\ (Counted => Counted')
<1> DEFINE p == proc[s]
<1>0. PICK id : id = Current(p)
  OBVIOUS
<1> DEFINE q == [p EXCEPT !.step = "next", !.batch = @ \ {id}]
<1>1. /\ p.step = "ack" /\ p.loop \in {"claimed", "fetched"} /\ p.batch # {}
      /\ p.batch \subseteq 1..delivered /\ Linked(id) /\ proc \in [Session -> Proc]
      /\ pending' = pending \ {id} /\ idle' = idle \ {id}
      /\ UNCHANGED <<log, floor, delivered, session, ledger, links>>
  BY <1>0, RunningRules DEF Acknowledge, database, IInv, TypeOK
<1>2. id \in p.batch /\ id \in 1..delivered
  BY <1>0, <1>1, CurrentIsDelivered DEF IInv
<1>3. /\ pending \in SUBSET (1..delivered) /\ idle \in SUBSET pending
      /\ delivered \in 0..Len(log) /\ delivered \in Nat /\ delivered <= delivered
  BY DEF IInv, TypeOK
<1>4. \A i \in 1..delivered : i > floor /\ i \notin pending' => Linked(i)
  BY <1>1 DEF IInv, AcknowledgedIsPersisted
<1>5. faults' \in 0..MaxFaults /\ faults <= faults'
  BY FaultCounted, ProcFields DEF Acknowledge
<1>6. Delivers
  BY <1>1, <1>3, <1>4, <1>5 DEF Delivers, OnlyNewPending
<1>7. CASE proc' = [proc EXCEPT ![s].step = "next", ![s].batch = @ \ {id}]
  <2>1. proc' = [proc EXCEPT ![s] = q]
    BY <1>1, <1>7
  <2>2. /\ q \in Proc /\ q.main = p.main /\ q.loop = p.loop /\ q.step = "next"
        /\ q.batch = p.batch \ {id} /\ q.count = p.count /\ q.inflight = p.inflight
        /\ q.drained = p.drained
    BY ProcFields DEF Proc
  <2>3. p.main \notin {"new", "ended"} /\ session'[s] = "open"
    BY <1>1, AliveRuns
  <2> HIDE DEF q
  <2>4. -2 * faults' <= q.count
    BY <1>5, <2>2, RunningRules, ProcFields
  <2>5. q.batch \subseteq 1..delivered'
    BY <1>1, <2>2
  <2>6. Becomes(s, q)
    BY <1>1, <2>1, <2>2, <2>3, <2>4, <2>5, RunningRules DEF Becomes
  <2>7. ASSUME Counted PROVE SelfCounted(s)
    <3>1. proc'[s] = q
      BY <1>1, <2>1
    <3>2. SUFFICES ASSUME Sound(q)
          PROVE  Cardinality(Outstanding(s)') + Cardinality(Unadded(proc'[s])) <= proc'[s].count
      BY <3>1 DEF SelfCounted
    <3>3. Sound(p) /\ Unadded(q) = Unadded(p)
      BY <2>2, <3>2 DEF Sound, Unadded
    <3>4. Acknowledging(s)' = {} /\ Acknowledging(s) = {id}
      BY <1>0, <1>1, <2>2, <3>1 DEF Acknowledging
    <3>5. \A i : Own(s)' = Own(s) /\ Linked(i)' = Linked(i)
      BY <1>1 DEF Own, Linked
    <3>6. id \notin Outstanding(s)'
      <4>1. ~(id > delivered)
        BY <1>2, <1>3
      <4> QED
        BY <1>1, <2>2, <3>1, <3>5, <4>1 DEF Outstanding
    <3>7. Outstanding(s)' \in SUBSET Outstanding(s)
      BY <1>1, <2>2, <3>1, <3>4, <3>5, <3>6 DEF Outstanding
    <3>8. /\ Cardinality(Unadded(proc'[s])) \in Int /\ proc'[s].count \in Int
          /\ p.count - Cardinality(Unadded(p)) <= proc'[s].count - Cardinality(Unadded(proc'[s]))
      BY <2>2, <3>1, <3>3, InFlight, ProcFields
    <3> QED
      BY <2>7, <3>3, <3>7, <3>8, SelfStaysCounted
  <2> QED
    BY <1>6, <2>6, <2>7, DeliverStep
<1>8. CASE proc' = [proc EXCEPT ![s] = LoopFailed(p)]
  BY <1>1, <1>6, <1>8, DeliverFails
<1> QED
  BY <1>0, <1>7, <1>8 DEF Acknowledge

-----------------------------------------------------------------------------
(* Persisting an entry.                                                     *)

\* A persisted event is in the ledger once, and the linked events are those of
\* the ledger.
LEMMA PersistedOnce ==
  ASSUME TypeOK, OncePerEvent, NEW entry \in Entry, Persisted(entry)
  PROVE  /\ OncePerEvent' /\ ledger' \in Seq(Event) /\ links' \in SUBSET (Session \X Event)
         /\ links \subseteq links' /\ <<entry.session, entry.event>> \in links'
<1> DEFINE e == entry.event
<1>1. /\ entry.session \in Session /\ e \in Event /\ ledger \in Seq(Event)
      /\ links \in SUBSET (Session \X Event)
  BY DEF TypeOK, Entry
<1>2. links' = links \cup {<<entry.session, e>>}
  BY DEF Persisted
<1>3. {link[2] : link \in links'} = {link[2] : link \in links} \cup {e}
  <2>1. <<entry.session, e>>[2] = e
    OBVIOUS
  <2> DEFINE l == <<entry.session, e>>
  <2> HIDE DEF l
  <2>2. {link[2] : link \in links \cup {l}} = {link[2] : link \in links} \cup {l[2]}
    OBVIOUS
  <2> QED
    BY <1>2, <2>1, <2>2 DEF l
<1>4. {ledger[i] : i \in DOMAIN ledger} = {link[2] : link \in links}
  BY DEF OncePerEvent, ToSet
<1>5. CASE e \in ToSet(ledger)
  <2>1. ledger' = ledger
    BY <1>5 DEF Persisted
  <2>2. {link[2] : link \in links'} = {link[2] : link \in links}
    <3>1. e \in {link[2] : link \in links}
      BY <1>4, <1>5 DEF ToSet
    <3> QED
      BY <1>3, <3>1
  <2>3. ToSet(ledger) = {link[2] : link \in links'}
    BY <2>2 DEF OncePerEvent
  <2>4. OncePerEvent'
    BY <2>1, <2>3 DEF OncePerEvent
  <2> QED
    BY <1>1, <1>2, <2>1, <2>4
<1>6. CASE e \notin ToSet(ledger)
  <2>1. ledger' = Append(ledger, e) /\ \A i \in DOMAIN ledger : ledger[i] # e
    BY <1>6 DEF Persisted, ToSet
  <2> DEFINE n == Len(ledger) + 1
  <2>2. /\ ledger' \in Seq(Event) /\ DOMAIN ledger = 1..Len(ledger) /\ DOMAIN ledger' = 1..n
        /\ ledger'[n] = e /\ \A i \in 1..Len(ledger) : ledger'[i] = ledger[i]
        /\ Len(ledger) \in Nat
    BY <1>1, <2>1
  <2>3. \A i \in 1..n : i = n \/ i \in 1..Len(ledger)
    BY <2>2
  <2>4. \A i \in 1..Len(ledger) : i \in 1..n
    BY <2>2
  <2>5. n \in 1..n
    BY <2>2
  <2> HIDE DEF n
  <2>6. \A i, j \in DOMAIN ledger' : ledger'[i] = ledger'[j] => i = j
    BY <2>1, <2>2, <2>3 DEF OncePerEvent
  <2>7. {ledger'[i] : i \in DOMAIN ledger'} = {ledger[i] : i \in DOMAIN ledger} \cup {e}
    BY <2>2, <2>3, <2>4, <2>5
  <2>8. ToSet(ledger') = {link[2] : link \in links'}
    BY <1>3, <1>4, <2>7 DEF ToSet
  <2>9. OncePerEvent'
    BY <2>6, <2>8 DEF OncePerEvent, ToSet
  <2> QED
    BY <1>1, <1>2, <2>2, <2>9
<1> QED
  BY <1>5, <1>6

(* What a step of the handler leaves to the tables.                         *)
Tables ==
  /\ UNCHANGED <<stream, session>> /\ faults' \in 0..MaxFaults /\ faults <= faults'
  /\ OncePerEvent' /\ ledger' \in Seq(Event)
  /\ links' \in SUBSET (Session \X Event) /\ links \subseteq links'

LEMMA TableStep ==
  ASSUME IInv, NEW s \in Session, NEW q, Becomes(s, q), Tables, Counted => SelfCounted(s)
  PROVE  IInv' /\ (Counted => Counted')
<1>1. /\ log' = log /\ floor' = floor /\ delivered' = delivered /\ pending' = pending /\ idle' = idle
      /\ log \in Seq(Entry) /\ Len(log) \in Nat /\ session' = session /\ delivered \in Nat
      /\ session \in [Session -> {"none", "open", "closed"}]
  BY DEF Tables, IInv, TypeOK, stream
<1>2. \A t \in Session : Own(t)' = Own(t)
  BY <1>1 DEF Own
<1>3. \A id : Linked(id) => Linked(id)'
  BY <1>1 DEF Linked, Tables
<1>4. Grows(s)
  BY <1>1, <1>2 DEF Grows, Tables
<1>5. TypeOK'
  BY <1>1, <1>4, OthersStayRight DEF IInv, TypeOK, Tables
<1>6. AcknowledgedIsPersisted'
  BY <1>1, <1>3 DEF IInv, AcknowledgedIsPersisted
<1>7. IInv'
  BY <1>4, <1>5, <1>6, OthersStayRight DEF IInv, Tables
<1>8. OnlyNewPending
  BY <1>1 DEF OnlyNewPending
<1> QED
  BY <1>4, <1>7, <1>8, AllCounted

\* The handler resolves: an entry of the process's own session is counted
\* down, and leaves what is outstanding.
LEMMA HandledStep ==
  ASSUME IInv, NEW s \in Session, proc[s].step = "persist", NEW id, id = Current(proc[s]),
         NEW entry, entry = log[id], Persisted(entry), UNCHANGED <<stream, session, faults>>,
         proc' = [proc EXCEPT ![s] = Handled(s, proc[s], entry)]
  PROVE  IInv' /\ (Counted => Counted')
<1> DEFINE p == proc[s]
           own == entry.session = s
           q == Handled(s, p, entry)
<1>1. /\ p.loop \in {"claimed", "fetched"} /\ p.batch # {} /\ p.batch \subseteq 1..delivered
      /\ p.main \notin {"new", "ended"} /\ session[s] = "open"
  BY RunningRules, AliveRuns
<1>2. id \in p.batch /\ id \in DOMAIN log /\ entry \in Entry
  BY <1>1, CurrentIsDelivered DEF IInv
<1>3. /\ OncePerEvent' /\ ledger' \in Seq(Event) /\ links' \in SUBSET (Session \X Event)
      /\ links \subseteq links' /\ <<entry.session, entry.event>> \in links'
  BY <1>2, PersistedOnce DEF IInv
<1>4. /\ delivered' = delivered /\ log' = log /\ pending' = pending /\ session' = session
      /\ faults' = faults /\ faults' \in 0..MaxFaults /\ faults <= faults'
  BY RunningRules DEF stream
<1>5. Tables
  BY <1>3, <1>4 DEF Tables
<1> DEFINE c == IF own /\ p.count > 0 THEN p.count - 1 ELSE p.count
<1>6. c \in -2 * MaxFaults..QueueCapacity /\ -2 * faults' <= c /\ c <= QueueCapacity
      /\ (p.count = 0 => c = 0)
  BY <1>4, RunningRules, ProcFields
<1>7. q = [p EXCEPT !.step = "ack", !.count = c]
  BY DEF Handled
<1> HIDE DEF c, q
<1>8. /\ q \in Proc /\ q.main = p.main /\ q.loop = p.loop /\ q.step = "ack" /\ q.batch = p.batch
      /\ q.count = c /\ q.inflight = p.inflight /\ q.drained = p.drained
  BY <1>6, <1>7, ProcFields DEF Proc
<1>9. Current(q) = id
  BY <1>8 DEF Current
<1>10. Becomes(s, q)
  <2>1. proc' = [proc EXCEPT ![s] = q]
    BY DEF q
  <2>2. q.drained => q.count = 0 /\ q.main \in {"joining", "closing"}
    BY <1>6, <1>8, RunningRules
  <2> QED
    BY <1>1, <1>3, <1>4, <1>6, <1>8, <1>9, <2>1, <2>2, RunningRules DEF Becomes
<1>11. ASSUME Counted PROVE SelfCounted(s)
  <2>1. proc'[s] = q
    BY <1>10 DEF Becomes, IInv, TypeOK
  <2>2. SUFFICES ASSUME Sound(q)
        PROVE  Cardinality(Outstanding(s)') + Cardinality(Unadded(q)) <= q.count
    BY <2>1 DEF SelfCounted
  <2>3. Sound(p) /\ Unadded(q) = Unadded(p)
    BY <1>8, <2>2 DEF Sound, Unadded
  <2>4. Acknowledging(s)' = {id} /\ Acknowledging(s) = {}
    BY <1>8, <1>9, <2>1 DEF Acknowledging
  <2>5. /\ Own(s)' = Own(s)
        /\ \A i : Linked(i) => Linked(i)'
    BY <1>3, <1>4 DEF Own, Linked
  <2>6. Outstanding(s)' \in SUBSET (Outstanding(s) \ {id})
    BY <1>4, <1>8, <2>1, <2>4, <2>5 DEF Outstanding
  <2>7. own => id \in Outstanding(s)
    BY <1>2, <2>4 DEF Outstanding, Own
  <2> DEFINE A == Outstanding(s)
             B == Outstanding(s)'
  <2>8. /\ IsFiniteSet(A) /\ B \in SUBSET (A \ {id}) /\ (own => id \in A)
        /\ Cardinality(A) + Cardinality(Unadded(p)) <= p.count
    BY <1>11, <2>3, <2>6, <2>7, OutstandingIsFinite DEF IInv, Counted
  <2> HIDE DEF A, B
  <2>9. Cardinality(A) \in Nat /\ Cardinality(Unadded(p)) \in Nat /\ p.count \in Int
    BY <2>8, FS_CardinalityType, InFlight, ProcFields
  <2>10. CASE own
    <3>1. IsFiniteSet(A \ {id}) /\ Cardinality(A \ {id}) = Cardinality(A) - 1
      BY <2>8, <2>10, FS_RemoveElement
    <3>2. IsFiniteSet(B) /\ Cardinality(B) <= Cardinality(A \ {id})
      BY <2>8, <3>1, FS_Subset
    <3>3. Cardinality(B) \in Nat
      BY <3>2, FS_CardinalityType
    <3>4. Cardinality(A) >= 1
      BY <2>9, <3>1, <3>2, <3>3
    <3>5. c = p.count - 1
      BY <2>8, <2>9, <2>10, <3>4 DEF c
    <3>6. Cardinality(B) + Cardinality(Unadded(p)) <= c
      BY <2>8, <2>9, <3>1, <3>2, <3>3, <3>5
    <3> QED
      BY <1>8, <2>3, <3>6 DEF B
  <2>11. CASE ~own
    <3>1. B \in SUBSET A
      BY <2>8
    <3>2. IsFiniteSet(B) /\ Cardinality(B) <= Cardinality(A) /\ Cardinality(B) \in Nat
      BY <2>8, <3>1, FS_Subset, FS_CardinalityType
    <3>3. c = p.count
      BY <2>11 DEF c
    <3>4. Cardinality(B) + Cardinality(Unadded(p)) <= c
      BY <2>8, <2>9, <3>2, <3>3
    <3> QED
      BY <1>8, <2>3, <3>4 DEF B
  <2> QED
    BY <2>10, <2>11
<1> QED
  BY <1>5, <1>10, <1>11, TableStep

LEMMA HandleEntryStep ==
  ASSUME IInv, NEW s \in Session, HandleEntry(s)
  PROVE  IInv' /\ (Counted => Counted')
<1>1. PICK id : id = Current(proc[s])
  OBVIOUS
<1>2. PICK entry : entry = log[id]
  OBVIOUS
<1>3. /\ proc[s].step = "persist" /\ proc[s].batch # {} /\ proc[s].batch \subseteq 1..delivered
      /\ UNCHANGED <<stream, session>> /\ proc[s].main \notin {"new", "ended"}
  BY RunningRules, AliveRuns DEF HandleEntry
<1>4. entry \in Entry
  BY <1>1, <1>2, <1>3, CurrentIsDelivered DEF IInv
<1>5. CASE Persisted(entry) /\ UNCHANGED faults /\ proc' = [proc EXCEPT ![s] = Handled(s, @, entry)]
  BY <1>1, <1>2, <1>3, <1>5, HandledStep
<1>6. CASE /\ Persisted(entry) \/ UNCHANGED <<ledger, links>>
           /\ Fault \/ UNCHANGED faults
           /\ proc' = [proc EXCEPT ![s] = LoopFailed(proc[s])]
  <2>1. /\ OncePerEvent' /\ ledger' \in Seq(Event) /\ links' \in SUBSET (Session \X Event)
        /\ links \subseteq links'
    <3>1. CASE Persisted(entry)
      BY <1>4, <3>1, PersistedOnce DEF IInv
    <3>2. CASE UNCHANGED <<ledger, links>>
      BY <3>2 DEF IInv, TypeOK, OncePerEvent
    <3> QED
      BY <1>6, <3>1, <3>2
  <2>2. /\ faults' \in 0..MaxFaults /\ faults <= faults'
        /\ delivered' \in Nat /\ session' = session
    BY <1>3, <1>6, FaultCounted, RunningRules, ProcFields DEF stream
  <2>3. Tables
    BY <1>3, <2>1, <2>2 DEF Tables
  <2>4. Becomes(s, LoopFailed(proc[s])) /\ LoopFailed(proc[s]).loop = "failed"
    BY <1>3, <1>6, <2>2, FailingIsRight
  <2>5. proc'[s] = LoopFailed(proc[s])
    BY <1>6 DEF IInv, TypeOK
  <2>6. SelfCounted(s)
    BY <2>4, <2>5 DEF SelfCounted, Sound
  <2> QED
    BY <2>3, <2>4, <2>6, TableStep
<1> QED
  BY <1>1, <1>2, <1>5, <1>6 DEF HandleEntry, HandlerFailed

-----------------------------------------------------------------------------
(* The invariants.                                                          *)

LEMMA InitInvariant ==
  ASSUME Init
  PROVE  IInv /\ Counted /\ ClosedIsPersisted
<1>1. /\ log = <<>> /\ log \in Seq(Entry) /\ Len(log) = 0 /\ DOMAIN log = {} /\ ledger = <<>>
      /\ ledger \in Seq(Event) /\ DOMAIN ledger = {} /\ links = {} /\ 1..0 = {}
  BY DEF Init
<1>2. 0 \in 0..MaxFaults /\ 0 \in 0..0 /\ -2 * 0 <= 0 /\ 0 <= QueueCapacity
  BY BoundsAssumption
<1>3. /\ \A s \in Session : proc[s] = Fresh /\ session[s] = "none" /\ Own(s) = {}
      /\ proc \in [Session -> Proc] /\ session \in [Session -> {"none", "open", "closed"}]
  BY <1>1, GoneFields DEF Init, Own
<1>4. ToSet(ledger) = {link[2] : link \in links}
  <2>1. ToSet(ledger) = {} /\ {link[2] : link \in links} = {}
    BY <1>1 DEF ToSet
  <2> QED
    BY <2>1
<1>5. TypeOK
  BY <1>1, <1>2, <1>3 DEF TypeOK, Init
<1>6. ProcessRight /\ LoopRight
  BY <1>1, <1>2, <1>3, GoneFields DEF ProcessRight, LoopRight, Init
<1>7. AcknowledgedIsPersisted /\ OncePerEvent
  BY <1>1, <1>4 DEF AcknowledgedIsPersisted, OncePerEvent, Init
<1>8. Counted /\ ClosedIsPersisted
  BY <1>3, GoneFields DEF Counted, Sound, ClosedIsPersisted
<1> QED
  BY <1>5, <1>6, <1>7, <1>8 DEF IInv

\* A step of one process leaves the memory of the others alone.
LEMMA OneProcessMoves ==
  ASSUME IInv, NEW s \in Session,
         \/ OpenInterrupted(s) \/ Reconnect(s) \/ RequestStop(s) \/ Crash(s)
         \/ CloseIntake(s) \/ EndDrain(s) \/ JoinLoop(s) \/ CloseSession(s)
         \/ StopLoop(s) \/ NextEntry(s) \/ AcknowledgeUnsent(s)
         \/ \E e \in Event : StartPublish(s, e)
         \/ \E x \in proc[s].inflight : PublishConfirmed(s, x) \/ PublishLost(s, x)
  PROVE  UNCHANGED <<stream, links>> /\ \A t \in Session : t # s => proc'[t] = proc[t]
<1>1. proc \in [Session -> Proc]
  BY DEF IInv, TypeOK
<1>2. CASE OpenInterrupted(s) \/ Crash(s) \/ CloseSession(s)
  BY <1>1, <1>2 DEF OpenInterrupted, Crash, CloseSession, database
<1>3. CASE Reconnect(s)
  BY <1>1, <1>3 DEF Reconnect, database
<1>4. CASE RequestStop(s) \/ EndDrain(s)
  BY <1>1, <1>4 DEF RequestStop, EndDrain, database
<1>5. CASE CloseIntake(s)
  BY <1>1, <1>5 DEF CloseIntake, database
<1>6. CASE JoinLoop(s)
  BY <1>1, <1>6 DEF JoinLoop, database
<1>7. CASE StopLoop(s) \/ NextEntry(s) \/ AcknowledgeUnsent(s)
  BY <1>1, <1>7 DEF StopLoop, NextEntry, AcknowledgeUnsent, database
<1>8. CASE \E e \in Event : StartPublish(s, e)
  BY <1>1, <1>8 DEF StartPublish, database
<1>9. CASE \E x \in proc[s].inflight : PublishConfirmed(s, x)
  BY <1>1, <1>9 DEF PublishConfirmed, database
<1>10. CASE \E x \in proc[s].inflight : PublishLost(s, x)
  BY <1>1, <1>10 DEF PublishLost, database
<1> QED
  BY <1>2, <1>3, <1>4, <1>5, <1>6, <1>7, <1>8, <1>9, <1>10

\* A process that opens its session has nothing in the stream yet.
LEMMA OpenCounted ==
  ASSUME IInv, Counted, NEW s \in Session, Open(s)
  PROVE  Counted'
<1>1. /\ proc[s] = Fresh /\ Own(s) = {} /\ proc \in [Session -> Proc]
      /\ UNCHANGED <<stream, links>>
  BY DEF Open, IInv, ProcessRight, TypeOK
<1>2. /\ \A t \in Session : Own(t)' = Own(t)
      /\ \A id : Linked(id)' = Linked(id)
      /\ pending' = pending /\ delivered' = delivered
  BY <1>1 DEF Own, Linked, stream
<1>3. SUFFICES ASSUME NEW t \in Session, Sound(proc'[t])
      PROVE  Cardinality(Outstanding(t)') + Cardinality(Unadded(proc'[t])) <= proc'[t].count
  BY DEF Counted
<1>4. CASE t # s
  <2>1. proc'[t] = proc[t]
    BY <1>1, <1>4 DEF Open
  <2>2. Outstanding(t)' = Outstanding(t)
    BY <1>2, <2>1 DEF Outstanding, Acknowledging, Current
  <2> QED
    BY <1>3, <2>1, <2>2 DEF Counted
<1>5. CASE t = s
  <2>1. proc'[s].inflight = {} /\ proc'[s].count = 0
    BY <1>1, GoneFields DEF Open, Proc
  <2>2. Outstanding(s)' = {} /\ Unadded(proc'[s]) = {}
    BY <1>1, <1>2, <2>1 DEF Outstanding, Unadded
  <2> QED
    BY <1>5, <2>1, <2>2, FS_EmptySet
<1> QED
  BY <1>4, <1>5

\* Every step keeps the invariant, and the counts unless a reply to an
\* executed XADD may be lost.
LEMMA NextInvariant ==
  ASSUME IInv, Next
  PROVE  IInv' /\ (~LostPublishes /\ Counted => Counted')
<1>1. CASE BecomeIdle
  BY <1>1, BecomeIdleStep
<1>2. ASSUME NEW s \in Session, Open(s)
      PROVE  IInv' /\ (Counted => Counted')
  BY <1>2, OpenStep, OpenCounted
<1>3. ASSUME NEW s \in Session,
             \/ OpenInterrupted(s) \/ Reconnect(s) \/ RequestStop(s) \/ Crash(s)
             \/ CloseIntake(s) \/ EndDrain(s) \/ JoinLoop(s) \/ CloseSession(s)
             \/ StopLoop(s) \/ NextEntry(s) \/ AcknowledgeUnsent(s)
             \/ \E e \in Event : StartPublish(s, e)
             \/ \E x \in proc[s].inflight : PublishConfirmed(s, x) \/ PublishLost(s, x)
      PROVE  IInv' /\ (~LostPublishes /\ Counted => Counted')
  <2>1. IInv' /\ (~LostPublishes => CountKept(s))
    BY <1>3, OpenInterruptedStep, ReconnectStep, RequestStopStep, CrashStep, CloseIntakeStep,
       EndDrainStep, JoinLoopStep, CloseSessionStep, StopLoopStep, NextEntryStep,
       AcknowledgeUnsentStep, StartPublishStep, PublishConfirmedStep, PublishLostStep
  <2>2. UNCHANGED <<stream, links>> /\ \A t \in Session : t # s => proc'[t] = proc[t]
    BY <1>3, OneProcessMoves
  <2> QED
    BY <2>1, <2>2, QuietCounted
<1>4. ASSUME NEW s \in Session,
             \/ ClaimPending(s) \/ ReadNew(s) \/ HandleEntry(s) \/ Acknowledge(s)
             \/ \E x \in proc[s].inflight : AddEntry(s, x)
      PROVE  IInv' /\ (Counted => Counted')
  BY <1>4, ClaimPendingStep, ReadNewStep, HandleEntryStep, AcknowledgeStep, AddEntryStep
<1> QED
  BY <1>1, <1>2, <1>3, <1>4 DEF Next, LoopStep, PublishStep

LEMMA StutterInvariant ==
  ASSUME IInv, UNCHANGED vars
  PROVE  /\ IInv' /\ (Counted => Counted') /\ (ClosedIsPersisted => ClosedIsPersisted')
<1>1. UNCHANGED <<log, floor, delivered, pending, idle, session, ledger, links, proc, faults>>
  BY DEF vars, stream, database
<1>2. /\ \A t \in Session : Own(t)' = Own(t) /\ Acknowledging(t)' = Acknowledging(t)
      /\ \A id : Linked(id)' = Linked(id)
  BY <1>1 DEF Own, Acknowledging, Current, Linked
<1>3. \A t \in Session : Outstanding(t)' = Outstanding(t)
  BY <1>1, <1>2 DEF Outstanding
<1>4. TypeOK' /\ OncePerEvent' /\ AcknowledgedIsPersisted' /\ ProcessRight' /\ LoopRight'
  BY <1>1, <1>2 DEF IInv, TypeOK, OncePerEvent, AcknowledgedIsPersisted, ProcessRight, LoopRight
<1> QED
  BY <1>1, <1>2, <1>3, <1>4 DEF IInv, Counted, ClosedIsPersisted

\* What a step may do to the entries and the sessions: links are never taken
\* back, only Redis adds an entry, and a session is closed only by a process
\* that may close it.
LEMMA StepEffects ==
  ASSUME IInv, Next
  PROVE  /\ links \subseteq links'
         /\ log' = log \/ \E s \in Session : \E x \in proc[s].inflight : AddEntry(s, x)
         /\ \A t \in Session : session'[t] = "closed" /\ session[t] # "closed" =>
              log' = log /\ proc[t].main = "closing" /\ MayClose(proc[t])
<1>0. session \in [Session -> {"none", "open", "closed"}]
  BY DEF IInv, TypeOK
<1>1. CASE BecomeIdle
  BY <1>1 DEF BecomeIdle, database
<1>2. ASSUME NEW s \in Session, Open(s) \/ OpenInterrupted(s)
      PROVE  UNCHANGED <<log, links>> /\ \A t \in Session : session'[t] \in {session[t], "open"}
  BY <1>0, <1>2 DEF Open, OpenInterrupted, stream
<1>3. ASSUME NEW s \in Session, CloseSession(s)
      PROVE  /\ UNCHANGED <<log, links>>
             /\ \A t \in Session :
                  \/ session'[t] = session[t]
                  \/ t = s /\ proc[t].main = "closing" /\ MayClose(proc[t])
  <2>1. UNCHANGED <<log, links>> /\ proc[s].main = "closing"
    BY <1>3 DEF CloseSession, stream
  <2>2. \/ MayClose(proc[s]) /\ session' = [session EXCEPT ![s] = "closed"]
        \/ session' = session
    BY <1>3 DEF CloseSession
  <2>3. CASE MayClose(proc[s]) /\ session' = [session EXCEPT ![s] = "closed"]
    <3>1. \A t \in Session : t = s \/ session'[t] = session[t]
      BY <1>0, <2>3
    <3>2. \A t \in Session : t = s => proc[t].main = "closing" /\ MayClose(proc[t])
      BY <2>1, <2>3
    <3> QED
      BY <2>1, <3>1, <3>2
  <2> QED
    BY <2>1, <2>2, <2>3
<1>4. ASSUME NEW s \in Session,
             \/ Reconnect(s) \/ RequestStop(s) \/ Crash(s) \/ CloseIntake(s) \/ EndDrain(s)
             \/ JoinLoop(s) \/ StopLoop(s) \/ NextEntry(s) \/ AcknowledgeUnsent(s)
             \/ ClaimPending(s) \/ ReadNew(s) \/ Acknowledge(s)
      PROVE  UNCHANGED <<log, links, session>>
  BY <1>4 DEF Reconnect, RequestStop, Crash, CloseIntake, EndDrain, JoinLoop, StopLoop, NextEntry,
     AcknowledgeUnsent, ClaimPending, ReadNew, Acknowledge, stream, database
<1>5. ASSUME NEW s \in Session, NEW e \in Event, StartPublish(s, e)
      PROVE  UNCHANGED <<log, links, session>>
  BY <1>5 DEF StartPublish, stream, database
<1>6. ASSUME NEW s \in Session, NEW x, PublishConfirmed(s, x) \/ PublishLost(s, x)
      PROVE  UNCHANGED <<log, links, session>>
  BY <1>6 DEF PublishConfirmed, PublishLost, stream, database
<1>7. ASSUME NEW s \in Session, NEW x \in proc[s].inflight, AddEntry(s, x)
      PROVE  UNCHANGED <<links, session>>
  BY <1>7 DEF AddEntry, database
<1>8. ASSUME NEW s \in Session, HandleEntry(s)
      PROVE  UNCHANGED <<log, session>> /\ links \subseteq links'
  BY <1>8 DEF HandleEntry, Persisted, stream
<1>9. CASE \E s \in Session : Open(s) \/ OpenInterrupted(s) \/ CloseSession(s)
  BY <1>2, <1>3, <1>9
<1>10. CASE \E s \in Session : \E x \in proc[s].inflight : AddEntry(s, x)
  BY <1>7, <1>10
<1>11. CASE UNCHANGED <<log, session>> /\ links \subseteq links'
  BY <1>11
<1> QED
  BY <1>1, <1>4, <1>5, <1>6, <1>8, <1>9, <1>10, <1>11 DEF Next, LoopStep, PublishStep

\* A process that may close its session has nothing outstanding, and nothing
\* is published under a closed session.
LEMMA ClosedStep ==
  ASSUME IInv, Counted, ClosedIsPersisted, Next
  PROVE  ClosedIsPersisted'
<1>1. SUFFICES ASSUME NEW t \in Session, session'[t] = "closed", NEW id \in Own(t)'
      PROVE  Linked(id)'
  BY DEF ClosedIsPersisted
<1>2. links \subseteq links'
  BY StepEffects
<1>3. CASE log' = log
  <2>1. id \in Own(t) /\ (Linked(id) => Linked(id)')
    BY <1>1, <1>2, <1>3 DEF Own, Linked
  <2>2. CASE session[t] = "closed"
    BY <2>1, <2>2 DEF ClosedIsPersisted
  <2>3. CASE session[t] # "closed"
    <3>1. proc[t].main = "closing" /\ proc[t].drained /\ proc[t].loop = "done"
      BY <1>1, <2>3, StepEffects DEF MayClose
    <3>2. Sound(proc[t]) /\ proc[t].count = 0 /\ proc[t].step # "ack"
      BY <3>1, RunningRules DEF Sound
    <3> DEFINE A == Outstanding(t)
    <3>3. Cardinality(A) + Cardinality(Unadded(proc[t])) <= 0 /\ IsFiniteSet(A)
      BY <3>2, OutstandingIsFinite DEF Counted, IInv
    <3> HIDE DEF A
    <3>4. Cardinality(A) \in Nat /\ Cardinality(Unadded(proc[t])) \in Nat
      BY <3>3, FS_CardinalityType, InFlight
    <3>5. Cardinality(A) = 0
      BY <3>3, <3>4
    <3>6. A = {}
      BY <3>3, <3>5, FS_EmptySet
    <3> QED
      BY <2>1, <3>2, <3>6 DEF A, Outstanding, Acknowledging
  <2> QED
    BY <2>2, <2>3
<1>4. CASE log' # log
  <2>1. PICK s \in Session : \E x \in proc[s].inflight : AddEntry(s, x)
    BY <1>4, StepEffects
  <2>2. PICK x \in proc[s].inflight : AddEntry(s, x)
    BY <2>1
  <2>3. session' = session /\ log' = Append(log, [session |-> s, event |-> x.event])
    BY <2>2 DEF AddEntry, database
  <2>4. proc[s].main \in {"running", "stopping"}
    BY <2>2, RunningRules
  <2>5. session[t] = "closed" /\ proc[t].main = "ended" /\ t # s
    BY <1>1, <2>3, <2>4 DEF IInv, ProcessRight
  <2>6. log \in Seq(Entry) /\ Len(log) \in Nat
    BY DEF IInv, TypeOK
  <2>7. id \in DOMAIN log /\ log'[id] = log[id] /\ log[id].session = t
    BY <2>3, <2>5, <2>6 DEF Own
  <2> QED
    BY <1>2, <2>5, <2>7 DEF ClosedIsPersisted, Own, Linked
<1> QED
  BY <1>3, <1>4

-----------------------------------------------------------------------------
(* The theorems.                                                            *)

(* The inductive invariant holds in every reachable state: the memory of a  *)
(* process agrees with its session, and its loop with the stream.           *)
THEOREM Invariance == Spec => []IInv
<1>1. Init => IInv
  BY InitInvariant
<1>2. IInv /\ [Next]_vars => IInv'
  BY NextInvariant, StutterInvariant
<1> QED
  BY <1>1, <1>2, PTL DEF Spec

(* Types are kept: no counter, id or batch leaves its range.                *)
THEOREM TypeCorrect == Spec => []TypeOK
<1>1. IInv => TypeOK
  BY DEF IInv
<1> QED
  BY <1>1, Invariance, PTL

(* However often a bar is redelivered, or persisted by two processes, it is *)
(* in the ledger once, and the ledger holds exactly the linked events.      *)
THEOREM AlwaysOncePerEvent == Spec => []OncePerEvent
<1>1. IInv => OncePerEvent
  BY DEF IInv
<1> QED
  BY <1>1, Invariance, PTL

(* An entry that left the pending list was persisted or trimmed away, even  *)
(* when replies are lost.                                                   *)
THEOREM AlwaysAcknowledgedIsPersisted == Spec => []AcknowledgedIsPersisted
<1>1. IInv => AcknowledgedIsPersisted
  BY DEF IInv
<1> QED
  BY <1>1, Invariance, PTL

(* An entry never leaves the pending list unpersisted without failing the   *)
(* loop of a live process (parseClaimResponse): a pending entry that was    *)
(* trimmed away is reported.                                                *)
THEOREM PendingGapsAreExplicit == Spec => PendingGapIsExplicit
<1> DEFINE A == \A id \in pending \ pending' : Linked(id) \/ LoopFails
<1>1. ASSUME IInv, Next PROVE A
  <2>0. proc \in [Session -> Proc]
    BY <1>1 DEF IInv, TypeOK
  <2>1. CASE pending \subseteq pending'
    BY <2>1
  <2>2. ASSUME NEW s \in Session, Acknowledge(s) PROVE A
    <3>1. pending' = pending \ {Current(proc[s])} /\ Linked(Current(proc[s]))
      BY <1>1, <2>2, RunningRules DEF Acknowledge
    <3> QED
      BY <3>1
  <2>3. ASSUME NEW s \in Session, ClaimPending(s) PROVE A
    <3> DEFINE deleted == {id \in Claimable : id <= floor}
    <3>1. pending' = pending \ deleted /\ proc[s].loop = "claim"
      BY <2>3 DEF ClaimPending
    <3>2. CASE deleted = {}
      BY <3>1, <3>2
    <3>3. CASE deleted # {}
      <4>1. proc' = [proc EXCEPT ![s] = LoopFailed(proc[s])]
        BY <2>3, <3>3 DEF ClaimPending, Reported
      <4>2. proc'[s].loop = "failed"
        BY <1>1, <2>0, <4>1, ProcFields, LoopFailedFields
      <4> QED
        BY <3>1, <4>2 DEF Alive, LoopFails
    <3> QED
      BY <3>2, <3>3
  <2>4. ASSUME NEW s \in Session,
               \/ Open(s) \/ OpenInterrupted(s) \/ Reconnect(s) \/ RequestStop(s) \/ Crash(s)
               \/ CloseIntake(s) \/ EndDrain(s) \/ JoinLoop(s) \/ CloseSession(s)
               \/ StopLoop(s) \/ NextEntry(s) \/ AcknowledgeUnsent(s) \/ HandleEntry(s)
        PROVE  pending' = pending
    BY <2>4 DEF Open, OpenInterrupted, Reconnect, RequestStop, Crash, CloseIntake, EndDrain,
       JoinLoop, CloseSession, StopLoop, NextEntry, AcknowledgeUnsent, HandleEntry, stream
  <2>5. ASSUME NEW s \in Session, NEW x, AddEntry(s, x) \/ PublishConfirmed(s, x) \/ PublishLost(s, x)
        PROVE  pending' = pending
    BY <2>5 DEF AddEntry, PublishConfirmed, PublishLost, stream
  <2>6. ASSUME NEW s \in Session, NEW e \in Event, StartPublish(s, e) PROVE pending' = pending
    BY <2>6 DEF StartPublish, stream
  <2>7. ASSUME NEW s \in Session, ReadNew(s) PROVE pending \subseteq pending'
    BY <2>7 DEF ReadNew
  <2>8. CASE BecomeIdle
    BY <2>1, <2>8 DEF BecomeIdle
  <2> HIDE DEF A
  <2> QED
    BY <1>1, <2>1, <2>2, <2>3, <2>4, <2>5, <2>6, <2>7, <2>8 DEF Next, LoopStep, PublishStep
<1>2. IInv /\ [Next]_vars => [A]_vars
  BY <1>1
<1> QED
  BY <1>2, Invariance, PTL DEF PendingGapIsExplicit, Spec

(* Unless the reply to an executed XADD is lost, nothing but trimming loses *)
(* an entry between the stream and the tables: what was acknowledged is     *)
(* persisted, no session is closed over what is not, and a process that     *)
(* thinks itself drained is.                                                *)
THEOREM NothingIsEverLost ==
  ASSUME ~LostPublishes
  PROVE  Spec => []NothingIsLost
<1> DEFINE CInv == IInv /\ Counted /\ ClosedIsPersisted
<1>1. Init => CInv
  BY InitInvariant
<1>2. CInv /\ [Next]_vars => CInv'
  BY NextInvariant, ClosedStep, StutterInvariant
<1>3. CInv => NothingIsLost
  <2>1. SUFFICES ASSUME CInv PROVE UnpersistedIsRecoverable /\ UnpersistedAreCounted
    BY DEF NothingIsLost, IInv
  <2>2. UnpersistedIsRecoverable
    <3>1. SUFFICES ASSUME NEW id \in DOMAIN log, ~Linked(id) PROVE session[log[id].session] = "open"
      BY DEF UnpersistedIsRecoverable
    <3>2. log[id].session \in Session
      <4>1. log \in Seq(Entry)
        BY <2>1 DEF IInv, TypeOK
      <4>2. log[id] \in Entry
        BY <3>1, <4>1
      <4> QED
        BY <4>2 DEF Entry
    <3> DEFINE t == log[id].session
    <3>3. id \in Own(t)
      BY DEF Own
    <3>4. session[t] # "none" /\ session[t] # "closed" /\ session[t] \in {"none", "open", "closed"}
      BY <2>1, <3>1, <3>2, <3>3 DEF IInv, ProcessRight, ClosedIsPersisted, TypeOK
    <3> QED
      BY <3>4
  <2>3. UnpersistedAreCounted
    <3>1. SUFFICES ASSUME NEW s \in Session, Sound(proc[s])
          PROVE  Cardinality({id \in DOMAIN log : log[id].session = s /\ ~Linked(id)}) <= proc[s].count
      BY DEF UnpersistedAreCounted, Sound
    <3> DEFINE U == {id \in DOMAIN log : log[id].session = s /\ ~Linked(id)}
               A == Outstanding(s)
    <3>2. U \in SUBSET A
      BY <2>1, RunningRules DEF Outstanding, Own, Acknowledging
    <3>3. IsFiniteSet(A) /\ Cardinality(A) + Cardinality(Unadded(proc[s])) <= proc[s].count
      BY <2>1, <3>1, OutstandingIsFinite DEF IInv, Counted
    <3> HIDE DEF A
    <3>4. IsFiniteSet(U) /\ Cardinality(U) <= Cardinality(A)
      BY <3>2, <3>3, FS_Subset
    <3> HIDE DEF U
    <3>5. Cardinality(U) \in Nat /\ Cardinality(A) \in Nat /\ Cardinality(Unadded(proc[s])) \in Nat
          /\ proc[s].count \in Int
      BY <2>1, <3>3, <3>4, FS_CardinalityType, InFlight, ProcFields
    <3>6. Cardinality(U) <= proc[s].count
      BY <3>3, <3>4, <3>5
    <3> QED
      BY <3>6 DEF U
  <2> QED
    BY <2>2, <2>3
<1> QED
  BY <1>1, <1>2, <1>3, PTL DEF Spec

-----------------------------------------------------------------------------
(* WriterCapability: the inductive invariant.                               *)

(* What the cutover found is so until it commits, because it holds the      *)
(* series locks and a session opens only under them.                        *)
AuditHolds ==
  LET t == tx[SignalWorker]
  IN t.kind = "cutover" /\ t.checked =>
       /\ \A l \in Series : lock[l] = SignalWorker
       /\ t.target # NoRun =>
            \A s \in PaperSession : paperSession[s] = "open" => Compatible(s, t.target)

(* A process opens its session at most once, before it does anything else.  *)
OpensOnce ==
  \A s \in PaperSession :
    /\ process[s] = "new" => paperSession[s] = "none"
    /\ tx[s].kind = "open" => process[s] = "new"

(* The locks held are a beginning of the plan.                              *)
HeldInOrder ==
  \A a \in Actor :
    /\ tx[a].kind = "persist" => tx[a].series \in Series
    /\ \A i, j \in DOMAIN Plan(tx[a]) :
         i < j /\ lock[Plan(tx[a])[j]] = a => lock[Plan(tx[a])[i]] = a

CapabilityInv == CapabilityTypeOK /\ AuditHolds /\ OpensOnce /\ HeldInOrder /\ OpenWritersAreCompatible

-----------------------------------------------------------------------------
(* Plans.                                                                   *)

\* An idle transaction takes no lock.
LEMMA IdlePlan ==
  ASSUME NEW t, t.kind = "none"
  PROVE  Plan(t) = <<>> /\ Range(Plan(t)) = {}
BY DEF Plan, Range

\* A transaction that opens or closes a session takes every series lock.
LEMMA SessionPlan ==
  ASSUME NEW t, t.kind \in {"open", "close"}
  PROVE  Plan(t) = SeriesOrder /\ Range(Plan(t)) = Series
BY DEF Plan, Series

\* A cutover takes every series lock and then the counter.
LEMMA CutoverPlan ==
  ASSUME NEW t, t.kind = "cutover"
  PROVE  /\ Plan(t) = Append(SeriesOrder, Counter)
         /\ Series \subseteq Range(Plan(t))
<1>1. Plan(t) = Append(SeriesOrder, Counter)
  BY DEF Plan
<1>2. SeriesOrder \in Seq(Series)
  BY CapabilityAssumption
<1>3. \A i \in 1..Len(SeriesOrder) :
        i \in DOMAIN Append(SeriesOrder, Counter)
        /\ Append(SeriesOrder, Counter)[i] = SeriesOrder[i]
  BY <1>2
<1>4. Series = {SeriesOrder[i] : i \in 1..Len(SeriesOrder)}
  BY <1>2 DEF Series, Range
<1>. QED
  BY <1>1, <1>3, <1>4 DEF Range

(* The locks in the one order in which all transactions take them.         *)
Order == Append(SeriesOrder, Counter)

Rank(l) == CHOOSE i \in DOMAIN Order : Order[i] = l

\* No lock comes twice in the order, so a place in it is the rank of its lock.
LEMMA OrderRanks ==
  /\ Order \in Seq(Lock) /\ Range(Order) = Lock
  /\ \A i \in DOMAIN Order : Rank(Order[i]) = i
<1>1. /\ SeriesOrder \in Seq(Series) /\ SeriesOrder \in Seq(Lock)
      /\ Counter \notin Series /\ Counter \in Lock
      /\ \A i, j \in 1..Len(SeriesOrder) : SeriesOrder[i] = SeriesOrder[j] => i = j
  BY CapabilityAssumption DEF Lock, IsInjective
<1>2. /\ Order \in Seq(Lock) /\ Len(Order) = Len(SeriesOrder) + 1
      /\ Len(SeriesOrder) \in Nat
      /\ DOMAIN Order = 1..(Len(SeriesOrder) + 1)
      /\ Order[Len(SeriesOrder) + 1] = Counter
      /\ \A i \in 1..Len(SeriesOrder) : Order[i] = SeriesOrder[i] /\ Order[i] \in Series
  BY <1>1 DEF Order
<1>3. \A i, j \in DOMAIN Order : Order[i] = Order[j] => i = j
  <2>. SUFFICES ASSUME NEW i \in DOMAIN Order, NEW j \in DOMAIN Order, Order[i] = Order[j]
                PROVE  i = j
    OBVIOUS
  <2>1. CASE i = Len(SeriesOrder) + 1 \/ j = Len(SeriesOrder) + 1
    BY <1>1, <1>2, <2>1
  <2>2. CASE i # Len(SeriesOrder) + 1 /\ j # Len(SeriesOrder) + 1
    BY <1>1, <1>2, <2>2
  <2>. QED
    BY <2>1, <2>2
<1>4. Range(Order) = Lock
  <2>1. Series = {SeriesOrder[i] : i \in 1..Len(SeriesOrder)}
    BY <1>1 DEF Series, Range
  <2>2. \A l \in Lock : \E i \in DOMAIN Order : Order[i] = l
    BY <1>2, <2>1 DEF Lock
  <2>. QED
    BY <1>2, <2>2 DEF Range
<1>. QED
  BY <1>2, <1>3, <1>4 DEF Rank

\* What changes of a transaction when it is found admissible is not its plan.
LEMMA CheckedPlan ==
  ASSUME NEW t \in Transaction
  PROVE  Plan([t EXCEPT !.checked = TRUE]) = Plan(t)
BY DEF Plan, Transaction

\* The idle transaction.
LEMMA IdleType == Idle \in Transaction /\ Idle.kind = "none" /\ ~Idle.checked
BY DEF Idle, Transaction

-----------------------------------------------------------------------------
(* Type correctness.                                                        *)

\* The initial state is well typed.
LEMMA TypeInit == CapabilityInit => CapabilityTypeOK
<1>. SUFFICES ASSUME CapabilityInit PROVE CapabilityTypeOK
  OBVIOUS
<1>. USE CapabilityAssumption
<1>1. capability \in [PaperSession -> Capability]
  BY DEF CapabilityInit, Capability
<1>2. tx \in [Actor -> Transaction]
  BY IdleType DEF CapabilityInit
<1>3. paperSession \in [PaperSession -> {"none", "open", "ended"}]
      /\ process \in [PaperSession -> {"new", "running", "stopping", "gone"}]
  BY DEF CapabilityInit
<1>4. lock \in [Lock -> Actor \cup {Nobody}] /\ \A l \in Lock : lock[l] = Nobody
  BY DEF CapabilityInit
<1>. QED
  BY <1>1, <1>2, <1>3, <1>4 DEF CapabilityInit, CapabilityTypeOK

\* What the locks are after a transaction that ends, or that begins.
LEMMA EndsType ==
  ASSUME CapabilityTypeOK, NEW a \in Actor, Ends(a)
  PROVE  /\ tx' \in [Actor -> Transaction]
         /\ lock' \in [Lock -> Actor \cup {Nobody}]
         /\ \A l \in Lock : lock'[l] # Nobody => l \in Range(Plan(tx'[lock'[l]]))
<1>1. tx' \in [Actor -> Transaction] /\ \A b \in Actor : b # a => tx'[b] = tx[b]
  BY IdleType DEF CapabilityTypeOK, Ends
<1>2. lock' \in [Lock -> Actor \cup {Nobody}]
  BY DEF CapabilityTypeOK, Ends, Released
<1>3. \A l \in Lock : lock'[l] # Nobody => lock'[l] = lock[l] /\ lock'[l] # a
  BY CapabilityAssumption DEF CapabilityTypeOK, Ends, Released
<1>. QED
  BY <1>1, <1>2, <1>3 DEF CapabilityTypeOK

LEMMA BeginType ==
  ASSUME CapabilityTypeOK, NEW a \in Actor,
         NEW kind \in {"open", "persist", "close", "cutover"},
         NEW series \in Series \cup {NoSeries}, NEW target \in Threshold \cup {NoRun},
         NEW start \in Nat, Begin(a, kind, series, target, start)
  PROVE  /\ tx' \in [Actor -> Transaction]
         /\ \A l \in Lock : lock'[l] # Nobody => l \in Range(Plan(tx'[lock'[l]]))
<1>1. tx' \in [Actor -> Transaction] /\ \A b \in Actor : b # a => tx'[b] = tx[b]
  BY DEF CapabilityTypeOK, Begin, Transaction
<1>2. lock' = lock
  BY DEF Begin
<1>3. \A l \in Lock : lock[l] # a
  <2>. SUFFICES ASSUME NEW l \in Lock, lock[l] = a PROVE FALSE
    OBVIOUS
  <2>1. a # Nobody /\ tx[a].kind = "none"
    BY CapabilityAssumption DEF Begin
  <2>. QED
    BY <2>1, IdlePlan DEF CapabilityTypeOK
<1>. QED
  BY <1>1, <1>2, <1>3 DEF CapabilityTypeOK

\* Admitting a change or the writers keeps the type and the plans.
LEMMA CheckType ==
  ASSUME CapabilityTypeOK, NEW a \in Actor, tx' = [tx EXCEPT ![a].checked = TRUE]
  PROVE  /\ tx' \in [Actor -> Transaction]
         /\ \A b \in Actor : /\ Plan(tx'[b]) = Plan(tx[b])
                            /\ tx'[b].kind = tx[b].kind
                            /\ tx'[b].series = tx[b].series
         /\ \A b \in Actor : b # a => tx'[b] = tx[b]
<1>1. tx[a] \in Transaction
  BY DEF CapabilityTypeOK
<1>2. /\ [tx[a] EXCEPT !.checked = TRUE] \in Transaction
      /\ [tx[a] EXCEPT !.checked = TRUE].kind = tx[a].kind
      /\ [tx[a] EXCEPT !.checked = TRUE].series = tx[a].series
  BY <1>1 DEF Transaction
<1>3. /\ tx' \in [Actor -> Transaction]
      /\ tx'[a] = [tx[a] EXCEPT !.checked = TRUE]
      /\ \A b \in Actor : b # a => tx'[b] = tx[b]
  BY <1>2 DEF CapabilityTypeOK
<1>. QED
  BY <1>1, <1>2, <1>3, CheckedPlan

\* A lease is a capability.
LEMMA LeasedType ==
  ASSUME NEW threshold \in Threshold, NEW time \in Nat
  PROVE  Leased(threshold, time) \in Capability
<1>1. time + LeaseTicks \in Nat
  BY CapabilityAssumption
<1>. QED
  BY <1>1 DEF Leased, Capability

\* No step leaves the types.
LEMMA TypeStep == CapabilityTypeOK /\ [CapabilityNext]_capabilityVars => CapabilityTypeOK'
<1>. SUFFICES ASSUME CapabilityTypeOK, [CapabilityNext]_capabilityVars PROVE CapabilityTypeOK'
  OBVIOUS
<1>. USE CapabilityAssumption
<1>. /\ \A s \in PaperSession : s \in Actor
     /\ SignalWorker \in Actor
     /\ now \in Nat
     /\ NoSeries \in Series \cup {NoSeries} /\ NoRun \in Threshold \cup {NoRun}
  BY DEF Actor, CapabilityTypeOK
<1>1. CASE UNCHANGED capabilityVars
  BY <1>1 DEF CapabilityTypeOK, capabilityVars, rows
<1>2. CASE Tick
  BY <1>2 DEF CapabilityTypeOK, Tick, rows
<1>3. ASSUME NEW a \in Actor, TakeLock(a) PROVE CapabilityTypeOK'
  <2>1. PICK l \in Lock : Asks(a, l) /\ lock[l] = Nobody /\ lock' = [lock EXCEPT ![l] = a]
    BY <1>3 DEF TakeLock
  <2>2. l \in Range(Plan(tx[a]))
    BY <2>1 DEF Asks, Range
  <2>3. \A k \in Lock : lock'[k] # Nobody => k \in Range(Plan(tx[lock'[k]]))
    BY <2>1, <2>2 DEF CapabilityTypeOK
  <2>4. lock' \in [Lock -> Actor \cup {Nobody}]
    BY <2>1 DEF CapabilityTypeOK
  <2>. QED
    BY <1>3, <2>3, <2>4 DEF CapabilityTypeOK, TakeLock, rows
<1>4. ASSUME NEW s \in PaperSession, BeginOpen(s) PROVE CapabilityTypeOK'
  BY <1>4, BeginType DEF CapabilityTypeOK, BeginOpen, Begin, rows
<1>5. ASSUME NEW s \in PaperSession, CommitOpen(s) PROVE CapabilityTypeOK'
  <2>1. tx[s].start \in Nat
    BY DEF CapabilityTypeOK, Transaction
  <2>2. /\ paperSession' \in [PaperSession -> {"none", "open", "ended"}]
        /\ process' \in [PaperSession -> {"new", "running", "stopping", "gone"}]
    BY <1>5 DEF CommitOpen, CapabilityTypeOK
  <2>3. capability' \in [PaperSession -> Capability]
    BY <1>5, <2>1, LeasedType DEF CommitOpen, CapabilityTypeOK
  <2>. QED
    BY <1>5, <2>2, <2>3, EndsType DEF CapabilityTypeOK, CommitOpen
<1>6. ASSUME NEW s \in PaperSession, Renew(s) PROVE CapabilityTypeOK'
  <2>1. capability[s].threshold \in Threshold
    BY DEF CapabilityTypeOK, Capability
  <2>2. capability' \in [PaperSession -> Capability]
    BY <1>6, <2>1, LeasedType DEF Renew, CapabilityTypeOK
  <2>. QED
    BY <1>6, <2>2 DEF CapabilityTypeOK, Renew
<1>7. ASSUME NEW s \in PaperSession, Stop(s) PROVE CapabilityTypeOK'
  BY <1>7 DEF CapabilityTypeOK, Stop, rows
<1>8. ASSUME NEW s \in PaperSession, BeginPersist(s) PROVE CapabilityTypeOK'
  <2>1. PICK m \in Series : Begin(s, "persist", m, NoRun, 0)
    BY <1>8 DEF BeginPersist
  <2>. QED
    BY <1>8, <2>1, BeginType DEF CapabilityTypeOK, BeginPersist, Begin, rows
<1>9. ASSUME NEW s \in PaperSession, AssertCapability(s) PROVE CapabilityTypeOK'
  <2>1. tx' = [tx EXCEPT ![s].checked = TRUE]
    BY <1>9 DEF AssertCapability
  <2>2. /\ tx' \in [Actor -> Transaction]
        /\ \A b \in Actor : Plan(tx'[b]) = Plan(tx[b])
    BY <2>1, CheckType
  <2>3. lock' = lock
    BY <1>9 DEF AssertCapability
  <2>4. \A l \in Lock : lock[l] # Nobody => lock[l] \in Actor
    BY DEF CapabilityTypeOK
  <2>5. \A l \in Lock : lock'[l] # Nobody => l \in Range(Plan(tx'[lock'[l]]))
    BY <2>2, <2>3, <2>4 DEF CapabilityTypeOK
  <2>. QED
    BY <1>9, <2>2, <2>3, <2>5 DEF CapabilityTypeOK, AssertCapability, rows
<1>10. ASSUME NEW s \in PaperSession, CommitPersist(s) PROVE CapabilityTypeOK'
  <2>1. changes' \in [PaperSession -> Nat]
    BY <1>10 DEF CommitPersist, CapabilityTypeOK
  <2>. QED
    BY <1>10, <2>1, EndsType DEF CapabilityTypeOK, CommitPersist
<1>11. ASSUME NEW s \in PaperSession, BeginClose(s) PROVE CapabilityTypeOK'
  BY <1>11, BeginType DEF CapabilityTypeOK, BeginClose, Begin, rows
<1>12. ASSUME NEW s \in PaperSession, CommitClose(s) PROVE CapabilityTypeOK'
  <2>1. capability' \in [PaperSession -> Capability]
    BY <1>12 DEF CommitClose, CapabilityTypeOK, Capability
  <2>2. /\ paperSession' \in [PaperSession -> {"none", "open", "ended"}]
        /\ process' \in [PaperSession -> {"new", "running", "stopping", "gone"}]
    BY <1>12 DEF CommitClose, CapabilityTypeOK
  <2>. QED
    BY <1>12, <2>1, <2>2, EndsType DEF CapabilityTypeOK, CommitClose
<1>13. ASSUME NEW s \in PaperSession, Fail(s) PROVE CapabilityTypeOK'
  BY <1>13, EndsType DEF CapabilityTypeOK, Fail, rows
<1>14. CASE BeginCutover
  <2>1. PICK target \in Threshold \cup {NoRun} :
          Begin(SignalWorker, "cutover", NoSeries, target, now)
    BY <1>14 DEF BeginCutover
  <2>. QED
    BY <1>14, <2>1, BeginType DEF CapabilityTypeOK, BeginCutover, Begin, rows
<1>15. CASE AuditPasses
  <2>1. tx' = [tx EXCEPT ![SignalWorker].checked = TRUE]
    BY <1>15 DEF AuditPasses
  <2>2. /\ tx' \in [Actor -> Transaction]
        /\ \A b \in Actor : Plan(tx'[b]) = Plan(tx[b])
    BY <2>1, CheckType
  <2>3. lock' = lock
    BY <1>15 DEF AuditPasses
  <2>4. \A l \in Lock : lock[l] # Nobody => lock[l] \in Actor
    BY DEF CapabilityTypeOK
  <2>5. \A l \in Lock : lock'[l] # Nobody => l \in Range(Plan(tx'[lock'[l]]))
    BY <2>2, <2>3, <2>4 DEF CapabilityTypeOK
  <2>. QED
    BY <1>15, <2>2, <2>3, <2>5 DEF CapabilityTypeOK, AuditPasses, rows
<1>16. CASE AuditRefuses
  BY <1>16, EndsType DEF CapabilityTypeOK, AuditRefuses, rows
<1>17. CASE CommitCutover
  <2>1. tx[SignalWorker].target \in Threshold \cup {NoRun}
    BY DEF CapabilityTypeOK, Transaction
  <2>. QED
    BY <1>17, <2>1, EndsType DEF CapabilityTypeOK, CommitCutover
<1>18. CASE CutoverRollsBack
  BY <1>18, EndsType DEF CapabilityTypeOK, CutoverRollsBack, rows
<1>. QED
  BY <1>1, <1>2, <1>3, <1>4, <1>5, <1>6, <1>7, <1>8, <1>9, <1>10, <1>11, <1>12,
     <1>13, <1>14, <1>15, <1>16, <1>17, <1>18 DEF CapabilityNext
-----------------------------------------------------------------------------
(* The invariant.                                                           *)

LEMMA InvInit == CapabilityInit => CapabilityInv
<1>. SUFFICES ASSUME CapabilityInit PROVE CapabilityInv
  OBVIOUS
<1>1. CapabilityTypeOK
  BY TypeInit
<1>2. \A a \in Actor : tx[a] = Idle /\ tx[a].kind = "none" /\ Plan(tx[a]) = <<>>
  BY IdleType, IdlePlan DEF CapabilityInit
<1>3. AuditHolds /\ HeldInOrder
  BY <1>2 DEF AuditHolds, HeldInOrder, Actor
<1>4. OpensOnce
  BY <1>2 DEF CapabilityInit, OpensOnce, Actor
<1>5. OpenWritersAreCompatible
  BY DEF CapabilityInit, OpenWritersAreCompatible
<1>. QED
  BY <1>1, <1>3, <1>4, <1>5 DEF CapabilityInv

\* A session opens while it holds the series locks, so not while the cutover
\* that audited the writers holds them.
LEMMA NotWhileOpening ==
  ASSUME CapabilityTypeOK, AuditHolds, NEW s \in PaperSession, tx[s].kind = "open", HoldsAll(s)
  PROVE  ~(tx[SignalWorker].kind = "cutover" /\ tx[SignalWorker].checked)
<1>1. \A l \in Series : lock[l] = s
  BY SessionPlan DEF HoldsAll
<1>. QED
  BY <1>1, CapabilityAssumption DEF AuditHolds

\* The steps of a session leave the transaction and the locks of a cutover.
LEMMA AuditUntouched ==
  ASSUME CapabilityTypeOK, AuditHolds, NEW s \in PaperSession,
         tx'[SignalWorker] = tx[SignalWorker],
         \A l \in Lock : lock[l] = SignalWorker => lock'[l] = SignalWorker,
         \A r \in PaperSession : paperSession'[r] = "open" =>
           paperSession[r] = "open" /\ capability'[r].state = capability[r].state
                              /\ capability'[r].threshold = capability[r].threshold
  PROVE  AuditHolds'
BY DEF AuditHolds, Compatible, Lock

LEMMA AuditStep == CapabilityInv /\ [CapabilityNext]_capabilityVars => AuditHolds'
<1>. SUFFICES ASSUME CapabilityInv, [CapabilityNext]_capabilityVars PROVE AuditHolds'
  OBVIOUS
<1>. USE CapabilityAssumption DEF CapabilityInv
<1>. /\ \A s \in PaperSession : s # SignalWorker /\ s \in Actor
     /\ SignalWorker \in Actor
  BY DEF Actor
<1>1. CASE UNCHANGED capabilityVars
  BY <1>1 DEF AuditHolds, Compatible, capabilityVars, rows
<1>2. CASE Tick
  BY <1>2 DEF Tick, AuditHolds, Compatible, rows
<1>3. ASSUME NEW a \in Actor, TakeLock(a) PROVE AuditHolds'
  <2>1. \A l \in Lock : lock[l] = SignalWorker => lock'[l] = SignalWorker
    BY <1>3 DEF TakeLock, CapabilityTypeOK
  <2>2. UNCHANGED <<paperSession, capability, tx>>
    BY <1>3 DEF TakeLock, rows
  <2>. QED
    BY <2>1, <2>2 DEF AuditHolds, Compatible, Lock
<1>4. ASSUME NEW s \in PaperSession, CommitOpen(s) PROVE AuditHolds'
  <2>1. ~(tx[SignalWorker].kind = "cutover" /\ tx[SignalWorker].checked)
    BY <1>4, NotWhileOpening DEF CommitOpen
  <2>2. tx'[SignalWorker] = tx[SignalWorker]
    BY <1>4 DEF CommitOpen, Ends, CapabilityTypeOK
  <2>. QED
    BY <2>1, <2>2 DEF AuditHolds
<1>5. ASSUME NEW s \in PaperSession,
             BeginOpen(s) \/ BeginPersist(s) \/ BeginClose(s) \/ AssertCapability(s) \/ Stop(s)
      PROVE AuditHolds'
  <2>1. UNCHANGED <<paperSession, capability, lock>>
    BY <1>5 DEF BeginOpen, BeginPersist, BeginClose, Begin, AssertCapability, Stop, rows
  <2>2. tx'[SignalWorker] = tx[SignalWorker]
    BY <1>5 DEF BeginOpen, BeginPersist, BeginClose, Begin, AssertCapability, Stop, CapabilityTypeOK
  <2>. QED
    BY <2>1, <2>2 DEF AuditHolds, Compatible
<1>6. ASSUME NEW s \in PaperSession, Renew(s) PROVE AuditHolds'
  <2>1. UNCHANGED <<paperSession, tx, lock>>
    BY <1>6 DEF Renew
  <2>2. \A r \in PaperSession : /\ capability'[r].state = capability[r].state
                          /\ capability'[r].threshold = capability[r].threshold
    BY <1>6 DEF Renew, MayRenew, Leased, CapabilityTypeOK
  <2>. QED
    BY <2>1, <2>2, AuditUntouched, <1>6
<1>7. ASSUME NEW s \in PaperSession, CommitPersist(s) \/ CommitClose(s) \/ Fail(s)
      PROVE AuditHolds'
  <2>1. tx'[SignalWorker] = tx[SignalWorker]
    BY <1>7 DEF CommitPersist, CommitClose, Fail, Ends, CapabilityTypeOK
  <2>2. \A l \in Lock : lock[l] = SignalWorker => lock'[l] = SignalWorker
    BY <1>7 DEF CommitPersist, CommitClose, Fail, Ends, Released, CapabilityTypeOK
  <2>3. \A r \in PaperSession : paperSession'[r] = "open" =>
           paperSession[r] = "open" /\ capability'[r].state = capability[r].state
                              /\ capability'[r].threshold = capability[r].threshold
    BY <1>7 DEF CommitPersist, CommitClose, Fail, rows, CapabilityTypeOK
  <2>. QED
    BY <2>1, <2>2, <2>3, AuditUntouched
<1>8. CASE BeginCutover
  <2>1. ~tx'[SignalWorker].checked
    BY <1>8 DEF BeginCutover, Begin, CapabilityTypeOK
  <2>. QED
    BY <2>1 DEF AuditHolds
<1>9. CASE AuditPasses
  <2>1. tx[SignalWorker].kind = "cutover" /\ HoldsAll(SignalWorker)
    BY <1>9 DEF AuditPasses, Audits
  <2>2. \A l \in Series : lock[l] = SignalWorker
    BY <2>1, CutoverPlan DEF HoldsAll
  <2>3. /\ tx'[SignalWorker].target = tx[SignalWorker].target
        /\ UNCHANGED <<paperSession, capability, lock>>
    BY <1>9 DEF AuditPasses, CapabilityTypeOK, rows
  <2>4. \A s \in PaperSession : Passes(s, tx[SignalWorker])
    BY <1>9 DEF AuditPasses
  <2>. QED
    BY <2>2, <2>3, <2>4 DEF AuditHolds, Passes, Compatible
<1>10. CASE AuditRefuses \/ CommitCutover \/ CutoverRollsBack
  <2>1. tx'[SignalWorker] = Idle
    BY <1>10 DEF AuditRefuses, CommitCutover, CutoverRollsBack, Ends, CapabilityTypeOK
  <2>. QED
    BY <2>1, IdleType DEF AuditHolds
<1>. QED
  BY <1>1, <1>2, <1>3, <1>4, <1>5, <1>6, <1>7, <1>8, <1>9, <1>10 DEF CapabilityNext

LEMMA OpensOnceStep == CapabilityInv /\ [CapabilityNext]_capabilityVars => OpensOnce'
<1>. SUFFICES ASSUME CapabilityInv, [CapabilityNext]_capabilityVars PROVE OpensOnce'
  OBVIOUS
<1>. USE CapabilityAssumption, IdleType DEF CapabilityInv
<1>. /\ \A s \in PaperSession : s # SignalWorker /\ s \in Actor
     /\ SignalWorker \in Actor
  BY DEF Actor
<1>1. CASE UNCHANGED capabilityVars
  BY <1>1 DEF OpensOnce, capabilityVars, rows
<1>2. CASE Tick \/ \E a \in Actor : TakeLock(a)
  BY <1>2 DEF Tick, TakeLock, OpensOnce, rows
<1>3. ASSUME NEW s \in PaperSession, BeginOpen(s) \/ BeginPersist(s) \/ BeginClose(s)
      PROVE OpensOnce'
  <2>1. UNCHANGED <<paperSession, process>>
    BY <1>3 DEF BeginOpen, BeginPersist, BeginClose, Begin, rows
  <2>2. \A r \in PaperSession : r # s => tx'[r] = tx[r]
    BY <1>3 DEF BeginOpen, BeginPersist, BeginClose, Begin, CapabilityTypeOK
  <2>3. tx'[s].kind = "open" => process[s] = "new"
    BY <1>3 DEF BeginOpen, BeginPersist, BeginClose, Begin, CapabilityTypeOK
  <2>. QED
    BY <2>1, <2>2, <2>3 DEF OpensOnce
<1>7. ASSUME NEW s \in PaperSession, AssertCapability(s) PROVE OpensOnce'
  <2>1. UNCHANGED <<paperSession, process>>
    BY <1>7 DEF AssertCapability, rows
  <2>2. \A r \in PaperSession : tx'[r].kind = tx[r].kind
    BY <1>7, CheckType DEF AssertCapability
  <2>. QED
    BY <2>1, <2>2 DEF OpensOnce
<1>4. ASSUME NEW s \in PaperSession,
             CommitOpen(s) \/ CommitPersist(s) \/ CommitClose(s) \/ Fail(s)
      PROVE OpensOnce'
  <2>1. tx'[s].kind = "none" /\ \A r \in PaperSession : r # s => tx'[r] = tx[r]
    BY <1>4 DEF CommitOpen, CommitPersist, CommitClose, Fail, Ends, CapabilityTypeOK
  <2>2. \A r \in PaperSession : r # s => process'[r] = process[r] /\ paperSession'[r] = paperSession[r]
    BY <1>4 DEF CommitOpen, CommitPersist, CommitClose, Fail, CapabilityTypeOK, rows
  <2>3. process'[s] = "new" => process[s] = "new" /\ paperSession'[s] = paperSession[s]
    BY <1>4 DEF CommitOpen, CommitPersist, CommitClose, Fail, CapabilityTypeOK, rows
  <2>. QED
    BY <2>1, <2>2, <2>3 DEF OpensOnce
<1>5. ASSUME NEW s \in PaperSession, Renew(s) \/ Stop(s) PROVE OpensOnce'
  <2>1. UNCHANGED <<paperSession, tx>>
    BY <1>5 DEF Renew, Stop, rows
  <2>2. \A r \in PaperSession : process'[r] # process[r] => process'[r] = "stopping"
                                                      /\ process[r] = "running"
    BY <1>5 DEF Renew, Stop, CapabilityTypeOK
  <2>3. \A r \in PaperSession : tx[r].kind = "open" => process[r] = "new"
    BY DEF OpensOnce
  <2>. QED
    BY <2>1, <2>2, <2>3 DEF OpensOnce
<1>6. CASE BeginCutover \/ AuditPasses \/ AuditRefuses \/ CommitCutover \/ CutoverRollsBack
  <2>1. UNCHANGED <<paperSession, process>>
    BY <1>6 DEF BeginCutover, Begin, AuditPasses, AuditRefuses, CommitCutover,
                CutoverRollsBack, rows
  <2>2. \A r \in PaperSession : tx'[r] = tx[r]
    BY <1>6 DEF BeginCutover, Begin, AuditPasses, AuditRefuses, CommitCutover,
                CutoverRollsBack, Ends, CapabilityTypeOK
  <2>. QED
    BY <2>1, <2>2 DEF OpensOnce
<1>. QED
  BY <1>1, <1>2, <1>3, <1>4, <1>5, <1>6, <1>7 DEF CapabilityNext

LEMMA CompatibleStep == CapabilityInv /\ [CapabilityNext]_capabilityVars => OpenWritersAreCompatible'
<1>. SUFFICES ASSUME CapabilityInv, [CapabilityNext]_capabilityVars PROVE OpenWritersAreCompatible'
  OBVIOUS
<1>. USE CapabilityAssumption DEF CapabilityInv
<1>1. ASSUME NEW s \in PaperSession, CommitOpen(s) PROVE OpenWritersAreCompatible'
  <2>1. /\ capture' = capture
        /\ capture # NoRun => ThresholdOf[s] = capture
    BY <1>1 DEF CommitOpen, Leased
  <2>2. /\ capability'[s].state = "accepted" /\ capability'[s].threshold = ThresholdOf[s]
        /\ \A r \in PaperSession : r # s =>
             paperSession'[r] = paperSession[r] /\ capability'[r] = capability[r]
    BY <1>1 DEF CommitOpen, Leased, CapabilityTypeOK
  <2>. QED
    BY <2>1, <2>2 DEF OpenWritersAreCompatible, Compatible
<1>2. ASSUME NEW s \in PaperSession, Renew(s) PROVE OpenWritersAreCompatible'
  <2>1. UNCHANGED <<paperSession, capture>>
    BY <1>2 DEF Renew
  <2>2. \A r \in PaperSession : /\ capability'[r].state = capability[r].state
                          /\ capability'[r].threshold = capability[r].threshold
    BY <1>2 DEF Renew, MayRenew, Leased, CapabilityTypeOK
  <2>. QED
    BY <2>1, <2>2 DEF OpenWritersAreCompatible, Compatible
<1>3. ASSUME NEW s \in PaperSession, CommitClose(s) PROVE OpenWritersAreCompatible'
  <2>1. capture' = capture /\ paperSession'[s] = "ended"
    BY <1>3 DEF CommitClose, CapabilityTypeOK
  <2>2. \A r \in PaperSession : r # s => paperSession'[r] = paperSession[r] /\ capability'[r] = capability[r]
    BY <1>3 DEF CommitClose, CapabilityTypeOK
  <2>. QED
    BY <2>1, <2>2 DEF OpenWritersAreCompatible, Compatible
<1>4. CASE CommitCutover
  <2>1. /\ capture' = tx[SignalWorker].target
        /\ tx[SignalWorker].kind = "cutover" /\ tx[SignalWorker].checked
        /\ UNCHANGED <<paperSession, capability>>
    BY <1>4 DEF CommitCutover
  <2>. QED
    BY <2>1 DEF AuditHolds, OpenWritersAreCompatible, Compatible
<1>5. CASE UNCHANGED <<paperSession, capability, capture>>
  BY <1>5 DEF OpenWritersAreCompatible, Compatible
<1>6. ASSUME NEW s \in PaperSession,
             BeginOpen(s) \/ Stop(s) \/ BeginPersist(s) \/ AssertCapability(s)
               \/ CommitPersist(s) \/ BeginClose(s) \/ Fail(s)
      PROVE UNCHANGED <<paperSession, capability, capture>>
  BY <1>6 DEF BeginOpen, BeginPersist, BeginClose, Begin, AssertCapability, Stop,
              CommitPersist, Fail, rows
<1>7. CASE UNCHANGED capabilityVars \/ Tick \/ \E a \in Actor : TakeLock(a)
  BY <1>7, <1>5 DEF capabilityVars, Tick, TakeLock, rows
<1>8. CASE BeginCutover \/ AuditPasses \/ AuditRefuses \/ CutoverRollsBack
  BY <1>8, <1>5 DEF BeginCutover, Begin, AuditPasses, AuditRefuses, CutoverRollsBack, rows
<1>. QED
  BY <1>1, <1>2, <1>3, <1>4, <1>5, <1>6, <1>7, <1>8 DEF CapabilityNext

\* The plan of a transaction is made of locks, in the order of their ranks.
LEMMA PlanOfLocks ==
  ASSUME NEW t \in Transaction, t.kind = "persist" => t.series \in Series
  PROVE  /\ Plan(t) \in Seq(Lock)
         /\ \A i, j \in DOMAIN Plan(t) : i < j => Rank(Plan(t)[i]) < Rank(Plan(t)[j])
         /\ \A i, j \in DOMAIN Plan(t) : Plan(t)[i] = Plan(t)[j] => i = j
<1>1. SeriesOrder \in Seq(Series) /\ Counter \in Lock /\ Series \subseteq Lock
  BY CapabilityAssumption DEF Lock
<1>2. /\ Order \in Seq(Lock)
      /\ Len(SeriesOrder) \in Nat
      /\ DOMAIN Order = 1..(Len(SeriesOrder) + 1)
      /\ Order[Len(SeriesOrder) + 1] = Counter
      /\ \A i \in 1..Len(SeriesOrder) : Order[i] = SeriesOrder[i]
      /\ \A i \in DOMAIN Order : Rank(Order[i]) = i
  BY <1>1, OrderRanks DEF Order
<1>3. /\ Plan(t) \in Seq(Lock)
      /\ \A i, j \in DOMAIN Plan(t) : i < j => Rank(Plan(t)[i]) < Rank(Plan(t)[j])
  <2>1. CASE t.kind = "persist"
    <3>1. /\ Plan(t) = <<t.series, Counter>> /\ t.series \in Lock
          /\ \E i \in 1..Len(SeriesOrder) : SeriesOrder[i] = t.series
      BY <1>1, <2>1 DEF Plan, Series, Range
    <3>2. Rank(t.series) < Rank(Counter)
      BY <1>2, <3>1
    <3>. QED
      BY <1>1, <3>1, <3>2
  <2>2. CASE t.kind = "cutover"
    BY <1>2, <2>2 DEF Plan, Order
  <2>3. CASE t.kind = "none"
    BY <2>3 DEF Plan
  <2>4. CASE t.kind \in {"open", "close"}
    <3>1. Plan(t) = SeriesOrder
      BY <2>4 DEF Plan
    <3>. QED
      BY <1>1, <1>2, <3>1
  <2>. QED
    BY <2>1, <2>2, <2>3, <2>4 DEF Transaction
<1>4. \A l \in Lock : Rank(l) \in Nat
  BY <1>2, OrderRanks DEF Range
<1>. QED
  BY <1>3, <1>4

LEMMA HeldStep == CapabilityInv /\ [CapabilityNext]_capabilityVars => HeldInOrder'
<1>. SUFFICES ASSUME CapabilityInv, [CapabilityNext]_capabilityVars PROVE HeldInOrder'
  OBVIOUS
<1>. USE CapabilityAssumption, IdleType, IdlePlan DEF CapabilityInv
<1>. /\ \A s \in PaperSession : s # SignalWorker /\ s \in Actor
     /\ SignalWorker \in Actor
  BY DEF Actor
<1>1. CASE UNCHANGED <<tx, lock>>
  BY <1>1 DEF HeldInOrder
<1>2. ASSUME NEW a \in Actor, TakeLock(a) PROVE HeldInOrder'
  <2>1. PICK l \in Lock : Asks(a, l) /\ lock[l] = Nobody /\ lock' = [lock EXCEPT ![l] = a]
    BY <1>2 DEF TakeLock
  <2>2. tx' = tx
    BY <1>2 DEF TakeLock
  <2>3. /\ Plan(tx[a]) \in Seq(Lock)
        /\ \A i, j \in DOMAIN Plan(tx[a]) : Plan(tx[a])[i] = Plan(tx[a])[j] => i = j
    BY PlanOfLocks DEF CapabilityTypeOK, HeldInOrder
  <2>4. /\ lock'[l] = a
        /\ \A k \in Lock : k # l => lock'[k] = lock[k]
    BY <2>1 DEF CapabilityTypeOK
  <2>5. ASSUME NEW i \in DOMAIN Plan(tx[a]), NEW j \in DOMAIN Plan(tx[a]),
               i < j, lock'[Plan(tx[a])[j]] = a
        PROVE lock'[Plan(tx[a])[i]] = a
    <3>1. PICK k \in DOMAIN Plan(tx[a]) :
            Plan(tx[a])[k] = l /\ \A m \in 1..(k - 1) : lock[Plan(tx[a])[m]] = a
      BY <2>1 DEF Asks
    <3>2. Plan(tx[a])[i] \in Lock /\ Plan(tx[a])[j] \in Lock
      BY <2>3
    <3>3. CASE Plan(tx[a])[j] = l
      BY <2>3, <2>4, <2>5, <3>1, <3>2, <3>3
    <3>4. CASE Plan(tx[a])[j] # l
      BY <2>4, <2>5, <3>2, <3>4 DEF HeldInOrder
    <3>. QED
      BY <3>3, <3>4
  <2>6. ASSUME NEW b \in Actor, b # a,
               NEW i \in DOMAIN Plan(tx[b]), NEW j \in DOMAIN Plan(tx[b]),
               i < j, lock'[Plan(tx[b])[j]] = b
        PROVE lock'[Plan(tx[b])[i]] = b
    <3>1. Plan(tx[b]) \in Seq(Lock)
      BY PlanOfLocks DEF CapabilityTypeOK, HeldInOrder
    <3>2. Plan(tx[b])[i] \in Lock /\ Plan(tx[b])[j] \in Lock
      BY <3>1
    <3>. QED
      BY <2>1, <2>4, <2>6, <3>2 DEF HeldInOrder
  <2>. QED
    BY <2>2, <2>5, <2>6 DEF HeldInOrder
<1>3. ASSUME NEW a \in Actor, Ends(a) PROVE HeldInOrder'
  <2>1. tx'[a] = Idle /\ \A b \in Actor : b # a => tx'[b] = tx[b]
    BY <1>3 DEF Ends, CapabilityTypeOK
  <2>2. /\ \A l \in Lock : lock'[l] = (IF lock[l] = a THEN Nobody ELSE lock[l])
        /\ \A l \in Lock : lock'[l] # a
    BY <1>3 DEF Ends, Released, CapabilityTypeOK
  <2>. SUFFICES ASSUME NEW b \in Actor, b # a
                PROVE  \A i, j \in DOMAIN Plan(tx[b]) :
                          i < j /\ lock'[Plan(tx[b])[j]] = b
                            => lock'[Plan(tx[b])[i]] = b
    BY <2>1 DEF HeldInOrder
  <2>3. \A i \in DOMAIN Plan(tx[b]) : Plan(tx[b])[i] \in Lock
    BY PlanOfLocks DEF CapabilityTypeOK, HeldInOrder
  <2>. QED
    BY <2>2, <2>3 DEF HeldInOrder
<1>4. ASSUME NEW a \in Actor, NEW kind \in {"open", "persist", "close", "cutover"},
             NEW series \in Series \cup {NoSeries}, NEW target \in Threshold \cup {NoRun},
             NEW start \in Nat, Begin(a, kind, series, target, start),
             kind = "persist" => series \in Series
      PROVE HeldInOrder'
  <2>1. /\ tx'[a].kind = kind /\ tx'[a].series = series
        /\ \A b \in Actor : b # a => tx'[b] = tx[b]
        /\ tx'[a] \in Transaction
        /\ lock' = lock /\ tx[a].kind = "none"
    BY <1>4, BeginType DEF Begin, CapabilityTypeOK
  <2>2. \A l \in Lock : lock[l] # a
    BY <2>1 DEF CapabilityTypeOK
  <2>3. \A i \in DOMAIN Plan(tx'[a]) : Plan(tx'[a])[i] \in Lock
    BY <1>4, <2>1, PlanOfLocks
  <2>. SUFFICES ASSUME NEW b \in Actor
                PROVE  /\ tx'[b].kind = "persist" => tx'[b].series \in Series
                       /\ \A i, j \in DOMAIN Plan(tx'[b]) :
                            i < j /\ lock[Plan(tx'[b])[j]] = b
                              => lock[Plan(tx'[b])[i]] = b
    BY <2>1 DEF HeldInOrder
  <2>4. CASE b = a
    BY <1>4, <2>1, <2>2, <2>3, <2>4
  <2>5. CASE b # a
    BY <2>1, <2>5 DEF HeldInOrder
  <2>. QED
    BY <2>4, <2>5
<1>5. ASSUME NEW a \in Actor, tx' = [tx EXCEPT ![a].checked = TRUE], lock' = lock
      PROVE HeldInOrder'
  <2>1. \A b \in Actor : /\ Plan(tx'[b]) = Plan(tx[b])
                         /\ tx'[b].kind = tx[b].kind /\ tx'[b].series = tx[b].series
    BY <1>5, CheckType
  <2>. SUFFICES ASSUME NEW b \in Actor
                PROVE  /\ tx'[b].kind = "persist" => tx'[b].series \in Series
                       /\ \A i, j \in DOMAIN Plan(tx'[b]) :
                            i < j /\ lock'[Plan(tx'[b])[j]] = b
                              => lock'[Plan(tx'[b])[i]] = b
    BY DEF HeldInOrder
  <2>2. Plan(tx'[b]) = Plan(tx[b]) /\ lock' = lock
    BY <1>5, <2>1
  <2>3. \A i, j \in DOMAIN Plan(tx[b]) :
          i < j /\ lock[Plan(tx[b])[j]] = b => lock[Plan(tx[b])[i]] = b
    BY DEF HeldInOrder
  <2>4. tx'[b].kind = "persist" => tx'[b].series \in Series
    BY <2>1 DEF HeldInOrder
  <2>. QED
    BY <2>2, <2>3, <2>4
<1>6. ASSUME NEW s \in PaperSession, BeginOpen(s) \/ BeginPersist(s) \/ BeginClose(s)
      PROVE HeldInOrder'
  <2>1. now \in Nat
    BY DEF CapabilityTypeOK
  <2>. QED
    BY <1>4, <1>6, <2>1 DEF BeginOpen, BeginPersist, BeginClose
<1>7. ASSUME NEW s \in PaperSession,
             CommitOpen(s) \/ CommitPersist(s) \/ CommitClose(s) \/ Fail(s)
      PROVE HeldInOrder'
  BY <1>3, <1>7 DEF CommitOpen, CommitPersist, CommitClose, Fail
<1>8. ASSUME NEW s \in PaperSession, Renew(s) \/ Stop(s) PROVE HeldInOrder'
  BY <1>1, <1>8 DEF Renew, Stop
<1>9. ASSUME NEW s \in PaperSession, AssertCapability(s) PROVE HeldInOrder'
  BY <1>5, <1>9 DEF AssertCapability
<1>10. CASE BeginCutover
  <2>1. now \in Nat
    BY DEF CapabilityTypeOK
  <2>. QED
    BY <1>4, <1>10, <2>1 DEF BeginCutover
<1>11. CASE AuditPasses
  BY <1>5, <1>11 DEF AuditPasses
<1>12. CASE AuditRefuses \/ CommitCutover \/ CutoverRollsBack
  BY <1>3, <1>12 DEF AuditRefuses, CommitCutover, CutoverRollsBack
<1>13. CASE UNCHANGED capabilityVars \/ Tick
  BY <1>1, <1>13 DEF capabilityVars, Tick
<1>. QED
  BY <1>2, <1>6, <1>7, <1>8, <1>9, <1>10, <1>11, <1>12, <1>13 DEF CapabilityNext

-----------------------------------------------------------------------------
(* Theorems.                                                                *)

\* The inductive invariant holds in every reachable state.
THEOREM CapabilityInvariance == CapabilitySpec => []CapabilityInv
<1>1. CapabilityInv /\ [CapabilityNext]_capabilityVars => CapabilityInv'
  BY TypeStep, AuditStep, OpensOnceStep, HeldStep, CompatibleStep DEF CapabilityInv
<1>. QED
  BY InvInit, <1>1, PTL DEF CapabilitySpec

\* Type correctness, with every lock held by a transaction that takes it.
THEOREM CapabilityTypeCorrect == CapabilitySpec => []CapabilityTypeOK
<1>1. CapabilityInv => CapabilityTypeOK
  BY DEF CapabilityInv
<1>. QED
  BY CapabilityInvariance, <1>1, PTL

\* While a run captures, every open session is compatible with it, because the
\* audit of the cutover and the commit of a session both need the series locks.
THEOREM WritersStayCompatible == CapabilitySpec => []OpenWritersAreCompatible
<1>1. CapabilityInv => OpenWritersAreCompatible
  BY DEF CapabilityInv
<1>. QED
  BY CapabilityInvariance, <1>1, PTL

\* A lease that ran out is not revived by any step, and its writer commits no
\* change while a run captures.
LEMMA FencedStep ==
  ASSUME CapabilityInv, [CapabilityNext]_capabilityVars, NEW s \in PaperSession, paperSession[s] = "open", Expired(s)
  PROVE  /\ capability'[s].expires = capability[s].expires
         /\ capture # NoRun => changes'[s] = changes[s]
<1>. USE CapabilityAssumption DEF CapabilityInv
<1>1. ASSUME NEW r \in PaperSession, CommitOpen(r) \/ Renew(r)
      PROVE  r # s /\ capability'[s] = capability[s] /\ changes' = changes
  <2>1. r # s
    BY <1>1 DEF CommitOpen, OpensOnce, Renew, MayRenew
  <2>. QED
    BY <1>1, <2>1 DEF CommitOpen, Renew, CapabilityTypeOK
<1>2. ASSUME NEW r \in PaperSession, CommitPersist(r)
      PROVE  capability' = capability /\ (capture # NoRun => changes'[s] = changes[s])
  <2>1. capability' = capability /\ changes' = [changes EXCEPT ![r] = @ + 1]
    BY <1>2 DEF CommitPersist
  <2>2. capture # NoRun => r # s
    BY <1>2 DEF CommitPersist, Admitted
  <2>. QED
    BY <2>1, <2>2 DEF CapabilityTypeOK
<1>3. ASSUME NEW r \in PaperSession, CommitClose(r)
      PROVE  capability'[s].expires = capability[s].expires /\ changes' = changes
  <2>1. capability[s] \in Capability /\ capability[r] \in Capability
    BY DEF CapabilityTypeOK
  <2>2. /\ capability' = [capability EXCEPT ![r] = [capability[r] EXCEPT !.state = "retired"]]
        /\ changes' = changes
    BY <1>3 DEF CommitClose
  <2>3. [capability[r] EXCEPT !.state = "retired"].expires = capability[r].expires
    BY <2>1 DEF Capability
  <2>. QED
    BY <2>1, <2>2, <2>3 DEF CapabilityTypeOK
<1>4. CASE UNCHANGED <<capability, changes>>
  BY <1>4
<1>5. ASSUME NEW r \in PaperSession,
             BeginOpen(r) \/ Stop(r) \/ BeginPersist(r) \/ AssertCapability(r)
               \/ BeginClose(r) \/ Fail(r)
      PROVE  UNCHANGED <<capability, changes>>
  BY <1>5 DEF BeginOpen, Stop, BeginPersist, AssertCapability, BeginClose, Begin, Fail, rows
<1>6. CASE UNCHANGED capabilityVars \/ Tick \/ \E a \in Actor : TakeLock(a)
  BY <1>4, <1>6 DEF capabilityVars, Tick, TakeLock, rows
<1>7. CASE BeginCutover \/ AuditPasses \/ AuditRefuses \/ CommitCutover \/ CutoverRollsBack
  BY <1>4, <1>7 DEF BeginCutover, Begin, AuditPasses, AuditRefuses, CommitCutover,
                    CutoverRollsBack, rows
<1>. QED
  BY <1>1, <1>2, <1>3, <1>4, <1>5, <1>6, <1>7 DEF CapabilityNext

\* A writer that lost its lease is fenced for good.
THEOREM LostLeaseFences == CapabilitySpec => FencedForGood
<1>1. CapabilityInv /\ [CapabilityNext]_capabilityVars =>
        [\A s \in PaperSession :
           paperSession[s] = "open" /\ Expired(s) =>
             /\ capability'[s].expires = capability[s].expires
             /\ capture # NoRun => changes'[s] = changes[s]]_capabilityVars
  BY FencedStep
<1>. QED
  BY CapabilityInvariance, <1>1, PTL DEF CapabilitySpec, FencedForGood

\* A transaction asks for a lock above all those it holds.
LEMMA AsksAbove ==
  ASSUME CapabilityInv, NEW a \in Actor, NEW held \in Lock, NEW asked \in Lock,
         lock[held] = a, Asks(a, asked)
  PROVE  Rank(held) < Rank(asked)
<1>. DEFINE plan == Plan(tx[a])
<1>1. /\ tx[a] \in Transaction
      /\ tx[a].kind = "persist" => tx[a].series \in Series
  BY DEF CapabilityInv, CapabilityTypeOK, HeldInOrder
<1>2. /\ plan \in Seq(Lock)
      /\ \A i, j \in DOMAIN plan : i < j => Rank(plan[i]) < Rank(plan[j])
  BY <1>1, PlanOfLocks
<1>3. PICK i \in DOMAIN plan : plan[i] = held
  BY CapabilityAssumption DEF CapabilityInv, CapabilityTypeOK, Range
<1>4. PICK k \in DOMAIN plan : plan[k] = asked /\ lock[asked] # a
  BY DEF Asks
<1>5. \A m, n \in DOMAIN plan : m < n /\ lock[plan[n]] = a => lock[plan[m]] = a
  BY DEF CapabilityInv, HeldInOrder
<1>6. i < k
  <2>1. i \in Nat /\ k \in Nat
    BY <1>2
  <2>. QED
    BY <2>1, <1>3, <1>4, <1>5
<1>. QED
  BY <1>2, <1>3, <1>4, <1>6

\* A set of numbers has a least one.
LEMMA LeastNumber ==
  ASSUME NEW T, T \subseteq Nat, T # {}
  PROVE  \E x \in T : \A y \in T : x <= y
<1>. DEFINE Less == {pair \in Nat \X Nat : pair[1] < pair[2]}
<1>1. IsWellFoundedOn(Less, Nat)
  BY NatLessThanWellFounded DEF OpToRel
<1>2. PICK x \in T : \A y \in T : <<y, x>> \notin Less
  BY <1>1, WFMin
<1>3. \A y \in T : ~(y < x)
  BY <1>2
<1>. QED
  BY <1>3

\* The actor that holds the highest lock asked for in a circle would ask for a
\* higher one.
LEMMA NoCircle == CapabilityInv => NoLockCycle
<1>. SUFFICES ASSUME CapabilityInv, NEW circle \in (SUBSET Actor) \ {{}},
                     \A a \in circle : \E l \in Lock : Asks(a, l) /\ lock[l] \in circle
              PROVE  FALSE
  BY DEF NoLockCycle
<1>. DEFINE Wanted == {l \in Lock : lock[l] \in circle /\ \E a \in circle : Asks(a, l)}
            Below == {Len(Order) - Rank(l) : l \in Wanted}
<1>1. \A l \in Lock : Rank(l) \in 1..Len(Order) /\ Len(Order) \in Nat
  BY OrderRanks DEF Range
<1>2. Below \subseteq Nat /\ Below # {}
  BY <1>1
<1>3. PICK top \in Wanted :
        \A l \in Wanted : Len(Order) - Rank(top) <= Len(Order) - Rank(l)
  <2>. HIDE DEF Below
  <2>1. PICK least \in Below : \A y \in Below : least <= y
    BY <1>2, LeastNumber
  <2>. USE DEF Below
  <2>2. PICK top \in Wanted : least = Len(Order) - Rank(top)
    OBVIOUS
  <2>. QED
    BY <2>1, <2>2
<1>4. \A l \in Wanted : Rank(l) <= Rank(top)
  BY <1>1, <1>3
<1>5. top \in Lock /\ lock[top] \in circle /\ lock[top] \in Actor
  OBVIOUS
<1>6. PICK l \in Lock : Asks(lock[top], l) /\ lock[l] \in circle
  BY <1>5
<1>7. Rank(top) < Rank(l)
  BY <1>5, <1>6, AsksAbove
<1>8. l \in Wanted
  BY <1>5, <1>6
<1>. QED
  BY <1>1, <1>4, <1>5, <1>7, <1>8

\* No circle of transactions that wait for each other, with any number of
\* writers and of series.
THEOREM LocksHaveNoCircle == CapabilitySpec => []NoLockCycle
BY CapabilityInvariance, NoCircle, PTL
=============================================================================
