------------------------ MODULE PortfolioReadsProofs ------------------------
(* Proofs about PortfolioReads for any number of requests, any snapshots    *)
(* and sizes and any pool: an answer put together from several statements   *)
(* is one sound answer, and every connection comes back to the pool.        *)
EXTENDS PortfolioReads, FiniteSetTheorems, TLAPS

-----------------------------------------------------------------------------
(* The inductive invariant.                                                 *)

Phases == {"idle", "selecting", "reading", "draining", "ended"}
States == {"none", "connecting", "acquired", "querying", "dying", "done", "failed"}
Lifecycles == {"disabled", "starting", "running", "degraded", "failed", "stopped"}
Outcomes == {"none", "succeeded", "failed", "cancelled"}
Healths == {"none", "no_snapshot", "fresh", "degraded", "available"}
Reasons == {"projection", "worker", "membership"}
Runs == Snapshots \cup {NoRun}

StatusRows == [snapshot : Runs, lifecycle : Lifecycles, live : BOOLEAN]
Answers == [outcome : Outcomes, snapshot : Runs, health : Healths, why : SUBSET Reasons]
RequestRecords == [pc : Phases, aborted : BOOLEAN, stopped : BOOLEAN, row : StatusRows,
                   old : SUBSET Snapshots, answer : Answers]
Progress == [Statements -> [st : States, rows : Runs \cup {NoRows}]]

(* The tables as the workers leave them. *)
WorldRight ==
  /\ current \in Runs /\ promoted \subseteq Snapshots
  /\ lifecycle \in Lifecycles /\ failureCode \in BOOLEAN /\ live \in BOOLEAN
  /\ lifecycle = "running" => ~failureCode

RequestsTyped ==
  /\ req \in [Requests -> RequestRecords] /\ query \in [Requests -> Progress]
  /\ shown \in [Requests -> SUBSET Snapshots]
  /\ waiting \in Seq(Requests \X Statements)
  /\ faults \in Nat

ParallelSet(kind) == Range(Parallel(kind))

(* Where the statements of a request stand by the phase it is in: the first *)
(* alone, then the parallel ones after it, at least one of which is awaited. *)
OnlyCurrent(st) == \A q \in Statements \ {"current"} : st[q].st = "none"

PastCurrent(r, st) ==
  /\ st["current"].st = "done"
  /\ \A q \in ParallelSet(KindOf[r]) : st[q].st \in InProgress \cup {"done", "failed"}
  /\ \A q \in Statements \ (ParallelSet(KindOf[r]) \cup {"current"}) : st[q].st = "none"

StageRight(r, rq, st) ==
  /\ rq.pc \in {"idle", "ended"} => \A q \in Statements : st[q].st = "none"
  /\ rq.pc = "selecting" => st["current"].st \in InProgress /\ OnlyCurrent(st)
  /\ rq.pc = "reading" =>
       /\ PastCurrent(r, st)
       /\ \A q \in Statements : st[q].st # "failed"
       /\ \E q \in ParallelSet(KindOf[r]) : st[q].st # "done"
  /\ rq.pc = "draining" =>
       /\ PastCurrent(r, st)
       /\ \E q \in Statements : st[q].st \in InProgress

(* A request that reads has a snapshot, and what it has read is of it. *)
RowsRight(r, rq, st) ==
  rq.pc = "reading" =>
    /\ rq.row.snapshot \in Snapshots /\ rq.row.snapshot \notin rq.old
    /\ \A q \in ParallelSet(KindOf[r]) :
         st[q].st = "done" => st[q].rows = rq.row.snapshot

(* A status row that would make the answer fresh was witnessed. *)
RowWitnessed(r, rq, truly) ==
  rq.pc = "reading" /\ KindOf[r] = "summary" /\ rq.row.lifecycle = "running" /\ rq.row.live
    => rq.row.snapshot \in truly

(* Only a fault aborts, stops or fails anything. *)
CauseRight(rq, st, count) ==
  rq.aborted \/ rq.stopped \/ rq.pc = "draining"
    \/ (\E q \in Statements : st[q].st \in {"dying", "failed"}) => count > 0

AnswerRight(rq, truly, count) ==
  /\ rq.pc # "ended" => rq.answer = NoAnswer
  /\ rq.answer.health = "fresh" => rq.answer.snapshot \in truly \cap Complete
  /\ rq.answer.outcome = "succeeded" /\ rq.answer.snapshot # NoRun
       => rq.answer.snapshot \notin rq.old
  /\ rq.answer.outcome = "failed" => count > 0
  /\ "membership" \notin rq.answer.why

(* What a request replaced before it came stays so. *)
OldRight(rq, done, selected) ==
  rq.old \subseteq done /\ (rq.pc = "selecting" => selected \notin rq.old)

RequestRight(r, rq, st, truly, count) ==
  /\ StageRight(r, rq, st) /\ RowsRight(r, rq, st) /\ RowWitnessed(r, rq, truly)
  /\ CauseRight(rq, st, count) /\ AnswerRight(rq, truly, count)

EveryRequestRight ==
  \A r \in Requests :
    /\ RequestRight(r, req[r], query[r], shown[r], faults)
    /\ OldRight(req[r], promoted, current)

(* The statements that hold a connection. *)
HeldBy(st) == {q \in Statements : st[q].st \in {"acquired", "querying"}}

HeldIn(all) == {e \in Requests \X Statements : all[e[1]][e[2]].st \in {"acquired", "querying"}}

PoolRight ==
  /\ IsFiniteSet(HeldIn(query)) /\ checkedOut = Cardinality(HeldIn(query))
  /\ checkedOut <= PoolMax

IInv == WorldRight /\ RequestsTyped /\ EveryRequestRight /\ PoolRight

-----------------------------------------------------------------------------
(* The statements of a request.                                             *)

\* The parallel statements of a request, none of them the first one.
LEMMA ParallelSets ==
  ASSUME NEW kind
  PROVE  /\ ParallelSet(kind) = IF kind = "summary" THEN {"positions", "orders", "fills"}
                                ELSE {"count", "page"}
         /\ ParallelSet(kind) \subseteq Statements \ {"current"}
         /\ ParallelSet(kind) # {}
<1>1. CASE kind = "summary"
  <2>1. Parallel(kind) = <<"positions", "orders", "fills">>
    BY <1>1 DEF Parallel
  <2>2. DOMAIN Parallel(kind) = 1..3
    BY <2>1
  <2>3. ParallelSet(kind) = {"positions", "orders", "fills"}
    BY <2>1, <2>2 DEF ParallelSet, Range
  <2>. QED
    BY <1>1, <2>3 DEF Statements
<1>2. CASE kind # "summary"
  <2>1. Parallel(kind) = <<"count", "page">>
    BY <1>2 DEF Parallel
  <2>2. DOMAIN Parallel(kind) = 1..2
    BY <2>1
  <2>3. ParallelSet(kind) = {"count", "page"}
    BY <2>1, <2>2 DEF ParallelSet, Range
  <2>. QED
    BY <1>2, <2>3 DEF Statements
<1>. QED
  BY <1>1, <1>2

\* What an abort does to each statement (acquireClient, queryPortfolioApiDatabase).
LEMMA AbortFacts ==
  ASSUME NEW st \in Progress
  PROVE  /\ AbortStatements(st) \in Progress
         /\ \A q \in Statements :
              LET s == st[q].st
                  t == AbortStatements(st)[q].st
              IN  /\ t = IF s = "connecting" THEN "failed"
                         ELSE IF s = "querying" THEN "dying" ELSE s
                  /\ AbortStatements(st)[q].rows = st[q].rows
<1>1. ASSUME NEW q \in Statements
      PROVE  /\ AbortStatements(st)[q] \in [st : States, rows : Runs \cup {NoRows}]
             /\ AbortStatements(st)[q].st = IF st[q].st = "connecting" THEN "failed"
                                            ELSE IF st[q].st = "querying" THEN "dying" ELSE st[q].st
             /\ AbortStatements(st)[q].rows = st[q].rows
  <2>1. st[q] \in [st : States, rows : Runs \cup {NoRows}]
    BY DEF Progress
  <2>2. CASE st[q].st = "connecting"
    BY <2>1, <2>2 DEF AbortStatements, States
  <2>3. CASE st[q].st = "querying"
    BY <2>1, <2>3 DEF AbortStatements, States
  <2>4. CASE st[q].st \notin {"connecting", "querying"}
    BY <2>1, <2>4 DEF AbortStatements, States
  <2>. QED
    BY <2>2, <2>3, <2>4
<1>2. AbortStatements(st) \in Progress
  BY <1>1 DEF Progress, AbortStatements
<1>. QED
  BY <1>1, <1>2

LEMMA StatementsFinite ==
  ASSUME NEW S, S \subseteq Statements
  PROVE  IsFiniteSet(S) /\ Cardinality(S) \in Nat
<1>1. IsFiniteSet({}) /\ Statements = ((((({} \cup {"current"}) \cup {"positions"}) \cup {"orders"})
                            \cup {"fills"}) \cup {"count"}) \cup {"page"}
  BY FS_EmptySet DEF Statements
<1>2. IsFiniteSet({} \cup {"current"})
  BY <1>1, FS_AddElement
<1>3. IsFiniteSet(({} \cup {"current"}) \cup {"positions"})
  BY <1>2, FS_AddElement
<1>4. IsFiniteSet((({} \cup {"current"}) \cup {"positions"}) \cup {"orders"})
  BY <1>3, FS_AddElement
<1>5. IsFiniteSet(((({} \cup {"current"}) \cup {"positions"}) \cup {"orders"}) \cup {"fills"})
  BY <1>4, FS_AddElement
<1>6. IsFiniteSet((((({} \cup {"current"}) \cup {"positions"}) \cup {"orders"}) \cup {"fills"})
                    \cup {"count"})
  BY <1>5, FS_AddElement
<1>7. IsFiniteSet(Statements)
  BY <1>1, <1>6, FS_AddElement
<1>. QED
  BY <1>7, FS_Subset, FS_CardinalityType

\* An abort frees exactly the connections of the statements that run.
LEMMA AbortFreesRunning ==
  ASSUME NEW st \in Progress
  PROVE  /\ Running(st) \in Nat
         /\ Running(AbortStatements(st)) = 0
         /\ Cardinality(HeldBy(AbortStatements(st))) = Cardinality(HeldBy(st)) - Running(st)
<1> DEFINE after == AbortStatements(st)
           Q == {q \in Statements : st[q].st = "querying"}
<1>1. \A q \in Statements : after[q].st = IF st[q].st = "connecting" THEN "failed"
                                  ELSE IF st[q].st = "querying" THEN "dying" ELSE st[q].st
  BY AbortFacts
<1>2. HeldBy(after) = HeldBy(st) \ Q
  BY <1>1 DEF HeldBy
<1>3. {q \in Statements : after[q].st = "querying"} = {}
  BY <1>1
<1>4. HeldBy(st) \cap Q = Q
  BY DEF HeldBy
<1>5. IsFiniteSet(HeldBy(st)) /\ Cardinality(Q) \in Nat
  BY StatementsFinite DEF HeldBy
<1>6. Cardinality(HeldBy(after)) = Cardinality(HeldBy(st)) - Cardinality(Q)
  BY <1>2, <1>4, <1>5, FS_Difference
<1>7. Running(after) = 0
  BY <1>3, FS_EmptySet DEF Running
<1>. QED
  BY <1>5, <1>6, <1>7 DEF Running

\* A statement takes a connection, gives one up, or neither.
LEMMA OneStatementMoves ==
  ASSUME NEW st \in Progress, NEW q \in Statements, NEW s \in States,
         NEW rows \in Runs \cup {NoRows}
  PROVE  LET after == [st EXCEPT ![q] = [st |-> s, rows |-> rows]]
             held == {"acquired", "querying"}
         IN  /\ after \in Progress
             /\ after[q].st = s /\ after[q].rows = rows
             /\ \A x \in Statements \ {q} : after[x] = st[x]
             /\ s \in held /\ st[q].st \in held
                  => Cardinality(HeldBy(after)) = Cardinality(HeldBy(st))
             /\ s \in held /\ st[q].st \notin held
                  => Cardinality(HeldBy(after)) = Cardinality(HeldBy(st)) + 1
             /\ s \notin held /\ st[q].st \in held
                  => Cardinality(HeldBy(after)) = Cardinality(HeldBy(st)) - 1
             /\ s \notin held /\ st[q].st \notin held
                  => Cardinality(HeldBy(after)) = Cardinality(HeldBy(st))
<1> DEFINE new == [st |-> s, rows |-> rows]
           after == [st EXCEPT ![q] = new]
           held == {"acquired", "querying"}
<1>1. new \in [st : States, rows : Runs \cup {NoRows}] /\ new.st = s /\ new.rows = rows
  OBVIOUS
<1> HIDE DEF new
<1>2. after \in Progress /\ after[q] = new /\ \A x \in Statements \ {q} : after[x] = st[x]
  BY <1>1 DEF Progress
<1> HIDE DEF after
<1>3. /\ s \in held /\ st[q].st \in held => HeldBy(after) = HeldBy(st)
      /\ s \in held /\ st[q].st \notin held => HeldBy(after) = HeldBy(st) \cup {q}
      /\ s \notin held /\ st[q].st \in held => HeldBy(after) = HeldBy(st) \ {q}
      /\ s \notin held /\ st[q].st \notin held => HeldBy(after) = HeldBy(st)
      /\ q \in HeldBy(st) <=> st[q].st \in held
  BY <1>1, <1>2 DEF HeldBy
<1>4. IsFiniteSet(HeldBy(st)) /\ Cardinality(HeldBy(st)) \in Nat
  BY StatementsFinite DEF HeldBy
<1>5. /\ Cardinality(HeldBy(st) \cup {q})
           = IF q \in HeldBy(st) THEN Cardinality(HeldBy(st)) ELSE Cardinality(HeldBy(st)) + 1
      /\ Cardinality(HeldBy(st) \ {q})
           = IF q \in HeldBy(st) THEN Cardinality(HeldBy(st)) - 1 ELSE Cardinality(HeldBy(st))
  BY <1>4, FS_AddElement, FS_RemoveElement
<1>. QED
  BY <1>1, <1>2, <1>3, <1>5 DEF after, new

-----------------------------------------------------------------------------
(* Put: what follows from a change of a request's statements.               *)

FirstFailure(rq, st) == rq.pc = "reading" /\ \E q \in Statements : st[q].st = "failed"

Stopping(rq, st) ==
  IF FirstFailure(rq, st) THEN [rq EXCEPT !.pc = "draining", !.stopped = TRUE] ELSE rq

Left(rq, st) == IF FirstFailure(rq, st) THEN AbortStatements(st) ELSE st

NextRequest(r, rq, st) == Resume(r, Stopping(rq, st), Left(rq, st))

Remembered(st) == [q \in Statements |-> IF st[q].st \in InProgress THEN st[q] ELSE NotAsked]

NextStatements(r, rq, st) ==
  IF NextRequest(r, rq, st).pc = "ended" THEN Remembered(Left(rq, st)) ELSE Left(rq, st)

\* Put assigns the statements, the request and the pool.
LEMMA PutAssigns ==
  ASSUME NEW r, NEW rq, NEW st, NEW net, Put(r, rq, st, net)
  PROVE  /\ req' = [req EXCEPT ![r] = NextRequest(r, rq, st)]
         /\ query' = [query EXCEPT ![r] = NextStatements(r, rq, st)]
         /\ checkedOut' = (checkedOut + net) - (Running(st) - Running(Left(rq, st)))
BY DEF Put, FirstFailure, Stopping, Left, NextRequest, Remembered, NextStatements

\* The connections a request holds, and those the pool has lent, change alike.
LEMMA HeldAfterPut ==
  ASSUME NEW st \in Progress, NEW rq
  PROVE  /\ Left(rq, st) \in Progress
         /\ Running(st) \in Nat /\ Running(Left(rq, st)) \in Nat
         /\ Running(Left(rq, st)) <= Running(st)
         /\ Cardinality(HeldBy(Left(rq, st)))
              = Cardinality(HeldBy(st)) - (Running(st) - Running(Left(rq, st)))
<1>1. Cardinality(HeldBy(st)) \in Nat
  BY StatementsFinite DEF HeldBy
<1>2. CASE FirstFailure(rq, st)
  <2>1. Left(rq, st) = AbortStatements(st)
    BY <1>2 DEF Left
  <2>. QED
    BY <1>1, <2>1, AbortFacts, AbortFreesRunning
<1>3. CASE ~FirstFailure(rq, st)
  <2>1. Left(rq, st) = st
    BY <1>3 DEF Left
  <2>. QED
    BY <1>1, <2>1, AbortFreesRunning
<1>. QED
  BY <1>2, <1>3

\* A request that ends forgets no statement that holds a connection.
LEMMA RememberedHolds ==
  ASSUME NEW st \in Progress
  PROVE  /\ Remembered(st) \in Progress
         /\ HeldBy(Remembered(st)) = HeldBy(st)
         /\ \A q \in Statements : Remembered(st)[q].st =
              IF st[q].st \in InProgress THEN st[q].st ELSE "none"
<1>1. \A q \in Statements : Remembered(st)[q] = IF st[q].st \in InProgress THEN st[q] ELSE NotAsked
  BY DEF Remembered
<1>2. NotAsked \in [st : States, rows : Runs \cup {NoRows}] /\ NotAsked.st = "none"
  BY DEF NotAsked, States
<1>3. \A q \in Statements : st[q] \in [st : States, rows : Runs \cup {NoRows}]
  BY DEF Progress
<1>4. \A q \in Statements : Remembered(st)[q] \in [st : States, rows : Runs \cup {NoRows}]
  BY <1>1, <1>2, <1>3
<1>5. Remembered(st) \in Progress
  BY <1>4 DEF Progress, Remembered
<1>6. HeldBy(Remembered(st)) = HeldBy(st)
  BY <1>1, <1>2 DEF HeldBy, InProgress
<1>. QED
  BY <1>1, <1>2, <1>5, <1>6

-----------------------------------------------------------------------------
(* The answers.                                                             *)

\* A row that makes a summary fresh belongs to a worker that runs with a lease
\* and to a snapshot with a complete projection (buildPortfolioApiSnapshot).
LEMMA SummarySound ==
  ASSUME NEW row \in StatusRows, NEW st
  PROVE  LET a == Summary(row, st)
         IN  /\ a \in Answers
             /\ a.health = "fresh" => /\ a.snapshot = row.snapshot /\ row.snapshot \in Complete
                                      /\ row.lifecycle = "running" /\ row.live
             /\ a.outcome = "succeeded"
             /\ a.snapshot \in {row.snapshot, NoRun}
             /\ row.snapshot = NoRun => a.why = {}
             /\ (\A q \in ParallelSet("summary") : st[q].rows = row.snapshot)
                  => "membership" \notin a.why
<1>1. NoAnswer \in Answers
  BY DEF NoAnswer, Answers, Outcomes, Healths, Runs
<1>2. CASE row.snapshot = NoRun
  <2>1. Summary(row, st) = [NoAnswer EXCEPT !.outcome = "succeeded", !.health = "no_snapshot"]
    BY <1>2 DEF Summary
  <2>. QED
    BY <2>1 DEF NoAnswer, Answers, Outcomes, Healths, Runs
<1>3. CASE row.snapshot # NoRun
  <2> DEFINE why == Unhealthy(row, st)
             bad == \E q \in ParallelSet("summary") : RowsOf[st[q].rows] # RowsOf[row.snapshot]
  <2>1. why = (IF row.snapshot \notin Complete THEN {"projection"} ELSE {}) \cup
              (IF row.lifecycle # "running" \/ ~row.live THEN {"worker"} ELSE {}) \cup
              (IF bad THEN {"membership"} ELSE {})
    BY DEF Unhealthy, ParallelSet
  <2>2. Summary(row, st) = [outcome |-> "succeeded", snapshot |-> row.snapshot, why |-> why,
                            health |-> IF why = {} THEN "fresh" ELSE "degraded"]
    BY <1>3 DEF Summary
  <2>3. row.snapshot \in Runs
    BY DEF StatusRows
  <2>4. (\A q \in ParallelSet("summary") : st[q].rows = row.snapshot) => ~bad
    OBVIOUS
  <2>5. why \in SUBSET Reasons /\ ("membership" \in why <=> bad)
        /\ (why = {} => row.snapshot \in Complete /\ row.lifecycle = "running" /\ row.live)
    BY <2>1 DEF Reasons
  <2> HIDE DEF why, bad
  <2>. QED
    BY <1>3, <2>2, <2>3, <2>4, <2>5 DEF Answers, Outcomes, Healths
<1>. QED
  BY <1>2, <1>3

\* A page whose count and rows are of one snapshot does not contradict itself
\* (pageResponse).
LEMMA PageSound ==
  ASSUME NEW row \in StatusRows, NEW st, NEW offset \in Nat
  PROVE  LET a == Page(row, offset, st)
         IN  /\ a \in Answers
             /\ a.health # "fresh"
             /\ a.snapshot \in {row.snapshot, NoRun}
             /\ a.why = {}
             /\ a.outcome = "failed" => row.snapshot # NoRun
             /\ row.snapshot \in Snapshots /\ st["count"].rows = row.snapshot
                  /\ st["page"].rows = row.snapshot
                  => a.outcome = "succeeded"
<1> DEFINE total == RowsOf[st["count"].rows]
           rows == RowsOf[st["page"].rows]
           returned == IF rows > offset THEN Least(Limit, rows - offset) ELSE 0
<1>1. ASSUME row.snapshot \in Snapshots, st["count"].rows = row.snapshot,
             st["page"].rows = row.snapshot
      PROVE  ~Inconsistent(offset, returned, total)
  <2>1. total \in Nat /\ rows = total /\ Limit \in Nat \ {0}
    BY <1>1, ReadsAssumption
  <2>. QED
    BY <2>1 DEF Inconsistent, Least
<1>2. Page(row, offset, st) =
        IF row.snapshot # NoRun /\ Inconsistent(offset, returned, total)
        THEN [NoAnswer EXCEPT !.outcome = "failed"]
        ELSE [NoAnswer EXCEPT !.outcome = "succeeded", !.snapshot = row.snapshot,
                !.health = IF row.snapshot = NoRun THEN "no_snapshot" ELSE "available"]
  BY DEF Page
<1>3. row.snapshot \in Runs
  BY DEF StatusRows
<1> HIDE DEF total, returned
<1>. QED
  BY <1>1, <1>2, <1>3 DEF NoAnswer, Answers, Outcomes, Healths, Runs

-----------------------------------------------------------------------------
(* One request, before and after Put.                                       *)

(* What a handler hands to Put: a statement may just have failed or ended. *)
Handed(r, rq, st, truly, count) ==
  /\ rq \in RequestRecords /\ st \in Progress /\ rq.pc # "idle"
  /\ rq.pc = "ended" => \A q \in Statements : st[q].st \in {"none", "done"}
  /\ rq.pc = "selecting" => st["current"].st \in InProgress \cup {"failed"} /\ OnlyCurrent(st)
  /\ rq.pc \in {"reading", "draining"} => PastCurrent(r, st)
  /\ RowsRight(r, rq, st) /\ RowWitnessed(r, rq, truly)
  /\ CauseRight(rq, st, count) /\ AnswerRight(rq, truly, count)

LEMMA RefusedFacts ==
  ASSUME NEW rq \in RequestRecords
  PROVE  LET next == Refused(rq)
         IN  /\ next \in RequestRecords /\ next.pc = "ended" /\ next.old = rq.old
             /\ ~next.aborted /\ ~next.stopped
             /\ next.answer.health = "none" /\ next.answer.why = {}
             /\ next.answer.outcome # "succeeded"
<1> DEFINE answer == [NoAnswer EXCEPT !.outcome = IF rq.aborted THEN "cancelled" ELSE "failed"]
<1>1. answer \in Answers /\ answer.health = "none" /\ answer.why = {}
      /\ answer.outcome # "succeeded"
  BY DEF NoAnswer, Answers, Outcomes, Healths, Runs
<1>2. NoRow \in StatusRows
  BY DEF NoRow, StatusRows, Runs, Lifecycles
<1>3. Refused(rq) = [rq EXCEPT !.pc = "ended", !.row = NoRow, !.aborted = FALSE,
                               !.stopped = FALSE, !.answer = answer]
  BY DEF Refused
<1> HIDE DEF answer
<1>. QED
  BY <1>1, <1>2, <1>3 DEF RequestRecords, Phases

LEMMA AnsweredFacts ==
  ASSUME NEW r \in Requests, NEW rq \in RequestRecords, NEW st
  PROVE  LET next == Answered(r, rq, st)
             answer == IF KindOf[r] = "summary" THEN Summary(rq.row, st)
                       ELSE Page(rq.row, OffsetOf[r], st)
         IN  /\ next \in RequestRecords /\ next.pc = "ended" /\ next.old = rq.old
             /\ next.aborted = rq.aborted /\ next.stopped = rq.stopped
             /\ next.answer = answer
<1> DEFINE answer == IF KindOf[r] = "summary" THEN Summary(rq.row, st)
                     ELSE Page(rq.row, OffsetOf[r], st)
<1>0. rq.row \in StatusRows /\ OffsetOf[r] \in Nat
  BY ReadsAssumption DEF RequestRecords
<1>1. answer \in Answers
  BY <1>0, SummarySound, PageSound
<1>2. NoRow \in StatusRows
  BY DEF NoRow, StatusRows, Runs, Lifecycles
<1>3. Answered(r, rq, st) = [rq EXCEPT !.pc = "ended", !.row = NoRow, !.answer = answer]
  BY DEF Answered
<1> HIDE DEF answer
<1>4. /\ Answered(r, rq, st) \in RequestRecords /\ Answered(r, rq, st).pc = "ended"
      /\ Answered(r, rq, st).old = rq.old /\ Answered(r, rq, st).aborted = rq.aborted
      /\ Answered(r, rq, st).stopped = rq.stopped /\ Answered(r, rq, st).answer = answer
  BY <1>1, <1>2, <1>3 DEF RequestRecords, Phases
<1>. QED
  BY <1>4 DEF answer

(* What remains of a request that has been refused or answered. *)
\* No statement is left of a request that has ended.
LEMMA EndedStage ==
  ASSUME NEW r, NEW rq, NEW st \in Progress, NEW rq2,
         rq2.pc = "ended", \A q \in Statements : st[q].st \notin InProgress
  PROVE  /\ StageRight(r, rq2, Remembered(st)) /\ RowsRight(r, rq2, Remembered(st))
         /\ \A q \in Statements : Remembered(st)[q].st = "none"
<1>1. \A q \in Statements : Remembered(st)[q].st = "none"
  BY RememberedHolds
<1>. QED
  BY <1>1 DEF StageRight, RowsRight

\* The first failure among the parallel statements (runParallelPortfolioQueries).
LEMMA StoppingFacts ==
  ASSUME NEW r \in Requests, NEW rq, NEW st, NEW truly, NEW count,
         Handed(r, rq, st, truly, count), FirstFailure(rq, st)
  PROVE  /\ Stopping(rq, st) \in RequestRecords /\ Stopping(rq, st).pc = "draining"
         /\ Stopping(rq, st).old = rq.old /\ Stopping(rq, st).answer = rq.answer
         /\ PastCurrent(r, Left(rq, st)) /\ count > 0
<1>1. Stopping(rq, st) = [rq EXCEPT !.pc = "draining", !.stopped = TRUE]
      /\ Left(rq, st) = AbortStatements(st)
  BY DEF Stopping, Left
<1>2. rq \in RequestRecords /\ st \in Progress /\ rq.pc = "reading"
  BY DEF Handed, FirstFailure
<1>3. /\ Stopping(rq, st) \in RequestRecords /\ Stopping(rq, st).pc = "draining"
      /\ Stopping(rq, st).old = rq.old /\ Stopping(rq, st).answer = rq.answer
  BY <1>1, <1>2 DEF RequestRecords, Phases
<1>4. \A q \in Statements : AbortStatements(st)[q].st =
        IF st[q].st = "connecting" THEN "failed"
        ELSE IF st[q].st = "querying" THEN "dying" ELSE st[q].st
  BY <1>2, AbortFacts
<1>5. PastCurrent(r, st)
  BY <1>2 DEF Handed
<1>6. ParallelSet(KindOf[r]) \subseteq Statements /\ "current" \in Statements
  BY ParallelSets DEF Statements
<1>7. PastCurrent(r, Left(rq, st))
  BY <1>1, <1>4, <1>5, <1>6 DEF PastCurrent, InProgress
<1>8. count > 0
  BY DEF Handed, FirstFailure, CauseRight
<1>. QED
  BY <1>3, <1>7, <1>8

\* Whatever a handler hands to Put, the request it leaves is right again.
LEMMA PutRequest ==
  ASSUME NEW r \in Requests, NEW rq, NEW st, NEW truly, NEW count,
         Handed(r, rq, st, truly, count)
  PROVE  LET rq2 == NextRequest(r, rq, st)
             st2 == NextStatements(r, rq, st)
         IN  /\ rq2 \in RequestRecords /\ st2 \in Progress
             /\ RequestRight(r, rq2, st2, truly, count)
             /\ rq2.old = rq.old /\ (rq2.pc = "selecting" => rq.pc = "selecting")
             /\ HeldBy(st2) = HeldBy(Left(rq, st))
<1> DEFINE rq2 == NextRequest(r, rq, st)
           st2 == NextStatements(r, rq, st)
           after == Left(rq, st)
           from == Stopping(rq, st)
           Goal == /\ rq2 \in RequestRecords /\ st2 \in Progress
                   /\ RequestRight(r, rq2, st2, truly, count)
                   /\ rq2.old = rq.old /\ (rq2.pc = "selecting" => rq.pc = "selecting")
                   /\ HeldBy(st2) = HeldBy(after)
<1>1. rq \in RequestRecords /\ st \in Progress /\ after \in Progress
  BY HeldAfterPut DEF Handed
<1>2. rq2 = Resume(r, from, after)
      /\ st2 = IF rq2.pc = "ended" THEN Remembered(after) ELSE after
  BY DEF NextRequest, NextStatements
<1>3. "current" \in Statements /\ ParallelSet(KindOf[r]) \subseteq Statements
      /\ ParallelSet(KindOf[r]) # {}
  BY ParallelSets DEF Statements
<1>4. ASSUME rq2 = Refused(from), from \in RequestRecords, from.old = rq.old, count > 0,
             \A q \in Statements : after[q].st \notin InProgress
      PROVE  Goal
  <2>1. /\ rq2 \in RequestRecords /\ rq2.pc = "ended" /\ rq2.old = rq.old
        /\ ~rq2.aborted /\ ~rq2.stopped
        /\ rq2.answer.health = "none" /\ rq2.answer.why = {}
        /\ rq2.answer.outcome # "succeeded"
    BY <1>4, RefusedFacts
  <2>2. st2 = Remembered(after)
    BY <1>2, <2>1
  <2>3. /\ StageRight(r, rq2, st2) /\ RowsRight(r, rq2, st2)
        /\ \A q \in Statements : st2[q].st = "none"
    BY <1>1, <1>4, <2>1, <2>2, EndedStage
  <2>4. RowWitnessed(r, rq2, truly) /\ CauseRight(rq2, st2, count) /\ AnswerRight(rq2, truly, count)
    BY <1>4, <2>1, <2>3 DEF RowWitnessed, CauseRight, AnswerRight
  <2>5. st2 \in Progress /\ HeldBy(st2) = HeldBy(after)
    BY <1>1, <2>2, RememberedHolds
  <2>. QED
    BY <2>1, <2>3, <2>4, <2>5 DEF RequestRight
<1>5. CASE FirstFailure(rq, st)
  <2>1. /\ from \in RequestRecords /\ from.pc = "draining" /\ from.old = rq.old
        /\ from.answer = rq.answer /\ PastCurrent(r, after) /\ count > 0
    BY <1>5, StoppingFacts
  <2>2. CASE \A q \in Statements : after[q].st \notin InProgress
    <3>1. rq2 = Refused(from)
      BY <1>2, <2>1, <2>2 DEF Resume
    <3>. QED
      BY <1>4, <2>1, <2>2, <3>1
  <2>3. CASE \E q \in Statements : after[q].st \in InProgress
    <3>1. rq2 = from
      BY <1>2, <2>1, <2>3 DEF Resume
    <3>2. st2 = after
      BY <1>2, <2>1, <3>1
    <3>3. rq.pc = "reading" /\ AnswerRight(rq, truly, count)
      BY <1>5 DEF FirstFailure, Handed
    <3>4. StageRight(r, rq2, st2) /\ RowsRight(r, rq2, st2) /\ RowWitnessed(r, rq2, truly)
      BY <2>1, <2>3, <3>1, <3>2 DEF StageRight, RowsRight, RowWitnessed
    <3>5. CauseRight(rq2, st2, count) /\ AnswerRight(rq2, truly, count)
      BY <2>1, <3>1, <3>3 DEF CauseRight, AnswerRight
    <3>. QED
      BY <1>1, <2>1, <3>1, <3>2, <3>4, <3>5 DEF RequestRight
  <2>. QED
    BY <2>2, <2>3
<1>6. CASE ~FirstFailure(rq, st)
  <2>1. from = rq /\ after = st
    BY <1>6 DEF Stopping, Left
  <2>2. CASE rq.pc = "ended"
    <3>1. rq2 = rq
      BY <1>2, <2>1, <2>2 DEF Resume
    <3>2. \A q \in Statements : st[q].st \notin InProgress
      BY <2>2 DEF Handed, InProgress
    <3>3. st2 = Remembered(st)
      BY <1>2, <2>1, <2>2, <3>1
    <3>4. /\ StageRight(r, rq2, st2) /\ RowsRight(r, rq2, st2)
          /\ \A q \in Statements : st2[q].st = "none"
      BY <1>1, <2>1, <2>2, <3>1, <3>2, <3>3, EndedStage
    <3>5. RowWitnessed(r, rq2, truly) /\ CauseRight(rq2, st2, count) /\ AnswerRight(rq2, truly, count)
      BY <2>2, <3>1, <3>4 DEF Handed, RowWitnessed, CauseRight
    <3>6. st2 \in Progress /\ HeldBy(st2) = HeldBy(after)
      BY <1>1, <2>1, <3>3, RememberedHolds
    <3>. QED
      BY <1>1, <3>1, <3>4, <3>5, <3>6 DEF RequestRight
  <2>3. CASE rq.pc = "selecting"
    <3>1. CASE st["current"].st = "failed"
      <4>1. rq2 = Refused(from)
        BY <1>2, <2>1, <2>3, <3>1 DEF Resume
      <4>2. \A q \in Statements : st[q].st \notin InProgress
        BY <2>3, <3>1 DEF Handed, OnlyCurrent, InProgress
      <4>3. count > 0
        BY <1>3, <3>1 DEF Handed, CauseRight
      <4>. QED
        BY <1>1, <1>4, <2>1, <4>1, <4>2, <4>3
    <3>2. CASE st["current"].st # "failed"
      <4>1. rq2 = rq /\ st2 = st
        BY <1>2, <2>1, <2>3, <3>2 DEF Resume
      <4>2. StageRight(r, rq2, st2)
        BY <2>3, <3>2, <4>1 DEF Handed, StageRight
      <4>3. /\ RowsRight(r, rq2, st2) /\ RowWitnessed(r, rq2, truly)
            /\ CauseRight(rq2, st2, count) /\ AnswerRight(rq2, truly, count)
        BY <4>1 DEF Handed
      <4>. QED
        BY <1>1, <2>1, <4>1, <4>2, <4>3 DEF RequestRight
    <3>. QED
      BY <3>1, <3>2
  <2>4. CASE rq.pc = "draining"
    <3>1. count > 0
      BY <2>4 DEF Handed, CauseRight
    <3>2. CASE \A q \in Statements : st[q].st \notin InProgress
      <4>1. rq2 = Refused(from)
        BY <1>2, <2>1, <2>4, <3>2 DEF Resume
      <4>. QED
        BY <1>1, <1>4, <2>1, <3>1, <3>2, <4>1
    <3>3. CASE \E q \in Statements : st[q].st \in InProgress
      <4>1. rq2 = rq /\ st2 = st
        BY <1>2, <2>1, <2>4, <3>3 DEF Resume
      <4>2. StageRight(r, rq2, st2)
        BY <2>4, <3>3, <4>1 DEF Handed, StageRight
      <4>3. /\ RowsRight(r, rq2, st2) /\ RowWitnessed(r, rq2, truly)
            /\ CauseRight(rq2, st2, count) /\ AnswerRight(rq2, truly, count)
        BY <4>1 DEF Handed
      <4>. QED
        BY <1>1, <2>1, <4>1, <4>2, <4>3 DEF RequestRight
    <3>. QED
      BY <3>2, <3>3
  <2>5. CASE rq.pc = "reading"
    <3>1. PastCurrent(r, st) /\ \A q \in Statements : st[q].st # "failed"
      BY <1>6, <2>5 DEF Handed, FirstFailure
    <3>2. CASE \A q \in ParallelSet(KindOf[r]) : st[q].st = "done"
      <4>1. rq2 = Answered(r, rq, st)
        BY <1>2, <2>1, <2>5, <3>2 DEF Resume, ParallelSet
      <4> DEFINE answer == IF KindOf[r] = "summary" THEN Summary(rq.row, st)
                           ELSE Page(rq.row, OffsetOf[r], st)
      <4>2. /\ rq2 \in RequestRecords /\ rq2.pc = "ended" /\ rq2.old = rq.old
            /\ rq2.aborted = rq.aborted /\ rq2.stopped = rq.stopped
            /\ rq2.answer = answer
        BY <1>1, <4>1, AnsweredFacts
      <4>3. \A q \in Statements : st[q].st \notin InProgress
        BY <3>1, <3>2 DEF PastCurrent, InProgress
      <4>4. st2 = Remembered(st)
        BY <1>2, <2>1, <4>2
      <4>5. /\ StageRight(r, rq2, st2) /\ RowsRight(r, rq2, st2)
            /\ \A q \in Statements : st2[q].st = "none"
        BY <1>1, <4>2, <4>3, <4>4, EndedStage
      <4>6. /\ rq.row \in StatusRows /\ rq.row.snapshot \in Snapshots
            /\ rq.row.snapshot \notin rq.old
            /\ \A q \in ParallelSet(KindOf[r]) : st[q].rows = rq.row.snapshot
        BY <1>1, <2>5, <3>2 DEF Handed, RowsRight, RequestRecords
      <4>7. /\ KindOf[r] = "summary" /\ rq.row.lifecycle = "running" /\ rq.row.live
                 => rq.row.snapshot \in truly
        BY <2>5 DEF Handed, RowWitnessed
      <4>8. /\ answer.health = "fresh" => answer.snapshot \in truly \cap Complete
            /\ answer.outcome # "failed" /\ "membership" \notin answer.why
            /\ answer.snapshot \in {rq.row.snapshot, NoRun}
        <5>1. CASE KindOf[r] = "summary"
          BY <4>6, <4>7, <5>1, SummarySound
        <5>2. CASE KindOf[r] # "summary"
          <6>1. "count" \in ParallelSet(KindOf[r]) /\ "page" \in ParallelSet(KindOf[r])
            BY <5>2, ParallelSets
          <6>2. OffsetOf[r] \in Nat
            BY ReadsAssumption
          <6>. QED
            BY <4>6, <5>2, <6>1, <6>2, PageSound
        <5>. QED
          BY <5>1, <5>2
      <4> HIDE DEF answer
      <4>9. RowWitnessed(r, rq2, truly) /\ AnswerRight(rq2, truly, count)
        BY <4>2, <4>6, <4>8 DEF RowWitnessed, AnswerRight
      <4>10. CauseRight(rq2, st2, count)
        BY <4>2, <4>5 DEF Handed, CauseRight
      <4>11. st2 \in Progress /\ HeldBy(st2) = HeldBy(after)
        BY <1>1, <2>1, <4>4, RememberedHolds
      <4>. QED
        BY <4>2, <4>5, <4>9, <4>10, <4>11 DEF RequestRight
    <3>3. CASE \E q \in ParallelSet(KindOf[r]) : st[q].st # "done"
      <4>1. rq2 = rq /\ st2 = st
        BY <1>2, <2>1, <2>5, <3>3 DEF Resume, ParallelSet
      <4>2. StageRight(r, rq2, st2)
        BY <2>5, <3>1, <3>3, <4>1 DEF StageRight
      <4>3. /\ RowsRight(r, rq2, st2) /\ RowWitnessed(r, rq2, truly)
            /\ CauseRight(rq2, st2, count) /\ AnswerRight(rq2, truly, count)
        BY <4>1 DEF Handed
      <4>. QED
        BY <1>1, <2>1, <4>1, <4>2, <4>3 DEF RequestRight
    <3>. QED
      BY <3>2, <3>3
  <2>6. rq.pc \in {"selecting", "reading", "draining", "ended"}
    BY DEF Handed, RequestRecords, Phases
  <2>. QED
    BY <2>2, <2>3, <2>4, <2>5, <2>6
<1>. QED
  BY <1>5, <1>6

-----------------------------------------------------------------------------
(* All requests together.                                                   *)

\* The history only grows, and misses no healthy worker's snapshot.
LEMMA WitnessGrows ==
  ASSUME Witness, WorldRight', shown \in [Requests -> SUBSET Snapshots]
  PROVE  /\ shown' \in [Requests -> SUBSET Snapshots]
         /\ \A r \in Requests :
              /\ shown[r] \subseteq shown'[r]
              /\ KindOf[r] = "summary" /\ req'[r].pc \in {"selecting", "reading"}
                   /\ current' # NoRun /\ Healthy'
                   => current' \in shown'[r]
<1>1. shown' = [r \in Requests |->
        IF /\ KindOf[r] = "summary" /\ req'[r].pc \in {"selecting", "reading"}
           /\ current' # NoRun /\ Healthy'
        THEN shown[r] \cup {current'} ELSE shown[r]]
  BY DEF Witness
<1>2. current' # NoRun => current' \in Snapshots
  BY DEF WorldRight, Runs
<1>. QED
  BY <1>1, <1>2

\* What is right stays so when more was witnessed and more has failed.
LEMMA RightStays ==
  ASSUME NEW r, NEW rq, NEW st, NEW few, NEW many, few \subseteq many,
         NEW less \in Nat, NEW more \in Nat, less <= more,
         RequestRight(r, rq, st, few, less)
  PROVE  RequestRight(r, rq, st, many, more)
<1>1. RowWitnessed(r, rq, many)
  BY DEF RequestRight, RowWitnessed
<1>2. CauseRight(rq, st, more)
  BY DEF RequestRight, CauseRight
<1>3. AnswerRight(rq, many, more)
  BY DEF RequestRight, AnswerRight
<1>. QED
  BY <1>1, <1>2, <1>3 DEF RequestRight

\* The connections in use are those of one request and those of the others.
LEMMA PoolMoves ==
  ASSUME NEW all \in [Requests -> Progress], NEW r \in Requests, NEW st \in Progress,
         IsFiniteSet(HeldIn(all))
  PROVE  LET next == [all EXCEPT ![r] = st]
         IN  /\ IsFiniteSet(HeldIn(next))
             /\ Cardinality(HeldIn(next))
                  = Cardinality(HeldIn(all)) - Cardinality(HeldBy(all[r])) + Cardinality(HeldBy(st))
<1> DEFINE next == [all EXCEPT ![r] = st]
           others == {e \in HeldIn(all) : e[1] # r}
           Mine(s) == {r} \X HeldBy(s)
<1>1. IsFiniteSet(others) /\ Cardinality(others) \in Nat
  BY FS_Subset, FS_CardinalityType
<1>2. ASSUME NEW s
      PROVE  /\ IsFiniteSet(Mine(s)) /\ Cardinality(Mine(s)) = Cardinality(HeldBy(s))
             /\ Cardinality(HeldBy(s)) \in Nat /\ others \cap Mine(s) = {}
             /\ IsFiniteSet(others \cup Mine(s))
             /\ Cardinality(others \cup Mine(s)) = Cardinality(others) + Cardinality(HeldBy(s))
  <2>1. IsFiniteSet(HeldBy(s)) /\ Cardinality(HeldBy(s)) \in Nat
    BY StatementsFinite DEF HeldBy
  <2>2. IsFiniteSet({r}) /\ Cardinality({r}) = 1
    BY FS_Singleton
  <2>3. IsFiniteSet(Mine(s)) /\ Cardinality(Mine(s)) = Cardinality({r}) * Cardinality(HeldBy(s))
    BY <2>1, <2>2, FS_Product
  <2>4. Cardinality(Mine(s)) = Cardinality(HeldBy(s))
    BY <2>1, <2>2, <2>3
  <2>5. others \cap Mine(s) = {}
    OBVIOUS
  <2>6. Cardinality({}) = 0
    BY FS_EmptySet
  <2>7. /\ IsFiniteSet(others \cup Mine(s))
        /\ Cardinality(others \cup Mine(s))
             = Cardinality(others) + Cardinality(Mine(s)) - Cardinality(others \cap Mine(s))
    BY <1>1, <2>3, FS_Union
  <2> HIDE DEF others, Mine
  <2>8. Cardinality(others \cap Mine(s)) = 0
    BY <2>5, <2>6
  <2>9. Cardinality(others \cup Mine(s)) = Cardinality(others) + Cardinality(HeldBy(s))
    BY <1>1, <2>1, <2>4, <2>7, <2>8
  <2>. QED
    BY <2>1, <2>3, <2>4, <2>5, <2>7, <2>9
<1>3. HeldIn(all) = others \cup Mine(all[r])
  BY DEF HeldIn, HeldBy
<1>4. /\ next[r] = st
      /\ \A e \in Requests \X Statements : e[1] # r => next[e[1]] = all[e[1]]
  OBVIOUS
<1> HIDE DEF next
<1>5. HeldIn(next) = others \cup Mine(st)
  BY <1>4 DEF HeldIn, HeldBy
<1> HIDE DEF others, Mine
<1>6. Cardinality(HeldIn(all)) = Cardinality(others) + Cardinality(HeldBy(all[r]))
      /\ Cardinality(HeldBy(all[r])) \in Nat
  BY <1>2, <1>3
<1>7. IsFiniteSet(HeldIn(next)) /\ Cardinality(HeldBy(st)) \in Nat
      /\ Cardinality(HeldIn(next)) = Cardinality(others) + Cardinality(HeldBy(st))
  BY <1>2, <1>5
<1>8. Cardinality(HeldIn(next))
        = Cardinality(HeldIn(all)) - Cardinality(HeldBy(all[r])) + Cardinality(HeldBy(st))
  BY <1>1, <1>6, <1>7
<1>. QED
  BY <1>7, <1>8 DEF next

\* A handler that changes the statements of one request keeps the invariant, if
\* what it hands to Put fits the request and takes what it must from the pool.
LEMMA PutStep ==
  ASSUME IInv, NEW r \in Requests, NEW rq, NEW st, NEW net \in Int,
         Put(r, rq, st, net), UNCHANGED statusVars, Witness,
         faults' \in Nat, faults <= faults', waiting' \in Seq(Requests \X Statements),
         Handed(r, rq, st, shown'[r], faults'),
         rq.old = req[r].old, rq.pc = "selecting" => req[r].pc = "selecting",
         Cardinality(HeldBy(st)) = Cardinality(HeldBy(query[r])) + net,
         net <= 0 \/ checkedOut + net <= PoolMax
  PROVE  IInv'
<1> DEFINE rq2 == NextRequest(r, rq, st)
           st2 == NextStatements(r, rq, st)
<1>1. WorldRight'
  BY DEF IInv, WorldRight, statusVars
<1>2. /\ req' = [req EXCEPT ![r] = rq2] /\ query' = [query EXCEPT ![r] = st2]
      /\ checkedOut' = (checkedOut + net) - (Running(st) - Running(Left(rq, st)))
  BY PutAssigns
<1>3. /\ rq2 \in RequestRecords /\ st2 \in Progress
      /\ RequestRight(r, rq2, st2, shown'[r], faults')
      /\ rq2.old = rq.old /\ (rq2.pc = "selecting" => rq.pc = "selecting")
      /\ HeldBy(st2) = HeldBy(Left(rq, st))
  BY PutRequest
<1> HIDE DEF rq2, st2
<1>4. /\ req \in [Requests -> RequestRecords] /\ query \in [Requests -> Progress]
      /\ shown \in [Requests -> SUBSET Snapshots] /\ faults \in Nat
  BY DEF IInv, RequestsTyped
<1>5. /\ shown' \in [Requests -> SUBSET Snapshots]
      /\ \A x \in Requests : shown[x] \subseteq shown'[x]
  BY <1>1, <1>4, WitnessGrows
<1>6. RequestsTyped'
  BY <1>2, <1>3, <1>4, <1>5 DEF RequestsTyped
<1>7. EveryRequestRight'
  <2>1. promoted' = promoted /\ current' = current
    BY DEF statusVars
  <2>2. ASSUME NEW x \in Requests
        PROVE  RequestRight(x, req'[x], query'[x], shown'[x], faults')
               /\ OldRight(req'[x], promoted, current)
    <3>1. RequestRight(x, req[x], query[x], shown[x], faults) /\ OldRight(req[x], promoted, current)
      BY DEF IInv, EveryRequestRight
    <3>2. CASE x # r
      <4>1. req'[x] = req[x] /\ query'[x] = query[x]
        BY <1>2, <1>4, <3>2
      <4>. QED
        BY <1>4, <1>5, <3>1, <4>1, RightStays
    <3>3. CASE x = r
      <4>1. req'[x] = rq2 /\ query'[x] = st2
        BY <1>2, <1>4, <3>3
      <4>2. OldRight(rq2, promoted, current)
        BY <1>3, <3>1, <3>3 DEF OldRight
      <4>. QED
        BY <1>3, <3>3, <4>1, <4>2
    <3>. QED
      BY <3>2, <3>3
  <2>. QED
    BY <2>1, <2>2 DEF EveryRequestRight
<1>8. PoolRight'
  <2>1. st \in Progress
    BY DEF Handed
  <2>2. /\ Running(st) \in Nat /\ Running(Left(rq, st)) \in Nat
        /\ Running(Left(rq, st)) <= Running(st)
        /\ Cardinality(HeldBy(Left(rq, st)))
             = Cardinality(HeldBy(st)) - (Running(st) - Running(Left(rq, st)))
    BY <2>1, HeldAfterPut
  <2>3. /\ IsFiniteSet(HeldIn(query)) /\ checkedOut = Cardinality(HeldIn(query))
        /\ checkedOut <= PoolMax
    BY DEF IInv, PoolRight
  <2>4. /\ IsFiniteSet(HeldIn(query'))
        /\ Cardinality(HeldIn(query'))
             = Cardinality(HeldIn(query)) - Cardinality(HeldBy(query[r])) + Cardinality(HeldBy(st2))
    BY <1>2, <1>3, <1>4, <2>3, PoolMoves
  <2>5. /\ Cardinality(HeldIn(query)) \in Nat /\ Cardinality(HeldBy(query[r])) \in Nat
        /\ PoolMax \in Nat
    BY <2>3, FS_CardinalityType, StatementsFinite, ReadsAssumption DEF HeldBy
  <2>6. Cardinality(HeldBy(st2)) = Cardinality(HeldBy(st)) - (Running(st) - Running(Left(rq, st)))
    BY <1>3, <2>2
  <2>7. checkedOut' = Cardinality(HeldIn(query'))
    BY <1>2, <2>2, <2>3, <2>4, <2>5, <2>6
  <2>8. checkedOut' <= PoolMax
    BY <1>2, <2>2, <2>3, <2>5
  <2>. QED
    BY <2>4, <2>7, <2>8 DEF PoolRight
<1>. QED
  BY <1>1, <1>6, <1>7, <1>8 DEF IInv

-----------------------------------------------------------------------------
(* The steps.                                                               *)

\* A statement in progress goes on, returns or fails.
LEMMA MovedIsHanded ==
  ASSUME IInv, NEW r \in Requests, NEW q \in Statements, NEW s \in InProgress \cup {"done", "failed"},
         NEW rows \in Runs \cup {NoRows}, NEW truly, shown[r] \subseteq truly,
         NEW count \in Nat, faults <= count,
         query[r][q].st \in InProgress,
         q = "current" => s # "done",
         s = "done" => rows = req[r].row.snapshot,
         s \in {"dying", "failed"} => count > 0
  PROVE  Handed(r, req[r], With(r, q, s, rows), truly, count)
<1> DEFINE rq == req[r]
           old == query[r]
           st == With(r, q, s, rows)
<1>1. rq \in RequestRecords /\ old \in Progress /\ faults \in Nat
  BY DEF IInv, RequestsTyped
<1>2. RequestRight(r, rq, old, truly, count)
  <2>1. RequestRight(r, req[r], query[r], shown[r], faults)
    BY DEF IInv, EveryRequestRight
  <2>. QED
    BY <1>1, <2>1, RightStays
<1>3. s \in States
  BY DEF States, InProgress
<1>4. /\ st \in Progress /\ st[q].st = s /\ st[q].rows = rows
      /\ \A x \in Statements \ {q} : st[x] = old[x]
  <2> DEFINE after == [old EXCEPT ![q] = [st |-> s, rows |-> rows]]
  <2>1. st = after
    BY DEF With
  <2>2. /\ after \in Progress /\ after[q].st = s /\ after[q].rows = rows
        /\ \A x \in Statements \ {q} : after[x] = old[x]
    <3> HIDE DEF old
    <3>. QED
      BY <1>1, <1>3, OneStatementMoves
  <2> HIDE DEF after, st
  <2>. QED
    BY <2>1, <2>2
<1> HIDE DEF rq, old, st
<1>5. /\ old[q].st \in InProgress /\ (s = "done" => rows = rq.row.snapshot)
  BY DEF old, rq
<1>6. "current" \in Statements /\ ParallelSet(KindOf[r]) \subseteq Statements \ {"current"}
  BY ParallelSets DEF Statements
<1>7. rq.pc \in Phases /\ "done" \notin InProgress /\ "none" \notin InProgress
  BY <1>1 DEF RequestRecords, InProgress
<1>8. rq.pc \notin {"idle", "ended"}
  BY <1>2, <1>5, <1>7 DEF RequestRight, StageRight
<1>9. rq.pc = "selecting" => q = "current"
  BY <1>2, <1>5, <1>7 DEF RequestRight, StageRight, OnlyCurrent
<1>10. rq.pc \in {"reading", "draining"} => PastCurrent(r, old) /\ q \in ParallelSet(KindOf[r])
  BY <1>2, <1>5, <1>6, <1>7 DEF RequestRight, StageRight, PastCurrent
<1>11. rq.pc = "selecting" => st["current"].st \in InProgress \cup {"failed"} /\ OnlyCurrent(st)
  BY <1>2, <1>4, <1>9 DEF RequestRight, StageRight, OnlyCurrent
<1>12. rq.pc \in {"reading", "draining"} => PastCurrent(r, st)
  BY <1>4, <1>6, <1>10 DEF PastCurrent
<1>13. RowsRight(r, rq, st)
  BY <1>2, <1>4, <1>5, <1>6 DEF RequestRight, RowsRight
<1>14. RowWitnessed(r, rq, truly) /\ AnswerRight(rq, truly, count)
  BY <1>2 DEF RequestRight
<1>15. CauseRight(rq, st, count)
  BY <1>2, <1>4 DEF RequestRight, CauseRight
<1>16. Handed(r, rq, st, truly, count)
  BY <1>1, <1>4, <1>7, <1>8, <1>11, <1>12, <1>13, <1>14, <1>15 DEF Handed
<1>. QED
  BY <1>16 DEF rq, st

\* The step of one statement keeps the invariant.
LEMMA MoveStep ==
  ASSUME IInv, NEW r \in Requests, NEW q \in Statements, NEW s \in InProgress \cup {"done", "failed"},
         NEW rows \in Runs \cup {NoRows}, NEW net \in Int,
         query[r][q].st \in InProgress,
         q = "current" => s # "done",
         s = "done" => rows = req[r].row.snapshot,
         s \in {"dying", "failed"} => faults' > 0,
         Put(r, req[r], With(r, q, s, rows), net), UNCHANGED statusVars, Witness,
         faults' \in Nat, faults <= faults', waiting' \in Seq(Requests \X Statements),
         net = (IF s \in {"acquired", "querying"} THEN 1 ELSE 0)
                 - (IF query[r][q].st \in {"acquired", "querying"} THEN 1 ELSE 0),
         net <= 0 \/ checkedOut + net <= PoolMax
  PROVE  IInv'
<1>1. /\ query \in [Requests -> Progress] /\ req \in [Requests -> RequestRecords]
      /\ shown \in [Requests -> SUBSET Snapshots]
  BY DEF IInv, RequestsTyped
<1>2. WorldRight'
  BY DEF IInv, WorldRight, statusVars
<1>3. shown[r] \subseteq shown'[r]
  BY <1>1, <1>2, WitnessGrows
<1>4. Handed(r, req[r], With(r, q, s, rows), shown'[r], faults')
  BY <1>3, MovedIsHanded
<1>5. s \in States /\ query[r] \in Progress
  BY <1>1 DEF States, InProgress
<1> DEFINE old == query[r]
           after == [old EXCEPT ![q] = [st |-> s, rows |-> rows]]
           held == {"acquired", "querying"}
<1>6. With(r, q, s, rows) = after
  BY DEF With
<1>7. /\ s \in held /\ old[q].st \in held
           => Cardinality(HeldBy(after)) = Cardinality(HeldBy(old))
      /\ s \in held /\ old[q].st \notin held
           => Cardinality(HeldBy(after)) = Cardinality(HeldBy(old)) + 1
      /\ s \notin held /\ old[q].st \in held
           => Cardinality(HeldBy(after)) = Cardinality(HeldBy(old)) - 1
      /\ s \notin held /\ old[q].st \notin held
           => Cardinality(HeldBy(after)) = Cardinality(HeldBy(old))
  <2>1. old \in Progress
    BY <1>5
  <2> HIDE DEF old
  <2>. QED
    BY <1>5, <2>1, OneStatementMoves
<1>8. Cardinality(HeldBy(old)) \in Nat
  BY StatementsFinite DEF HeldBy
<1>9. net = (IF s \in held THEN 1 ELSE 0) - (IF old[q].st \in held THEN 1 ELSE 0)
  OBVIOUS
<1> HIDE DEF after, held
<1>10. Cardinality(HeldBy(after)) = Cardinality(HeldBy(old)) + net
  <2> HIDE DEF old
  <2>. QED
    BY <1>7, <1>8, <1>9
<1>11. Cardinality(HeldBy(With(r, q, s, rows))) = Cardinality(HeldBy(query[r])) + net
  BY <1>6, <1>10
<1>. QED
  BY <1>4, <1>11, PutStep

LEMMA StateTyped ==
  ASSUME IInv
  PROVE  /\ faults \in Nat /\ waiting \in Seq(Requests \X Statements)
         /\ req \in [Requests -> RequestRecords] /\ query \in [Requests -> Progress]
         /\ checkedOut \in Nat /\ PoolMax \in Nat /\ NoRows \in Runs \cup {NoRows}
BY FS_CardinalityType, ReadsAssumption DEF IInv, RequestsTyped, PoolRight

\* The failure of one statement keeps the invariant.
LEMMA FailStep ==
  ASSUME IInv, NEW r \in Requests, NEW q \in Statements, NEW net \in Int,
         query[r][q].st \in InProgress, faults' > 0,
         Put(r, req[r], With(r, q, "failed", NoRows), net), UNCHANGED statusVars, Witness,
         faults' \in Nat, faults <= faults', waiting' \in Seq(Requests \X Statements),
         net = IF query[r][q].st \in {"acquired", "querying"} THEN 0 - 1 ELSE 0
  PROVE  IInv'
<1> DEFINE s == "failed"
           rows == NoRows
<1>1. /\ s \in InProgress \cup {"done", "failed"} /\ rows \in Runs \cup {NoRows}
      /\ s # "done" /\ s \notin {"acquired", "querying"}
      /\ Put(r, req[r], With(r, q, s, rows), net)
  OBVIOUS
<1> HIDE DEF s, rows
<1>2. /\ net = (IF s \in {"acquired", "querying"} THEN 1 ELSE 0)
                - (IF query[r][q].st \in {"acquired", "querying"} THEN 1 ELSE 0)
      /\ net <= 0
  BY <1>1
<1>. QED
  BY <1>1, <1>2, MoveStep

LEMMA GrantKeepsIInv ==
  ASSUME IInv, Grant
  PROVE  IInv'
<1> DEFINE r == Head(waiting)[1]
           q == Head(waiting)[2]
<1>1. waiting # <<>> /\ checkedOut < PoolMax /\ waiting' = Tail(waiting)
      /\ faults' = faults /\ UNCHANGED statusVars /\ Witness
  BY DEF Grant, UnchangedWorld
<1>2. Head(waiting) \in Requests \X Statements /\ waiting' \in Seq(Requests \X Statements)
  BY <1>1, StateTyped
<1>3. r \in Requests /\ q \in Statements
  BY <1>2
<1>4. CASE query[r][q].st = "connecting"
  <2>1. Put(r, req[r], With(r, q, "acquired", NoRows), 1)
    BY <1>4 DEF Grant
  <2> DEFINE s == "acquired"
             rows == NoRows
             net == 1
  <2>2. /\ s \in InProgress \cup {"done", "failed"} /\ query[r][q].st \in InProgress
        /\ s \notin {"done", "dying", "failed"} /\ rows \in Runs \cup {NoRows}
        /\ Put(r, req[r], With(r, q, s, rows), net)
    BY <1>4, <2>1 DEF InProgress
  <2>3. net = (IF s \in {"acquired", "querying"} THEN 1 ELSE 0)
                - (IF query[r][q].st \in {"acquired", "querying"} THEN 1 ELSE 0)
    BY <1>4
  <2>4. faults' \in Nat /\ faults <= faults' /\ checkedOut + net <= PoolMax /\ net \in Int
    BY <1>1, StateTyped
  <2> HIDE DEF r, q, s, rows, net
  <2>. QED
    BY <1>1, <1>2, <1>3, <2>2, <2>3, <2>4, MoveStep
<1>5. CASE query[r][q].st # "connecting"
  <2>1. UNCHANGED <<req, query, checkedOut>>
    BY <1>5 DEF Grant
  <2> HIDE DEF r, q
  <2>2. WorldRight'
    BY <1>1 DEF IInv, WorldRight, statusVars
  <2>3. shown' \in [Requests -> SUBSET Snapshots] /\ \A x \in Requests : shown[x] \subseteq shown'[x]
    BY <1>1, <2>2, WitnessGrows DEF IInv, RequestsTyped
  <2>4. RequestsTyped'
    BY <1>1, <1>2, <2>1, <2>3 DEF IInv, RequestsTyped
  <2>5. EveryRequestRight'
    <3>1. ASSUME NEW x \in Requests
          PROVE  RequestRight(x, req[x], query[x], shown'[x], faults)
                 /\ OldRight(req[x], promoted, current)
      BY <2>3, StateTyped, RightStays DEF IInv, EveryRequestRight
    <3>. QED
      BY <1>1, <2>1, <3>1 DEF EveryRequestRight, statusVars
  <2>6. PoolRight'
    BY <2>1 DEF IInv, PoolRight
  <2>. QED
    BY <2>2, <2>4, <2>5, <2>6 DEF IInv
<1>. QED
  BY <1>4, <1>5

LEMMA RemoveKeepsType ==
  ASSUME NEW S, NEW s \in Seq(S), NEW i \in DOMAIN s
  PROVE  RemoveAt(s, i) \in Seq(S)
<1>1. i \in 1..Len(s) /\ Len(s) \in Nat
  OBVIOUS
<1>2. SubSeq(s, 1, i - 1) \in Seq(S)
  BY <1>1
<1>3. SubSeq(s, i + 1, Len(s)) \in Seq(S)
  BY <1>1
<1>. QED
  BY <1>2, <1>3 DEF RemoveAt

LEMMA ConnectFailsKeepsIInv ==
  ASSUME IInv, NEW r \in Requests, NEW q \in Statements, ConnectFails(r, q)
  PROVE  IInv'
<1>1. /\ query[r][q].st = "connecting" /\ faults' = faults + 1
      /\ Put(r, req[r], With(r, q, "failed", NoRows), 0)
      /\ UNCHANGED statusVars /\ Witness
      /\ \E i \in DOMAIN waiting : waiting' = RemoveAt(waiting, i)
  BY DEF ConnectFails, UnchangedWorld
<1>2. waiting' \in Seq(Requests \X Statements)
  BY <1>1, StateTyped, RemoveKeepsType
<1>3. query[r][q].st \in InProgress
  BY <1>1 DEF InProgress
<1>4. faults' \in Nat /\ faults <= faults' /\ faults' > 0 /\ 0 \in Int
  BY <1>1, StateTyped
<1>5. 0 = IF query[r][q].st \in {"acquired", "querying"} THEN 0 - 1 ELSE 0
  BY <1>1
<1>. QED
  BY <1>1, <1>2, <1>3, <1>4, <1>5, FailStep

LEMMA StartQueryKeepsIInv ==
  ASSUME IInv, NEW r \in Requests, NEW q \in Statements, StartQuery(r, q)
  PROVE  IInv'
<1>1. /\ query[r][q].st = "acquired" /\ faults' = faults /\ waiting' = waiting
      /\ UNCHANGED statusVars /\ Witness
  BY DEF StartQuery, UnchangedWorld
<1>2. /\ query[r][q].st \in InProgress
      /\ "querying" \in InProgress \cup {"done", "failed"}
  BY <1>1 DEF InProgress
<1>3. /\ faults' \in Nat /\ faults <= faults' /\ 0 - 1 \in Int /\ 0 \in Int /\ 0 - 1 <= 0
      /\ waiting' \in Seq(Requests \X Statements)
  BY <1>1, StateTyped
<1>4. CASE IsAborted(r, q)
  <2>1. Put(r, req[r], With(r, q, "failed", NoRows), 0 - 1)
    BY <1>4 DEF StartQuery
  <2>2. req[r].aborted \/ req[r].stopped
    BY <1>4 DEF IsAborted
  <2>3. CauseRight(req[r], query[r], faults)
    BY DEF IInv, EveryRequestRight, RequestRight
  <2>4. faults' > 0
    BY <1>1, <2>2, <2>3 DEF CauseRight
  <2>5. 0 - 1 = IF query[r][q].st \in {"acquired", "querying"} THEN 0 - 1 ELSE 0
    BY <1>1
  <2>. QED
    BY <1>1, <1>2, <1>3, <2>1, <2>4, <2>5, FailStep
<1>5. CASE ~IsAborted(r, q)
  <2>1. Put(r, req[r], With(r, q, "querying", NoRows), 0)
    BY <1>5 DEF StartQuery
  <2>2. 0 = (IF "querying" \in {"acquired", "querying"} THEN 1 ELSE 0)
              - (IF query[r][q].st \in {"acquired", "querying"} THEN 1 ELSE 0)
    BY <1>1
  <2>. QED
    BY <1>1, <1>2, <1>3, <2>1, <2>2, StateTyped, MoveStep
<1>. QED
  BY <1>4, <1>5

\* Statements that follow the first one belong to a request that has a row.
LEMMA ReadsAfterRow ==
  ASSUME IInv, NEW r \in Requests
  PROVE  req[r].row.snapshot \in Runs
BY StateTyped DEF RequestRecords, StatusRows

LEMMA QueryReturnsKeepsIInv ==
  ASSUME IInv, NEW r \in Requests, NEW q \in Statements, QueryReturns(r, q)
  PROVE  IInv'
<1>1. /\ q # "current" /\ query[r][q].st = "querying"
      /\ faults' = faults /\ waiting' = waiting
      /\ Put(r, req[r], With(r, q, "done", req[r].row.snapshot), 0 - 1)
      /\ UNCHANGED statusVars /\ Witness
  BY DEF QueryReturns, UnchangedWorld, SelectedRun
<1> DEFINE s == "done"
           rows == req[r].row.snapshot
           net == 0 - 1
<1>2. /\ s \in InProgress \cup {"done", "failed"} /\ query[r][q].st \in InProgress
      /\ s \notin {"dying", "failed"} /\ rows \in Runs \cup {NoRows}
      /\ Put(r, req[r], With(r, q, s, rows), net)
  BY <1>1, ReadsAfterRow DEF InProgress
<1>3. /\ faults' \in Nat /\ faults <= faults' /\ net \in Int /\ net <= 0
      /\ waiting' \in Seq(Requests \X Statements)
  BY <1>1, StateTyped
<1>4. net = (IF s \in {"acquired", "querying"} THEN 1 ELSE 0)
              - (IF query[r][q].st \in {"acquired", "querying"} THEN 1 ELSE 0)
  BY <1>1
<1>5. s = "done" => rows = req[r].row.snapshot
  OBVIOUS
<1> HIDE DEF s, rows, net
<1>. QED
  BY <1>1, <1>2, <1>3, <1>4, <1>5, MoveStep

LEMMA QueryFailsKeepsIInv ==
  ASSUME IInv, NEW r \in Requests, NEW q \in Statements, QueryFails(r, q)
  PROVE  IInv'
<1>1. /\ query[r][q].st = "querying" /\ faults' = faults + 1 /\ waiting' = waiting
      /\ Put(r, req[r], With(r, q, "failed", NoRows), 0 - 1)
      /\ UNCHANGED statusVars /\ Witness
  BY DEF QueryFails, UnchangedWorld
<1>2. query[r][q].st \in InProgress
  BY <1>1 DEF InProgress
<1>3. /\ faults' \in Nat /\ faults <= faults' /\ faults' > 0 /\ 0 - 1 \in Int
      /\ waiting' \in Seq(Requests \X Statements)
  BY <1>1, StateTyped
<1>4. 0 - 1 = IF query[r][q].st \in {"acquired", "querying"} THEN 0 - 1 ELSE 0
  BY <1>1
<1>. QED
  BY <1>1, <1>2, <1>3, <1>4, FailStep

LEMMA QueryDiesKeepsIInv ==
  ASSUME IInv, NEW r \in Requests, NEW q \in Statements, QueryDies(r, q)
  PROVE  IInv'
<1>1. /\ query[r][q].st = "dying" /\ faults' = faults /\ waiting' = waiting
      /\ Put(r, req[r], With(r, q, "failed", NoRows), 0)
      /\ UNCHANGED statusVars /\ Witness
  BY DEF QueryDies, UnchangedWorld
<1>2. query[r][q].st \in InProgress
  BY <1>1 DEF InProgress
<1>3. CauseRight(req[r], query[r], faults)
  BY DEF IInv, EveryRequestRight, RequestRight
<1>4. /\ faults' \in Nat /\ faults <= faults' /\ faults' > 0 /\ 0 \in Int
      /\ waiting' \in Seq(Requests \X Statements)
  BY <1>1, <1>3, StateTyped DEF CauseRight
<1>5. 0 = IF query[r][q].st \in {"acquired", "querying"} THEN 0 - 1 ELSE 0
  BY <1>1
<1>. QED
  BY <1>1, <1>2, <1>4, <1>5, FailStep

(* The statements after the first one has returned a snapshot. *)
Asked(r, st, selected) ==
  [q \in Statements |->
     IF q = "current" THEN [st |-> "done", rows |-> selected]
     ELSE IF q \in ParallelSet(KindOf[r]) THEN [st |-> "connecting", rows |-> NoRows]
     ELSE st[q]]

LEMMA AskedFacts ==
  ASSUME NEW r \in Requests, NEW st \in Progress, NEW selected \in Runs,
         st["current"].st = "querying", OnlyCurrent(st)
  PROVE  /\ Asked(r, st, selected) \in Progress
         /\ PastCurrent(r, Asked(r, st, selected))
         /\ \A q \in ParallelSet(KindOf[r]) : Asked(r, st, selected)[q].st = "connecting"
         /\ \A q \in Statements : Asked(r, st, selected)[q].st \in {"none", "done", "connecting"}
         /\ Cardinality(HeldBy(Asked(r, st, selected))) = Cardinality(HeldBy(st)) - 1
<1> DEFINE new == Asked(r, st, selected)
<1>1. "current" \in Statements /\ ParallelSet(KindOf[r]) \subseteq Statements \ {"current"}
  BY ParallelSets DEF Statements
<1>2. /\ new["current"] = [st |-> "done", rows |-> selected]
      /\ \A q \in ParallelSet(KindOf[r]) : new[q] = [st |-> "connecting", rows |-> NoRows]
      /\ \A q \in Statements \ (ParallelSet(KindOf[r]) \cup {"current"}) : new[q] = st[q]
  BY <1>1 DEF Asked
<1>3. \A q \in Statements : new[q] \in [st : States, rows : Runs \cup {NoRows}]
  BY <1>2 DEF Progress, States
<1>4. new \in Progress
  BY <1>3 DEF Asked, Progress
<1> HIDE DEF new
<1>5. /\ new["current"].st = "done"
      /\ \A q \in ParallelSet(KindOf[r]) : new[q].st = "connecting"
      /\ \A q \in Statements \ (ParallelSet(KindOf[r]) \cup {"current"}) : new[q].st = "none"
  BY <1>2 DEF OnlyCurrent
<1>6. PastCurrent(r, new)
  BY <1>5 DEF PastCurrent, InProgress
<1>7. HeldBy(new) = {} /\ HeldBy(st) = {"current"}
  BY <1>1, <1>5 DEF HeldBy, OnlyCurrent
<1>8. Cardinality(HeldBy(new)) = Cardinality(HeldBy(st)) - 1
  BY <1>7, FS_EmptySet, FS_Singleton
<1>9. \A q \in Statements : new[q].st \in {"none", "done", "connecting"}
  BY <1>5
<1>. QED
  BY <1>4, <1>5, <1>6, <1>8, <1>9 DEF new

\* The selected snapshot is read: the request ends without one, and otherwise
\* asks for its parallel statements with the row it is going to answer with.
LEMMA CurrentReturnsKeepsIInv ==
  ASSUME IInv, NEW r \in Requests, CurrentReturns(r)
  PROVE  IInv'
<1> DEFINE row == [snapshot |-> current, lifecycle |-> lifecycle, live |-> live]
           read == [req[r] EXCEPT !.row = row]
           old == query[r]
<1>1. /\ old["current"].st = "querying" /\ faults' = faults
      /\ UNCHANGED statusVars /\ Witness
  BY DEF CurrentReturns, UnchangedWorld
<1>2. req[r] \in RequestRecords /\ old \in Progress /\ row \in StatusRows /\ "current" \in Statements
  BY StateTyped DEF IInv, WorldRight, StatusRows, Statements
<1>3. RequestRight(r, req[r], old, shown[r], faults) /\ OldRight(req[r], promoted, current)
  BY DEF IInv, EveryRequestRight
<1>4. req[r].pc = "selecting" /\ OnlyCurrent(old) /\ req[r].answer = NoAnswer
  BY <1>1, <1>2, <1>3 DEF RequestRight, StageRight, PastCurrent, AnswerRight, RequestRecords, Phases
<1>5. current \notin req[r].old
  BY <1>3, <1>4 DEF OldRight
<1>6. faults' \in Nat /\ faults <= faults' /\ 0 - 1 \in Int /\ 0 - 1 <= 0 /\ current \in Runs
  BY <1>1, StateTyped DEF IInv, WorldRight
<1>7. read \in RequestRecords /\ read.old = req[r].old /\ read.row = row /\ read.pc = "selecting"
      /\ read.aborted = req[r].aborted /\ read.stopped = req[r].stopped
      /\ read.answer = NoAnswer
  BY <1>2, <1>4 DEF RequestRecords
<1>8. CauseRight(req[r], old, faults)
  BY <1>3 DEF RequestRight
<1>9. row.snapshot = current
  OBVIOUS
<1>10. CASE current = NoRun
  <2> DEFINE st == With(r, "current", "done", NoRun)
             rq == Answered(r, read, old)
  <2>1. Put(r, rq, st, 0 - 1) /\ waiting' = waiting
    BY <1>10 DEF CurrentReturns, Selection
  <2>2. /\ rq \in RequestRecords /\ rq.pc = "ended" /\ rq.old = read.old
        /\ rq.aborted = read.aborted /\ rq.stopped = read.stopped
        /\ rq.answer = IF KindOf[r] = "summary" THEN Summary(read.row, old)
                       ELSE Page(read.row, OffsetOf[r], old)
    BY <1>7, AnsweredFacts
  <2>3. OffsetOf[r] \in Nat /\ NoRun \notin Snapshots /\ Complete \subseteq Snapshots
    BY ReadsAssumption
  <2>4. rq.answer.health # "fresh" /\ rq.answer.snapshot = NoRun
        /\ rq.answer.outcome # "failed" /\ rq.answer.why = {}
    BY <1>2, <1>7, <1>9, <1>10, <2>2, <2>3, SummarySound, PageSound
  <2>5. /\ st \in Progress /\ st["current"].st = "done"
        /\ \A x \in Statements \ {"current"} : st[x] = old[x]
        /\ Cardinality(HeldBy(st)) = Cardinality(HeldBy(old)) - 1
    <3> DEFINE after == [old EXCEPT !["current"] = [st |-> "done", rows |-> NoRun]]
    <3>1. st = after
      BY DEF With
    <3>2. "done" \in States /\ NoRun \in Runs \cup {NoRows} /\ old["current"].st \in {"acquired", "querying"}
      BY <1>1 DEF States, Runs
    <3> HIDE DEF old
    <3>3. /\ after \in Progress /\ after["current"].st = "done"
          /\ \A x \in Statements \ {"current"} : after[x] = old[x]
          /\ Cardinality(HeldBy(after)) = Cardinality(HeldBy(old)) - 1
      BY <1>2, <3>2, OneStatementMoves
    <3> HIDE DEF after, st
    <3>. QED
      BY <3>1, <3>3
  <2> HIDE DEF st, rq, read, row
  <2>6. \A q \in Statements : st[q].st \in {"none", "done"}
    BY <1>4, <2>5 DEF OnlyCurrent
  <2>7. Handed(r, rq, st, shown'[r], faults')
    <3>1. RowsRight(r, rq, st) /\ RowWitnessed(r, rq, shown'[r]) /\ AnswerRight(rq, shown'[r], faults')
      BY <2>2, <2>4 DEF RowsRight, RowWitnessed, AnswerRight
    <3>2. CauseRight(rq, st, faults')
      BY <1>1, <1>7, <1>8, <2>2, <2>6 DEF CauseRight
    <3>. QED
      BY <2>2, <2>5, <2>6, <3>1, <3>2 DEF Handed
  <2>8. Cardinality(HeldBy(st)) = Cardinality(HeldBy(query[r])) + (0 - 1)
    <3>1. Cardinality(HeldBy(query[r])) \in Nat
      BY StatementsFinite DEF HeldBy
    <3>. QED
      BY <2>5, <3>1
  <2>9. waiting' \in Seq(Requests \X Statements)
    BY <2>1, StateTyped
  <2>10. rq.old = req[r].old /\ rq.pc # "selecting"
    BY <1>7, <2>2
  <2>. QED
    BY <1>1, <1>6, <2>1, <2>7, <2>8, <2>9, <2>10, PutStep
<1>11. CASE current # NoRun
  <2> DEFINE st == Asked(r, old, current)
             rq == [read EXCEPT !.pc = "reading"]
             rest == Parallel(KindOf[r])
  <2>1. Put(r, rq, st, 0 - 1) /\ waiting' = waiting \o [i \in DOMAIN rest |-> <<r, rest[i]>>]
    BY <1>11 DEF CurrentReturns, Selection, Asked, ParallelSet
  <2>2. /\ rq \in RequestRecords /\ rq.pc = "reading" /\ rq.old = req[r].old /\ rq.row = row
        /\ rq.aborted = req[r].aborted /\ rq.stopped = req[r].stopped /\ rq.answer = NoAnswer
    BY <1>7 DEF RequestRecords, Phases
  <2>3. current \in Snapshots
    BY <1>6, <1>11 DEF Runs
  <2>4. /\ st \in Progress /\ PastCurrent(r, st)
        /\ \A q \in ParallelSet(KindOf[r]) : st[q].st = "connecting"
        /\ \A q \in Statements : st[q].st \in {"none", "done", "connecting"}
        /\ Cardinality(HeldBy(st)) = Cardinality(HeldBy(old)) - 1
    BY <1>1, <1>2, <1>4, <1>6, AskedFacts
  <2>5. waiting' \in Seq(Requests \X Statements)
    <3>1. rest \in Seq(Statements)
      <4>1. <<"positions", "orders", "fills">> \in Seq(Statements)
            /\ <<"count", "page">> \in Seq(Statements)
        BY DEF Statements
      <4>. QED
        BY <4>1 DEF Parallel
    <3>2. [i \in DOMAIN rest |-> <<r, rest[i]>>] \in Seq(Requests \X Statements)
      <4> HIDE DEF rest
      <4>1. DOMAIN rest = 1..Len(rest) /\ Len(rest) \in Nat /\ \A i \in DOMAIN rest : rest[i] \in Statements
        BY <3>1
      <4> DEFINE entries == [i \in 1..Len(rest) |-> <<r, rest[i]>>]
                 pairs == Requests \X Statements
      <4>2. entries \in [1..Len(rest) -> pairs]
        BY <4>1
      <4>3. [i \in DOMAIN rest |-> <<r, rest[i]>>] = entries
        BY <4>1
      <4> HIDE DEF entries, pairs
      <4>4. entries \in Seq(pairs)
        BY <4>1, <4>2
      <4>. QED
        BY <4>3, <4>4 DEF pairs
    <3> HIDE DEF rest
    <3>. QED
      BY <2>1, <3>2, StateTyped
  <2>6. req'[r].pc = "reading"
    <3>1. ParallelSet(KindOf[r]) # {} /\ ParallelSet(KindOf[r]) \subseteq Statements
      BY ParallelSets
    <3> HIDE DEF st, rq
    <3>2. ~FirstFailure(rq, st)
      BY <2>4 DEF FirstFailure
    <3>3. NextRequest(r, rq, st) = rq
      <4>1. Stopping(rq, st) = rq /\ Left(rq, st) = st
        BY <3>2 DEF Stopping, Left
      <4>2. \E q \in ParallelSet(KindOf[r]) : st[q].st # "done"
        BY <2>4, <3>1
      <4>. QED
        BY <2>2, <4>1, <4>2 DEF NextRequest, Resume, ParallelSet
    <3>4. req' = [req EXCEPT ![r] = rq]
      BY <2>1, <3>3, PutAssigns
    <3>. QED
      BY <2>2, <3>4, StateTyped
  <2>7. KindOf[r] = "summary" /\ lifecycle = "running" /\ live => current \in shown'[r]
    <3>1. WorldRight'
      BY <1>1 DEF IInv, WorldRight, statusVars
    <3>2. lifecycle = "running" /\ live => Healthy'
      BY <1>1 DEF IInv, WorldRight, statusVars, Healthy
    <3>3. current' = current
      BY <1>1 DEF statusVars
    <3>. QED
      BY <1>1, <1>11, <2>6, <3>1, <3>2, <3>3, WitnessGrows DEF IInv, RequestsTyped
  <2>8. row.lifecycle = lifecycle /\ row.live = live
    OBVIOUS
  <2> HIDE DEF st, rq, read, row
  <2>9. Handed(r, rq, st, shown'[r], faults')
    <3>1. RowsRight(r, rq, st) /\ RowWitnessed(r, rq, shown'[r]) /\ AnswerRight(rq, shown'[r], faults')
      <4>1. NoAnswer.health # "fresh" /\ NoAnswer.outcome = "none" /\ NoAnswer.why = {}
        BY DEF NoAnswer
      <4>2. RowsRight(r, rq, st)
        BY <1>5, <1>9, <2>2, <2>3, <2>4 DEF RowsRight
      <4>3. RowWitnessed(r, rq, shown'[r])
        BY <1>9, <2>2, <2>7, <2>8 DEF RowWitnessed
      <4>. QED
        BY <2>2, <4>1, <4>2, <4>3 DEF AnswerRight
    <3>2. CauseRight(rq, st, faults')
      BY <1>1, <1>8, <2>2, <2>4 DEF CauseRight
    <3>. QED
      BY <2>2, <2>4, <3>1, <3>2 DEF Handed
  <2>10. Cardinality(HeldBy(st)) = Cardinality(HeldBy(query[r])) + (0 - 1)
    <3>1. Cardinality(HeldBy(query[r])) \in Nat
      BY StatementsFinite DEF HeldBy
    <3>. QED
      BY <2>4, <3>1
  <2>11. rq.old = req[r].old /\ rq.pc # "selecting"
    BY <2>2
  <2>. QED
    BY <1>1, <1>6, <2>1, <2>5, <2>9, <2>10, <2>11, PutStep
<1>. QED
  BY <1>10, <1>11

LEMMA ArriveKeepsIInv ==
  ASSUME IInv, NEW r \in Requests, Arrive(r)
  PROVE  IInv'
<1> DEFINE rq == [req[r] EXCEPT !.pc = "selecting", !.old = promoted \ {current}]
           old == query[r]
           first == [old["current"] EXCEPT !.st = "connecting"]
           st == [old EXCEPT !["current"] = first]
<1>1. /\ req[r].pc = "idle" /\ waiting' = Append(waiting, <<r, "current">>)
      /\ UNCHANGED <<checkedOut, faults>> /\ UNCHANGED statusVars /\ Witness
  BY DEF Arrive, UnchangedWorld
<1>2. req[r] \in RequestRecords /\ old \in Progress /\ "current" \in Statements
  BY StateTyped DEF Statements
<1>3. req' = [req EXCEPT ![r] = rq] /\ query' = [query EXCEPT ![r] = st]
  BY <1>2, StateTyped DEF Arrive
<1>4. /\ rq \in RequestRecords /\ rq.pc = "selecting" /\ rq.old = promoted \ {current}
      /\ rq.aborted = req[r].aborted /\ rq.stopped = req[r].stopped /\ rq.answer = req[r].answer
  BY <1>2 DEF RequestRecords, Phases, IInv, WorldRight
<1>5. first \in [st : States, rows : Runs \cup {NoRows}] /\ first.st = "connecting"
  BY <1>2 DEF Progress, States
<1>6. RequestRight(r, req[r], old, shown[r], faults)
  BY DEF IInv, EveryRequestRight
<1> HIDE DEF rq, first, old
<1>7. /\ st \in Progress /\ st["current"] = first
      /\ \A q \in Statements \ {"current"} : st[q] = old[q]
  BY <1>2, <1>5 DEF Progress
<1>8. \A q \in Statements : old[q].st = "none"
  BY <1>1, <1>6 DEF RequestRight, StageRight
<1> HIDE DEF st
<1>9. RequestRight(r, rq, st, shown[r], faults)
  <2>1. StageRight(r, rq, st)
    BY <1>4, <1>5, <1>7, <1>8 DEF StageRight, OnlyCurrent, InProgress
  <2>2. RowsRight(r, rq, st) /\ RowWitnessed(r, rq, shown[r])
    BY <1>4 DEF RowsRight, RowWitnessed
  <2>3. CauseRight(rq, st, faults)
    BY <1>4, <1>5, <1>6, <1>7, <1>8 DEF RequestRight, CauseRight
  <2>4. req[r].answer = NoAnswer
    BY <1>1, <1>6 DEF RequestRight, AnswerRight
  <2>5. AnswerRight(rq, shown[r], faults)
    BY <1>4, <2>4 DEF AnswerRight, NoAnswer
  <2>. QED
    BY <2>1, <2>2, <2>3, <2>5 DEF RequestRight
<1>10. WorldRight'
  BY <1>1 DEF IInv, WorldRight, statusVars
<1>11. shown' \in [Requests -> SUBSET Snapshots] /\ \A x \in Requests : shown[x] \subseteq shown'[x]
  BY <1>1, <1>10, WitnessGrows DEF IInv, RequestsTyped
<1>12. waiting' \in Seq(Requests \X Statements)
  <2> DEFINE pairs == Requests \X Statements
  <2>1. <<r, "current">> \in pairs /\ waiting \in Seq(pairs)
    BY <1>2, StateTyped
  <2> HIDE DEF pairs
  <2>2. waiting' \in Seq(pairs)
    BY <1>1, <2>1
  <2>. QED
    BY <2>2 DEF pairs
<1>13. RequestsTyped'
  BY <1>1, <1>3, <1>4, <1>7, <1>11, <1>12, StateTyped DEF RequestsTyped
<1>14. EveryRequestRight'
  <2>1. promoted' = promoted /\ current' = current /\ faults' = faults /\ faults \in Nat
    BY <1>1, StateTyped DEF statusVars
  <2>2. ASSUME NEW x \in Requests
        PROVE  RequestRight(x, req'[x], query'[x], shown'[x], faults)
               /\ OldRight(req'[x], promoted, current)
    <3>1. RequestRight(x, req[x], query[x], shown[x], faults) /\ OldRight(req[x], promoted, current)
      BY DEF IInv, EveryRequestRight
    <3>2. CASE x # r
      <4>1. req'[x] = req[x] /\ query'[x] = query[x]
        BY <1>3, <3>2, StateTyped
      <4>. QED
        BY <1>11, <2>1, <3>1, <4>1, RightStays
    <3>3. CASE x = r
      <4>1. req'[x] = rq /\ query'[x] = st
        BY <1>3, <3>3, StateTyped
      <4>2. OldRight(rq, promoted, current)
        BY <1>4 DEF OldRight
      <4>3. RequestRight(r, rq, st, shown'[r], faults)
        BY <1>9, <1>11, <2>1, RightStays
      <4>. QED
        BY <3>3, <4>1, <4>2, <4>3
    <3>. QED
      BY <3>2, <3>3
  <2>. QED
    BY <2>1, <2>2 DEF EveryRequestRight
<1>15. PoolRight'
  <2>1. HeldBy(st) = {} /\ HeldBy(old) = {}
    BY <1>5, <1>7, <1>8 DEF HeldBy
  <2>2. /\ IsFiniteSet(HeldIn(query)) /\ checkedOut = Cardinality(HeldIn(query))
        /\ checkedOut <= PoolMax /\ Cardinality(HeldIn(query)) \in Nat
    BY FS_CardinalityType DEF IInv, PoolRight
  <2>3. /\ IsFiniteSet(HeldIn(query'))
        /\ Cardinality(HeldIn(query'))
             = Cardinality(HeldIn(query)) - Cardinality(HeldBy(query[r])) + Cardinality(HeldBy(st))
    BY <1>3, <1>7, <2>2, StateTyped, PoolMoves
  <2>4. Cardinality(HeldIn(query')) = Cardinality(HeldIn(query))
    BY <2>1, <2>2, <2>3, FS_EmptySet DEF old
  <2>. QED
    BY <1>1, <2>2, <2>3, <2>4 DEF PoolRight
<1>. QED
  BY <1>10, <1>13, <1>14, <1>15 DEF IInv

\* A client that goes away aborts what waits and what runs; the connections of
\* the statements that ran are gone with them.
LEMMA DisconnectKeepsIInv ==
  ASSUME IInv, NEW r \in Requests, Disconnect(r)
  PROVE  IInv'
<1> DEFINE old == query[r]
           st == AbortStatements(old)
           rq == [req[r] EXCEPT !.aborted = TRUE, !.stopped = req[r].pc # "selecting"]
           net == Running(st) - Running(old)
<1>1. /\ req[r].pc \in {"selecting", "reading", "draining"} /\ faults' = faults + 1
      /\ Put(r, rq, st, net) /\ waiting' = waiting /\ UNCHANGED statusVars /\ Witness
  BY DEF Disconnect, UnchangedWorld
<1>2. req[r] \in RequestRecords /\ old \in Progress
  BY StateTyped
<1>3. /\ rq \in RequestRecords /\ rq.pc = req[r].pc /\ rq.old = req[r].old
      /\ rq.row = req[r].row /\ rq.answer = req[r].answer
  BY <1>2 DEF RequestRecords
<1> HIDE DEF rq, old
<1>4. /\ st \in Progress
      /\ \A q \in Statements :
           /\ st[q].st = IF old[q].st = "connecting" THEN "failed"
                         ELSE IF old[q].st = "querying" THEN "dying" ELSE old[q].st
           /\ st[q].rows = old[q].rows
  BY <1>2, AbortFacts
<1>5. /\ Running(old) \in Nat /\ Running(st) = 0
      /\ Cardinality(HeldBy(st)) = Cardinality(HeldBy(old)) - Running(old)
  BY <1>2, AbortFreesRunning
<1>6. net \in Int /\ net <= 0 /\ net = 0 - Running(old)
  BY <1>5
<1> HIDE DEF st, net
<1>7. Cardinality(HeldBy(st)) = Cardinality(HeldBy(query[r])) + net
  <2>1. Cardinality(HeldBy(old)) \in Nat
    BY StatementsFinite DEF HeldBy
  <2>. QED
    BY <1>5, <1>6, <2>1 DEF old
<1>8. faults' \in Nat /\ faults <= faults' /\ faults' > 0 /\ waiting' \in Seq(Requests \X Statements)
  BY <1>1, StateTyped
<1>9. shown[r] \subseteq shown'[r]
  <2>1. WorldRight'
    BY <1>1 DEF IInv, WorldRight, statusVars
  <2>. QED
    BY <1>1, <2>1, WitnessGrows DEF IInv, RequestsTyped
<1>10. RequestRight(r, req[r], old, shown'[r], faults')
  <2>1. RequestRight(r, req[r], old, shown[r], faults)
    BY DEF IInv, EveryRequestRight, old
  <2>. QED
    BY <1>8, <1>9, <2>1, StateTyped, RightStays
<1>11. "current" \in Statements /\ ParallelSet(KindOf[r]) \subseteq Statements
  BY ParallelSets DEF Statements
<1>12. Handed(r, rq, st, shown'[r], faults')
  <2>1. rq.pc = "selecting" => st["current"].st \in InProgress \cup {"failed"} /\ OnlyCurrent(st)
    BY <1>3, <1>4, <1>10, <1>11 DEF RequestRight, StageRight, OnlyCurrent, InProgress
  <2>2. rq.pc \in {"reading", "draining"} => PastCurrent(r, st)
    <3>1. rq.pc \in {"reading", "draining"} => PastCurrent(r, old)
      BY <1>3, <1>10 DEF RequestRight, StageRight
    <3>. QED
      BY <1>4, <1>11, <3>1 DEF PastCurrent, InProgress
  <2>3. RowsRight(r, rq, st)
    BY <1>3, <1>4, <1>10, <1>11 DEF RequestRight, RowsRight
  <2>4. RowWitnessed(r, rq, shown'[r]) /\ AnswerRight(rq, shown'[r], faults')
    BY <1>3, <1>10 DEF RequestRight, RowWitnessed, AnswerRight
  <2>5. CauseRight(rq, st, faults')
    BY <1>8 DEF CauseRight
  <2>6. rq.pc \notin {"idle", "ended"}
    BY <1>1, <1>3
  <2>. QED
    BY <1>3, <1>4, <2>1, <2>2, <2>3, <2>4, <2>5, <2>6 DEF Handed
<1>13. rq.pc = "selecting" => req[r].pc = "selecting"
  BY <1>3
<1>. QED
  BY <1>1, <1>3, <1>6, <1>7, <1>8, <1>12, <1>13, PutStep

\* The workers change what is selected, and no request.
LEMMA WorkersKeepIInv ==
  ASSUME IInv, Workers
  PROVE  IInv'
<1>1. UNCHANGED readVars /\ Witness
  BY DEF Workers
<1>2. WorldRight'
  <2>1. WorldRight /\ NoRun \notin Snapshots
    BY ReadsAssumption DEF IInv
  <2>2. CASE \E s \in Snapshots : Promote(s)
    BY <2>1, <2>2 DEF WorldRight, Promote, Lifecycles, Runs
  <2>3. CASE Acquire
    BY <2>1, <2>3 DEF WorldRight, Acquire, Lifecycles
  <2>5. CASE BeginSync
    BY <2>1, <2>5 DEF WorldRight, BeginSync, Lifecycles
  <2>6. CASE FailSync
    BY <2>1, <2>6 DEF WorldRight, FailSync, Lifecycles
  <2>7. CASE Expire
    BY <2>1, <2>7 DEF WorldRight, Expire, Lifecycles
  <2>4. CASE Release
    BY <2>1, <2>4 DEF WorldRight, Release, Lifecycles
  <2>. QED
    BY <2>2, <2>3, <2>4, <2>5, <2>6, <2>7 DEF Workers
<1>3. \/ current' = current /\ promoted' = promoted
      \/ current' \notin promoted /\ promoted \subseteq promoted'
  BY DEF Workers, Promote, Acquire, BeginSync, FailSync, Release, Expire
<1>4. shown' \in [Requests -> SUBSET Snapshots] /\ \A x \in Requests : shown[x] \subseteq shown'[x]
  BY <1>1, <1>2, WitnessGrows DEF IInv, RequestsTyped
<1>5. RequestsTyped'
  BY <1>1, <1>4, StateTyped DEF RequestsTyped, readVars
<1>6. EveryRequestRight'
  <2>1. req' = req /\ query' = query /\ faults' = faults /\ faults \in Nat
    BY <1>1, StateTyped DEF readVars
  <2>2. ASSUME NEW x \in Requests
        PROVE  RequestRight(x, req[x], query[x], shown'[x], faults)
               /\ OldRight(req[x], promoted', current')
    <3>1. RequestRight(x, req[x], query[x], shown[x], faults) /\ OldRight(req[x], promoted, current)
      BY DEF IInv, EveryRequestRight
    <3>2. RequestRight(x, req[x], query[x], shown'[x], faults)
      BY <1>4, <2>1, <3>1, RightStays
    <3>3. OldRight(req[x], promoted', current')
      BY <1>3, <3>1 DEF OldRight
    <3>. QED
      BY <3>2, <3>3
  <2>. QED
    BY <2>1, <2>2 DEF EveryRequestRight
<1>7. PoolRight'
  BY <1>1 DEF IInv, PoolRight, readVars
<1>. QED
  BY <1>2, <1>5, <1>6, <1>7 DEF IInv

LEMMA InitRight == Init => IInv
<1> SUFFICES ASSUME Init PROVE IInv
  OBVIOUS
<1> DEFINE idle == [pc |-> "idle", aborted |-> FALSE, stopped |-> FALSE, row |-> NoRow,
                    old |-> {}, answer |-> NoAnswer]
           none == [q \in Statements |-> NotAsked]
<1>1. /\ req = [r \in Requests |-> idle] /\ query = [r \in Requests |-> none]
      /\ waiting = <<>> /\ checkedOut = 0 /\ shown = [r \in Requests |-> {}] /\ faults = 0
  BY DEF Init
<1>2. WorldRight
  BY DEF Init, StatusInit, WorldRight, Runs, Lifecycles
<1>3. NoRow \in StatusRows /\ NoAnswer \in Answers
  BY DEF NoRow, StatusRows, Runs, Lifecycles, NoAnswer, Answers, Outcomes, Healths
<1>4. idle \in RequestRecords
  BY <1>3 DEF RequestRecords, Phases
<1>5. none \in Progress /\ \A q \in Statements : none[q].st = "none"
  BY DEF Progress, NotAsked, States
<1>6. RequestsTyped
  <2> HIDE DEF idle, none
  <2>. QED
    BY <1>1, <1>4, <1>5 DEF RequestsTyped
<1>7. ASSUME NEW r \in Requests
      PROVE  RequestRight(r, idle, none, {}, 0) /\ OldRight(idle, promoted, current)
  <2>1. /\ idle.pc = "idle" /\ ~idle.aborted /\ ~idle.stopped /\ idle.old = {}
        /\ idle.answer = NoAnswer
    OBVIOUS
  <2> HIDE DEF idle, none
  <2>2. StageRight(r, idle, none) /\ RowsRight(r, idle, none) /\ RowWitnessed(r, idle, {})
    BY <1>5, <2>1 DEF StageRight, RowsRight, RowWitnessed
  <2>3. CauseRight(idle, none, 0)
    BY <1>5, <2>1 DEF CauseRight
  <2>4. AnswerRight(idle, {}, 0)
    BY <2>1 DEF AnswerRight, NoAnswer
  <2>5. OldRight(idle, promoted, current)
    BY <2>1 DEF OldRight
  <2>. QED
    BY <2>2, <2>3, <2>4, <2>5 DEF RequestRight
<1> HIDE DEF idle, none
<1>8. EveryRequestRight
  BY <1>1, <1>7 DEF EveryRequestRight
<1>9. HeldIn(query) = {}
  BY <1>1, <1>5 DEF HeldIn
<1>10. PoolRight
  <2>1. IsFiniteSet({}) /\ Cardinality({}) = 0
    BY FS_EmptySet
  <2>2. checkedOut = 0 /\ 0 <= PoolMax
    BY <1>1, ReadsAssumption
  <2>. QED
    BY <1>9, <2>1, <2>2 DEF PoolRight
<1>. QED
  BY <1>2, <1>6, <1>8, <1>10 DEF IInv

LEMMA StutterKeepsIInv ==
  ASSUME IInv, UNCHANGED vars
  PROVE  IInv'
<1>1. WorldRight'
  BY DEF IInv, WorldRight, vars
<1>2. RequestsTyped'
  BY DEF IInv, RequestsTyped, vars
<1>3. EveryRequestRight'
  BY DEF IInv, EveryRequestRight, vars
<1>4. PoolRight'
  BY DEF IInv, PoolRight, vars
<1>. QED
  BY <1>1, <1>2, <1>3, <1>4 DEF IInv

LEMMA StepKeepsIInv ==
  ASSUME IInv, [Next]_vars
  PROVE  IInv'
<1>1. CASE Workers
  BY <1>1, WorkersKeepIInv
<1>2. CASE Grant
  BY <1>2, GrantKeepsIInv
<1>3. ASSUME NEW r \in Requests, CurrentReturns(r) PROVE IInv'
  BY <1>3, CurrentReturnsKeepsIInv
<1>4. ASSUME NEW r \in Requests, NEW q \in Statements,
             StartQuery(r, q) \/ QueryReturns(r, q) \/ QueryDies(r, q)
      PROVE  IInv'
  BY <1>4, StartQueryKeepsIInv, QueryReturnsKeepsIInv, QueryDiesKeepsIInv
<1>5. ASSUME NEW r \in Requests, NEW q \in Statements, ConnectFails(r, q) \/ QueryFails(r, q)
      PROVE  IInv'
  BY <1>5, ConnectFailsKeepsIInv, QueryFailsKeepsIInv
<1>6. ASSUME NEW r \in Requests, Arrive(r) \/ Disconnect(r) PROVE IInv'
  BY <1>6, ArriveKeepsIInv, DisconnectKeepsIInv
<1>7. CASE UNCHANGED vars
  BY <1>7, StutterKeepsIInv
<1>. QED
  BY <1>1, <1>2, <1>3, <1>4, <1>5, <1>6, <1>7 DEF Next, Api, Failing

-----------------------------------------------------------------------------
(* The theorems.                                                            *)

\* Rows, requests, pool and history keep to each other whatever the workers,
\* the clients and the database do.
THEOREM Invariance == Spec => []IInv
<1>1. Init => IInv
  BY InitRight
<1>2. IInv /\ [Next]_vars => IInv'
  BY StepKeepsIInv
<1>. QED
  BY <1>1, <1>2, PTL DEF Spec

\* The state keeps its types, and the pool is never overdrawn
\* (createPortfolioApiDatabase).
THEOREM TypeCorrect == Spec => []TypeOK
<1>1. IInv => TypeOK
  <2> SUFFICES ASSUME IInv PROVE TypeOK
    OBVIOUS
  <2>1. current \in Snapshots \cup {NoRun} /\ promoted \subseteq Snapshots
    BY DEF IInv, WorldRight, Runs
  <2>2. ASSUME NEW r \in Requests
        PROVE  /\ req[r].pc \in Phases /\ req[r].old \subseteq Snapshots /\ shown[r] \subseteq Snapshots
               /\ \A q \in Statements : query[r][q].st \in States /\ query[r][q].rows \in Runs \cup {NoRows}
    <3>1. req[r] \in RequestRecords /\ query[r] \in Progress /\ shown[r] \subseteq Snapshots
      BY DEF IInv, RequestsTyped
    <3>. QED
      BY <3>1 DEF RequestRecords, Progress
  <2>3. checkedOut \in 0..PoolMax
    BY StateTyped DEF IInv, PoolRight
  <2>. QED
    BY <2>1, <2>2, <2>3 DEF TypeOK, Phases, States, Runs
<1>. QED
  BY <1>1, Invariance, PTL

\* A fresh answer was true at some moment of its request, no answer shows what
\* had been replaced before, and promotions disturb no request
\* (buildPortfolioApiSnapshot, pageResponse).
THEOREM AnswersAreAlwaysSound == Spec => []AnswersAreSound
<1>1. IInv => AnswersAreSound
  <2> SUFFICES ASSUME IInv PROVE AnswersAreSound
    OBVIOUS
  <2>1. \A r \in Requests : AnswerRight(req[r], shown[r], faults)
    BY DEF IInv, EveryRequestRight, RequestRight
  <2>. QED
    BY <2>1 DEF AnswersAreSound, FreshIsTrue, NeverOutdated, PromotionBreaksNoRead, AnswerRight
<1>. QED
  BY <1>1, Invariance, PTL

\* No statement outlives its request, and the pool has lent exactly the
\* connections that statements hold (queryPortfolioApiDatabase, acquireClient,
\* runParallelPortfolioQueries).
THEOREM ConnectionsAreAlwaysFreed == Spec => []ConnectionsAreFreed
<1>1. IInv => ConnectionsAreFreed
  <2> SUFFICES ASSUME IInv PROVE ConnectionsAreFreed
    OBVIOUS
  <2>1. \A r \in Requests : StageRight(r, req[r], query[r])
    BY DEF IInv, EveryRequestRight, RequestRight
  <2>2. NoStatementOutlives
    BY <2>1 DEF NoStatementOutlives, StageRight, InProgress
  <2>3. ConnectionsAreReturned
    BY DEF IInv, PoolRight, HeldIn, ConnectionsAreReturned
  <2>. QED
    BY <2>2, <2>3 DEF ConnectionsAreFreed
<1>. QED
  BY <1>1, Invariance, PTL
=============================================================================
