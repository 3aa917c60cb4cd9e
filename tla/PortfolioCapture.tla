-------------------------- MODULE PortfolioCapture --------------------------
(* One worker's synchronization cycles: AlpacaPaperTradingClient reads the  *)
(* account and then, side by side, the positions, the orders and the fills  *)
(* page by page, while the broker account changes.  A request receipt is    *)
(* written for every page, one failure aborts the other reads, a deadline   *)
(* aborts the attempt, and an attempt that failed may be repeated.          *)
(*                                                                          *)
(* PortfolioSync has the lease, the failures of the database and the other  *)
(* workers; here a run is stored as a whole or not at all.  The broker, its *)
(* answers and the clock are the environment.  Time is in ticks, several    *)
(* things may happen in one.                                                *)
EXTENDS PortfolioSnapshot

CONSTANTS
  Accounts,        \* the account as the first cycle may find it
  Structures,      \* structures of the orders the account places: "simple", "mleg"
  FailureClasses,  \* how answers may fail, among Failures
  MaxTime,         \* bound on the clock
  MaxOrders,       \* bound on the orders of the account
  OrderQty,        \* quantities an order may have
  MaxEvents,       \* bound on the changes of the account, ticks and faults, together
  Overlap,         \* ACTIVITY_CREATED_AT_OVERLAP_MS
  PageSize,        \* orderPageSize and fillPageSize
  MaxPages,        \* maxOrderPages and maxFillPages
  MaxItems,        \* maxOrders and maxFills
  MaxAttempts,     \* retry.maxAttempts
  MaxPolls        \* bound on the cycles

Collections == {"positions", "orders", "fills"}
Resources == Collections \cup {"account"}
Failures == {"rate_limited", "retryable_transport", "authentication",
             "malformed_response", "resource_limit", "account_mismatch"}
Errors == Failures \cup {"none", "cancelled", "deadline", "shutdown", "database",
                       "projection_failed"}

ASSUME BoundsAssumption ==
  /\ PageSize \in Nat \ {0} /\ MaxPages \in Nat \ {0}
  /\ MaxItems \in Nat /\ MaxItems < MaxPages * PageSize
  /\ MaxAttempts \in Nat \ {0} /\ MaxPolls \in Nat \ {0}
  /\ Overlap \in Nat \ {0} /\ MaxTime \in Nat /\ MaxOrders \in Nat /\ MaxEvents \in Nat
  /\ OrderQty \subseteq Nat \ {0} /\ FailureClasses \subseteq Failures

FilledIn(b, i) == Cardinality({k \in DOMAIN b.fills : b.fills[k].order = i})

\* An account that a broker can be in: what an order has filled is counted by
\* its fills and no more than was ordered.
IsAccount(b) ==
  /\ b \in [orders : Seq([structure : {"simple", "mleg"}, side : {"buy", "sell"},
                          qty : Nat \ {0}, canceled : BOOLEAN]),
            fills : Seq([order : Nat, at : Int, cum : Nat])]
  /\ \A k \in DOMAIN b.fills :
       /\ b.fills[k].order \in DOMAIN b.orders
       /\ b.fills[k].cum = Cardinality({j \in 1..k : b.fills[j].order = b.fills[k].order})
  /\ \A i \in DOMAIN b.orders :
       /\ FilledIn(b, i) <= b.orders[i].qty
       /\ b.orders[i].canceled => FilledIn(b, i) < b.orders[i].qty

\* Nothing is none of the assets, classes and sides it stands beside.
ASSUME NoneAssumption ==
  None \notin {"stock", "option", "us_equity", "us_option", "buy", "sell"}

ASSUME AccountsAssumption ==
  /\ \A b \in Accounts : /\ IsAccount(b) /\ Len(b.orders) <= MaxOrders
                          /\ \A k \in DOMAIN b.fills : b.fills[k].at <= 0
  /\ Structures \subseteq {"simple", "mleg"}

VARIABLES
  broker,    \* the account: its orders and its fills, in order of creation
  now,       \* the clock
  run,       \* the cycle and attempt the worker is in
  task,      \* the reads of every attempt of this cycle
  captured,  \* what the successful attempt of this cycle returned
  receipts,  \* portfolio_sync_requests since this attempt began; nothing reads older rows
  snaps,     \* the promoted snapshots, oldest first
  fillRows,  \* portfolio_fill_observations
  faults

captureVars == <<broker, now, run, task, captured, receipts, snaps, fillRows, faults>>

CaptureTypeOK ==
  /\ now \in 0..MaxTime
  /\ run \in [pc : {"idle", "account", "collect", "store", "delay"},
              cycle : 0..MaxPolls, attempt : 0..MaxAttempts,
              start : 0..MaxTime, known : 0..MaxOrders,
              timedOut : BOOLEAN,   \* the deadline fired in this attempt
              aborted : BOOLEAN,    \* the worker's shutdown signal
              reason : Errors,      \* why the reads of this attempt are aborted
              outcome : Errors]     \* how the last attempt of the cycle failed
  /\ \A a \in 1..MaxAttempts : \A r \in Resources :
       /\ task[a][r].st \in {"idle", "fetching", "recording", "done", "failed"}
       /\ task[a][r].err \in Errors
       /\ Len(task[a][r].pages) <= MaxPages
  /\ receipts \subseteq [attempt : 1..MaxAttempts, resource : Resources, ordinal : 0..MaxPages]
  /\ Len(snaps) <= MaxPolls
  /\ faults \in 0..MaxEvents + 1

Idle == [st |-> "idle", err |-> "none", pages |-> <<>>]
NoTasks == [a \in 1..MaxAttempts |-> [r \in Resources |-> Idle]]

CaptureInit ==
  /\ broker \in Accounts
  /\ now = 0
  /\ run = [pc |-> "idle", cycle |-> 0, attempt |-> 0, start |-> 0, known |-> 0,
            timedOut |-> FALSE, aborted |-> FALSE, reason |-> "none", outcome |-> "none"]
  /\ task = NoTasks /\ captured = None /\ receipts = {} /\ snaps = <<>> /\ fillRows = {} /\ faults = 0

-----------------------------------------------------------------------------
(* The broker *)

\* What an order trades: a simple order the stock, an mleg order one option.
AssetOf(structure) == IF structure = "mleg" THEN "option" ELSE "stock"
ClassOf(asset) == IF asset = "option" THEN "us_option" ELSE "us_equity"

Filled(i) == FilledIn(broker, i)

\* Every fill trades one unit.
Traded(asset, side) ==
  Cardinality({k \in DOMAIN broker.fills :
                 LET o == broker.orders[broker.fills[k].order]
                 IN  AssetOf(o.structure) = asset /\ o.side = side})

Holding(asset) == Traded(asset, "buy") - Traded(asset, "sell")

Status(i) ==
  LET o == broker.orders[i]
  IN  IF Filled(i) = o.qty THEN "filled" ELSE IF o.canceled THEN "canceled"
      ELSE IF Filled(i) > 0 THEN "partially_filled" ELSE "new"

\* How often the account has changed.
Version == Len(broker.orders) + Len(broker.fills) +
           Cardinality({i \in DOMAIN broker.orders : broker.orders[i].canceled})

\* The bound: failures, slow writes and shutdowns are faults.
MayHappen == Version + now + faults < MaxEvents

UnchangedWorker == UNCHANGED <<run, task, captured, receipts, snaps, fillRows, faults>>

PlaceOrder ==
  /\ Len(broker.orders) < MaxOrders /\ MayHappen
  /\ \E s \in Structures, side \in {"buy", "sell"}, q \in OrderQty :
       /\ side = "sell" => Holding(AssetOf(s)) >= q
       /\ broker' = [broker EXCEPT !.orders =
            Append(@, [structure |-> s, side |-> side, qty |-> q, canceled |-> FALSE])]
  /\ UNCHANGED now /\ UnchangedWorker

FillOrder(i) ==
  /\ i \in DOMAIN broker.orders
  /\ Status(i) \in {"new", "partially_filled"} /\ MayHappen
  /\ broker' = [broker EXCEPT !.fills = Append(@, [order |-> i, at |-> now, cum |-> Filled(i) + 1])]
  /\ UNCHANGED now /\ UnchangedWorker

CancelOrder(i) ==
  /\ i \in DOMAIN broker.orders
  /\ Status(i) \in {"new", "partially_filled"} /\ MayHappen
  /\ broker' = [broker EXCEPT !.orders[i].canceled = TRUE]
  /\ UNCHANGED now /\ UnchangedWorker

ClockTick ==
  /\ now < MaxTime /\ MayHappen
  /\ now' = now + 1
  /\ UNCHANGED broker /\ UnchangedWorker

-----------------------------------------------------------------------------
(* What an honest provider answers *)

RawPositions ==
  {[asset |-> a, class |-> ClassOf(a), exchange |-> "NASDAQ", marked |-> TRUE,
    qty |-> Holding(a)] : a \in {b \in {"stock", "option"} : Holding(b) # 0}}

RawPart(i, part, structure, asset, class, side, legs) ==
  [id |-> <<i, part>>, structure |-> structure, asset |-> asset, class |-> class, side |-> side,
   legs |-> legs, status |-> Status(i), qty |-> broker.orders[i].qty, filled |-> Filled(i)]

\* An order is known by its number, its leg by the number and a "leg".
RawOrder(i) ==
  LET o == broker.orders[i]
      asset == AssetOf(o.structure)
      single(part) == RawPart(i, part, "simple", asset, ClassOf(asset), o.side, <<>>)
  IN  IF o.structure # "mleg" THEN single("parent")
      ELSE RawPart(i, "parent", "mleg", None, None, None, <<single("leg")>>)

RawFill(k) ==
  LET f == broker.fills[k]
      o == broker.orders[f.order]
  IN  [id |-> <<k, "fill">>, order |-> <<f.order, IF o.structure = "mleg" THEN "leg" ELSE "parent">>,
       asset |-> AssetOf(o.structure), side |-> o.side, qty |-> 1, cum |-> f.cum,
       leaves |-> o.qty - f.cum, type |-> IF f.cum = o.qty THEN "fill" ELSE "partial_fill"]

\* Mutant of WindowStart: a window begins where the last one ended.
NoOverlap == IF snaps = <<>> THEN run.start ELSE Last(snaps).observed.cutover

\* The bounds of the activity query; the provider excludes both.
WindowStart == (IF snaps = <<>> THEN run.start ELSE Last(snaps).observed.cutover) - Overlap

InWindow(k) == WindowStart < broker.fills[k].at /\ broker.fills[k].at < run.start

Ascending(S) ==
  CHOOSE s \in [1..Cardinality(S) -> S] : \A i, j \in DOMAIN s : i < j => s[i] < s[j]

FirstOf(s) == IF Len(s) <= PageSize THEN s ELSE SubSeq(s, 1, PageSize)

\* The items of the next page: those after the cursor, oldest first.
Page(r, cursor) ==
  CASE r = "account"   -> <<[currency |-> "USD", cash |-> 0 - Holding("stock") - Holding("option")]>>
    [] r = "positions" -> SetToSeq(RawPositions)
    [] r = "orders"    -> FirstOf([j \in 1..(Len(broker.orders) - cursor) |-> RawOrder(cursor + j)])
    [] r = "fills"     -> LET left == Ascending({k \in DOMAIN broker.fills :
                                                  InWindow(k) /\ k > cursor})
                          IN  FirstOf([j \in DOMAIN left |-> RawFill(left[j])])

-----------------------------------------------------------------------------
(* AlpacaPaperTradingClient *)

Cursor(pages) == IF pages = <<>> THEN 0 ELSE Last(Last(pages).items).id[1]

ItemIds(r, item) == IF r = "orders" THEN <<item.id>> \o [j \in DOMAIN item.legs |-> item.legs[j].id]
                    ELSE <<item.id>>

Identifiers(r, pages) ==
  FlattenSeq([p \in DOMAIN pages |->
    FlattenSeq([j \in DOMAIN pages[p].items |-> ItemIds(r, pages[p].items[j])])])

\* Mutant of PageVerdict: a full page is taken for the last one.
FullPageIsLast(r, pages) == IF Len(Last(pages).items) > PageSize THEN "malformed_response" ELSE "done"

\* What follows from the pages read so far: another page, the end, or a failure.
PageVerdict(r, pages) ==
  LET items == Last(pages).items
      ids == Identifiers(r, pages)
  IN  CASE r = "account"   -> "done"
        [] r = "positions" -> IF Len(items) > MaxItems THEN "resource_limit" ELSE "done"
        [] OTHER -> IF Len(items) > PageSize \/ ~IsInjective(ids)
                      THEN "malformed_response"
                    ELSE IF Len(ids) > MaxItems THEN "resource_limit"
                    ELSE IF Len(items) < PageSize THEN "done"
                    ELSE IF Len(pages) < MaxPages THEN "next" ELSE "resource_limit"

\* Mutant of IsAborted: the account is read under the worker's signal.
NoDeadline(at, a, r) == IF r = "account" THEN at.aborted ELSE at.reason # "none"

\* The signal of a read: the account is read under the deadline's controller,
\* the collections under a controller that their first failure aborts as well.
IsAborted(at, a, r) ==
  IF a = at.attempt /\ r = "account" THEN at.timedOut \/ at.aborted
  ELSE a # at.attempt \/ at.reason # "none"

\* An abort rejects, in the same turn, the fetches and body reads in flight.
CancelFetches(tasks, at) ==
  [a \in 1..MaxAttempts |-> [r \in Resources |->
     IF tasks[a][r].st = "fetching" /\ IsAborted(at, a, r)
     THEN [st |-> "failed", err |-> "cancelled", pages |-> <<>>] ELSE tasks[a][r]]]

\* A read goes on or ends; the first failure of a collection aborts the others.
SettleTask(a, r, st, err, pages) ==
  \E tasks \in {[task EXCEPT ![a][r] = [st |-> st, err |-> err, pages |-> pages]]} :
    /\ run' = IF st = "failed" /\ r \in Collections /\ run.reason = "none" /\ a = run.attempt
              THEN [run EXCEPT !.reason = err] ELSE run
    /\ task' = CancelFetches(tasks, run')

UnchangedWorld == UNCHANGED <<broker, now, captured>>

\* The receipt of the last page is stored and the page is examined.
ExaminePage(a, r, pages) ==
  \E verdict \in {PageVerdict(r, pages)} :
    /\ receipts' = receipts \cup {[attempt |-> a, resource |-> r, ordinal |-> Len(pages) - 1]}
    /\ IF verdict \in Failures THEN SettleTask(a, r, "failed", verdict, <<>>)
       ELSE SettleTask(a, r, IF verdict = "next" THEN "fetching" ELSE "done", "none", pages)

\* A page as the account is at this moment.  A faulty provider ignores the query
\* and answers with every item from the first, or gives an order a status that
\* is not known.
AnsweredPage(r, pages, flaw) ==
  [items |-> CASE flaw = "ignored" -> [k \in DOMAIN broker[r] |->
                                         IF r = "orders" THEN RawOrder(k) ELSE RawFill(k)]
               [] flaw = "unknown" -> <<[RawOrder(1) EXCEPT !.status = "odd"]>>
               [] OTHER            -> Page(r, Cursor(pages)),
   version |-> IF r = "orders" THEN Version ELSE 0]

\* The fetch resolves with a page, and its receipt is stored before anything
\* else happens; or the write takes longer.
Answer(a, r) ==
  /\ task[a][r].st = "fetching"
  /\ \E flaw \in {"none", "ignored", "unknown"}, slow \in BOOLEAN :
       /\ flaw = "ignored" => r \in {"orders", "fills"}
       /\ flaw = "unknown" => r = "orders" /\ broker.orders # <<>>
       /\ faults' = faults + (IF flaw # "none" THEN 1 ELSE 0) + (IF slow THEN 1 ELSE 0)
       /\ faults' = faults \/ MayHappen
       /\ \E pages \in {Append(task[a][r].pages, AnsweredPage(r, task[a][r].pages, flaw))} :
            IF slow THEN SettleTask(a, r, "recording", "none", pages) /\ UNCHANGED receipts
            ELSE ExaminePage(a, r, pages)
  /\ UnchangedWorld /\ UNCHANGED <<snaps, fillRows>>

\* The fetch fails: no connection, a status other than 200, a body that is too
\* large or not JSON, the wrong account.
AnswerFails(a, r, class) ==
  /\ task[a][r].st = "fetching"
  /\ class = "account_mismatch" => r = "account"
  /\ MayHappen /\ faults' = faults + 1
  /\ SettleTask(a, r, "failed", class, <<>>)
  /\ UnchangedWorld /\ UNCHANGED <<receipts, snaps, fillRows>>

\* recordRequestReceipt commits, or the database fails; no signal stops it.
RecordReceipt(a, r) ==
  /\ task[a][r].st = "recording"
  /\ \/ ExaminePage(a, r, task[a][r].pages) /\ UNCHANGED faults
     \/ /\ MayHappen /\ faults' = faults + 1
        /\ SettleTask(a, r, "failed", "database", <<>>)
        /\ UNCHANGED receipts
  /\ UnchangedWorld /\ UNCHANGED <<snaps, fillRows>>

-----------------------------------------------------------------------------
(* captureWithinDeadline, withPortfolioRetry and synchronizeOnce *)

UnchangedRest == UNCHANGED <<broker, now, snaps, fillRows, faults>>

StartAttempt(a, from) ==
  /\ run' = [from EXCEPT !.pc = "account", !.attempt = a, !.start = now,
               !.known = Len(broker.orders), !.timedOut = FALSE, !.reason = "none", !.outcome = "none"]
  /\ task' = [task EXCEPT ![a]["account"].st = "fetching"]
  /\ receipts' = {}

\* A cycle begins: the next poll of this worker, or the first of a restarted one.
BeginCycle ==
  /\ run.pc = "idle" /\ run.cycle < MaxPolls
  /\ StartAttempt(1, [run EXCEPT !.cycle = @ + 1, !.outcome = "none"])
  /\ UNCHANGED <<broker, now, captured, snaps, fillRows, faults>>

Retryable == {"rate_limited", "retryable_transport"}

\* After the deadline any failure of the capture is the timeout of a request,
\* unless the worker is shutting down.
AttemptError(err) == IF run.timedOut /\ ~run.aborted THEN "retryable_transport" ELSE err

\* What the attempt held in memory is gone; a read that has not ended goes on.
ForgetAttempt == task' = [task EXCEPT ![run.attempt] =
  [r \in Resources |-> IF @[r].st \in {"done", "failed"} THEN Idle ELSE @[r]]]

\* The cycle ends, failed or promoted, and with it all but its outcome.
Ended(outcome) == [run EXCEPT !.pc = "idle", !.attempt = 0, !.start = 0, !.known = 0,
                     !.timedOut = FALSE, !.aborted = FALSE, !.reason = "none",
                     !.outcome = outcome]

\* Mutant of MayRetry: the attempts are not counted.
RetryForever(class) == class \in Retryable

MayRetry(class) == class \in Retryable /\ run.attempt < MaxAttempts

FailAttempt(err) ==
  LET class == AttemptError(err)
  IN  /\ ForgetAttempt
      /\ run' = IF MayRetry(class)
                THEN [run EXCEPT !.pc = "delay", !.outcome = class] ELSE Ended(class)

CurrentTask == task[run.attempt]

AccountRead ==
  /\ run.pc = "account" /\ CurrentTask["account"].st = "done"
  /\ run' = [run EXCEPT !.pc = "collect",
               !.reason = IF run.aborted THEN "shutdown" ELSE IF run.timedOut THEN "deadline"
                          ELSE "none"]
  /\ \E tasks \in {[task EXCEPT ![run.attempt] = [r \in Resources |->
                      IF r = "account" THEN @[r] ELSE [@[r] EXCEPT !.st = "fetching"]]]} :
       task' = CancelFetches(tasks, run')
  /\ UNCHANGED <<captured, receipts>> /\ UnchangedRest

AccountReadFailed ==
  /\ run.pc = "account" /\ CurrentTask["account"].st = "failed"
  /\ FailAttempt(CurrentTask["account"].err)
  /\ UNCHANGED <<captured, receipts>> /\ UnchangedRest

Items(r) == LET pages == CurrentTask[r].pages
            IN  FlattenSeq([p \in DOMAIN pages |-> pages[p].items])

Capture ==
  [account |-> Items("account")[1], positions |-> Items("positions"),
   orders |-> Items("orders"), fills |-> Items("fills"),
   start |-> run.start, windowStart |-> WindowStart, baseline |-> snaps = <<>>,
   requests |-> {[resource |-> x[1], ordinal |-> x[2] - 1] :
                   x \in {y \in Resources \X (1..MaxPages) : y[2] \in DOMAIN CurrentTask[y[1]].pages}}]

\* Mutant of AllSettled: the first failure ends the attempt.
FirstRejection(tasks) ==
  \/ \A r \in Collections : tasks[r].st = "done"
  \/ \E r \in Collections : tasks[r].st = "failed"

\* Every read has ended.
AllSettled(tasks) == \A r \in Collections : tasks[r].st \in {"done", "failed"}

\* Mutant of CaptureFailure: the failure of the first resource in the list.
FirstInOrder(tasks) ==
  LET failed(r) == tasks[r].st = "failed"
  IN  IF failed("positions") THEN tasks["positions"].err
      ELSE IF failed("orders") THEN tasks["orders"].err ELSE tasks["fills"].err

\* What the capture throws when a read has failed: why the reads were aborted.
CaptureFailure(tasks) == run.reason

CollectionsSettled ==
  /\ run.pc = "collect" /\ AllSettled(CurrentTask)
  /\ IF \E r \in Collections : CurrentTask[r].st = "failed"
     THEN FailAttempt(CaptureFailure(CurrentTask))
          /\ UNCHANGED captured
     ELSE \E raw \in {Capture} :
          \E positions \in {NormalizePositions(raw)}, orders \in {FlattenOrders(raw.orders)} :
          \E snapshot \in {NormalizeCapture(raw, positions, orders)} :
            IF ~CaptureIsConsistent(raw, positions, orders) \/ ~SnapshotIsSound(snapshot)
            THEN FailAttempt("malformed_response") /\ UNCHANGED captured
            ELSE /\ captured' = snapshot
                 /\ run' = [run EXCEPT !.pc = "store"]
                 /\ UNCHANGED task
  /\ UNCHANGED receipts /\ UnchangedRest

\* The process waits for an answer, a write or a timer.  Otherwise a read has
\* settled that it goes on with before it looks at timers and signals again.
Waiting ==
  CASE run.pc = "account" -> CurrentTask["account"].st \in {"fetching", "recording"}
    [] run.pc = "collect" -> ~AllSettled(CurrentTask)
    [] OTHER              -> run.pc = "delay"

\* The timer of captureWithinDeadline.
Deadline ==
  /\ run.pc \in {"account", "collect"} /\ ~run.timedOut /\ Waiting
  /\ run' = [run EXCEPT !.timedOut = TRUE,
               !.reason = IF run.pc = "collect" /\ @ = "none" THEN "deadline" ELSE @]
  /\ task' = CancelFetches(task, run')
  /\ UNCHANGED <<captured, receipts>> /\ UnchangedRest

ShutdownSignal ==
  /\ Waiting /\ ~run.aborted
  /\ MayHappen /\ faults' = faults + 1
  /\ run' = [run EXCEPT !.aborted = TRUE,
               !.reason = IF run.pc = "collect" /\ @ = "none" THEN "shutdown" ELSE @]
  /\ task' = CancelFetches(task, run')
  /\ UNCHANGED <<broker, now, captured, receipts, snaps, fillRows>>

\* The delay before the next attempt ends, or the shutdown ends it.
RetryDelayEnds ==
  /\ run.pc = "delay"
  /\ IF run.aborted
     THEN run' = Ended("shutdown") /\ UNCHANGED <<task, receipts>>
     ELSE StartAttempt(run.attempt + 1, run)
  /\ UNCHANGED captured /\ UnchangedRest

\* validateCompleteRequestEvidence: the receipts of the final attempt are those
\* of the snapshot's requests, one account, one positions, gapless pages.
EvidenceIsComplete(snapshot) ==
  LET final == {x \in receipts : x.attempt = run.attempt}
      ordinals(r) == {x.ordinal : x \in {y \in final : y.resource = r}}
  IN  /\ ordinals("account") = {0} /\ ordinals("positions") = {0}
      /\ \A r \in {"orders", "fills"} :
           ordinals(r) = 0..(Cardinality(ordinals(r)) - 1) /\ ordinals(r) # {}
      /\ {[resource |-> x.resource, ordinal |-> x.ordinal] : x \in final} = snapshot.requests

\* The rows of the account, of its positions and of its orders.
ObservationRows(snapshot) ==
  [account |-> snapshot.account, positions |-> snapshot.positions, orders |-> snapshot.orders,
   fills |-> snapshot.fills, start |-> snapshot.start, baseline |-> snapshot.baseline,
   cutover |-> snapshot.cutover]

\* A fill already stored under its identity is kept, one of a new identity added.
InsertFills(snapshot) == fillRows \cup snapshot.fills

\* What the rows written say of the snapshot when they are read back.
PersistedProjection(snapshot, projection, rows) ==
  [PreparePortfolioProjection(snapshot, projection) EXCEPT !.fills = snapshot.fills \cap rows]

\* The rows of the reconciliation, with its delta to the previous snapshot, and
\* of the projection.
JudgementRows(snapshot, projection) ==
  [delta |-> SnapshotDelta(IF snaps = <<>> THEN None ELSE Last(snaps).observed, snapshot),
   projection |-> projection.state]

\* The rows of a promoted snapshot.  What was known, and which account the first
\* and the last page of the orders showed, is history.
SnapshotRow(projection) ==
  LET orderReads == CurrentTask["orders"].pages
  IN  [observed |-> ObservationRows(captured), judged |-> JudgementRows(captured, projection),
       history |-> [known |-> run.known, first |-> orderReads[1].version,
                    last |-> Last(orderReads).version]]

\* The two preparations and reconciliations of synchronizeOnce, then the
\* transaction of completeSync, which reads back the rows it has written and
\* reconciles them again.
CompleteSync ==
  /\ run.pc = "store" /\ captured' = None /\ ForgetAttempt
  /\ \E basis \in {Drift(captured, PreparePortfolioProjection(captured, None), None)} :
     \E projection \in {Projection(captured, basis = {})}, rows \in {InsertFills(captured)} :
       IF \/ basis # {} \/ ~EvidenceIsComplete(captured)
          \/ Drift(captured, PersistedProjection(captured, projection, rows), projection) # {}
       THEN run' = Ended("projection_failed") /\ UNCHANGED <<snaps, fillRows, faults>>
       ELSE \/ /\ fillRows' = rows
               /\ snaps' = Append(snaps, SnapshotRow(projection))
               /\ run' = Ended("none")
               /\ UNCHANGED faults
            \/ /\ MayHappen /\ faults' = faults + 1
               /\ run' = Ended("database")
               /\ UNCHANGED <<snaps, fillRows>>
  /\ receipts' = {}
  /\ UNCHANGED <<broker, now>>

-----------------------------------------------------------------------------

Account == PlaceOrder \/ ClockTick \/ \E i \in 1..MaxOrders : FillOrder(i) \/ CancelOrder(i)

Provider == \E a \in 1..MaxAttempts, r \in Resources :
  Answer(a, r) \/ \E class \in FailureClasses : AnswerFails(a, r, class)

Worker ==
  \/ \E a \in 1..MaxAttempts, r \in Resources : RecordReceipt(a, r)
  \/ AccountRead \/ AccountReadFailed \/ CollectionsSettled \/ RetryDelayEnds \/ CompleteSync

CaptureNext == Account \/ Provider \/ Worker \/ BeginCycle \/ Deadline \/ ShutdownSignal

\* The worker's own steps and its timer happen; the provider may never answer.
CaptureSpec == CaptureInit /\ [][CaptureNext]_captureVars /\ WF_captureVars(Worker) /\ WF_captureVars(Deadline)

-----------------------------------------------------------------------------
(* Properties *)

\* Every fill created since the first cutover and before the last one is in a
\* promoted snapshot, whatever was created in the tick of a cutover, whichever
\* cycles failed in between and however the fills fell into pages.
FillsAreContiguous ==
  snaps # <<>> =>
    \A k \in DOMAIN broker.fills :
      broker.fills[k].at \in snaps[1].observed.cutover .. (Last(snaps).observed.cutover - 1) =>
        \E s \in ToSet(snaps) : \E f \in s.observed.fills : f.id[1] = k

\* A promoted snapshot has, without a gap, all orders of the account up to one
\* of them, and at least those that existed when its capture began, although
\* they are placed, filled and canceled between the pages.
OrdersAreWhole ==
  \A s \in ToSet(snaps) :
    LET numbers == {o.id[1] : o \in s.observed.orders}
    IN  numbers = 1..Cardinality(numbers) /\ s.history.known <= Cardinality(numbers)

\* What was read page by page and window by window is whole
\* (readOrders, readFills).
CaptureIsWhole == FillsAreContiguous /\ OrdersAreWhole

\* As long as provider and database answer as they should, no change of the
\* account during a capture makes it contradict itself or its evidence.
HonestCaptureIsAccepted ==
  faults = 0 => run.outcome \notin {"malformed_response", "projection_failed"}

\* Two snapshots whose delta is "unchanged" have no change of the account
\* between the reads of their orders.
UnchangedMeansQuiet ==
  \A k \in 2..Len(snaps) :
    snaps[k].judged.delta = "unchanged" => snaps[k - 1].history.last = snaps[k].history.first

\* A capture spread over time is judged as if it were one moment: neither
\* honest change nor honest rest is mistaken (normalization, reconciliation).
CaptureIsJudgedRight == HonestCaptureIsAccepted /\ UnchangedMeansQuiet

\* A receipt is written for the attempt in progress and never for one that has
\* ended, so the evidence of the final attempt is complete when it is read.
ReceiptsBelongToTheAttempt ==
  [][\A x \in receipts' \ receipts :
       x.attempt = run.attempt /\ run.pc \in {"account", "collect"}]_captureVars

\* When a failed read ends an attempt that neither the deadline nor a shutdown
\* aborted, the attempt fails for that read and not for the reads it canceled.
CauseIsReported ==
  [][(run.pc = "collect" /\ run'.pc \in {"idle", "delay"} /\ ~run.timedOut /\ ~run.aborted)
       => run'.outcome \in Failures \cup {"database"}]_captureVars

\* Attempts stay apart, and so do the failures inside one (retry.ts).
AttemptsStayApart == ReceiptsBelongToTheAttempt /\ CauseIsReported

\* Every cycle ends, though the provider may leave any request unanswered.
CycleEnds == run.pc # "idle" ~> run.pc = "idle"

\* http-client.ts: "immutable fill identities make the overlap idempotent":
\* a fill that two windows return is stored as one observation.
FillIsStoredOnce == \A f, g \in fillRows : f.id = g.id => f = g
=============================================================================
