--------------------------- MODULE PortfolioReads ---------------------------
(* The HTTP API over the portfolio tables: requests that read the selected  *)
(* snapshot in several statements over a pool of few connections, while     *)
(* the workers promote, fail and lose their lease, clients go away and the  *)
(* database fails; and the dashboard that decodes the summary.              *)
(*                                                                          *)
(* The workers are PortfolioStatus, which PortfolioSync implements.  Rows   *)
(* of a complete run never change, so the result of a statement is the run  *)
(* whose rows it returned.                                                  *)
EXTENDS PortfolioStatus, Integers, FiniteSets, SequencesExt

CONSTANTS
  Requests,     \* the requests, each used once
  KindOf,       \* Requests -> "summary", or "page" of positions, orders or fills
  OffsetOf,     \* Requests -> the offset a page begins at
  RowsOf,       \* Snapshots -> the number of its rows, the same in every table
  Complete,     \* the snapshots whose projection is complete
  Limit,        \* the page size a request asks for
  PoolMax,      \* max of the pool
  MaxFaults,    \* bound on failing statements and connections and lost clients
  MaxLapses,    \* bound on the steps of the workers other than promotions
  NoRows        \* no result yet

ASSUME ReadsAssumption ==
  /\ NoRun \notin Snapshots /\ Complete \subseteq Snapshots
  /\ RowsOf \in [Snapshots -> Nat] /\ OffsetOf \in [Requests -> Nat]
  /\ Limit \in Nat \ {0} /\ PoolMax \in Nat \ {0}

VARIABLES
  req,        \* the requests
  query,      \* the statements of every request
  waiting,    \* pg-pool: those that asked for a connection, in order
  checkedOut, \* pg-pool: how many connections are in use
  shown,      \* history: the snapshots each request could truly call fresh
  faults, lapses

readVars == <<req, query, waiting, checkedOut, faults>>
vars == <<current, promoted, lifecycle, failureCode, live, req, query,
          waiting, checkedOut, shown, faults, lapses>>

\* The statements after the first, in the order they are started.
Parallel(kind) == IF kind = "summary" THEN <<"positions", "orders", "fills">>
                  ELSE <<"count", "page">>
Statements == {"current", "positions", "orders", "fills", "count", "page"}

\* What a request ends with; why tells what makes the health degraded.
NoAnswer == [outcome |-> "none", snapshot |-> NoRun, health |-> "none", why |-> {}]
NotAsked == [st |-> "none", rows |-> NoRows]
NoRow == [snapshot |-> NoRun, lifecycle |-> "disabled", live |-> FALSE]

Init ==
  /\ \/ StatusInit
     \/ /\ current \in Snapshots /\ promoted = {current}
        /\ lifecycle = "running" /\ failureCode = FALSE /\ live = TRUE
  /\ req = [r \in Requests |->
              [pc |-> "idle", aborted |-> FALSE,
               stopped |-> FALSE, row |-> NoRow, old |-> {}, answer |-> NoAnswer]]
  /\ query = [r \in Requests |-> [q \in Statements |-> NotAsked]]
  /\ waiting = <<>> /\ checkedOut = 0
  /\ shown = [r \in Requests |-> {}]
  /\ faults = 0 /\ lapses = 0

TypeOK ==
  /\ current \in Snapshots \cup {NoRun} /\ promoted \subseteq Snapshots
  /\ \A r \in Requests :
       /\ req[r].pc \in {"idle", "selecting", "reading", "draining", "ended"}
       /\ req[r].old \subseteq Snapshots /\ shown[r] \subseteq Snapshots
       /\ \A q \in Statements :
            /\ query[r][q].st \in
                 {"none", "connecting", "acquired", "querying", "dying", "done", "failed"}
            /\ query[r][q].rows \in Snapshots \cup {NoRun, NoRows}
  /\ checkedOut \in 0..PoolMax

-----------------------------------------------------------------------------
(* The workers *)

Healthy == live /\ lifecycle = "running" /\ ~failureCode

\* History: whatever is the current snapshot of a healthy worker, at any moment
\* while a request is open, may be shown as fresh by it.
Witness ==
  shown' = [r \in Requests |->
    IF /\ KindOf[r] = "summary" /\ req'[r].pc \in {"selecting", "reading"}
       /\ current' # NoRun /\ Healthy'
    THEN shown[r] \cup {current'} ELSE shown[r]]

Workers ==
  /\ \/ (\E s \in Snapshots : Promote(s)) /\ UNCHANGED lapses
     \/ /\ lapses < MaxLapses /\ lapses' = lapses + 1
        /\ Acquire \/ BeginSync \/ FailSync \/ Release \/ Expire
  /\ UNCHANGED readVars /\ Witness

UnchangedWorld == UNCHANGED <<statusVars, lapses>> /\ Witness

-----------------------------------------------------------------------------
(* buildPortfolioApiSnapshot and pageResponse *)

\* Mutant of Unhealthy: the lease is not looked at.
UnhealthyByLifecycle(row, statements) ==
  IF row.lifecycle # "running" THEN {"worker"} ELSE {}

Unhealthy(row, statements) ==
  LET Reason(name, holds) == IF holds THEN {name} ELSE {}
  IN  Reason("projection", row.snapshot \notin Complete) \cup
      Reason("worker", row.lifecycle # "running" \/ ~row.live) \cup
      Reason("membership", \E q \in Range(Parallel("summary")) :
                             RowsOf[statements[q].rows] # RowsOf[row.snapshot])

\* An answer that is not degraded is "fresh"; the code calls it "stale" when the
\* snapshot is too old.  A failure code never stands beside the lifecycle
\* "running": the test that compares its time with the snapshot's is left out.
Summary(row, statements) ==
  IF row.snapshot = NoRun
  THEN [NoAnswer EXCEPT !.outcome = "succeeded", !.health = "no_snapshot"]
  ELSE LET why == Unhealthy(row, statements)
       IN  [outcome |-> "succeeded", snapshot |-> row.snapshot, why |-> why,
            health |-> IF why = {} THEN "fresh" ELSE "degraded"]

Least(a, b) == IF a < b THEN a ELSE b

\* The count and the page contradict each other: the request fails.
Inconsistent(offset, returned, total) ==
  \/ returned > Limit
  \/ returned > 0 /\ offset + returned > total
  \/ offset < total /\ returned = 0

Page(row, offset, statements) ==
  LET total == RowsOf[statements["count"].rows]
      rows == RowsOf[statements["page"].rows]
      returned == IF rows > offset THEN Least(Limit, rows - offset) ELSE 0
  IN  IF row.snapshot # NoRun /\ Inconsistent(offset, returned, total)
      THEN [NoAnswer EXCEPT !.outcome = "failed"]
      ELSE [NoAnswer EXCEPT !.outcome = "succeeded", !.snapshot = row.snapshot,
              !.health = IF row.snapshot = NoRun THEN "no_snapshot" ELSE "available"]

\* The route answers: 200, or 503 with nothing but "unavailable".
Answered(r, rq, statements) ==
  [rq EXCEPT !.pc = "ended", !.row = NoRow,
     !.answer = IF KindOf[r] = "summary" THEN Summary(rq.row, statements)
                ELSE Page(rq.row, OffsetOf[r], statements)]

Refused(rq) ==
  [rq EXCEPT !.pc = "ended", !.row = NoRow, !.aborted = FALSE, !.stopped = FALSE,
     !.answer = [NoAnswer EXCEPT !.outcome = IF rq.aborted THEN "cancelled" ELSE "failed"]]

-----------------------------------------------------------------------------
(* runParallelPortfolioQueries *)

InProgress == {"connecting", "acquired", "querying", "dying"}

\* The abort of a signal: who waits for a connection gives up, a statement that
\* runs loses its connection and is about to fail, one that has just got its
\* connection will see the signal before it starts.
AbortStatements(statements) ==
  [q \in Statements |->
     CASE statements[q].st = "connecting" -> [statements[q] EXCEPT !.st = "failed"]
       [] statements[q].st = "querying"   -> [statements[q] EXCEPT !.st = "dying"]
       [] OTHER                           -> statements[q]]

\* Mutant of Resume: the other statements are not waited for.
ResumeAtOnce(r, rq, statements) ==
  IF \E q \in Statements : statements[q].st = "failed" THEN Refused(rq)
  ELSE IF rq.pc = "reading" /\ \A q \in Range(Parallel(KindOf[r])) : statements[q].st = "done"
  THEN Answered(r, rq, statements) ELSE rq

\* What awaits the statements goes on: the first of them failed, all of the
\* parallel ones have returned, or after a failure all of them have settled.
Resume(r, rq, statements) ==
  CASE rq.pc = "selecting" /\ statements["current"].st = "failed" -> Refused(rq)
    [] rq.pc = "reading" /\ \A q \in Range(Parallel(KindOf[r])) : statements[q].st = "done"
         -> Answered(r, rq, statements)
    [] rq.pc = "draining" /\ \A q \in Statements : statements[q].st \notin InProgress
         -> Refused(rq)
    [] OTHER -> rq

Running(statements) == Cardinality({q \in Statements : statements[q].st = "querying"})

\* Statements of a request have changed.  The first failure among the parallel
\* ones aborts the others in the same turn, and a statement that is aborted
\* while it runs gives up its connection; net is what the caller took.  Of a
\* request that has ended only statements still in progress are remembered.
Put(r, rq, statements, net) ==
  LET failing == rq.pc = "reading" /\ \E q \in Statements : statements[q].st = "failed"
      Forget(s) == IF s.st \in InProgress THEN s ELSE NotAsked
  IN  \E after \in {IF failing THEN AbortStatements(statements) ELSE statements} :
      \E next \in {Resume(r, IF failing THEN [rq EXCEPT !.pc = "draining", !.stopped = TRUE]
                             ELSE rq, after)} :
        /\ query' = [query EXCEPT ![r] = IF next.pc = "ended"
                                         THEN [q \in Statements |-> Forget(after[q])] ELSE after]
        /\ checkedOut' = (checkedOut + net) - (Running(statements) - Running(after))
        /\ req' = [req EXCEPT ![r] = next]

With(r, q, st, rows) == [query[r] EXCEPT ![q] = [st |-> st, rows |-> rows]]

-----------------------------------------------------------------------------
(* acquireClient and queryPortfolioApiDatabase *)

\* The signal a statement runs under: the request's, or that of its controller.
IsAborted(r, q) == IF q = "current" THEN req[r].aborted ELSE req[r].stopped

\* A connection for a statement that was given up is released as it comes.
Grant ==
  /\ waiting # <<>> /\ checkedOut < PoolMax
  /\ waiting' = Tail(waiting)
  /\ LET r == Head(waiting)[1]
         q == Head(waiting)[2]
     IN  IF query[r][q].st = "connecting"
         THEN Put(r, req[r], With(r, q, "acquired", NoRows), 1)
         ELSE UNCHANGED <<req, query, checkedOut>>
  /\ UNCHANGED faults /\ UnchangedWorld

\* No connection within connectionTimeoutMillis, or none could be made: the
\* pool takes the one who asked out of its queue.
ConnectFails(r, q) ==
  /\ query[r][q].st = "connecting" /\ faults < MaxFaults /\ faults' = faults + 1
  /\ \E i \in DOMAIN waiting : waiting[i] = <<r, q>> /\ waiting' = RemoveAt(waiting, i)
  /\ Put(r, req[r], With(r, q, "failed", NoRows), 0)
  /\ UnchangedWorld

\* Mutant of StartQuery: the connection is not released.
StartQueryLeaking(r, q) ==
  /\ query[r][q].st = "acquired"
  /\ Put(r, req[r], With(r, q, IF IsAborted(r, q) THEN "failed" ELSE "querying", NoRows), 0)
  /\ UNCHANGED <<waiting, faults>> /\ UnchangedWorld

\* The continuation after the connection came: the signal is looked at again.
StartQuery(r, q) ==
  /\ query[r][q].st = "acquired"
  /\ IF IsAborted(r, q) THEN Put(r, req[r], With(r, q, "failed", NoRows), 0 - 1)
     ELSE Put(r, req[r], With(r, q, "querying", NoRows), 0)
  /\ UNCHANGED <<waiting, faults>> /\ UnchangedWorld

\* Mutant of Selection: any complete run.
SomeCompleteRun == IF promoted = {} THEN NoRun ELSE CHOOSE s \in promoted : TRUE

Selection == current

\* CURRENT_SQL and CURRENT_SELECTION_SQL: pointer and status row in one
\* statement; without a snapshot the request ends, else its parallel
\* statements ask for connections.
CurrentReturns(r) ==
  /\ query[r]["current"].st = "querying"
  /\ LET row == [snapshot |-> Selection, lifecycle |-> lifecycle, live |-> live]
         rest == Parallel(KindOf[r])
         read == [req[r] EXCEPT !.row = row]
     IN  IF Selection = NoRun
         THEN /\ Put(r, Answered(r, read, query[r]), With(r, "current", "done", NoRun), 0 - 1)
              /\ UNCHANGED waiting
         ELSE /\ Put(r, [read EXCEPT !.pc = "reading"],
                     [q \in Statements |->
                        IF q = "current" THEN [st |-> "done", rows |-> Selection]
                        ELSE IF q \in Range(rest) THEN [st |-> "connecting", rows |-> NoRows]
                        ELSE query[r][q]], 0 - 1)
              /\ waiting' = waiting \o [i \in DOMAIN rest |-> <<r, rest[i]>>]
  /\ UNCHANGED faults /\ UnchangedWorld

\* Mutant of SelectedRun: the parallel statements select the current snapshot.
SelectedNow(r) == current

\* The run whose rows the parallel statements select.
SelectedRun(r) == req[r].row.snapshot

QueryReturns(r, q) ==
  /\ q # "current" /\ query[r][q].st = "querying"
  /\ Put(r, req[r], With(r, q, "done", SelectedRun(r)), 0 - 1)
  /\ UNCHANGED <<waiting, faults>> /\ UnchangedWorld

\* The database refuses, or statement_timeout ends it: its connection is not
\* used again.
QueryFails(r, q) ==
  /\ query[r][q].st = "querying" /\ faults < MaxFaults /\ faults' = faults + 1
  /\ Put(r, req[r], With(r, q, "failed", NoRows), 0 - 1)
  /\ UNCHANGED waiting /\ UnchangedWorld

\* Mutant of QueryDies: its connection is released a second time.
QueryDiesReleasing(r, q) ==
  /\ query[r][q].st = "dying"
  /\ Put(r, req[r], With(r, q, "failed", NoRows), 0 - 1)
  /\ UNCHANGED <<waiting, faults>> /\ UnchangedWorld

\* The statement whose connection was destroyed is rejected.
QueryDies(r, q) ==
  /\ query[r][q].st = "dying"
  /\ Put(r, req[r], With(r, q, "failed", NoRows), 0)
  /\ UNCHANGED <<waiting, faults>> /\ UnchangedWorld

-----------------------------------------------------------------------------
(* The routes *)

Arrive(r) ==
  /\ req[r].pc = "idle"
  /\ req' = [req EXCEPT ![r].pc = "selecting", ![r].old = promoted \ {current}]
  /\ query' = [query EXCEPT ![r]["current"].st = "connecting"]
  /\ waiting' = Append(waiting, <<r, "current">>)
  /\ UNCHANGED <<checkedOut, faults>> /\ UnchangedWorld

\* The client closes the connection, the dashboard after five seconds.
Disconnect(r) ==
  /\ req[r].pc \in {"selecting", "reading", "draining"} /\ ~req[r].aborted
  /\ faults < MaxFaults /\ faults' = faults + 1
  /\ LET after == AbortStatements(query[r])
     IN  Put(r, [req[r] EXCEPT !.aborted = TRUE, !.stopped = req[r].pc # "selecting"],
             after, Running(after) - Running(query[r]))
  /\ UNCHANGED waiting /\ UnchangedWorld

-----------------------------------------------------------------------------

Api == \/ Grant
       \/ \E r \in Requests : CurrentReturns(r) \/ \E q \in Statements :
            StartQuery(r, q) \/ QueryReturns(r, q) \/ QueryDies(r, q)

Failing == \E r \in Requests, q \in Statements : ConnectFails(r, q) \/ QueryFails(r, q)

Next == Workers \/ Api \/ Failing \/ \E r \in Requests : Arrive(r) \/ Disconnect(r)

\* Statements end, by an answer or by statement_timeout, and what waits for a
\* connection is served when one is free.
Spec == Init /\ [][Next]_vars /\ WF_vars(Api)

-----------------------------------------------------------------------------
(* Properties *)

\* An answer that says "fresh" shows a snapshot that at some moment since the
\* request came was the current one of a healthy worker whose lease was live,
\* although the answer is put together from several statements.
FreshIsTrue ==
  \A r \in Requests :
    req[r].answer.health = "fresh" => req[r].answer.snapshot \in shown[r] \cap Complete

\* No request shows a snapshot that had been replaced before it came.
NeverOutdated ==
  \A r \in Requests :
    req[r].answer.outcome = "succeeded" /\ req[r].answer.snapshot # NoRun
      => req[r].answer.snapshot \notin req[r].old

\* A promotion between two statements of a request neither makes the request
\* fail nor the answer look damaged: only the database and the client do.
PromotionBreaksNoRead ==
  \A r \in Requests :
    /\ req[r].answer.outcome = "failed" => faults > 0
    /\ "membership" \notin req[r].answer.why

\* An answer put together from several statements is one answer: what it calls
\* fresh was, nothing in it is outdated, and promotions do not disturb it.
AnswersAreSound == FreshIsTrue /\ NeverOutdated /\ PromotionBreaksNoRead

\* When a request has ended, none of its statements runs or waits.
NoStatementOutlives ==
  \A r \in Requests : req[r].pc = "ended" =>
    \A q \in Statements : query[r][q].st \notin InProgress

\* Connections are in use only by statements that hold them, whatever was
\* aborted while it waited, had just been served or ran.
ConnectionsAreReturned ==
  checkedOut = Cardinality({e \in Requests \X Statements :
                              query[e[1]][e[2]].st \in {"acquired", "querying"}})

\* A request that ended holds nothing, and no connection is lost.
ConnectionsAreFreed == NoStatementOutlives /\ ConnectionsAreReturned

\* No request stays open, though clients go away and statements fail while
\* others wait for the connections.
RequestsEnd == []<>(\A r \in Requests : req[r].pc \in {"idle", "ended"})
=============================================================================
