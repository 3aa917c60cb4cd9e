------------------------------ MODULE SignalRuns ------------------------------
(***************************************************************************)
(* The canonical revision journal and the signal worker: runs that own     *)
(* consecutive stretches of the journal, their capture hand-off, and the   *)
(* processes that claim a run, process its revisions in order and complete *)
(* it.                                                                     *)
(*                                                                         *)
(* A member of Worker is a process slot.  Each start has a fresh owner id: *)
(* Start renames the rows of the slot's earlier process to Nobody.  Run    *)
(* ids are numbered in creation order, which is created_at order because   *)
(* the series locks and the status claim serialize creation.  A lease is a *)
(* flag that the environment may clear; the run and the status lease have  *)
(* different lengths and expire separately.                                *)
(*                                                                         *)
(* Every transaction commits, fails without effect, or commits and loses   *)
(* its reply.  enableOrResume is one step although it reads before it      *)
(* takes the status claim: the series locks exclude writers and other      *)
(* cutovers, its own row lock protects the capture run, and a worker that  *)
(* commits in between has just renewed the claim, which refuses it.        *)
(***************************************************************************)
EXTENDS Naturals, FiniteSets, Sequences

CONSTANTS
  Worker,        \* process slots
  Config,        \* signal configurations, by hash
  Disabled,      \* the mode of a process that only drains
  Nobody,        \* SQL NULL, or an owner id of a process that has ended
  NoRun,         \* no run
  NoStop,        \* SQL NULL in stop_position
  BacklogLimit,  \* operational.backlogLimit
  BatchSize,     \* operational.claimBatchSize
  MaxAttempts,   \* operational.retry.maxAttempts
  MaxRuns,       \* bound: rows of signal_runs
  MaxPosition,   \* bound: rows of the journal
  MaxFence,      \* bound: fence of the status claim at an acquisition
  MaxFaults,     \* bound: failures, lost replies, crashes and stalls
  MaxOrders      \* bound: stop requests and changed deployments

ASSUME LimitsAssumption ==
  /\ BacklogLimit \in Nat \ {0}
  /\ BatchSize \in Nat \ {0}
  /\ MaxAttempts \in Nat \ {0}
ASSUME BoundsAssumption ==
  /\ MaxRuns \in Nat
  /\ MaxPosition \in Nat
  /\ MaxFence \in Nat
  /\ MaxFaults \in Nat
  /\ MaxOrders \in Nat
ASSUME NullsAssumption ==
  /\ Nobody \notin Worker
  /\ Disabled \notin Config
  /\ NoRun \notin Nat
  /\ NoStop \notin Nat

VARIABLES
  nextPosition,  \* market_data_canonical_revision_counter.next_position
  journal,       \* market_data_canonical_revisions.run_id, by position
  runs,          \* signal_runs with signal_run_cursors
  created,       \* how many rows signal_runs has
  applied,       \* by position: the runs whose results for it are committed
  status,        \* signal_worker_status: lifecycle and claim
  pc,            \* where each process is
  mode,          \* the configuration it was started with, or Disabled
  claim,         \* the LiveRunClaim it works with
  rev,           \* position of the revision being processed
  upto,          \* position of the last revision of the batch
  attempt,       \* attempts made at this revision
  aborted,       \* its abort signal is set
  faults,        \* failures so far
  orders         \* operator orders so far

feed  == <<nextPosition, journal>>
db    == <<runs, created, applied, status>>
work  == <<rev, upto, attempt>>
limits == <<faults, orders>>
vars  == <<nextPosition, journal, runs, created, applied, status, pc, mode,
           claim, rev, upto, attempt, aborted, faults, orders>>

Runs      == 1..MaxRuns
Positions == 1..MaxPosition
Modes     == Config \cup {Disabled}
States    == {"absent", "pending", "active", "closing", "completed"}
Lifecycles == {"disabled", "starting", "running", "stopping", "stopped", "failed"}
Phases    == {"down", "acquire", "backlog", "read", "complete", "commit",
              "retry", "failing", "quiet", "parked", "deaf", "leave"}

Run == [state : States, capture : BOOLEAN, config : Config \cup {Disabled},
        start : Nat, stop : Nat \cup {NoStop}, cursor : Nat,
        fence : Nat, owner : Worker \cup {Nobody}, live : BOOLEAN]
NoRow == [state |-> "absent", capture |-> FALSE, config |-> Disabled,
          start |-> 0, stop |-> NoStop, cursor |-> 0,
          fence |-> 0, owner |-> Nobody, live |-> FALSE]

Status == [lifecycle : Lifecycles, fence : Nat,
           owner : Worker \cup {Nobody}, live : BOOLEAN]

Claim == [run : Runs \cup {NoRun}, state : States, cursor : Nat,
          stop : Nat \cup {NoStop}, fence : Nat, statusFence : Nat]
NoClaim == [run |-> NoRun, state |-> "absent", cursor |-> 0,
            stop |-> NoStop, fence |-> 0, statusFence |-> 0]

TypeOK ==
  /\ nextPosition \in 1..(MaxPosition + 1)
  /\ journal \in [Positions -> Runs \cup {NoRun}]
  /\ runs \in [Runs -> Run]
  /\ created \in 0..MaxRuns
  /\ applied \in [Positions -> Seq(Runs)]
  /\ status \in Status
  /\ pc \in [Worker -> Phases]
  /\ mode \in [Worker -> Modes]
  /\ claim \in [Worker -> Claim]
  /\ rev \in [Worker -> Nat]
  /\ upto \in [Worker -> Nat]
  /\ attempt \in [Worker -> Nat]
  /\ aborted \in [Worker -> BOOLEAN]
  /\ faults \in 0..MaxFaults
  /\ orders \in 0..MaxOrders

Init ==
  /\ nextPosition = 1
  /\ journal = [p \in Positions |-> NoRun]
  /\ runs = [r \in Runs |-> NoRow]
  /\ created = 0
  /\ applied = [p \in Positions |-> <<>>]
  /\ status = [lifecycle |-> "disabled", fence |-> 0, owner |-> Nobody, live |-> FALSE]
  /\ pc = [w \in Worker |-> "down"]
  /\ mode \in [Worker -> Modes]
  /\ claim = [w \in Worker |-> NoClaim]
  /\ rev = [w \in Worker |-> 0]
  /\ upto = [w \in Worker |-> 0]
  /\ attempt = [w \in Worker |-> 0]
  /\ aborted = [w \in Worker |-> FALSE]
  /\ faults = 0
  /\ orders = 0

-----------------------------------------------------------------------------
(* Helpers *)

Goto(w, p) == pc' = [pc EXCEPT ![w] = p]

Fault == faults < MaxFaults /\ faults' = faults + 1 /\ UNCHANGED orders
Order == orders < MaxOrders /\ orders' = orders + 1 /\ UNCHANGED faults

\* One transaction.  If it is allowed it commits, and then the reply arrives or
\* is lost; if it is not, it throws and rolls back; either way it may fail.
Transaction(allowed, commit, acknowledged, failed) ==
  \/ allowed /\ commit /\ acknowledged /\ UNCHANGED limits
  \/ allowed /\ commit /\ Fault /\ failed
  \/ ~allowed /\ UNCHANGED db /\ failed /\ UNCHANGED limits
  \/ Fault /\ UNCHANGED db /\ failed

\* The claim on a row can be taken: it is unowned, expired or the caller's.
Free(row, w) == ~row.live \/ row.owner = w

\* Mutant of MayTake: an expired claim is not taken over.
MayTakeOwn(w, force) == force \/ status.owner = w \/ status.fence = 0

\* acquireStatusLease: only disable forces it.
MayTake(w, force) == force \/ Free(status, w)

CaptureRuns == {r \in Runs : runs[r].capture}
Closing(rs) == {r \in Runs : rs[r].state = "closing"}
First(S)    == CHOOSE r \in S : \A s \in S : r <= s

NextClosing(rs) == First(Closing(rs))

\* Mutant of Watermark: the position about to be allocated.
NextWatermark == nextPosition

\* lockCutover: the last position allocated.
Watermark == nextPosition - 1

Taken(rs, r, w) ==
  [rs EXCEPT ![r].fence = @ + 1, ![r].owner = w, ![r].live = TRUE]

Frozen(rs, r) ==
  [rs EXCEPT ![r].capture = FALSE, ![r].state = "closing", ![r].stop = Watermark]

FreezeCapture(rs) == IF CaptureRuns = {} THEN rs ELSE Frozen(rs, First(CaptureRuns))

\* claimClosing: the oldest closing run, if there is one.
TakeClosing(rs, w) == IF Closing(rs) = {} THEN rs ELSE Taken(rs, NextClosing(rs), w)

\* The status claim keeps its fence only while it is live and the caller's.
StatusTaken(w, lifecycle) ==
  [lifecycle |-> lifecycle,
   fence |-> IF status.owner = w /\ status.live THEN status.fence ELSE status.fence + 1,
   owner |-> w,
   live |-> TRUE]

ClaimOf(r) ==
  [run |-> r, state |-> runs'[r].state, cursor |-> runs'[r].cursor,
   stop |-> runs'[r].stop, fence |-> runs'[r].fence, statusFence |-> status'.fence]

\* renewClaim: both claims are live, the caller's and of the claimed fences.
Holds(w) ==
  LET c == claim[w] IN
  /\ status.live /\ status.owner = w /\ status.fence = c.statusFence
  /\ runs[c.run].live /\ runs[c.run].owner = w /\ runs[c.run].fence = c.fence

Backlog(r) == {p \in Positions : journal[p] = r /\ p > runs[r].cursor}

\* Mutant of SeesAbort: the signal is looked at only while waiting for a retry.
SeesAbortInRetry(w) == aborted[w] /\ pc[w] = "retry"

\* abortRequested
SeesAbort(w) == aborted[w]

\* The drain loop ends because of the abort signal: a monitoring worker leaves,
\* a disabled one calls disable once more before it looks at the signal.
AfterAbort(w) == IF mode[w] = Disabled THEN "acquire" ELSE "leave"

Forget(w) ==
  /\ claim' = [claim EXCEPT ![w] = NoClaim]
  /\ rev' = [rev EXCEPT ![w] = 0]
  /\ upto' = [upto EXCEPT ![w] = 0]
  /\ attempt' = [attempt EXCEPT ![w] = 0]
  /\ aborted' = [aborted EXCEPT ![w] = FALSE]

\* The process ends and loses its memory.
Exit(w) == Goto(w, "down") /\ Forget(w)

\* An error leaves the drain loop: the runtime's catch.
Catch(w) == Goto(w, "failing") /\ UNCHANGED <<claim, work>>
-----------------------------------------------------------------------------
(* Starting, and the cutover transactions *)

Disowned(row, w) == IF row.owner = w THEN [row EXCEPT !.owner = Nobody] ELSE row

Start(w, m) ==
  /\ pc[w] = "down"
  /\ \/ m = mode[w] /\ UNCHANGED limits
     \/ m # mode[w] /\ Order
  /\ mode' = [mode EXCEPT ![w] = m]
  /\ runs' = [r \in Runs |-> Disowned(runs[r], w)]
  /\ status' = Disowned(status, w)
  /\ Goto(w, "acquire")
  /\ UNCHANGED <<feed, created, applied, claim, work, aborted>>

\* The capture run has this process's configuration.
Matches(w) == \E r \in CaptureRuns : runs[r].config = mode[w]

\* A changed configuration is refused while a run is closing; the status claim
\* and the claims on the capture run and on the oldest closing run must be free.
EnableAllowed(w) ==
  /\ CaptureRuns # {} /\ ~Matches(w) => Closing(runs) = {}
  /\ MayTake(w, FALSE)
  /\ \A r \in CaptureRuns : Free(runs[r], w)
  /\ Closing(runs) # {} => Free(runs[NextClosing(runs)], w)

\* Mutant of CreatedState: a lifecycle of the worker instead of a run state.
CreatedStarting == "starting"

CreatedState == IF CaptureRuns = {} /\ Closing(runs) = {} THEN "active" ELSE "pending"

NewRun(w) ==
  [state |-> CreatedState, capture |-> TRUE, config |-> mode[w],
   start |-> Watermark, stop |-> NoStop, cursor |-> Watermark,
   fence |-> 1, owner |-> w, live |-> TRUE]

EnabledRuns(w) ==
  TakeClosing(IF Matches(w)
              THEN Taken(runs, First(CaptureRuns), w)
              ELSE [FreezeCapture(runs) EXCEPT ![created + 1] = NewRun(w)], w)

\* Mutant of RunToDrain: the run that captures is processed at once.
CaptureFirst(rs) ==
  First({r \in Runs : rs[r].capture})

\* What the cutover returns: the oldest closing run before the run that captures.
RunToDrain(rs) ==
  IF Closing(rs) # {} THEN NextClosing(rs) ELSE First({r \in Runs : rs[r].capture})

\* enableOrResume
Enable(w) ==
  /\ pc[w] = "acquire" /\ mode[w] \in Config
  /\ status.fence < MaxFence
  /\ Matches(w) \/ created < MaxRuns
  /\ Transaction(
       EnableAllowed(w),
       /\ runs' = EnabledRuns(w)
       /\ created' = IF Matches(w) THEN created ELSE created + 1
       /\ status' = StatusTaken(w, "starting")
       /\ UNCHANGED applied,
       /\ claim' = [claim EXCEPT ![w] = ClaimOf(RunToDrain(runs'))]
       /\ Goto(w, IF aborted[w] THEN "leave" ELSE "backlog")
       /\ UNCHANGED work,
       Catch(w))
  /\ UNCHANGED <<feed, mode, aborted>>

\* Mutant of DisabledLifecycle: disabled although a run is still closing.
AlwaysDisabled(rs) == IF rs = rs THEN "disabled" ELSE "stopping"

DisabledLifecycle(rs) == IF Closing(rs) = {} THEN "disabled" ELSE "stopping"

\* disable: nothing refuses it.  Without a closing run there is no claim.
Disable(w) ==
  /\ pc[w] = "acquire" /\ mode[w] = Disabled
  /\ status.fence < MaxFence
  /\ Transaction(
       MayTake(w, TRUE),
       /\ runs' = TakeClosing(FreezeCapture(runs), w)
       /\ status' = StatusTaken(w, DisabledLifecycle(runs'))
       /\ UNCHANGED <<created, applied>>,
       /\ IF Closing(runs') = {}
          THEN /\ claim' = [claim EXCEPT ![w] = NoClaim]
               /\ Goto(w, IF aborted[w] THEN "leave" ELSE "quiet")
          ELSE /\ claim' = [claim EXCEPT ![w] = ClaimOf(NextClosing(runs'))]
               /\ Goto(w, IF aborted[w] THEN "leave" ELSE "backlog")
       /\ UNCHANGED work,
       Catch(w))
  /\ UNCHANGED <<feed, mode, aborted>>

-----------------------------------------------------------------------------
(* drainClaim *)

\* The abort signal is seen at the top of the loop.
DrainAborted(w) ==
  /\ pc[w] = "backlog" /\ SeesAbort(w)
  /\ Goto(w, AfterAbort(w))
  /\ UNCHANGED <<feed, db, mode, claim, work, aborted, limits>>

\* refreshBacklog, with the reconstruction of settings and boundaries before it.
RefreshBacklog(w) ==
  /\ pc[w] = "backlog" /\ ~SeesAbort(w)
  /\ Transaction(
       Holds(w) /\ Cardinality(Backlog(claim[w].run)) <= BacklogLimit,
       /\ status' = [status EXCEPT !.lifecycle = IF @ = "starting" THEN "running" ELSE @]
       /\ UNCHANGED <<runs, created, applied>>,
       Goto(w, "read") /\ UNCHANGED <<claim, work>>,
       Catch(w))
  /\ UNCHANGED <<feed, mode, aborted>>

\* The revisions the claim asks for.
Wanted(c) ==
  {p \in Positions : /\ journal[p] = c.run
                     /\ p > c.cursor
                     /\ c.stop # NoStop => p <= c.stop}

\* The first k of them are the k positions after the cursor.
Batch(c, k) ==
  /\ \A p \in (c.cursor + 1)..(c.cursor + k) : p \in Wanted(c)
  /\ k = BatchSize \/ \A p \in Wanted(c) : p <= c.cursor + k

\* Mutant of Drained: the cursor is expected beyond the stop.
DrainedPast(c) == c.state = "closing" /\ c.cursor > c.stop

\* completeIfDrained's early returns.
Drained(c) == c.state = "closing" /\ c.cursor = c.stop

\* readRevisions: a gap throws.  Nothing to read completes a drained run, or
\* waits for the poll interval and starts again.
ReadRevisions(w) ==
  LET c == claim[w] IN
  /\ pc[w] = "read"
  /\ IF Wanted(c) = {}
     THEN /\ Goto(w, IF Drained(c) THEN "complete" ELSE "backlog")
          /\ UNCHANGED work
     ELSE IF \E k \in 1..BatchSize : Batch(c, k)
          THEN \E k \in 1..BatchSize :
                 /\ Batch(c, k)
                 /\ rev' = [rev EXCEPT ![w] = c.cursor + 1]
                 /\ upto' = [upto EXCEPT ![w] = c.cursor + k]
                 /\ attempt' = [attempt EXCEPT ![w] = 1]
                 /\ Goto(w, "commit")
          ELSE Goto(w, "failing") /\ UNCHANGED work
  /\ UNCHANGED <<feed, db, mode, claim, aborted, limits>>

ReadFails(w) ==
  /\ pc[w] = "read"
  /\ Fault
  /\ Catch(w)
  /\ UNCHANGED <<feed, db, mode, aborted>>

Pending == {r \in Runs : runs[r].state = "pending" /\ runs[r].capture}

\* Mutants of Completed: the replacement is not promoted; every closing run
\* completes.
CompletedOnly(r) == [runs EXCEPT ![r].state = "completed"]
CompletedAll(r) ==
  [q \in Runs |-> IF q = r \/ runs[q].state = "closing"
                  THEN [runs[q] EXCEPT !.state = "completed"]
                  ELSE runs[q]]

\* The run completes and the oldest pending run that captures becomes active.
Completed(r) ==
  [q \in Runs |->
     IF q = r THEN [runs[q] EXCEPT !.state = "completed"]
     ELSE IF Pending # {} /\ q = First(Pending) THEN [runs[q] EXCEPT !.state = "active"]
     ELSE runs[q]]

\* completeIfDrained: drainClaim returns, and the runtime acquires again.
CompleteIfDrained(w) ==
  LET r == claim[w].run IN
  /\ pc[w] = "complete"
  /\ Transaction(
       Holds(w) /\ runs[r].state = "closing" /\ runs[r].cursor = runs[r].stop,
       /\ runs' = Completed(r)
       /\ UNCHANGED <<created, applied, status>>,
       /\ Goto(w, IF aborted[w] THEN AfterAbort(w) ELSE "acquire")
       /\ UNCHANGED <<claim, work>>,
       Catch(w))
  /\ UNCHANGED <<feed, mode, aborted>>

\* The revision is done: the next one of the batch, or the loop again.
NextRevision(w) ==
  /\ IF rev[w] = upto[w] \/ aborted[w]
     THEN /\ Goto(w, IF aborted[w] THEN AfterAbort(w) ELSE "backlog")
          /\ UNCHANGED work
     ELSE /\ rev' = [rev EXCEPT ![w] = @ + 1]
          /\ attempt' = [attempt EXCEPT ![w] = 1]
          /\ Goto(w, "commit")
          /\ UNCHANGED upto

\* Mutant of Advanced: results are stored without moving the cursor.
NotAdvanced(r, p) == IF p > 0 THEN runs ELSE [runs EXCEPT ![r].cursor = p]

Advanced(r, p) == [runs EXCEPT ![r].cursor = p]

\* process and commitRevision: the results and the cursor in one transaction.
CommitRevision(w) ==
  LET r == claim[w].run
      p == rev[w] IN
  /\ pc[w] = "commit"
  /\ Transaction(
       Holds(w) /\ runs[r].cursor = claim[w].cursor /\ p = runs[r].cursor + 1,
       /\ runs' = Advanced(r, p)
       /\ applied' = [applied EXCEPT ![p] = Append(@, r)]
       /\ status' = [status EXCEPT !.lifecycle = "running"]
       /\ UNCHANGED created,
       /\ claim' = [claim EXCEPT ![w] = ClaimOf(r)]
       /\ NextRevision(w),
       /\ Goto(w, IF attempt[w] >= MaxAttempts THEN "failing" ELSE "retry")
       /\ UNCHANGED <<claim, work>>)
  /\ UNCHANGED <<feed, mode, aborted>>

\* The wait before a retry ends because of the abort signal.
RetryAborted(w) ==
  /\ pc[w] = "retry" /\ SeesAbort(w)
  /\ Goto(w, AfterAbort(w))
  /\ UNCHANGED <<feed, db, mode, claim, work, aborted, limits>>

\* refreshClaim and classifyRevisionCommitOutcome: a cursor at the revision
\* means the failed attempt committed, a cursor beyond it is a conflict.
RefreshClaim(w) ==
  LET cursor == runs[claim[w].run].cursor IN
  /\ pc[w] = "retry" /\ ~SeesAbort(w)
  /\ Transaction(
       Holds(w),
       UNCHANGED db,
       IF cursor > rev[w]
       THEN Catch(w)
       ELSE /\ claim' = [claim EXCEPT ![w] = ClaimOf(claim[w].run)]
            /\ IF cursor = rev[w]
               THEN NextRevision(w)
               ELSE /\ attempt' = [attempt EXCEPT ![w] = @ + 1]
                    /\ Goto(w, "commit")
                    /\ UNCHANGED <<rev, upto>>,
       Catch(w))
  /\ UNCHANGED <<feed, mode, aborted>>
-----------------------------------------------------------------------------
(* Ending *)

\* The status row is still the caller's, expired or not; a process without a
\* claim compares only the owner.
OwnsStatus(w) ==
  /\ status.owner = w
  /\ claim[w] # NoClaim => status.fence = claim[w].statusFence

\* heartbeat and fail: the status claim and the claim on the process's own run
\* expire.  Any other run the process has claimed stays claimed.
Release(w, lifecycle) ==
  LET mine(r) == r = claim[w].run /\ runs[r].owner = w /\ runs[r].fence = claim[w].fence IN
  /\ IF OwnsStatus(w)
     THEN /\ status' = [status EXCEPT !.lifecycle = lifecycle, !.live = FALSE]
          /\ runs' = [r \in Runs |-> IF mine(r) THEN [runs[r] EXCEPT !.live = FALSE]
                                     ELSE runs[r]]
     ELSE UNCHANGED <<runs, status>>
  /\ UNCHANGED <<created, applied>>

\* The runtime's catch: fail records the failure, if there is a claim and the
\* database still answers, and the process ends.
Fail(w) ==
  /\ pc[w] = "failing"
  /\ \/ /\ IF claim[w] = NoClaim THEN UNCHANGED db ELSE Release(w, "failed")
        /\ UNCHANGED limits
     \/ Fault /\ UNCHANGED db
  /\ Exit(w)
  /\ UNCHANGED <<feed, mode>>

\* A disabled process with nothing to drain reports it and then waits for the
\* abort event.  An abort during the heartbeat is over by then: the listener is
\* added too late and the process stays.
ReportDisabled(w) ==
  /\ pc[w] = "quiet"
  /\ Transaction(
       TRUE,
       Release(w, "disabled"),
       Goto(w, IF aborted[w] THEN "deaf" ELSE "parked") /\ UNCHANGED <<claim, work>>,
       Catch(w))
  /\ UNCHANGED <<feed, mode, aborted>>

\* The final heartbeat.  If it fails a monitoring worker throws out of finally;
\* a disabled one goes through its catch.
Leave(w) ==
  /\ pc[w] = "leave"
  /\ \/ Release(w, "stopped") /\ Exit(w) /\ UNCHANGED limits
     \/ Release(w, "stopped") /\ Fault /\ Exit(w)
     \/ Fault /\ UNCHANGED db /\ mode[w] # Disabled /\ Exit(w)
     \/ Fault /\ UNCHANGED db /\ mode[w] = Disabled /\ Catch(w) /\ UNCHANGED aborted
  /\ UNCHANGED <<feed, mode>>

-----------------------------------------------------------------------------
(* The environment *)

\* Mutant of Admits: one revision more than the limit.
AdmitsOneMore(r) == Cardinality(Backlog(r)) <= BacklogLimit

Admits(r) == Cardinality(Backlog(r)) < BacklogLimit

\* A market-data writer commits a canonical change: with a run that captures
\* and room in its backlog it takes the next position; with no run nothing is
\* journaled, and with no room its transaction rolls back.
JournalChange ==
  /\ nextPosition <= MaxPosition
  /\ \E r \in CaptureRuns :
       /\ Admits(r)
       /\ journal' = [journal EXCEPT ![nextPosition] = r]
  /\ nextPosition' = nextPosition + 1
  /\ UNCHANGED <<db, pc, mode, claim, work, aborted, limits>>

\* SIGTERM.  A parked process hears it through its listener.
Shutdown(w) ==
  /\ pc[w] \notin {"down", "deaf"} /\ ~aborted[w]
  /\ Order
  /\ aborted' = [aborted EXCEPT ![w] = TRUE]
  /\ IF pc[w] = "parked" THEN Goto(w, "leave") ELSE UNCHANGED pc
  /\ UNCHANGED <<feed, db, mode, claim, work>>

Crash(w) ==
  /\ pc[w] # "down"
  /\ Fault
  /\ Exit(w)
  /\ UNCHANGED <<feed, db, mode>>

\* Nobody renews the status claim, or the claim on a run.
StatusUnattended == status.owner \notin {w \in Worker : pc[w] # "down"}
RunUnattended(r) ==
  runs[r].owner \notin {w \in Worker : pc[w] # "down" /\ claim[w].run = r}

\* The status claim expires; under a running process only if it stalls.
ExpireStatus ==
  /\ status.live
  /\ IF StatusUnattended THEN UNCHANGED limits ELSE Fault
  /\ status' = [status EXCEPT !.live = FALSE]
  /\ UNCHANGED <<feed, runs, created, applied, pc, mode, claim, work, aborted>>

\* The claim on a run expires; under the process working on it only if it stalls.
ExpireRun(r) ==
  /\ runs[r].live /\ runs[r].state # "completed"
  /\ IF RunUnattended(r) THEN UNCHANGED limits ELSE Fault
  /\ runs' = [runs EXCEPT ![r].live = FALSE]
  /\ UNCHANGED <<feed, created, applied, status, pc, mode, claim, work, aborted>>

\* What a process does by itself.
Step(w) ==
  \/ Enable(w) \/ Disable(w)
  \/ DrainAborted(w) \/ RefreshBacklog(w) \/ ReadRevisions(w) \/ ReadFails(w)
  \/ CompleteIfDrained(w) \/ CommitRevision(w) \/ RetryAborted(w) \/ RefreshClaim(w)
  \/ Fail(w) \/ ReportDisabled(w) \/ Leave(w)

Next ==
  \/ \E w \in Worker : Step(w) \/ Shutdown(w) \/ Crash(w)
  \/ \E w \in Worker, m \in Modes : Start(w, m)
  \/ \E r \in Runs : ExpireRun(r)
  \/ ExpireStatus
  \/ JournalChange

Spec == Init /\ [][Next]_vars

\* Processes run, a process that ended is started again, and claims that are
\* not renewed expire.  Nothing forces a writer, an operator or a failure.
Fairness ==
  /\ \A w \in Worker : WF_vars(Step(w)) /\ WF_vars(Start(w, mode[w]))
  /\ \A r \in Runs : WF_vars(RunUnattended(r) /\ ExpireRun(r))
  /\ WF_vars(StatusUnattended /\ ExpireStatus)

FairSpec == Spec /\ Fairness

-----------------------------------------------------------------------------
(* Properties *)

\* The runs cut the journal into consecutive stretches: a position belongs to a
\* run exactly when it lies after the run's start and not after its stop, runs
\* follow one another without overlap, and only the last one may be open.
JournalIsPartitioned ==
  /\ \A p \in 1..(nextPosition - 1), r \in 1..created :
       journal[p] = r <=> /\ runs[r].start < p
                          /\ runs[r].stop # NoStop => p <= runs[r].stop
  /\ \A p \in 1..(nextPosition - 1) : journal[p] \in 1..created
  /\ \A r \in 1..created : runs[r].capture <=> runs[r].stop = NoStop
  /\ \A r, s \in 1..created :
       r < s => runs[r].stop # NoStop /\ runs[r].stop <= runs[s].start

\* A position has results exactly when its run's cursor has reached it, and then
\* once and under that run's configuration: a lost commit reply followed by a
\* retry, a restart or a takeover neither repeats nor skips a revision.
AppliedExactlyOnce ==
  \A p \in Positions :
    applied[p] = IF p < nextPosition /\ p <= runs[journal[p]].cursor
                 THEN <<journal[p]>>
                 ELSE <<>>

\* A completed run has processed everything it captured.
CompletedIsDrained ==
  \A r \in Runs : runs[r].state = "completed" => runs[r].cursor = runs[r].stop

\* A run's cursor moves only after every earlier run has completed.
OrderedHandoff ==
  [][\A r \in Runs :
       runs'[r].cursor # runs[r].cursor /\ runs[r].state # "absent"
         => \A q \in 1..(r - 1) : runs[q].state = "completed"]_vars

\* The status says disabled only while nothing captures and nothing is closing.
DisabledIsQuiet ==
  status.lifecycle = "disabled" => CaptureRuns = {} /\ Closing(runs) = {}

\* A pending run always has a closing run before it, whose completion makes the
\* pending run active: no run stays pending for ever.
PendingHasPredecessor ==
  \A r \in Runs : runs[r].state = "pending" =>
    \E q \in 1..(r - 1) : runs[q].state = "closing"

\* Runs, journal, results and status agree: every captured revision belongs to
\* one run and is applied once by it, a completed run has nothing left, a
\* pending one will be promoted, and disabled means that nothing is at work
\* (enableOrResume, disable, commitRevision, completeIfDrained).
RunsAreAccountedFor ==
  /\ JournalIsPartitioned /\ AppliedExactlyOnce
  /\ CompletedIsDrained /\ PendingHasPredecessor /\ DisabledIsQuiet

\* The journal and the workers implement the queue that delivers every position
\* once and in order.
Queue == INSTANCE RevisionQueue WITH
  produced  <- nextPosition - 1,
  delivered <- {p \in Positions : applied[p] # <<>>}
ImplementsQueue == Queue!QueueSpec

\* The process's configuration is refused for as long as a run is closing, and
\* nobody else drains that run.
Refused(w) ==
  /\ mode[w] \in Config
  /\ CaptureRuns # {} /\ ~Matches(w)
  /\ Closing(runs) # {}

\* Every captured revision is processed in the end, unless the deployed
\* configuration is one the worker refuses while an earlier run is closing.
RevisionsAreProcessed ==
  \A p \in Positions :
    p < nextPosition ~> (applied[p] # <<>> \/ \E w \in Worker : Refused(w) \/ pc[w] = "deaf")

\* A frozen run is drained and completed in the end, with the same exception.
ClosingCompletes ==
  \A r \in Runs :
    runs[r].state = "closing"
      ~> (runs[r].state = "completed" \/ \E w \in Worker : Refused(w) \/ pc[w] = "deaf")

\* A monitoring worker that was told to stop ends.
MonitorStops ==
  \A w \in Worker : (aborted[w] /\ mode[w] \in Config) ~> pc[w] = "down"

\* What was begun is finished: revisions are processed, frozen runs complete,
\* and a monitoring worker told to stop ends (runSignalsRuntime).
WorkIsFinished == RevisionsAreProcessed /\ ClosingCompletes /\ MonitorStops

\* A worker that was told to stop ends, in either mode.
WorkerStops == \A w \in Worker : aborted[w] ~> pc[w] = "down"

\* A replacement becomes active only when the runs before it have completed.
ActiveAfterHandoff ==
  \A r \in Runs : runs[r].state = "active" =>
    \A q \in 1..(r - 1) : runs[q].state = "completed"
=============================================================================
