---------------------------- MODULE PortfolioSync ----------------------------
(***************************************************************************)
(* The portfolio worker: one fenced lease row, append-only synchronization *)
(* runs and the selected current snapshot, all in PostgreSQL, driven by    *)
(* any number of overlapping worker processes.                             *)
(*                                                                         *)
(* A member of Workers is one process: its owner id is a fresh UUID, it    *)
(* acquires the lease once, and a restarted worker is another member.      *)
(* Every database call has three outcomes: it commits, it fails without    *)
(* effect, or it commits and the acknowledgement is lost.  The lease clock *)
(* is the database's, counted down by Tick.                                *)
(***************************************************************************)
EXTENDS Naturals

CONSTANTS
  Workers,      \* worker processes, one per start
  AccountOf,    \* the account each process is configured for
  MaxCycles,    \* bound: cycles one process may begin
  LeaseTicks,   \* lease duration in clock ticks
  NoWorker,     \* SQL NULL in owner_id
  NoRun         \* no row in portfolio_current_snapshot

ASSUME MaxCyclesAssumption  == MaxCycles \in Nat \ {0}
ASSUME LeaseTicksAssumption == LeaseTicks \in Nat \ {0}
ASSUME NoWorkerAssumption   == NoWorker \notin Workers

\* The n-th run a process creates; run ids are UUIDs in the code.
RunIds == Workers \X (1..MaxCycles)

ASSUME NoRunAssumption == NoRun \notin RunIds

VARIABLES
  owner,          \* portfolio_worker_status.owner_id
  fenceToken,     \* portfolio_worker_status.fence_token
  leaseTtl,       \* ticks until lease_expires_at; 0 when expired or not held
  lifecycle,      \* portfolio_worker_status.lifecycle
  failureCode,    \* TRUE iff portfolio_worker_status.failure_code is set
  runs,           \* portfolio_sync_runs
  current,        \* portfolio_current_snapshot.sync_run_id
  phase,          \* where each process is in runPortfolioRuntime
  fence,          \* the fence token in the process's lease, 0 before it has one
  cycle,          \* how many runs the process has inserted
  previous,       \* what readCurrentSnapshot returned in this cycle
  retryable,      \* class of the failure the process is handling
  aborted,        \* its shutdown signal is set
  renewalFailed,  \* renewalFailure is set
  fatal           \* fatalCode is set

statusVars == <<owner, fenceToken, leaseTtl, lifecycle, failureCode>>
procVars   == <<fence, cycle, previous, retryable, aborted, renewalFailed, fatal>>
memoryVars == <<previous, retryable, aborted, renewalFailed, fatal>>
vars == <<owner, fenceToken, leaseTtl, lifecycle, failureCode, runs, current,
          phase, fence, cycle, previous, retryable, aborted, renewalFailed, fatal>>

Lifecycles == {"disabled", "starting", "running", "degraded", "stopped", "failed"}
RunStates  == {"absent", "pending", "completed", "failed"}
Phases     == {"idle", "sweeping", "loop", "reading", "capturing", "completing",
               "promoting", "failing", "waiting", "stopping", "exited"}

Run == [state : RunStates, fence : Nat, previous : RunIds \cup {NoRun}]
NoRow == [state |-> "absent", fence |-> 0, previous |-> NoRun]

TypeOK ==
  /\ owner \in Workers \cup {NoWorker}
  /\ fenceToken \in Nat
  /\ leaseTtl \in 0..LeaseTicks
  /\ lifecycle \in Lifecycles
  /\ failureCode \in BOOLEAN
  /\ runs \in [RunIds -> Run]
  /\ current \in RunIds \cup {NoRun}
  /\ phase \in [Workers -> Phases]
  /\ fence \in [Workers -> Nat]
  /\ cycle \in [Workers -> 0..MaxCycles]
  /\ previous \in [Workers -> RunIds \cup {NoRun}]
  /\ retryable \in [Workers -> BOOLEAN]
  /\ aborted \in [Workers -> BOOLEAN]
  /\ renewalFailed \in [Workers -> BOOLEAN]
  /\ fatal \in [Workers -> BOOLEAN]

Init ==
  /\ owner = NoWorker
  /\ fenceToken = 0
  /\ leaseTtl = 0
  /\ lifecycle = "disabled"
  /\ failureCode = FALSE
  /\ runs = [r \in RunIds |-> NoRow]
  /\ current = NoRun
  /\ phase = [w \in Workers |-> "idle"]
  /\ fence = [w \in Workers |-> 0]
  /\ cycle = [w \in Workers |-> 0]
  /\ previous = [w \in Workers |-> NoRun]
  /\ retryable = [w \in Workers |-> FALSE]
  /\ aborted = [w \in Workers |-> FALSE]
  /\ renewalFailed = [w \in Workers |-> FALSE]
  /\ fatal = [w \in Workers |-> FALSE]

-----------------------------------------------------------------------------
(* Helpers *)

\* Mutant of HoldsLease: the owner and the fence are not compared.
HoldsSomeLease(w) == w \in Workers /\ owner # NoWorker /\ leaseTtl > 0

\* requireLease: the row still names this owner and fence and has not expired.
HoldsLease(w) ==
  /\ owner = w
  /\ fenceToken = fence[w]
  /\ leaseTtl > 0

MyRun(w) == <<w, cycle[w]>>

\* The run is still pending and carries this process's claim.
OwnsPending(w) ==
  /\ cycle[w] > 0
  /\ runs[MyRun(w)].state = "pending"
  /\ runs[MyRun(w)].fence = fence[w]

Goto(w, p) == phase' = [phase EXCEPT ![w] = p]

\* The process ends: what it held in memory is gone.  Its fence and cycle stay
\* in the state because its rows still carry them.
Exit(w) ==
  /\ Goto(w, "exited")
  /\ previous' = [previous EXCEPT ![w] = NoRun]
  /\ retryable' = [retryable EXCEPT ![w] = FALSE]
  /\ aborted' = [aborted EXCEPT ![w] = FALSE]
  /\ renewalFailed' = [renewalFailed EXCEPT ![w] = FALSE]
  /\ fatal' = [fatal EXCEPT ![w] = FALSE]

\* A step of synchronizeOnce failed: record its class and go to failSync.
Fail(w, canRetry) ==
  /\ Goto(w, "failing")
  /\ retryable' = [retryable EXCEPT ![w] = canRetry]

\* synchronizeOnce returns or throws: its local variables are gone.
EndCycle(w, p) ==
  /\ Goto(w, p)
  /\ previous' = [previous EXCEPT ![w] = NoRun]
  /\ retryable' = [retryable EXCEPT ![w] = FALSE]

\* The loop's catch: an aborted worker breaks, a retryable failure waits for
\* the next interval, any other one ends the process.
CycleFailed(w, canRetry) ==
  /\ EndCycle(w, IF canRetry /\ ~aborted[w] THEN "waiting" ELSE "stopping")
  /\ fatal' = [fatal EXCEPT ![w] = ~canRetry /\ ~aborted[w]]

\* Mutant of TimerRuns: the timer is not cleared when the process ends.
TimerNeverCleared(w) == phase[w] \notin {"idle", "sweeping"}

\* Phases between the start and the end of the renewal timer.
TimerRuns(w) == phase[w] \in Phases \ {"idle", "sweeping", "exited"}

-----------------------------------------------------------------------------
(* Start: acquireLease is two statements, each its own transaction *)

LeaseIsFree(w) == owner = NoWorker \/ leaseTtl = 0 \/ owner = w

AcquireLease(w, acknowledged) ==
  /\ phase[w] = "idle"
  /\ LeaseIsFree(w)
  /\ owner' = w
  /\ fenceToken' = fenceToken + 1
  /\ leaseTtl' = LeaseTicks
  /\ lifecycle' = IF failureCode THEN "degraded" ELSE "starting"
  /\ fence' = [fence EXCEPT ![w] = fenceToken + 1]
  /\ \/ acknowledged /\ Goto(w, "sweeping") /\ UNCHANGED memoryVars
     \/ ~acknowledged /\ Exit(w)
  /\ UNCHANGED <<failureCode, runs, current, cycle>>

\* The lease is owned by another process, or the statement failed.
AcquireRefused(w) ==
  /\ phase[w] = "idle"
  /\ Exit(w)
  /\ UNCHANGED <<statusVars, runs, current, fence, cycle>>

\* Mutants of Sweepable: other owners' runs are missed; complete runs are closed.
SweepableOwnRunsOnly(w, r) ==
  runs[r].state = "pending" /\ r[1] = w /\ runs[r].fence < fence[w]
SweepableAnyState(w, r) ==
  runs[r].state # "absent" /\ (r[1] # w \/ runs[r].fence < fence[w])

\* Runs of another owner or of an older fence are closed as worker_restarted.
Sweepable(w, r) ==
  /\ runs[r].state = "pending"
  /\ r[1] # w \/ runs[r].fence < fence[w]

SweepOlderRuns(w, acknowledged) ==
  /\ phase[w] = "sweeping"
  /\ runs' = [r \in RunIds |-> IF Sweepable(w, r)
                               THEN [runs[r] EXCEPT !.state = "failed"]
                               ELSE runs[r]]
  /\ \/ acknowledged /\ Goto(w, "loop") /\ UNCHANGED memoryVars
     \/ ~acknowledged /\ Exit(w)
  /\ UNCHANGED <<statusVars, current, fence, cycle>>

\* The second statement failed: acquireLease throws and the row stays owned.
SweepFails(w) ==
  /\ phase[w] = "sweeping"
  /\ Exit(w)
  /\ UNCHANGED <<statusVars, runs, current, fence, cycle>>

-----------------------------------------------------------------------------
(* One cycle: the top of the loop and synchronizeOnce *)

\* Mutant of MustStop: a shutdown is noticed only together with a failed renewal.
MustStopOnBoth(w) == aborted[w] /\ renewalFailed[w]

\* The loop condition and its first test.
MustStop(w) == aborted[w] \/ renewalFailed[w]

LeaveLoop(w) ==
  /\ phase[w] = "loop"
  /\ MustStop(w)
  /\ Goto(w, "stopping")
  /\ fatal' = [fatal EXCEPT ![w] = ~aborted[w]]
  /\ UNCHANGED <<statusVars, runs, current, fence, cycle, previous, retryable,
                 aborted, renewalFailed>>

MayBegin(w) == phase[w] = "loop" /\ ~aborted[w] /\ ~renewalFailed[w]

\* Mutant of Superseded: beginSync closes only runs of older fences.
SupersededOlderFence(w, r) ==
  runs[r].state = "pending" /\ r[1] = w /\ runs[r].fence < fence[w]

\* Pending runs of this claim are closed as superseded_retry.
Superseded(w, r) ==
  runs[r].state = "pending" /\ r[1] = w /\ runs[r].fence = fence[w]

\* A lost acknowledgement throws before the try block: no failSync, the run
\* stays pending until the next beginSync or the next owner closes it.
BeginSync(w, acknowledged) ==
  LET new == <<w, cycle[w] + 1>> IN
  /\ MayBegin(w)
  /\ HoldsLease(w)
  /\ cycle[w] < MaxCycles
  /\ runs' = [r \in RunIds |->
       IF r = new THEN [state |-> "pending", fence |-> fence[w], previous |-> NoRun]
       ELSE IF Superseded(w, r) THEN [runs[r] EXCEPT !.state = "failed"]
       ELSE runs[r]]
  /\ lifecycle' = IF failureCode THEN "degraded" ELSE "running"
  /\ cycle' = [cycle EXCEPT ![w] = @ + 1]
  /\ Goto(w, IF acknowledged THEN "reading" ELSE "waiting")
  /\ UNCHANGED <<owner, fenceToken, leaseTtl, failureCode, current, fence,
                 previous, retryable, aborted, renewalFailed, fatal>>

BeginFenced(w) ==
  /\ MayBegin(w)
  /\ ~HoldsLease(w)
  /\ CycleFailed(w, FALSE)
  /\ UNCHANGED <<statusVars, runs, current, fence, cycle, aborted, renewalFailed>>

BeginFails(w) ==
  /\ MayBegin(w)
  /\ CycleFailed(w, TRUE)
  /\ UNCHANGED <<statusVars, runs, current, fence, cycle, aborted, renewalFailed>>

ReadCurrentSnapshot(w) ==
  /\ phase[w] = "reading"
  /\ previous' = [previous EXCEPT ![w] = current]
  /\ Goto(w, "capturing")
  /\ UNCHANGED <<statusVars, runs, current, fence, cycle, retryable, aborted,
                 renewalFailed, fatal>>

\* classifyPortfolioSnapshotDelta refuses a previous snapshot of another account.
SameAccount(w) ==
  previous[w] # NoRun => AccountOf[previous[w][1]] = AccountOf[w]

\* The provider returned every page and each receipt was persisted, which needs
\* the lease and a pending run; both reconciliations and the delta succeed.
CaptureSnapshot(w) ==
  /\ phase[w] = "capturing"
  /\ HoldsLease(w)
  /\ runs[MyRun(w)].state = "pending"
  /\ SameAccount(w)
  /\ Goto(w, "completing")
  /\ UNCHANGED <<statusVars, runs, current, procVars>>

\* completeSync starts: candidate rows are written under a lease check that
\* takes no lock; they stay invisible until the promotion commits.
WriteCandidate(w) ==
  /\ phase[w] = "completing"
  /\ HoldsLease(w)
  /\ runs[MyRun(w)].state = "pending"
  /\ Goto(w, "promoting")
  /\ UNCHANGED <<statusVars, runs, current, procVars>>

\* Any of these steps may fail: provider, database, integrity, shutdown, lease.
StepFails(w) ==
  /\ phase[w] \in {"reading", "capturing", "completing", "promoting"}
  /\ \E canRetry \in BOOLEAN : Fail(w, canRetry)
  /\ UNCHANGED <<statusVars, runs, current, fence, cycle, previous, aborted,
                 renewalFailed, fatal>>

\* completeSync ends: under the lease row lock the run completes, the pointer
\* moves and the status row is cleared, in one commit whose deferred trigger
\* checks the claim again.
Promote(w, acknowledged) ==
  /\ phase[w] = "promoting"
  /\ HoldsLease(w)
  /\ OwnsPending(w)
  /\ runs' = [runs EXCEPT ![MyRun(w)] =
                [@ EXCEPT !.state = "completed", !.previous = previous[w]]]
  /\ current' = MyRun(w)
  /\ lifecycle' = "running"
  /\ failureCode' = FALSE
  /\ \/ acknowledged /\ EndCycle(w, "waiting")
     \/ ~acknowledged /\ Fail(w, TRUE) /\ UNCHANGED previous
  /\ UNCHANGED <<owner, fenceToken, leaseTtl, fence, cycle, aborted,
                 renewalFailed, fatal>>

PromoteFenced(w) ==
  /\ phase[w] = "promoting"
  /\ ~(HoldsLease(w) /\ OwnsPending(w))
  /\ Fail(w, FALSE)
  /\ UNCHANGED <<statusVars, runs, current, fence, cycle, previous, aborted,
                 renewalFailed, fatal>>

FailSync(w) ==
  /\ phase[w] = "failing"
  /\ HoldsLease(w)
  /\ OwnsPending(w)
  /\ runs' = [runs EXCEPT ![MyRun(w)].state = "failed"]
  /\ lifecycle' = "degraded"
  /\ failureCode' = TRUE
  /\ CycleFailed(w, retryable[w])
  /\ UNCHANGED <<owner, fenceToken, leaseTtl, current, fence, cycle, aborted,
                 renewalFailed>>

\* claim_lost replaces the failure being handled, and is not retryable.
FailSyncFenced(w) ==
  /\ phase[w] = "failing"
  /\ ~(HoldsLease(w) /\ OwnsPending(w))
  /\ CycleFailed(w, FALSE)
  /\ UNCHANGED <<statusVars, runs, current, fence, cycle, aborted, renewalFailed>>

\* Another persistence error is only logged; the run stays pending.
FailSyncUnpersisted(w) ==
  /\ phase[w] = "failing"
  /\ CycleFailed(w, retryable[w])
  /\ UNCHANGED <<statusVars, runs, current, fence, cycle, aborted, renewalFailed>>

Wait(w) ==
  /\ phase[w] = "waiting"
  /\ Goto(w, "loop")
  /\ UNCHANGED <<statusVars, runs, current, procVars>>

-----------------------------------------------------------------------------
(* The renewal timer, shutdown, release, crash and the clock *)

\* Mutant of RenewedTtl: the lease is prolonged from its old expiry.
RenewedFromExpiry == leaseTtl + LeaseTicks

\* A renewed lease expires one lease duration after the database's now.
RenewedTtl == LeaseTicks

RenewLease(w) ==
  /\ TimerRuns(w)
  /\ HoldsLease(w)
  /\ leaseTtl' = RenewedTtl
  /\ UNCHANGED <<owner, fenceToken, lifecycle, failureCode, runs, current,
                 phase, procVars>>

\* Not renewed, or the database failed: noticed only at the top of the loop.
RenewFails(w) ==
  /\ TimerRuns(w)
  /\ ~renewalFailed[w]
  /\ renewalFailed' = [renewalFailed EXCEPT ![w] = TRUE]
  /\ UNCHANGED <<statusVars, runs, current, phase, fence, cycle, previous,
                 retryable, aborted, fatal>>

Shutdown(w) ==
  /\ phase[w] \notin {"idle", "exited"}
  /\ ~aborted[w]
  /\ aborted' = [aborted EXCEPT ![w] = TRUE]
  /\ UNCHANGED <<statusVars, runs, current, phase, fence, cycle, previous,
                 retryable, renewalFailed, fatal>>

\* Mutant of FailureAfterRelease: the release overwrites an earlier failure.
FailureOfRelease(w) == fatal[w]

\* COALESCE(fatalCode, failure_code)
FailureAfterRelease(w) == failureCode \/ fatal[w]

\* releaseLease checks owner and fence but not expiry, and ignores a miss.
ReleaseLease(w) ==
  /\ phase[w] = "stopping"
  /\ Exit(w)
  /\ IF owner = w /\ fenceToken = fence[w]
     THEN /\ owner' = NoWorker
          /\ leaseTtl' = 0
          /\ lifecycle' = IF fatal[w] THEN "failed"
                          ELSE IF failureCode THEN "degraded" ELSE "stopped"
          /\ failureCode' = FailureAfterRelease(w)
          /\ UNCHANGED fenceToken
     ELSE UNCHANGED statusVars
  /\ UNCHANGED <<runs, current, fence, cycle>>

\* The process dies, or its pool is destroyed at the shutdown deadline.
Crash(w) ==
  /\ phase[w] \notin {"idle", "exited"}
  /\ Exit(w)
  /\ UNCHANGED <<statusVars, runs, current, fence, cycle>>

Tick ==
  /\ leaseTtl > 0
  /\ leaseTtl' = leaseTtl - 1
  /\ UNCHANGED <<owner, fenceToken, lifecycle, failureCode, runs, current,
                 phase, procVars>>

-----------------------------------------------------------------------------
Start(w) ==
  \/ \E acknowledged \in BOOLEAN : AcquireLease(w, acknowledged)
  \/ AcquireRefused(w)

Work(w) ==
  \/ \E acknowledged \in BOOLEAN : SweepOlderRuns(w, acknowledged)
  \/ SweepFails(w)
  \/ LeaveLoop(w)
  \/ \E acknowledged \in BOOLEAN : BeginSync(w, acknowledged)
  \/ BeginFenced(w)
  \/ BeginFails(w)
  \/ ReadCurrentSnapshot(w)
  \/ CaptureSnapshot(w)
  \/ WriteCandidate(w)
  \/ StepFails(w)
  \/ \E acknowledged \in BOOLEAN : Promote(w, acknowledged)
  \/ PromoteFenced(w)
  \/ FailSync(w)
  \/ FailSyncFenced(w)
  \/ FailSyncUnpersisted(w)
  \/ Wait(w)
  \/ ReleaseLease(w)

Environment(w) ==
  \/ RenewLease(w)
  \/ RenewFails(w)
  \/ Shutdown(w)
  \/ Crash(w)

Next ==
  \/ \E w \in Workers : Start(w) \/ Work(w) \/ Environment(w)
  \/ Tick

Spec == Init /\ [][Next]_vars

\* Every awaited call of a live process settles (statement and request
\* timeouts), and the database clock advances.
FairSpec == Spec /\ WF_vars(Tick) /\ \A w \in Workers : WF_vars(Work(w))

-----------------------------------------------------------------------------
(* Properties *)

\* Once the holder of the current lease is past its sweep, every pending run
\* carries its claim: an interrupted cycle of an earlier owner is never left
\* open beside the new owner's work.
NoOrphanBehindOwner ==
  \A w \in Workers :
    (owner = w /\ phase[w] \notin {"idle", "sweeping", "exited"}) =>
      \A r \in RunIds : runs[r].state = "pending" => r[1] = w

\* One claim never has two pending runs: a beginSync whose acknowledgement was
\* lost, or a failSync that was not persisted, is closed by the next beginSync.
OnePendingPerClaim ==
  \A r, s \in RunIds :
    (runs[r].state = "pending" /\ runs[s].state = "pending" /\ r[1] = s[1]) => r = s

\* The pending runs are those of live work: none is left over beside the
\* owner's, and no process has two (acquireLease, beginSync).
PendingIsOwned == NoOrphanBehindOwner /\ OnePendingPerClaim

\* The selected snapshot is the newest completed run: no completed run has a
\* later fence, or the same fence and a later cycle.
CurrentIsNewest ==
  \A r \in RunIds :
    runs[r].state = "completed" =>
      /\ current # NoRun
      /\ runs[current].state = "completed"
      /\ \/ runs[r].fence < runs[current].fence
         \/ r[1] = current[1] /\ r[2] =< current[2]

\* The pointer moves only to a run whose recorded predecessor is the snapshot
\* being replaced and belongs to the same account, although the predecessor was
\* read in an earlier transaction than the promotion.
PromotionExtendsCurrent ==
  [][current' # current =>
       /\ current' # NoRun
       /\ runs[current'].state = "pending"
       /\ runs'[current'].previous = current
       /\ current # NoRun => AccountOf[current[1]] = AccountOf[current'[1]]]_vars

\* The worker implements the abstract chain: complete runs only accumulate, and
\* each is linked to the snapshot it replaced.
Chain == INSTANCE SnapshotChain WITH
  completed <- {r \in RunIds : runs[r].state = "completed"},
  head <- current,
  link <- [r \in RunIds |-> runs[r].previous]

ImplementsChain == Chain!ChainSpec

\* Snapshot history never forks: a stale process that read the pointer before a
\* takeover cannot attach a second successor to it.
HistoryIsLinear == Chain!LinearHistory

\* What a reader of the tables sees is the abstract status row: no takeover,
\* stale process or lost acknowledgement shows it in a mix of two states.
StatusRow == INSTANCE PortfolioStatus WITH
  Snapshots <- RunIds,
  promoted <- {r \in RunIds : runs[r].state = "completed"},
  live <- leaseTtl > 0

ImplementsStatus == StatusRow!StatusSpec

\* A failure shown in the status row stays visible through restarts, releases
\* and takeovers until a complete cycle replaces the current snapshot.
FailureVisibleUntilPromotion ==
  [][failureCode /\ ~failureCode' => current' # current]_vars

\* A process told to shut down ends, whatever the provider and the database do.
ShutdownTerminates ==
  \A w \in Workers : aborted[w] ~> phase[w] = "exited"

\* A lease whose holder is gone does not stay in force.
DeadLeaseEnds ==
  \A w \in Workers :
    (owner = w /\ phase[w] = "exited") ~> (owner # w \/ leaseTtl = 0)

\* Neither a process that should end nor the claim of a dead one stays
\* (runPortfolioWorker, the lease's expiry).
ShutdownsAndClaimsEnd == ShutdownTerminates /\ DeadLeaseEnds

-----------------------------------------------------------------------------
(* Claims of the documents that the code does not keep *)

\* Only its own process ends the cycle of the process that holds the lease.
\* A stale acquirer's delayed sweep breaks it.
LiveCycleIsLeftAlone ==
  [][\A r \in RunIds :
       (/\ runs[r].state = "pending" /\ runs'[r].state = "failed"
        /\ HoldsLease(r[1]))
       => phase'[r[1]] # phase[r[1]]]_vars
=============================================================================
