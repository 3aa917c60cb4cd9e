# A verification of daily-trader

This directory holds TLA+ models of daily-trader, the TLC configurations that
check them on small instances, and proofs checked by TLAPS. The reference is the
source tree; `PROJECT.json` maps every definition to the lines it models.

## 1. Inventory

daily-trader watches a paper brokerage account and a market-data feed, derives
signals, and shows them. It places no orders. It consists of three long-running
workers, an HTTP API, a web page and PostgreSQL and Redis between them.

| component | state | operations | hard behaviour |
|---|---|---|---|
| Portfolio worker (`workers/portfolio`) | status row with owner, fence and lease; append-only runs; the selected snapshot; per-process loop state | acquire, sweep, begin, read, capture, promote, fail, renew, release | overlapping processes, lost replies, lease expiry in the middle of a cycle, crash |
| Portfolio capture (`providers/alpaca`, `normalization`) | pages, cursors, receipts of one cycle | fetch a page, retry, persist a receipt, time out | an account that changes between pages, a deadline racing an answer, one failure aborting parallel reads |
| Portfolio arithmetic (`packages/portfolio`) | none | project, reconcile, classify a delta | honest observations of different moments called a mismatch |
| Ingestion repository (`workers/market-data/src/persistence`) | ledger of events, canonical bars, revision journal and its counter, producer sessions and capabilities | persist an entry, open, renew and close a session | concurrent writers, capability expiring before commit |
| Signal worker (`workers/signals`) | capture runs, claims with fences, cursor, stop position, status lease | enable or resume, audit the writers, disable, drain, commit a revision, complete | rollover while changes arrive, uncertain commits, two processes |
| Signal rules and store (`packages/signals`, `signal-store.ts`) | evaluations and transitions of a run | evaluate, transition | late bars, corrections, a window across a boundary |
| Redis delivery (`delivery/redis-stream.ts`, `paper-runtime.ts`) | stream, pending entries, in-flight counter | publish, claim idle entries, read, handle, acknowledge, drain | redelivery, lost replies, shutdown with undelivered entries |
| Stream supervisor and websocket session | connection state, attempt number, bar queue, timers | connect, authenticate, subscribe, watch, back off, stop | reconnection racing shutdown, callbacks that outlive their session |
| Bar classification (`packages/market-data`) | none | timeliness, ordering, canonical precedence | order of arrival |
| Replay | recordings, target rows | project, claim, associate, complete, compare | restart between two associations, two replays of one target |
| API | none | read the selected snapshot | reads split over several statements and connections |
| Web, configuration, domain values, observability, scripts | none | decode, parse, validate, format | none beyond data conversion |

How they interact. Providers push bars into the market-data process over a
websocket; the process publishes each bar to a Redis stream and consumes the
stream itself, so that a bar is acknowledged only after its PostgreSQL
transaction. That transaction decides whether the bar becomes canonical and, while
a signal run captures, appends a revision to the journal; it commits only under
the live capability of its session. The signal worker owns runs, each a stretch of
the journal, and processes them in order. The portfolio worker shares only the
database with the others, and the API reads what it selects. All coordination is
through rows, advisory locks, fences and leases; processes of the same kind may
overlap during deployments, crash, stall past their lease, or lose the reply to a
commit.

The properties that make each part correct, in words:

- portfolio: complete snapshots of all processes form one chain, the selected one
  is the newest, a dead cycle never stays pending behind a live owner, a failure
  stays visible until a complete cycle follows it, a stopped process ends;
- capture: no fill falls between two windows, no order is missed, an honest
  broker is not called malformed, no page of a failed attempt enters a snapshot;
- ingestion: the canonical bar is the greatest stored event by receipt time and
  id, the journal reproduces the canonical bars, gap rows agree with the bars;
- writers: no incompatible writer stays open under a capturing run, a writer whose
  lease is lost commits nothing, transactions never wait for each other in a circle;
- signal runs: every captured revision is processed once, in order, by the run
  that captured it; completed means drained; disabled means nothing captures;
- signals: whatever the order of arrival, the current evaluations are those of one
  pass over all bars; nothing that needed hindsight is called on time;
- delivery: nothing acknowledged is unpersisted, nothing persisted is repeated,
  no session is closed over an unpersisted entry, a pending entry that was trimmed
  away fails the loop that finds it, stopping ends;
- stream: at most one connection, always watched by a timer; bars in order; a bar
  that could not be published ends the stream; stop always closes what was opened;
- replay and API: the same recording gives the same results; an answer called
  fresh is, and no answer shows what was replaced before it was asked for.

## 2. Plan

| order | module | about | state |
|---|---|---|---|
| 1 | `SnapshotChain`, `PortfolioStatus`, `PortfolioSync` | the two abstract views of the portfolio tables, the portfolio worker | modelled, checked, proved |
| 2 | `RevisionQueue`, `SignalRuns` | the abstract queue, journal and signal worker | modelled, checked, proved |
| 3 | `WriterCapability` | registration, renewal, expiry before commit, retirement, the cutover's audit, lock order | modelled, checked, proved |
| 4 | `MarketDelivery` | Redis delivery and the runtime's shutdown | modelled, checked, proved |
| 5 | `CanonicalJournal` | `persistEntry` against writers and cutovers | modelled, checked, proved |
| 6 | `ConnectionLifecycle`, `MarketStream` | supervisor, adapter and websocket session | modelled, checked, proved |
| 7 | `PortfolioSnapshot`, `PortfolioCapture` | normalization and reconciliation; pages, parallel reads, retries | modelled, checked, proved |
| 8 | `SignalRules`, `SignalProcessing` | windows, evaluation, transitions; one run's results | modelled, checked, proved |
| 9 | `SignalReplay` | replay into a target | modelled, checked, proved |
| 10 | `PortfolioReads` | the API over the portfolio tables | modelled, checked, proved |
| 11 | proof of `CaptureIsJudgedRight` | what an honest capture says of its own consistency | proved |
| 12 | `ReplayCatalogue` | the market-data replay into ingestion sessions | to do |

Composition. `PortfolioReads` composes the API with `PortfolioStatus`, which
`PortfolioSync` is shown to implement, so that its workers do what the real ones
can. `SignalProcessing` and `SignalReplay` extend the same `SignalRules`, as the code
uses one package for both. `PortfolioCapture` extends `PortfolioSnapshot`.
`CanonicalJournal` contains the cutover of `SignalRuns` reduced to its effect on
`capture_active`; `SignalRuns` contains the writer reduced to its effect on the
counter; `WriterCapability` has the locks and leases of both and none of the data.

## 3. The modules

Each module names its state after the columns and variables of the code and its
actions after the functions. `PROJECT.json` gives the lines of every definition.

### PortfolioSync, SnapshotChain, PortfolioStatus

A member of `Workers` is one process. The variables are the status row (`owner`,
`fenceToken`, `leaseTtl`, `lifecycle`, `failureCode`), the runs and the pointer to
the current one, and per process its place in the loop of `runtime.ts`
(`phase`), its claim, its timer, its stop request. Each awaited database call
is an action with the outcomes committed, failed without effect, and committed
with the reply lost. Acquisition and the sweep of older runs are two actions, as
they are two autocommitted statements. The database clock is `Tick`; a lease is
valid while `leaseTtl` is positive. The provider and the content of a snapshot
are abstracted to success or failure of `CaptureSnapshot`.

`SnapshotChain` promises that selecting a snapshot links it to the head it
replaces. `PortfolioSync` implements it with completed runs, pointer and links as
the mapping (`ImplementsChain`); `ChainIsLinear` shows that such a chain
never forks, and the refinement carries that to the worker (`HistoryIsLinear`).
`PortfolioStatus` is the second view, the status row as a reader sees it: every
transaction of every process is one of its seven steps (`ImplementsStatus`).

### PortfolioCapture, PortfolioSnapshot

One worker's cycles. The broker account places, fills and cancels orders at any
moment; `Answer` serves one page of one resource from the account as it is then,
`AnswerFails` gives it a failure class. Positions, orders and fills are read side
by side after the account; `RecordReceipt` writes the receipt that has to be
persisted before the answer counts; the first failure aborts the siblings, whose
settlement is awaited before the attempt ends (`CollectionsSettled`); `Deadline`
aborts the attempt, `ShutdownSignal` everything. `RetryDelayEnds` repeats a retryable
attempt. A capture that passes goes through `PortfolioSnapshot`: normalization of
raw pages (`NormalizeCapture`), the contract's uniqueness checks, reconciliation of the
four resources, and the delta to the previous snapshot. A run is stored whole or
not at all; what the database and other workers add is in `PortfolioSync`.

An asset stands for symbol, instrument and fingerprints; prices that only pass
through are left out. The overlap of two fill windows and the page size are
parameters. Identity and instrument of a fill follow the positions of the capture
that returned it, as in the code (section 5).

### PortfolioReads

A request selects the current snapshot in one statement and then reads the
resources in parallel statements, each of which waits for a connection of the pool
(`Grant`), runs and returns, fails or dies. `Disconnect` is the client that goes
away (the dashboard after five seconds): waiting statements are dropped, running
ones cancelled. The answer is judged from the status row read with the selection
and from counts of later statements, which is what `AnswersAreSound` is about. A
request is used once; walking pages with several requests is not modelled, nor are
the ages, coverage checks and wording of an answer. `ConnectFails` is the timeout of
`pool.connect`: it takes its own waiter out of the queue, wherever that is, and no
other.

### SignalRuns, RevisionQueue

A member of `Worker` is a process slot; each start has a new owner id, which
`Start` models by renaming the rows of the slot's earlier process to `Nobody`. A
run has its state, capture flag, start, stop, cursor, fence and claim. The actions
are the transactions of the repository (`Enable`, `Disable`, `RefreshBacklog`,
`ReadRevisions`, `CommitRevision`, `CompleteIfDrained`, `RefreshClaim`, heartbeat
and failure) and the control flow of `runtime.ts` between them, with the batch a
process still holds in `work`. `JournalChange` is the writer: it appends a
position for the capturing run unless the backlog is at its limit.

Simplifications: `enableOrResume` is one step (the module header says why that is
sound); the claim that disabling processes take from each other by force is
excluded; a transaction in flight when its process dies is either rolled back or
counts as a commit whose reply is lost; the results of a revision are one record
of its position. `RevisionQueue` promises that every allocated position is
delivered once and in order, and knows nothing of runs.

### WriterCapability

The handshake between writers and the signal worker. A process opens an ingestion
session together with a leased capability (`CommitOpen`), renews it by a heartbeat
while its provider runs, persists canonical changes, and retires the capability
when it closes the session; one that crashed or cannot drain leaves the session
open. A cutover begins, replaces or ends the capture and audits the open writers.
Every transaction takes the locks of its `Plan` one by one and sees the time of
its own beginning as `CURRENT_TIMESTAMP`; the heartbeat waits for none of them.
The deferred trigger and the commit are one step. Row locks on sessions are always
taken after a series lock and are left out, as is the contract version, the same
everywhere. Sessions from before the migration exist only initially. An opening
interrupted by an abort is `CommitOpen` followed by `Fail`.

### CanonicalJournal

Here `persistEntry` is taken apart: `Begin` waits for the series lock, `Decide`
reads ledger, bars and gap rows and computes classification, gap assessment and
transition, `Journal` waits for the counter lock and reads whether a run
captures, `Commit` makes everything visible, and `RollBack` may happen before it
for any reason. The cutover of the signal worker takes the series locks one by one and
then needs the counter. `Ordering`, `IntervalGap`, `ChangeOf` and `Acceptable` are
`classifyOrdering`, `assessIntervalGap`, `decideCanonicalTransition` and the
validation in `createCanonicalRevision`; `DecisionOf` is what `persistEntry` makes of
them for one entry, as a function of the tables. The rows a run bootstraps from are
abstracted to all canonical bars at the cutover (`base`). Sessions, the writer
capability and the backlog limit are left to `RollBack`.

### MarketDelivery

A process is named by the session it opens. The state is the stream (`log`, and
what has been trimmed from it), the consumer group, the pending entries, the
persisted events and session links, and per process the control state of
`runPaperMarketDataRuntime`: main flow, consumer loop, publishes in flight,
batch, and the drain counter `pendingPublishedEntries`. All processes use one
consumer name, so the owner of a pending entry is not tracked. A batch is the set of
its entries, handled from the lowest id on (`Current`), as XREADGROUP and XAUTOCLAIM
return them. `persistEntry` is
one step. Every cause of a rolled back transaction is one fault. At most one
publish of an earlier connection may still be in flight after `Reconnect`.
Trimming with an approximate MAXLEN removes everything beyond the limit or
nothing. An XADD executed after the client has given up is not modelled. The drain
may end at any time, because its deadline may strike at any time.

### MarketStream, ConnectionLifecycle

Node runs one callback at a time and then every promise that has settled, so one
step is one callback (an event of a socket, a timer that fires, the end of a
publish) with everything that follows from it: `Become` settles the session, lets
the adapter report the state and the supervisor decide, in the same step. Only the
delivery of a bar (`flight`) waits for Redis, spans steps and may outlive its
session. A session has its stage (connecting, authenticating, subscribing, open,
closing), one deadline per stage, the inactivity timer, the bar queue and the
outcome; the supervisor its attempts and delay. A frame is what the decoder makes
of it. `ConnectionLifecycle` is the table of `transitionMarketDataConnection`. The
live path never calls that function; `FollowsContract` shows that it moves along
the table nevertheless.

### SignalRules, SignalProcessing, SignalReplay

`SignalRules` holds pure operators: the reference window of a bar, its evaluation
and availability, the bars a change affects, transitions, and the canonical event
of a minute. Times are minutes, decimals integers, an id is its content.

`SignalProcessing` is one run. Bars arrive in any order, `Enable` bootstraps from the
bars of that moment, every later change is journaled, and two workers claim the run,
rebuild its session from bootstrap and journal, evaluate what the change affects
and commit under their fence. `Compute` and `Commit` are two steps, between which a claim
holds what was computed (`computed`, `work`). `Stored` is the store of evaluations, which compares an
evaluation it has and adds one it has not; ids are hashes of content, so it is a set.
The evidence rows follow from an evaluation (`EvidenceOf`); every event they name
must be in the ledger.

`SignalReplay` projects a recording in memory, seeds the ledger with its events
(`Seed`) and stores it under a target named by its content, through claim, associations and completion that compare a fence.
Processes fail, lose answers, crash and start again. A series without bars has its
boundary at the wall-clock minute and a future bar as the last bootstrap bar moves
the boundary beyond it, as in the code. The metadata of gaps and arrivals and the
session row of the seeded catalogue are abstracted.

## 4. The runs

| run | instance | shows |
|---|---|---|
| `portfolio` | 2 processes, 1 cycle each, lease of 2 ticks | ownership of pending work, newest snapshot, both refinements; a stopped process ends and a dead lease runs out |
| `signal` | 1 supervised slot, 2 configurations and the disabled mode, 3 runs, 3 positions, 2 faults, 2 orders | every revision in one run and applied once, in order; the queue is implemented; captured work is finished |
| `signal_stop_unheard` | 1 slot, 1 order | divergence: a stop request is missed by a disabled worker |
| `canonical_safety` | 2 writers, 2 series, 4 minutes, scan of 2 minutes, 7 deliveries, 2 cutovers | canonical precedence, gap rows, journal and its validation |
| `delivery_safety` | 2 processes, 2 events, 2 entries, stream and queue of 1, batch of 2, 1 fault | acknowledgement, idempotence, drain counter, trimming of pending entries |
| `delivery_lost_publish` | 2 processes, 2 events, 3 entries, stream of 3, queue of 2, 1 fault | divergence: a lost publish reply closes the session under its entry |
| `stream_session` | 2 symbols, 3 sessions, 3 bars, queue of 2, 1 retry, 1 throwing call | watching, one connection, order, retry budget, the contract's table; silence and stop end |
| `portfolio_capture` | 2 cycles of 2 attempts, pages of 2, at most 3 pages and 4 items, overlap of 2, 3 orders, 3 failure classes, 5 events | completeness, honest verdicts, attempts apart, cycles end |
| `portfolio_reads` | 2 snapshots, a summary and a page request, pool of 2, 1 fault, 1 lapse | sound answers, freed connections, requests end |
| `signal_processing` | 7 events of 2 sessions and 2 series, 5 arrivals, lookback 2, queue 3, 2 workers, fence 2 | results equal the reference, nothing honest fails, no hindsight |
| `signal_replay` | every order of a recording of 6 events and a repetition, lookback 1, 2 processes, 3 starts, 2 faults | a completed target holds the reference and stays as it is |
| `writer_capability` | 2 sessions of different thresholds, 2 series, lease of 2 ticks, 3 ticks, 1 reconfiguration | compatibility under a capture, no circle of locks, fencing |

What the conjunctions say. A run checks several conditions of one table or one
promise under one name: `PendingIsOwned` (no orphan behind an owner, one pending run
per claim), `ShutdownsAndClaimsEnd`, `RunsAreAccountedFor` (partition of the journal,
applied exactly once, completed is drained, pending has a predecessor, disabled is
quiet), `WorkIsFinished`, `TablesAgree`, `JournalIsSound`, `NothingIsLost`,
`SessionsAreWatched`, `FailuresAreBounded`, `StreamSettles`, `CaptureIsWhole`,
`CaptureIsJudgedRight`, `AttemptsStayApart`, `AnswersAreSound`, `ConnectionsAreFreed`,
`ResultsAreTheReference` (`ConvergesOnReference`, `TransitionsFormAChain`),
`HonestJournalIsProcessed` and `TargetsObeyTheirOwner`. Each conjunct is a definition
with its own comment.

Why the bounds are enough to meet the interesting cases.

- With two ticks of lease one portfolio process can take over at any point of the
  other's cycle, and the one that lost the lease can go on. One cycle
  each gives a second snapshot, a failure after a success and a stale promotion.
  More cycles, processes and accounts are covered by the proofs.
- Three signal runs and three positions allow a rollover with a backlog in two
  closing runs; the slot's process crashes, is started in another mode, and its
  commit may be uncertain at each position. Several processes at once are covered
  by the proofs of section 6, which fix no number of them.
  The fence bound is never reached.
- A stream and a queue of one entry make every second publish trim the first
  and every overlap hit the limit.
- The canonical feed has a tie of receipt times, a resend, a gap, its late fill, a bar
  outside the session and a second series, so that the counter is contended; two
  cutovers start and end or replace a capture around any step of a transaction.
- Three stream sessions allow a reconnection while the bar of the session before
  is still being published, and one failure after a reset of the attempts.
- Five events of the account place, fill and cancel an order between the pages of
  two cycles, with pages of two entries beside an order filled in part and a
  multi-leg one.
- Two snapshots let the selection change under a request; a pool of two is smaller
  than the number of statements of one summary.
- The seven bars hold a replacement that undoes a breakout, a bar received before
  it ended, a last session and a second series; a run is enabled at either of two times
  and a second worker may take over between computing and committing.
- Two sessions of different thresholds open, renew and expire inside any cutover; three
  ticks are one more than a lease.
- `MaxFaults` bounds failures, lost replies, crashes and stalls together, so
  one fault meets every state and two faults meet where two are given.

`CHECK_DEADLOCK FALSE` stands where the system may stop: all processes ended or
a bound (arrivals, starts, ticks) is used up.

### Fairness

- `PortfolioSync`: `WF(Work(w))`, because every awaited call has a statement or
  request timeout and settles, and `WF(Tick)`, because the database clock
  advances. Renewal, shutdown, crash and start are not fair.
- `SignalRuns`: `WF(Step(w))` for the same reason; `WF(Start(w, mode))`, because
  the deployment restarts a worker that ended; claims that nobody renews expire.
  Writers, operators and faults are never forced, and `ClosingCompletes` excepts
  a worker that is refused because its configuration is a third one.
- `MarketDelivery`: the loop, a publish in flight and the steps of the shutdown
  go on, and a pending entry becomes idle after its 60 seconds. No provider has
  to deliver and no process has to start. Its liveness properties are stated;
  no run of the table checks them.
- `MarketStream`: timers that are armed fire, the delay of a reconnection ends and
  a publish ends, since Redis commands have a timeout. The provider owes nothing.
- `PortfolioCapture`: the worker's own steps and its deadline timer happen;
  the broker may never answer.
- `PortfolioReads`: statements end, by an answer or by `statement_timeout`, and a
  free connection serves who waits.

## 5. Divergences between the code and its documents

Two are runs that TLC ends with a counterexample; `PROJECT.json` quotes the lines.

1. `signal_stop_unheard`: a stop request that arrives while a disabled signal
   worker writes its heartbeat is missed; the listener is registered after the event.
2. `delivery_lost_publish`: when the reply to XADD is lost the drain counter is
   taken back and the session may be closed although the entry is in the stream; the
   entry can then never be persisted.

Seven more are stated as definitions next to the properties that hold. Putting the
definition into the cfg of its component makes TLC print the counterexample.

3. `LiveCycleIsLeftAlone` (`PortfolioSync`, property): the sweep of `acquireLease`
   closes any older pending run even when the sweeping process has lost the lease
   meanwhile, and can end the live cycle of its successor; it cannot promote
   anything (`user-stories/phase-4-06` line 14, `docs/adr/0013` line 16).
4. `ActiveAfterHandoff` (`SignalRuns`, with more orders): with two closing runs the
   completion of the first makes the replacement active, before the handoff is
   complete (`docs/adr/0010` line 26). The order of processing is unaffected
   (`ImplementsQueue`).
5. `MissingMinutesAreRecorded` (`CanonicalJournal`, with one writer and every second
   minute missing): after the first gap of a series later gaps get no row in
   `market_data_gaps`, because a gapped state replaces the assessment
   (`user-stories/phase-2-06` line 13).
6. `ShutdownCancelsTimers` (`MarketStream`): after an abort the inactivity timer of a
   session whose bar is still being published is armed again and fires later
   (`user-stories/phase-2-06` line 15).
7. `FillIsStoredOnce` (`PortfolioCapture` with `Accounts <- MCSelling`): the identity
   of a fill contains the instrument, which comes from the positions of the same
   capture. A fill that the overlap returns after its position was sold has no
   instrument and is stored a second time, against the comment at
   `http-client.ts:38-41`.
8. `RefusalsAreFounded` (`WriterCapability`): the cutover compares heartbeats with
   the time its own transaction began, so a session opened or renewed while it
   waits for locks seems to come from the future and the cutover is refused
   (`repository.ts:359`); migration 0003 moved the triggers, and not this query, to
   `clock_timestamp()`.
9. `TrimmingIsNeverSilent` (`MarketDelivery`, property, in the cfg of
   `delivery_safety`): `docs/adr/0008` line 14 says that "delivery failures and
   trimming-related gaps are explicit operational failures". The code makes only
   one kind of gap explicit, a pending entry that XAUTOCLAIM reports as deleted
   (`redis-stream.ts:334-345`, `PendingGapIsExplicit`). An entry trimmed before it was
   first read is skipped by the XREADGROUP of `readNew`, and no loop fails. In the
   counterexample two processes publish one entry each into a stream of one, and the
   first read returns the second entry. One process alone cannot do it, because
   `MARKET_DATA_QUEUE_CAPACITY` is at most the length of the stream; overlapping
   processes, or restarts of one whose consumer keeps failing, can. What does show is
   the session of the lost entry, which is never closed (`NothingIsLost`).

Met while modelling, without a definition of their own: a clean stop during a
rollover leaves the replacement's claim live, which refuses a restart until it
expires; a promotion whose commit reply is lost ends the portfolio worker as
`claim_lost` although it holds its lease; a crashed session with another threshold is
never closed and blocks cutovers to the new threshold; a signal queue smaller
than `lookback + 1` is a legal configuration and fails the run; a terminal capture
failure followed by the deadline while its siblings settle becomes a retryable
timeout; a terminal protocol error whose close is cut short by the inactivity timer is
retried, within the budget.

## 6. What is proved

All theorems hold for any finite or infinite set of processes, requests or events,
any configuration and any value of the bounds that satisfies the named assumptions of
the module. Each module's inductive invariant was first checked by TLC on the run
of that module, but for `QuietRight` and `HonestRight` of the portfolio capture, which
speak of all accounts there could have been; of those TLC has checked the property
that follows. The assumptions say that identities identify (an event id names one
bar, a record that means "none" is not a value), that sessions are further apart
than the longest window of the signal rules (the configuration accepts up to 390
minutes, a night has more), that bounds are naturals, and that a
capacity, a batch, a pool or a retry budget is at least one, which the configuration
code enforces.

**Portfolio worker** (`PortfolioProofs`). The inductive invariant `Inv` is `TypeOK`
with `Claims` (fences are issued once, never beyond the row's, and the row holds the
fence of its owner), `RunsCarryClaims` (a run carries the fence of its process),
`SelectedIsComplete`, `ReadIsCurrent` (what the owner read before capturing is
still the selected snapshot), `CurrentIsNewest`,
`NoOrphanBehindOwner` and `OnePendingPerClaim`. Neither of the last three is
inductive alone: a promotion keeps `CurrentIsNewest` only because the fence of
the lease holder is the greatest one given out, and links to the right
predecessor only because of `ReadIsCurrent`. From `Inv` follow `PendingIsOwned`, the
action properties `PromotionExtendsCurrent` and `FailureVisibleUntilPromotion` and the
refinements: `ImplementsChain`, which with `ChainIsLinear` gives
`HistoryNeverForks`, and `ImplementsStatus`. The second needs one more invariant,
`FreeIsExpired` (a row without owner has no lease left), because an acquisition
must find the reader's `live` false.

**Portfolio capture** (`PortfolioProofs`, and `CaptureProofs` for its last theorem). The constants are any set of consistent
accounts, in which what an order has filled is counted by its fills, any page size,
limits and number of attempts, and any overlap of at least one tick, as the
code's constant of one second is of its millisecond clock. `CInv` says of every phase which reads are
active (`PhaseRight`), of a read what pages it holds (`ReadRight`) and why the reads of
an attempt were aborted (`CauseRight`). `CaptureTypeOK` and both conjuncts of
`AttemptsStayApart` follow.

`CaptureIsWhole` needs to know what the pages of a read that is still going on show
of an account that has changed since. `WInv` adds `PagesWhole`: pages of orders show
the numbers 1 to m, where m is what the cursor points at, and pages of fills show
everything of the window up to the cursor; when a page is short, nothing that was known,
or nothing of the window, is missing. Three facts make that inductive. Orders and fills
are only appended, and a fill that is created while the window is read is
created at or after its end, so it is in no window that has begun. A provider that
ignores the cursor answers with a number shown before, which makes the read
malformed (`RepeatIsMalformed`; the numbers are compared over all pages flattened,
which is an induction by a least counterexample). An order with an unknown
status, whose page says nothing of the others, makes the normalization reject
the capture. So what is stored is whole (`CapturedWhole`), and since a window reaches
back before the last cutover, each new snapshot continues the fills of the one before
(`SnapsWhole`), whichever cycles failed in between.

`CaptureIsJudgedRight`, in `CaptureProofs`, has two halves. `UnchangedMeansQuiet`: accounts are ordered by
what one may become (`Later`), along which the count of orders, fills and cancellations
only grows. `QuietRight` says that some account d lies between the last snapshot and
what was read since: that snapshot's listing ended with the account d (`SnapDated`), and
the pages now held are of accounts that d became (`PagesDated`). When the delta of two snapshots is "unchanged" the
second listing shows every order with what the first one showed; what was placed,
filled or canceled in between would show as a new order, a greater filled quantity or
another status, so the account did not change from the end of the first listing to
the beginning of the second (`SameOrdersAreQuiet`). `HonestCaptureIsAccepted`: as long
as there was no fault, `HonestRight` says of every read what its pages are made
of (`HonestPages`: positions of one asset each, orders with numbers that ascend over
all pages, each in a state this order of the account was once in, fills of the account). A page
read later keeps that when the account goes on (`HonestGrows`), and the identities of
such pages are all different, so no verdict is "malformed" (`HonestVerdict`) and the
normalization finds no contradiction between positions, orders and fills that were
read at different moments (`HonestRawIsAccepted`). `EvidenceRight`, which needs no
honesty, says that the receipts of the attempt are exactly those of the pages of every
read that has not failed, so the evidence of a capture about to be stored is complete
(`CaptureIsProved`), and rows read back as they were written show no drift
(`NoDrift`). `JudgedRight` joins these with `CutoverRight` (no capture begins before
the last snapshot's cutover), and is inductive next to `WInv`.

**Signal runs** (`SignalRunsProofs`). `IInv` is `TypeOK`, `DbOK` (the partition of
the journal, the shape of runs by state, the results up to each cursor, drained
completed runs, predecessors of pending runs), `DisabledIsQuiet`, and for every
process `ProcOK`: what it may believe about its claim, the run it works on, the
batch it holds and the disabled mode. The strengthening is needed because a
process acts on a claim record and a batch it read earlier. `BatchOK` says that
what is left of a batch was captured by the claimed run; `ClaimOK` says that every run
before the claimed one has completed, which, completed being final, stays true
however stale the claim is; `QuietOK` says that a disabled process about to report
has left nothing to drain, unless the status claim has been taken since.
`JournalPartition`, `ExactlyOnce`, `CompletedRunsAreDrained`,
`PendingIsPromotable` and `DisabledMeansQuiet` are conjuncts, together
`RunsStayAccountedFor`; `HandoffIsOrdered` and `RefinesQueue` follow for each step.

**Writer capability** (`IngestionProofs`). `CapabilityInv` is `CapabilityTypeOK`, `AuditHolds`
(while a cutover that passed its audit holds the series locks, every open writer is
compatible with what it is about to capture), `OpensOnce`, `HeldInOrder` (a
transaction that holds a lock holds every earlier one of its plan) and
`OpenWritersAreCompatible`. The last is kept by an opening because the opening holds
all series locks when it commits, so that it commits before an audit or after the cutover's
commit. `LocksHaveNoCircle` ranks the locks by their place in the
series order with the counter last: every plan is increasing in
the rank, so whoever holds the greatest lock asked for in a circle would ask for a
greater one, in any set of transactions. `LostLeaseFences`
is the action property that an expired or retired capability commits nothing.

**Canonical journal** (`CanonicalJournalProofs`). `IInv` is `TypeOK`, `StoredRight`
(the ledger has each id once and a last version of every bar and of every series; the
canonical bar is that version; gap rows agree with the bars; a series with an open gap
is gapped at its last bar; what was journaled is stored), `LocksAreHeld`,
`DecisionsAreCurrent`, `JournalReproducesBars` and `NeverRejected`. The second to
last carries the argument of the code: what a transaction decided under the
series lock is, until it commits, what it would decide then, because only the
holder of that lock changes the rows the decision reads, and what it read of
the capture stays true because a cutover needs the counter that the transaction
holds. `TablesAgree` and `JournalIsSound` follow for any number of writers, series,
entries and cutovers.

**Market-data delivery** (`IngestionProofs`). `IInv` is `TypeOK`, `ProcessRight`
(what the memory of a process agrees with: its session, the publishes in flight,
a drain counter within its bounds), `LoopRight` (what the loop holds was
delivered and what it acknowledges is persisted), `AcknowledgedIsPersisted` and
`OncePerEvent`. `NothingIsLost` needs the counter to be right: the entries of a
session that are not out of its way yet and its publishes that have not executed
are together no more than `pendingPublishedEntries` (`Counted`), and a closed
session has nothing left (`ClosedIsPersisted`). Both are kept unless the reply to an
executed XADD is lost, so the theorem assumes `~LostPublishes`; the run
`delivery_lost_publish` is the counterexample without that assumption.
`PendingGapIsExplicit`, which speaks of trimmed entries that were pending and not of
those nobody had read (section 5), is proved as an action property.

**Market stream** (`MarketStreamProofs`). A handler is a function of one session, so
there are two layers. Lemmas say of each function what it makes of a sound session:
`Sound` (what holds even inside a handler), `Staged` (what each stage adds between
handlers: an open stage has its timer, the count of outstanding bars is exact),
`Follows` and `Takes` (how the session and the supervisor's status may move). The
step of the system then needs only those. `CountRight` ties the attempt number to
the history: the attempts behind it delivered nothing and reach back to the last
session that did, or to the first. From `IInv` follow `SessionsAreWatched`,
`BarsInOrder` (stated over the positions at which bars of a session arrived),
`FailuresAreBounded`, and the refinement `FollowsContract`.

**Portfolio reads** (`PortfolioReadsProofs`). `IInv` says of every request where its
statements stand in each phase (`StageRight`), that what it has read is of the
snapshot it selected (`RowsRight`), that a status row that would make the answer
fresh was seen to be so at one moment (`RowWitnessed`), that only a fault aborts or
fails anything (`CauseRight`), and what its answer may say (`AnswerRight`, `OldRight`);
of the pool, that the connections checked out are exactly those that statements
hold (`PoolRight`). Every handler ends in `Put`, so one lemma says when a request that
is put back is right and two say what becomes of the pool: an abort frees exactly the
connections of the running statements. Each action is an instance.
`AnswersAreSound` and `ConnectionsAreFreed` follow.

**Signal processing** (`SignalRulesProofs`). `IInv` has five parts.
`ArrivedRight`: the canonical bars are one for each minute and at least as good as
everything that arrived, from which they are the winners of one pass
(`CoversAreWinners`). `RunRight`: what bootstrap and a prefix of the journal give
(`Known`) is part of the canonical bars and misses only such as are too old for any
window of the run; each row was honest about what was known before it; the latest
evaluations are those of what is known at the cursor (`Current`). `ClaimsRight`: what a
worker computed is what the revision after its cursor makes of what was known there,
however long ago it computed it. `CountersRight`, and `HistoryRight`: each transition
follows on the one before it and leads to a latest evaluation.
The step of a commit rests on three facts about the rules:
`SessionIsEnough` (the session of a bar decides what a change affects and how it is
evaluated), `CurrentStep` (replacing the evaluations of the affected bars makes all
of them current) and `GrowsStep` (a new evaluation of a bar rests on a better bar or
on a window that covers the one before it). `Grows` is a partial order, so an
evaluation never returns. `KnownPrefix` makes the computation of a worker that was
overtaken by new rows the same. From `IInv` follow the four properties of the run.

**Signal replay** (`SignalRulesProofs`). What a projection computes is a loop, here the
recursive function `Stages`. That it exists and what each stage holds (`StageRight`: the
canonical bars are the best of the entries read so far, the latest evaluations are
current for them, the artifacts are a history that leads to those) is proved for every
recording by a least counterexample, with the lemmas about one change of
the bars that serve `SignalProcessing` too; `ProjectedRules` concludes that the whole
projection ends with the reference, whatever the order of the entries and however
often one is repeated. `ReplayInv` then says of the tables that the associations are a prefix of the
projection and that evaluations and latest evaluations are those that this prefix leaves
(`TablesRight`), of a process that its claim was issued and that, as long as it
is the latest claim, the target has reached its place and was not failed
(`ProcRight`), and that the latest claim of a target that is not complete belongs to
one process (`OneOwner`). `OneOwner` is what makes the rest inductive: a process that
fails late marks a target as failed only under the latest claim, so the only place that
can be invalidated is its own. A completed target keeps its fence, so then several
processes share it, which is why the condition ends there; by then nobody can fail the
target. `OwnerIsNotRefused` says that the owner of the latest claim is never
refused, from which `FailureIsItsOwn` follows. `CompletedIsReference` and
`TargetsObeyTheirOwner` follow for any recordings, processes and bounds.

Only model-checked:

- all liveness (outside the prover's reach): `ShutdownsAndClaimsEnd`, `WorkIsFinished`,
  `StreamSettles`, the ends of cycles and requests;
- the two refuted statements of section 5, each a run with its counterexample.

## 7. What is not modelled

Parsing, validation, formatting, exact decimal arithmetic and calendar tables are
data conversion; their results enter the models as members of small sets (the
calendar as a classification of minutes). Logging, metrics, telemetry, the web
page and the command-line tools keep no state the other parts depend on. Inside the
modelled components the following is left out:

- Portfolio: the columns of the candidate tables, the projection for readers and its
  monetary arithmetic, the status command.
- Market data: the read queries of the ingestion repository, market-data replay
  sessions, the wrapper of the socket library, status rendering. The in-memory
  arrival tracker is used only by tests and the package index.
- Signals: the arithmetic of the features (results are compared with the
  events they are computed from), the order of the status and run row
  locks inside one transaction, the session row of the seeded catalogue.
- Across workers: that a full backlog, which stops the market-data consumer, is
  worked off by the signal worker and the consumer then recovers, would need
  `MarketDelivery` and `SignalRuns` in one state space; it is listed as a hazard
  without a property.
- API: pages walked by several requests, ages and wording of an answer, other routes.
