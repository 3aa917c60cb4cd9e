-------------------------- MODULE WriterCapability --------------------------
(* The handshake between the processes that persist paper market data and   *)
(* the signal worker that captures their canonical changes.  A process      *)
(* opens an ingestion session together with a leased capability, renews the *)
(* lease by a heartbeat while its provider runs, persists canonical changes *)
(* and retires the capability when it closes the session; one that crashes, *)
(* or cannot drain, leaves the session open.  A cutover begins, replaces or *)
(* ends the capture, and begins one only over writers it finds compatible.  *)
(*                                                                          *)
(* Every transaction takes database locks one by one, in the order of its   *)
(* plan, and sees CURRENT_TIMESTAMP as the time at which it began; the      *)
(* heartbeat is a statement of its own that waits for none of these locks.  *)
(* What is persisted is the subject of CanonicalJournal, and the contract   *)
(* version, the same in every process, is left out.                         *)
EXTENDS Integers, Sequences, SequencesExt

CONSTANTS
  PaperSession, \* ingestion sessions, each opened by a process of its own
  SignalWorker, \* the process that cuts over
  SeriesOrder,  \* the series locks in the order of WRITER_CAPABILITY_LOCK_KEYS
  Counter,      \* the row lock of the revision counter
  Threshold,    \* freshness thresholds
  ThresholdOf,  \* the freshness threshold each process is configured with
  LeaseTicks,   \* writerCapabilityLeaseMs
  MaxTime,      \* bound on the database clock
  MaxChanges,   \* bound on the canonical changes of a session
  NoRun,        \* no signal run captures
  NoSeries,     \* the transaction is not about one series
  Nobody        \* a free lock

Series == Range(SeriesOrder)
Lock == Series \cup {Counter}
Actor == PaperSession \cup {SignalWorker}

ASSUME CapabilityAssumption ==
  /\ SignalWorker \notin PaperSession /\ Nobody \notin Actor
  /\ SeriesOrder \in Seq(Series) /\ IsInjective(SeriesOrder)
  /\ Series # {} /\ Counter \notin Series
  /\ NoSeries \notin Series /\ NoRun \notin Threshold
  /\ ThresholdOf \in [PaperSession -> Threshold]
  /\ LeaseTicks \in Nat \ {0} /\ MaxTime \in Nat /\ MaxChanges \in Nat

VARIABLES
  now,          \* the database clock
  paperSession, \* market_data_ingestion_sessions: the paper sessions
  capability,   \* market_data_writer_capabilities
  process,      \* the process of each session
  capture,      \* the freshness threshold of the run with capture_active
  tx,           \* the transaction of each actor
  lock,         \* the holder of each lock
  changes       \* history: canonical changes committed by each session

rows == <<paperSession, capability, capture, changes>>
capabilityVars == <<now, rows, process, tx, lock>>

Capability ==
  [state : {"none", "accepted", "retired"}, threshold : Threshold,
   heartbeat : Nat, expires : Nat]

Transaction ==
  [kind : {"none", "open", "persist", "close", "cutover"},
   series : Series \cup {NoSeries},      \* of the bar persisted
   target : Threshold \cup {NoRun},      \* the capture a cutover is to begin
   start : Nat,                          \* CURRENT_TIMESTAMP
   checked : BOOLEAN]                    \* the writers were found admissible

Idle == [kind |-> "none", series |-> NoSeries, target |-> NoRun,
         start |-> 0, checked |-> FALSE]

\* Mutant of Plan: the signal worker locks the series in the other order.
PlanReversed(t) ==
  IF t.kind = "persist" THEN <<t.series, Counter>>
  ELSE IF t.kind = "cutover" THEN Append(Reverse(SeriesOrder), Counter)
  ELSE IF t.kind = "none" THEN <<>>
  ELSE SeriesOrder

\* Mutant of Plan: a session opens without the locks of the series.
PlanUnlocked(t) ==
  IF t.kind = "persist" THEN <<t.series, Counter>>
  ELSE IF t.kind = "cutover" THEN Append(SeriesOrder, Counter)
  ELSE <<>>

(* The locks a transaction takes, in this order.                            *)
Plan(t) ==
  IF t.kind = "persist" THEN <<t.series, Counter>>
  ELSE IF t.kind = "cutover" THEN Append(SeriesOrder, Counter)
  ELSE IF t.kind = "none" THEN <<>>
  ELSE SeriesOrder

(* A lock is held only by a transaction that takes it.                      *)
CapabilityTypeOK ==
  /\ now \in 0..MaxTime
  /\ paperSession \in [PaperSession -> {"none", "open", "ended"}]
  /\ capability \in [PaperSession -> Capability]
  /\ process \in [PaperSession -> {"new", "running", "stopping", "gone"}]
  /\ capture \in Threshold \cup {NoRun}
  /\ tx \in [Actor -> Transaction]
  /\ lock \in [Lock -> Actor \cup {Nobody}]
  /\ changes \in [PaperSession -> Nat]
  /\ \A l \in Lock : lock[l] # Nobody => l \in Range(Plan(tx[lock[l]]))

(* A legacy session was left open by a process that had no capability.      *)
CapabilityInit ==
  /\ now = 0
  /\ \E legacy \in SUBSET PaperSession :
       /\ paperSession = [s \in PaperSession |-> IF s \in legacy THEN "open" ELSE "none"]
       /\ process = [s \in PaperSession |-> IF s \in legacy THEN "gone" ELSE "new"]
  /\ capability = [s \in PaperSession |->
       [state |-> "none", threshold |-> ThresholdOf[s], heartbeat |-> 0, expires |-> 0]]
  /\ capture = NoRun
  /\ tx = [a \in Actor |-> Idle]
  /\ lock = [l \in Lock |-> Nobody]
  /\ changes = [s \in PaperSession |-> 0]

Tick ==
  /\ now < MaxTime
  /\ now' = now + 1
  /\ UNCHANGED <<rows, process, tx, lock>>

-----------------------------------------------------------------------------
(* Locks.                                                                   *)

HoldsAll(a) == \A l \in Range(Plan(tx[a])) : lock[l] = a

\* Mutant of Released: the counter stays locked.
ReleasedSeries(a) ==
  [l \in Lock |-> IF lock[l] = a /\ l \in Series THEN Nobody ELSE lock[l]]

Released(a) == [l \in Lock |-> IF lock[l] = a THEN Nobody ELSE lock[l]]

(* The lock a transaction asks for next: it holds those before it.          *)
Asks(a, l) ==
  LET plan == Plan(tx[a])
  IN \E i \in DOMAIN plan :
       /\ plan[i] = l /\ lock[l] # a
       /\ \A j \in 1..(i - 1) : lock[plan[j]] = a

(* A change is admitted before the counter of its revision is locked.       *)
TakeLock(a) ==
  /\ \E l \in Lock :
       /\ Asks(a, l) /\ lock[l] = Nobody
       /\ l = Counter /\ tx[a].kind = "persist" => tx[a].checked
       /\ lock' = [lock EXCEPT ![l] = a]
  /\ UNCHANGED <<now, rows, process, tx>>

(* The start is kept where a statement uses CURRENT_TIMESTAMP.              *)
Begin(a, kind, series, target, start) ==
  /\ tx[a].kind = "none"
  /\ tx' = [tx EXCEPT ![a] = [kind |-> kind, series |-> series, target |-> target,
                              start |-> start, checked |-> FALSE]]
  /\ UNCHANGED <<now, rows, lock>>

Ends(a) ==
  /\ tx' = [tx EXCEPT ![a] = Idle]
  /\ lock' = Released(a)

-----------------------------------------------------------------------------
(* Writers.                                                                 *)

(* A capability accepted, or renewed, at a time.                            *)
Leased(threshold, time) ==
  [state |-> "accepted", threshold |-> threshold,
   heartbeat |-> time, expires |-> time + LeaseTicks]

Expired(s) == now >= capability[s].expires

\* Mutant of Admitted: an expired lease still admits changes.
AdmittedExpired(s) ==
  capture # NoRun =>
    /\ paperSession[s] = "open" /\ capability[s].state = "accepted"
    /\ capability[s].threshold = capture

(* The writer may change canonical bars: nothing captures, or its lease is  *)
(* fresh and compatible with the capturing run.  Asserted by persistEntry   *)
(* before the write, and by triggers at the write and again at the commit.  *)
Admitted(s) ==
  capture # NoRun =>
    /\ paperSession[s] = "open" /\ capability[s].state = "accepted"
    /\ capability[s].threshold = capture
    /\ ~Expired(s)

(* createIngestionSession.                                                  *)
BeginOpen(s) ==
  /\ process[s] = "new"
  /\ Begin(s, "open", NoSeries, NoRun, now)
  /\ UNCHANGED process

(* The lease counts from the beginning of the transaction; a new session    *)
(* must be admitted by the capturing run when it commits.                   *)
CommitOpen(s) ==
  LET new == Leased(ThresholdOf[s], tx[s].start)
  IN /\ tx[s].kind = "open" /\ HoldsAll(s)
     /\ capture # NoRun => new.threshold = capture /\ now < new.expires
     /\ paperSession' = [paperSession EXCEPT ![s] = "open"]
     /\ capability' = [capability EXCEPT ![s] = new]
     /\ process' = [process EXCEPT ![s] = "running"]
     /\ Ends(s)
     /\ UNCHANGED <<now, capture, changes>>

\* Mutant of MayRenew: a lease is renewed even after it expired.
MayRenewExpired(s) == paperSession[s] = "open" /\ capability[s].state = "accepted"

MayRenew(s) ==
  paperSession[s] = "open" /\ capability[s].state = "accepted" /\ ~Expired(s)

(* renewWriterCapability, while the provider runs.                          *)
Renew(s) ==
  /\ process[s] = "running" /\ MayRenew(s)
  /\ capability' = [capability EXCEPT ![s] = Leased(capability[s].threshold, now)]
  /\ UNCHANGED <<now, paperSession, capture, changes, process, tx, lock>>

(* The provider is stopped: by a signal, by its supervisor, or because a    *)
(* renewal was refused.  The consumer goes on draining; no one renews.      *)
Stop(s) ==
  /\ process[s] = "running"
  /\ process' = [process EXCEPT ![s] = "stopping"]
  /\ UNCHANGED <<now, rows, tx, lock>>

(* persistEntry, of an entry that changes a canonical bar.                  *)
BeginPersist(s) ==
  /\ process[s] \in {"running", "stopping"}
  /\ changes[s] < MaxChanges
  /\ \E m \in Series : Begin(s, "persist", m, NoRun, 0)
  /\ UNCHANGED process

AssertCapability(s) ==
  /\ tx[s].kind = "persist" /\ ~tx[s].checked
  /\ lock[tx[s].series] = s
  /\ Admitted(s)
  /\ tx' = [tx EXCEPT ![s].checked = TRUE]
  /\ UNCHANGED <<now, rows, process, lock>>

CommitPersist(s) ==
  /\ tx[s].kind = "persist" /\ tx[s].checked /\ HoldsAll(s)
  /\ Admitted(s)
  /\ changes' = [changes EXCEPT ![s] = @ + 1]
  /\ Ends(s)
  /\ UNCHANGED <<now, paperSession, capability, capture, process>>

(* closeIngestionSession, after the drain.                                  *)
BeginClose(s) ==
  /\ process[s] = "stopping"
  /\ Begin(s, "close", NoSeries, NoRun, 0)
  /\ UNCHANGED process

CommitClose(s) ==
  /\ tx[s].kind = "close" /\ HoldsAll(s)
  /\ paperSession[s] = "open" /\ capability[s].state = "accepted"
  /\ paperSession' = [paperSession EXCEPT ![s] = "ended"]
  /\ capability' = [capability EXCEPT ![s].state = "retired"]
  /\ process' = [process EXCEPT ![s] = "gone"]
  /\ Ends(s)
  /\ UNCHANGED <<now, capture, changes>>

(* A transaction that fails or is refused ends the process, as a crash      *)
(* does: the transaction is rolled back and the session is left open.       *)
Fail(s) ==
  /\ process[s] # "gone"
  /\ process' = [process EXCEPT ![s] = "gone"]
  /\ Ends(s)
  /\ UNCHANGED <<now, rows>>

-----------------------------------------------------------------------------
(* The cutover: enableOrResume, or disable when the target is NoRun.        *)

BeginCutover ==
  /\ \E target \in Threshold \cup {NoRun} :
       /\ target = NoRun => capture # NoRun
       /\ Begin(SignalWorker, "cutover", NoSeries, target, now)
  /\ UNCHANGED process

Compatible(s, threshold) ==
  capability[s].state = "accepted" /\ capability[s].threshold = threshold

(* The audit of lockCutover: expired leases are let pass, heartbeats later  *)
(* than the transaction are not.                                            *)
Passes(s, t) ==
  t.target # NoRun /\ paperSession[s] = "open" =>
    Compatible(s, t.target) /\ capability[s].heartbeat <= t.start

Audits(t) == t.kind = "cutover" /\ ~t.checked /\ HoldsAll(SignalWorker)

AuditPasses ==
  /\ Audits(tx[SignalWorker])
  /\ \A s \in PaperSession : Passes(s, tx[SignalWorker])
  /\ tx' = [tx EXCEPT ![SignalWorker].checked = TRUE]
  /\ UNCHANGED <<now, rows, process, lock>>

AuditRefuses ==
  /\ Audits(tx[SignalWorker])
  /\ \E s \in PaperSession : ~Passes(s, tx[SignalWorker])
  /\ Ends(SignalWorker)
  /\ UNCHANGED <<now, rows, process>>

CommitCutover ==
  /\ tx[SignalWorker].kind = "cutover" /\ tx[SignalWorker].checked
  /\ capture' = tx[SignalWorker].target
  /\ Ends(SignalWorker)
  /\ UNCHANGED <<now, paperSession, capability, changes, process>>

CutoverRollsBack ==
  /\ tx[SignalWorker].kind = "cutover"
  /\ Ends(SignalWorker)
  /\ UNCHANGED <<now, rows, process>>

CapabilityNext ==
  \/ Tick
  \/ \E a \in Actor : TakeLock(a)
  \/ \E s \in PaperSession :
       \/ BeginOpen(s) \/ CommitOpen(s) \/ Renew(s) \/ Stop(s)
       \/ BeginPersist(s) \/ AssertCapability(s) \/ CommitPersist(s)
       \/ BeginClose(s) \/ CommitClose(s) \/ Fail(s)
  \/ BeginCutover \/ AuditPasses \/ AuditRefuses \/ CommitCutover \/ CutoverRollsBack

CapabilitySpec == CapabilityInit /\ [][CapabilityNext]_capabilityVars

-----------------------------------------------------------------------------
(* Properties.                                                              *)

(* While a run captures, every open paper session has the capability, and   *)
(* the freshness threshold, of that run: a session that is being opened     *)
(* while the worker cuts over cannot slip in between its audit and its      *)
(* commit.                                                                  *)
OpenWritersAreCompatible ==
  capture # NoRun => \A s \in PaperSession : paperSession[s] = "open" => Compatible(s, capture)

(* A writer that lost its lease is fenced for good: its lease is never      *)
(* revived, and it commits no canonical change under any capture, also when *)
(* the lease ran out while the transaction waited for a lock.               *)
FencedForGood ==
  [][\A s \in PaperSession :
       paperSession[s] = "open" /\ Expired(s) =>
         /\ capability'[s].expires = capability[s].expires
         /\ capture # NoRun => changes'[s] = changes[s]]_capabilityVars

(* Sessions that open and close, writers of both series and the cutover     *)
(* never wait for each other in a circle, whatever locks each of them holds.*)
NoLockCycle ==
  ~ \E circle \in (SUBSET Actor) \ {{}} :
      \A a \in circle : \E l \in Lock : Asks(a, l) /\ lock[l] \in circle

(* The documented reasons to refuse a cutover: an open session with no      *)
(* capability, a retired or an incompatible one, or a heartbeat dated in    *)
(* the future.  workers/signals/README.md:9 lists no other.                 *)
Blocks(s, threshold) ==
  paperSession[s] = "open" /\ (~Compatible(s, threshold) \/ capability[s].heartbeat > now)

RefusalsAreFounded ==
  [][AuditRefuses => \E s \in PaperSession : Blocks(s, tx[SignalWorker].target)]_capabilityVars
=============================================================================
