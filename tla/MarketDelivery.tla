--------------------------- MODULE MarketDelivery ---------------------------
(* Market events on their way from the provider to PostgreSQL:              *)
(* runPaperMarketDataRuntime publishes each event to a Redis stream under   *)
(* its own ingestion session, and a consumer loop in the same process reads *)
(* the stream through one consumer group, persists each entry and then      *)
(* acknowledges it.  Redelivery, lost replies, a crash of the process,      *)
(* trimming of the stream and the bounded shutdown are all actions.         *)
(*                                                                          *)
(* A runtime process is named by the session it opens.  Every process uses  *)
(* the same consumer name, so the group remembers only which entries are    *)
(* pending, not whose they are.  persistEntry is one transaction behind a   *)
(* series lock and is one step.                                             *)
EXTENDS Integers, Sequences, SequencesExt, FiniteSetsExt

CONSTANTS
  Session,          \* runtime processes, each with the session it opens
  Event,            \* bar events by content hash: a resent bar is the same event
  QueueCapacity,    \* config.queueCapacity
  StreamLength,     \* MARKET_DATA_STREAM_MAX_LENGTH
  BatchSize,        \* MARKET_DATA_MAX_BATCH_SIZE
  LostPublishes,    \* whether the reply to an executed XADD may be lost
  MaxEntries,       \* bound on the entries ever published
  MaxFaults         \* bound on failures, lost replies, crashes and deadlines

ASSUME BoundsAssumption ==
  /\ QueueCapacity \in Nat \ {0}
  /\ StreamLength \in Nat \ {0}
  /\ BatchSize \in Nat \ {0}
  /\ LostPublishes \in BOOLEAN
  /\ MaxEntries \in Nat /\ MaxFaults \in Nat

VARIABLES
  log,        \* every entry ever added to the stream; its index is its id
  floor,      \* entries up to this id have been trimmed away
  delivered,  \* last id the group has handed to a consumer
  pending,    \* ids delivered and not acknowledged
  idle,       \* pending ids idle for at least 60 s
  session,    \* market_data_ingestion_sessions: none, open or closed
  ledger,     \* market_data_event_ledger in insertion order
  links,      \* market_data_session_events
  proc,       \* memory of each process
  faults      \* failures so far

stream == <<log, floor, delivered, pending, idle>>
database == <<session, ledger, links>>
vars == <<stream, database, proc, faults>>

Entry == [session : Session, event : Event]
Publish == [event : Event, added : BOOLEAN, live : BOOLEAN]
Mains == {"new", "running", "stopping", "draining", "joining", "closing", "ended"}
Loops == {"off", "claim", "claimed", "read", "fetched", "done", "failed", "killed"}

Proc ==
  [main : Mains,                \* runPaperMarketDataRuntime
   loop : Loops,                \* RedisMarketDataConsumer.run
   step : {"next", "persist", "ack"},
   batch : SUBSET Nat,          \* entries of the last answer still to process
   count : -2 * MaxFaults..QueueCapacity,  \* pendingPublishedEntries, which a lost reply
                                \* to an entry already handled takes below zero
   inflight : SUBSET Publish,   \* XADD sent, reply not seen
   drained : BOOLEAN]

TypeOK ==
  /\ log \in Seq(Entry)
  /\ floor \in 0..Len(log) /\ delivered \in 0..Len(log)
  /\ pending \subseteq 1..delivered /\ idle \subseteq pending
  /\ session \in [Session -> {"none", "open", "closed"}]
  /\ ledger \in Seq(Event)
  /\ links \subseteq Session \X Event
  /\ proc \in [Session -> Proc]
  /\ faults \in 0..MaxFaults

-----------------------------------------------------------------------------
Fresh == [main |-> "new", loop |-> "off", step |-> "next", batch |-> {},
          count |-> 0, inflight |-> {}, drained |-> FALSE]

(* A process that has ended keeps nothing.                                  *)
Gone == [Fresh EXCEPT !.main = "ended"]

Init ==
  /\ log = <<>> /\ floor = 0 /\ delivered = 0 /\ pending = {} /\ idle = {}
  /\ session = [s \in Session |-> "none"] /\ ledger = <<>> /\ links = {}
  /\ proc = [s \in Session |-> Fresh]
  /\ faults = 0

Fault == faults < MaxFaults /\ faults' = faults + 1

(* stopProvider: a running main goes to its finally block.                  *)
Stopped(p) == IF p.main = "running" THEN [p EXCEPT !.main = "stopping"] ELSE p

\* Mutant of Aborted: the loop is aborted only after it was awaited.
AbortedLate(p) == p.main \in {"closing", "ended"}

(* consumerController is aborted once the drain is over.                    *)
Aborted(p) == p.main \in {"joining", "closing", "ended"}

LoopFailed(p) == [Stopped(p) EXCEPT !.loop = "failed", !.batch = {}, !.step = "next"]

Linked(id) == <<log[id].session, log[id].event>> \in links

-----------------------------------------------------------------------------
(* The main path of the process.                                            *)

(* Both clients connect, the session is created, the loop starts.           *)
Open(s) ==
  /\ proc[s].main = "new"
  /\ session' = [session EXCEPT ![s] = "open"]
  /\ proc' = [proc EXCEPT ![s].main = "running", ![s].loop = "claim"]
  /\ UNCHANGED <<stream, ledger, links, faults>>

(* The session is committed but the process is told to stop, or loses the   *)
(* reply, before sessionOpened is set: it ends and leaves the session open. *)
OpenInterrupted(s) ==
  /\ Fault
  /\ proc[s].main = "new"
  /\ session' = [session EXCEPT ![s] = "open"]
  /\ proc' = [proc EXCEPT ![s] = Gone]
  /\ UNCHANGED <<stream, ledger, links>>

\* Mutant of HasRoom: the limit is off by one.
HasRoomForOneMore(p) == p.count <= QueueCapacity

HasRoom(p) == p.count < QueueCapacity

(* The provider delivers a bar.  A connection handles one bar at a time; at *)
(* capacity the handler refuses and the process stops.                      *)
StartPublish(s, e) ==
  /\ proc[s].main = "running"
  /\ \A x \in proc[s].inflight : ~x.live
  /\ \/ /\ HasRoom(proc[s])
        /\ Len(log) + Cardinality(UNION {{<<t, x>> : x \in proc[t].inflight} : t \in Session})
             < MaxEntries
        /\ proc' = [proc EXCEPT
             ![s].count = @ + 1,
             ![s].inflight = @ \cup {[event |-> e, added |-> FALSE, live |-> TRUE]}]
     \/ /\ ~HasRoom(proc[s])
        /\ proc' = [proc EXCEPT ![s] = Stopped(@)]
  /\ UNCHANGED <<stream, database, faults>>

(* Redis executes XADD.  MAXLEN ~ may or may not trim down to the limit.    *)
AddEntry(s, x) ==
  /\ x \in proc[s].inflight /\ ~x.added
  /\ log' = Append(log, [session |-> s, event |-> x.event])
  /\ \/ floor' = floor
     \/ Len(log') > StreamLength + floor /\ floor' = Len(log') - StreamLength
  /\ proc' = [proc EXCEPT ![s].inflight = (@ \ {x}) \cup {[x EXCEPT !.added = TRUE]}]
  /\ UNCHANGED <<delivered, pending, idle, database, faults>>

PublishConfirmed(s, x) ==
  /\ x \in proc[s].inflight /\ x.added
  /\ proc' = [proc EXCEPT ![s].inflight = @ \ {x}]
  /\ UNCHANGED <<stream, database, faults>>

(* The publishes that may fail: XADD was not executed, or its reply is lost. *)
MayFail(p) == {x \in p.inflight : LostPublishes \/ ~x.added}

(* The publish fails, whether or not the entry was added.  The counter is   *)
(* taken back.  The failure stops the process only while the provider       *)
(* connection that delivered the bar is still the current one.              *)
PublishLost(s, x) ==
  /\ Fault
  /\ x \in MayFail(proc[s])
  /\ LET p == IF x.live THEN Stopped(proc[s]) ELSE proc[s]
     IN proc' = [proc EXCEPT ![s] = [p EXCEPT !.inflight = @ \ {x}, !.count = @ - 1]]
  /\ UNCHANGED <<stream, database>>

(* The provider connection breaks while a bar is being published and the    *)
(* supervisor opens another.  Bound: one earlier publish at a time.         *)
Reconnect(s) ==
  /\ proc[s].main = "running"
  /\ \E x \in proc[s].inflight :
       /\ x.live /\ proc[s].inflight = {x}
       /\ proc' = [proc EXCEPT ![s].inflight = {[x EXCEPT !.live = FALSE]}]
  /\ UNCHANGED <<stream, database, faults>>

(* A signal, an exhausted supervisor or a failed capability renewal.        *)
RequestStop(s) ==
  /\ proc[s].main = "running"
  /\ proc' = [proc EXCEPT ![s] = Stopped(@)]
  /\ UNCHANGED <<stream, database, faults>>

(* publisher.close waits for the replies; at the deadline the client is     *)
(* destroyed and what is in flight fails before or after the counter is     *)
(* read.                                                                    *)
CloseIntake(s) ==
  /\ proc[s].main = "stopping"
  /\ \/ proc[s].inflight = {} /\ UNCHANGED faults /\ proc' = [proc EXCEPT ![s].main = "draining"]
     \/ /\ proc[s].inflight # {} /\ Fault
        /\ \E lost \in {0, Cardinality(MayFail(proc[s]))} :
             proc' = [proc EXCEPT ![s].main = "draining", ![s].inflight = {},
                                  ![s].count = @ - lost]
  /\ UNCHANGED <<stream, database>>

(* The drain ends when the counter is zero, the loop failed, or its half of *)
(* the deadline passes, so it may end at any time; then the loop is aborted.*)
EndDrain(s) ==
  /\ proc[s].main = "draining"
  /\ proc' = [proc EXCEPT ![s].main = "joining", ![s].drained = (proc[s].count = 0)]
  /\ UNCHANGED <<stream, database, faults>>

(* The loop is awaited, or forced down at the deadline.                     *)
JoinLoop(s) ==
  /\ proc[s].main = "joining"
  /\ \/ /\ proc[s].loop \in {"done", "failed"}
        /\ proc' = [proc EXCEPT ![s].main = "closing"]
        /\ UNCHANGED faults
     \/ /\ proc[s].loop \notin {"done", "failed"} /\ Fault
        /\ proc' = [proc EXCEPT ![s].main = "closing", ![s].loop = "killed",
                                ![s].batch = {}, ![s].step = "next"]
  /\ UNCHANGED <<stream, database>>

\* Mutant of MayClose: an incomplete drain is not noticed.
MayCloseUndrained(p) == p.loop = "done"

(* closeIngestionSession, or market_data.session.left_open.                 *)
MayClose(p) == p.drained /\ p.loop = "done"

CloseSession(s) ==
  /\ proc[s].main = "closing"
  /\ proc' = [proc EXCEPT ![s] = Gone]
  /\ \/ MayClose(proc[s]) /\ session' = [session EXCEPT ![s] = "closed"] /\ UNCHANGED faults
     \/ ~MayClose(proc[s]) /\ UNCHANGED <<session, faults>>
     \/ MayClose(proc[s]) /\ Fault /\ UNCHANGED session
  /\ UNCHANGED <<stream, ledger, links>>

Crash(s) ==
  /\ Fault
  /\ proc[s].main \notin {"new", "ended"}
  /\ proc' = [proc EXCEPT ![s] = Gone]
  /\ UNCHANGED <<stream, database>>

-----------------------------------------------------------------------------
(* The consumer loop.                                                       *)

Alive(s) == proc[s].loop \notin {"off", "done", "failed", "killed"}

(* The checks of the abort signal between commands and between entries.     *)
StopLoop(s) ==
  /\ Aborted(proc[s])
  /\ \/ proc[s].loop = "claim"
     \/ proc[s].loop \in {"claimed", "fetched"} /\ proc[s].step = "next"
  /\ proc' = [proc EXCEPT ![s].loop = "done", ![s].batch = {}]
  /\ UNCHANGED <<stream, database, faults>>

(* The first ids of a set in stream order, at most one batch of them.       *)
FirstBatch(ids) == {id \in ids : Cardinality({j \in ids : j < id}) < BatchSize}

\* Mutant of Claimable: pending entries are never claimed.
ClaimableNone == {}

Claimable == FirstBatch(idle)

\* Mutant of Reported: the deleted ids of the answer are ignored.
ReportedNever(deleted) == FALSE

Reported(deleted) == deleted # {}

(* XAUTOCLAIM.  Entries that were trimmed away leave the pending list and   *)
(* are reported, and the report fails the loop.  A lost reply fails it too. *)
ClaimPending(s) ==
  /\ proc[s].loop = "claim" /\ ~Aborted(proc[s])
  /\ LET claimed == Claimable
         deleted == {id \in claimed : id <= floor}
     IN /\ idle' = idle \ claimed
        /\ pending' = pending \ deleted
        /\ \/ /\ ~Reported(deleted)
              /\ proc' = [proc EXCEPT ![s].loop = "claimed",
                                      ![s].batch = claimed \ deleted]
              /\ UNCHANGED faults
           \/ /\ Reported(deleted)
              /\ proc' = [proc EXCEPT ![s] = LoopFailed(@)]
              /\ UNCHANGED faults
           \/ /\ Fault
              /\ proc' = [proc EXCEPT ![s] = LoopFailed(@)]
  /\ UNCHANGED <<log, floor, delivered, database>>

(* XREADGROUP: the next entries, or none after the block time.              *)
Unread == {id \in 1..Len(log) : id > delivered /\ id > floor}

ReadNew(s) ==
  /\ proc[s].loop = "read"
  /\ LET fetched == FirstBatch(Unread)
     IN /\ pending' = pending \cup fetched
        /\ delivered' = IF fetched = {} THEN delivered ELSE Max(fetched)
        /\ \/ /\ proc' = [proc EXCEPT ![s].loop = "fetched", ![s].batch = fetched]
              /\ UNCHANGED faults
           \/ /\ Fault
              /\ proc' = [proc EXCEPT ![s] = LoopFailed(@)]
  /\ UNCHANGED <<log, floor, idle, database>>

(* process: the next entry, or the end of the batch.                        *)
NextEntry(s) ==
  /\ proc[s].loop \in {"claimed", "fetched"} /\ proc[s].step = "next" /\ ~Aborted(proc[s])
  /\ \/ /\ proc[s].batch # {}
        /\ proc' = [proc EXCEPT ![s].step = "persist"]
     \/ /\ proc[s].batch = {}
        /\ proc' = [proc EXCEPT ![s].loop = IF @ = "claimed" THEN "read" ELSE "claim"]
  /\ UNCHANGED <<stream, database, faults>>

(* The entry being processed: the entries of an answer are in stream order. *)
Current(p) == Min(p.batch)

(* persistEntry: a known event adds at most a link, and a link to a session *)
(* needs that session to be open.                                           *)
Refused(entry) ==
  /\ <<entry.session, entry.event>> \notin links
  /\ session[entry.session] # "open"

\* Mutant of Persisted: the duplicate is not looked up.
PersistedAgain(entry) ==
  /\ ledger' = Append(ledger, entry.event)
  /\ links' = links \cup {<<entry.session, entry.event>>}

Persisted(entry) ==
  /\ ledger' = IF entry.event \in ToSet(ledger) THEN ledger ELSE Append(ledger, entry.event)
  /\ links' = links \cup {<<entry.session, entry.event>>}

\* Mutant of Handled: entries of other sessions are counted too.
HandledAny(s, p, entry) ==
  [p EXCEPT !.step = "ack", !.count = IF @ > 0 THEN @ - 1 ELSE @]

(* The handler resolves: an entry of the process's own session is counted.  *)
Handled(s, p, entry) ==
  [p EXCEPT !.step = "ack",
            !.count = IF entry.session = s /\ @ > 0 THEN @ - 1 ELSE @]

\* Mutant of HandlerFailed: the failure is logged and the entry acknowledged.
HandlerFailureIgnored(p) == [p EXCEPT !.step = "ack"]

(* The handler's failure is rethrown and ends the loop.                     *)
HandlerFailed(p) == LoopFailed(p)

HandleEntry(s) ==
  /\ proc[s].step = "persist"
  /\ LET entry == log[Current(proc[s])]
     IN \/ /\ ~Refused(entry)
           /\ Persisted(entry)
           /\ proc' = [proc EXCEPT ![s] = Handled(s, @, entry)]
           /\ UNCHANGED faults
        \/ /\ Refused(entry)
           /\ proc' = [proc EXCEPT ![s] = HandlerFailed(@)]
           /\ UNCHANGED <<ledger, links, faults>>
        \/ /\ Fault                          \* rolled back, or the commit's reply is lost
           /\ ~Refused(entry)
           /\ Persisted(entry) \/ UNCHANGED <<ledger, links>>
           /\ proc' = [proc EXCEPT ![s] = HandlerFailed(@)]
  /\ UNCHANGED <<stream, session>>

(* XACK must answer 1: the entry was still pending.                         *)
Acknowledge(s) ==
  /\ proc[s].step = "ack"
  /\ LET id == Current(proc[s])
     IN /\ pending' = pending \ {id} /\ idle' = idle \ {id}
        /\ \/ /\ id \in pending
              /\ proc' = [proc EXCEPT ![s].step = "next", ![s].batch = @ \ {id}]
              /\ UNCHANGED faults
           \/ /\ id \notin pending
              /\ proc' = [proc EXCEPT ![s] = LoopFailed(@)]
              /\ UNCHANGED faults
           \/ /\ Fault
              /\ proc' = [proc EXCEPT ![s] = LoopFailed(@)]
  /\ UNCHANGED <<log, floor, delivered, database>>

(* The acknowledgement never reaches Redis.                                 *)
AcknowledgeUnsent(s) ==
  /\ Fault
  /\ proc[s].step = "ack"
  /\ proc' = [proc EXCEPT ![s] = LoopFailed(@)]
  /\ UNCHANGED <<stream, database>>

(* A pending entry reaches MARKET_DATA_CLAIM_IDLE_MILLISECONDS.             *)
BecomeIdle ==
  /\ \E id \in pending \ idle : idle' = idle \cup {id}
  /\ UNCHANGED <<log, floor, delivered, pending, database, proc, faults>>

-----------------------------------------------------------------------------
LoopStep(s) ==
  \/ StopLoop(s) \/ ClaimPending(s) \/ ReadNew(s)
  \/ NextEntry(s) \/ HandleEntry(s) \/ Acknowledge(s)

PublishStep(s) ==
  \E x \in proc[s].inflight : AddEntry(s, x) \/ PublishConfirmed(s, x)

Next ==
  \/ \E s \in Session :
       \/ Open(s) \/ OpenInterrupted(s) \/ Reconnect(s) \/ RequestStop(s) \/ Crash(s)
       \/ CloseIntake(s) \/ EndDrain(s) \/ JoinLoop(s) \/ CloseSession(s)
       \/ LoopStep(s) \/ AcknowledgeUnsent(s) \/ PublishStep(s)
       \/ \E e \in Event : StartPublish(s, e)
       \/ \E x \in proc[s].inflight : PublishLost(s, x)
  \/ BecomeIdle

Spec == Init /\ [][Next]_vars
(* Timers fire and answers arrive: the shutdown sequence, the loop and a    *)
(* publish in flight go on, and a pending entry becomes idle.  Nothing      *)
(* makes a provider deliver, a process start, or a fault happen.            *)
FairSpec ==
  /\ Spec
  /\ WF_vars(BecomeIdle)
  /\ \A s \in Session :
       /\ WF_vars(LoopStep(s)) /\ WF_vars(PublishStep(s))
       /\ WF_vars(CloseIntake(s)) /\ WF_vars(EndDrain(s))
       /\ WF_vars(JoinLoop(s)) /\ WF_vars(CloseSession(s))

-----------------------------------------------------------------------------
(* Safety.                                                                  *)

(* An entry that has left the pending list was persisted, or was trimmed    *)
(* away: redis-stream.ts acknowledges only after the handler resolved.      *)
AcknowledgedIsPersisted ==
  \A id \in 1..delivered : id > floor /\ id \notin pending => Linked(id)

(* However often a bar is resent, redelivered or persisted by two processes *)
(* at once, it is in the ledger once, and exactly the linked events are.    *)
OncePerEvent ==
  /\ \A i, j \in DOMAIN ledger : ledger[i] = ledger[j] => i = j
  /\ ToSet(ledger) = {link[2] : link \in links}

(* Every entry still to be persisted has an open session, so persistEntry   *)
(* will not refuse it whichever process it is delivered to.  One that was   *)
(* trimmed away is delivered to nobody, and leaves its session open.        *)
UnpersistedIsRecoverable ==
  \A id \in DOMAIN log : ~Linked(id) => session[log[id].session] = "open"

(* pendingPublishedEntries never falls below what the process has published *)
(* and nobody has persisted, as long as its loop is sound: a drained        *)
(* process has nothing left in the stream.                                  *)
UnpersistedAreCounted ==
  \A s \in Session :
    proc[s].main \notin {"new", "ended"} /\ proc[s].loop \notin {"failed", "killed"} =>
      Cardinality({id \in DOMAIN log : log[id].session = s /\ ~Linked(id)}) <= proc[s].count

(* Nothing but trimming loses an entry between the stream and the tables:   *)
(* what was acknowledged is persisted, no session is closed over what is    *)
(* not, trimmed away or still there, and a process that thinks itself       *)
(* drained is (RedisMarketDataConsumer, the drain of the runtime).          *)
NothingIsLost == AcknowledgedIsPersisted /\ UnpersistedIsRecoverable /\ UnpersistedAreCounted

LoopFails == \E s \in Session : Alive(s) /\ proc'[s].loop = "failed"

(* An entry never leaves the pending list unpersisted without failing the   *)
(* loop that made it leave: XAUTOCLAIM reports pending entries that were    *)
(* trimmed away.  Of entries trimmed before they were ever pending this     *)
(* says nothing; see TrimmingIsNeverSilent.                                 *)
PendingGapIsExplicit ==
  [][\A id \in pending \ pending' : Linked(id) \/ LoopFails]_vars

\* Entries the group has passed that were not persisted and never will be.
Lost == {id \in 1..delivered : id \notin pending /\ ~Linked(id)}

(* What adr/0008:14 says of the code, and the code does not do: every gap   *)
(* that trimming leaves fails a loop.  XREADGROUP skips entries trimmed     *)
(* before they were first read, and readNew does not look for them.         *)
TrimmingIsNeverSilent == [][Lost' \subseteq Lost \/ LoopFails]_vars

(* Liveness.                                                                *)

(* A process told to stop ends: every wait of the finally block is bounded. *)
StopEnds ==
  \A s \in Session : proc[s].main = "stopping" ~> proc[s].main = "ended"

(* If some process goes on running, every entry of the stream is settled:   *)
(* also those a crashed process had read and never acknowledged.            *)
RunningSettlesAll ==
  (\E s \in Session : <>[](proc[s].main = "running"))
    => <>[](pending = {} /\ Unread = {})
=============================================================================
