---------------------------- MODULE SignalReplay ----------------------------
(* A verified recording is projected in memory through the signal rules and *)
(* stored under a target named by its content.  Several processes may       *)
(* replay the same recording, fail, crash and start again; the replayed run *)
(* is claimed by a fence that every transaction compares.                   *)
EXTENDS SignalRules

CONSTANTS
  Process,
  Recordings,             \* verified schedules: sequences of bar events
  MaxStarts, MaxFaults    \* bounds

\* verifySignalReplayRecording: events of one session with distinct ids, of
\* both symbols, each with enough contiguous bars for one full window.
IsRecording(entries) ==
  LET events == Range(entries)
      starts(series) == {e.start : e \in {x \in events : x.series = series}}
  IN  /\ \A e, f \in events : e.id = f.id => e = f
      /\ {e.series : e \in events} = {"AAPL", "SPY"}
      /\ \A e, f \in events : Session(e.start) = Session(f.start)
      /\ \A e \in events : Session(e.start) # "closed"
      /\ \A series \in {"AAPL", "SPY"} :
           \E first \in starts(series) : (first .. first + Lookback) \subseteq starts(series)

ASSUME RecordingsAssumption ==
  /\ \A entries \in Recordings : entries \in Seq(Events) /\ IsRecording(entries)
  /\ MaxStarts \in Nat /\ MaxFaults \in Nat

ASSUME TargetAssumption ==
  /\ None \notin Nat
  /\ None \notin [state : {"active", "failed", "completed"}, cursor : Nat, fence : Nat \ {0}]

VARIABLES
  schedule,      \* the recording replayed
  ledger,        \* market_data_event_ledger
  target,        \* the row of signal_runs with its cursor, or None
  associations,  \* signal_run_transitions and signal_run_expected_membership
  stored,        \* signal_evaluations
  newest,        \* signal_run_latest_evaluations
  process,       \* what each process does
  starts, faults

tables == <<target, associations, stored, newest>>
replayVars == <<schedule, ledger, tables, process, starts, faults>>

Idle == [pc |-> "idle", fence |-> None, ordinal |-> 0, faulted |-> FALSE]

-----------------------------------------------------------------------------
(* projectVerifiedSignalReplay *)

ProjectEntry(state, event) ==
  LET entry == state.entry + 1
      bars == Apply(state.canonical, event)
      results == {Evaluate(bars, b) : b \in Affected(bars, event)}
      new == Transitions(state.latest, results)
  IN  IF Decide(state.canonical, event) = "no_op" THEN [state EXCEPT !.entry = entry]
      ELSE [entry |-> entry, canonical |-> bars,
            latest |-> Superseding(state.latest, results),
            artifacts |-> state.artifacts \o [i \in DOMAIN new |-> Associated(entry, new[i])]]

\* The state of the loop after each number of entries.
Stages(entries) ==
  LET after[n \in 0 .. Len(entries)] ==
        IF n = 0 THEN [entry |-> 0, canonical |-> {}, latest |-> {}, artifacts |-> <<>>]
        ELSE ProjectEntry(after[n - 1], entries[n])
  IN  after

Projected(entries) == Stages(entries)[Len(entries)]

Projections == [entries \in Recordings |-> Projected(entries).artifacts]

\* SignalReplayProjection.artifacts of the recording replayed.
projection == Projections[schedule]

\* The latest evaluations that a list of artifacts leaves.
LatestOf(artifacts) ==
  {artifacts[i].transition.current : i \in {j \in DOMAIN artifacts :
     \A k \in (j + 1) .. Len(artifacts) :
       ~SameKey(Of(artifacts[k].transition.current), Of(artifacts[j].transition.current))}}

-----------------------------------------------------------------------------

ReplayTypeOK ==
  /\ ledger \subseteq Range(schedule)
  /\ newest \subseteq stored
  /\ target = None \/ /\ target.state \in {"active", "failed", "completed"}
                      /\ target.fence \in 1 .. MaxStarts + 1
                      /\ target.cursor = Len(associations)
                      /\ target.cursor <= Len(projection)
  /\ \A p \in Process :
       /\ process[p].pc \in {"idle", "seed", "begin", "persist", "complete",
                             "failing", "failed", "done"}
       /\ process[p].fence \in (1 .. MaxStarts + 1) \cup {None}
       /\ process[p].ordinal \in 0 .. Len(projection) + 1 /\ process[p].faulted \in BOOLEAN
  /\ starts \in 0 .. MaxStarts /\ faults \in 0 .. MaxFaults

ReplayInit ==
  /\ schedule \in Recordings /\ ledger = {}
  /\ target = None /\ associations = <<>> /\ stored = {} /\ newest = {}
  /\ process = [p \in Process |-> Idle] /\ starts = 0 /\ faults = 0

Go(p, pc) == process' = [process EXCEPT ![p].pc = pc]

\* runCheckedSignalReplay seeds the catalogue and calls persistOnce, and again
\* after a failure or to repeat the replay, each with an adapter of its own.
Start(p) ==
  /\ process[p].pc \in {"idle", "failed", "done"} /\ starts < MaxStarts
  /\ starts' = starts + 1
  /\ process' = [process EXCEPT ![p] =
                   [Idle EXCEPT !.pc = IF process[p].pc = "idle" THEN "seed" ELSE "begin"]]
  /\ UNCHANGED <<schedule, ledger, tables, faults>>

\* seedVerifiedReplayCatalog: the events of the recording, none of them twice, in
\* one transaction that may be repeated.  When it or its answer is lost the
\* process ends, with no target to fail.
Seed(p) ==
  /\ process[p].pc = "seed"
  /\ ledger' = ledger \cup Range(schedule)
  /\ \/ Go(p, "begin") /\ UNCHANGED faults
     \/ /\ faults < MaxFaults /\ faults' = faults + 1
        /\ process' = [process EXCEPT ![p] = Idle]
  /\ UNCHANGED <<schedule, tables, starts>>

\* A call of the sink is rolled back, or its connection is lost.
Fault(p) ==
  /\ process[p].pc \in {"begin", "persist", "complete"} /\ faults < MaxFaults
  /\ faults' = faults + 1
  /\ process' = [process EXCEPT ![p].pc = "failing", ![p].faulted = TRUE]
  /\ UNCHANGED <<schedule, ledger, tables, starts>>

CrashReplay(p) ==
  /\ process[p].pc \in {"seed", "begin", "persist", "complete", "failing"} /\ faults < MaxFaults
  /\ faults' = faults + 1
  /\ process' = [process EXCEPT ![p] = Idle]
  /\ UNCHANGED <<schedule, ledger, tables, starts>>

\* What a process does after a transaction that committed: its answer arrives,
\* or is lost and the process takes the path of an error.
Answered(p, after) ==
  \/ process' = [process EXCEPT ![p] = after] /\ UNCHANGED faults
  \/ /\ faults < MaxFaults /\ faults' = faults + 1
     /\ process' = [process EXCEPT ![p].pc = "failing", ![p].faulted = TRUE]

\* The row after beginTarget: a completed target keeps its fence.
Begun(row) ==
  IF row.state = "completed" THEN row
  ELSE [row EXCEPT !.state = "active", !.fence = row.fence + 1]

\* The step after a target was begun or an association stored.
NextOrdinal(p, fence, ordinal) ==
  [process[p] EXCEPT !.fence = fence, !.ordinal = ordinal,
                     !.pc = IF ordinal <= Len(projection) THEN "persist" ELSE "complete"]

BeginTarget(p) ==
  LET row == IF target = None THEN [state |-> "active", cursor |-> 0, fence |-> 1] ELSE target
  IN  /\ process[p].pc = "begin"
      /\ target' = Begun(row)
      /\ Answered(p, NextOrdinal(p, Begun(row).fence, 1))
      /\ UNCHANGED <<schedule, ledger, associations, stored, newest, starts>>

\* An association at or below the cursor must be the stored one.
Verified(p) ==
  /\ process[p].ordinal <= target.cursor
  /\ associations[process[p].ordinal] = projection[process[p].ordinal]

\* Mutant of Advances: the ordinal is not compared with the cursor.
AdvancesAny(p) == target.state = "active"

Advances(p) == target.state = "active" /\ process[p].ordinal = target.cursor + 1

\* persistAssociation: the next association is stored with its membership, its
\* latest evaluation and the cursor in one transaction.
PersistAssociation(p) ==
  LET artifact == projection[process[p].ordinal]
      current == artifact.transition.current
  IN  /\ process[p].pc = "persist"
      /\ IF process[p].fence = target.fence /\ Advances(p)
         THEN /\ associations' = Append(associations, artifact)
              /\ stored' = Stored(stored, {current})
              /\ newest' = Superseding(newest, {current})
              /\ target' = [target EXCEPT !.cursor = @ + 1]
              /\ Answered(p, NextOrdinal(p, process[p].fence, process[p].ordinal + 1))
         ELSE /\ UNCHANGED <<target, associations, newest>>
              /\ IF process[p].fence = target.fence /\ Verified(p)
                 THEN /\ stored' = Stored(stored, {current})
                      /\ Answered(p, NextOrdinal(p, process[p].fence, process[p].ordinal + 1))
                 ELSE Go(p, "failing") /\ UNCHANGED <<stored, faults>>
      /\ UNCHANGED <<schedule, ledger, starts>>

\* #verifyCompletion: membership, associations and latest evaluations.
StoredAsProjected == associations = projection /\ newest = LatestOf(projection)

CompleteTarget(p) ==
  /\ process[p].pc = "complete"
  /\ IF /\ process[p].fence = target.fence
        /\ \/ target.state = "completed"
           \/ target.state = "active" /\ target.cursor = Len(projection) /\ StoredAsProjected
     THEN /\ target' = [target EXCEPT !.state = "completed"]
          /\ Answered(p, [process[p] EXCEPT !.pc = "done"])
     ELSE Go(p, "failing") /\ UNCHANGED <<target, faults>>
  /\ UNCHANGED <<schedule, ledger, associations, stored, newest, starts>>

\* Mutant of MayFail: whoever fails marks the target.
MayFailAny(p) == process[p].fence # None /\ target.state = "active"

\* The predicate of failTarget, which without a claim does nothing.
MayFail(p) ==
  process[p].fence # None /\ target.state = "active" /\ target.fence = process[p].fence

FailTarget(p) ==
  /\ process[p].pc = "failing"
  /\ target' = IF MayFail(p) THEN [target EXCEPT !.state = "failed"] ELSE target
  /\ Go(p, "failed")
  /\ UNCHANGED <<schedule, ledger, associations, stored, newest, starts, faults>>

ReplayNext == \E p \in Process :
  \/ Start(p) \/ Seed(p) \/ Fault(p) \/ CrashReplay(p)
  \/ BeginTarget(p) \/ PersistAssociation(p) \/ CompleteTarget(p) \/ FailTarget(p)

ReplaySpec == ReplayInit /\ [][ReplayNext]_replayVars

-----------------------------------------------------------------------------
(* Properties *)

\* A completed replay has the evaluations that one pass over the recording's
\* events gives, whatever their order and repetitions, whichever processes
\* stored them and wherever they were interrupted; and a replay that reports
\* success has completed its target, whose evaluations rest on events of the
\* ledger and are of transitions (persistVerifiedSignalReplay).
CompletedIsReference ==
  /\ stored = {associations[i].transition.current : i \in DOMAIN associations}
  /\ \A e \in stored : EvidenceOf(e) \subseteq ledger
  /\ \A p \in Process : process[p].pc = "done" => target # None /\ target.state = "completed"
  /\ target # None /\ target.state = "completed" => newest = Reference(Range(schedule))

\* A completed target never changes again, whoever repeats the replay or comes
\* late with an old claim (beginTarget, failTarget).
CompletedStays == target # None /\ target.state = "completed" => UNCHANGED tables

\* A replay fails by a fault of its own or because another took its target
\* over, never by what a process that lost the target still does (failTarget).
FailureIsItsOwn ==
  \A p \in Process :
    process[p].pc = "failed" /\ ~process[p].faulted => process[p].fence < target.fence

\* A target obeys its owner until it is complete, and nobody afterwards: both
\* conditions above, for every step of every process.
TargetsObeyTheirOwner == [][CompletedStays /\ FailureIsItsOwn']_replayVars
=============================================================================
