---------------------------- MODULE PortfolioProofs ----------------------------
(* Proofs about PortfolioSync for any set of workers and any bounds, and    *)
(* about PortfolioCapture for any accounts, page sizes and bounds.          *)
EXTENDS PortfolioSync, PortfolioCapture, FiniteSetTheorems, SequenceTheorems,
        NaturalsInduction, WellFoundedInduction, TLAPS

-----------------------------------------------------------------------------
(* Runs as pairs *)

\* A run id is a pair of its process and its cycle number.
LEMMA RunIdIsPair ==
  ASSUME NEW r \in RunIds
  PROVE  /\ r = <<r[1], r[2]>>
         /\ r[1] \in Workers
         /\ r[2] \in 1..MaxCycles
BY DEF RunIds

\* The run of a process in a cycle is a run id.
LEMMA PairIsRunId ==
  ASSUME NEW w \in Workers, NEW n \in 1..MaxCycles
  PROVE  /\ <<w, n>> \in RunIds
         /\ <<w, n>>[1] = w
         /\ <<w, n>>[2] = n
BY DEF RunIds

\* The run the process is working on exists once it has begun a cycle.
LEMMA MyRunIsRunId ==
  ASSUME TypeOK, NEW w \in Workers, cycle[w] > 0
  PROVE  /\ MyRun(w) \in RunIds
         /\ MyRun(w)[1] = w
         /\ MyRun(w)[2] = cycle[w]
<1>1. cycle[w] \in 1..MaxCycles
  BY MaxCyclesAssumption DEF TypeOK
<1>. QED
  BY <1>1, PairIsRunId DEF MyRun

-----------------------------------------------------------------------------
(* Type correctness *)

\* The initial state is well typed.
LEMMA TypeInit == Init => TypeOK
<1>. SUFFICES ASSUME Init PROVE TypeOK
  OBVIOUS
<1>1. runs \in [RunIds -> Run]
  BY DEF Init, Run, NoRow, RunStates
<1>2. leaseTtl \in 0..LeaseTicks /\ cycle \in [Workers -> 0..MaxCycles]
  BY LeaseTicksAssumption, MaxCyclesAssumption DEF Init
<1>3. phase \in [Workers -> Phases] /\ lifecycle \in Lifecycles
  BY DEF Init, Phases, Lifecycles
<1>. QED
  BY <1>1, <1>2, <1>3 DEF Init, TypeOK

\* No step leaves the types.
LEMMA TypeStep == TypeOK /\ [Next]_vars => TypeOK'
<1>. SUFFICES ASSUME TypeOK, [Next]_vars PROVE TypeOK'
  OBVIOUS
<1>. USE MaxCyclesAssumption, LeaseTicksAssumption
<1>1. CASE UNCHANGED vars
  BY <1>1 DEF TypeOK, vars
<1>2. CASE Tick
  BY <1>2 DEF TypeOK, Tick, procVars
<1>3. ASSUME NEW w \in Workers, Start(w) PROVE TypeOK'
  <2>1. ASSUME NEW ack \in BOOLEAN, AcquireLease(w, ack) PROVE TypeOK'
    <3>1. /\ owner' \in Workers /\ fenceToken' \in Nat /\ leaseTtl' \in 0..LeaseTicks
          /\ fence' \in [Workers -> Nat] /\ lifecycle' \in Lifecycles
      BY <2>1 DEF AcquireLease, TypeOK, Lifecycles
    <3>2. phase' \in [Workers -> Phases]
      BY <2>1 DEF AcquireLease, TypeOK, Goto, Exit, Phases
    <3>. QED
      BY <2>1, <3>1, <3>2 DEF AcquireLease, TypeOK, Exit, memoryVars
  <2>2. CASE AcquireRefused(w)
    BY <2>2 DEF AcquireRefused, TypeOK, Exit, Goto, statusVars, Phases
  <2>. QED
    BY <1>3, <2>1, <2>2 DEF Start
<1>4. ASSUME NEW w \in Workers, Work(w) PROVE TypeOK'
  <2>1. ASSUME NEW ack \in BOOLEAN, SweepOlderRuns(w, ack) PROVE TypeOK'
    <3>1. runs' \in [RunIds -> Run]
      BY <2>1 DEF SweepOlderRuns, TypeOK, Run, RunStates
    <3>. QED
      BY <2>1, <3>1 DEF SweepOlderRuns, TypeOK, Goto, Exit, memoryVars, statusVars, Phases
  <2>2. CASE SweepFails(w)
    BY <2>2 DEF SweepFails, TypeOK, Exit, Goto, statusVars, Phases
  <2>3. CASE LeaveLoop(w)
    BY <2>3 DEF LeaveLoop, TypeOK, Goto, statusVars, Phases
  <2>4. ASSUME NEW ack \in BOOLEAN, BeginSync(w, ack) PROVE TypeOK'
    <3>1. runs' \in [RunIds -> Run]
      BY <2>4 DEF BeginSync, TypeOK, Run, RunStates
    <3>2. cycle' \in [Workers -> 0..MaxCycles]
      BY <2>4 DEF BeginSync, TypeOK
    <3>. QED
      BY <2>4, <3>1, <3>2 DEF BeginSync, TypeOK, Goto, Phases, Lifecycles
  <2>5. CASE BeginFenced(w)
    BY <2>5 DEF BeginFenced, TypeOK, CycleFailed, EndCycle, Goto, statusVars, Phases
  <2>6. CASE BeginFails(w)
    BY <2>6 DEF BeginFails, TypeOK, CycleFailed, EndCycle, Goto, statusVars, Phases
  <2>7. CASE ReadCurrentSnapshot(w)
    BY <2>7 DEF ReadCurrentSnapshot, TypeOK, Goto, statusVars, Phases
  <2>8. CASE CaptureSnapshot(w)
    BY <2>8 DEF CaptureSnapshot, TypeOK, Goto, statusVars, procVars, Phases
  <2>9. CASE WriteCandidate(w)
    BY <2>9 DEF WriteCandidate, TypeOK, Goto, statusVars, procVars, Phases
  <2>10. CASE StepFails(w)
    BY <2>10 DEF StepFails, TypeOK, Fail, Goto, statusVars, Phases
  <2>11. ASSUME NEW ack \in BOOLEAN, Promote(w, ack) PROVE TypeOK'
    <3>1. MyRun(w) \in RunIds
      BY <2>11, MyRunIsRunId DEF Promote, OwnsPending
    <3>2. runs' \in [RunIds -> Run] /\ current' \in RunIds
      BY <2>11, <3>1, ZenonT(60) DEF Promote, TypeOK, Run, RunStates
    <3>. QED
      BY <2>11, <3>2 DEF Promote, TypeOK, Fail, EndCycle, Goto, Phases, Lifecycles
  <2>12. CASE PromoteFenced(w)
    BY <2>12 DEF PromoteFenced, TypeOK, Fail, Goto, statusVars, Phases
  <2>13. CASE FailSync(w)
    <3>1. runs' \in [RunIds -> Run]
      BY <2>13, ZenonT(60) DEF FailSync, TypeOK, Run, RunStates
    <3>. QED
      BY <2>13, <3>1 DEF FailSync, TypeOK, CycleFailed, EndCycle, Goto, Phases, Lifecycles
  <2>14. CASE FailSyncFenced(w)
    BY <2>14 DEF FailSyncFenced, TypeOK, CycleFailed, EndCycle, Goto, statusVars, Phases
  <2>15. CASE FailSyncUnpersisted(w)
    BY <2>15 DEF FailSyncUnpersisted, TypeOK, CycleFailed, EndCycle, Goto, statusVars, Phases
  <2>16. CASE Wait(w)
    BY <2>16 DEF Wait, TypeOK, Goto, statusVars, procVars, Phases
  <2>17. CASE ReleaseLease(w)
    BY <2>17 DEF ReleaseLease, FailureAfterRelease, TypeOK, Exit, Goto, statusVars, Phases, Lifecycles
  <2>. QED
    BY <1>4, <2>1, <2>2, <2>3, <2>4, <2>5, <2>6, <2>7, <2>8, <2>9, <2>10, <2>11,
       <2>12, <2>13, <2>14, <2>15, <2>16, <2>17 DEF Work
<1>5. ASSUME NEW w \in Workers, Environment(w) PROVE TypeOK'
  <2>1. CASE RenewLease(w)
    BY <2>1 DEF RenewLease, RenewedTtl, TypeOK, procVars
  <2>2. CASE RenewFails(w)
    BY <2>2 DEF RenewFails, TypeOK, statusVars
  <2>3. CASE Shutdown(w)
    BY <2>3 DEF Shutdown, TypeOK, statusVars
  <2>4. CASE Crash(w)
    BY <2>4 DEF Crash, TypeOK, Exit, Goto, statusVars, Phases
  <2>. QED
    BY <1>5, <2>1, <2>2, <2>3, <2>4 DEF Environment
<1>. QED
  BY <1>1, <1>2, <1>3, <1>4, <1>5 DEF Next

\* Every variable keeps its type, for any number of workers and cycles.
THEOREM TypeCorrect == Spec => []TypeOK
BY TypeInit, TypeStep, PTL DEF Spec

-----------------------------------------------------------------------------
(* What each step leaves alone *)

\* Only an acquisition moves the fence or the claims; a release only clears the
\* owner; no process becomes idle again.
LEMMA ClaimFrame ==
  ASSUME TypeOK, [Next]_vars
  PROVE  /\ \/ UNCHANGED <<owner, fenceToken, fence>>
            \/ \E w \in Workers, ack \in BOOLEAN : AcquireLease(w, ack)
            \/ \E w \in Workers : ReleaseLease(w)
         /\ \A v \in Workers : phase'[v] = "idle" => phase[v] = "idle"
<1>. USE DEF statusVars, procVars
<1>1. CASE UNCHANGED vars
  BY <1>1 DEF vars
<1>2. CASE Tick
  BY <1>2 DEF Tick
<1>3. ASSUME NEW w \in Workers, Start(w)
      PROVE  /\ \/ UNCHANGED <<owner, fenceToken, fence>>
                \/ \E ack \in BOOLEAN : AcquireLease(w, ack)
             /\ \A v \in Workers : phase'[v] = "idle" => phase[v] = "idle"
  BY <1>3 DEF Start, AcquireLease, AcquireRefused, TypeOK, Goto, Exit
<1>4. ASSUME NEW w \in Workers, Work(w)
      PROVE  /\ \/ UNCHANGED <<owner, fenceToken, fence>>
                \/ ReleaseLease(w)
             /\ \A v \in Workers : phase'[v] = "idle" => phase[v] = "idle"
  <2>1. \/ UNCHANGED <<owner, fenceToken, fence>>
        \/ ReleaseLease(w)
    BY <1>4 DEF Work, SweepOlderRuns, SweepFails, LeaveLoop, BeginSync, BeginFenced,
                BeginFails, ReadCurrentSnapshot, CaptureSnapshot, WriteCandidate,
                StepFails, Promote, PromoteFenced, FailSync, FailSyncFenced,
                FailSyncUnpersisted, Wait
  <2>2. \E p \in Phases \ {"idle"} : phase' = [phase EXCEPT ![w] = p]
    BY <1>4 DEF Work, SweepOlderRuns, SweepFails, LeaveLoop, BeginSync, BeginFenced,
                BeginFails, ReadCurrentSnapshot, CaptureSnapshot, WriteCandidate,
                StepFails, Promote, PromoteFenced, FailSync, FailSyncFenced,
                FailSyncUnpersisted, Wait, ReleaseLease, Goto, Exit, Fail, EndCycle,
                CycleFailed, Phases
  <2>. QED
    BY <2>1, <2>2 DEF TypeOK
<1>5. ASSUME NEW w \in Workers, Environment(w)
      PROVE  /\ UNCHANGED <<owner, fenceToken, fence>>
             /\ \A v \in Workers : phase'[v] = "idle" => phase[v] = "idle"
  BY <1>5 DEF Environment, RenewLease, RenewFails, Shutdown, Crash, Exit, Goto, TypeOK
<1>. QED
  BY <1>1, <1>2, <1>3, <1>4, <1>5 DEF Next

\* Only these four statements write runs, and only beginSync counts a cycle.
LEMMA RunsFrame ==
  ASSUME [Next]_vars
  PROVE  \/ UNCHANGED <<runs, cycle>>
         \/ \E w \in Workers, ack \in BOOLEAN : SweepOlderRuns(w, ack)
         \/ \E w \in Workers, ack \in BOOLEAN : BeginSync(w, ack)
         \/ \E w \in Workers, ack \in BOOLEAN : Promote(w, ack)
         \/ \E w \in Workers : FailSync(w)
<1>. USE DEF procVars
<1>1. ASSUME NEW w \in Workers, Start(w) PROVE UNCHANGED <<runs, cycle>>
  BY <1>1 DEF Start, AcquireLease, AcquireRefused
<1>2. ASSUME NEW w \in Workers, Work(w)
      PROVE  \/ UNCHANGED <<runs, cycle>>
             \/ \E ack \in BOOLEAN : SweepOlderRuns(w, ack)
             \/ \E ack \in BOOLEAN : BeginSync(w, ack)
             \/ \E ack \in BOOLEAN : Promote(w, ack)
             \/ FailSync(w)
  BY <1>2 DEF Work, SweepFails, LeaveLoop, BeginFenced, BeginFails,
              ReadCurrentSnapshot, CaptureSnapshot, WriteCandidate, StepFails,
              PromoteFenced, FailSyncFenced, FailSyncUnpersisted, Wait, ReleaseLease
<1>3. ASSUME NEW w \in Workers, Environment(w) PROVE UNCHANGED <<runs, cycle>>
  BY <1>3 DEF Environment, RenewLease, RenewFails, Shutdown, Crash
<1>. QED
  BY <1>1, <1>2, <1>3 DEF Next, Tick, vars

\* Only a promotion moves the pointer or clears a failure.
LEMMA PointerFrame ==
  ASSUME [Next]_vars
  PROVE  \/ UNCHANGED current /\ (failureCode => failureCode')
         \/ \E w \in Workers, ack \in BOOLEAN : Promote(w, ack)
<1>. USE DEF statusVars
<1>1. ASSUME NEW w \in Workers, Start(w)
      PROVE  UNCHANGED current /\ (failureCode => failureCode')
  BY <1>1 DEF Start, AcquireLease, AcquireRefused
<1>2. ASSUME NEW w \in Workers, Work(w)
      PROVE  \/ UNCHANGED current /\ (failureCode => failureCode')
             \/ \E ack \in BOOLEAN : Promote(w, ack)
  BY <1>2 DEF Work, SweepOlderRuns, SweepFails, LeaveLoop, BeginSync, BeginFenced,
              BeginFails, ReadCurrentSnapshot, CaptureSnapshot, WriteCandidate,
              StepFails, PromoteFenced, FailSync, FailSyncFenced,
              FailSyncUnpersisted, Wait, ReleaseLease, FailureAfterRelease
<1>3. ASSUME NEW w \in Workers, Environment(w)
      PROVE  UNCHANGED current /\ (failureCode => failureCode')
  BY <1>3 DEF Environment, RenewLease, RenewFails, Shutdown, Crash
<1>. QED
  BY <1>1, <1>2, <1>3 DEF Next, Tick, vars
-----------------------------------------------------------------------------
(* The inductive invariant *)

\* Fences are issued once, and the row names the fence of its owner.
Claims ==
  /\ \A w \in Workers : fence[w] =< fenceToken
  /\ \A w \in Workers : owner = w => fence[w] = fenceToken /\ fence[w] > 0
  /\ \A w \in Workers : phase[w] = "idle" => fence[w] = 0 /\ cycle[w] = 0
  /\ \A v, w \in Workers : v # w /\ fence[v] = fence[w] => fence[v] = 0

\* A run carries the only fence its process ever had, and is one of the cycles
\* that process began.
RunsCarryClaims ==
  \A r \in RunIds :
    IF runs[r].state = "absent" THEN runs[r] = NoRow
    ELSE r[2] =< cycle[r[1]] /\ runs[r].fence = fence[r[1]] /\ runs[r].fence > 0

\* The selected snapshot is complete.
SelectedIsComplete == current # NoRun => runs[current].state = "completed"

\* What the owner read before capturing is still the selected snapshot, and a
\* candidate was compared with a snapshot of the same account.
ReadIsCurrent ==
  \A w \in Workers :
    /\ (owner = w /\ phase[w] \in {"capturing", "completing", "promoting"})
         => previous[w] = current
    /\ phase[w] \in {"completing", "promoting"} => SameAccount(w)

Inv ==
  /\ TypeOK
  /\ Claims
  /\ RunsCarryClaims
  /\ SelectedIsComplete
  /\ ReadIsCurrent
  /\ CurrentIsNewest
  /\ NoOrphanBehindOwner
  /\ OnePendingPerClaim

\* The invariant holds initially.
LEMMA InvInit == Init => Inv
<1>. SUFFICES ASSUME Init PROVE Inv
  OBVIOUS
<1>1. TypeOK
  BY TypeInit
<1>2. Claims
  BY NoWorkerAssumption DEF Init, Claims
<1>3. \A r \in RunIds : runs[r] = NoRow /\ runs[r].state = "absent"
  BY DEF Init, NoRow
<1>4. RunsCarryClaims /\ CurrentIsNewest /\ NoOrphanBehindOwner /\ OnePendingPerClaim
  BY <1>3 DEF RunsCarryClaims, CurrentIsNewest, NoOrphanBehindOwner, OnePendingPerClaim
<1>5. SelectedIsComplete /\ ReadIsCurrent
  BY DEF Init, SelectedIsComplete, ReadIsCurrent
<1>. QED
  BY <1>1, <1>2, <1>4, <1>5 DEF Inv

\* Fences stay unique: an acquisition takes a number above every earlier one.
LEMMA ClaimsStep == Inv /\ [Next]_vars => Claims'
<1>. SUFFICES ASSUME Inv, [Next]_vars PROVE Claims'
  OBVIOUS
<1>. USE DEF Inv
<1>1. /\ \A v \in Workers : phase'[v] = "idle" => phase[v] = "idle"
  BY ClaimFrame
<1>2. \A v \in Workers : phase'[v] = "idle" => cycle'[v] = 0
  <2>. SUFFICES ASSUME NEW v \in Workers, phase'[v] = "idle" PROVE cycle'[v] = 0
    OBVIOUS
  <2>1. phase[v] = "idle" /\ cycle[v] = 0
    BY <1>1 DEF Claims
  <2>2. ASSUME NEW w \in Workers, NEW ack \in BOOLEAN, BeginSync(w, ack)
        PROVE  cycle'[v] = 0
    BY <2>1, <2>2 DEF BeginSync, MayBegin, TypeOK
  <2>. QED
    BY <2>1, <2>2, RunsFrame, Zenon DEF SweepOlderRuns, Promote, FailSync
<1>3. CASE UNCHANGED <<owner, fenceToken, fence>>
  BY <1>1, <1>2, <1>3 DEF Claims
<1>4. ASSUME NEW w \in Workers, NEW ack \in BOOLEAN, AcquireLease(w, ack)
      PROVE  Claims'
  <2>1. /\ owner' = w /\ fenceToken' = fenceToken + 1
        /\ fence' = [fence EXCEPT ![w] = fenceToken + 1]
    BY <1>4 DEF AcquireLease
  <2>2. phase'[w] # "idle"
    BY <1>4 DEF AcquireLease, Goto, Exit, TypeOK
  <2>3. fenceToken \in Nat /\ \A v \in Workers : fence[v] \in Nat
    BY DEF TypeOK
  <2>4. \A v \in Workers : fence'[v] = IF v = w THEN fenceToken + 1 ELSE fence[v]
    BY <2>1 DEF TypeOK
  <2>. QED
    BY <1>1, <1>2, <2>1, <2>2, <2>3, <2>4 DEF Claims
<1>5. ASSUME NEW w \in Workers, ReleaseLease(w) PROVE Claims'
  <2>1. fenceToken' = fenceToken /\ fence' = fence /\ owner' \in {owner, NoWorker}
    BY <1>5 DEF ReleaseLease, statusVars
  <2>. QED
    BY <1>1, <1>2, <2>1, NoWorkerAssumption DEF Claims
<1>. QED
  BY <1>3, <1>4, <1>5, ClaimFrame

\* What a beginSync writes, run by run.
LEMMA BeginSyncRuns ==
  ASSUME TypeOK, NEW w \in Workers, NEW ack \in BOOLEAN, BeginSync(w, ack)
  PROVE  LET new == <<w, cycle[w] + 1>> IN
         /\ new \in RunIds /\ new[1] = w /\ new[2] = cycle[w] + 1
         /\ runs'[new] = [state |-> "pending", fence |-> fence[w], previous |-> NoRun]
         /\ \A r \in RunIds \ {new} :
              IF Superseded(w, r) THEN runs'[r] = [runs[r] EXCEPT !.state = "failed"]
              ELSE runs'[r] = runs[r]
<1>1. cycle[w] + 1 \in 1..MaxCycles
  BY MaxCyclesAssumption DEF BeginSync, TypeOK
<1>2. <<w, cycle[w] + 1>> \in RunIds
  BY <1>1, PairIsRunId
<1>. QED
  BY <1>2, PairIsRunId, <1>1 DEF BeginSync

\* Runs keep the claim they were created with, and none is created twice.
LEMMA RunsCarryClaimsStep == Inv /\ [Next]_vars => RunsCarryClaims'
<1>. SUFFICES ASSUME Inv, [Next]_vars, NEW r \in RunIds
              PROVE  IF runs'[r].state = "absent" THEN runs'[r] = NoRow
                     ELSE /\ r[2] =< cycle'[r[1]]
                          /\ runs'[r].fence = fence'[r[1]]
                          /\ runs'[r].fence > 0
  BY DEF RunsCarryClaims
<1>. USE DEF Inv
<1>1. r[1] \in Workers /\ r[2] \in 1..MaxCycles
  BY RunIdIsPair
<1>2. runs[r] \in Run /\ fence[r[1]] \in Nat /\ cycle[r[1]] \in 0..MaxCycles
  BY <1>1 DEF TypeOK
<1>3. runs[r].state # "absent" => fence'[r[1]] = fence[r[1]]
  <2>1. ASSUME NEW w \in Workers, NEW ack \in BOOLEAN, AcquireLease(w, ack),
               runs[r].state # "absent"
        PROVE  fence'[r[1]] = fence[r[1]]
    <3>1. r[1] # w
      BY <1>1, <1>2, <2>1 DEF AcquireLease, Claims, RunsCarryClaims
    <3>. QED
      BY <1>1, <2>1, <3>1 DEF AcquireLease, TypeOK
  <2>. QED
    BY <2>1, ClaimFrame DEF ReleaseLease
<1>4. ASSUME UNCHANGED cycle,
             \/ runs'[r] = runs[r]
             \/ /\ runs[r].state # "absent"
                /\ runs'[r].state # "absent"
                /\ runs'[r].fence = runs[r].fence
      PROVE  IF runs'[r].state = "absent" THEN runs'[r] = NoRow
             ELSE /\ r[2] =< cycle'[r[1]]
                  /\ runs'[r].fence = fence'[r[1]]
                  /\ runs'[r].fence > 0
  BY <1>3, <1>4 DEF RunsCarryClaims, NoRow
<1>5. CASE UNCHANGED <<runs, cycle>>
  BY <1>4, <1>5
<1>6. ASSUME NEW w \in Workers, NEW ack \in BOOLEAN, SweepOlderRuns(w, ack)
      PROVE  /\ UNCHANGED cycle
             /\ \/ runs'[r] = runs[r]
                \/ /\ runs[r].state # "absent"
                   /\ runs'[r].state # "absent"
                   /\ runs'[r].fence = runs[r].fence
  BY <1>2, <1>6 DEF SweepOlderRuns, Sweepable, Run
<1>7. ASSUME NEW w \in Workers, NEW ack \in BOOLEAN, BeginSync(w, ack)
      PROVE  IF runs'[r].state = "absent" THEN runs'[r] = NoRow
             ELSE /\ r[2] =< cycle'[r[1]]
                  /\ runs'[r].fence = fence'[r[1]]
                  /\ runs'[r].fence > 0
  <2>1. fence' = fence /\ cycle' = [cycle EXCEPT ![w] = @ + 1]
    BY <1>7 DEF BeginSync
  <2>2. \A v \in Workers : cycle'[v] >= cycle[v] /\ cycle[v] \in Nat /\ cycle'[v] \in Nat
    BY <2>1, MaxCyclesAssumption DEF TypeOK
  <2>3. fence[w] > 0
    BY <1>7 DEF BeginSync, HoldsLease, Claims
  <2>4. CASE r = <<w, cycle[w] + 1>>
    <3>1. r[1] = w /\ r[2] = cycle[w] + 1
          /\ runs'[r] = [state |-> "pending", fence |-> fence[w], previous |-> NoRun]
      BY <1>7, <2>4, BeginSyncRuns
    <3>2. cycle'[w] = cycle[w] + 1
      BY <2>1 DEF TypeOK
    <3>. QED
      BY <2>1, <2>2, <2>3, <3>1, <3>2
  <2>5. CASE r # <<w, cycle[w] + 1>>
    <3>1. IF Superseded(w, r) THEN runs'[r] = [runs[r] EXCEPT !.state = "failed"]
          ELSE runs'[r] = runs[r]
      BY <1>7, <2>5, BeginSyncRuns
    <3>2. \/ runs'[r] = runs[r]
          \/ /\ runs[r].state # "absent"
             /\ runs'[r].state # "absent"
             /\ runs'[r].fence = runs[r].fence
      BY <1>2, <3>1 DEF Superseded, Run
    <3>. QED
      BY <1>1, <1>2, <2>1, <2>2, <3>2 DEF RunsCarryClaims, NoRow
  <2>. QED
    BY <2>4, <2>5
<1>8. ASSUME NEW w \in Workers, NEW ack \in BOOLEAN, Promote(w, ack)
      PROVE  /\ UNCHANGED cycle
             /\ \/ runs'[r] = runs[r]
                \/ /\ runs[r].state # "absent"
                   /\ runs'[r].state # "absent"
                   /\ runs'[r].fence = runs[r].fence
  BY <1>2, <1>8 DEF Promote, OwnsPending, TypeOK, Run
<1>9. ASSUME NEW w \in Workers, FailSync(w)
      PROVE  /\ UNCHANGED cycle
             /\ \/ runs'[r] = runs[r]
                \/ /\ runs[r].state # "absent"
                   /\ runs'[r].state # "absent"
                   /\ runs'[r].fence = runs[r].fence
  BY <1>2, <1>9 DEF FailSync, OwnsPending, TypeOK, Run
<1>. QED
  BY <1>4, <1>5, <1>6, <1>7, <1>8, <1>9, RunsFrame
-----------------------------------------------------------------------------
(* Complete runs and the pointer *)

\* What a promotion writes, run by run.
LEMMA PromoteRuns ==
  ASSUME TypeOK, NEW w \in Workers, NEW ack \in BOOLEAN, Promote(w, ack)
  PROVE  /\ MyRun(w) \in RunIds /\ MyRun(w)[1] = w /\ MyRun(w)[2] = cycle[w]
         /\ runs[MyRun(w)].state = "pending"
         /\ runs[MyRun(w)].fence = fence[w]
         /\ runs'[MyRun(w)].state = "completed"
         /\ runs'[MyRun(w)].previous = previous[w]
         /\ \A r \in RunIds \ {MyRun(w)} : runs'[r] = runs[r]
         /\ \A r \in RunIds : runs'[r].fence = runs[r].fence
         /\ current' = MyRun(w)
<1>1. /\ MyRun(w) \in RunIds /\ MyRun(w)[1] = w /\ MyRun(w)[2] = cycle[w]
  BY MyRunIsRunId DEF Promote, OwnsPending
<1>. QED
  BY <1>1 DEF Promote, OwnsPending, TypeOK, Run

\* Apart from promotions, complete runs and predecessors never change.
LEMMA CompletedFrame ==
  ASSUME Inv, [Next]_vars
  PROVE  \/ \A r \in RunIds :
              /\ runs'[r].state = "completed" <=> runs[r].state = "completed"
              /\ runs'[r].previous = runs[r].previous
         \/ \E w \in Workers, ack \in BOOLEAN : Promote(w, ack)
<1>. USE DEF Inv
<1>1. ASSUME NEW w \in Workers, NEW ack \in BOOLEAN, SweepOlderRuns(w, ack),
             NEW r \in RunIds
      PROVE  /\ runs'[r].state = "completed" <=> runs[r].state = "completed"
             /\ runs'[r].previous = runs[r].previous
  BY <1>1 DEF SweepOlderRuns, Sweepable, TypeOK, Run
<1>2. ASSUME NEW w \in Workers, NEW ack \in BOOLEAN, BeginSync(w, ack),
             NEW r \in RunIds
      PROVE  /\ runs'[r].state = "completed" <=> runs[r].state = "completed"
             /\ runs'[r].previous = runs[r].previous
  <2>0. runs[r] \in Run
    BY DEF TypeOK
  <2>1. CASE r = <<w, cycle[w] + 1>>
    <3>1. r[1] = w /\ r[2] = cycle[w] + 1
          /\ runs'[r] = [state |-> "pending", fence |-> fence[w], previous |-> NoRun]
      BY <1>2, <2>1, BeginSyncRuns
    <3>2. cycle[w] \in Nat
      BY MaxCyclesAssumption DEF TypeOK
    <3>3. runs[r] = NoRow
      BY <3>1, <3>2 DEF RunsCarryClaims
    <3>. QED
      BY <3>1, <3>3 DEF NoRow
  <2>2. CASE r # <<w, cycle[w] + 1>>
    <3>1. IF Superseded(w, r) THEN runs'[r] = [runs[r] EXCEPT !.state = "failed"]
          ELSE runs'[r] = runs[r]
      BY <1>2, <2>2, BeginSyncRuns
    <3>. QED
      BY <2>0, <3>1 DEF Superseded, Run
  <2>. QED
    BY <2>1, <2>2
<1>3. ASSUME NEW w \in Workers, FailSync(w), NEW r \in RunIds
      PROVE  /\ runs'[r].state = "completed" <=> runs[r].state = "completed"
             /\ runs'[r].previous = runs[r].previous
  BY <1>3 DEF FailSync, OwnsPending, TypeOK, Run
<1>. QED
  BY <1>1, <1>2, <1>3, RunsFrame

\* The pointer always names a complete run.
LEMMA SelectedIsCompleteStep == Inv /\ [Next]_vars => SelectedIsComplete'
<1>. SUFFICES ASSUME Inv, [Next]_vars PROVE SelectedIsComplete'
  OBVIOUS
<1>. USE DEF Inv
<1>1. ASSUME NEW w \in Workers, NEW ack \in BOOLEAN, Promote(w, ack)
      PROVE  SelectedIsComplete'
  BY <1>1, PromoteRuns DEF SelectedIsComplete
<1>. QED
  BY <1>1, CompletedFrame, PointerFrame DEF SelectedIsComplete, TypeOK

\* A promotion selects the newest complete run: the owner's fence is the highest
\* ever issued, and its cycle the last one it began.
LEMMA CurrentIsNewestStep == Inv /\ [Next]_vars => CurrentIsNewest'
<1>. SUFFICES ASSUME Inv, [Next]_vars PROVE CurrentIsNewest'
  OBVIOUS
<1>. USE DEF Inv
<1>1. ASSUME NEW w \in Workers, NEW ack \in BOOLEAN, Promote(w, ack)
      PROVE  CurrentIsNewest'
  <2>. DEFINE m == MyRun(w)
  <2>1. /\ m \in RunIds /\ m[1] = w /\ m[2] = cycle[w]
        /\ runs[m].fence = fence[w]
        /\ runs'[m].state = "completed"
        /\ \A r \in RunIds \ {m} : runs'[r] = runs[r]
        /\ \A r \in RunIds : runs'[r].fence = runs[r].fence
        /\ current' = m
    BY <1>1, PromoteRuns
  <2>2. fence[w] = fenceToken
    BY <1>1 DEF Promote, HoldsLease
  <2>3. ASSUME NEW r \in RunIds, runs'[r].state = "completed"
        PROVE  runs'[r].fence < runs'[m].fence \/ (r[1] = m[1] /\ r[2] =< m[2])
    <3>1. CASE r = m
      BY <2>1, <3>1, MaxCyclesAssumption DEF TypeOK
    <3>2. CASE r # m
      <4>1. runs[r].state = "completed"
        BY <2>1, <2>3, <3>2
      <4>2. /\ r[2] =< cycle[r[1]] /\ runs[r].fence = fence[r[1]]
            /\ fence[r[1]] > 0 /\ r[1] \in Workers
        BY <4>1, RunIdIsPair DEF RunsCarryClaims
      <4>3. fence[r[1]] =< fenceToken /\ fence[r[1]] \in Nat /\ fenceToken \in Nat
        BY <4>2 DEF Claims, TypeOK
      <4>4. CASE r[1] = w
        BY <2>1, <4>2, <4>4
      <4>5. CASE r[1] # w
        <5>1. fence[r[1]] # fence[w]
          BY <4>2, <4>3, <4>5 DEF Claims
        <5>. QED
          BY <2>1, <2>2, <4>2, <4>3, <5>1
      <4>. QED
        BY <4>4, <4>5
    <3>. QED
      BY <3>1, <3>2
  <2>4. current' # NoRun
    BY <2>1, NoRunAssumption
  <2>. QED
    BY <2>1, <2>3, <2>4 DEF CurrentIsNewest
<1>2. CASE ~ \E w \in Workers, ack \in BOOLEAN : Promote(w, ack)
  <2>1. /\ current' = current
        /\ \A r \in RunIds : runs'[r].state = "completed" <=> runs[r].state = "completed"
    BY <1>2, CompletedFrame, PointerFrame
  <2>2. ASSUME NEW r \in RunIds, runs[r].state = "completed"
        PROVE  runs'[r].fence = runs[r].fence
    <3>1. ASSUME NEW w \in Workers, NEW ack \in BOOLEAN, BeginSync(w, ack)
          PROVE  runs'[r].fence = runs[r].fence
      <4>1. CASE r = <<w, cycle[w] + 1>>
        <5>1. r[1] = w /\ r[2] = cycle[w] + 1
          BY <3>1, <4>1, BeginSyncRuns
        <5>2. cycle[w] \in Nat
          BY MaxCyclesAssumption DEF TypeOK
        <5>. QED
          BY <2>2, <5>1, <5>2 DEF RunsCarryClaims
      <4>2. CASE r # <<w, cycle[w] + 1>>
        <5>1. IF Superseded(w, r) THEN runs'[r] = [runs[r] EXCEPT !.state = "failed"]
              ELSE runs'[r] = runs[r]
          BY <3>1, <4>2, BeginSyncRuns
        <5>. QED
          BY <2>2, <5>1 DEF Superseded
      <4>. QED
        BY <4>1, <4>2
    <3>. QED
      BY <1>2, <2>2, <3>1, RunsFrame
         DEF SweepOlderRuns, Sweepable, FailSync, OwnsPending, TypeOK, Run
  <2>3. CASE current = NoRun
    BY <2>1, <2>3 DEF CurrentIsNewest
  <2>4. CASE current # NoRun
    <3>1. current \in RunIds /\ runs[current].state = "completed"
      BY <2>4 DEF TypeOK, SelectedIsComplete
    <3>. QED
      BY <2>1, <2>2, <3>1 DEF CurrentIsNewest
  <2>. QED
    BY <2>3, <2>4
<1>. QED
  BY <1>1, <1>2
-----------------------------------------------------------------------------
(* What a process read before it promotes *)

\* A process enters these phases only by reading, comparing and writing.
LEMMA PhaseFrame ==
  ASSUME TypeOK, [Next]_vars, NEW v \in Workers
  PROVE  /\ phase'[v] = "capturing" =>
              (phase[v] = "capturing" /\ previous'[v] = previous[v])
              \/ ReadCurrentSnapshot(v)
         /\ phase'[v] = "completing" =>
              (phase[v] = "completing" /\ previous'[v] = previous[v])
              \/ CaptureSnapshot(v)
         /\ phase'[v] = "promoting" =>
              (phase[v] = "promoting" /\ previous'[v] = previous[v])
              \/ WriteCandidate(v)
<1>. DEFINE Framed ==
       /\ phase'[v] = "capturing" =>
            (phase[v] = "capturing" /\ previous'[v] = previous[v])
            \/ ReadCurrentSnapshot(v)
       /\ phase'[v] = "completing" =>
            (phase[v] = "completing" /\ previous'[v] = previous[v])
            \/ CaptureSnapshot(v)
       /\ phase'[v] = "promoting" =>
            (phase[v] = "promoting" /\ previous'[v] = previous[v])
            \/ WriteCandidate(v)
<1>. USE DEF memoryVars, procVars
<1>0. ASSUME NEW w \in Workers, w # v,
             \E p \in Phases : phase' = [phase EXCEPT ![w] = p],
             previous' = previous \/ \E q : previous' = [previous EXCEPT ![w] = q]
      PROVE  Framed
  BY <1>0 DEF TypeOK
<1>1. ASSUME NEW w \in Workers, Start(w) PROVE Framed
  BY <1>1 DEF Start, AcquireLease, AcquireRefused, Goto, Exit, TypeOK
<1>2. ASSUME NEW w \in Workers, Work(w) PROVE Framed
  <2>1. CASE w = v
    BY <1>2, <2>1 DEF Work, SweepOlderRuns, SweepFails, LeaveLoop, BeginSync,
              BeginFenced, BeginFails, StepFails, Promote, PromoteFenced, FailSync,
              FailSyncFenced, FailSyncUnpersisted, Wait, ReleaseLease,
              ReadCurrentSnapshot, CaptureSnapshot, WriteCandidate,
              Goto, Exit, Fail, EndCycle, CycleFailed, TypeOK
  <2>2. CASE w # v
    <3>1. \E p \in Phases : phase' = [phase EXCEPT ![w] = p]
      BY <1>2 DEF Work, SweepOlderRuns, SweepFails, LeaveLoop, BeginSync,
              BeginFenced, BeginFails, StepFails, Promote, PromoteFenced, FailSync,
              FailSyncFenced, FailSyncUnpersisted, Wait, ReleaseLease,
              ReadCurrentSnapshot, CaptureSnapshot, WriteCandidate,
              Goto, Exit, Fail, EndCycle, CycleFailed, Phases
    <3>2. previous' = previous \/ \E q : previous' = [previous EXCEPT ![w] = q]
      BY <1>2 DEF Work, SweepOlderRuns, SweepFails, LeaveLoop, BeginSync,
              BeginFenced, BeginFails, StepFails, Promote, PromoteFenced, FailSync,
              FailSyncFenced, FailSyncUnpersisted, Wait, ReleaseLease,
              ReadCurrentSnapshot, CaptureSnapshot, WriteCandidate,
              Exit, Fail, EndCycle, CycleFailed
    <3>. QED
      BY <1>0, <2>2, <3>1, <3>2
  <2>. QED
    BY <2>1, <2>2
<1>3. ASSUME NEW w \in Workers, Environment(w) PROVE Framed
  BY <1>3 DEF Environment, RenewLease, RenewFails, Shutdown, Crash, Exit, Goto, TypeOK
<1>. QED
  BY <1>1, <1>2, <1>3 DEF Next, Tick, vars

\* Nothing moves the pointer between the owner's read and its promotion.
LEMMA ReadIsCurrentStep == Inv /\ [Next]_vars => ReadIsCurrent'
<1>. SUFFICES ASSUME Inv, [Next]_vars, NEW v \in Workers
              PROVE  /\ (owner' = v /\ phase'[v] \in {"capturing", "completing", "promoting"})
                          => previous'[v] = current'
                     /\ phase'[v] \in {"completing", "promoting"} => SameAccount(v)'
  BY DEF ReadIsCurrent
<1>. USE DEF Inv
<1>1. phase'[v] \in {"completing", "promoting"} => SameAccount(v)'
  BY PhaseFrame DEF ReadIsCurrent, SameAccount, CaptureSnapshot, WriteCandidate, procVars
<1>2. ASSUME owner' = v, phase'[v] \in {"capturing", "completing", "promoting"}
      PROVE  previous'[v] = current'
  <2>1. owner = v
    <3>1. ASSUME NEW w \in Workers, NEW ack \in BOOLEAN, AcquireLease(w, ack)
          PROVE  FALSE
      <4>1. owner' = w /\ phase'[w] \in {"sweeping", "exited"}
        BY <3>1 DEF AcquireLease, Goto, Exit, TypeOK
      <4>. QED
        BY <1>2, <4>1
    <3>2. ASSUME NEW w \in Workers, ReleaseLease(w) PROVE owner = v
      BY <1>2, <3>2, NoWorkerAssumption DEF ReleaseLease, statusVars
    <3>. QED
      BY <1>2, <3>1, <3>2, ClaimFrame
  <2>2. ASSUME NEW w \in Workers, NEW ack \in BOOLEAN, Promote(w, ack) PROVE FALSE
    <3>1. w = v /\ phase'[w] \in {"waiting", "failing"}
      BY <2>1, <2>2 DEF Promote, HoldsLease, EndCycle, Fail, Goto, TypeOK
    <3>. QED
      BY <1>2, <3>1
  <2>3. current' = current
    BY <2>2, PointerFrame
  <2>. QED
    BY <1>2, <2>1, <2>3, PhaseFrame
       DEF ReadIsCurrent, ReadCurrentSnapshot, CaptureSnapshot, WriteCandidate,
           procVars, TypeOK
<1>. QED
  BY <1>1, <1>2

-----------------------------------------------------------------------------
(* Pending runs *)

\* A process past its sweep that owns the row owned it already.
LEMMA OwnerFrame ==
  ASSUME Inv, [Next]_vars, NEW v \in Workers, owner' = v,
         phase'[v] \notin {"idle", "sweeping", "exited"}
  PROVE  /\ owner = v
         /\ \/ phase[v] \notin {"idle", "sweeping", "exited"}
            \/ \E ack \in BOOLEAN : SweepOlderRuns(v, ack)
<1>. USE DEF Inv
<1>1. owner = v
  <2>1. ASSUME NEW w \in Workers, NEW ack \in BOOLEAN, AcquireLease(w, ack)
        PROVE  FALSE
    <3>1. owner' = w /\ phase'[w] \in {"sweeping", "exited"}
      BY <2>1 DEF AcquireLease, Goto, Exit, TypeOK
    <3>. QED
      BY <3>1
  <2>. QED
    BY <2>1, ClaimFrame, NoWorkerAssumption DEF ReleaseLease, statusVars
<1>2. phase[v] \in {"idle", "sweeping", "exited"} =>
        \E ack \in BOOLEAN : SweepOlderRuns(v, ack)
  <2>. SUFFICES ASSUME phase[v] \in {"idle", "sweeping", "exited"}
                PROVE  \E ack \in BOOLEAN : SweepOlderRuns(v, ack)
    OBVIOUS
  <2>0. phase[v] # phase'[v]
    OBVIOUS
  <2>1. ASSUME NEW w \in Workers, Start(w)
        PROVE  FALSE
    BY <2>0, <2>1 DEF Start, AcquireLease, AcquireRefused, Goto, Exit, TypeOK
  <2>2. ASSUME NEW w \in Workers, Work(w)
        PROVE  \E ack \in BOOLEAN : SweepOlderRuns(v, ack)
    <3>1. \E p \in Phases : phase' = [phase EXCEPT ![w] = p]
      BY <2>2 DEF Work, SweepOlderRuns, SweepFails, LeaveLoop, BeginSync,
              BeginFenced, BeginFails, StepFails, Promote, PromoteFenced, FailSync,
              FailSyncFenced, FailSyncUnpersisted, Wait, ReleaseLease,
              ReadCurrentSnapshot, CaptureSnapshot, WriteCandidate,
              Goto, Exit, Fail, EndCycle, CycleFailed, Phases
    <3>2. w = v
      BY <2>0, <3>1 DEF TypeOK
    <3>3. CASE \E ack \in BOOLEAN : SweepOlderRuns(v, ack)
      BY <3>3
    <3>4. CASE SweepFails(v)
      BY <3>4 DEF SweepFails, Exit, Goto, TypeOK
    <3>. QED
      BY <2>2, <3>2, <3>3, <3>4
         DEF Work, LeaveLoop, BeginSync, BeginFenced, BeginFails, MayBegin,
             ReadCurrentSnapshot, CaptureSnapshot, WriteCandidate, StepFails, Promote,
             PromoteFenced, FailSync, FailSyncFenced, FailSyncUnpersisted, Wait,
             ReleaseLease
  <2>3. ASSUME NEW w \in Workers, Environment(w) PROVE FALSE
    BY <2>0, <2>3 DEF Environment, RenewLease, RenewFails, Shutdown, Crash, Exit,
                      Goto, TypeOK, procVars
  <2>. QED
    BY <2>0, <2>1, <2>2, <2>3 DEF Next, Tick, procVars, vars
<1>. QED
  BY <1>1, <1>2

\* A run becomes pending only as the new run of a beginSync.
LEMMA PendingFrame ==
  ASSUME TypeOK, [Next]_vars, NEW r \in RunIds, runs'[r].state = "pending"
  PROVE  \/ runs[r].state = "pending"
         \/ \E w \in Workers, ack \in BOOLEAN :
              BeginSync(w, ack) /\ r = <<w, cycle[w] + 1>>
<1>0. runs[r] \in Run
  BY DEF TypeOK
<1>1. ASSUME NEW w \in Workers, NEW ack \in BOOLEAN, SweepOlderRuns(w, ack)
      PROVE  runs[r].state = "pending"
  BY <1>0, <1>1 DEF SweepOlderRuns, Sweepable, Run
<1>2. ASSUME NEW w \in Workers, NEW ack \in BOOLEAN, BeginSync(w, ack),
             r # <<w, cycle[w] + 1>>
      PROVE  runs[r].state = "pending"
  <2>1. IF Superseded(w, r) THEN runs'[r] = [runs[r] EXCEPT !.state = "failed"]
        ELSE runs'[r] = runs[r]
    BY <1>2, BeginSyncRuns
  <2>. QED
    BY <1>0, <2>1 DEF Superseded, Run
<1>3. ASSUME NEW w \in Workers, NEW ack \in BOOLEAN, Promote(w, ack)
      PROVE  runs[r].state = "pending"
  BY <1>3, PromoteRuns
<1>4. ASSUME NEW w \in Workers, FailSync(w) PROVE runs[r].state = "pending"
  BY <1>0, <1>4 DEF FailSync, OwnsPending, TypeOK, Run
<1>. QED
  BY <1>1, <1>2, <1>3, <1>4, RunsFrame

\* The sweep of a new owner closes the runs of all other processes, and no
\* process that does not own the row can begin one.
LEMMA NoOrphanStep == Inv /\ [Next]_vars => NoOrphanBehindOwner'
<1>. SUFFICES ASSUME Inv, [Next]_vars, NEW v \in Workers, owner' = v,
                     phase'[v] \notin {"idle", "sweeping", "exited"},
                     NEW r \in RunIds, runs'[r].state = "pending"
              PROVE  r[1] = v
  BY DEF NoOrphanBehindOwner
<1>. USE DEF Inv
<1>1. owner = v
  BY OwnerFrame
<1>2. ASSUME NEW w \in Workers, NEW ack \in BOOLEAN, BeginSync(w, ack),
             r = <<w, cycle[w] + 1>>
      PROVE  r[1] = v
  BY <1>1, <1>2 DEF BeginSync, HoldsLease
<1>3. ASSUME NEW ack \in BOOLEAN, SweepOlderRuns(v, ack), runs[r].state = "pending"
      PROVE  r[1] = v
  BY <1>3 DEF SweepOlderRuns, Sweepable, TypeOK, Run
<1>4. ASSUME phase[v] \notin {"idle", "sweeping", "exited"}, runs[r].state = "pending"
      PROVE  r[1] = v
  BY <1>1, <1>4 DEF NoOrphanBehindOwner
<1>. QED
  BY <1>2, <1>3, <1>4, OwnerFrame, PendingFrame

\* beginSync closes every earlier pending run of the claim it adds one to.
LEMMA OnePendingStep == Inv /\ [Next]_vars => OnePendingPerClaim'
<1>. SUFFICES ASSUME Inv, [Next]_vars, NEW r \in RunIds, NEW s \in RunIds,
                     runs'[r].state = "pending", runs'[s].state = "pending",
                     r[1] = s[1]
              PROVE  r = s
  BY DEF OnePendingPerClaim
<1>. USE DEF Inv
<1>1. ASSUME NEW w \in Workers, NEW ack \in BOOLEAN, BeginSync(w, ack),
             NEW x \in RunIds, runs'[x].state = "pending", x[1] = w
      PROVE  x = <<w, cycle[w] + 1>>
  <2>. SUFFICES ASSUME x # <<w, cycle[w] + 1>> PROVE FALSE
    OBVIOUS
  <2>1. IF Superseded(w, x) THEN runs'[x] = [runs[x] EXCEPT !.state = "failed"]
        ELSE runs'[x] = runs[x]
    BY <1>1, BeginSyncRuns
  <2>2. runs[x] \in Run
    BY DEF TypeOK
  <2>3. CASE runs[x].state = "pending"
    <3>1. runs[x].fence = fence[w]
      BY <1>1, <2>3 DEF RunsCarryClaims
    <3>. QED
      BY <1>1, <2>1, <2>2, <2>3, <3>1 DEF Superseded, Run
  <2>4. CASE runs[x].state # "pending"
    BY <1>1, <2>1, <2>2, <2>4 DEF Superseded, Run
  <2>. QED
    BY <2>3, <2>4
<1>2. ASSUME NEW w \in Workers, NEW ack \in BOOLEAN, BeginSync(w, ack),
             r = <<w, cycle[w] + 1>> \/ s = <<w, cycle[w] + 1>>
      PROVE  r = s
  <2>1. r[1] = w /\ s[1] = w
    BY <1>2, BeginSyncRuns
  <2>. QED
    BY <1>1, <1>2, <2>1
<1>. QED
  BY <1>2, PendingFrame DEF OnePendingPerClaim
-----------------------------------------------------------------------------
(* Theorems *)

\* The inductive invariant holds in every reachable state.
THEOREM Invariance == Spec => []Inv
<1>1. Inv /\ [Next]_vars => Inv'
  BY TypeStep, ClaimsStep, RunsCarryClaimsStep, SelectedIsCompleteStep,
     ReadIsCurrentStep, CurrentIsNewestStep, NoOrphanStep, OnePendingStep DEF Inv
<1>. QED
  BY InvInit, <1>1, PTL DEF Spec

\* No pending run of an earlier owner remains beside a started owner.
THEOREM OwnerHasNoOrphans == Spec => []NoOrphanBehindOwner
<1>1. Inv => NoOrphanBehindOwner
  BY DEF Inv
<1>. QED
  BY <1>1, Invariance, PTL

\* A process never has two pending runs.
THEOREM PendingIsUnique == Spec => []OnePendingPerClaim
<1>1. Inv => OnePendingPerClaim
  BY DEF Inv
<1>. QED
  BY <1>1, Invariance, PTL

\* Both together: the pending runs are those of live work.
THEOREM PendingWorkIsOwned == Spec => []PendingIsOwned
<1>1. Inv => PendingIsOwned
  BY DEF Inv, PendingIsOwned
<1>. QED
  BY <1>1, Invariance, PTL

\* The selected snapshot is the newest complete run.
THEOREM SelectedIsNewest == Spec => []CurrentIsNewest
<1>1. Inv => CurrentIsNewest
  BY DEF Inv
<1>. QED
  BY <1>1, Invariance, PTL

\* Every promotion extends the selected snapshot of the same account.
THEOREM PromotionExtends == Spec => PromotionExtendsCurrent
<1>1. ASSUME Inv, [Next]_vars, current' # current
      PROVE  /\ current' # NoRun
             /\ runs[current'].state = "pending"
             /\ runs'[current'].previous = current
             /\ current # NoRun => AccountOf[current[1]] = AccountOf[current'[1]]
  <2>1. PICK w \in Workers, ack \in BOOLEAN : Promote(w, ack)
    BY <1>1, PointerFrame
  <2>2. /\ MyRun(w) \in RunIds /\ MyRun(w)[1] = w
        /\ runs[MyRun(w)].state = "pending"
        /\ runs'[MyRun(w)].previous = previous[w]
        /\ current' = MyRun(w)
    BY <1>1, <2>1, PromoteRuns DEF Inv
  <2>3. previous[w] = current /\ SameAccount(w)
    BY <1>1, <2>1 DEF Inv, ReadIsCurrent, Promote, HoldsLease
  <2>. QED
    BY <2>2, <2>3, NoRunAssumption DEF SameAccount
<1>2. Inv /\ [Next]_vars =>
        [current' # current =>
           /\ current' # NoRun
           /\ runs[current'].state = "pending"
           /\ runs'[current'].previous = current
           /\ current # NoRun => AccountOf[current[1]] = AccountOf[current'[1]]]_vars
  BY <1>1
<1>. QED
  BY <1>2, Invariance, PTL DEF Spec, PromotionExtendsCurrent

\* Only a new complete snapshot clears a failure from the status row.
THEOREM FailureStaysVisible == Spec => FailureVisibleUntilPromotion
<1>1. ASSUME Inv, [Next]_vars, failureCode /\ ~failureCode' PROVE current' # current
  <2>1. PICK w \in Workers, ack \in BOOLEAN : Promote(w, ack)
    BY <1>1, PointerFrame
  <2>2. /\ MyRun(w) \in RunIds
        /\ runs[MyRun(w)].state = "pending"
        /\ current' = MyRun(w)
    BY <1>1, <2>1, PromoteRuns DEF Inv
  <2>. QED
    BY <1>1, <2>2, NoRunAssumption DEF Inv, SelectedIsComplete
<1>2. Inv /\ [Next]_vars => [failureCode /\ ~failureCode' => current' # current]_vars
  BY <1>1
<1>. QED
  BY <1>2, Invariance, PTL DEF Spec, FailureVisibleUntilPromotion

-----------------------------------------------------------------------------
(* Refinement *)

\* Every step is a selection of the abstract chain or leaves it alone.
LEMMA StepRefinesChain ==
  ASSUME Inv, [Next]_vars
  PROVE  [Chain!ChainNext]_(Chain!chainVars)
<1>. DEFINE done == {r \in RunIds : runs[r].state = "completed"}
            links == [r \in RunIds |-> runs[r].previous]
<1>1. ASSUME NEW w \in Workers, NEW ack \in BOOLEAN, Promote(w, ack)
      PROVE  Chain!ChainNext
  <2>. DEFINE m == MyRun(w)
  <2>1. /\ m \in RunIds
        /\ runs[m].state = "pending"
        /\ runs'[m].state = "completed"
        /\ runs'[m].previous = previous[w]
        /\ \A r \in RunIds \ {m} : runs'[r] = runs[r]
        /\ current' = m
    BY <1>1, PromoteRuns DEF Inv
  <2>2. previous[w] = current
    BY <1>1 DEF Inv, ReadIsCurrent, Promote, HoldsLease
  <2>3. m \notin done /\ done' = done \cup {m}
    BY <2>1
  <2>4. links' = [links EXCEPT ![m] = current]
    BY <2>1, <2>2
  <2>. QED
    BY <2>1, <2>3, <2>4 DEF Chain!ChainNext, Chain!Select
<1>2. ASSUME ~ \E w \in Workers, ack \in BOOLEAN : Promote(w, ack)
      PROVE  UNCHANGED Chain!chainVars
  <2>1. /\ current' = current
        /\ \A r \in RunIds :
             /\ runs'[r].state = "completed" <=> runs[r].state = "completed"
             /\ runs'[r].previous = runs[r].previous
    BY <1>2, PointerFrame, CompletedFrame
  <2>. QED
    BY <2>1 DEF Chain!chainVars
<1>. QED
  BY <1>1, <1>2

\* The worker implements the abstract snapshot chain.
THEOREM RefinesChain == Spec => ImplementsChain
<1>1. Init => Chain!ChainInit
  BY DEF Init, NoRow, Chain!ChainInit
<1>2. Inv /\ [Next]_vars => [Chain!ChainNext]_(Chain!chainVars)
  BY StepRefinesChain
<1>. QED
  BY <1>1, <1>2, Invariance, PTL DEF Spec, ImplementsChain, Chain!ChainSpec

\* A lease row that nobody owns has expired.
FreeIsExpired == owner = NoWorker => leaseTtl = 0

\* Every step keeps a free lease expired.
LEMMA FreeIsExpiredStep ==
  ASSUME Inv, FreeIsExpired, [Next]_vars
  PROVE  FreeIsExpired'
<1>. USE DEF Inv, TypeOK, FreeIsExpired, statusVars, procVars
<1>1. ASSUME NEW w \in Workers, Start(w) PROVE FreeIsExpired'
  BY <1>1, NoWorkerAssumption DEF Start, AcquireLease, AcquireRefused
<1>2. ASSUME NEW w \in Workers, Work(w) PROVE FreeIsExpired'
  BY <1>2 DEF Work, SweepOlderRuns, SweepFails, LeaveLoop, BeginSync, BeginFenced,
              BeginFails, ReadCurrentSnapshot, CaptureSnapshot, WriteCandidate,
              StepFails, Promote, PromoteFenced, FailSync, FailSyncFenced,
              FailSyncUnpersisted, Wait, ReleaseLease
<1>3. ASSUME NEW w \in Workers, Environment(w) PROVE FreeIsExpired'
  BY <1>3, NoWorkerAssumption DEF Environment, RenewLease, HoldsLease, RenewFails,
                                  Shutdown, Crash
<1>4. CASE Tick \/ UNCHANGED vars
  BY <1>4 DEF Tick, vars
<1>. QED
  BY <1>1, <1>2, <1>3, <1>4 DEF Next

\* Every step is a transaction of the abstract status row or leaves it alone.
LEMMA StepRefinesStatus ==
  ASSUME Inv, FreeIsExpired, [Next]_vars
  PROVE  [StatusRow!StatusNext]_(StatusRow!statusVars)
<1>. DEFINE done == {r \in RunIds : runs[r].state = "completed"}
            Held == leaseTtl > 0
<1>. USE DEF StatusRow!StatusNext, StatusRow!statusVars
<1>1. ASSUME NEW w \in Workers, NEW ack \in BOOLEAN, Promote(w, ack)
      PROVE  StatusRow!StatusNext
  <2>. DEFINE m == MyRun(w)
  <2>1. /\ m \in RunIds
        /\ runs[m].state = "pending"
        /\ runs'[m].state = "completed"
        /\ \A r \in RunIds \ {m} : runs'[r] = runs[r]
        /\ current' = m
    BY <1>1, PromoteRuns DEF Inv
  <2>2. m \notin done /\ done' = done \cup {m}
    BY <2>1
  <2>3. leaseTtl > 0 /\ leaseTtl' = leaseTtl /\ lifecycle' = "running" /\ failureCode' = FALSE
    BY <1>1 DEF Promote, HoldsLease
  <2>. QED
    BY <2>1, <2>2, <2>3 DEF StatusRow!Promote
<1>2. ASSUME ~ \E w \in Workers, ack \in BOOLEAN : Promote(w, ack)
      PROVE  UNCHANGED <<current, done>>
  <2>1. /\ current' = current
        /\ \A r \in RunIds : runs'[r].state = "completed" <=> runs[r].state = "completed"
    BY <1>2, PointerFrame, CompletedFrame
  <2>. QED
    BY <2>1
<1>3. ASSUME NEW w \in Workers, NEW ack \in BOOLEAN, AcquireLease(w, ack),
             UNCHANGED <<current, done>>
      PROVE  StatusRow!StatusNext
  <2>1. ~Held
    BY <1>3 DEF AcquireLease, LeaseIsFree, FreeIsExpired, Inv, Claims, TypeOK
  <2>2. /\ Held' /\ failureCode' = failureCode
        /\ lifecycle' = IF failureCode THEN "degraded" ELSE "starting"
    BY <1>3, LeaseTicksAssumption DEF AcquireLease
  <2>. QED
    BY <1>3, <2>1, <2>2 DEF StatusRow!Acquire
<1>4. ASSUME NEW w \in Workers, NEW ack \in BOOLEAN, BeginSync(w, ack),
             UNCHANGED <<current, done>>
      PROVE  StatusRow!StatusNext
  BY <1>4 DEF BeginSync, HoldsLease, StatusRow!BeginSync
<1>5. ASSUME NEW w \in Workers, FailSync(w), UNCHANGED <<current, done>>
      PROVE  StatusRow!StatusNext
  BY <1>5 DEF FailSync, HoldsLease, StatusRow!FailSync
<1>6. ASSUME NEW w \in Workers, ReleaseLease(w), UNCHANGED <<current, done>>
      PROVE  StatusRow!StatusNext \/ UNCHANGED StatusRow!statusVars
  <2>1. CASE ~(owner = w /\ fenceToken = fence[w])
    BY <1>6, <2>1 DEF ReleaseLease, statusVars
  <2>2. CASE owner = w /\ fenceToken = fence[w]
    <3>1. /\ ~Held'
          /\ lifecycle' = IF fatal[w] THEN "failed"
                          ELSE IF failureCode THEN "degraded" ELSE "stopped"
          /\ failureCode' = (failureCode \/ fatal[w])
      BY <1>6, <2>2 DEF ReleaseLease, FailureAfterRelease
    <3>2. failureCode \in BOOLEAN /\ fatal[w] \in BOOLEAN
      BY DEF Inv, TypeOK
    <3>3. CASE fatal[w]
      <4>1. failureCode' = TRUE /\ lifecycle' = "failed"
        BY <3>1, <3>3
      <4>. QED
        BY <1>6, <3>1, <4>1 DEF StatusRow!Release
    <3>4. CASE ~fatal[w]
      <4>1. failureCode' = failureCode
        BY <3>1, <3>2, <3>4
      <4>. QED
        BY <1>6, <3>1, <3>4, <4>1 DEF StatusRow!Release
    <3>. QED
      BY <3>3, <3>4
  <2>. QED
    BY <2>1, <2>2
<1>7. ASSUME Tick, UNCHANGED <<current, done>>
      PROVE  StatusRow!StatusNext \/ UNCHANGED StatusRow!statusVars
  BY <1>7 DEF Tick, StatusRow!Expire
<1>8. ASSUME UNCHANGED <<statusVars, current, done>>
      PROVE  UNCHANGED StatusRow!statusVars
  BY <1>8 DEF statusVars
<1>9. ASSUME NEW w \in Workers, RenewLease(w), UNCHANGED <<current, done>>
      PROVE  UNCHANGED StatusRow!statusVars
  BY <1>9, LeaseTicksAssumption DEF RenewLease, RenewedTtl, HoldsLease
<1>10. CASE \E w \in Workers, ack \in BOOLEAN : Promote(w, ack)
  BY <1>1, <1>10
<1>11. CASE ~ \E w \in Workers, ack \in BOOLEAN : Promote(w, ack)
  <2>1. ASSUME NEW w \in Workers, Start(w)
        PROVE  StatusRow!StatusNext \/ UNCHANGED StatusRow!statusVars
    BY <1>2, <1>3, <1>8, <1>11, <2>1 DEF Start, AcquireRefused
  <2>2. ASSUME NEW w \in Workers, Work(w)
        PROVE  StatusRow!StatusNext \/ UNCHANGED StatusRow!statusVars
    <3>1. \/ \E ack \in BOOLEAN : BeginSync(w, ack)
          \/ FailSync(w) \/ ReleaseLease(w) \/ UNCHANGED statusVars
      BY <1>11, <2>2 DEF Work, SweepOlderRuns, SweepFails, LeaveLoop, BeginFenced,
              BeginFails, ReadCurrentSnapshot, CaptureSnapshot, WriteCandidate,
              StepFails, PromoteFenced, FailSyncFenced, FailSyncUnpersisted, Wait
    <3>. QED
      BY <1>2, <1>4, <1>5, <1>6, <1>8, <1>11, <3>1
  <2>3. ASSUME NEW w \in Workers, Environment(w)
        PROVE  StatusRow!StatusNext \/ UNCHANGED StatusRow!statusVars
    BY <1>2, <1>8, <1>9, <1>11, <2>3 DEF Environment, RenewFails, Shutdown, Crash
  <2>. QED
    BY <1>2, <1>7, <1>8, <1>11, <2>1, <2>2, <2>3 DEF Next, vars, statusVars
<1>. QED
  BY <1>10, <1>11

\* The worker implements the abstract status row.
THEOREM RefinesStatus == Spec => ImplementsStatus
<1>1. Init => StatusRow!StatusInit /\ FreeIsExpired
  BY DEF Init, NoRow, StatusRow!StatusInit, FreeIsExpired
<1>2. Inv /\ FreeIsExpired /\ [Next]_vars
        => FreeIsExpired' /\ [StatusRow!StatusNext]_(StatusRow!statusVars)
  BY StepRefinesStatus, FreeIsExpiredStep
<1>. QED
  BY <1>1, <1>2, Invariance, PTL DEF Spec, ImplementsStatus, StatusRow!StatusSpec

-----------------------------------------------------------------------------
(* The abstract chain *)

\* A chain: complete runs, the head and the links, well typed and linear.
Linear(done, h, to) ==
  /\ done \subseteq RunIds /\ h \in RunIds \cup {NoRun} /\ to \in [RunIds -> RunIds \cup {NoRun}]
  /\ h = NoRun <=> done = {}
  /\ h # NoRun => h \in done
  /\ \A r \in done : to[r] \in (done \cup {NoRun}) \ {h}
  /\ \A r, s \in done : to[r] = to[s] => r = s

\* Selecting a run that is not yet complete keeps a chain linear.
LEMMA SelectKeepsLinear ==
  ASSUME NEW done, NEW h, NEW to, Linear(done, h, to), NEW r \in RunIds, r \notin done
  PROVE  Linear(done \cup {r}, r, [to EXCEPT ![r] = h])
<1> DEFINE next == [to EXCEPT ![r] = h]
<1>1. next \in [RunIds -> RunIds \cup {NoRun}]
  BY DEF Linear
<1>2. \A s \in RunIds : next[s] = IF s = r THEN h ELSE to[s]
  BY DEF Linear
<1> HIDE DEF next
<1>3. \A s \in done : s \in RunIds /\ s # r /\ to[s] # h /\ to[s] # r
  BY NoRunAssumption DEF Linear
<1>4. r # h
  BY NoRunAssumption DEF Linear
<1>5. r # NoRun
  BY NoRunAssumption
<1>6. \A s \in done \cup {r} : next[s] \in (done \cup {r} \cup {NoRun}) \ {r}
  BY <1>2, <1>3, <1>4, <1>5 DEF Linear
<1>7. \A s, t \in done \cup {r} : next[s] = next[t] => s = t
  BY <1>2, <1>3 DEF Linear
<1>8. Linear(done \cup {r}, r, next)
  BY <1>1, <1>5, <1>6, <1>7 DEF Linear
<1> QED
  BY <1>8 DEF next

\* Whatever runs are selected in whatever order, the history stays a chain.
THEOREM ChainIsLinear == ImplementsChain => []HistoryIsLinear
<1> DEFINE done == {r \in RunIds : runs[r].state = "completed"}
           to == [r \in RunIds |-> runs[r].previous]
           L == Linear(done, current, to)
<1>1. Chain!ChainInit => L
  BY DEF Chain!ChainInit, Linear
<1>2. L /\ [Chain!ChainNext]_(Chain!chainVars) => L'
  <2>1. SUFFICES ASSUME L, [Chain!ChainNext]_(Chain!chainVars) PROVE L'
    OBVIOUS
  <2>2. CASE UNCHANGED Chain!chainVars
    <3>1. done' = done /\ current' = current /\ to' = to
      BY <2>2 DEF Chain!chainVars
    <3> QED
      BY <2>1, <3>1
  <2>3. ASSUME NEW r \in RunIds, Chain!Select(r) PROVE L'
    <3>1. done' = done \cup {r} /\ current' = r /\ to' = [to EXCEPT ![r] = current] /\ r \notin done
      BY <2>3 DEF Chain!Select
    <3> HIDE DEF done, to
    <3>2. Linear(done \cup {r}, r, [to EXCEPT ![r] = current])
      BY <2>1, <3>1, SelectKeepsLinear
    <3> QED
      BY <3>1, <3>2
  <2> QED
    BY <2>1, <2>2, <2>3 DEF Chain!ChainNext
<1>3. L => HistoryIsLinear
  BY DEF Linear, HistoryIsLinear, Chain!LinearHistory
<1> QED
  BY <1>1, <1>2, <1>3, PTL DEF ImplementsChain, Chain!ChainSpec

\* The history of complete snapshots of all processes never forks.
THEOREM HistoryNeverForks == Spec => []HistoryIsLinear
BY RefinesChain, ChainIsLinear, PTL

-----------------------------------------------------------------------------
(* The capture: attempts and their reads.                                   *)

\* The attempts of a cycle.
Attempts == 1 .. MaxAttempts

RunState ==
  [pc : {"idle", "account", "collect", "store", "delay"},
   cycle : 0 .. MaxPolls, attempt : 0 .. MaxAttempts,
   start : 0 .. MaxTime, known : 0 .. MaxOrders,
   timedOut : BOOLEAN, aborted : BOOLEAN, reason : Errors, outcome : Errors]

\* A sequence, of whatever elements.
IsSeq(s) == s \in Seq(ToSet(s))

\* Why a read fails that was not canceled.
Causes == Failures \cup {"database"}

\* A read has pages while and after it succeeds, and an error when it failed.
ReadRight(read) ==
  /\ read = [st |-> read.st, err |-> read.err, pages |-> read.pages]
  /\ read.st \in {"idle", "fetching", "recording", "done", "failed"}
  /\ IsSeq(read.pages)
  /\ Len(read.pages) \in CASE read.st = "fetching" -> 0 .. (MaxPages - 1)
                           [] read.st \in {"recording", "done"} -> 1 .. MaxPages
                           [] OTHER -> {0}
  /\ IF read.st = "failed" THEN read.err \in Causes \cup {"cancelled"} ELSE read.err = "none"

\* Every read of every attempt is as it should be.
ReadsRight(tasks) ==
  /\ tasks = [a \in Attempts |-> [r \in Resources |-> tasks[a][r]]]
  /\ \A a \in Attempts, r \in Resources : ReadRight(tasks[a][r])

\* Only the attempt in progress has reads; the collections are read after the
\* account, and aborted when one of them has failed.
PhaseRight(tasks, at) ==
  /\ \A a \in Attempts, r \in Resources : a # at.attempt => tasks[a][r] = Idle
  /\ IF at.pc = "idle"
     THEN at.attempt = 0 /\ ~at.timedOut /\ ~at.aborted /\ at.reason = "none"
     ELSE at.attempt \in Attempts /\ at.cycle \in 1 .. MaxPolls
  /\ at.pc = "account" =>
       /\ tasks[at.attempt]["account"].st # "idle" /\ at.reason = "none"
       /\ \A r \in Collections : tasks[at.attempt][r] = Idle
  /\ at.pc = "collect" =>
       /\ tasks[at.attempt]["account"].st = "done"
       /\ \A r \in Collections : tasks[at.attempt][r].st # "idle"
       /\ at.reason = "none" => \A r \in Collections : tasks[at.attempt][r].st # "failed"
  /\ at.pc = "store" => \A r \in Resources : tasks[at.attempt][r].st = "done"
  /\ at.pc = "delay" =>
       at.attempt < MaxAttempts /\ \A r \in Resources : tasks[at.attempt][r] = Idle

\* The reads are aborted for a failure, or for the timer or signal that fired.
CauseRight(at) ==
  /\ at.reason \in Causes \cup {"none", "deadline", "shutdown"}
  /\ at.reason = "deadline" => at.timedOut
  /\ at.reason = "shutdown" => at.aborted

\* What the worker holds in memory of this cycle.
AttemptRight == ReadsRight(task) /\ PhaseRight(task, run) /\ CauseRight(run)

\* The account is consistent and nothing in it is later than now.
BrokerRight ==
  /\ IsAccount(broker) /\ Len(broker.orders) <= MaxOrders
  /\ \A k \in DOMAIN broker.fills : broker.fills[k].at <= now

\* The snapshots are those of the cycles begun.
SnapsRight ==
  /\ IsSeq(snaps)
  /\ Len(snaps) <= IF run.pc = "idle" THEN run.cycle ELSE run.cycle - 1

\* The invariant behind the types and AttemptsStayApart.
CInv ==
  /\ now \in 0 .. MaxTime /\ faults \in 0 .. (MaxEvents + 1)
  /\ run \in RunState /\ run.start <= now
  /\ receipts \subseteq [attempt : Attempts, resource : Resources, ordinal : 0 .. MaxPages]
  /\ BrokerRight /\ SnapsRight /\ AttemptRight

\* The empty sequence is a sequence.
LEMMA EmptyIsSeq == IsSeq(<<>>) /\ Len(<<>>) = 0
BY DEF IsSeq

\* A sequence over any set is a sequence.
LEMMA SeqIsSeq ==
  ASSUME NEW S, NEW s \in Seq(S)
  PROVE  IsSeq(s)
<1>1. s \in [1 .. Len(s) -> S] /\ Len(s) \in Nat /\ DOMAIN s = 1 .. Len(s)
  OBVIOUS
<1>2. \A i \in 1 .. Len(s) : s[i] \in ToSet(s)
  BY <1>1 DEF ToSet
<1>3. s \in [1 .. Len(s) -> ToSet(s)]
  BY <1>1, <1>2
<1> QED
  BY <1>1, <1>3 DEF IsSeq

\* A sequence with one more element.
LEMMA AppendIsSeq ==
  ASSUME NEW s, IsSeq(s), NEW e
  PROVE  /\ IsSeq(Append(s, e)) /\ Len(s) \in Nat /\ Len(Append(s, e)) = Len(s) + 1
         /\ DOMAIN s = 1 .. Len(s) /\ DOMAIN Append(s, e) = 1 .. (Len(s) + 1)
         /\ \A i \in 1 .. Len(s) : Append(s, e)[i] = s[i]
         /\ Append(s, e)[Len(s) + 1] = e
<1> DEFINE S == ToSet(s) \cup {e}
<1>1. s \in Seq(S) /\ e \in S
  <2>1. s \in Seq(ToSet(s))
    BY DEF IsSeq
  <2> DEFINE A == ToSet(s)
  <2> HIDE DEF A
  <2>2. s \in Seq(A) /\ A \subseteq S
    BY <2>1 DEF A
  <2> HIDE DEF S
  <2>3. s \in Seq(S)
    BY <2>2
  <2> QED
    BY <2>3 DEF S
<1> HIDE DEF S
<1>2. Append(s, e) \in Seq(S)
  BY <1>1
<1>3. IsSeq(Append(s, e))
  BY <1>2, SeqIsSeq
<1> QED
  BY <1>1, <1>3

\* The sets the types are made of.
LEMMA BoundFacts ==
  /\ MaxPages \in Nat /\ 1 <= MaxPages /\ PageSize \in Nat /\ 1 <= PageSize
  /\ MaxAttempts \in Nat /\ 1 \in Attempts /\ MaxPolls \in Nat
  /\ MaxTime \in Nat /\ MaxOrders \in Nat /\ MaxEvents \in Nat /\ MaxItems \in Nat
  /\ Overlap \in Nat /\ 1 <= Overlap
  /\ FailureClasses \subseteq Failures
BY BoundsAssumption DEF Attempts

\* What is made of a page is the end, another page or a failure.
LEMMA VerdictRange ==
  ASSUME NEW r \in Resources, NEW pages
  PROVE  /\ PageVerdict(r, pages) \in {"done", "next", "malformed_response", "resource_limit"}
         /\ PageVerdict(r, pages) = "next" => Len(pages) < MaxPages
BY DEF PageVerdict

\* A read that failed.
Failed(err) == [st |-> "failed", err |-> err, pages |-> <<>>]

\* A failed read has an error and no pages.
LEMMA FailedIsRight ==
  ASSUME NEW err \in Causes \cup {"cancelled"}
  PROVE  ReadRight(Failed(err)) /\ Failed(err).st = "failed"
BY EmptyIsSeq DEF ReadRight, Failed

\* A read that has not begun has neither.
LEMMA IdleIsRight == ReadRight(Idle) /\ Idle.st = "idle" /\ Idle.pages = <<>> /\ Idle.err = "none"
BY EmptyIsSeq DEF ReadRight, Idle

\* An abort leaves every read as it is or failed.
LEMMA CancelRules ==
  ASSUME NEW tasks, ReadsRight(tasks), NEW at
  PROVE  /\ ReadsRight(CancelFetches(tasks, at))
         /\ \A a \in Attempts, r \in Resources :
              CancelFetches(tasks, at)[a][r] =
                IF tasks[a][r].st = "fetching" /\ IsAborted(at, a, r)
                THEN Failed("cancelled") ELSE tasks[a][r]
<1> DEFINE new == CancelFetches(tasks, at)
<1>1. new = [a \in Attempts |-> [r \in Resources |->
               IF tasks[a][r].st = "fetching" /\ IsAborted(at, a, r)
               THEN Failed("cancelled") ELSE tasks[a][r]]]
  BY DEF CancelFetches, Attempts, Failed
<1> HIDE DEF new
<1>2. \A a \in Attempts, r \in Resources :
        new[a][r] = IF tasks[a][r].st = "fetching" /\ IsAborted(at, a, r)
                    THEN Failed("cancelled") ELSE tasks[a][r]
  BY <1>1
<1>3. new = [a \in Attempts |-> [r \in Resources |-> new[a][r]]]
  BY <1>1
<1>4. \A a \in Attempts, r \in Resources : ReadRight(new[a][r])
  BY <1>2, FailedIsRight DEF ReadsRight
<1>5. ReadsRight(new)
  BY <1>3, <1>4 DEF ReadsRight
<1> QED
  BY <1>2, <1>5 DEF new

\* One read changes.
LEMMA EditRules ==
  ASSUME NEW tasks, ReadsRight(tasks), NEW a \in Attempts, NEW r \in Resources,
         NEW read, ReadRight(read)
  PROVE  /\ ReadsRight([tasks EXCEPT ![a][r] = read])
         /\ [tasks EXCEPT ![a][r] = read][a][r] = read
         /\ \A b \in Attempts, q \in Resources :
              b # a \/ q # r => [tasks EXCEPT ![a][r] = read][b][q] = tasks[b][q]
<1> DEFINE new == [tasks EXCEPT ![a][r] = read]
<1>1. tasks = [b \in Attempts |-> [q \in Resources |-> tasks[b][q]]]
  BY DEF ReadsRight
<1>2. new = [b \in Attempts |-> [q \in Resources |->
                IF b = a /\ q = r THEN read ELSE tasks[b][q]]]
  BY <1>1
<1> HIDE DEF new
<1>3. \A b \in Attempts, q \in Resources :
        new[b][q] = IF b = a /\ q = r THEN read ELSE tasks[b][q]
  BY <1>2
<1>4. new = [b \in Attempts |-> [q \in Resources |-> new[b][q]]]
  BY <1>2
<1>5. \A b \in Attempts, q \in Resources : ReadRight(new[b][q])
  BY <1>3 DEF ReadsRight
<1>6. ReadsRight(new)
  BY <1>4, <1>5 DEF ReadsRight
<1> QED
  BY <1>3, <1>6 DEF new

\* The parts of a read that goes on or ends.
LEMMA SettleRules ==
  ASSUME ReadsRight(task), NEW a \in Attempts, NEW r \in Resources, NEW st, NEW err, NEW pages,
         ReadRight([st |-> st, err |-> err, pages |-> pages]),
         SettleTask(a, r, st, err, pages)
  PROVE  /\ ReadsRight(task')
         /\ run' = IF st = "failed" /\ r \in Collections /\ run.reason = "none" /\ a = run.attempt
                   THEN [run EXCEPT !.reason = err] ELSE run
         /\ task'[a][r] = IF st = "fetching" /\ IsAborted(run', a, r)
                          THEN Failed("cancelled")
                          ELSE [st |-> st, err |-> err, pages |-> pages]
         /\ \A b \in Attempts, q \in Resources :
              b # a \/ q # r =>
                task'[b][q] = IF task[b][q].st = "fetching" /\ IsAborted(run', b, q)
                              THEN Failed("cancelled") ELSE task[b][q]
<1> DEFINE read == [st |-> st, err |-> err, pages |-> pages]
           tasks == [task EXCEPT ![a][r] = read]
<1>1. /\ run' = IF st = "failed" /\ r \in Collections /\ run.reason = "none" /\ a = run.attempt
                THEN [run EXCEPT !.reason = err] ELSE run
      /\ task' = CancelFetches(tasks, run')
  BY DEF SettleTask
<1>2. ReadRight(read) /\ read.st = st
  OBVIOUS
<1> HIDE DEF read
<1>3. /\ ReadsRight(tasks) /\ tasks[a][r] = read
      /\ \A b \in Attempts, q \in Resources : b # a \/ q # r => tasks[b][q] = task[b][q]
  BY <1>2, EditRules
<1> HIDE DEF tasks
<1>4. /\ ReadsRight(task')
      /\ \A b \in Attempts, q \in Resources :
           task'[b][q] = IF tasks[b][q].st = "fetching" /\ IsAborted(run', b, q)
                         THEN Failed("cancelled") ELSE tasks[b][q]
  BY <1>1, <1>3, CancelRules
<1>5. task'[a][r] = IF st = "fetching" /\ IsAborted(run', a, r) THEN Failed("cancelled") ELSE read
  BY <1>2, <1>3, <1>4
<1>6. \A b \in Attempts, q \in Resources :
        b # a \/ q # r =>
          task'[b][q] = IF task[b][q].st = "fetching" /\ IsAborted(run', b, q)
                        THEN Failed("cancelled") ELSE task[b][q]
  BY <1>3, <1>4
<1> QED
  BY <1>1, <1>4, <1>5, <1>6 DEF read

\* A read in progress is one of the attempt in progress.
LEMMA ReadingRules ==
  ASSUME AttemptRight, run \in RunState, NEW a \in Attempts, NEW r \in Resources,
         task[a][r].st \in {"fetching", "recording"}
  PROVE  /\ a = run.attempt /\ run.pc \in {"account", "collect"} /\ run.cycle \in 1 .. MaxPolls
         /\ run.pc = "account" <=> r = "account"
         /\ run.pc = "collect" <=> r \in Collections
<1>1. task[a][r] # Idle /\ task[a][r].st \notin {"idle", "done"}
  BY IdleIsRight
<1>2. a = run.attempt
  BY <1>1 DEF AttemptRight, PhaseRight
<1>3. run.pc # "idle" /\ run.cycle \in 1 .. MaxPolls
  BY <1>2, BoundFacts DEF AttemptRight, PhaseRight, Attempts
<1>4. run.pc # "store" /\ run.pc # "delay"
  BY <1>1, <1>2 DEF AttemptRight, PhaseRight
<1>5. run.pc \in {"account", "collect"}
  BY <1>3, <1>4 DEF RunState
<1>6. run.pc = "account" => r = "account"
  BY <1>1, <1>2 DEF AttemptRight, PhaseRight, Resources
<1>7. run.pc = "collect" => r # "account"
  BY <1>1, <1>2 DEF AttemptRight, PhaseRight
<1>8. r = "account" \/ r \in Collections
  BY DEF Resources
<1>9. "account" \notin Collections
  BY DEF Collections
<1> QED
  BY <1>2, <1>3, <1>5, <1>6, <1>7, <1>8, <1>9

\* What an attempt keeps whatever becomes of its reads.
SameAttempt ==
  /\ run'.pc = run.pc /\ run'.cycle = run.cycle /\ run'.attempt = run.attempt
  /\ run'.start = run.start /\ run'.known = run.known
  /\ run'.timedOut = run.timedOut /\ run'.aborted = run.aborted /\ run'.outcome = run.outcome

\* Settling a read of the attempt in progress leaves the attempts as they
\* should be.
LEMMA SettleStep ==
  ASSUME AttemptRight, run \in RunState, NEW a \in Attempts, NEW r \in Resources,
         task[a][r].st \in {"fetching", "recording"},
         NEW st \in {"fetching", "recording", "done", "failed"}, NEW err, NEW pages,
         ReadRight([st |-> st, err |-> err, pages |-> pages]),
         st = "failed" => err \in Causes,
         SettleTask(a, r, st, err, pages)
  PROVE  AttemptRight' /\ run' \in RunState /\ SameAttempt
<1>1. ReadsRight(task)
  BY DEF AttemptRight
<1>2. /\ ReadsRight(task')
      /\ run' = IF st = "failed" /\ r \in Collections /\ run.reason = "none" /\ a = run.attempt
                THEN [run EXCEPT !.reason = err] ELSE run
      /\ task'[a][r] = IF st = "fetching" /\ IsAborted(run', a, r)
                       THEN Failed("cancelled")
                       ELSE [st |-> st, err |-> err, pages |-> pages]
      /\ \A b \in Attempts, q \in Resources :
           b # a \/ q # r =>
             task'[b][q] = IF task[b][q].st = "fetching" /\ IsAborted(run', b, q)
                           THEN Failed("cancelled") ELSE task[b][q]
  BY <1>1, SettleRules
<1>3. /\ a = run.attempt /\ run.pc \in {"account", "collect"} /\ run.cycle \in 1 .. MaxPolls
      /\ run.pc = "account" <=> r = "account"
      /\ run.pc = "collect" <=> r \in Collections
  BY ReadingRules
<1>4. /\ run' \in RunState /\ SameAttempt
      /\ run'.reason = IF st = "failed" /\ r \in Collections /\ run.reason = "none"
                       THEN err ELSE run.reason
  <2>1. err \in Errors \/ st # "failed"
    BY DEF Causes, Errors
  <2>2. CASE st = "failed" /\ r \in Collections /\ run.reason = "none" /\ a = run.attempt
    <3>1. run' = [run EXCEPT !.reason = err]
      BY <1>2, <2>2
    <3> QED
      BY <2>1, <2>2, <3>1 DEF RunState, SameAttempt
  <2>3. CASE ~(st = "failed" /\ r \in Collections /\ run.reason = "none" /\ a = run.attempt)
    <3>1. run' = run
      BY <1>2, <2>3
    <3> QED
      BY <1>3, <2>3, <3>1 DEF SameAttempt
  <2> QED
    BY <2>2, <2>3
<1>5. CauseRight(run')
  <2>1. CauseRight(run) /\ run'.timedOut = run.timedOut /\ run'.aborted = run.aborted
    BY <1>4 DEF AttemptRight, SameAttempt
  <2>2. run'.reason \in Causes \/ run'.reason = run.reason
    BY <1>4
  <2>3. "deadline" \notin Causes /\ "shutdown" \notin Causes
    BY DEF Causes, Failures
  <2> QED
    BY <2>1, <2>2, <2>3 DEF CauseRight
<1>6. \A b \in Attempts, q \in Resources : b # run'.attempt => task'[b][q] = Idle
  <2>1. TAKE b \in Attempts, q \in Resources
  <2>2. HAVE b # run'.attempt
  <2>3. b # a /\ task[b][q] = Idle
    BY <1>3, <1>4, <2>2 DEF SameAttempt, AttemptRight, PhaseRight
  <2> QED
    BY <1>2, <2>3, IdleIsRight
<1>7. ASSUME run.pc = "account"
      PROVE  /\ task'[run.attempt]["account"].st # "idle" /\ run'.reason = "none"
             /\ \A q \in Collections : task'[run.attempt][q] = Idle
  <2>1. r = "account" /\ "account" \notin Collections /\ run.reason = "none"
    BY <1>3, <1>7 DEF Collections, AttemptRight, PhaseRight
  <2>2. task'[a][r].st # "idle"
    BY <1>2, FailedIsRight
  <2>3. \A q \in Collections : q \in Resources /\ task[run.attempt][q] = Idle
    BY <1>7 DEF AttemptRight, PhaseRight, Resources
  <2>4. \A q \in Collections : task'[run.attempt][q] = Idle
    BY <1>2, <1>3, <2>1, <2>3, IdleIsRight
  <2> QED
    BY <1>3, <1>4, <2>1, <2>2, <2>4
<1>8. ASSUME run.pc = "collect"
      PROVE  /\ task'[run.attempt]["account"].st = "done"
             /\ \A q \in Collections : task'[run.attempt][q].st # "idle"
             /\ run'.reason = "none" => \A q \in Collections : task'[run.attempt][q].st # "failed"
  <2>1. r \in Collections /\ "account" \notin Collections /\ "account" \in Resources
    BY <1>3, <1>8 DEF Collections, Resources
  <2>2. task[run.attempt]["account"].st = "done"
    BY <1>8 DEF AttemptRight, PhaseRight
  <2>3. task'[run.attempt]["account"].st = "done"
    BY <1>2, <1>3, <2>1, <2>2
  <2>4. \A q \in Collections : q \in Resources /\ task[run.attempt][q].st # "idle"
    BY <1>8 DEF AttemptRight, PhaseRight, Resources
  <2>5. \A q \in Collections : task'[run.attempt][q].st # "idle"
    <3>1. TAKE q \in Collections
    <3>2. CASE q = r
      BY <1>2, <1>3, <3>2, FailedIsRight
    <3>3. CASE q # r
      BY <1>2, <1>3, <2>4, <3>3, FailedIsRight
    <3> QED
      BY <3>2, <3>3
  <2>6. ASSUME run'.reason = "none", NEW q \in Collections
        PROVE  task'[run.attempt][q].st # "failed"
    <3>1. run.reason = "none" /\ st # "failed"
      BY <1>4, <2>1, <2>6 DEF Causes, Failures
    <3>2. ~IsAborted(run', run.attempt, q)
      BY <1>4, <2>1, <2>6 DEF IsAborted, SameAttempt
    <3>3. task[run.attempt][q].st # "failed"
      BY <1>8, <3>1 DEF AttemptRight, PhaseRight
    <3>4. CASE q = r
      BY <1>2, <1>3, <3>1, <3>2, <3>4
    <3>5. CASE q # r
      BY <1>2, <1>3, <2>4, <3>2, <3>3, <3>5
    <3> QED
      BY <3>4, <3>5
  <2> QED
    BY <2>3, <2>5, <2>6
<1>9. PhaseRight(task', run')
  BY <1>3, <1>4, <1>6, <1>7, <1>8 DEF PhaseRight, SameAttempt
<1> QED
  BY <1>2, <1>4, <1>5, <1>9 DEF AttemptRight

-----------------------------------------------------------------------------
(* The account.                                                             *)

\* The fills of order i among the first n.
FillsUpto(b, i, n) == {j \in 1 .. n : b.fills[j].order = i}

\* The first fills of an order can be counted.
LEMMA FillsUptoFinite ==
  ASSUME NEW b, NEW i, NEW n \in Nat
  PROVE  IsFiniteSet(FillsUpto(b, i, n)) /\ Cardinality(FillsUpto(b, i, n)) \in Nat
<1>1. FillsUpto(b, i, n) \in SUBSET (1 .. n)
  BY DEF FillsUpto
<1>2. IsFiniteSet(1 .. n)
  BY FS_Interval
<1>3. IsFiniteSet(FillsUpto(b, i, n))
  BY <1>1, <1>2, FS_Subset
<1> QED
  BY <1>3, FS_CardinalityType

\* An order of the account.
OrderRow == [structure : {"simple", "mleg"}, side : {"buy", "sell"},
             qty : Nat \ {0}, canceled : BOOLEAN]

\* What a consistent account is made of.
LEMMA AccountFacts ==
  ASSUME NEW b, IsAccount(b)
  PROVE  /\ b = [orders |-> b.orders, fills |-> b.fills]
         /\ b.orders \in Seq(OrderRow) /\ b.fills \in Seq([order : Nat, at : Int, cum : Nat])
         /\ Len(b.orders) \in Nat /\ Len(b.fills) \in Nat
         /\ DOMAIN b.orders = 1 .. Len(b.orders) /\ DOMAIN b.fills = 1 .. Len(b.fills)
         /\ \A i \in 1 .. Len(b.orders) : b.orders[i] \in OrderRow
         /\ \A k \in 1 .. Len(b.fills) :
              /\ b.fills[k] \in [order : Nat, at : Int, cum : Nat]
              /\ b.fills[k].order \in 1 .. Len(b.orders)
              /\ b.fills[k].cum = Cardinality(FillsUpto(b, b.fills[k].order, k))
         /\ \A i \in 1 .. Len(b.orders) :
              /\ FilledIn(b, i) <= b.orders[i].qty
              /\ b.orders[i].canceled => FilledIn(b, i) < b.orders[i].qty
         /\ \A i : FilledIn(b, i) = Cardinality(FillsUpto(b, i, Len(b.fills))) /\ FilledIn(b, i) \in Nat
<1>1. b \in [orders : Seq(OrderRow), fills : Seq([order : Nat, at : Int, cum : Nat])]
  BY DEF IsAccount, OrderRow
<1>2. /\ b.orders \in Seq(OrderRow) /\ b.fills \in Seq([order : Nat, at : Int, cum : Nat])
      /\ b = [orders |-> b.orders, fills |-> b.fills]
  BY <1>1
<1>3. /\ Len(b.orders) \in Nat /\ Len(b.fills) \in Nat
      /\ DOMAIN b.orders = 1 .. Len(b.orders) /\ DOMAIN b.fills = 1 .. Len(b.fills)
  BY <1>2
<1>4. \A i \in 1 .. Len(b.orders) : b.orders[i] \in OrderRow
  BY <1>2
<1>5. \A k \in 1 .. Len(b.fills) : b.fills[k] \in [order : Nat, at : Int, cum : Nat]
  <2> DEFINE Fill == [order : Nat, at : Int, cum : Nat]
  <2>1. b.fills \in Seq(Fill)
    BY <1>2
  <2> HIDE DEF Fill
  <2>2. \A k \in 1 .. Len(b.fills) : b.fills[k] \in Fill
    BY <2>1
  <2> QED
    BY <2>2 DEF Fill
<1>6. \A k \in 1 .. Len(b.fills) :
        /\ b.fills[k].order \in 1 .. Len(b.orders)
        /\ b.fills[k].cum = Cardinality(FillsUpto(b, b.fills[k].order, k))
  BY <1>3 DEF IsAccount, FillsUpto
<1>7. \A i \in 1 .. Len(b.orders) :
        /\ FilledIn(b, i) <= b.orders[i].qty
        /\ b.orders[i].canceled => FilledIn(b, i) < b.orders[i].qty
  BY <1>3 DEF IsAccount
<1>8. \A i : FilledIn(b, i) = Cardinality(FillsUpto(b, i, Len(b.fills))) /\ FilledIn(b, i) \in Nat
  <2>1. TAKE i
  <2>2. FilledIn(b, i) = Cardinality(FillsUpto(b, i, Len(b.fills)))
    BY <1>3 DEF FilledIn, FillsUpto
  <2> QED
    BY <1>3, <2>2, FillsUptoFinite
<1> QED
  BY <1>2, <1>3, <1>4, <1>5, <1>6, <1>7, <1>8

\* The same facts make an account.
LEMMA AccountMade ==
  ASSUME NEW orders \in Seq(OrderRow), NEW fills \in Seq([order : Nat, at : Int, cum : Nat]),
         NEW b, b = [orders |-> orders, fills |-> fills],
         \A k \in 1 .. Len(fills) :
              /\ fills[k].order \in 1 .. Len(orders)
              /\ fills[k].cum = Cardinality(FillsUpto(b, fills[k].order, k)),
         \A i \in 1 .. Len(orders) :
              /\ Cardinality(FillsUpto(b, i, Len(fills))) <= orders[i].qty
              /\ orders[i].canceled => Cardinality(FillsUpto(b, i, Len(fills))) < orders[i].qty
  PROVE  IsAccount(b)
<1>1. b \in [orders : Seq(OrderRow), fills : Seq([order : Nat, at : Int, cum : Nat])]
  OBVIOUS
<1>2. b.orders = orders /\ b.fills = fills
  OBVIOUS
<1>3. DOMAIN orders = 1 .. Len(orders) /\ DOMAIN fills = 1 .. Len(fills)
  OBVIOUS
<1>4. \A i : FilledIn(b, i) = Cardinality(FillsUpto(b, i, Len(fills)))
  BY <1>2, <1>3 DEF FilledIn, FillsUpto
<1>5. \A k \in DOMAIN b.fills :
        /\ b.fills[k].order \in DOMAIN b.orders
        /\ b.fills[k].cum = Cardinality({j \in 1 .. k : b.fills[j].order = b.fills[k].order})
  BY <1>2, <1>3, ZenonT(60) DEF FillsUpto
<1>6. \A i \in DOMAIN b.orders :
        /\ FilledIn(b, i) <= b.orders[i].qty
        /\ b.orders[i].canceled => FilledIn(b, i) < b.orders[i].qty
  BY <1>2, <1>3, <1>4
<1> QED
  BY <1>1, <1>5, <1>6 DEF IsAccount, OrderRow

\* An order is placed.
LEMMA PlaceKeepsAccount ==
  ASSUME NEW b, IsAccount(b), NEW o \in OrderRow, ~o.canceled,
         NEW c, c = [b EXCEPT !.orders = Append(@, o)]
  PROVE  /\ IsAccount(c) /\ c.fills = b.fills /\ Len(c.orders) = Len(b.orders) + 1
         /\ \A i \in 1 .. Len(b.orders) : c.orders[i] = b.orders[i]
<1> DEFINE orders == Append(b.orders, o)
           n == Len(b.orders)
<1>1. /\ b = [orders |-> b.orders, fills |-> b.fills] /\ b.orders \in Seq(OrderRow)
      /\ b.fills \in Seq([order : Nat, at : Int, cum : Nat]) /\ n \in Nat /\ Len(b.fills) \in Nat
  BY AccountFacts
<1>2. /\ orders \in Seq(OrderRow) /\ Len(orders) = n + 1 /\ orders[n + 1] = o
      /\ \A i \in 1 .. n : orders[i] = b.orders[i]
  BY <1>1
<1>3. c = [orders |-> orders, fills |-> b.fills]
  BY <1>1
<1> HIDE DEF orders
<1>4. c.orders = orders /\ c.fills = b.fills
  BY <1>3
<1>5. \A i, k : FillsUpto(c, i, k) = FillsUpto(b, i, k)
  BY <1>4 DEF FillsUpto
<1>6. \A k \in 1 .. Len(b.fills) :
        /\ b.fills[k].order \in 1 .. n
        /\ b.fills[k].cum = Cardinality(FillsUpto(b, b.fills[k].order, k))
  BY AccountFacts
<1>7. \A k \in 1 .. Len(b.fills) :
        /\ b.fills[k].order \in 1 .. Len(orders)
        /\ b.fills[k].cum = Cardinality(FillsUpto(c, b.fills[k].order, k))
  <2>1. TAKE k \in 1 .. Len(b.fills)
  <2>2. b.fills[k].order \in 1 .. n /\ b.fills[k].cum = Cardinality(FillsUpto(b, b.fills[k].order, k))
    BY <1>6
  <2>3. FillsUpto(c, b.fills[k].order, k) = FillsUpto(b, b.fills[k].order, k)
    BY <1>5
  <2>4. b.fills[k].order \in 1 .. Len(orders)
    BY <1>1, <1>2, <2>2, SMTT(30)
  <2> QED
    BY <2>2, <2>3, <2>4
<1>8. \A i \in 1 .. n :
        /\ Cardinality(FillsUpto(c, i, Len(b.fills))) <= orders[i].qty
        /\ orders[i].canceled => Cardinality(FillsUpto(c, i, Len(b.fills))) < orders[i].qty
  <2>1. TAKE i \in 1 .. n
  <2>2. /\ FilledIn(b, i) <= b.orders[i].qty
        /\ b.orders[i].canceled => FilledIn(b, i) < b.orders[i].qty
        /\ FilledIn(b, i) = Cardinality(FillsUpto(b, i, Len(b.fills)))
    BY AccountFacts
  <2> QED
    BY <1>2, <1>5, <2>2
<1>9. FillsUpto(c, n + 1, Len(b.fills)) = {}
  <2>1. \A j \in 1 .. Len(b.fills) : b.fills[j].order # n + 1
    BY <1>1, <1>6, SMTT(30)
  <2> QED
    BY <1>4, <2>1 DEF FillsUpto
<1>10. Cardinality(FillsUpto(c, n + 1, Len(b.fills))) = 0
  BY <1>9, FS_EmptySet
<1>11. \A i \in 1 .. Len(orders) :
        /\ Cardinality(FillsUpto(c, i, Len(b.fills))) <= orders[i].qty
        /\ orders[i].canceled => Cardinality(FillsUpto(c, i, Len(b.fills))) < orders[i].qty
  <2>1. \A i \in 1 .. Len(orders) : i \in 1 .. n \/ i = n + 1
    BY <1>1, <1>2
  <2>2. 0 <= o.qty
    BY DEF OrderRow
  <2> QED
    BY <1>2, <1>8, <1>10, <2>1, <2>2
<1>12. IsAccount(c)
  BY <1>1, <1>2, <1>3, <1>7, <1>11, AccountMade
<1> QED
  BY <1>2, <1>4, <1>12

\* An order that can still trade is filled by one.
LEMMA FillKeepsAccount ==
  ASSUME NEW b, IsAccount(b), NEW i \in 1 .. Len(b.orders), NEW at \in Int,
         FilledIn(b, i) # b.orders[i].qty, ~b.orders[i].canceled,
         NEW f, f = [order |-> i, at |-> at, cum |-> FilledIn(b, i) + 1],
         NEW c, c = [b EXCEPT !.fills = Append(@, f)]
  PROVE  /\ IsAccount(c) /\ c.orders = b.orders /\ Len(c.fills) = Len(b.fills) + 1
         /\ \A k \in 1 .. Len(b.fills) : c.fills[k] = b.fills[k]
         /\ c.fills[Len(b.fills) + 1] = f
<1> DEFINE fills == Append(b.fills, f)
           n == Len(b.fills)
           Fill == [order : Nat, at : Int, cum : Nat]
<1>1. /\ b = [orders |-> b.orders, fills |-> b.fills] /\ b.orders \in Seq(OrderRow)
      /\ b.fills \in Seq(Fill) /\ n \in Nat /\ Len(b.orders) \in Nat
  BY AccountFacts
<1>2. FilledIn(b, i) \in Nat /\ FilledIn(b, i) = Cardinality(FillsUpto(b, i, n))
  BY AccountFacts
<1>3. f \in Fill /\ f.order = i /\ f.cum = FilledIn(b, i) + 1
  BY <1>1, <1>2
<1> HIDE DEF Fill
<1>4. /\ fills \in Seq(Fill) /\ Len(fills) = n + 1 /\ fills[n + 1] = f
      /\ \A k \in 1 .. n : fills[k] = b.fills[k]
  BY <1>1, <1>3
<1>5. c = [orders |-> b.orders, fills |-> fills]
  BY <1>1
<1> HIDE DEF fills
<1>6. c.orders = b.orders /\ c.fills = fills
  BY <1>5
<1>7. \A x, k : k \in 0 .. n => FillsUpto(c, x, k) = FillsUpto(b, x, k)
  <2>1. TAKE x, k
  <2>2. HAVE k \in 0 .. n
  <2>3. \A j \in 1 .. k : j \in 1 .. n
    BY <1>1, <2>2
  <2>4. \A j \in 1 .. k : c.fills[j] = b.fills[j]
    BY <1>4, <1>6, <2>3
  <2> QED
    BY <2>4 DEF FillsUpto
<1>8. FillsUpto(c, i, n + 1) = FillsUpto(b, i, n) \cup {n + 1}
  <2>1. \A j : j \in 1 .. (n + 1) <=> j \in 1 .. n \/ j = n + 1
    BY <1>1
  <2> QED
    BY <1>3, <1>4, <1>6, <2>1 DEF FillsUpto
<1>9. \A x : x # i => FillsUpto(c, x, n + 1) = FillsUpto(b, x, n)
  <2>1. \A j : j \in 1 .. (n + 1) <=> j \in 1 .. n \/ j = n + 1
    BY <1>1
  <2> QED
    BY <1>3, <1>4, <1>6, <2>1 DEF FillsUpto
<1>10. Cardinality(FillsUpto(c, i, n + 1)) = FilledIn(b, i) + 1
  <2>1. IsFiniteSet(FillsUpto(b, i, n)) /\ n + 1 \notin FillsUpto(b, i, n)
    <3>1. n + 1 \notin 1 .. n
      BY <1>1
    <3>2. IsFiniteSet(FillsUpto(b, i, n))
      BY <1>1, FillsUptoFinite
    <3> QED
      BY <3>1, <3>2 DEF FillsUpto
  <2> QED
    BY <1>2, <1>8, <2>1, FS_AddElement
<1>11. \A k \in 1 .. Len(fills) :
         /\ fills[k].order \in 1 .. Len(b.orders)
         /\ fills[k].cum = Cardinality(FillsUpto(c, fills[k].order, k))
  <2>1. TAKE k \in 1 .. Len(fills)
  <2>2. CASE k = n + 1
    BY <1>3, <1>4, <1>10, <2>2
  <2>3. CASE k # n + 1
    <3>1. k \in 1 .. n /\ k \in 0 .. n
      BY <1>1, <1>4, <2>3
    <3>2. fills[k] = b.fills[k]
      BY <1>4, <3>1
    <3>3. b.fills[k].order \in 1 .. Len(b.orders) /\ b.fills[k].cum = Cardinality(FillsUpto(b, b.fills[k].order, k))
      BY <3>1, AccountFacts
    <3> QED
      BY <1>7, <3>1, <3>2, <3>3
  <2> QED
    BY <2>2, <2>3
<1>12. \A x \in 1 .. Len(b.orders) :
         /\ Cardinality(FillsUpto(c, x, Len(fills))) <= b.orders[x].qty
         /\ b.orders[x].canceled => Cardinality(FillsUpto(c, x, Len(fills))) < b.orders[x].qty
  <2>1. TAKE x \in 1 .. Len(b.orders)
  <2>2. /\ FilledIn(b, x) <= b.orders[x].qty
        /\ b.orders[x].canceled => FilledIn(b, x) < b.orders[x].qty
        /\ FilledIn(b, x) = Cardinality(FillsUpto(b, x, n)) /\ b.orders[x].qty \in Nat
    BY AccountFacts DEF OrderRow
  <2>3. CASE x = i
    BY <1>2, <1>4, <1>10, <2>2, <2>3
  <2>4. CASE x # i
    BY <1>4, <1>9, <2>2, <2>4
  <2> QED
    BY <2>3, <2>4
<1>13. IsAccount(c)
  BY <1>1, <1>4, <1>5, <1>11, <1>12, AccountMade DEF Fill
<1> QED
  BY <1>4, <1>6, <1>13

\* An order that can still trade is canceled.
LEMMA CancelKeepsAccount ==
  ASSUME NEW b, IsAccount(b), NEW i \in 1 .. Len(b.orders),
         FilledIn(b, i) # b.orders[i].qty,
         NEW c, c = [b EXCEPT !.orders[i].canceled = TRUE]
  PROVE  /\ IsAccount(c) /\ c.fills = b.fills /\ Len(c.orders) = Len(b.orders)
         /\ \A x \in 1 .. Len(b.orders) : x # i => c.orders[x] = b.orders[x]
         /\ c.orders[i] = [b.orders[i] EXCEPT !.canceled = TRUE]
<1> DEFINE o == [b.orders[i] EXCEPT !.canceled = TRUE]
           orders == [b.orders EXCEPT ![i] = o]
           n == Len(b.orders)
<1>1. /\ b = [orders |-> b.orders, fills |-> b.fills] /\ b.orders \in Seq(OrderRow)
      /\ b.fills \in Seq([order : Nat, at : Int, cum : Nat]) /\ n \in Nat /\ Len(b.fills) \in Nat
      /\ b.orders[i] \in OrderRow
  BY AccountFacts
<1>2. o \in OrderRow /\ o.qty = b.orders[i].qty /\ o.canceled
  BY <1>1 DEF OrderRow
<1>3. c = [orders |-> orders, fills |-> b.fills]
  BY <1>1
<1> HIDE DEF o
<1>4. /\ orders \in Seq(OrderRow) /\ Len(orders) = n /\ orders[i] = o
      /\ \A x \in 1 .. n : x # i => orders[x] = b.orders[x]
  BY <1>1, <1>2
<1> HIDE DEF orders
<1>5. c.orders = orders /\ c.fills = b.fills
  BY <1>3
<1>6. \A x, k : FillsUpto(c, x, k) = FillsUpto(b, x, k)
  BY <1>5 DEF FillsUpto
<1>7. \A k \in 1 .. Len(b.fills) :
        /\ b.fills[k].order \in 1 .. Len(orders)
        /\ b.fills[k].cum = Cardinality(FillsUpto(c, b.fills[k].order, k))
  <2>1. TAKE k \in 1 .. Len(b.fills)
  <2>2. b.fills[k].order \in 1 .. n /\ b.fills[k].cum = Cardinality(FillsUpto(b, b.fills[k].order, k))
    BY AccountFacts
  <2> QED
    BY <1>4, <1>6, <2>2
<1>8. \A x \in 1 .. Len(orders) :
        /\ Cardinality(FillsUpto(c, x, Len(b.fills))) <= orders[x].qty
        /\ orders[x].canceled => Cardinality(FillsUpto(c, x, Len(b.fills))) < orders[x].qty
  <2>1. TAKE x \in 1 .. Len(orders)
  <2>2. /\ FilledIn(b, x) <= b.orders[x].qty
        /\ b.orders[x].canceled => FilledIn(b, x) < b.orders[x].qty
        /\ FilledIn(b, x) = Cardinality(FillsUpto(b, x, Len(b.fills))) /\ FilledIn(b, x) \in Nat
        /\ b.orders[x].qty \in Nat
    BY <1>4, AccountFacts DEF OrderRow
  <2>3. Cardinality(FillsUpto(c, x, Len(b.fills))) = FilledIn(b, x)
    BY <1>6, <2>2
  <2> DEFINE filled == Cardinality(FillsUpto(c, x, Len(b.fills)))
  <2> HIDE DEF filled
  <2>4. CASE x = i
    <3>1. orders[x].qty = b.orders[x].qty /\ filled = FilledIn(b, x) /\ filled # b.orders[x].qty
      BY <1>2, <1>4, <2>3, <2>4 DEF filled
    <3> QED
      BY <2>2, <3>1 DEF filled
  <2>5. CASE x # i
    <3>1. orders[x] = b.orders[x] /\ filled = FilledIn(b, x)
      BY <1>4, <2>3, <2>5 DEF filled
    <3> QED
      BY <2>2, <3>1 DEF filled
  <2> QED
    BY <2>4, <2>5
<1>9. IsAccount(c)
  BY <1>1, <1>3, <1>4, <1>7, <1>8, AccountMade
<1> QED
  BY <1>4, <1>5, <1>9 DEF o

\* The account has orders and fills, and its changes are counted.
LEMMA BrokerFacts ==
  ASSUME CInv
  PROVE  /\ IsAccount(broker) /\ Version \in Nat
         /\ Len(broker.orders) \in Nat /\ DOMAIN broker.orders = 1 .. Len(broker.orders)
         /\ Len(broker.fills) \in Nat /\ DOMAIN broker.fills = 1 .. Len(broker.fills)
<1>1. IsAccount(broker)
  BY DEF CInv, BrokerRight
<1>2. /\ Len(broker.orders) \in Nat /\ DOMAIN broker.orders = 1 .. Len(broker.orders)
      /\ Len(broker.fills) \in Nat /\ DOMAIN broker.fills = 1 .. Len(broker.fills)
  BY <1>1, AccountFacts
<1> DEFINE C == {i \in DOMAIN broker.orders : broker.orders[i].canceled}
<1>3. C \in SUBSET (1 .. Len(broker.orders))
  BY <1>2
<1> HIDE DEF C
<1>4. IsFiniteSet(1 .. Len(broker.orders))
  BY <1>2, FS_Interval
<1>5. Cardinality(C) \in Nat
  <2>1. IsFiniteSet(C)
    BY <1>3, <1>4, FS_Subset
  <2> QED
    BY <2>1, FS_CardinalityType
<1>6. Version = Len(broker.orders) + Len(broker.fills) + Cardinality(C)
  BY DEF Version, C
<1>7. Version \in Nat
  <2>1. \A x, y, z \in Nat : x + y + z \in Nat
    OBVIOUS
  <2>2. Len(broker.orders) \in Nat /\ Len(broker.fills) \in Nat
    BY <1>2
  <2> QED
    BY <1>5, <1>6, <2>1, <2>2
<1> QED
  BY <1>1, <1>2, <1>7

\* Room for one more fault.
LEMMA FaultRoom ==
  ASSUME CInv, MayHappen
  PROVE  faults + 1 \in 0 .. (MaxEvents + 1) /\ faults + 2 \in 0 .. (MaxEvents + 1)
<1>1. Version \in Nat /\ now \in Nat /\ faults \in Nat /\ MaxEvents \in Nat
  BY BrokerFacts, BoundFacts DEF CInv
<1>2. Version + now + faults < MaxEvents
  BY DEF MayHappen
<1> QED
  BY <1>1, <1>2

\* Only the account changes, and its fills are not of a later time.
LEMMA AccountStep ==
  ASSUME CInv, UnchangedWorker, now' \in 0 .. MaxTime, now <= now', BrokerRight'
  PROVE  CInv'
<1>1. AttemptRight'
  BY DEF UnchangedWorker, CInv, AttemptRight
<1>2. SnapsRight'
  BY DEF UnchangedWorker, CInv, SnapsRight
<1>3. run.start \in 0 .. MaxTime /\ MaxTime \in Nat /\ now \in 0 .. MaxTime
  BY BoundFacts DEF CInv, RunState
<1>4. run'.start <= now'
  BY <1>3 DEF UnchangedWorker, CInv
<1> QED
  BY <1>1, <1>2, <1>4 DEF UnchangedWorker, CInv

\* Placing an order keeps the account consistent.
LEMMA PlaceStep ==
  ASSUME CInv, PlaceOrder
  PROVE  CInv'
<1>1. PICK s \in Structures, side \in {"buy", "sell"}, q \in OrderQty :
        broker' = [broker EXCEPT !.orders =
           Append(@, [structure |-> s, side |-> side, qty |-> q, canceled |-> FALSE])]
  BY DEF PlaceOrder
<1> DEFINE o == [structure |-> s, side |-> side, qty |-> q, canceled |-> FALSE]
<1>2. o \in OrderRow /\ ~o.canceled
  BY BoundsAssumption, AccountsAssumption DEF OrderRow
<1>3. broker' = [broker EXCEPT !.orders = Append(@, o)] /\ IsAccount(broker)
  BY <1>1 DEF CInv, BrokerRight
<1> HIDE DEF o
<1>4. /\ IsAccount(broker') /\ broker'.fills = broker.fills
      /\ Len(broker'.orders) = Len(broker.orders) + 1
  BY <1>2, <1>3, PlaceKeepsAccount
<1>5. Len(broker.orders) < MaxOrders /\ now' = now /\ UnchangedWorker
  BY DEF PlaceOrder
<1>6. BrokerRight'
  BY <1>4, <1>5, BrokerFacts, BoundFacts DEF CInv, BrokerRight
<1>7. now' \in 0 .. MaxTime /\ now <= now'
  BY <1>5, BoundFacts DEF CInv
<1> QED
  BY <1>5, <1>6, <1>7, AccountStep

\* An open order is neither filled nor canceled.
LEMMA CanTrade ==
  ASSUME CInv, NEW i \in DOMAIN broker.orders, Status(i) \in {"new", "partially_filled"}
  PROVE  /\ FilledIn(broker, i) # broker.orders[i].qty /\ ~broker.orders[i].canceled
         /\ i \in 1 .. Len(broker.orders)
<1>1. Filled(i) # broker.orders[i].qty /\ ~broker.orders[i].canceled
  BY DEF Status
<1> QED
  BY <1>1, BrokerFacts DEF Filled

\* A fill of an open order keeps the account consistent.
LEMMA FillStep ==
  ASSUME CInv, NEW i, FillOrder(i)
  PROVE  CInv'
<1>1. /\ i \in DOMAIN broker.orders /\ Status(i) \in {"new", "partially_filled"}
      /\ broker' = [broker EXCEPT !.fills = Append(@, [order |-> i, at |-> now, cum |-> Filled(i) + 1])]
      /\ now' = now /\ UnchangedWorker
  BY DEF FillOrder
<1>2. /\ FilledIn(broker, i) # broker.orders[i].qty /\ ~broker.orders[i].canceled
      /\ i \in 1 .. Len(broker.orders) /\ IsAccount(broker) /\ now \in Int
      /\ Filled(i) = FilledIn(broker, i)
  <2>1. now \in Int
    BY BoundFacts DEF CInv
  <2> QED
    BY <1>1, <2>1, CanTrade, BrokerFacts DEF Filled
<1> DEFINE f == [order |-> i, at |-> now, cum |-> FilledIn(broker, i) + 1]
<1>3. broker' = [broker EXCEPT !.fills = Append(@, f)] /\ f.at = now
  BY <1>1, <1>2
<1>4. /\ IsAccount(broker') /\ broker'.orders = broker.orders
      /\ Len(broker'.fills) = Len(broker.fills) + 1
      /\ \A k \in 1 .. Len(broker.fills) : broker'.fills[k] = broker.fills[k]
      /\ broker'.fills[Len(broker.fills) + 1] = f
  BY <1>2, <1>3, FillKeepsAccount
<1> HIDE DEF f
<1>5. Len(broker.fills) \in Nat /\ DOMAIN broker.fills = 1 .. Len(broker.fills)
      /\ DOMAIN broker'.fills = 1 .. Len(broker'.fills)
  <2>1. DOMAIN broker'.fills = 1 .. Len(broker'.fills)
    BY <1>4, AccountFacts
  <2> QED
    BY <2>1, BrokerFacts
<1>6. \A k \in DOMAIN broker'.fills : broker'.fills[k].at <= now
  <2>1. TAKE k \in DOMAIN broker'.fills
  <2>2. k \in DOMAIN broker.fills \/ k = Len(broker.fills) + 1
    BY <1>4, <1>5
  <2>3. CASE k \in DOMAIN broker.fills
    BY <1>4, <1>5, <2>3 DEF CInv, BrokerRight
  <2>4. CASE k = Len(broker.fills) + 1
    BY <1>2, <1>3, <1>4, <2>4
  <2> QED
    BY <2>2, <2>3, <2>4
<1>7. BrokerRight'
  BY <1>1, <1>4, <1>6 DEF CInv, BrokerRight
<1>8. now' \in 0 .. MaxTime /\ now <= now'
  BY <1>1, BoundFacts DEF CInv
<1> QED
  BY <1>1, <1>7, <1>8, AccountStep

\* Canceling an open order keeps the account consistent.
LEMMA CancelStep ==
  ASSUME CInv, NEW i, CancelOrder(i)
  PROVE  CInv'
<1>1. /\ i \in DOMAIN broker.orders /\ Status(i) \in {"new", "partially_filled"}
      /\ broker' = [broker EXCEPT !.orders[i].canceled = TRUE]
      /\ now' = now /\ UnchangedWorker
  BY DEF CancelOrder
<1>2. /\ FilledIn(broker, i) # broker.orders[i].qty
      /\ i \in 1 .. Len(broker.orders) /\ IsAccount(broker)
  BY <1>1, CanTrade, BrokerFacts
<1>3. /\ IsAccount(broker') /\ broker'.fills = broker.fills
      /\ Len(broker'.orders) = Len(broker.orders)
  BY <1>1, <1>2, CancelKeepsAccount, ZenonT(60)
<1>4. BrokerRight'
  BY <1>1, <1>3 DEF CInv, BrokerRight
<1>5. now' \in 0 .. MaxTime /\ now <= now'
  BY <1>1, BoundFacts DEF CInv
<1> QED
  BY <1>1, <1>4, <1>5, AccountStep

\* The clock changes nothing else.
LEMMA ClockStep ==
  ASSUME CInv, ClockTick
  PROVE  CInv'
<1>1. now < MaxTime /\ now' = now + 1 /\ broker' = broker /\ UnchangedWorker
  BY DEF ClockTick
<1>2. now' \in 0 .. MaxTime /\ now <= now' /\ now \in Int
  BY <1>1, BoundFacts DEF CInv
<1>3. \A k \in DOMAIN broker.fills : broker.fills[k].at \in Int /\ broker.fills[k].at <= now
  <2>1. TAKE k \in DOMAIN broker.fills
  <2>2. k \in 1 .. Len(broker.fills) /\ IsAccount(broker)
    BY BrokerFacts
  <2>3. broker.fills[k] \in [order : Nat, at : Int, cum : Nat]
    BY <2>2, AccountFacts
  <2> QED
    BY <2>3 DEF CInv, BrokerRight
<1>4. BrokerRight'
  BY <1>1, <1>2, <1>3 DEF CInv, BrokerRight
<1> QED
  BY <1>1, <1>2, <1>4, AccountStep

\* Only the attempt and what the provider answers it change.
LEMMA WorkerFrame ==
  ASSUME CInv, AttemptRight', run' \in RunState, run'.start <= now,
         UNCHANGED <<broker, now>>,
         faults' \in 0 .. (MaxEvents + 1),
         receipts' \subseteq [attempt : Attempts, resource : Resources, ordinal : 0 .. MaxPages],
         SnapsRight'
  PROVE  CInv'
<1>1. BrokerRight'
  BY DEF CInv, BrokerRight
<1> QED
  BY <1>1 DEF CInv

-----------------------------------------------------------------------------
(* The steps of the reads.                                                  *)

\* Examining a page settles the read and records one receipt.
LEMMA ExamineStep ==
  ASSUME AttemptRight, run \in RunState, NEW a \in Attempts, NEW r \in Resources,
         task[a][r].st \in {"fetching", "recording"},
         NEW pages, IsSeq(pages), Len(pages) \in 1 .. MaxPages,
         ExaminePage(a, r, pages)
  PROVE  /\ AttemptRight' /\ run' \in RunState /\ SameAttempt
         /\ receipts' = receipts \cup {[attempt |-> a, resource |-> r, ordinal |-> Len(pages) - 1]}
         /\ Len(pages) - 1 \in 0 .. MaxPages
<1> DEFINE v == PageVerdict(r, pages)
<1>1. /\ receipts' = receipts \cup {[attempt |-> a, resource |-> r, ordinal |-> Len(pages) - 1]}
      /\ IF v \in Failures THEN SettleTask(a, r, "failed", v, <<>>)
         ELSE SettleTask(a, r, IF v = "next" THEN "fetching" ELSE "done", "none", pages)
  BY DEF ExaminePage
<1>2. v \in {"done", "next", "malformed_response", "resource_limit"}
      /\ (v = "next" => Len(pages) < MaxPages)
  BY VerdictRange
<1> HIDE DEF v
<1>3. Len(pages) - 1 \in 0 .. MaxPages
  BY BoundFacts
<1>4. CASE v \in Failures
  <2>1. SettleTask(a, r, "failed", v, <<>>) /\ v \in Causes
    BY <1>1, <1>4 DEF Causes
  <2>2. ReadRight([st |-> "failed", err |-> v, pages |-> <<>>])
    BY <2>1, FailedIsRight DEF Failed
  <2> QED
    BY <1>1, <1>3, <2>1, <2>2, SettleStep
<1>5. CASE v = "next"
  <2>1. SettleTask(a, r, "fetching", "none", pages)
    BY <1>1, <1>5 DEF Failures
  <2>2. Len(pages) \in 0 .. (MaxPages - 1)
    BY <1>2, <1>5, BoundFacts
  <2>3. ReadRight([st |-> "fetching", err |-> "none", pages |-> pages])
    BY <2>2 DEF ReadRight
  <2> QED
    BY <1>1, <1>3, <2>1, <2>3, SettleStep
<1>6. CASE v = "done"
  <2>1. SettleTask(a, r, "done", "none", pages)
    BY <1>1, <1>6 DEF Failures
  <2>2. ReadRight([st |-> "done", err |-> "none", pages |-> pages])
    BY DEF ReadRight
  <2> QED
    BY <1>1, <1>3, <2>1, <2>2, SettleStep
<1> QED
  BY <1>2, <1>4, <1>5, <1>6 DEF Failures

\* A page is answered, and recorded at once or later.
LEMMA AnswerCases ==
  ASSUME NEW a, NEW r, Answer(a, r), faults \in Nat
  PROVE  /\ task[a][r].st = "fetching"
         /\ faults' = faults \/ (MayHappen /\ faults' \in {faults + 1, faults + 2})
         /\ UNCHANGED <<broker, now, captured, snaps, fillRows>>
         /\ \E flaw \in {"none", "ignored", "unknown"}, slow \in BOOLEAN : \E pages :
              /\ flaw = "ignored" => r \in {"orders", "fills"}
              /\ flaw = "unknown" => r = "orders" /\ broker.orders # <<>>
              /\ faults' = faults => flaw = "none" /\ ~slow
              /\ pages = Append(task[a][r].pages, AnsweredPage(r, task[a][r].pages, flaw))
              /\ IF slow THEN SettleTask(a, r, "recording", "none", pages) /\ UNCHANGED receipts
                 ELSE ExaminePage(a, r, pages)
<1>1. PICK flaw \in {"none", "ignored", "unknown"}, slow \in BOOLEAN :
        /\ flaw = "ignored" => r \in {"orders", "fills"}
        /\ flaw = "unknown" => r = "orders" /\ broker.orders # <<>>
        /\ faults' = faults + (IF flaw # "none" THEN 1 ELSE 0) + (IF slow THEN 1 ELSE 0)
        /\ faults' = faults \/ MayHappen
        /\ \E pages \in {Append(task[a][r].pages, AnsweredPage(r, task[a][r].pages, flaw))} :
             IF slow THEN SettleTask(a, r, "recording", "none", pages) /\ UNCHANGED receipts
             ELSE ExaminePage(a, r, pages)
  BY DEF Answer
<1>2. PICK pages : /\ pages = Append(task[a][r].pages, AnsweredPage(r, task[a][r].pages, flaw))
                   /\ IF slow THEN SettleTask(a, r, "recording", "none", pages) /\ UNCHANGED receipts
                      ELSE ExaminePage(a, r, pages)
  BY <1>1
<1>3. /\ faults' = faults => flaw = "none" /\ ~slow
      /\ faults' \in {faults, faults + 1, faults + 2}
  <2>1. faults' = faults + (IF flaw # "none" THEN 1 ELSE 0) + (IF slow THEN 1 ELSE 0)
    BY <1>1
  <2>2. CASE flaw = "none" /\ ~slow
    BY <2>1, <2>2
  <2>3. CASE flaw # "none" /\ ~slow
    BY <2>1, <2>3
  <2>4. CASE flaw = "none" /\ slow
    BY <2>1, <2>4
  <2>5. CASE flaw # "none" /\ slow
    BY <2>1, <2>5
  <2> QED
    BY <2>2, <2>3, <2>4, <2>5
<1>4. /\ task[a][r].st = "fetching"
      /\ UNCHANGED <<broker, now, captured, snaps, fillRows>>
  BY DEF Answer, UnchangedWorld
<1>5. faults' = faults \/ (MayHappen /\ faults' \in {faults + 1, faults + 2})
  BY <1>1, <1>3
<1> QED
  BY <1>1, <1>2, <1>3, <1>4, <1>5

\* An answer is handled within the attempt.
LEMMA AnswerStep ==
  ASSUME CInv, NEW a \in Attempts, NEW r \in Resources, Answer(a, r)
  PROVE  CInv' /\ SameAttempt
<1>1. faults \in Nat
  BY BoundFacts DEF CInv
<1>2. PICK flaw \in {"none", "ignored", "unknown"}, slow \in BOOLEAN : \E pages :
         /\ pages = Append(task[a][r].pages, AnsweredPage(r, task[a][r].pages, flaw))
         /\ IF slow THEN SettleTask(a, r, "recording", "none", pages) /\ UNCHANGED receipts
            ELSE ExaminePage(a, r, pages)
  BY <1>1, AnswerCases
<1>3. PICK pages :
         /\ pages = Append(task[a][r].pages, AnsweredPage(r, task[a][r].pages, flaw))
         /\ IF slow THEN SettleTask(a, r, "recording", "none", pages) /\ UNCHANGED receipts
            ELSE ExaminePage(a, r, pages)
  BY <1>2
<1>4. /\ task[a][r].st = "fetching"
      /\ faults' = faults \/ (MayHappen /\ faults' \in {faults + 1, faults + 2})
      /\ UNCHANGED <<broker, now, captured, snaps, fillRows>>
  BY <1>1, AnswerCases
<1>5. AttemptRight /\ run \in RunState /\ ReadRight(task[a][r])
  BY DEF CInv, AttemptRight, ReadsRight
<1>6. IsSeq(pages) /\ Len(pages) \in 1 .. MaxPages
  <2>1. IsSeq(task[a][r].pages) /\ Len(task[a][r].pages) \in 0 .. (MaxPages - 1)
    BY <1>4, <1>5 DEF ReadRight
  <2>2. IsSeq(pages) /\ Len(pages) = Len(task[a][r].pages) + 1
    BY <1>3, <2>1, AppendIsSeq
  <2> QED
    BY <2>1, <2>2, BoundFacts
<1>7. AttemptRight' /\ run' \in RunState /\ SameAttempt
      /\ receipts' \subseteq [attempt : Attempts, resource : Resources, ordinal : 0 .. MaxPages]
  <2>1. CASE slow
    <3>1. SettleTask(a, r, "recording", "none", pages) /\ UNCHANGED receipts
      BY <1>3, <2>1
    <3>2. ReadRight([st |-> "recording", err |-> "none", pages |-> pages])
      BY <1>6 DEF ReadRight
    <3>3. AttemptRight' /\ run' \in RunState /\ SameAttempt
      BY <1>4, <1>5, <3>1, <3>2, SettleStep
    <3> QED
      BY <3>1, <3>3 DEF CInv
  <2>2. CASE ~slow
    <3>1. ExaminePage(a, r, pages)
      BY <1>3, <2>2
    <3>2. /\ AttemptRight' /\ run' \in RunState /\ SameAttempt
          /\ receipts' = receipts \cup {[attempt |-> a, resource |-> r, ordinal |-> Len(pages) - 1]}
          /\ Len(pages) - 1 \in 0 .. MaxPages
      BY <1>4, <1>5, <1>6, <3>1, ExamineStep
    <3> QED
      BY <3>2 DEF CInv
  <2> QED
    BY <2>1, <2>2
<1>8. faults' \in 0 .. (MaxEvents + 1)
  BY <1>4, FaultRoom DEF CInv
<1>9. run'.start <= now /\ SnapsRight'
  BY <1>4, <1>7 DEF SameAttempt, CInv, SnapsRight
<1> QED
  BY <1>4, <1>7, <1>8, <1>9, WorkerFrame

\* A failed answer is handled within the attempt.
LEMMA AnswerFailsStep ==
  ASSUME CInv, NEW a \in Attempts, NEW r \in Resources, NEW class \in FailureClasses,
         AnswerFails(a, r, class)
  PROVE  CInv' /\ SameAttempt
<1>1. /\ task[a][r].st = "fetching" /\ MayHappen /\ faults' = faults + 1
      /\ SettleTask(a, r, "failed", class, <<>>)
      /\ UNCHANGED <<broker, now, captured, receipts, snaps, fillRows>>
  BY DEF AnswerFails, UnchangedWorld
<1>2. class \in Causes
  BY BoundFacts DEF Causes
<1>3. ReadRight([st |-> "failed", err |-> class, pages |-> <<>>])
  BY <1>2, FailedIsRight DEF Failed
<1>4. AttemptRight /\ run \in RunState
  BY DEF CInv
<1>5. AttemptRight' /\ run' \in RunState /\ SameAttempt
  BY <1>1, <1>2, <1>3, <1>4, SettleStep
<1>6. faults' \in 0 .. (MaxEvents + 1)
  BY <1>1, FaultRoom
<1>7. run'.start <= now /\ SnapsRight' /\ receipts' \subseteq [attempt : Attempts, resource : Resources, ordinal : 0 .. MaxPages]
  BY <1>1, <1>5 DEF SameAttempt, CInv, SnapsRight
<1> QED
  BY <1>1, <1>5, <1>6, <1>7, WorkerFrame

\* Recording the receipt of a page is handled within the attempt.
LEMMA RecordStep ==
  ASSUME CInv, NEW a \in Attempts, NEW r \in Resources, RecordReceipt(a, r)
  PROVE  CInv' /\ SameAttempt
<1> DEFINE pages == task[a][r].pages
<1>1. /\ task[a][r].st = "recording" /\ UNCHANGED <<broker, now, captured, snaps, fillRows>>
      /\ \/ ExaminePage(a, r, pages) /\ UNCHANGED faults
         \/ /\ MayHappen /\ faults' = faults + 1
            /\ SettleTask(a, r, "failed", "database", <<>>)
            /\ UNCHANGED receipts
  BY DEF RecordReceipt, UnchangedWorld
<1>2. AttemptRight /\ run \in RunState /\ ReadRight(task[a][r])
  BY DEF CInv, AttemptRight, ReadsRight
<1>3. IsSeq(pages) /\ Len(pages) \in 1 .. MaxPages
  BY <1>1, <1>2 DEF ReadRight
<1> HIDE DEF pages
<1>4. /\ AttemptRight' /\ run' \in RunState /\ SameAttempt
      /\ receipts' \subseteq [attempt : Attempts, resource : Resources, ordinal : 0 .. MaxPages]
      /\ faults' \in 0 .. (MaxEvents + 1)
  <2>1. CASE ExaminePage(a, r, pages) /\ UNCHANGED faults
    <3>1. /\ AttemptRight' /\ run' \in RunState /\ SameAttempt
          /\ receipts' = receipts \cup {[attempt |-> a, resource |-> r, ordinal |-> Len(pages) - 1]}
          /\ Len(pages) - 1 \in 0 .. MaxPages
      BY <1>1, <1>2, <1>3, <2>1, ExamineStep
    <3> QED
      BY <2>1, <3>1 DEF CInv
  <2>2. CASE /\ MayHappen /\ faults' = faults + 1
             /\ SettleTask(a, r, "failed", "database", <<>>)
             /\ UNCHANGED receipts
    <3>1. "database" \in Causes
      BY DEF Causes
    <3>2. ReadRight([st |-> "failed", err |-> "database", pages |-> <<>>])
      BY <3>1, FailedIsRight DEF Failed
    <3>3. AttemptRight' /\ run' \in RunState /\ SameAttempt
      BY <1>1, <1>2, <2>2, <3>1, <3>2, SettleStep
    <3> QED
      BY <2>2, <3>3, FaultRoom DEF CInv
  <2> QED
    BY <1>1, <2>1, <2>2
<1>5. run'.start <= now /\ SnapsRight'
  BY <1>1, <1>4 DEF SameAttempt, CInv, SnapsRight
<1> QED
  BY <1>1, <1>4, <1>5, WorkerFrame

-----------------------------------------------------------------------------
(* The steps of an attempt.                                                 *)

\* An attempt begins with the read of the account and no receipt.
LEMMA StartStep ==
  ASSUME ReadsRight(task), \A b \in Attempts, q \in Resources : task[b][q] = Idle,
         NEW a \in Attempts, NEW from \in RunState, from.cycle \in 1 .. MaxPolls,
         now \in 0 .. MaxTime, Len(broker.orders) \in 0 .. MaxOrders, MaxTime \in Nat,
         StartAttempt(a, from)
  PROVE  /\ AttemptRight' /\ run' \in RunState /\ receipts' = {}
         /\ run'.pc = "account" /\ run'.attempt = a /\ run'.cycle = from.cycle
         /\ run'.start = now /\ run'.known = Len(broker.orders)
         /\ task'[a]["account"] = [st |-> "fetching", err |-> "none", pages |-> <<>>]
         /\ \A b \in Attempts, q \in Resources :
              b # a \/ q # "account" => task'[b][q] = Idle
         /\ run'.aborted = from.aborted
<1> DEFINE read == [st |-> "fetching", err |-> "none", pages |-> <<>>]
<1>0. "account" \in Resources
  BY DEF Resources
<1>1. /\ run' = [from EXCEPT !.pc = "account", !.attempt = a, !.start = now,
                   !.known = Len(broker.orders), !.timedOut = FALSE, !.reason = "none", !.outcome = "none"]
      /\ task' = [task EXCEPT ![a]["account"].st = "fetching"]
      /\ receipts' = {}
  BY DEF StartAttempt
<1>2. task' = [task EXCEPT ![a]["account"] = read]
  <2>1. task[a]["account"] = [st |-> "idle", err |-> "none", pages |-> <<>>]
    BY <1>0 DEF Idle
  <2>2. [task[a]["account"] EXCEPT !.st = "fetching"] = read
    BY <2>1
  <2>3. task' = [task EXCEPT ![a]["account"] = [task[a]["account"] EXCEPT !.st = "fetching"]]
    BY <1>1
  <2> QED
    BY <2>2, <2>3
<1>3. ReadRight(read) /\ read.st = "fetching"
  BY EmptyIsSeq, BoundFacts DEF ReadRight
<1>3a. read = [st |-> "fetching", err |-> "none", pages |-> <<>>]
  OBVIOUS
<1> HIDE DEF read
<1>4. /\ ReadsRight(task') /\ task'[a]["account"] = read
      /\ \A b \in Attempts, q \in Resources : b # a \/ q # "account" => task'[b][q] = Idle
  <2>1. /\ ReadsRight([task EXCEPT ![a]["account"] = read])
        /\ [task EXCEPT ![a]["account"] = read][a]["account"] = read
        /\ \A b \in Attempts, q \in Resources :
             b # a \/ q # "account" => [task EXCEPT ![a]["account"] = read][b][q] = task[b][q]
    BY <1>0, <1>3, EditRules
  <2> QED
    BY <1>2, <2>1
<1>5. /\ run'.pc = "account" /\ run'.attempt = a /\ run'.cycle = from.cycle
      /\ run'.start = now /\ run'.known = Len(broker.orders)
      /\ run'.timedOut = FALSE /\ run'.reason = "none" /\ run'.aborted = from.aborted
      /\ run'.outcome = "none"
  BY <1>1 DEF RunState
<1>6. run' \in RunState
  <2>1. "none" \in Errors /\ a \in 0 .. MaxAttempts
    BY BoundFacts DEF Errors, Attempts
  <2> QED
    BY <1>1, <2>1 DEF RunState
<1>7. PhaseRight(task', run')
  <2>1. \A q \in Collections : q \in Resources /\ q # "account"
    BY DEF Collections, Resources
  <2>2. \A b \in Attempts, q \in Resources : b # run'.attempt => task'[b][q] = Idle
    BY <1>4, <1>5
  <2>3. /\ task'[run'.attempt]["account"].st # "idle" /\ run'.reason = "none"
        /\ \A q \in Collections : task'[run'.attempt][q] = Idle
    BY <1>3, <1>4, <1>5, <2>1
  <2>4. run'.attempt \in Attempts /\ run'.cycle \in 1 .. MaxPolls
    BY <1>5
  <2> QED
    BY <1>5, <2>2, <2>3, <2>4 DEF PhaseRight
<1>8. CauseRight(run')
  BY <1>5 DEF CauseRight
<1> QED
  BY <1>1, <1>3a, <1>4, <1>5, <1>6, <1>7, <1>8 DEF AttemptRight

\* What an attempt held in memory is gone.
LEMMA ForgetRules ==
  ASSUME ReadsRight(task), ForgetAttempt, run.attempt \in Attempts
  PROVE  /\ ReadsRight(task')
         /\ \A b \in Attempts, q \in Resources :
              task'[b][q] = IF b = run.attempt /\ task[b][q].st \in {"done", "failed"}
                            THEN Idle ELSE task[b][q]
<1> DEFINE a == run.attempt
           Left(read) == IF read.st \in {"done", "failed"} THEN Idle ELSE read
           row == [r \in Resources |-> Left(task[a][r])]
<1>1. task' = [task EXCEPT ![a] = row]
  BY DEF ForgetAttempt
<1>2. task = [b \in Attempts |-> [q \in Resources |-> task[b][q]]]
  BY SMTT(30) DEF ReadsRight
<1>3. task' = [b \in Attempts |-> IF b = a THEN row ELSE task[b]]
  BY <1>1, <1>2
<1>4. \A b \in Attempts : task'[b] = IF b = a THEN row ELSE task[b]
  BY <1>3
<1>5. \A b \in Attempts, q \in Resources :
        task'[b][q] = IF b = a /\ task[b][q].st \in {"done", "failed"} THEN Idle ELSE task[b][q]
  <2>1. TAKE b \in Attempts, q \in Resources
  <2>2. CASE b = a
    BY <1>4, <2>2
  <2>3. CASE b # a
    BY <1>4, <2>3
  <2> QED
    BY <2>2, <2>3
<1>6. \A b \in Attempts : task'[b] = [q \in Resources |-> task'[b][q]]
  <2>1. TAKE b \in Attempts
  <2>2. CASE b = a
    BY <1>4, <2>2
  <2>3. task[b] = [q \in Resources |-> task[b][q]]
    BY <1>2
  <2>4. CASE b # a
    BY <1>4, <2>3, <2>4
  <2> QED
    BY <2>2, <2>4
<1>7. task' = [b \in Attempts |-> task'[b]]
  BY <1>3
<1>8. task' = [b \in Attempts |-> [q \in Resources |-> task'[b][q]]]
  BY <1>6, <1>7
<1>9. \A b \in Attempts, q \in Resources : ReadRight(task'[b][q])
  BY <1>5, IdleIsRight DEF ReadsRight
<1> QED
  BY <1>5, <1>8, <1>9 DEF ReadsRight

\* The cycle has ended.
LEMMA EndedRules ==
  ASSUME run \in RunState, NEW outcome \in Errors
  PROVE  /\ Ended(outcome) \in RunState
         /\ Ended(outcome).pc = "idle" /\ Ended(outcome).attempt = 0 /\ Ended(outcome).cycle = run.cycle
         /\ Ended(outcome).start = 0 /\ Ended(outcome).known = 0
         /\ ~Ended(outcome).timedOut /\ ~Ended(outcome).aborted
         /\ Ended(outcome).reason = "none" /\ Ended(outcome).outcome = outcome
<1>1. "none" \in Errors /\ 0 \in 0 .. MaxAttempts /\ 0 \in 0 .. MaxTime /\ 0 \in 0 .. MaxOrders
  BY BoundFacts DEF Errors
<1>2. Ended(outcome) = [run EXCEPT !.pc = "idle", !.attempt = 0, !.start = 0, !.known = 0,
                          !.timedOut = FALSE, !.aborted = FALSE, !.reason = "none",
                          !.outcome = outcome]
  BY DEF Ended
<1>3. Ended(outcome) \in RunState
  BY <1>1, <1>2 DEF RunState
<1> QED
  BY <1>2, <1>3 DEF RunState

\* When every read of the attempt is idle the cycle may end.
LEMMA EndStep ==
  ASSUME ReadsRight(task'), \A b \in Attempts, q \in Resources : task'[b][q] = Idle,
         run \in RunState, NEW outcome \in Errors, run' = Ended(outcome)
  PROVE  /\ AttemptRight' /\ run' \in RunState
         /\ run'.pc = "idle" /\ run'.cycle = run.cycle /\ run'.outcome = outcome /\ run'.start = 0
<1>1. /\ run' \in RunState /\ run'.pc = "idle" /\ run'.attempt = 0 /\ run'.cycle = run.cycle
      /\ run'.start = 0 /\ ~run'.timedOut /\ ~run'.aborted /\ run'.reason = "none"
      /\ run'.outcome = outcome
  BY EndedRules
<1>2. PhaseRight(task', run')
  BY <1>1 DEF PhaseRight
<1>3. CauseRight(run')
  BY <1>1 DEF CauseRight
<1> QED
  BY <1>1, <1>2, <1>3 DEF AttemptRight

\* An attempt fails when none of its reads is in progress.
LEMMA FailStep ==
  ASSUME CInv, run.pc \in {"account", "collect"},
         \A r \in Resources : task[run.attempt][r] = Idle \/ task[run.attempt][r].st \in {"done", "failed"},
         NEW err \in Errors, FailAttempt(err)
  PROVE  /\ AttemptRight' /\ run' \in RunState /\ run'.start \in {0, run.start}
         /\ run'.pc \in {"idle", "delay"} /\ run'.cycle = run.cycle
         /\ run'.outcome = AttemptError(err)
         /\ run'.pc = "delay" => run'.aborted = run.aborted /\ run'.attempt = run.attempt
         /\ \A b \in Attempts, q \in Resources : task'[b][q] = Idle
<1> DEFINE class == AttemptError(err)
<1>1. /\ ForgetAttempt
      /\ run' = IF MayRetry(class)
                THEN [run EXCEPT !.pc = "delay", !.outcome = class] ELSE Ended(class)
  BY DEF FailAttempt
<1>2. AttemptRight /\ run \in RunState
  BY DEF CInv
<1>3. run.attempt \in Attempts /\ run.cycle \in 1 .. MaxPolls
  BY <1>2 DEF AttemptRight, PhaseRight
<1>4. class \in Errors
  BY DEF AttemptError, Errors, Failures
<1>5. ReadsRight(task') /\ \A b \in Attempts, q \in Resources : task'[b][q] = Idle
  <2>1. /\ ReadsRight(task')
        /\ \A b \in Attempts, q \in Resources :
             task'[b][q] = IF b = run.attempt /\ task[b][q].st \in {"done", "failed"}
                           THEN Idle ELSE task[b][q]
    BY <1>1, <1>2, <1>3, ForgetRules DEF AttemptRight
  <2>2. \A b \in Attempts, q \in Resources : b # run.attempt => task[b][q] = Idle
    BY <1>2 DEF AttemptRight, PhaseRight
  <2> QED
    BY <2>1, <2>2
<1> HIDE DEF class
<1>6. CASE ~MayRetry(class)
  <2>1. run' = Ended(class)
    BY <1>1, <1>6
  <2>2. /\ AttemptRight' /\ run' \in RunState
        /\ run'.pc = "idle" /\ run'.cycle = run.cycle /\ run'.outcome = class /\ run'.start = 0
    BY <1>2, <1>4, <1>5, <2>1, EndStep
  <2> QED
    BY <1>5, <2>2 DEF class
<1>7. CASE MayRetry(class)
  <2>1. run' = [run EXCEPT !.pc = "delay", !.outcome = class] /\ run.attempt < MaxAttempts
    BY <1>1, <1>7 DEF MayRetry
  <2>2. /\ run' \in RunState /\ run'.pc = "delay" /\ run'.outcome = class
        /\ run'.attempt = run.attempt /\ run'.cycle = run.cycle /\ run'.reason = run.reason
        /\ run'.timedOut = run.timedOut /\ run'.aborted = run.aborted /\ run'.start = run.start
    BY <1>2, <1>4, <2>1 DEF RunState
  <2>3. PhaseRight(task', run')
    BY <1>3, <1>5, <2>1, <2>2 DEF PhaseRight
  <2>4. CauseRight(run')
    BY <1>2, <2>2 DEF AttemptRight, CauseRight
  <2> QED
    BY <1>5, <2>2, <2>3, <2>4 DEF AttemptRight, class
<1> QED
  BY <1>6, <1>7

\* A read that has begun.
NewRead == [st |-> "fetching", err |-> "none", pages |-> <<>>]

\* A cycle begins with one attempt and no receipts.
LEMMA BeginStep ==
  ASSUME CInv, BeginCycle
  PROVE  /\ CInv' /\ run'.pc = "account" /\ receipts' = {} /\ run'.start = now
         /\ run'.known = Len(broker.orders) /\ run'.attempt \in Attempts
         /\ \A b \in Attempts, q \in Resources : task'[b][q] \in {Idle, NewRead}
<1>1. /\ run.pc = "idle" /\ run.cycle < MaxPolls
      /\ StartAttempt(1, [run EXCEPT !.cycle = @ + 1, !.outcome = "none"])
      /\ UNCHANGED <<broker, now, captured, snaps, fillRows, faults>>
  BY DEF BeginCycle
<1> DEFINE from == [run EXCEPT !.cycle = @ + 1, !.outcome = "none"]
<1>2. from \in RunState /\ from.cycle = run.cycle + 1 /\ from.cycle \in 1 .. MaxPolls
  <2>1. run \in RunState /\ run.cycle + 1 \in 1 .. MaxPolls /\ run.cycle + 1 \in 0 .. MaxPolls
    BY <1>1, BoundFacts DEF CInv, RunState
  <2>2. "none" \in Errors
    BY DEF Errors
  <2> QED
    BY <2>1, <2>2 DEF RunState
<1> HIDE DEF from
<1>3. StartAttempt(1, from)
  BY <1>1 DEF from
<1>4. /\ ReadsRight(task) /\ \A b \in Attempts, q \in Resources : task[b][q] = Idle
  <2>1. run.attempt = 0 /\ 0 \notin Attempts
    BY <1>1 DEF CInv, AttemptRight, PhaseRight, Attempts
  <2> QED
    BY <2>1 DEF CInv, AttemptRight, PhaseRight
<1>5. now \in 0 .. MaxTime /\ Len(broker.orders) \in 0 .. MaxOrders /\ MaxTime \in Nat /\ 1 \in Attempts
  BY BrokerFacts, BoundFacts DEF CInv, BrokerRight
<1>6. /\ AttemptRight' /\ run' \in RunState /\ receipts' = {}
      /\ run'.pc = "account" /\ run'.attempt = 1 /\ run'.cycle = from.cycle
      /\ run'.start = now /\ run'.known = Len(broker.orders)
      /\ \A b \in Attempts, q \in Resources : b # 1 \/ q # "account" => task'[b][q] = Idle
      /\ task'[1]["account"] = NewRead
  BY <1>2, <1>3, <1>4, <1>5, StartStep DEF NewRead
<1>7. SnapsRight'
  <2>1. Len(snaps) <= run.cycle /\ IsSeq(snaps)
    BY <1>1 DEF CInv, SnapsRight
  <2>2. Len(snaps) <= run'.cycle - 1
    BY <1>2, <1>6, <2>1 DEF CInv, RunState
  <2> QED
    BY <1>1, <1>6, <2>1, <2>2 DEF SnapsRight
<1>8. run'.start <= now /\ faults' \in 0 .. (MaxEvents + 1)
  BY <1>1, <1>5, <1>6 DEF CInv
<1>9. CInv'
  BY <1>1, <1>6, <1>7, <1>8, WorkerFrame
<1> QED
  BY <1>5, <1>6, <1>9

\* A read that begins has no pages.
LEMMA NewReadIsRight == ReadRight(NewRead) /\ NewRead.st = "fetching" /\ NewRead.pages = <<>>
BY EmptyIsSeq, BoundFacts DEF ReadRight, NewRead

\* The account has been read: the collections follow, unless they are aborted.
LEMMA AccountReadStep ==
  ASSUME CInv, AccountRead
  PROVE  /\ CInv' /\ run'.pc = "collect" /\ run'.attempt = run.attempt /\ run'.cycle = run.cycle
         /\ run'.start = run.start /\ run'.known = run.known /\ run'.outcome = run.outcome
         /\ task'[run.attempt]["account"] = task[run.attempt]["account"]
         /\ \A r \in Collections : task'[run.attempt][r] \in {NewRead, Failed("cancelled")}
         /\ UNCHANGED <<broker, now, captured, receipts, snaps, fillRows, faults>>
<1> DEFINE a == run.attempt
           tasks == [task EXCEPT ![a] = [r \in Resources |->
                       IF r = "account" THEN task[a][r] ELSE [task[a][r] EXCEPT !.st = "fetching"]]]
<1>1. /\ run.pc = "account" /\ task[a]["account"].st = "done"
      /\ run' = [run EXCEPT !.pc = "collect",
                   !.reason = IF run.aborted THEN "shutdown" ELSE IF run.timedOut THEN "deadline"
                              ELSE "none"]
      /\ task' = CancelFetches(tasks, run')
      /\ UNCHANGED <<broker, now, captured, receipts, snaps, fillRows, faults>>
  BY DEF AccountRead, CurrentTask, UnchangedRest
<1>2. run \in RunState /\ AttemptRight /\ ReadsRight(task)
  BY DEF CInv, AttemptRight
<1>3. a \in Attempts /\ run.cycle \in 1 .. MaxPolls /\ \A r \in Collections : task[a][r] = Idle
  BY <1>1, <1>2 DEF AttemptRight, PhaseRight
<1>4. /\ "account" \in Resources /\ "account" \notin Collections
      /\ \A r \in Resources : r # "account" <=> r \in Collections
  BY DEF Resources, Collections
<1>5. /\ \A b \in Attempts, r \in Resources :
           tasks[b][r] = IF b # a \/ r = "account" THEN task[b][r] ELSE NewRead
      /\ tasks = [b \in Attempts |-> [r \in Resources |-> tasks[b][r]]]
  <2> DEFINE row == [r \in Resources |->
                       IF r = "account" THEN task[a][r] ELSE [task[a][r] EXCEPT !.st = "fetching"]]
  <2>1. \A r \in Resources : row[r] = IF r = "account" THEN task[a][r] ELSE NewRead
    <3>1. TAKE r \in Resources
    <3>2. CASE r = "account"
      BY <3>2
    <3>3. CASE r # "account"
      <4>1. task[a][r] = [st |-> "idle", err |-> "none", pages |-> <<>>]
        BY <1>3, <1>4, <3>3 DEF Idle
      <4>2. row[r] = [task[a][r] EXCEPT !.st = "fetching"]
        BY <3>3
      <4> QED
        BY <3>3, <4>1, <4>2 DEF NewRead
    <3> QED
      BY <3>2, <3>3
  <2>2. row = [r \in Resources |-> row[r]]
    OBVIOUS
  <2>3. task = [b \in Attempts |-> [r \in Resources |-> task[b][r]]]
    BY <1>2 DEF ReadsRight
  <2>4. tasks = [task EXCEPT ![a] = row]
    OBVIOUS
  <2> HIDE DEF row, tasks
  <2>5. tasks = [b \in Attempts |-> IF b = a THEN row ELSE task[b]]
    BY <2>3, <2>4
  <2>6. \A b \in Attempts : tasks[b] = IF b = a THEN row ELSE task[b]
    BY <2>5
  <2>7. \A b \in Attempts, r \in Resources :
           tasks[b][r] = IF b # a \/ r = "account" THEN task[b][r] ELSE NewRead
    BY <2>1, <2>6
  <2>8. \A b \in Attempts : tasks[b] = [r \in Resources |-> tasks[b][r]]
    <3>1. TAKE b \in Attempts
    <3>2. task[b] = [r \in Resources |-> task[b][r]]
      BY <2>3
    <3>3. CASE b = a
      BY <2>2, <2>6, <3>3
    <3>4. CASE b # a
      BY <2>6, <3>2, <3>4
    <3> QED
      BY <3>3, <3>4
  <2>9. tasks = [b \in Attempts |-> tasks[b]]
    BY <2>5
  <2>10. tasks = [b \in Attempts |-> [r \in Resources |-> tasks[b][r]]]
    BY <2>8, <2>9
  <2> QED
    BY <2>7, <2>10
<1> HIDE DEF tasks
<1>6. ReadsRight(tasks)
  <2>1. \A b \in Attempts, r \in Resources : ReadRight(tasks[b][r])
    BY <1>2, <1>5, NewReadIsRight DEF ReadsRight
  <2> QED
    BY <1>5, <2>1 DEF ReadsRight
<1>7. /\ ReadsRight(task')
      /\ \A b \in Attempts, r \in Resources :
           task'[b][r] = IF tasks[b][r].st = "fetching" /\ IsAborted(run', b, r)
                         THEN Failed("cancelled") ELSE tasks[b][r]
  BY <1>1, <1>6, CancelRules
<1>8. /\ run' \in RunState /\ run'.pc = "collect" /\ run'.attempt = a /\ run'.cycle = run.cycle
      /\ run'.start = run.start /\ run'.known = run.known /\ run'.timedOut = run.timedOut
      /\ run'.aborted = run.aborted /\ run'.outcome = run.outcome
      /\ run'.reason = IF run.aborted THEN "shutdown" ELSE IF run.timedOut THEN "deadline" ELSE "none"
  <2> DEFINE reason == IF run.aborted THEN "shutdown" ELSE IF run.timedOut THEN "deadline" ELSE "none"
  <2>1. reason \in Errors
    BY DEF Errors
  <2>2. run' = [run EXCEPT !.pc = "collect", !.reason = reason]
    BY <1>1
  <2> HIDE DEF reason
  <2>3. /\ run' \in RunState /\ run'.pc = "collect" /\ run'.attempt = a /\ run'.cycle = run.cycle
        /\ run'.start = run.start /\ run'.known = run.known /\ run'.timedOut = run.timedOut
        /\ run'.aborted = run.aborted /\ run'.outcome = run.outcome
        /\ run'.reason = reason
    BY <1>2, <2>1, <2>2 DEF RunState
  <2> QED
    BY <2>3 DEF reason
<1>9. task'[a]["account"] = task[a]["account"]
  <2>1. tasks[a]["account"] = task[a]["account"]
    BY <1>3, <1>4, <1>5
  <2> QED
    BY <1>1, <1>3, <1>4, <1>7, <2>1
<1>10. \A r \in Collections :
         task'[a][r] = IF IsAborted(run', a, r) THEN Failed("cancelled") ELSE NewRead
  <2>1. TAKE r \in Collections
  <2>2. r \in Resources /\ tasks[a][r] = NewRead
    BY <1>3, <1>4, <1>5 DEF Resources
  <2> QED
    BY <1>3, <1>7, <2>2, NewReadIsRight
<1>11. PhaseRight(task', run')
  <2>1. \A b \in Attempts, r \in Resources : b # run'.attempt => task'[b][r] = Idle
    <3>1. TAKE b \in Attempts, r \in Resources
    <3>2. HAVE b # run'.attempt
    <3>3. tasks[b][r] = Idle
      BY <1>2, <1>5, <1>8, <3>2 DEF AttemptRight, PhaseRight
    <3> QED
      BY <1>7, <3>3, IdleIsRight
  <2>2. \A r \in Collections : task'[run'.attempt][r].st # "idle"
    BY <1>8, <1>10, NewReadIsRight, FailedIsRight
  <2>3. run'.reason = "none" => \A r \in Collections : task'[run'.attempt][r].st # "failed"
    <3>1. HAVE run'.reason = "none"
    <3>2. TAKE r \in Collections
    <3>3. ~IsAborted(run', a, r)
      BY <1>4, <1>8, <3>1 DEF IsAborted
    <3> QED
      BY <1>8, <1>10, <3>3, NewReadIsRight
  <2>4. run'.attempt \in Attempts /\ run'.cycle \in 1 .. MaxPolls
        /\ task'[run'.attempt]["account"].st = "done"
    BY <1>1, <1>3, <1>8, <1>9
  <2> QED
    BY <1>8, <2>1, <2>2, <2>3, <2>4 DEF PhaseRight
<1>12. CauseRight(run')
  BY <1>8 DEF CauseRight
<1>13. SnapsRight'
  BY <1>1, <1>8 DEF CInv, SnapsRight
<1>14. AttemptRight'
  BY <1>7, <1>11, <1>12 DEF AttemptRight
<1>15. CInv'
  <2>1. run'.start <= now /\ faults' \in 0 .. (MaxEvents + 1)
        /\ receipts' \subseteq [attempt : Attempts, resource : Resources, ordinal : 0 .. MaxPages]
    BY <1>1, <1>8 DEF CInv
  <2> QED
    BY <1>1, <1>8, <1>13, <1>14, <2>1, WorkerFrame
<1> QED
  BY <1>1, <1>8, <1>9, <1>10, <1>15

\* A failed account read ends the attempt with its error.
LEMMA AccountReadFailedStep ==
  ASSUME CInv, AccountReadFailed
  PROVE  /\ CInv' /\ run'.pc \in {"idle", "delay"} /\ run'.outcome = AttemptError(task[run.attempt]["account"].err)
         /\ UNCHANGED <<broker, now, captured, receipts, snaps, fillRows, faults>>
         /\ \A b \in Attempts, q \in Resources : task'[b][q] = Idle
<1> DEFINE a == run.attempt
           err == task[a]["account"].err
<1>1. /\ run.pc = "account" /\ task[a]["account"].st = "failed" /\ FailAttempt(err)
      /\ UNCHANGED <<broker, now, captured, receipts, snaps, fillRows, faults>>
  BY DEF AccountReadFailed, CurrentTask, UnchangedRest
<1>2. /\ run \in RunState /\ a \in Attempts /\ \A r \in Collections : task[a][r] = Idle
      /\ ReadRight(task[a]["account"])
  BY <1>1 DEF CInv, AttemptRight, PhaseRight, ReadsRight, Resources
<1>3. err \in Errors
  BY <1>1, <1>2 DEF ReadRight, Causes, Errors
<1>4. \A r \in Resources : task[run.attempt][r] = Idle \/ task[run.attempt][r].st \in {"done", "failed"}
  BY <1>1, <1>2 DEF Resources
<1> HIDE DEF err
<1>5. /\ AttemptRight' /\ run' \in RunState /\ run'.start \in {0, run.start}
      /\ run'.pc \in {"idle", "delay"} /\ run'.cycle = run.cycle
      /\ run'.outcome = AttemptError(err)
      /\ \A b \in Attempts, q \in Resources : task'[b][q] = Idle
  BY <1>1, <1>3, <1>4, FailStep
<1>6. SnapsRight'
  <2>1. IsSeq(snaps) /\ Len(snaps) <= run.cycle - 1 /\ run.cycle \in Nat
    BY <1>1, <1>2, BoundFacts DEF CInv, SnapsRight, RunState
  <2>2. Len(snaps) \in Nat
    BY <2>1 DEF IsSeq
  <2> QED
    BY <1>1, <1>5, <2>1, <2>2 DEF SnapsRight
<1>7. run'.start <= now /\ faults' \in 0 .. (MaxEvents + 1)
      /\ receipts' \subseteq [attempt : Attempts, resource : Resources, ordinal : 0 .. MaxPages]
  BY <1>1, <1>5, BoundFacts DEF CInv
<1>8. CInv'
  BY <1>1, <1>5, <1>6, <1>7, WorkerFrame
<1> QED
  BY <1>1, <1>5, <1>8 DEF err

\* The timer or the signal aborts what may be aborted.
LEMMA AbortStep ==
  ASSUME CInv, NEW reason \in {"deadline", "shutdown"}, run.pc # "idle", run.pc # "store",
         NEW state \in RunState, state.pc = run.pc, state.attempt = run.attempt,
         state.cycle = run.cycle, state.start = run.start,
         state.timedOut = (run.timedOut \/ reason = "deadline"),
         state.aborted = (run.aborted \/ reason = "shutdown"),
         state.reason = IF run.pc = "collect" /\ run.reason = "none" THEN reason ELSE run.reason,
         run' = state, task' = CancelFetches(task, run')
  PROVE  /\ AttemptRight' /\ run' \in RunState
         /\ \A b \in Attempts, q \in Resources : task'[b][q] \in {task[b][q], Failed("cancelled")}
         /\ \A b \in Attempts, q \in Resources : task[b][q].st # "fetching" => task'[b][q] = task[b][q]
<1> DEFINE a == run.attempt
<1>1. AttemptRight /\ ReadsRight(task) /\ run \in RunState /\ CauseRight(run)
  BY DEF CInv, AttemptRight
<1>2. /\ ReadsRight(task')
      /\ \A b \in Attempts, r \in Resources :
           task'[b][r] = IF task[b][r].st = "fetching" /\ IsAborted(run', b, r)
                         THEN Failed("cancelled") ELSE task[b][r]
  BY <1>1, CancelRules
<1>3. CauseRight(run')
  BY <1>1 DEF CauseRight
<1>4. a \in Attempts /\ run.cycle \in 1 .. MaxPolls
  BY <1>1 DEF AttemptRight, PhaseRight
<1>5. /\ "account" \in Resources /\ "account" \notin Collections /\ \A r \in Collections : r \in Resources
  BY DEF Resources, Collections
<1>6. \A b \in Attempts, r \in Resources : b # run'.attempt => task'[b][r] = Idle
  <2>1. \A b \in Attempts, r \in Resources : b # run'.attempt => task[b][r] = Idle
    BY <1>1 DEF AttemptRight, PhaseRight
  <2> QED
    BY <1>2, <2>1, IdleIsRight
<1>7. run.pc = "account" =>
        /\ task'[a]["account"].st # "idle" /\ run'.reason = "none"
        /\ \A r \in Collections : task'[a][r] = Idle
  <2>1. HAVE run.pc = "account"
  <2>2. /\ task[a]["account"].st # "idle" /\ run.reason = "none"
        /\ \A r \in Collections : task[a][r] = Idle
    BY <1>1, <2>1 DEF AttemptRight, PhaseRight
  <2>3. task'[a]["account"].st # "idle"
    BY <1>2, <1>4, <1>5, <2>2, FailedIsRight
  <2>4. \A r \in Collections : task'[a][r] = Idle
    BY <1>2, <1>4, <1>5, <2>2, IdleIsRight
  <2> QED
    BY <2>1, <2>2, <2>3, <2>4
<1>8. run.pc = "collect" =>
        /\ task'[a]["account"].st = "done"
        /\ \A r \in Collections : task'[a][r].st # "idle"
        /\ run'.reason # "none"
  <2>1. HAVE run.pc = "collect"
  <2>2. task[a]["account"].st = "done" /\ \A r \in Collections : task[a][r].st # "idle"
    BY <1>1, <2>1 DEF AttemptRight, PhaseRight
  <2>3. task'[a]["account"].st = "done"
    BY <1>2, <1>4, <1>5, <2>2
  <2>4. \A r \in Collections : task'[a][r].st # "idle"
    <3>1. TAKE r \in Collections
    <3> QED
      BY <1>2, <1>4, <1>5, <2>2, FailedIsRight
  <2> QED
    BY <2>1, <2>3, <2>4
<1>9. run.pc = "delay" => a < MaxAttempts /\ \A r \in Resources : task'[a][r] = Idle
  <2>1. HAVE run.pc = "delay"
  <2>2. a < MaxAttempts /\ \A r \in Resources : task[a][r] = Idle
    BY <1>1, <2>1 DEF AttemptRight, PhaseRight
  <2> QED
    BY <1>2, <1>4, <2>2, IdleIsRight
<1>10. PhaseRight(task', run')
  BY <1>4, <1>6, <1>7, <1>8, <1>9 DEF PhaseRight
<1>11. AttemptRight'
  BY <1>2, <1>3, <1>10 DEF AttemptRight
<1> QED
  BY <1>2, <1>11

\* What an abort keeps.
AbortFrame ==
  /\ run'.pc = run.pc /\ run'.cycle = run.cycle /\ run'.attempt = run.attempt
  /\ run'.start = run.start /\ run'.known = run.known /\ run'.outcome = run.outcome
  /\ UNCHANGED <<broker, now, captured, receipts, snaps, fillRows>>
  /\ \A b \in Attempts, q \in Resources : task'[b][q] \in {task[b][q], Failed("cancelled")}
  /\ \A b \in Attempts, q \in Resources : task[b][q].st # "fetching" => task'[b][q] = task[b][q]

\* The deadline cancels the reads of the attempt and no more.
LEMMA DeadlineStep ==
  ASSUME CInv, Deadline
  PROVE  CInv' /\ AbortFrame /\ faults' = faults
<1>1. /\ run.pc \in {"account", "collect"}
      /\ run' = [run EXCEPT !.timedOut = TRUE,
                   !.reason = IF run.pc = "collect" /\ run.reason = "none" THEN "deadline" ELSE run.reason]
      /\ task' = CancelFetches(task, run')
      /\ UNCHANGED <<broker, now, captured, receipts, snaps, fillRows, faults>>
  BY DEF Deadline, UnchangedRest
<1> DEFINE reason == IF run.pc = "collect" /\ run.reason = "none" THEN "deadline" ELSE run.reason
<1>2. reason \in Errors /\ run \in RunState
  BY DEF Errors, CInv, RunState
<1>3. run' = [run EXCEPT !.timedOut = TRUE, !.reason = reason]
  BY <1>1
<1> HIDE DEF reason
<1>4. /\ run' \in RunState /\ run'.pc = run.pc /\ run'.attempt = run.attempt
      /\ run'.cycle = run.cycle /\ run'.start = run.start /\ run'.known = run.known
      /\ run'.outcome = run.outcome /\ run'.timedOut = TRUE /\ run'.aborted = run.aborted
      /\ run'.reason = reason
  BY <1>2, <1>3 DEF RunState
<1>5. /\ AttemptRight'
      /\ \A b \in Attempts, q \in Resources : task'[b][q] \in {task[b][q], Failed("cancelled")}
      /\ \A b \in Attempts, q \in Resources : task[b][q].st # "fetching" => task'[b][q] = task[b][q]
  <2>1. run'.timedOut = (run.timedOut \/ "deadline" = "deadline")
    BY <1>4
  <2>2. run'.aborted = (run.aborted \/ "deadline" = "shutdown")
    BY <1>2, <1>4 DEF RunState
  <2> QED
    BY <1>1, <1>4, <2>1, <2>2, AbortStep DEF reason
<1>6. SnapsRight' /\ run'.start <= now /\ faults' \in 0 .. (MaxEvents + 1)
      /\ receipts' \subseteq [attempt : Attempts, resource : Resources, ordinal : 0 .. MaxPages]
  BY <1>1, <1>4 DEF CInv, SnapsRight
<1>7. CInv'
  BY <1>1, <1>4, <1>5, <1>6, WorkerFrame
<1> QED
  BY <1>1, <1>4, <1>5, <1>7 DEF AbortFrame

\* A shutdown cancels the reads of the attempt and no more.
LEMMA ShutdownStep ==
  ASSUME CInv, ShutdownSignal
  PROVE  CInv' /\ AbortFrame /\ faults' = faults + 1
<1>1. /\ Waiting /\ MayHappen /\ faults' = faults + 1
      /\ run' = [run EXCEPT !.aborted = TRUE,
                   !.reason = IF run.pc = "collect" /\ run.reason = "none" THEN "shutdown" ELSE run.reason]
      /\ task' = CancelFetches(task, run')
      /\ UNCHANGED <<broker, now, captured, receipts, snaps, fillRows>>
  BY DEF ShutdownSignal
<1> DEFINE reason == IF run.pc = "collect" /\ run.reason = "none" THEN "shutdown" ELSE run.reason
<1>2. reason \in Errors /\ run \in RunState
  BY DEF Errors, CInv, RunState
<1>3. run' = [run EXCEPT !.aborted = TRUE, !.reason = reason]
  BY <1>1
<1> HIDE DEF reason
<1>4. /\ run' \in RunState /\ run'.pc = run.pc /\ run'.attempt = run.attempt
      /\ run'.cycle = run.cycle /\ run'.start = run.start /\ run'.known = run.known
      /\ run'.outcome = run.outcome /\ run'.timedOut = run.timedOut /\ run'.aborted = TRUE
      /\ run'.reason = reason
  BY <1>2, <1>3 DEF RunState
<1>5. run.pc # "idle" /\ run.pc # "store"
  BY <1>1 DEF Waiting
<1>6. /\ AttemptRight'
      /\ \A b \in Attempts, q \in Resources : task'[b][q] \in {task[b][q], Failed("cancelled")}
      /\ \A b \in Attempts, q \in Resources : task[b][q].st # "fetching" => task'[b][q] = task[b][q]
  <2>1. run'.timedOut = (run.timedOut \/ "shutdown" = "deadline")
    BY <1>2, <1>4 DEF RunState
  <2>2. run'.aborted = (run.aborted \/ "shutdown" = "shutdown")
    BY <1>4
  <2> QED
    BY <1>1, <1>4, <1>5, <2>1, <2>2, AbortStep DEF reason
<1>7. SnapsRight' /\ run'.start <= now /\ faults' \in 0 .. (MaxEvents + 1)
      /\ receipts' \subseteq [attempt : Attempts, resource : Resources, ordinal : 0 .. MaxPages]
  BY <1>1, <1>4, FaultRoom DEF CInv, SnapsRight
<1>8. CInv'
  BY <1>1, <1>4, <1>6, <1>7, WorkerFrame
<1> QED
  BY <1>1, <1>4, <1>6, <1>8 DEF AbortFrame

\* The next attempt begins, or the shutdown ends the delay and the cycle.
LEMMA RetryStep ==
  ASSUME CInv, RetryDelayEnds
  PROVE  /\ CInv' /\ UNCHANGED <<broker, now, captured, snaps, fillRows, faults>>
         /\ run'.pc \in {"idle", "account"} /\ run'.outcome \in {"shutdown", "none"}
         /\ receipts' \subseteq receipts
         /\ \A b \in Attempts, q \in Resources : task'[b][q] \in {Idle, NewRead}
         /\ run'.pc = "idle" => run'.known = 0
         /\ run'.pc = "account" => run'.start = now /\ run'.known = Len(broker.orders) /\ receipts' = {}
<1>1. /\ run.pc = "delay" /\ UNCHANGED <<broker, now, captured, snaps, fillRows, faults>>
      /\ IF run.aborted
         THEN run' = Ended("shutdown") /\ UNCHANGED <<task, receipts>>
         ELSE StartAttempt(run.attempt + 1, run)
  BY DEF RetryDelayEnds, UnchangedRest
<1>2. run \in RunState /\ AttemptRight /\ ReadsRight(task)
  BY DEF CInv, AttemptRight
<1>3. /\ run.attempt \in Attempts /\ run.attempt < MaxAttempts /\ run.cycle \in 1 .. MaxPolls
      /\ \A b \in Attempts, q \in Resources : task[b][q] = Idle
  BY <1>1, <1>2 DEF AttemptRight, PhaseRight
<1>4. IsSeq(snaps) /\ Len(snaps) <= run.cycle - 1 /\ run.cycle \in Nat /\ Len(snaps) \in Nat
  <2>1. IsSeq(snaps) /\ Len(snaps) <= run.cycle - 1 /\ run.cycle \in Nat
    BY <1>1, <1>2, BoundFacts DEF CInv, SnapsRight, RunState
  <2> QED
    BY <2>1 DEF IsSeq
<1>5. CASE run.aborted
  <2>1. run' = Ended("shutdown") /\ UNCHANGED <<task, receipts>>
    BY <1>1, <1>5
  <2>2. "shutdown" \in Errors
    BY DEF Errors
  <2>3. ReadsRight(task') /\ \A b \in Attempts, q \in Resources : task'[b][q] = Idle
    BY <1>2, <1>3, <2>1
  <2>4. /\ AttemptRight' /\ run' \in RunState
        /\ run'.pc = "idle" /\ run'.cycle = run.cycle /\ run'.outcome = "shutdown" /\ run'.start = 0
    BY <1>2, <2>1, <2>2, <2>3, EndStep
  <2>5. SnapsRight'
    BY <1>1, <1>4, <2>4 DEF SnapsRight
  <2>6. run'.start <= now /\ faults' \in 0 .. (MaxEvents + 1)
        /\ receipts' \subseteq [attempt : Attempts, resource : Resources, ordinal : 0 .. MaxPages]
    BY <1>1, <2>1, <2>4, BoundFacts DEF CInv
  <2>7. CInv'
    BY <1>1, <2>4, <2>5, <2>6, WorkerFrame
  <2>8. run'.known = 0
    BY <1>2, <2>1, <2>2, EndedRules
  <2> QED
    BY <1>1, <2>1, <2>3, <2>4, <2>7, <2>8
<1>6. CASE ~run.aborted
  <2>1. StartAttempt(run.attempt + 1, run)
    BY <1>1, <1>6
  <2>2. run.attempt + 1 \in Attempts
    BY <1>3, BoundFacts DEF Attempts
  <2>3. now \in 0 .. MaxTime /\ Len(broker.orders) \in 0 .. MaxOrders /\ MaxTime \in Nat
    BY BrokerFacts, BoundFacts DEF CInv, BrokerRight
  <2> DEFINE a == run.attempt + 1
  <2>4. a \in Attempts /\ StartAttempt(a, run)
    BY <2>1, <2>2
  <2> HIDE DEF a
  <2>5. /\ AttemptRight' /\ run' \in RunState /\ receipts' = {}
        /\ run'.pc = "account" /\ run'.cycle = run.cycle
        /\ run'.start = now /\ run'.known = Len(broker.orders)
        /\ \A b \in Attempts, q \in Resources :
             b # a \/ q # "account" => task'[b][q] = Idle
        /\ task'[a]["account"] = NewRead
    BY <1>2, <1>3, <2>3, <2>4, StartStep DEF NewRead
  <2>5a. run'.outcome = "none"
    <3>1. run' = [run EXCEPT !.pc = "account", !.attempt = a, !.start = now,
                   !.known = Len(broker.orders), !.timedOut = FALSE, !.reason = "none", !.outcome = "none"]
      BY <2>4 DEF StartAttempt
    <3> QED
      BY <1>2, <3>1 DEF RunState
  <2>6. SnapsRight'
    BY <1>1, <1>4, <2>5 DEF SnapsRight
  <2>7. run'.start <= now /\ faults' \in 0 .. (MaxEvents + 1)
    BY <1>1, <2>3, <2>5 DEF CInv
  <2>8. CInv'
    BY <1>1, <2>5, <2>6, <2>7, WorkerFrame
  <2> QED
    BY <1>1, <2>5, <2>5a, <2>8
<1> QED
  BY <1>5, <1>6

\* The snapshot that the capture in memory gives.
Normalized(raw) == NormalizeCapture(raw, NormalizePositions(raw), FlattenOrders(raw.orders))
Consistent(raw) == CaptureIsConsistent(raw, NormalizePositions(raw), FlattenOrders(raw.orders))

\* Every read has ended: the attempt fails, or its capture is held.
LEMMA SettledCases ==
  ASSUME CInv, CollectionsSettled
  PROVE  /\ run.pc = "collect" /\ UNCHANGED <<broker, now, receipts, snaps, fillRows, faults>>
         /\ \A r \in Resources : task[run.attempt][r].st \in {"done", "failed"}
         /\ \/ /\ captured' = captured /\ \E r \in Collections : task[run.attempt][r].st = "failed"
               /\ FailAttempt(run.reason) /\ run.reason # "none"
            \/ /\ captured' = captured /\ \A r \in Resources : task[run.attempt][r].st = "done"
               /\ FailAttempt("malformed_response")
               /\ ~Consistent(Capture) \/ ~SnapshotIsSound(Normalized(Capture))
            \/ /\ \A r \in Resources : task[run.attempt][r].st = "done"
               /\ captured' = Normalized(Capture)
               /\ Consistent(Capture) /\ SnapshotIsSound(Normalized(Capture))
               /\ run' = [run EXCEPT !.pc = "store"] /\ UNCHANGED task
<1> DEFINE failed == \E r \in Collections : task[run.attempt][r].st = "failed"
<1>1. /\ run.pc = "collect" /\ UNCHANGED <<broker, now, receipts, snaps, fillRows, faults>>
      /\ \A r \in Collections : task[run.attempt][r].st \in {"done", "failed"}
  BY DEF CollectionsSettled, UnchangedRest, CurrentTask, AllSettled
<1>2. task[run.attempt]["account"].st = "done" /\ (run.reason = "none" => ~failed)
  BY <1>1 DEF CInv, AttemptRight, PhaseRight
<1>3. \A r \in Resources : task[run.attempt][r].st \in {"done", "failed"}
  BY <1>1, <1>2 DEF Resources
<1>4. CASE failed
  <2>1. FailAttempt(run.reason) /\ UNCHANGED captured
    BY <1>4 DEF CollectionsSettled, CurrentTask, CaptureFailure
  <2> QED
    BY <1>1, <1>2, <1>3, <1>4, <2>1
<1>5. CASE ~failed
  <2>1. \E raw \in {Capture} :
          \E positions \in {NormalizePositions(raw)}, orders \in {FlattenOrders(raw.orders)} :
          \E snapshot \in {NormalizeCapture(raw, positions, orders)} :
            IF ~CaptureIsConsistent(raw, positions, orders) \/ ~SnapshotIsSound(snapshot)
            THEN FailAttempt("malformed_response") /\ UNCHANGED captured
            ELSE /\ captured' = snapshot
                 /\ run' = [run EXCEPT !.pc = "store"]
                 /\ UNCHANGED task
    BY <1>5 DEF CollectionsSettled, CurrentTask
  <2>2. PICK snapshot : /\ snapshot = Normalized(Capture)
                        /\ IF ~Consistent(Capture) \/ ~SnapshotIsSound(snapshot)
                           THEN FailAttempt("malformed_response") /\ UNCHANGED captured
                           ELSE /\ captured' = snapshot
                                /\ run' = [run EXCEPT !.pc = "store"]
                                /\ UNCHANGED task
    BY <2>1 DEF Normalized, Consistent
  <2>3. \A r \in Resources : task[run.attempt][r].st = "done"
    BY <1>3, <1>2, <1>5 DEF Resources
  <2> QED
    BY <1>1, <1>3, <2>2, <2>3
<1> QED
  BY <1>4, <1>5

\* Once every read has settled the attempt ends or its capture is stored.
LEMMA SettledStep ==
  ASSUME CInv, CollectionsSettled
  PROVE  CInv'
<1>1. /\ run.pc = "collect" /\ UNCHANGED <<broker, now, receipts, snaps, fillRows, faults>>
      /\ \A r \in Resources : task[run.attempt][r].st \in {"done", "failed"}
  BY SettledCases
<1>2. run \in RunState /\ AttemptRight /\ run.reason \in Errors
  BY DEF CInv, RunState
<1>3. ASSUME NEW err \in Errors, FailAttempt(err) PROVE CInv'
  <2>1. /\ AttemptRight' /\ run' \in RunState /\ run'.start \in {0, run.start}
        /\ run'.pc \in {"idle", "delay"} /\ run'.cycle = run.cycle
    BY <1>1, <1>3, FailStep
  <2>2. SnapsRight'
    <3>1. IsSeq(snaps) /\ Len(snaps) <= run.cycle - 1 /\ run.cycle \in Nat
      BY <1>1, <1>2, BoundFacts DEF CInv, SnapsRight, RunState
    <3>2. Len(snaps) \in Nat
      BY <3>1 DEF IsSeq
    <3> QED
      BY <1>1, <2>1, <3>1, <3>2 DEF SnapsRight
  <2>3. run'.start <= now /\ faults' \in 0 .. (MaxEvents + 1)
        /\ receipts' \subseteq [attempt : Attempts, resource : Resources, ordinal : 0 .. MaxPages]
    BY <1>1, <2>1, BoundFacts DEF CInv
  <2> QED
    BY <1>1, <2>1, <2>2, <2>3, WorkerFrame
<1>4. ASSUME \A r \in Resources : task[run.attempt][r].st = "done",
             run' = [run EXCEPT !.pc = "store"], UNCHANGED task
      PROVE CInv'
  <2>1. /\ run' \in RunState /\ run'.pc = "store" /\ run'.attempt = run.attempt
        /\ run'.cycle = run.cycle /\ run'.start = run.start /\ run'.reason = run.reason
        /\ run'.timedOut = run.timedOut /\ run'.aborted = run.aborted
    BY <1>2, <1>4 DEF RunState
  <2>2. /\ run.attempt \in Attempts /\ run.cycle \in 1 .. MaxPolls
        /\ \A b \in Attempts, r \in Resources : b # run.attempt => task[b][r] = Idle
    BY <1>1, <1>2 DEF AttemptRight, PhaseRight
  <2>3. PhaseRight(task', run')
    BY <1>4, <2>1, <2>2 DEF PhaseRight
  <2>4. CauseRight(run') /\ ReadsRight(task')
    BY <1>2, <1>4, <2>1 DEF AttemptRight, CauseRight
  <2>5. SnapsRight'
    BY <1>1, <2>1 DEF CInv, SnapsRight
  <2>6. run'.start <= now /\ faults' \in 0 .. (MaxEvents + 1)
        /\ receipts' \subseteq [attempt : Attempts, resource : Resources, ordinal : 0 .. MaxPages]
    BY <1>1, <2>1 DEF CInv
  <2>7. AttemptRight'
    BY <2>3, <2>4 DEF AttemptRight
  <2> QED
    BY <1>1, <2>1, <2>5, <2>6, <2>7, WorkerFrame
<1>5. "malformed_response" \in Errors
  BY DEF Errors, Failures
<1> QED
  BY <1>2, <1>3, <1>4, <1>5, SettledCases

\* The snapshot is promoted, or nothing of it is kept.
LEMMA CompleteCases ==
  ASSUME CompleteSync
  PROVE  /\ run.pc = "store" /\ captured' = None /\ ForgetAttempt /\ receipts' = {}
         /\ UNCHANGED <<broker, now>>
         /\ \/ /\ run' = Ended("projection_failed") /\ UNCHANGED <<snaps, fillRows, faults>>
               /\ \/ ~EvidenceIsComplete(captured)
                  \/ Drift(captured, PreparePortfolioProjection(captured, None), None) # {}
                  \/ \E p, rows : /\ rows = InsertFills(captured)
                                  /\ Drift(captured, PersistedProjection(captured, p, rows), p) # {}
            \/ /\ run' = Ended("none") /\ UNCHANGED faults /\ fillRows' = InsertFills(captured)
               /\ \E projection : snaps' = Append(snaps, SnapshotRow(projection))
            \/ /\ run' = Ended("database") /\ MayHappen /\ faults' = faults + 1
               /\ UNCHANGED <<snaps, fillRows>>
<1> DEFINE Outcome(basis, projection, rows) ==
           IF \/ basis # {} \/ ~EvidenceIsComplete(captured)
              \/ Drift(captured, PersistedProjection(captured, projection, rows), projection) # {}
           THEN run' = Ended("projection_failed") /\ UNCHANGED <<snaps, fillRows, faults>>
           ELSE \/ /\ fillRows' = rows
                   /\ snaps' = Append(snaps, SnapshotRow(projection))
                   /\ run' = Ended("none")
                   /\ UNCHANGED faults
                \/ /\ MayHappen /\ faults' = faults + 1
                   /\ run' = Ended("database")
                   /\ UNCHANGED <<snaps, fillRows>>
<1>0. \E basis \in {Drift(captured, PreparePortfolioProjection(captured, None), None)} :
      \E projection \in {Projection(captured, basis = {})}, rows \in {InsertFills(captured)} :
        Outcome(basis, projection, rows)
  BY DEF CompleteSync
<1> HIDE DEF Outcome
<1>1. PICK basis, projection, rows :
        /\ basis = Drift(captured, PreparePortfolioProjection(captured, None), None)
        /\ rows = InsertFills(captured)
        /\ Outcome(basis, projection, rows)
  BY <1>0
<1>2. /\ run.pc = "store" /\ captured' = None /\ ForgetAttempt /\ receipts' = {}
      /\ UNCHANGED <<broker, now>>
  BY DEF CompleteSync
<1> QED
  BY <1>1, <1>2 DEF Outcome

\* Storing the capture ends the cycle.
LEMMA CompleteStep ==
  ASSUME CInv, CompleteSync
  PROVE  CInv' /\ run'.pc = "idle" /\ run'.outcome \in {"none", "projection_failed", "database"}
         /\ \A b \in Attempts, q \in Resources : task'[b][q] = Idle
<1>1. /\ run.pc = "store" /\ ForgetAttempt /\ receipts' = {} /\ UNCHANGED <<broker, now>>
      /\ \/ run' = Ended("projection_failed") /\ UNCHANGED <<snaps, fillRows, faults>>
         \/ /\ run' = Ended("none") /\ UNCHANGED faults
            /\ \E projection : snaps' = Append(snaps, SnapshotRow(projection))
         \/ /\ run' = Ended("database") /\ MayHappen /\ faults' = faults + 1
            /\ UNCHANGED <<snaps, fillRows>>
  BY CompleteCases
<1>2. run \in RunState /\ AttemptRight /\ ReadsRight(task)
  BY DEF CInv, AttemptRight
<1>3. /\ run.attempt \in Attempts /\ run.cycle \in 1 .. MaxPolls
      /\ \A r \in Resources : task[run.attempt][r].st = "done"
      /\ \A b \in Attempts, r \in Resources : b # run.attempt => task[b][r] = Idle
  BY <1>1, <1>2 DEF AttemptRight, PhaseRight
<1>4. ReadsRight(task') /\ \A b \in Attempts, r \in Resources : task'[b][r] = Idle
  <2>1. /\ ReadsRight(task')
        /\ \A b \in Attempts, q \in Resources :
             task'[b][q] = IF b = run.attempt /\ task[b][q].st \in {"done", "failed"}
                           THEN Idle ELSE task[b][q]
    BY <1>1, <1>2, <1>3, ForgetRules
  <2> QED
    BY <1>3, <2>1
<1>5. PICK outcome \in {"none", "projection_failed", "database"} : run' = Ended(outcome)
  BY <1>1
<1>6. /\ AttemptRight' /\ run' \in RunState
      /\ run'.pc = "idle" /\ run'.cycle = run.cycle /\ run'.outcome = outcome /\ run'.start = 0
  <2>1. outcome \in Errors
    BY <1>5 DEF Errors
  <2> QED
    BY <1>2, <1>4, <1>5, <2>1, EndStep
<1>7. faults' \in 0 .. (MaxEvents + 1)
  BY <1>1, FaultRoom DEF CInv
<1>8. SnapsRight'
  <2>1. IsSeq(snaps) /\ Len(snaps) <= run.cycle - 1 /\ run.cycle \in Nat
    BY <1>1, <1>2, BoundFacts DEF CInv, SnapsRight, RunState
  <2>2. Len(snaps) \in Nat
    BY <2>1 DEF IsSeq
  <2>3. CASE UNCHANGED snaps
    BY <1>6, <2>1, <2>2, <2>3 DEF SnapsRight
  <2>4. ASSUME NEW row, snaps' = Append(snaps, row) PROVE SnapsRight'
    <3>1. IsSeq(snaps') /\ Len(snaps') = Len(snaps) + 1
      BY <2>1, <2>4, AppendIsSeq
    <3> QED
      BY <1>6, <2>1, <2>2, <3>1 DEF SnapsRight
  <2> QED
    BY <1>1, <2>3, <2>4
<1>9. run'.start <= now
  BY <1>6, BoundFacts DEF CInv
<1> QED
  BY <1>1, <1>4, <1>5, <1>6, <1>7, <1>8, <1>9, WorkerFrame

-----------------------------------------------------------------------------
(* Type correctness and the attempts.                                       *)

\* The invariant holds initially.
LEMMA CaptureInvInit == CaptureInit => CInv
<1> SUFFICES ASSUME CaptureInit PROVE CInv
  OBVIOUS
<1>1. /\ broker \in Accounts /\ now = 0 /\ receipts = {} /\ snaps = <<>> /\ faults = 0
      /\ run = [pc |-> "idle", cycle |-> 0, attempt |-> 0, start |-> 0, known |-> 0,
                timedOut |-> FALSE, aborted |-> FALSE, reason |-> "none", outcome |-> "none"]
      /\ task = [a \in Attempts |-> [r \in Resources |-> Idle]]
  BY DEF CaptureInit, NoTasks, Attempts
<1>2. ReadsRight(task) /\ \A a \in Attempts, r \in Resources : task[a][r] = Idle
  BY <1>1, IdleIsRight DEF ReadsRight
<1>3. AttemptRight
  BY <1>1, <1>2 DEF AttemptRight, PhaseRight, CauseRight
<1>4. run \in RunState
  <2>1. "none" \in Errors
    BY DEF Errors
  <2> QED
    BY <1>1, <2>1, BoundFacts DEF RunState
<1>5. BrokerRight
  BY <1>1, AccountsAssumption DEF BrokerRight
<1>6. SnapsRight
  BY <1>1, EmptyIsSeq DEF SnapsRight
<1> QED
  BY <1>1, <1>3, <1>4, <1>5, <1>6, BoundFacts DEF CInv

\* Every step of the capture keeps the invariant.
LEMMA CaptureInvStep == CInv /\ [CaptureNext]_captureVars => CInv'
<1> SUFFICES ASSUME CInv, [CaptureNext]_captureVars PROVE CInv'
  OBVIOUS
<1>1. CASE UNCHANGED captureVars
  BY <1>1 DEF captureVars, CInv, BrokerRight, SnapsRight, AttemptRight
<1>2. CASE PlaceOrder
  BY <1>2, PlaceStep
<1>3. ASSUME NEW i, FillOrder(i) PROVE CInv'
  BY <1>3, FillStep
<1>4. ASSUME NEW i, CancelOrder(i) PROVE CInv'
  BY <1>4, CancelStep
<1>5. CASE ClockTick
  BY <1>5, ClockStep
<1>6. ASSUME NEW a \in Attempts, NEW r \in Resources, Answer(a, r) PROVE CInv'
  BY <1>6, AnswerStep
<1>7. ASSUME NEW a \in Attempts, NEW r \in Resources, NEW class \in FailureClasses,
             AnswerFails(a, r, class)
      PROVE CInv'
  BY <1>7, AnswerFailsStep
<1>8. ASSUME NEW a \in Attempts, NEW r \in Resources, RecordReceipt(a, r) PROVE CInv'
  BY <1>8, RecordStep
<1>9. CASE AccountRead
  BY <1>9, AccountReadStep
<1>10. CASE AccountReadFailed
  BY <1>10, AccountReadFailedStep
<1>11. CASE CollectionsSettled
  BY <1>11, SettledStep
<1>12. CASE RetryDelayEnds
  BY <1>12, RetryStep
<1>13. CASE CompleteSync
  BY <1>13, CompleteStep
<1>14. CASE BeginCycle
  BY <1>14, BeginStep
<1>15. CASE Deadline
  BY <1>15, DeadlineStep
<1>16. CASE ShutdownSignal
  BY <1>16, ShutdownStep
<1> QED
  BY <1>1, <1>2, <1>3, <1>4, <1>5, <1>6, <1>7, <1>8, <1>9, <1>10, <1>11, <1>12, <1>13, <1>14,
     <1>15, <1>16
     DEF CaptureNext, Account, Provider, Worker, Attempts

\* The invariant always holds.
LEMMA CaptureInvariance == CaptureSpec => []CInv
BY CaptureInvInit, CaptureInvStep, PTL DEF CaptureSpec

\* The invariant contains the types.
LEMMA InvariantIsTyped == CInv => CaptureTypeOK
<1> SUFFICES ASSUME CInv PROVE CaptureTypeOK
  OBVIOUS
<1>1. \A a \in Attempts, r \in Resources : ReadRight(task[a][r])
  BY DEF CInv, AttemptRight, ReadsRight
<1>2. ASSUME NEW a \in Attempts, NEW r \in Resources
      PROVE  /\ task[a][r].st \in {"idle", "fetching", "recording", "done", "failed"}
             /\ task[a][r].err \in Errors
             /\ Len(task[a][r].pages) <= MaxPages
  <2>1. ReadRight(task[a][r])
    BY <1>1
  <2>2. task[a][r].err \in Errors
    BY <2>1 DEF ReadRight, Causes, Errors
  <2>3. Len(task[a][r].pages) <= MaxPages
    BY <2>1, BoundFacts DEF ReadRight
  <2> QED
    BY <2>1, <2>2, <2>3 DEF ReadRight
<1>3. Len(snaps) <= MaxPolls
  <2>1. IsSeq(snaps) /\ Len(snaps) <= IF run.pc = "idle" THEN run.cycle ELSE run.cycle - 1
    BY DEF CInv, SnapsRight
  <2>2. run.cycle \in 0 .. MaxPolls
    BY DEF CInv, RunState
  <2>3. Len(snaps) \in Nat
    BY <2>1 DEF IsSeq
  <2> QED
    BY <2>1, <2>2, <2>3, BoundFacts
<1> QED
  <2>1. \A a \in 1 .. MaxAttempts : \A r \in Resources :
          /\ task[a][r].st \in {"idle", "fetching", "recording", "done", "failed"}
          /\ task[a][r].err \in Errors
          /\ Len(task[a][r].pages) <= MaxPages
    BY <1>2 DEF Attempts
  <2>2. receipts \subseteq [attempt : 1 .. MaxAttempts, resource : Resources, ordinal : 0 .. MaxPages]
    BY DEF CInv, Attempts
  <2> QED
    BY <1>3, <2>1, <2>2 DEF CInv, CaptureTypeOK, RunState

\* The capture stays within its types for every account and every bound, and a
\* snapshot is in the range the constants give it.
THEOREM CaptureTypeCorrect == CaptureSpec => []CaptureTypeOK
BY CaptureInvariance, InvariantIsTyped, PTL

\* A read in progress writes at most its own receipt.
LEMMA ReceiptOfRead ==
  ASSUME CInv, NEW a \in Attempts, NEW r \in Resources, Answer(a, r) \/ RecordReceipt(a, r)
  PROVE  \A x \in receipts' \ receipts : x.attempt = run.attempt /\ run.pc \in {"account", "collect"}
<1>1. ASSUME NEW pages, ExaminePage(a, r, pages)
      PROVE  \A x \in receipts' \ receipts : x.attempt = a
  <2>1. receipts' = receipts \cup {[attempt |-> a, resource |-> r, ordinal |-> Len(pages) - 1]}
    BY <1>1 DEF ExaminePage
  <2> QED
    BY <2>1
<1>2. task[a][r].st \in {"fetching", "recording"}
  BY DEF Answer, RecordReceipt
<1>3. a = run.attempt /\ run.pc \in {"account", "collect"}
  BY <1>2, ReadingRules DEF CInv
<1>4. CASE Answer(a, r)
  <2>1. faults \in Nat
    BY BoundFacts DEF CInv
  <2>2. \E slow \in BOOLEAN : \E pages :
          IF slow THEN SettleTask(a, r, "recording", "none", pages) /\ UNCHANGED receipts
          ELSE ExaminePage(a, r, pages)
    BY <1>4, <2>1, AnswerCases
  <2>3. UNCHANGED receipts \/ \E pages : ExaminePage(a, r, pages)
    BY <2>2
  <2> QED
    BY <1>1, <1>3, <2>3
<1>5. CASE RecordReceipt(a, r)
  <2>1. UNCHANGED receipts \/ ExaminePage(a, r, task[a][r].pages)
    BY <1>5 DEF RecordReceipt
  <2> QED
    BY <1>1, <1>3, <2>1
<1> QED
  BY <1>4, <1>5

\* Receipts are recorded for the attempt in progress only.
LEMMA ReceiptStep ==
  ASSUME CInv, [CaptureNext]_captureVars
  PROVE  \A x \in receipts' \ receipts : x.attempt = run.attempt /\ run.pc \in {"account", "collect"}
<1>1. CASE receipts' \subseteq receipts
  BY <1>1
<1>2. CASE UNCHANGED captureVars
  BY <1>1, <1>2 DEF captureVars
<1>3. CASE Account
  BY <1>1, <1>3 DEF Account, PlaceOrder, FillOrder, CancelOrder, ClockTick, UnchangedWorker
<1>4. CASE Provider
  <2>1. PICK a \in Attempts, r \in Resources :
          Answer(a, r) \/ \E class \in FailureClasses : AnswerFails(a, r, class)
    BY <1>4 DEF Provider, Attempts
  <2>2. CASE Answer(a, r)
    BY <2>2, ReceiptOfRead
  <2>3. ASSUME NEW class, AnswerFails(a, r, class) PROVE receipts' \subseteq receipts
    BY <2>3 DEF AnswerFails
  <2> QED
    BY <1>1, <2>1, <2>2, <2>3
<1>5. ASSUME NEW a \in Attempts, NEW r \in Resources, RecordReceipt(a, r)
      PROVE  \A x \in receipts' \ receipts : x.attempt = run.attempt /\ run.pc \in {"account", "collect"}
  BY <1>5, ReceiptOfRead
<1>6. CASE AccountRead \/ AccountReadFailed \/ CollectionsSettled \/ CompleteSync \/ BeginCycle
           \/ Deadline \/ ShutdownSignal
  <2>1. CompleteSync \/ BeginCycle => receipts' = {}
    BY DEF CompleteSync, BeginCycle, StartAttempt
  <2>2. AccountRead \/ AccountReadFailed \/ CollectionsSettled \/ Deadline \/ ShutdownSignal
          => receipts' = receipts
    BY DEF AccountRead, AccountReadFailed, CollectionsSettled, Deadline, ShutdownSignal
  <2> QED
    BY <1>1, <1>6, <2>1, <2>2
<1>7. CASE RetryDelayEnds
  BY <1>1, <1>7, RetryStep
<1> QED
  BY <1>2, <1>3, <1>4, <1>5, <1>6, <1>7 DEF CaptureNext, Worker, Attempts

\* An attempt that was neither timed out nor aborted reports a cause of its
\* own.
LEMMA CauseStep ==
  ASSUME CInv, [CaptureNext]_captureVars, run.pc = "collect", run'.pc \in {"idle", "delay"},
         ~run.timedOut, ~run.aborted
  PROVE  run'.outcome \in Causes
<1>1. CASE UNCHANGED captureVars \/ Account
  BY <1>1 DEF captureVars, Account, PlaceOrder, FillOrder, CancelOrder, ClockTick, UnchangedWorker
<1>2. ASSUME NEW a \in Attempts, NEW r \in Resources, Answer(a, r) \/ RecordReceipt(a, r) PROVE FALSE
  BY <1>2, AnswerStep, RecordStep DEF SameAttempt
<1>3. ASSUME NEW a \in Attempts, NEW r \in Resources, NEW class \in FailureClasses,
             AnswerFails(a, r, class)
      PROVE FALSE
  BY <1>3, AnswerFailsStep DEF SameAttempt
<1>4. CASE AccountRead \/ AccountReadFailed \/ CompleteSync \/ BeginCycle \/ RetryDelayEnds
  BY <1>4 DEF AccountRead, AccountReadFailed, CompleteSync, BeginCycle, RetryDelayEnds
<1>5. CASE Deadline \/ ShutdownSignal
  BY <1>5, DeadlineStep, ShutdownStep DEF AbortFrame
<1>6. CASE CollectionsSettled
  <2>1. ASSUME NEW err \in Causes, FailAttempt(err) PROVE run'.outcome \in Causes
    <3>1. AttemptError(err) = err
      BY DEF AttemptError
    <3>2. err \in Errors
      BY <2>1 DEF Causes, Errors
    <3>3. \A r \in Resources : task[run.attempt][r].st \in {"done", "failed"}
      BY <1>6, SettledCases
    <3>4. run'.outcome = AttemptError(err)
      BY <2>1, <3>2, <3>3, FailStep
    <3> QED
      BY <2>1, <3>1, <3>4
  <2>2. run.reason # "none" => run.reason \in Causes
    BY DEF CInv, AttemptRight, CauseRight
  <2>3. "malformed_response" \in Causes
    BY DEF Causes, Failures
  <2>4. run \in RunState
    BY DEF CInv
  <2>5. run' # [run EXCEPT !.pc = "store"]
    BY <2>4 DEF RunState
  <2> QED
    BY <1>6, <2>1, <2>2, <2>3, <2>5, SettledCases
<1> QED
  BY <1>1, <1>2, <1>3, <1>4, <1>5, <1>6 DEF CaptureNext, Provider, Worker, Attempts

\* Receipts are written for the attempt in progress, and an attempt fails for
\* the read that failed and not for those it canceled (retry.ts, client.ts).
THEOREM AttemptsAreApart == CaptureSpec => AttemptsStayApart
<1> DEFINE Own == \A x \in receipts' \ receipts :
                    x.attempt = run.attempt /\ run.pc \in {"account", "collect"}
           Reported == (run.pc = "collect" /\ run'.pc \in {"idle", "delay"} /\ ~run.timedOut /\ ~run.aborted)
                         => run'.outcome \in Failures \cup {"database"}
<1>1. CInv /\ [CaptureNext]_captureVars => Own
  BY ReceiptStep
<1>2. CInv /\ [CaptureNext]_captureVars => Reported
  BY CauseStep DEF Causes
<1>3. CaptureSpec => [][Own]_captureVars
  BY <1>1, CaptureInvariance, PTL DEF CaptureSpec
<1>4. CaptureSpec => [][Reported]_captureVars
  BY <1>2, CaptureInvariance, PTL DEF CaptureSpec
<1> QED
  BY <1>3, <1>4 DEF AttemptsStayApart, ReceiptsBelongToTheAttempt, CauseIsReported

-----------------------------------------------------------------------------
(* Sequences of sequences.                                                  *)

\* A set of numbers that is not empty has a least one.
LEMMA LeastNumber ==
  ASSUME NEW T \in SUBSET Nat, T # {}
  PROVE  \E t \in T : \A u \in T : t <= u
<1> DEFINE R == {ss \in Nat \X Nat : ss[1] < ss[2]}
<1>1. R = OpToRel(<, Nat)
  BY DEF OpToRel
<1>2. IsWellFoundedOn(R, Nat)
  BY <1>1, NatLessThanWellFounded, Zenon
<1>3. \A y, z \in Nat : y < z => <<y, z>> \in R
  OBVIOUS
<1> HIDE DEF R
<1>4. PICK t \in T : \A u \in T : ~(<<u, t>> \in R)
  BY <1>2, WFMin
<1>5. ASSUME NEW u \in T PROVE t <= u
  <2>1. t \in Nat /\ u \in Nat /\ ~(<<u, t>> \in R)
    BY <1>4
  <2>2. ~(u < t)
    BY <1>3, <2>1
  <2> QED
    BY <2>1, <2>2
<1> QED
  BY <1>4, <1>5

\* Two sequences put together.
LEMMA ConcatRules ==
  ASSUME NEW S, NEW s \in Seq(S), NEW t \in Seq(S)
  PROVE  /\ s \o t \in Seq(S)
         /\ ToSet(s \o t) = ToSet(s) \cup ToSet(t)
         /\ IsInjective(s \o t) <=> /\ IsInjective(s) /\ IsInjective(t)
                                    /\ ToSet(s) \cap ToSet(t) = {}
<1> DEFINE c == s \o t
           m == Len(s)
           n == Len(t)
<1>1. /\ c \in Seq(S) /\ m \in Nat /\ n \in Nat /\ Len(c) = m + n
      /\ DOMAIN s = 1 .. m /\ DOMAIN t = 1 .. n /\ DOMAIN c = 1 .. (m + n)
  OBVIOUS
<1>2. \A i \in 1 .. m : c[i] = s[i]
  OBVIOUS
<1>3. \A i \in 1 .. n : c[m + i] = t[i]
  OBVIOUS
<1> HIDE DEF c, m, n
<1>4. \A i \in 1 .. (m + n) : i \in 1 .. m \/ \E j \in 1 .. n : i = m + j
  <2>1. TAKE i \in 1 .. (m + n)
  <2>2. CASE i <= m
    BY <1>1, <2>2
  <2>3. CASE i > m
    <3>1. i - m \in 1 .. n /\ i = m + (i - m)
      BY <1>1, <2>3
    <3> QED
      BY <3>1
  <2> QED
    BY <1>1, <2>2, <2>3
<1>5. (\A i \in 1 .. m : i \in 1 .. (m + n)) /\ (\A j \in 1 .. n : m + j \in 1 .. (m + n))
  BY <1>1
<1>6. ToSet(c) = ToSet(s) \cup ToSet(t)
  <2>1. ASSUME NEW e, e \in ToSet(c) PROVE e \in ToSet(s) \cup ToSet(t)
    <3>1. PICK i \in 1 .. (m + n) : e = c[i]
      BY <1>1, <2>1 DEF ToSet
    <3>2. CASE i \in 1 .. m
      BY <1>1, <1>2, <3>1, <3>2 DEF ToSet
    <3>3. ASSUME NEW j \in 1 .. n, i = m + j PROVE e \in ToSet(t)
      BY <1>1, <1>3, <3>1, <3>3 DEF ToSet
    <3> QED
      BY <1>4, <3>2, <3>3
  <2>2. \A e : e \in ToSet(s) => e \in ToSet(c)
    BY <1>1, <1>2, <1>5 DEF ToSet
  <2>3. \A e : e \in ToSet(t) => e \in ToSet(c)
    BY <1>1, <1>3, <1>5 DEF ToSet
  <2> QED
    BY <2>1, <2>2, <2>3
<1>7. ASSUME IsInjective(c)
      PROVE  IsInjective(s) /\ IsInjective(t) /\ ToSet(s) \cap ToSet(t) = {}
  <2>1. IsInjective(s)
    BY <1>1, <1>2, <1>5, <1>7 DEF IsInjective
  <2>2. IsInjective(t)
    <3>1. SUFFICES ASSUME NEW i \in 1 .. n, NEW j \in 1 .. n, t[i] = t[j] PROVE i = j
      BY <1>1 DEF IsInjective
    <3>2. c[m + i] = c[m + j] /\ m + i \in 1 .. (m + n) /\ m + j \in 1 .. (m + n)
      BY <1>3, <1>5, <3>1
    <3>3. m + i = m + j
      BY <1>1, <1>7, <3>2 DEF IsInjective
    <3> QED
      BY <1>1, <3>3
  <2>3. ASSUME NEW i \in 1 .. m, NEW j \in 1 .. n, s[i] = t[j] PROVE FALSE
    <3>1. c[i] = c[m + j] /\ i \in 1 .. (m + n) /\ m + j \in 1 .. (m + n)
      BY <1>2, <1>3, <1>5, <2>3
    <3>2. i = m + j
      BY <1>1, <1>7, <3>1 DEF IsInjective
    <3> QED
      BY <1>1, <3>2
  <2>4. ToSet(s) \cap ToSet(t) = {}
    BY <1>1, <2>3 DEF ToSet
  <2> QED
    BY <2>1, <2>2, <2>4
<1>8. ASSUME IsInjective(s), IsInjective(t), ToSet(s) \cap ToSet(t) = {}
      PROVE  IsInjective(c)
  <2>1. SUFFICES ASSUME NEW i \in 1 .. (m + n), NEW j \in 1 .. (m + n), c[i] = c[j] PROVE i = j
    BY <1>1 DEF IsInjective
  <2>2. CASE i \in 1 .. m /\ j \in 1 .. m
    BY <1>1, <1>2, <1>8, <2>1, <2>2 DEF IsInjective
  <2>3. ASSUME NEW x \in 1 .. n, NEW y \in 1 .. n, i = m + x, j = m + y PROVE i = j
    <3>1. t[x] = t[y]
      BY <1>3, <2>1, <2>3
    <3> QED
      BY <1>1, <1>8, <2>3, <3>1 DEF IsInjective
  <2>4. ASSUME NEW x \in 1 .. m, NEW y \in 1 .. n, c[x] = c[m + y] PROVE FALSE
    <3>1. s[x] = t[y] /\ s[x] \in ToSet(s) /\ t[y] \in ToSet(t)
      BY <1>1, <1>2, <1>3, <2>4 DEF ToSet
    <3> QED
      BY <1>8, <3>1
  <2> QED
    BY <1>4, <2>1, <2>2, <2>3, <2>4
<1> QED
  BY <1>1, <1>6, <1>7, <1>8 DEF c

\* The recursion of FlattenSeq up to its n-th step.
FlatUpto(f, seqs, n) ==
  f = [i \in 1 .. n |-> IF i = 1 THEN seqs[i] ELSE f[i - 1] \o seqs[i]]

\* There is a function that flattens the first sequences of a sequence.
LEMMA FlatExists ==
  ASSUME NEW seqs, NEW n \in Nat
  PROVE  \E f : FlatUpto(f, seqs, n)
<1> DEFINE T == {m \in Nat : ~ \E f : FlatUpto(f, seqs, m)}
<1>1. SUFFICES ASSUME T # {} PROVE FALSE
  OBVIOUS
<1>2. PICK m \in T : \A u \in T : m <= u
  BY <1>1, LeastNumber
<1>3. CASE m = 0
  <2> DEFINE f == [i \in 1 .. 0 |-> seqs[i]]
  <2>1. f = [i \in 1 .. 0 |-> IF i = 1 THEN seqs[i] ELSE f[i - 1] \o seqs[i]]
    OBVIOUS
  <2>2. FlatUpto(f, seqs, 0)
    BY <2>1 DEF FlatUpto
  <2> QED
    BY <1>2, <1>3, <2>2
<1>4. CASE m # 0
  <2>1. m - 1 \in Nat /\ m - 1 \notin T
    BY <1>2, <1>4
  <2>2. PICK f : FlatUpto(f, seqs, m - 1)
    BY <2>1
  <2> DEFINE g == [i \in 1 .. m |-> IF i = m THEN (IF m = 1 THEN seqs[m] ELSE f[m - 1] \o seqs[m])
                                    ELSE f[i]]
  <2>3. \A i \in 1 .. (m - 1) :
          f[i] = IF i = 1 THEN seqs[i] ELSE f[i - 1] \o seqs[i]
    BY <2>2 DEF FlatUpto
  <2>4. \A i \in 1 .. m : i # 1 => g[i - 1] = f[i - 1]
    BY <1>2
  <2>5. \A i \in 1 .. m :
          g[i] = IF i = 1 THEN seqs[i] ELSE g[i - 1] \o seqs[i]
    BY <1>2, <1>4, <2>3, <2>4
  <2>6. g = [i \in 1 .. m |-> IF i = 1 THEN seqs[i] ELSE g[i - 1] \o seqs[i]]
    BY <2>5
  <2> HIDE DEF g
  <2>7. FlatUpto(g, seqs, m)
    BY <2>6 DEF FlatUpto
  <2> QED
    BY <1>2, <2>7
<1> QED
  BY <1>3, <1>4

\* The recursion of FlattenSeq is what it says.
LEMMA FlattenRule ==
  ASSUME NEW seqs, Len(seqs) \in Nat, Len(seqs) # 0
  PROVE  \E f : /\ FlattenSeq(seqs) = f[Len(seqs)] /\ f[1] = seqs[1]
                /\ \A i \in 2 .. Len(seqs) : f[i] = f[i - 1] \o seqs[i]
<1> DEFINE n == Len(seqs)
           f == CHOOSE g : FlatUpto(g, seqs, n)
<1>1. FlattenSeq(seqs) = f[n]
  BY DEF FlattenSeq, FlatUpto
<1>2. FlatUpto(f, seqs, n)
  BY FlatExists
<1> HIDE DEF f
<1>3. \A i \in 1 .. n : f[i] = IF i = 1 THEN seqs[i] ELSE f[i - 1] \o seqs[i]
  BY <1>2 DEF FlatUpto
<1>4. f[1] = seqs[1]
  <2>1. 1 \in 1 .. n
    OBVIOUS
  <2> HIDE DEF n
  <2> QED
    BY <1>3, <2>1
<1>5. \A i \in 2 .. n : f[i] = f[i - 1] \o seqs[i]
  <2>1. TAKE i \in 2 .. n
  <2>2. i \in 1 .. n /\ i # 1
    OBVIOUS
  <2> HIDE DEF n
  <2> QED
    BY <1>3, <2>2
<1> QED
  BY <1>1, <1>4, <1>5

\* No element twice in the first n of the sequences.
Apart(seqs, n) ==
  /\ \A j \in 1 .. n : IsInjective(seqs[j])
  /\ \A j, k \in 1 .. n : j < k => ToSet(seqs[j]) \cap ToSet(seqs[k]) = {}

\* g has the elements of the first n sequences, in a row.
FlatRight(g, seqs, S, n) ==
  /\ g \in Seq(S)
  /\ ToSet(g) = UNION {ToSet(seqs[j]) : j \in 1 .. n}
  /\ IsInjective(g) <=> Apart(seqs, n)

\* Flattening begins with the first sequence.
LEMMA FlatFirst ==
  ASSUME NEW S, NEW seqs, seqs[1] \in Seq(S)
  PROVE  FlatRight(seqs[1], seqs, S, 1)
<1>1. 1 .. 1 = {1}
  OBVIOUS
<1>2. UNION {ToSet(seqs[j]) : j \in 1 .. 1} = ToSet(seqs[1])
  BY <1>1
<1>3. Apart(seqs, 1) <=> IsInjective(seqs[1])
  BY <1>1 DEF Apart
<1> QED
  BY <1>2, <1>3 DEF FlatRight

\* Flattening one sequence more appends it.
LEMMA FlatNext ==
  ASSUME NEW S, NEW seqs, NEW n \in Nat, n >= 2, seqs[n] \in Seq(S), NEW g, NEW h,
         FlatRight(g, seqs, S, n - 1), h = g \o seqs[n]
  PROVE  FlatRight(h, seqs, S, n)
<1> DEFINE t == seqs[n]
           Below == UNION {ToSet(seqs[j]) : j \in 1 .. (n - 1)}
<1>1. /\ h \in Seq(S) /\ ToSet(h) = ToSet(g) \cup ToSet(t)
      /\ IsInjective(h) <=> IsInjective(g) /\ IsInjective(t) /\ ToSet(g) \cap ToSet(t) = {}
  <2>1. g \in Seq(S)
    BY DEF FlatRight
  <2> DEFINE c == g \o t
  <2>2. /\ c \in Seq(S) /\ ToSet(c) = ToSet(g) \cup ToSet(t)
        /\ IsInjective(c) <=> IsInjective(g) /\ IsInjective(t) /\ ToSet(g) \cap ToSet(t) = {}
    <3> HIDE DEF t
    <3>1. t \in Seq(S)
      BY DEF t
    <3> QED
      BY <2>1, <3>1, ConcatRules
  <2>3. h = c
    OBVIOUS
  <2> HIDE DEF c, t
  <2> QED
    BY <2>2, <2>3
<1>2. ToSet(g) = Below /\ (IsInjective(g) <=> Apart(seqs, n - 1))
  BY DEF FlatRight
<1>3. \A j : j \in 1 .. n <=> j \in 1 .. (n - 1) \/ j = n
  OBVIOUS
<1>4. UNION {ToSet(seqs[j]) : j \in 1 .. n} = Below \cup ToSet(t)
  <2>1. \A e : e \in UNION {ToSet(seqs[j]) : j \in 1 .. n} <=> \E j \in 1 .. n : e \in ToSet(seqs[j])
    OBVIOUS
  <2>2. \A e : e \in Below <=> \E j \in 1 .. (n - 1) : e \in ToSet(seqs[j])
    OBVIOUS
  <2> HIDE DEF Below
  <2> QED
    BY <1>3, <2>1, <2>2
<1>5. ASSUME Apart(seqs, n)
      PROVE  Apart(seqs, n - 1) /\ IsInjective(t) /\ Below \cap ToSet(t) = {}
  <2>1. \A j, k \in 1 .. n : j < k => ToSet(seqs[j]) \cap ToSet(seqs[k]) = {}
    BY <1>5 DEF Apart
  <2>2. Apart(seqs, n - 1) /\ IsInjective(t)
    BY <1>3, <1>5 DEF Apart
  <2>3. \A j \in 1 .. (n - 1) : j < n /\ j \in 1 .. n /\ n \in 1 .. n
    OBVIOUS
  <2>4. \A j \in 1 .. (n - 1) : ToSet(seqs[j]) \cap ToSet(t) = {}
    BY <2>1, <2>3
  <2> QED
    BY <2>2, <2>4
<1>6. ASSUME Apart(seqs, n - 1), IsInjective(t), Below \cap ToSet(t) = {}
      PROVE  Apart(seqs, n)
  <2>1. \A j \in 1 .. n : IsInjective(seqs[j])
    BY <1>3, <1>6 DEF Apart
  <2>2. ASSUME NEW j \in 1 .. n, NEW k \in 1 .. n, j < k
        PROVE  ToSet(seqs[j]) \cap ToSet(seqs[k]) = {}
    <3>1. j \in 1 .. (n - 1)
      BY <2>2
    <3>2. CASE k = n
      <4>1. \A e \in ToSet(seqs[j]) : e \in Below
        BY <3>1
      <4> HIDE DEF Below
      <4> QED
        BY <1>6, <3>2, <4>1
    <3>3. CASE k # n
      BY <1>3, <1>6, <2>2, <3>1, <3>3 DEF Apart
    <3> QED
      BY <3>2, <3>3
  <2> QED
    BY <2>1, <2>2 DEF Apart
<1> HIDE DEF Below, t
<1>7. ToSet(h) = UNION {ToSet(seqs[j]) : j \in 1 .. n}
  BY <1>1, <1>2, <1>4
<1>8. IsInjective(h) <=> Apart(seqs, n)
  BY <1>1, <1>2, <1>5, <1>6
<1> QED
  BY <1>1, <1>7, <1>8 DEF FlatRight

\* FlattenSeq puts sequences together, in order.
LEMMA FlattenRules ==
  ASSUME NEW S, NEW seqs \in Seq(Seq(S))
  PROVE  /\ FlattenSeq(seqs) \in Seq(S)
         /\ ToSet(FlattenSeq(seqs)) = UNION {ToSet(seqs[j]) : j \in 1 .. Len(seqs)}
         /\ IsInjective(FlattenSeq(seqs)) <=> Apart(seqs, Len(seqs))
<1> DEFINE n == Len(seqs)
<1>1. n \in Nat /\ \A j \in 1 .. n : seqs[j] \in Seq(S)
  OBVIOUS
<1>2. CASE n = 0
  <2>1. seqs = <<>> /\ FlattenSeq(seqs) = seqs
    BY <1>2 DEF FlattenSeq
  <2>2. 1 .. 0 = {} /\ ToSet(<<>>) = {} /\ <<>> \in Seq(S) /\ IsInjective(<<>>)
    BY DEF ToSet, IsInjective
  <2>3. Apart(<<>>, 0)
    BY DEF Apart
  <2>4. UNION {ToSet(seqs[j]) : j \in 1 .. 0} = {}
    BY <2>2
  <2>5. ToSet(FlattenSeq(seqs)) = UNION {ToSet(seqs[j]) : j \in 1 .. n}
    BY <1>2, <2>1, <2>2, <2>4
  <2> HIDE DEF n
  <2>6. FlattenSeq(seqs) \in Seq(S) /\ IsInjective(FlattenSeq(seqs)) /\ Apart(seqs, n)
    BY <1>2, <2>1, <2>2, <2>3
  <2> QED
    BY <2>5, <2>6 DEF n
<1>3. CASE n # 0
  <2>1. PICK f : /\ FlattenSeq(seqs) = f[n] /\ f[1] = seqs[1]
                 /\ \A i \in 2 .. n : f[i] = f[i - 1] \o seqs[i]
    BY <1>1, <1>3, FlattenRule
  <2> HIDE DEF n
  <2> DEFINE T == {i \in 1 .. n : ~FlatRight(f[i], seqs, S, i)}
  <2>2. ASSUME T # {} PROVE FALSE
    <3>1. T \in SUBSET Nat
      BY <1>1
    <3>2. PICK i \in T : \A u \in T : i <= u
      BY <2>2, <3>1, LeastNumber
    <3>3. CASE i = 1
      BY <1>1, <2>1, <3>2, <3>3, FlatFirst
    <3>4. CASE i # 1
      <4>1. i \in 2 .. n /\ i \in 1 .. n /\ i \in Nat /\ i >= 2 /\ i - 1 \in 1 .. n
        BY <1>1, <3>2, <3>4
      <4>2. i - 1 \notin T
        BY <3>2, <4>1
      <4>3. FlatRight(f[i - 1], seqs, S, i - 1)
        BY <4>1, <4>2
      <4>4. f[i] = f[i - 1] \o seqs[i]
        BY <2>1, <4>1
      <4> DEFINE g == f[i - 1]
                 h == f[i]
      <4>5. FlatRight(g, seqs, S, i - 1) /\ h = g \o seqs[i] /\ seqs[i] \in Seq(S)
        BY <1>1, <4>1, <4>3, <4>4
      <4> HIDE DEF g, h
      <4>6. FlatRight(h, seqs, S, i)
        BY <4>1, <4>5, FlatNext
      <4> QED
        BY <3>2, <4>6 DEF h
    <3> QED
      BY <3>3, <3>4
  <2>3. n \in 1 .. n
    BY <1>1, <1>3
  <2>4. FlatRight(f[n], seqs, S, n)
    BY <2>2, <2>3
  <2> QED
    BY <2>1, <2>4 DEF FlatRight, n
<1> QED
  BY <1>2, <1>3

-----------------------------------------------------------------------------
(* The capture: what it read is whole.                                      *)

\* A sequence given by its length and its elements.
LEMMA MadeIsSeq ==
  ASSUME NEW n \in Nat, NEW s, s = [j \in 1 .. n |-> s[j]]
  PROVE  IsSeq(s) /\ Len(s) = n /\ DOMAIN s = 1 .. n
<1>1. DOMAIN s = 1 .. n
  OBVIOUS
<1>2. \A j \in 1 .. n : s[j] \in ToSet(s)
  BY <1>1 DEF ToSet
<1> DEFINE A == ToSet(s)
<1> HIDE DEF A
<1>3. s \in [1 .. n -> A]
  BY <1>2 DEF A
<1>4. s \in Seq(A) /\ Len(s) = n
  BY <1>3
<1> QED
  BY <1>1, <1>4 DEF IsSeq, A

\* A sequence is the function of its indices to its elements.
LEMMA SeqDomain ==
  ASSUME NEW s, IsSeq(s)
  PROVE  /\ Len(s) \in Nat /\ DOMAIN s = 1 .. Len(s) /\ s = [j \in 1 .. Len(s) |-> s[j]]
         /\ \A j \in 1 .. Len(s) : s[j] \in ToSet(s)
         /\ \A e \in ToSet(s) : \E j \in 1 .. Len(s) : e = s[j]
         /\ s = <<>> <=> Len(s) = 0
<1> DEFINE A == ToSet(s)
<1>1. s \in Seq(A)
  BY DEF IsSeq
<1>2. \A e \in A : \E j \in DOMAIN s : e = s[j]
  BY DEF ToSet
<1>3. \A j \in DOMAIN s : s[j] \in A
  BY DEF ToSet
<1> HIDE DEF A
<1>4. /\ Len(s) \in Nat /\ DOMAIN s = 1 .. Len(s) /\ s = [j \in 1 .. Len(s) |-> s[j]]
      /\ s = <<>> <=> Len(s) = 0
  BY <1>1
<1> QED
  BY <1>2, <1>3, <1>4 DEF A

\* Sequences of some set have their elements in a larger one.
LEMMA SeqOfMore ==
  ASSUME NEW s, IsSeq(s), NEW S, ToSet(s) \subseteq S
  PROVE  s \in Seq(S)
<1> DEFINE A == ToSet(s)
<1>1. s \in Seq(A) /\ A \subseteq S
  BY DEF IsSeq
<1> HIDE DEF A
<1> QED
  BY <1>1

\* What is in any of the sequences.
AllItems(seqs) == UNION {ToSet(seqs[j]) : j \in 1 .. Len(seqs)}

\* What FlattenSeq makes of a sequence of sequences.
LEMMA NestedRules ==
  ASSUME NEW seqs, IsSeq(seqs), \A j \in 1 .. Len(seqs) : IsSeq(seqs[j])
  PROVE  /\ IsSeq(FlattenSeq(seqs)) /\ ToSet(FlattenSeq(seqs)) = AllItems(seqs)
         /\ IsInjective(FlattenSeq(seqs)) <=> Apart(seqs, Len(seqs))
<1> DEFINE S == AllItems(seqs)
           A == ToSet(seqs)
<1>0. /\ Len(seqs) \in Nat /\ seqs \in Seq(A)
      /\ \A e \in A : \E j \in 1 .. Len(seqs) : e = seqs[j]
  BY SeqDomain DEF IsSeq
<1>1. \A j \in 1 .. Len(seqs) : ToSet(seqs[j]) \subseteq S
  BY DEF AllItems
<1> HIDE DEF S, A
<1>2. \A j \in 1 .. Len(seqs) : seqs[j] \in Seq(S)
  BY <1>1, SeqOfMore
<1>3. A \subseteq Seq(S)
  BY <1>0, <1>2
<1> DEFINE SS == Seq(S)
<1> HIDE DEF SS
<1>4. A \subseteq SS
  BY <1>3 DEF SS
<1>5. seqs \in Seq(SS)
  BY <1>0, <1>4
<1>6. seqs \in Seq(Seq(S))
  BY <1>5 DEF SS
<1>7. /\ FlattenSeq(seqs) \in Seq(S)
      /\ ToSet(FlattenSeq(seqs)) = UNION {ToSet(seqs[j]) : j \in 1 .. Len(seqs)}
      /\ IsInjective(FlattenSeq(seqs)) <=> Apart(seqs, Len(seqs))
  BY <1>6, FlattenRules
<1>8. IsSeq(FlattenSeq(seqs))
  BY <1>7, SeqIsSeq
<1> QED
  BY <1>7, <1>8 DEF AllItems

\* The numbers of S up to k.
NumbersUpto(S, k) == {x \in S : x <= k}

\* The ascending sequence of a finite set of numbers has each of them once.
LEMMA AscendingRules ==
  ASSUME NEW S \in SUBSET Nat, IsFiniteSet(S)
  PROVE  /\ Cardinality(S) \in Nat
         /\ Ascending(S) = [j \in 1 .. Cardinality(S) |-> Ascending(S)[j]]
         /\ \A i \in 1 .. Cardinality(S) : Ascending(S)[i] \in S
         /\ \A i, j \in 1 .. Cardinality(S) : i < j => Ascending(S)[i] < Ascending(S)[j]
         /\ \A k \in S : \E i \in 1 .. Cardinality(S) : Ascending(S)[i] = k
<1> DEFINE n == Cardinality(S)
           rank == [k \in S |-> Cardinality(NumbersUpto(S, k))]
           sorted(o) == \A i, j \in 1 .. n : i < j => o[i] < o[j]
<1>0. \A x \in S : x \in Int
  OBVIOUS
<1>1. n \in Nat /\ IsFiniteSet(1 .. n) /\ Cardinality(1 .. n) = n
  <2>1. n \in Nat
    BY FS_CardinalityType
  <2> HIDE DEF n
  <2> QED
    BY <2>1, FS_Interval
<1>2. \A k \in S : IsFiniteSet(NumbersUpto(S, k)) /\ Cardinality(NumbersUpto(S, k)) \in 1 .. n
  <2>1. TAKE k \in S
  <2> DEFINE U == NumbersUpto(S, k)
  <2>2. U \in SUBSET S /\ k \in U
    BY DEF NumbersUpto
  <2> HIDE DEF U
  <2>3. IsFiniteSet(U) /\ Cardinality(U) <= n
    BY <2>2, FS_Subset
  <2>4. Cardinality(U) \in Nat
    BY <2>3, FS_CardinalityType
  <2>5. Cardinality(U) # 0
    BY <2>2, <2>3, FS_EmptySet
  <2> HIDE DEF n
  <2>6. IsFiniteSet(U) /\ Cardinality(U) \in 1 .. n
    BY <1>1, <2>3, <2>4, <2>5
  <2> QED
    BY <2>6 DEF U
<1>3. \A a, b \in S : a < b => Cardinality(NumbersUpto(S, a)) < Cardinality(NumbersUpto(S, b))
  <2>1. SUFFICES ASSUME NEW a \in S, NEW b \in S, a < b
                 PROVE  Cardinality(NumbersUpto(S, a)) < Cardinality(NumbersUpto(S, b))
    OBVIOUS
  <2>2. NumbersUpto(S, a) \in SUBSET NumbersUpto(S, b)
    <3>1. \A x \in NumbersUpto(S, a) : x \in S /\ x \in Int /\ x <= a
      BY <1>0 DEF NumbersUpto
    <3>2. a \in Int /\ b \in Int
      BY <1>0
    <3>3. \A x \in NumbersUpto(S, a) : x \in S /\ x <= b
      BY <2>1, <3>1, <3>2
    <3> QED
      BY <3>3 DEF NumbersUpto
  <2>3. NumbersUpto(S, a) # NumbersUpto(S, b)
    <3>1. b \in NumbersUpto(S, b) /\ b \notin NumbersUpto(S, a)
      BY <2>1 DEF NumbersUpto
    <3> QED
      BY <3>1
  <2>4. /\ IsFiniteSet(NumbersUpto(S, b)) /\ Cardinality(NumbersUpto(S, b)) \in Nat
        /\ Cardinality(NumbersUpto(S, a)) \in Nat
    BY <1>2
  <2>5. /\ Cardinality(NumbersUpto(S, a)) <= Cardinality(NumbersUpto(S, b))
        /\ Cardinality(NumbersUpto(S, a)) # Cardinality(NumbersUpto(S, b))
    BY <2>2, <2>3, <2>4, FS_Subset
  <2> QED
    BY <2>4, <2>5
<1>4. rank \in Injection(S, 1 .. n)
  <2>1. rank \in [S -> 1 .. n]
    BY <1>2
  <2>2. ASSUME NEW a \in S, NEW b \in S, rank[a] = rank[b] PROVE a = b
    <3>1. Cardinality(NumbersUpto(S, a)) = Cardinality(NumbersUpto(S, b)) /\ Cardinality(NumbersUpto(S, a)) \in Int
      BY <1>2, <2>2
    <3>2. ~(a < b) /\ ~(b < a)
      BY <1>3, <3>1
    <3> QED
      BY <3>2
  <2> HIDE DEF rank
  <2> QED
    BY <2>1, <2>2 DEF Injection, IsInjective
<1>5. \A k \in 1 .. n : \E e \in S : rank[e] = k
  <2> HIDE DEF rank, n
  <2>1. Cardinality(S) = Cardinality(1 .. n)
    BY <1>1 DEF n
  <2>2. rank \in Surjection(S, 1 .. n)
    BY <1>1, <1>4, <2>1, FS_Injection
  <2> QED
    BY <2>2 DEF Surjection
<1> DEFINE g == [k \in 1 .. n |-> CHOOSE e \in S : rank[e] = k]
<1>6. \A k \in 1 .. n : g[k] \in S /\ rank[g[k]] = k
  <2> HIDE DEF rank, n
  <2> QED
    BY <1>5
<1>7. g \in [1 .. n -> S] /\ sorted(g)
  <2>1. g \in [1 .. n -> S]
    BY <1>6
  <2>2. ASSUME NEW i \in 1 .. n, NEW j \in 1 .. n, i < j PROVE g[i] < g[j]
    <3>1. /\ g[i] \in S /\ g[j] \in S /\ Cardinality(NumbersUpto(S, g[i])) = i
          /\ Cardinality(NumbersUpto(S, g[j])) = j
      BY <1>6
    <3> HIDE DEF g, rank
    <3>2. ~(g[j] < g[i])
      <4>1. ASSUME g[j] < g[i] PROVE Cardinality(NumbersUpto(S, g[j])) < Cardinality(NumbersUpto(S, g[i]))
        BY <1>3, <3>1, <4>1
      <4>2. j \in Int /\ i \in Int /\ ~(j < i)
        BY <1>1, <2>2
      <4> QED
        BY <3>1, <4>1, <4>2
    <3>3. g[i] # g[j]
      <4>1. i # j
        BY <1>1, <2>2
      <4> QED
        BY <3>1, <4>1
    <3>4. g[i] \in Int /\ g[j] \in Int
      BY <1>0, <3>1
    <3> QED
      BY <3>2, <3>3, <3>4
  <2> HIDE DEF g, n
  <2> QED
    BY <2>1, <2>2
<1> HIDE DEF g
<1> DEFINE o == Ascending(S)
<1>8. o \in [1 .. n -> S] /\ sorted(o)
  <2>1. \A s \in [1 .. n -> S] : DOMAIN s = 1 .. n
    OBVIOUS
  <2>2. o = CHOOSE s \in [1 .. n -> S] : sorted(s)
    BY <2>1 DEF Ascending
  <2> HIDE DEF o
  <2> QED
    BY <1>7, <2>2
<1> HIDE DEF o
<1>9. ASSUME NEW i \in 1 .. n, NEW j \in 1 .. n, o[i] = o[j] PROVE i = j
  <2>1. o[i] \in S /\ o[i] \in Int
    BY <1>0, <1>8
  <2>2. ~(o[i] < o[j]) /\ ~(o[j] < o[i])
    BY <1>9, <2>1
  <2>3. ~(i < j) /\ ~(j < i)
    BY <1>8, <2>2
  <2> HIDE DEF n
  <2> QED
    BY <1>1, <2>3
<1>10. o \in Injection(1 .. n, S)
  BY <1>8, <1>9 DEF Injection, IsInjective
<1>11. o \in Surjection(1 .. n, S)
  <2> HIDE DEF n
  <2>1. Cardinality(1 .. n) = Cardinality(S)
    BY <1>1 DEF n
  <2> QED
    BY <1>10, <2>1, FS_Injection
<1>12. \A k \in S : \E i \in 1 .. n : o[i] = k
  BY <1>11 DEF Surjection
<1> HIDE DEF n
<1>13. /\ n \in Nat /\ o = [j \in 1 .. n |-> o[j]] /\ sorted(o)
       /\ \A i \in 1 .. n : o[i] \in S
       /\ \A k \in S : \E i \in 1 .. n : o[i] = k
  BY <1>1, <1>8, <1>12
<1> QED
  BY <1>13 DEF n, o

\* The first items of a sequence.
LEMMA FirstRules ==
  ASSUME NEW s, IsSeq(s)
  PROVE  /\ IsSeq(FirstOf(s)) /\ Len(FirstOf(s)) <= PageSize
         /\ Len(FirstOf(s)) = IF Len(s) <= PageSize THEN Len(s) ELSE PageSize
         /\ \A j \in 1 .. Len(FirstOf(s)) : FirstOf(s)[j] = s[j] /\ j \in 1 .. Len(s)
<1> DEFINE A == ToSet(s)
<1>1. s \in Seq(A) /\ Len(s) \in Nat /\ PageSize \in Nat /\ 1 <= PageSize
  BY BoundFacts DEF IsSeq
<1> HIDE DEF A
<1>2. CASE Len(s) <= PageSize
  BY <1>1, <1>2 DEF FirstOf
<1>3. CASE ~(Len(s) <= PageSize)
  <2> DEFINE t == SubSeq(s, 1, PageSize)
  <2>1. FirstOf(s) = t
    BY <1>3 DEF FirstOf
  <2>2. /\ t \in Seq(A) /\ Len(t) = PageSize
        /\ \A j \in 1 .. PageSize : t[j] = s[j]
    BY <1>1, <1>3
  <2> HIDE DEF t
  <2>3. IsSeq(t)
    BY <2>2, SeqIsSeq
  <2>4. PageSize <= PageSize /\ \A j \in 1 .. PageSize : j \in 1 .. Len(s)
    BY <1>1, <1>3
  <2> QED
    BY <1>3, <2>1, <2>2, <2>3, <2>4
<1> QED
  BY <1>2, <1>3

-----------------------------------------------------------------------------
(* The capture: whole pages and whole windows.                              *)

\* The numbers of orders or fills, in a page and in pages.
NumbersOf(items) == {items[j].id[1] : j \in DOMAIN items}
Shown(pages) == UNION {NumbersOf(pages[p].items) : p \in DOMAIN pages}

\* An order as the provider shows it.
OrderItem(item) ==
  /\ item.id[1] \in Nat /\ item.id = <<item.id[1], "parent">>
  /\ IsSeq(item.legs)
  /\ \A j \in DOMAIN item.legs : item.legs[j].id = <<item.id[1], "leg">>

\* A fill as the provider shows it.
FillItem(item) == item.id[1] \in Nat /\ item.id = <<item.id[1], "fill">>

\* A page of orders or fills.
PageRight(r, page) ==
  /\ IsSeq(page.items)
  /\ \A j \in DOMAIN page.items : IF r = "orders" THEN OrderItem(page.items[j]) ELSE FillItem(page.items[j])

\* An order with a status that is not known.
Odd(pages) == \E p \in DOMAIN pages : \E j \in DOMAIN pages[p].items : pages[p].items[j].status = "odd"

\* The last page makes the read fail as malformed.
IsMalformed(r, pages) == pages # <<>> /\ PageVerdict(r, pages) = "malformed_response"

\* The pages show the first m orders, and all that were known when one is short.
OrdersUpto(pages, m, known) ==
  /\ Shown(pages) = 1 .. m
  /\ pages # <<>> =>
       /\ Last(pages).items # <<>> => Cursor(pages) = m
       /\ Len(Last(pages).items) < PageSize => known <= m

OrdersShown(pages, known, count) ==
  \/ Odd(pages) \/ IsMalformed("orders", pages)
  \/ \E m \in 0 .. count : OrdersUpto(pages, m, known)

\* The pages show the fills of the window up to fill m, and all when one is short.
FillsUptoCursor(pages, m, window, count) ==
  /\ Shown(pages) \subseteq 1 .. count
  /\ \A k \in window : k <= m => k \in Shown(pages)
  /\ pages # <<>> =>
       /\ Last(pages).items # <<>> => Cursor(pages) = m
       /\ Len(Last(pages).items) < PageSize => window \subseteq Shown(pages)

FillsShown(pages, window, count) ==
  \/ IsMalformed("fills", pages)
  \/ \E m \in 0 .. count : (pages = <<>> => m = 0) /\ FillsUptoCursor(pages, m, window, count)

\* What was made of the pages of a read.
VerdictKept(r, read) ==
  /\ read.st = "fetching" /\ read.pages # <<>> => PageVerdict(r, read.pages) = "next"
  /\ read.st = "done" => PageVerdict(r, read.pages) = "done"

\* The fills of the window.
Window == {k \in DOMAIN broker.fills : InWindow(k)}

\* The parts of an order keep its number, whatever the provider says of them.
LEMMA PartRules ==
  ASSUME NEW i \in Nat, NEW part, NEW structure, NEW asset, NEW class, NEW side, NEW legs
  PROVE  /\ RawPart(i, part, structure, asset, class, side, legs).id = <<i, part>>
         /\ RawPart(i, part, structure, asset, class, side, legs).legs = legs
         /\ [RawPart(i, part, structure, asset, class, side, legs) EXCEPT !.status = "odd"].id = <<i, part>>
         /\ [RawPart(i, part, structure, asset, class, side, legs) EXCEPT !.status = "odd"].legs = legs
         /\ [RawPart(i, part, structure, asset, class, side, legs) EXCEPT !.status = "odd"].status = "odd"
         /\ <<i, part>>[1] = i
BY DEF RawPart

\* An order of the account is an item with its number.
LEMMA RawOrderRules ==
  ASSUME NEW i \in Nat
  PROVE  /\ OrderItem(RawOrder(i)) /\ RawOrder(i).id = <<i, "parent">> /\ RawOrder(i).id[1] = i
         /\ OrderItem([RawOrder(i) EXCEPT !.status = "odd"])
         /\ [RawOrder(i) EXCEPT !.status = "odd"].id[1] = i
         /\ [RawOrder(i) EXCEPT !.status = "odd"].status = "odd"
<1> DEFINE o == broker.orders[i]
           asset == AssetOf(o.structure)
           class == ClassOf(asset)
           leg == RawPart(i, "leg", "simple", asset, class, o.side, <<>>)
           legs == IF o.structure # "mleg" THEN <<>> ELSE <<leg>>
           item == RawOrder(i)
           odd == [item EXCEPT !.status = "odd"]
<1>1. /\ IsSeq(legs)
      /\ \A j \in DOMAIN legs : legs[j].id = <<i, "leg">>
  <2>1. leg.id = <<i, "leg">>
    BY PartRules
  <2> HIDE DEF leg
  <2>2. DOMAIN <<>> = {} /\ DOMAIN <<leg>> = {1} /\ <<leg>>[1] = leg
    OBVIOUS
  <2>3. IsSeq(<<leg>>)
    <3>1. <<leg>> \in Seq({leg})
      OBVIOUS
    <3> QED
      BY <3>1, SeqIsSeq
  <2>4. CASE o.structure # "mleg"
    BY <2>2, <2>4, EmptyIsSeq
  <2>5. CASE ~(o.structure # "mleg")
    BY <2>1, <2>2, <2>3, <2>5
  <2> QED
    BY <2>4, <2>5
<1>2. /\ item.id = <<i, "parent">> /\ item.legs = legs
      /\ odd.id = <<i, "parent">> /\ odd.legs = legs /\ odd.status = "odd"
  <2>1. CASE o.structure # "mleg"
    <3>1. item = RawPart(i, "parent", "simple", asset, class, o.side, <<>>) /\ legs = <<>>
      BY <2>1 DEF RawOrder
    <3> HIDE DEF item, legs, asset, class, o
    <3> QED
      BY <3>1, PartRules
  <2>2. CASE ~(o.structure # "mleg")
    <3>1. item = RawPart(i, "parent", "mleg", None, None, None, <<leg>>) /\ legs = <<leg>>
      BY <2>2 DEF RawOrder
    <3> HIDE DEF item, legs, leg, o
    <3> QED
      BY <3>1, PartRules
  <2> QED
    BY <2>1, <2>2
<1> HIDE DEF item, odd, legs, leg, o
<1>3. <<i, "parent">>[1] = i
  OBVIOUS
<1>4. OrderItem(item) /\ OrderItem(odd)
  BY <1>1, <1>2, <1>3 DEF OrderItem
<1> QED
  BY <1>2, <1>3, <1>4 DEF item, odd

\* A fill of the account is an item with its number.
LEMMA RawFillRules ==
  ASSUME NEW k \in Nat
  PROVE  FillItem(RawFill(k)) /\ RawFill(k).id[1] = k /\ RawFill(k).id = <<k, "fill">>
<1>1. RawFill(k).id = <<k, "fill">>
  BY DEF RawFill
<1>2. <<k, "fill">>[1] = k
  OBVIOUS
<1> QED
  BY <1>1, <1>2 DEF FillItem

\* The numbers of a page are those of its items.
LEMMA NumbersRules ==
  ASSUME NEW items, IsSeq(items)
  PROVE  /\ \A j \in 1 .. Len(items) : items[j].id[1] \in NumbersOf(items)
         /\ \A k \in NumbersOf(items) : \E j \in 1 .. Len(items) : k = items[j].id[1]
BY SeqDomain DEF NumbersOf

\* The next page of the orders.
LEMMA OrdersPage ==
  ASSUME CInv, NEW m \in 0 .. Len(broker.orders)
  PROVE  /\ IsSeq(Page("orders", m))
         /\ \A j \in 1 .. Len(Page("orders", m)) :
              /\ OrderItem(Page("orders", m)[j]) /\ Page("orders", m)[j].id[1] = m + j
              /\ Page("orders", m)[j] = RawOrder(m + j)
         /\ Len(Page("orders", m)) \in 0 .. (Len(broker.orders) - m)
         /\ Len(Page("orders", m)) <= PageSize
         /\ Len(Page("orders", m)) < PageSize => Len(Page("orders", m)) = Len(broker.orders) - m
<1> DEFINE n == Len(broker.orders) - m
           all == [j \in 1 .. n |-> RawOrder(m + j)]
           P == Page("orders", m)
<1>1. n \in Nat /\ Len(broker.orders) \in Nat
  BY BrokerFacts
<1>2. P = FirstOf(all)
  BY DEF Page
<1>3. \A j \in 1 .. n : all[j] = RawOrder(m + j)
  OBVIOUS
<1>4. all = [j \in 1 .. n |-> all[j]]
  OBVIOUS
<1> HIDE DEF n, all, P
<1>5. IsSeq(all) /\ Len(all) = n
  BY <1>1, <1>4, MadeIsSeq
<1>6. /\ IsSeq(P) /\ Len(P) <= PageSize
      /\ Len(P) = IF n <= PageSize THEN n ELSE PageSize
      /\ \A j \in 1 .. Len(P) : P[j] = all[j] /\ j \in 1 .. n
  BY <1>2, <1>5, FirstRules
<1>7. \A j \in 1 .. Len(P) : OrderItem(P[j]) /\ P[j].id[1] = m + j /\ P[j] = RawOrder(m + j)
  <2>1. TAKE j \in 1 .. Len(P)
  <2>2. P[j] = RawOrder(m + j) /\ m + j \in Nat
    BY <1>1, <1>3, <1>6
  <2> QED
    BY <2>2, RawOrderRules
<1>8. Len(P) \in 0 .. n /\ (Len(P) < PageSize => Len(P) = n)
  BY <1>1, <1>6, BoundFacts
<1> QED
  BY <1>6, <1>7, <1>8 DEF n, P

\* The next page of the fills.
LEMMA FillsPage ==
  ASSUME CInv, NEW m \in Nat, NEW P, P = Page("fills", m),
         NEW left, left = {k \in Window : k > m}
  PROVE  /\ IsSeq(P) /\ Len(P) <= PageSize
         /\ \A j \in 1 .. Len(P) : FillItem(P[j]) /\ P[j].id[1] \in left /\ P[j] = RawFill(P[j].id[1])
         /\ \A i, j \in 1 .. Len(P) : i < j => P[i].id[1] < P[j].id[1]
         /\ Len(P) # 0 => \A k \in left : k <= P[Len(P)].id[1] => k \in NumbersOf(P)
         /\ Len(P) < PageSize => \A k \in left : k \in NumbersOf(P)
<1>0. Len(broker.fills) \in Nat /\ DOMAIN broker.fills = 1 .. Len(broker.fills)
  BY BrokerFacts
<1> DEFINE A == Ascending(left)
           n == Cardinality(left)
           all == [j \in DOMAIN A |-> RawFill(A[j])]
<1>1. left \in SUBSET Nat /\ IsFiniteSet(left)
  <2>1. left \in SUBSET (1 .. Len(broker.fills))
    BY <1>0 DEF Window
  <2>2. IsFiniteSet(1 .. Len(broker.fills))
    BY <1>0, FS_Interval
  <2>3. IsFiniteSet(left)
    BY <2>1, <2>2, FS_Subset
  <2> QED
    BY <2>1, <2>3
<1>2. P = FirstOf(all)
  <2>1. left = {k \in DOMAIN broker.fills : InWindow(k) /\ k > m}
    BY DEF Window
  <2> QED
    BY <2>1 DEF Page
<1>3. /\ n \in Nat /\ A = [j \in 1 .. n |-> A[j]]
      /\ \A i \in 1 .. n : A[i] \in left
      /\ \A i, j \in 1 .. n : i < j => A[i] < A[j]
      /\ \A k \in left : \E i \in 1 .. n : A[i] = k
  BY <1>1, AscendingRules
<1> HIDE DEF A, n
<1>4. DOMAIN A = 1 .. n
  BY <1>3
<1>5. all = [j \in 1 .. n |-> all[j]] /\ \A j \in 1 .. n : all[j] = RawFill(A[j])
  BY <1>4
<1> HIDE DEF all
<1>6. IsSeq(all) /\ Len(all) = n
  BY <1>3, <1>5, MadeIsSeq
<1>7. /\ IsSeq(P) /\ Len(P) <= PageSize
      /\ Len(P) = IF n <= PageSize THEN n ELSE PageSize
      /\ \A j \in 1 .. Len(P) : P[j] = all[j] /\ j \in 1 .. n
  BY <1>2, <1>6, FirstRules
<1>8. \A j \in 1 .. Len(P) :
        FillItem(P[j]) /\ P[j].id[1] = A[j] /\ A[j] \in left /\ P[j] = RawFill(A[j])
  <2>1. TAKE j \in 1 .. Len(P)
  <2>2. P[j] = RawFill(A[j]) /\ A[j] \in left /\ A[j] \in Nat
    BY <1>1, <1>3, <1>5, <1>7
  <2> QED
    BY <2>2, RawFillRules
<1>9. \A j \in 1 .. Len(P) : A[j] \in NumbersOf(P)
  BY <1>7, <1>8, NumbersRules
<1>10. ASSUME Len(P) # 0, NEW k \in left, k <= P[Len(P)].id[1]
       PROVE  k \in NumbersOf(P)
  <2>0. Len(P) \in Nat /\ Len(P) \in 1 .. Len(P) /\ Len(P) \in 1 .. n
    BY <1>7, <1>10, SeqDomain
  <2>1. PICK i \in 1 .. n : A[i] = k
    BY <1>3
  <2>2. k <= A[Len(P)] /\ A[Len(P)] \in Nat /\ A[i] \in Nat
    BY <1>1, <1>3, <1>8, <1>10, <2>0
  <2>3. ~(Len(P) < i)
    <3>1. ASSUME Len(P) < i PROVE A[Len(P)] < A[i]
      BY <1>3, <2>0, <3>1
    <3> QED
      BY <2>1, <2>2, <3>1
  <2>4. i \in 1 .. Len(P)
    BY <2>0, <2>3
  <2> QED
    BY <1>9, <2>1, <2>4
<1>11. ASSUME Len(P) < PageSize, NEW k \in left
       PROVE  k \in NumbersOf(P)
  <2>1. Len(P) = n
    BY <1>3, <1>7, <1>11, BoundFacts
  <2>2. PICK i \in 1 .. n : A[i] = k
    BY <1>3
  <2> QED
    BY <1>9, <2>1, <2>2
<1>12. \A i, j \in 1 .. Len(P) : i < j => P[i].id[1] < P[j].id[1]
  <2>1. \A j \in 1 .. Len(P) : j \in 1 .. n /\ P[j].id[1] = A[j]
    BY <1>7, <1>8
  <2> QED
    BY <1>3, <2>1, ZenonT(60)
<1> QED
  BY <1>7, <1>8, <1>10, <1>11, <1>12

\* An item is among the identifiers it is checked by.
LEMMA ItemIdsRules ==
  ASSUME NEW r \in {"orders", "fills"}, NEW item,
         r = "orders" => OrderItem(item)
  PROVE  IsSeq(ItemIds(r, item)) /\ item.id \in ToSet(ItemIds(r, item))
<1> DEFINE one == <<item.id>>
           n == Len(item.legs)
           more == [j \in 1 .. n |-> item.legs[j].id]
<1>1. IsSeq(one) /\ item.id \in ToSet(one)
  <2>1. one \in Seq({item.id}) /\ DOMAIN one = {1} /\ one[1] = item.id
    OBVIOUS
  <2> QED
    BY <2>1, SeqIsSeq DEF ToSet
<1>2. CASE r = "orders"
  <2>1. n \in Nat /\ DOMAIN item.legs = 1 .. n
    BY <1>2, SeqDomain DEF OrderItem
  <2>2. ItemIds(r, item) = one \o more
    BY <1>2, <2>1 DEF ItemIds
  <2>3. more = [j \in 1 .. n |-> more[j]]
    OBVIOUS
  <2> HIDE DEF n
  <2> HIDE DEF more, one
  <2>4. IsSeq(more)
    BY <2>1, <2>3, MadeIsSeq
  <2> DEFINE S == ToSet(one) \cup ToSet(more)
             both == one \o more
  <2>5. one \in Seq(S) /\ more \in Seq(S)
    <3>1. ToSet(one) \subseteq S /\ ToSet(more) \subseteq S
      OBVIOUS
    <3> HIDE DEF S
    <3> QED
      BY <1>1, <2>4, <3>1, SeqOfMore
  <2> HIDE DEF S
  <2>6. both \in Seq(S) /\ ToSet(both) = ToSet(one) \cup ToSet(more)
    BY <2>5, ConcatRules
  <2> HIDE DEF both
  <2>7. IsSeq(both) /\ item.id \in ToSet(both)
    BY <1>1, <2>6, SeqIsSeq
  <2> QED
    BY <2>2, <2>7 DEF both
<1>3. CASE r = "fills"
  BY <1>1, <1>3 DEF ItemIds
<1> QED
  BY <1>2, <1>3

\* The identifiers of a page.
PageIds(r, items) == FlattenSeq([j \in DOMAIN items |-> ItemIds(r, items[j])])

\* The identifiers of a page.
LEMMA PageIdsRules ==
  ASSUME NEW r \in {"orders", "fills"}, NEW page, PageRight(r, page)
  PROVE  /\ IsSeq(PageIds(r, page.items))
         /\ \A j \in 1 .. Len(page.items) : page.items[j].id \in ToSet(PageIds(r, page.items))
<1> DEFINE items == page.items
           n == Len(items)
           seqs == [j \in 1 .. n |-> ItemIds(r, items[j])]
<1>1. n \in Nat /\ DOMAIN items = 1 .. n
  BY SeqDomain DEF PageRight
<1>2. \A j \in 1 .. n : r = "orders" => OrderItem(items[j])
  BY <1>1 DEF PageRight
<1>3. PageIds(r, items) = FlattenSeq(seqs)
  BY <1>1 DEF PageIds
<1>4. seqs = [j \in 1 .. n |-> seqs[j]] /\ \A j \in 1 .. n : seqs[j] = ItemIds(r, items[j])
  OBVIOUS
<1> HIDE DEF seqs, n
<1>5. IsSeq(seqs) /\ Len(seqs) = n
  BY <1>1, <1>4, MadeIsSeq
<1>6. \A j \in 1 .. n : IsSeq(seqs[j]) /\ items[j].id \in ToSet(seqs[j])
  BY <1>2, <1>4, ItemIdsRules
<1>7. IsSeq(FlattenSeq(seqs)) /\ ToSet(FlattenSeq(seqs)) = AllItems(seqs)
  BY <1>5, <1>6, NestedRules
<1>8. \A j \in 1 .. n : items[j].id \in AllItems(seqs)
  BY <1>5, <1>6 DEF AllItems
<1> QED
  BY <1>3, <1>7, <1>8 DEF n

\* A number on two pages is noticed.
LEMMA RepeatIsMalformed ==
  ASSUME NEW r \in {"orders", "fills"}, NEW pages, IsSeq(pages),
         \A p \in 1 .. Len(pages) : PageRight(r, pages[p]),
         NEW p \in 1 .. Len(pages), NEW q \in 1 .. Len(pages), p < q,
         NEW k \in NumbersOf(pages[p].items) \cap NumbersOf(pages[q].items)
  PROVE  IsMalformed(r, pages)
<1> DEFINE n == Len(pages)
           seqs == [x \in 1 .. n |-> PageIds(r, pages[x].items)]
           id == <<k, IF r = "orders" THEN "parent" ELSE "fill">>
<1>1. n \in Nat /\ DOMAIN pages = 1 .. n /\ pages # <<>>
  BY SeqDomain
<1>2. Identifiers(r, pages) = FlattenSeq(seqs)
  BY <1>1 DEF Identifiers, PageIds
<1>3. seqs = [x \in 1 .. n |-> seqs[x]] /\ \A x \in 1 .. n : seqs[x] = PageIds(r, pages[x].items)
  OBVIOUS
<1>4. \A x \in 1 .. n : k \in NumbersOf(pages[x].items) => id \in ToSet(PageIds(r, pages[x].items))
  <2>1. SUFFICES ASSUME NEW x \in 1 .. n, k \in NumbersOf(pages[x].items)
                 PROVE  id \in ToSet(PageIds(r, pages[x].items))
    OBVIOUS
  <2> DEFINE page == pages[x]
  <2>2. PageRight(r, page)
    OBVIOUS
  <2> HIDE DEF page
  <2>3. IsSeq(page.items)
    BY <2>2 DEF PageRight
  <2>4. PICK j \in 1 .. Len(page.items) : k = page.items[j].id[1]
    BY <2>1, <2>3, NumbersRules DEF page
  <2>5. page.items[j].id = id
    BY <2>2, <2>3, <2>4, SeqDomain DEF PageRight, OrderItem, FillItem
  <2>6. id \in ToSet(PageIds(r, page.items))
    BY <2>2, <2>4, <2>5, PageIdsRules
  <2> QED
    BY <2>6 DEF page
<1> HIDE DEF seqs, n
<1>5. IsSeq(seqs) /\ Len(seqs) = n
  BY <1>1, <1>3, MadeIsSeq
<1>6. \A x \in 1 .. n : IsSeq(seqs[x])
  BY <1>3, PageIdsRules DEF n
<1>7. IsInjective(FlattenSeq(seqs)) <=> Apart(seqs, n)
  BY <1>5, <1>6, NestedRules
<1>8. id \in ToSet(seqs[p]) /\ id \in ToSet(seqs[q])
  BY <1>3, <1>4 DEF n
<1>9. ~Apart(seqs, n)
  BY <1>8 DEF Apart, n
<1>10. ~IsInjective(Identifiers(r, pages))
  BY <1>2, <1>7, <1>9
<1> QED
  BY <1>1, <1>10 DEF IsMalformed, PageVerdict

\* A read without pages shows nothing yet.
LEMMA NothingShown ==
  /\ Shown(<<>>) = {} /\ Cursor(<<>>) = 0 /\ ~Odd(<<>>) /\ 1 .. 0 = {}
  /\ \A known, count \in Nat : OrdersShown(<<>>, known, count)
  /\ \A window, count : count \in Nat /\ window \subseteq 1 .. count => FillsShown(<<>>, window, count)
<1>1. DOMAIN <<>> = {} /\ 1 .. 0 = {}
  OBVIOUS
<1>2. Shown(<<>>) = {} /\ Cursor(<<>>) = 0 /\ ~Odd(<<>>)
  BY <1>1 DEF Shown, Cursor, Odd
<1>3. \A known, count \in Nat : OrdersShown(<<>>, known, count)
  <2>1. TAKE known, count \in Nat
  <2>2. OrdersUpto(<<>>, 0, known)
    BY <1>1, <1>2 DEF OrdersUpto
  <2>3. 0 \in 0 .. count
    OBVIOUS
  <2> QED
    BY <2>2, <2>3 DEF OrdersShown
<1>4. ASSUME NEW window, NEW count \in Nat, window \subseteq 1 .. count
      PROVE  FillsShown(<<>>, window, count)
  <2>1. FillsUptoCursor(<<>>, 0, window, count)
    <3>1. \A k \in window : ~(k <= 0)
      BY <1>4
    <3> QED
      BY <1>2, <3>1 DEF FillsUptoCursor
  <2>2. 0 \in 0 .. count
    OBVIOUS
  <2> QED
    BY <2>1, <2>2 DEF FillsShown
<1> QED
  BY <1>1, <1>2, <1>3, <1>4

\* One page more.
LEMMA ShownAppend ==
  ASSUME NEW pages, IsSeq(pages), NEW page, IsSeq(page.items)
  PROVE  /\ Append(pages, page) # <<>> /\ Last(Append(pages, page)) = page
         /\ Shown(Append(pages, page)) = Shown(pages) \cup NumbersOf(page.items)
         /\ Len(page.items) # 0 =>
              Cursor(Append(pages, page)) = page.items[Len(page.items)].id[1]
         /\ Len(page.items) = 0 <=> page.items = <<>>
         /\ Odd(pages) => Odd(Append(pages, page))
<1> DEFINE n == Len(pages)
           new == Append(pages, page)
<1>1. /\ IsSeq(new) /\ n \in Nat /\ Len(new) = n + 1
      /\ DOMAIN pages = 1 .. n /\ DOMAIN new = 1 .. (n + 1)
      /\ \A i \in 1 .. n : new[i] = pages[i]
      /\ new[n + 1] = page
  BY AppendIsSeq
<1> HIDE DEF new
<1>2. new # <<>> /\ Last(new) = page
  <2>1. new # <<>>
    BY <1>1, SeqDomain
  <2> QED
    BY <1>1, <2>1 DEF Last
<1>3. Shown(new) = Shown(pages) \cup NumbersOf(page.items)
  <2> HIDE DEF n
  <2>1. \A p : p \in 1 .. (n + 1) <=> p \in 1 .. n \/ p = n + 1
    BY <1>1
  <2>2. \A k : k \in Shown(new) <=> \E p \in 1 .. (n + 1) : k \in NumbersOf(new[p].items)
    BY <1>1 DEF Shown
  <2>3. \A k : k \in Shown(pages) <=> \E p \in 1 .. n : k \in NumbersOf(pages[p].items)
    BY <1>1 DEF Shown
  <2>4. \A k : k \in Shown(new) <=> k \in Shown(pages) \/ k \in NumbersOf(page.items)
    BY <1>1, <2>1, <2>2, <2>3
  <2> QED
    BY <2>4
<1>4. Len(page.items) # 0 => Cursor(new) = page.items[Len(page.items)].id[1]
  BY <1>2 DEF Cursor, Last
<1>5. Len(page.items) = 0 <=> page.items = <<>>
  BY SeqDomain
<1>6. ASSUME Odd(pages) PROVE Odd(new)
  <2>1. PICK p \in DOMAIN pages : \E j \in DOMAIN pages[p].items : pages[p].items[j].status = "odd"
    BY <1>6 DEF Odd
  <2>2. p \in DOMAIN new /\ new[p] = pages[p]
    BY <1>1
  <2> QED
    BY <2>1, <2>2 DEF Odd
<1> QED
  BY <1>2, <1>3, <1>4, <1>5, <1>6 DEF new

\* A read that goes on has a full last page, and no number twice.
LEMMA GoesOn ==
  ASSUME NEW r \in {"orders", "fills"}, NEW read, VerdictKept(r, read), read.st = "fetching",
         read.pages # <<>>, IsSeq(read.pages),
         \A p \in 1 .. Len(read.pages) : PageRight(r, read.pages[p])
  PROVE  /\ ~IsMalformed(r, read.pages)
         /\ Len(read.pages) \in 1 .. Len(read.pages)
         /\ Len(Last(read.pages).items) = PageSize /\ Last(read.pages).items # <<>>
         /\ Cursor(read.pages) \in NumbersOf(Last(read.pages).items)
         /\ Cursor(read.pages) \in Shown(read.pages) /\ Cursor(read.pages) \in Nat
         /\ Last(read.pages) = read.pages[Len(read.pages)]
<1> DEFINE pages == read.pages
           n == Len(pages)
           last == pages[n]
           items == last.items
<1>1. n \in Nat /\ n \in 1 .. n /\ DOMAIN pages = 1 .. n
  BY SeqDomain
<1>2. Last(pages) = last
  BY DEF Last
<1>3. PageRight(r, last) /\ IsSeq(items)
  BY <1>1 DEF PageRight
<1>4. PageVerdict(r, pages) = "next"
  BY DEF VerdictKept
<1> HIDE DEF last
<1>5. ~IsMalformed(r, pages)
  BY <1>4 DEF IsMalformed
<1>6. Len(items) = PageSize
  <2>1. ~(Len(items) > PageSize) /\ ~(Len(items) < PageSize)
    BY <1>2, <1>4 DEF PageVerdict
  <2>2. Len(items) \in Nat /\ PageSize \in Nat
    BY <1>3, SeqDomain, BoundFacts
  <2> QED
    BY <2>1, <2>2
<1>7. Len(items) \in 1 .. Len(items) /\ items # <<>> /\ DOMAIN items = 1 .. Len(items)
  BY <1>3, <1>6, BoundFacts, SeqDomain
<1>8. Cursor(pages) = items[Len(items)].id[1]
  BY <1>2, <1>7 DEF Cursor, Last
<1>9. Cursor(pages) \in NumbersOf(items)
  BY <1>7, <1>8 DEF NumbersOf
<1>10. Cursor(pages) \in Shown(pages)
  BY <1>1, <1>9, SMTT(30) DEF Shown, last
<1>11. Cursor(pages) \in Nat
  BY <1>3, <1>7, <1>8 DEF PageRight, OrderItem, FillItem
<1> QED
  BY <1>1, <1>2, <1>5, <1>6, <1>7, <1>9, <1>10, <1>11 DEF last

\* Past the last order the listing is empty.
LEMMA EmptyOrdersPage ==
  ASSUME CInv, NEW m \in Nat, m > Len(broker.orders)
  PROVE  Page("orders", m) = <<>>
<1> DEFINE all == [j \in 1 .. (Len(broker.orders) - m) |-> RawOrder(m + j)]
<1>1. 1 .. (Len(broker.orders) - m) = {}
  BY BrokerFacts
<1>2. all = <<>>
  BY <1>1
<1>3. FirstOf(<<>>) = <<>>
  BY EmptyIsSeq, BoundFacts DEF FirstOf
<1> HIDE DEF all
<1> QED
  BY <1>2, <1>3 DEF Page, all

\* Orders in a row after those shown.
LEMMA OrdersGrow ==
  ASSUME NEW pages, IsSeq(pages), NEW m \in Nat, Shown(pages) = 1 .. m, NEW known \in Nat,
         NEW page, IsSeq(page.items),
         \A j \in 1 .. Len(page.items) : page.items[j].id[1] = m + j,
         Len(page.items) < PageSize => known <= m + Len(page.items)
  PROVE  OrdersUpto(Append(pages, page), m + Len(page.items), known)
<1> DEFINE new == Append(pages, page)
           n == Len(page.items)
<1>1. /\ new # <<>> /\ Shown(new) = Shown(pages) \cup NumbersOf(page.items) /\ Last(new) = page
      /\ n # 0 => Cursor(new) = page.items[n].id[1]
      /\ n = 0 <=> page.items = <<>>
  BY ShownAppend
<1>2. n \in Nat
  BY SeqDomain
<1> HIDE DEF new
<1>3. NumbersOf(page.items) = (m + 1) .. (m + n)
  <2>1. \A k \in NumbersOf(page.items) : \E j \in 1 .. n : k = m + j
    BY NumbersRules, SMTT(30)
  <2>2. \A j \in 1 .. n : m + j \in NumbersOf(page.items)
    BY NumbersRules
  <2> HIDE DEF n
  <2>3. \A k \in (m + 1) .. (m + n) : k - m \in 1 .. n /\ k = m + (k - m)
    BY <1>2
  <2>4. \A j \in 1 .. n : m + j \in (m + 1) .. (m + n)
    BY <1>2
  <2> QED
    BY <2>1, <2>2, <2>3, <2>4, ZenonT(60)
<1>4. Shown(new) = 1 .. (m + n)
  <2> HIDE DEF n
  <2>1. (1 .. m) \cup ((m + 1) .. (m + n)) = 1 .. (m + n)
    BY <1>2
  <2> QED
    BY <1>1, <1>3, <2>1
<1>5. page.items # <<>> => Cursor(new) = m + n
  <2>1. SUFFICES ASSUME n # 0 PROVE Cursor(new) = m + n
    BY <1>1
  <2>2. n \in 1 .. n
    BY <1>2, <2>1
  <2> QED
    BY <1>1, <2>1, <2>2
<1>6. OrdersUpto(new, m + n, known)
  BY <1>1, <1>4, <1>5 DEF OrdersUpto
<1> QED
  BY <1>6 DEF new, n

\* Every order, or every fill, from the first.
LEMMA WholeAccount ==
  ASSUME CInv
  PROVE  /\ IsSeq([k \in 1 .. Len(broker.orders) |-> RawOrder(k)])
         /\ Len([k \in 1 .. Len(broker.orders) |-> RawOrder(k)]) = Len(broker.orders)
         /\ IsSeq([k \in 1 .. Len(broker.fills) |-> RawFill(k)])
         /\ Len([k \in 1 .. Len(broker.fills) |-> RawFill(k)]) = Len(broker.fills)
         /\ NumbersOf([k \in 1 .. Len(broker.fills) |-> RawFill(k)]) = 1 .. Len(broker.fills)
<1> DEFINE n == Len(broker.orders)
           m == Len(broker.fills)
           orders == [k \in 1 .. n |-> RawOrder(k)]
           fills == [k \in 1 .. m |-> RawFill(k)]
<1>1. n \in Nat /\ m \in Nat
  BY BrokerFacts
<1>2. orders = [k \in 1 .. n |-> orders[k]] /\ fills = [k \in 1 .. m |-> fills[k]]
  OBVIOUS
<1>3. \A k \in 1 .. m : fills[k] = RawFill(k)
  OBVIOUS
<1> HIDE DEF orders, fills, n, m
<1>4. IsSeq(orders) /\ Len(orders) = n /\ IsSeq(fills) /\ Len(fills) = m
  BY <1>1, <1>2, MadeIsSeq
<1>5. \A k \in 1 .. m : fills[k].id[1] = k
  BY <1>1, <1>3, RawFillRules
<1>6. NumbersOf(fills) = 1 .. m
  <2>1. \A j \in 1 .. m : j \in NumbersOf(fills)
    BY <1>4, <1>5, NumbersRules
  <2>2. \A k \in NumbersOf(fills) : k \in 1 .. m
    BY <1>4, <1>5, NumbersRules
  <2> QED
    BY <2>1, <2>2
<1> QED
  BY <1>4, <1>6 DEF orders, fills, n, m

\* The orders a read has when a page of them arrives.
LEMMA OrdersAnswered ==
  ASSUME CInv, NEW read, read.st = "fetching", IsSeq(read.pages), VerdictKept("orders", read),
         \A p \in 1 .. Len(read.pages) : PageRight("orders", read.pages[p]),
         NEW known, known \in Nat, known <= Len(broker.orders),
         OrdersShown(read.pages, known, Len(broker.orders)),
         NEW flaw \in {"none", "ignored", "unknown"}, flaw = "unknown" => broker.orders # <<>>,
         NEW page, page = AnsweredPage("orders", read.pages, flaw)
  PROVE  /\ PageRight("orders", page)
         /\ OrdersShown(Append(read.pages, page), known, Len(broker.orders))
<1> DEFINE pages == read.pages
           n == Len(broker.orders)
           new == Append(pages, page)
<1>0. /\ n \in Nat /\ DOMAIN broker.orders = 1 .. n /\ broker["orders"] = broker.orders
      /\ Len(pages) \in Nat
  BY BrokerFacts, SeqDomain
<1>1. page.items = CASE flaw = "ignored" -> [k \in 1 .. n |-> RawOrder(k)]
                     [] flaw = "unknown" -> <<[RawOrder(1) EXCEPT !.status = "odd"]>>
                     [] OTHER            -> Page("orders", Cursor(pages))
  BY <1>0 DEF AnsweredPage
<1>2. pages = <<>> \/ /\ pages # <<>> /\ Cursor(pages) \in NumbersOf(Last(pages).items)
                      /\ Cursor(pages) \in Nat /\ Last(pages) = pages[Len(pages)]
                      /\ Last(pages).items # <<>> /\ Len(pages) \in 1 .. Len(pages)
                      /\ ~IsMalformed("orders", pages)
  BY GoesOn
<1>3. Cursor(pages) \in Nat
  BY <1>2, NothingShown
<1>4. CASE flaw = "none"
  <2> DEFINE m == Cursor(pages)
             P == Page("orders", m)
  <2>1. page.items = P
    BY <1>1, <1>4
  <2>2. CASE m > n
    <3>1. P = <<>> /\ IsSeq(P) /\ DOMAIN <<>> = {}
      BY <1>3, <2>2, EmptyOrdersPage, EmptyIsSeq
    <3>2. PageRight("orders", page)
      BY <2>1, <3>1 DEF PageRight
    <3>3. pages # <<>> /\ ~ \E x \in 0 .. n : OrdersUpto(pages, x, known)
      <4>1. pages # <<>>
        BY <1>0, <2>2, NothingShown
      <4>2. ASSUME NEW x \in 0 .. n, OrdersUpto(pages, x, known) PROVE FALSE
        BY <1>0, <1>2, <2>2, <4>1, <4>2 DEF OrdersUpto
      <4> QED
        BY <4>1, <4>2
    <3>4. Odd(pages)
      BY <1>2, <3>3 DEF OrdersShown
    <3>5. Odd(new)
      BY <2>1, <3>1, <3>4, ShownAppend
    <3> QED
      BY <3>2, <3>5 DEF OrdersShown
  <2>3. CASE ~(m > n)
    <3>0. m \in 0 .. n
      BY <1>0, <1>3, <2>3
    <3> HIDE DEF P
    <3>1. /\ IsSeq(P) /\ \A j \in 1 .. Len(P) : OrderItem(P[j]) /\ P[j].id[1] = m + j
          /\ Len(P) \in 0 .. (n - m) /\ Len(P) <= PageSize
          /\ Len(P) < PageSize => Len(P) = n - m
      BY <3>0, OrdersPage DEF P
    <3>2. PageRight("orders", page)
      BY <2>1, <3>1, SeqDomain DEF PageRight
    <3>3. CASE Odd(pages)
      <4>1. Odd(new)
        BY <2>1, <3>1, <3>3, ShownAppend
      <4> QED
        BY <3>2, <4>1 DEF OrdersShown
    <3>4. CASE ~Odd(pages)
      <4>1. Shown(pages) = 1 .. m
        <5>1. CASE pages = <<>>
          <6> HIDE DEF m
          <6>1. m = 0
            BY <5>1, NothingShown DEF m
          <6> QED
            BY <5>1, <6>1, NothingShown
        <5>2. CASE pages # <<>>
          <6>1. PICK x \in 0 .. n : OrdersUpto(pages, x, known)
            BY <1>2, <3>4, <5>2 DEF OrdersShown
          <6> QED
            BY <1>2, <5>2, <6>1 DEF OrdersUpto
        <5> QED
          BY <5>1, <5>2
      <4> HIDE DEF m
      <4>2. Len(P) < PageSize => known <= m + Len(P)
        BY <1>0, <3>0, <3>1
      <4>3. m \in Nat
        BY <1>0, <3>0
      <4>4. OrdersUpto(new, m + Len(page.items), known)
        BY <2>1, <3>1, <4>1, <4>2, <4>3, OrdersGrow
      <4>5. m + Len(page.items) \in 0 .. n
        BY <1>0, <2>1, <3>0, <3>1
      <4> QED
        BY <3>2, <4>4, <4>5 DEF OrdersShown
    <3> QED
      BY <3>3, <3>4
  <2> QED
    BY <2>2, <2>3
<1>5. CASE flaw = "ignored"
  <2> DEFINE P == [k \in 1 .. n |-> RawOrder(k)]
  <2>1. page.items = P
    BY <1>1, <1>5
  <2>2. \A j \in 1 .. n : P[j] = RawOrder(j) /\ OrderItem(P[j]) /\ P[j].id[1] = j
    <3>1. TAKE j \in 1 .. n
    <3>2. j \in Nat /\ P[j] = RawOrder(j)
      BY <1>0
    <3> HIDE DEF P
    <3> QED
      BY <3>2, RawOrderRules
  <2> HIDE DEF P
  <2>3. IsSeq(P) /\ Len(P) = n
    BY WholeAccount DEF P
  <2>4. PageRight("orders", page)
    BY <2>1, <2>2, <2>3, SeqDomain DEF PageRight
  <2>5. CASE pages = <<>>
    <3>1. Shown(pages) = 1 .. 0
      BY <2>5, NothingShown
    <3>2. \A j \in 1 .. n : j = 0 + j
      BY <1>0
    <3>3. n = 0 + n
      BY <1>0
    <3>4. OrdersUpto(new, 0 + Len(page.items), known)
      <4>1. \A j \in 1 .. Len(page.items) : page.items[j].id[1] = 0 + j
        BY <2>1, <2>2, <2>3, <3>2
      <4>2. known <= 0 + Len(page.items) /\ 0 \in Nat
        BY <2>1, <2>3, <3>3
      <4> QED
        BY <2>1, <2>3, <3>1, <4>1, <4>2, OrdersGrow
    <3>5. 0 + Len(page.items) \in 0 .. n
      BY <1>0, <2>1, <2>3
    <3> QED
      BY <2>4, <3>4, <3>5 DEF OrdersShown
  <2>6. CASE pages # <<>> /\ Odd(pages)
    <3>1. Odd(new)
      BY <2>1, <2>3, <2>6, ShownAppend
    <3> QED
      BY <2>4, <3>1 DEF OrdersShown
  <2>7. CASE pages # <<>> /\ ~Odd(pages)
    <3> DEFINE k == Cursor(pages)
               p == Len(pages)
               q == Len(pages) + 1
    <3>1. PICK x \in 0 .. n : OrdersUpto(pages, x, known)
      BY <1>2, <2>7 DEF OrdersShown
    <3>2. k = x /\ k \in NumbersOf(pages[p].items) /\ Shown(pages) = 1 .. x
      BY <1>2, <2>7, <3>1 DEF OrdersUpto
    <3>3. k \in Shown(pages)
      BY <1>0, <1>2, <2>7, <3>2, SeqDomain DEF Shown
    <3>4. k \in 1 .. n
      <4> HIDE DEF k
      <4> QED
        BY <1>0, <3>2, <3>3
    <3>5. k \in NumbersOf(P)
      BY <2>2, <2>3, <3>4, NumbersRules
    <3>6. /\ IsSeq(new) /\ Len(new) = q /\ new[q] = page /\ new # <<>>
          /\ \A y \in 1 .. p : new[y] = pages[y]
      BY <2>1, <2>3, ShownAppend, AppendIsSeq, SMTT(30)
    <3>7. /\ \A y \in 1 .. q : y \in 1 .. p \/ y = q
          /\ p \in 1 .. q /\ q \in 1 .. q /\ p < q
      BY <1>0, <1>2, <2>7
    <3> HIDE DEF p, q, k
    <3>8. \A y \in 1 .. Len(new) : PageRight("orders", new[y])
      BY <2>4, <3>6, <3>7 DEF p
    <3>9. k \in NumbersOf(new[p].items) /\ k \in NumbersOf(new[q].items)
      BY <1>2, <2>1, <2>7, <3>2, <3>5, <3>6 DEF p
    <3>10. IsMalformed("orders", new)
      BY <3>6, <3>7, <3>8, <3>9, RepeatIsMalformed
    <3> QED
      BY <2>4, <3>10 DEF OrdersShown
  <2> QED
    BY <2>5, <2>6, <2>7
<1>6. CASE flaw = "unknown"
  <2> DEFINE item == [RawOrder(1) EXCEPT !.status = "odd"]
             P == <<item>>
  <2>1. page.items = P
    BY <1>1, <1>6
  <2>2. OrderItem(item) /\ item.status = "odd"
    <3>1. 1 \in Nat
      OBVIOUS
    <3> QED
      BY <3>1, RawOrderRules
  <2> HIDE DEF item
  <2>3. DOMAIN P = {1} /\ P[1] = item /\ P \in Seq({item})
    OBVIOUS
  <2>4. IsSeq(P)
    BY <2>3, SeqIsSeq
  <2> HIDE DEF P
  <2>5. PageRight("orders", page)
    BY <2>1, <2>2, <2>3, <2>4 DEF PageRight
  <2>6. Odd(new)
    <3>1. Len(pages) + 1 \in DOMAIN new /\ new[Len(pages) + 1] = page
      BY <2>1, <2>4, AppendIsSeq, <1>0
    <3> QED
      BY <2>1, <2>2, <2>3, <3>1 DEF Odd
  <2> QED
    BY <2>5, <2>6 DEF OrdersShown
<1> QED
  BY <1>4, <1>5, <1>6

\* What a read of the fills has shown up to its cursor.
LEMMA FillsSoFar ==
  ASSUME CInv, NEW read, read.st = "fetching", IsSeq(read.pages), VerdictKept("fills", read),
         \A p \in 1 .. Len(read.pages) : PageRight("fills", read.pages[p]),
         FillsShown(read.pages, Window, Len(broker.fills)),
         NEW m, m = Cursor(read.pages)
  PROVE  /\ m \in 0 .. Len(broker.fills)
         /\ Shown(read.pages) \subseteq 1 .. Len(broker.fills)
         /\ \A k \in Window : k <= m => k \in Shown(read.pages)
<1> DEFINE pages == read.pages
           n == Len(broker.fills)
<1>1. n \in Nat /\ Window \subseteq 1 .. n
  BY BrokerFacts DEF Window
<1>2. CASE pages = <<>>
  <2>1. m = 0 /\ Shown(pages) = {}
    BY <1>2, NothingShown
  <2> HIDE DEF n
  <2>2. \A k \in Window : ~(k <= 0)
    BY <1>1
  <2>3. m \in 0 .. n
    BY <1>1, <2>1
  <2> QED
    BY <2>1, <2>2, <2>3 DEF n
<1>3. CASE pages # <<>>
  <2>1. ~IsMalformed("fills", pages) /\ Last(pages).items # <<>>
    BY <1>3, GoesOn
  <2>2. PICK x \in 0 .. n : FillsUptoCursor(pages, x, Window, n)
    BY <2>1 DEF FillsShown
  <2>3. x = m
    BY <1>3, <2>1, <2>2 DEF FillsUptoCursor
  <2> QED
    BY <2>2, <2>3 DEF FillsUptoCursor
<1> QED
  BY <1>2, <1>3

\* The fills a read has when a page of them arrives.
LEMMA FillsAnswered ==
  ASSUME CInv, NEW read, read.st = "fetching", IsSeq(read.pages), VerdictKept("fills", read),
         \A p \in 1 .. Len(read.pages) : PageRight("fills", read.pages[p]),
         FillsShown(read.pages, Window, Len(broker.fills)),
         NEW flaw \in {"none", "ignored"},
         NEW page, page = AnsweredPage("fills", read.pages, flaw)
  PROVE  /\ PageRight("fills", page)
         /\ FillsShown(Append(read.pages, page), Window, Len(broker.fills))
<1> DEFINE pages == read.pages
           n == Len(broker.fills)
           new == Append(pages, page)
           m == Cursor(pages)
<1>0. /\ n \in Nat /\ DOMAIN broker.fills = 1 .. n /\ broker["fills"] = broker.fills
      /\ Len(pages) \in Nat
  BY BrokerFacts, SeqDomain
<1>1. page.items = IF flaw = "ignored" THEN [k \in 1 .. n |-> RawFill(k)] ELSE Page("fills", m)
  BY <1>0 DEF AnsweredPage
<1>2. /\ m \in 0 .. n /\ Shown(pages) \subseteq 1 .. n
      /\ \A k \in Window : k <= m => k \in Shown(pages)
  BY FillsSoFar
<1>3. Window \subseteq 1 .. n
  BY <1>0 DEF Window
<1>4. CASE flaw = "none"
  <2> DEFINE P == Page("fills", m)
             left == {k \in Window : k > m}
             last == IF Len(P) = 0 THEN m ELSE P[Len(P)].id[1]
  <2>1. page.items = P
    BY <1>1, <1>4
  <2>2. P = Page("fills", m) /\ left = {k \in Window : k > m}
    OBVIOUS
  <2>3. last = IF Len(P) = 0 THEN m ELSE P[Len(P)].id[1]
    OBVIOUS
  <2> HIDE DEF P, left, last, m, n
  <2>a. m \in Nat
    BY <1>0, <1>2
  <2>4. /\ IsSeq(P) /\ Len(P) <= PageSize
        /\ \A j \in 1 .. Len(P) : FillItem(P[j]) /\ P[j].id[1] \in left
        /\ Len(P) # 0 => \A k \in left : k <= P[Len(P)].id[1] => k \in NumbersOf(P)
        /\ Len(P) < PageSize => \A k \in left : k \in NumbersOf(P)
    BY <2>a, <2>2, FillsPage
  <2>5. PageRight("fills", page)
    BY <2>1, <2>4, SeqDomain DEF PageRight
  <2>6. /\ new # <<>> /\ Last(new) = page
        /\ Shown(new) = Shown(pages) \cup NumbersOf(P)
        /\ Len(P) # 0 => Cursor(new) = P[Len(P)].id[1]
        /\ Len(P) = 0 <=> P = <<>>
    BY <2>1, <2>4, ShownAppend
  <2> HIDE DEF new
  <2>7. left \subseteq 1 .. n /\ \A k \in Window : k <= m \/ k \in left
    <3>1. \A k \in left : k \in Window
      BY <2>2
    <3>2. \A k \in Window : k \in Int /\ k \in 1 .. n
      BY <1>0, <1>3
    <3>3. \A k \in Window : k > m => k \in left
      BY <2>2
    <3>4. \A k \in Window : k <= m \/ k > m
      BY <2>a, <3>2
    <3> QED
      BY <3>1, <3>2, <3>3, <3>4
  <2>8. NumbersOf(P) \subseteq left
    BY <2>4, NumbersRules
  <2>9. Len(P) # 0 => Len(P) \in 1 .. Len(P)
    BY <2>4, SeqDomain
  <2>10. last \in 0 .. n /\ (Len(P) # 0 => last \in 1 .. n)
    <3>1. CASE Len(P) = 0
      BY <1>2, <2>3, <3>1
    <3>2. CASE Len(P) # 0
      <4>1. last \in left
        BY <2>3, <2>4, <2>9, <3>2
      <4>2. last \in 1 .. n
        BY <2>7, <4>1
      <4> QED
        BY <1>0, <4>2
    <3> QED
      BY <3>1, <3>2
  <2>11. \A k \in Window : k <= last => k \in Shown(new)
    <3>1. SUFFICES ASSUME NEW k \in Window, k <= last PROVE k \in Shown(new)
      OBVIOUS
    <3>2. CASE k <= m
      BY <1>2, <2>6, <3>2
    <3>3. CASE ~(k <= m)
      <4>1. k \in left
        BY <2>7, <3>3
      <4>2. Len(P) # 0
        BY <2>3, <3>1, <3>3
      <4>3. k \in NumbersOf(P)
        BY <2>3, <2>4, <3>1, <4>1, <4>2
      <4> QED
        BY <2>6, <4>3
    <3> QED
      BY <3>2, <3>3
  <2>12. Len(P) < PageSize => Window \subseteq Shown(new)
    <3>1. SUFFICES ASSUME Len(P) < PageSize, NEW k \in Window PROVE k \in Shown(new)
      OBVIOUS
    <3> QED
      BY <1>2, <2>4, <2>6, <2>7, <3>1
  <2>13. FillsUptoCursor(new, last, Window, n)
    <3>1. Shown(new) \subseteq 1 .. n
      BY <1>2, <2>6, <2>7, <2>8
    <3>2. Last(new).items # <<>> => Cursor(new) = last
      BY <2>1, <2>3, <2>6
    <3>3. Len(Last(new).items) < PageSize => Window \subseteq Shown(new)
      BY <2>1, <2>6, <2>12
    <3> QED
      BY <2>11, <3>1, <3>2, <3>3 DEF FillsUptoCursor
  <2>14. FillsShown(new, Window, n)
    BY <2>6, <2>10, <2>13 DEF FillsShown
  <2> QED
    BY <2>5, <2>14 DEF new, n
<1>5. CASE flaw = "ignored"
  <2> DEFINE P == [k \in 1 .. n |-> RawFill(k)]
  <2>1. page.items = P
    BY <1>1, <1>5
  <2>2. \A j \in 1 .. n : FillItem(P[j]) /\ P[j].id[1] = j
    <3>1. TAKE j \in 1 .. n
    <3>2. j \in Nat /\ P[j] = RawFill(j)
      BY <1>0
    <3> HIDE DEF P
    <3> QED
      BY <3>2, RawFillRules
  <2> HIDE DEF P
  <2>3. IsSeq(P) /\ Len(P) = n /\ NumbersOf(P) = 1 .. n
    BY WholeAccount DEF P
  <2>4. PageRight("fills", page)
    <3>1. DOMAIN P = 1 .. n
      BY <2>3, SeqDomain
    <3> HIDE DEF n
    <3> QED
      BY <2>1, <2>2, <2>3, <3>1 DEF PageRight
  <2>5. /\ new # <<>> /\ Last(new) = page
        /\ Shown(new) = Shown(pages) \cup NumbersOf(P)
        /\ Len(P) # 0 => Cursor(new) = P[Len(P)].id[1]
        /\ Len(P) = 0 <=> P = <<>>
    BY <2>1, <2>3, ShownAppend
  <2>6. CASE pages = <<>>
    <3>1. Shown(new) = 1 .. n
      BY <2>3, <2>5, <2>6, NothingShown
    <3>2. P # <<>> => Cursor(new) = n
      <4>1. SUFFICES ASSUME n # 0 PROVE P[n].id[1] = n
        BY <2>3, <2>5
      <4>2. n \in 1 .. n
        BY <1>0, <4>1
      <4> HIDE DEF n
      <4> QED
        BY <2>2, <4>2
    <3> HIDE DEF new
    <3>3. FillsUptoCursor(new, n, Window, n)
      BY <1>3, <2>1, <2>5, <3>1, <3>2 DEF FillsUptoCursor
    <3>4. n \in 0 .. n
      BY <1>0
    <3>5. FillsShown(new, Window, n)
      BY <2>5, <3>3, <3>4 DEF FillsShown
    <3> QED
      BY <2>4, <3>5 DEF new
  <2>7. CASE pages # <<>>
    <3> DEFINE p == Len(pages)
               q == Len(pages) + 1
    <3>1. /\ m \in NumbersOf(pages[p].items) /\ m \in Shown(pages) /\ p \in 1 .. p
      BY <2>7, GoesOn
    <3>2. m \in NumbersOf(P)
      BY <1>2, <2>3, <3>1
    <3>3. /\ IsSeq(new) /\ Len(new) = q /\ new[q] = page
          /\ \A y \in 1 .. p : new[y] = pages[y]
      BY AppendIsSeq
    <3>4. /\ \A y \in 1 .. q : y \in 1 .. p \/ y = q
          /\ p \in 1 .. q /\ q \in 1 .. q /\ p < q
      BY <1>0, <3>1
    <3> HIDE DEF p, q, m, new
    <3>5. \A y \in 1 .. Len(new) : PageRight("fills", new[y])
      BY <2>4, <3>3, <3>4 DEF p
    <3>6. m \in NumbersOf(new[p].items) /\ m \in NumbersOf(new[q].items)
      BY <2>1, <3>1, <3>2, <3>3
    <3>7. IsMalformed("fills", new)
      BY <3>3, <3>4, <3>5, <3>6, RepeatIsMalformed
    <3> QED
      BY <2>4, <3>7 DEF FillsShown, new
  <2> QED
    BY <2>6, <2>7
<1> QED
  BY <1>4, <1>5

\* What the pages are held against: what was known of the account when the
\* attempt began, how far the account has come, and the window.
Seen == [known |-> run.known, orders |-> Len(broker.orders), fills |-> Len(broker.fills),
         window |-> Window]

\* It is part of the account.
SeenRight(seen) ==
  /\ seen.known \in Nat /\ seen.orders \in Nat /\ seen.fills \in Nat
  /\ seen.known <= seen.orders /\ seen.window \subseteq 1 .. seen.fills

\* Pages of orders and of fills show what they should so far.
PagesRight(r, pages, seen) ==
  /\ r \in {"orders", "fills"} => \A p \in 1 .. Len(pages) : PageRight(r, pages[p])
  /\ r = "orders" => OrdersShown(pages, seen.known, seen.orders)
  /\ r = "fills" => FillsShown(pages, seen.window, seen.fills)

\* Pages and what was made of them.
ReadWhole(r, read, seen) == VerdictKept(r, read) /\ PagesRight(r, read.pages, seen)

\* Every read is whole so far.
PagesWhole ==
  /\ SeenRight(Seen)
  /\ \A a \in Attempts, r \in Resources : ReadWhole(r, task[a][r], Seen)

\* A read without pages is whole so far.
LEMMA EmptyWhole ==
  ASSUME NEW seen, SeenRight(seen), NEW read, read.pages = <<>>, read.st # "done", NEW r
  PROVE  ReadWhole(r, read, seen)
<1>1. \A p \in 1 .. Len(<<>>) : FALSE
  BY EmptyIsSeq
<1>2. PagesRight(r, <<>>, seen)
  BY <1>1, NothingShown DEF SeenRight, PagesRight
<1> QED
  BY <1>2 DEF ReadWhole, VerdictKept

\* Reads that failed or have not begun hold no pages.
LEMMA FailedIsEmpty ==
  /\ \A err : Failed(err).pages = <<>> /\ Failed(err).st # "done"
  /\ Idle.pages = <<>> /\ Idle.st # "done"
  /\ NewRead.pages = <<>> /\ NewRead.st # "done"
BY DEF Failed, Idle, NewRead

\* No read but the one that settles has new pages.
LEMMA SettleWhole ==
  ASSUME CInv, PagesWhole, NEW a \in Attempts, NEW r \in Resources, NEW st, NEW err, NEW pages,
         ReadRight([st |-> st, err |-> err, pages |-> pages]),
         SettleTask(a, r, st, err, pages),
         ReadWhole(r, [st |-> st, err |-> err, pages |-> pages], Seen)
  PROVE  /\ \A b \in Attempts, q \in Resources : ReadWhole(q, task'[b][q], Seen)
         /\ run'.known = run.known /\ run'.start = run.start
<1> DEFINE read == [st |-> st, err |-> err, pages |-> pages]
           ok(b, q) == task'[b][q] = Failed("cancelled")
<1>1. ReadsRight(task)
  BY DEF CInv, AttemptRight
<1>2. /\ run' = IF st = "failed" /\ r \in Collections /\ run.reason = "none" /\ a = run.attempt
                THEN [run EXCEPT !.reason = err] ELSE run
      /\ task'[a][r] = Failed("cancelled") \/ task'[a][r] = read
      /\ \A b \in Attempts, q \in Resources :
           b # a \/ q # r => task'[b][q] = Failed("cancelled") \/ task'[b][q] = task[b][q]
  BY <1>1, SettleRules
<1> HIDE DEF read
<1>3. \A q \in Resources : ReadWhole(q, Failed("cancelled"), Seen)
  BY EmptyWhole, FailedIsEmpty DEF PagesWhole
<1>4. ReadWhole(r, read, Seen)
  BY DEF read
<1>5. \A b \in Attempts, q \in Resources : ReadWhole(q, task'[b][q], Seen)
  BY <1>2, <1>3, <1>4 DEF PagesWhole
<1>6. run'.known = run.known /\ run'.start = run.start
  <2>1. run \in RunState
    BY DEF CInv
  <2>2. \A e : [run EXCEPT !.reason = e].known = run.known /\ [run EXCEPT !.reason = e].start = run.start
    BY <2>1 DEF RunState
  <2> QED
    BY <1>2, <2>2
<1> QED
  BY <1>5, <1>6

\* A page is examined: it is the last one, or the read goes on, or fails.
LEMMA ExamineWhole ==
  ASSUME CInv, PagesWhole, NEW a \in Attempts, NEW r \in Resources, NEW pages,
         IsSeq(pages), Len(pages) \in 1 .. MaxPages, PagesRight(r, pages, Seen),
         ExaminePage(a, r, pages)
  PROVE  /\ \A b \in Attempts, q \in Resources : ReadWhole(q, task'[b][q], Seen)
         /\ run'.known = run.known /\ run'.start = run.start
<1> DEFINE verdict == PageVerdict(r, pages)
<1>1. IF verdict \in Failures THEN SettleTask(a, r, "failed", verdict, <<>>)
      ELSE SettleTask(a, r, IF verdict = "next" THEN "fetching" ELSE "done", "none", pages)
  BY DEF ExaminePage
<1>2. /\ verdict \in {"done", "next", "malformed_response", "resource_limit"}
      /\ verdict = "next" => Len(pages) < MaxPages
  BY VerdictRange
<1>3. verdict = PageVerdict(r, pages)
  OBVIOUS
<1> HIDE DEF verdict
<1>4. CASE verdict \in Failures
  <2>1. ReadRight(Failed(verdict)) /\ ReadWhole(r, Failed(verdict), Seen)
    <3>1. verdict \in Causes
      BY <1>4 DEF Causes
    <3>2. ReadRight(Failed(verdict))
      BY <3>1, FailedIsRight
    <3> QED
      BY <3>2, EmptyWhole, FailedIsEmpty DEF PagesWhole
  <2>2. SettleTask(a, r, "failed", verdict, <<>>)
    BY <1>1, <1>4
  <2> QED
    BY <2>1, <2>2, SettleWhole DEF Failed
<1>5. CASE verdict = "next"
  <2>1. SettleTask(a, r, "fetching", "none", pages)
    BY <1>1, <1>5 DEF Failures
  <2> DEFINE read == [st |-> "fetching", err |-> "none", pages |-> pages]
  <2>2. ReadRight(read)
    <3>1. Len(pages) \in 0 .. (MaxPages - 1)
      BY <1>2, <1>5, BoundFacts
    <3> QED
      BY <3>1 DEF ReadRight
  <2>3. ReadWhole(r, read, Seen)
    BY <1>3, <1>5 DEF ReadWhole, VerdictKept
  <2> QED
    BY <2>1, <2>2, <2>3, SettleWhole
<1>6. CASE verdict = "done"
  <2>1. SettleTask(a, r, "done", "none", pages)
    BY <1>1, <1>6 DEF Failures
  <2> DEFINE read == [st |-> "done", err |-> "none", pages |-> pages]
  <2>2. ReadRight(read)
    BY DEF ReadRight
  <2>3. ReadWhole(r, read, Seen)
    BY <1>3, <1>6 DEF ReadWhole, VerdictKept
  <2> QED
    BY <2>1, <2>2, <2>3, SettleWhole
<1>7. verdict \in Failures \/ verdict = "next" \/ verdict = "done"
  BY <1>2 DEF Failures
<1> QED
  BY <1>4, <1>5, <1>6, <1>7

\* The pages with the one that arrives.
LEMMA AnsweredPages ==
  ASSUME CInv, PagesWhole, NEW a \in Attempts, NEW r \in Resources, task[a][r].st = "fetching",
         NEW flaw \in {"none", "ignored", "unknown"},
         flaw = "ignored" => r \in {"orders", "fills"},
         flaw = "unknown" => r = "orders" /\ broker.orders # <<>>
  PROVE  PagesRight(r, Append(task[a][r].pages, AnsweredPage(r, task[a][r].pages, flaw)), Seen)
<1> DEFINE read == task[a][r]
           page == AnsweredPage(r, read.pages, flaw)
           new == Append(read.pages, page)
           n == Len(read.pages)
<1>0. Seen.known = run.known /\ Seen.orders = Len(broker.orders) /\ Seen.fills = Len(broker.fills)
      /\ Seen.window = Window
  BY DEF Seen
<1>1. ReadRight(read) /\ ReadWhole(r, read, Seen) /\ read.st = "fetching"
  BY DEF CInv, AttemptRight, ReadsRight, PagesWhole
<1>2. IsSeq(read.pages) /\ VerdictKept(r, read) /\ PagesRight(r, read.pages, Seen)
  BY <1>1 DEF ReadRight, ReadWhole
<1>3. page = AnsweredPage(r, read.pages, flaw)
  OBVIOUS
<1>4. /\ IsSeq(new) /\ n \in Nat /\ Len(new) = n + 1 /\ new[n + 1] = page
      /\ \A i \in 1 .. n : new[i] = read.pages[i]
  <2> HIDE DEF page, read
  <2> QED
    BY <1>2, AppendIsSeq
<1> HIDE DEF read, page
<1>5. ASSUME r \in {"orders", "fills"}, PageRight(r, page)
      PROVE  \A p \in 1 .. Len(new) : PageRight(r, new[p])
  <2>1. \A p \in 1 .. n : PageRight(r, read.pages[p])
    BY <1>2, <1>5 DEF PagesRight
  <2> HIDE DEF n
  <2>2. \A p \in 1 .. (n + 1) : p \in 1 .. n \/ p = n + 1
    BY <1>4
  <2> HIDE DEF new
  <2> QED
    BY <1>4, <1>5, <2>1, <2>2
<1>6. CASE r = "orders"
  <2>1. run.known \in Nat /\ run.known <= Len(broker.orders)
    BY <1>0 DEF PagesWhole, SeenRight
  <2>2. /\ \A p \in 1 .. Len(read.pages) : PageRight("orders", read.pages[p])
        /\ OrdersShown(read.pages, run.known, Len(broker.orders))
    BY <1>0, <1>2, <1>6 DEF PagesRight
  <2>3. PageRight("orders", page) /\ OrdersShown(new, run.known, Len(broker.orders))
    BY <1>1, <1>2, <1>3, <1>6, <2>1, <2>2, OrdersAnswered
  <2> HIDE DEF new
  <2>4. PagesRight(r, new, Seen)
    BY <1>0, <1>5, <1>6, <2>3 DEF PagesRight
  <2> QED
    BY <2>4 DEF new, page, read
<1>7. CASE r = "fills"
  <2>1. /\ \A p \in 1 .. Len(read.pages) : PageRight("fills", read.pages[p])
        /\ FillsShown(read.pages, Window, Len(broker.fills))
    BY <1>0, <1>2, <1>7 DEF PagesRight
  <2>2. flaw \in {"none", "ignored"}
    BY <1>7
  <2>3. PageRight("fills", page) /\ FillsShown(new, Window, Len(broker.fills))
    BY <1>1, <1>2, <1>3, <1>7, <2>1, <2>2, FillsAnswered
  <2> HIDE DEF new
  <2>4. PagesRight(r, new, Seen)
    BY <1>0, <1>5, <1>7, <2>3 DEF PagesRight
  <2> QED
    BY <2>4 DEF new, page, read
<1>8. CASE r \notin {"orders", "fills"}
  BY <1>8 DEF PagesRight
<1> QED
  BY <1>6, <1>7, <1>8

\* Nothing that the pages are held against changes.
SameHistory ==
  /\ run'.known = run.known /\ run'.start = run.start
  /\ broker' = broker /\ snaps' = snaps

\* What a capture has to show depends on its cutover and the account only.
LEMMA SeenKept ==
  ASSUME SameHistory
  PROVE  Seen' = Seen /\ Window' = Window
<1>1. WindowStart' = WindowStart
  BY DEF SameHistory, WindowStart
<1>2. Window' = Window
  BY <1>1 DEF SameHistory, Window, InWindow
<1> QED
  BY <1>2 DEF SameHistory, Seen

\* The reads that a page or a receipt may change.
LEMMA AnswerWhole ==
  ASSUME CInv, PagesWhole, NEW a \in Attempts, NEW r \in Resources, Answer(a, r)
  PROVE  PagesWhole' /\ SameHistory
<1>1. faults \in Nat
  BY BoundFacts DEF CInv
<1>2. PICK flaw \in {"none", "ignored", "unknown"}, slow \in BOOLEAN : \E pages :
         /\ flaw = "ignored" => r \in {"orders", "fills"}
         /\ flaw = "unknown" => r = "orders" /\ broker.orders # <<>>
         /\ pages = Append(task[a][r].pages, AnsweredPage(r, task[a][r].pages, flaw))
         /\ IF slow THEN SettleTask(a, r, "recording", "none", pages) /\ UNCHANGED receipts
            ELSE ExaminePage(a, r, pages)
  BY <1>1, AnswerCases
<1>3. PICK pages :
         /\ pages = Append(task[a][r].pages, AnsweredPage(r, task[a][r].pages, flaw))
         /\ IF slow THEN SettleTask(a, r, "recording", "none", pages) /\ UNCHANGED receipts
            ELSE ExaminePage(a, r, pages)
  BY <1>2
<1>4. task[a][r].st = "fetching" /\ UNCHANGED <<broker, snaps>>
  BY <1>1, AnswerCases
<1>5. ReadRight(task[a][r])
  BY DEF CInv, AttemptRight, ReadsRight
<1>6. IsSeq(pages) /\ Len(pages) \in 1 .. MaxPages
  <2>1. IsSeq(task[a][r].pages) /\ Len(task[a][r].pages) \in 0 .. (MaxPages - 1)
    BY <1>4, <1>5 DEF ReadRight
  <2>2. IsSeq(pages) /\ Len(pages) = Len(task[a][r].pages) + 1
    BY <1>3, <2>1, AppendIsSeq
  <2> QED
    BY <2>1, <2>2, BoundFacts
<1>7. PagesRight(r, pages, Seen)
  BY <1>2, <1>3, <1>4, AnsweredPages
<1>8. /\ \A b \in Attempts, q \in Resources : ReadWhole(q, task'[b][q], Seen)
      /\ run'.known = run.known /\ run'.start = run.start
  <2>1. CASE slow
    <3> DEFINE read == [st |-> "recording", err |-> "none", pages |-> pages]
    <3>1. SettleTask(a, r, "recording", "none", pages)
      BY <1>3, <2>1
    <3>2. ReadRight(read)
      BY <1>6 DEF ReadRight
    <3>3. ReadWhole(r, read, Seen)
      BY <1>7 DEF ReadWhole, VerdictKept
    <3> QED
      BY <3>1, <3>2, <3>3, SettleWhole
  <2>2. CASE ~slow
    BY <1>3, <1>6, <1>7, <2>2, ExamineWhole
  <2> QED
    BY <2>1, <2>2
<1>9. SameHistory
  BY <1>4, <1>8 DEF SameHistory
<1>10. Seen' = Seen
  BY <1>9, SeenKept
<1> QED
  BY <1>8, <1>9, <1>10 DEF PagesWhole

\* Failing a read loses nothing of the other reads.
LEMMA FailsWhole ==
  ASSUME CInv, PagesWhole, NEW a \in Attempts, NEW r \in Resources, NEW err \in Causes,
         SettleTask(a, r, "failed", err, <<>>), UNCHANGED <<broker, snaps>>
  PROVE  PagesWhole' /\ SameHistory
<1>1. ReadRight(Failed(err)) /\ ReadWhole(r, Failed(err), Seen)
  BY FailedIsRight, EmptyWhole, FailedIsEmpty DEF PagesWhole
<1>2. /\ \A b \in Attempts, q \in Resources : ReadWhole(q, task'[b][q], Seen)
      /\ run'.known = run.known /\ run'.start = run.start
  BY <1>1, SettleWhole DEF Failed
<1>3. SameHistory
  BY <1>2 DEF SameHistory
<1>4. Seen' = Seen
  BY <1>3, SeenKept
<1> QED
  BY <1>2, <1>3, <1>4 DEF PagesWhole

\* A failed answer loses nothing of the other reads.
LEMMA AnswerFailsWhole ==
  ASSUME CInv, PagesWhole, NEW a \in Attempts, NEW r \in Resources, NEW class \in FailureClasses,
         AnswerFails(a, r, class)
  PROVE  PagesWhole' /\ SameHistory
<1>1. SettleTask(a, r, "failed", class, <<>>) /\ UNCHANGED <<broker, snaps>>
  BY DEF AnswerFails, UnchangedWorld
<1>2. class \in Causes
  BY BoundFacts DEF Causes
<1> QED
  BY <1>1, <1>2, FailsWhole

\* Recording a receipt loses nothing of what was read.
LEMMA RecordWhole ==
  ASSUME CInv, PagesWhole, NEW a \in Attempts, NEW r \in Resources, RecordReceipt(a, r)
  PROVE  PagesWhole' /\ SameHistory
<1> DEFINE pages == task[a][r].pages
<1>1. /\ task[a][r].st = "recording" /\ UNCHANGED <<broker, snaps>>
      /\ ExaminePage(a, r, pages) \/ SettleTask(a, r, "failed", "database", <<>>)
  BY DEF RecordReceipt, UnchangedWorld
<1>2. ReadRight(task[a][r]) /\ ReadWhole(r, task[a][r], Seen)
  BY DEF CInv, AttemptRight, ReadsRight, PagesWhole
<1>3. IsSeq(pages) /\ Len(pages) \in 1 .. MaxPages /\ PagesRight(r, pages, Seen)
  BY <1>1, <1>2 DEF ReadRight, ReadWhole
<1> HIDE DEF pages
<1>4. CASE ExaminePage(a, r, pages)
  <2>1. /\ \A b \in Attempts, q \in Resources : ReadWhole(q, task'[b][q], Seen)
        /\ run'.known = run.known /\ run'.start = run.start
    BY <1>3, <1>4, ExamineWhole
  <2>2. SameHistory
    BY <1>1, <2>1 DEF SameHistory
  <2>3. Seen' = Seen
    BY <2>2, SeenKept
  <2> QED
    BY <2>1, <2>2, <2>3 DEF PagesWhole
<1>5. CASE SettleTask(a, r, "failed", "database", <<>>)
  <2>1. "database" \in Causes
    BY DEF Causes
  <2> QED
    BY <1>1, <1>5, <2>1, FailsWhole
<1> QED
  BY <1>1, <1>4, <1>5

\* Reads that stay as they are or have nothing to show.
LEMMA AbortWhole ==
  ASSUME CInv, PagesWhole, SameHistory,
         \A b \in Attempts, q \in Resources :
           task'[b][q] = task[b][q] \/ (task'[b][q].pages = <<>> /\ task'[b][q].st # "done")
  PROVE  PagesWhole'
<1>1. Seen' = Seen
  BY SeenKept
<1>2. \A b \in Attempts, q \in Resources : ReadWhole(q, task'[b][q], Seen)
  BY EmptyWhole DEF PagesWhole
<1> QED
  BY <1>1, <1>2 DEF PagesWhole

\* No read has anything to show.
LEMMA FreshWhole ==
  ASSUME SeenRight(Seen'),
         \A b \in Attempts, q \in Resources : task'[b][q].pages = <<>> /\ task'[b][q].st # "done"
  PROVE  PagesWhole'
BY EmptyWhole DEF PagesWhole

-----------------------------------------------------------------------------
(* The account grows.                                                       *)

\* Orders and fills are added, and every new fill is of this moment.
Growth ==
  /\ UnchangedWorker /\ now <= now' /\ now' \in Nat
  /\ Len(broker.orders) <= Len(broker'.orders) /\ Len(broker.fills) <= Len(broker'.fills)
  /\ Len(broker'.orders) \in Nat /\ Len(broker'.fills) \in Nat
  /\ DOMAIN broker'.fills = 1 .. Len(broker'.fills)
  /\ \A k \in 1 .. Len(broker.fills) : broker'.fills[k] = broker.fills[k]
  /\ \A k \in 1 .. Len(broker'.fills) :
       k \notin 1 .. Len(broker.fills) => broker'.fills[k].at = now

\* The account only grows: orders and fills are appended and time passes.
LEMMA GrowthCases ==
  ASSUME CInv, \/ PlaceOrder \/ ClockTick \/ \E i : FillOrder(i) \/ CancelOrder(i)
  PROVE  Growth
<1>1. /\ IsAccount(broker) /\ now \in Nat
      /\ Len(broker.orders) \in Nat /\ DOMAIN broker.orders = 1 .. Len(broker.orders)
      /\ Len(broker.fills) \in Nat /\ DOMAIN broker.fills = 1 .. Len(broker.fills)
  BY BrokerFacts, BoundFacts DEF CInv
<1>2. CASE PlaceOrder
  <2>1. PICK s \in Structures, side \in {"buy", "sell"}, q \in OrderQty :
          broker' = [broker EXCEPT !.orders =
            Append(@, [structure |-> s, side |-> side, qty |-> q, canceled |-> FALSE])]
    BY <1>2 DEF PlaceOrder
  <2> DEFINE o == [structure |-> s, side |-> side, qty |-> q, canceled |-> FALSE]
  <2>2. o \in OrderRow /\ ~o.canceled
    BY AccountsAssumption, BoundsAssumption DEF OrderRow
  <2>3. broker' = [broker EXCEPT !.orders = Append(@, o)]
    BY <2>1
  <2> HIDE DEF o
  <2>4. IsAccount(broker') /\ broker'.fills = broker.fills /\ Len(broker'.orders) = Len(broker.orders) + 1
    BY <1>1, <2>2, <2>3, PlaceKeepsAccount
  <2>5. now' = now /\ UnchangedWorker
    BY <1>2 DEF PlaceOrder
  <2> QED
    BY <1>1, <2>4, <2>5 DEF Growth
<1>3. CASE ClockTick
  <2>1. broker' = broker /\ now' = now + 1 /\ UnchangedWorker
    BY <1>3 DEF ClockTick
  <2> QED
    BY <1>1, <2>1 DEF Growth
<1>4. ASSUME NEW i, FillOrder(i) PROVE Growth
  <2> DEFINE f == [order |-> i, at |-> now, cum |-> FilledIn(broker, i) + 1]
  <2>1. /\ i \in DOMAIN broker.orders /\ Status(i) \in {"new", "partially_filled"}
        /\ broker' = [broker EXCEPT !.fills = Append(@, f)]
        /\ now' = now /\ UnchangedWorker
    BY <1>4 DEF FillOrder, Filled
  <2>2. /\ FilledIn(broker, i) # broker.orders[i].qty /\ ~broker.orders[i].canceled
        /\ i \in 1 .. Len(broker.orders)
    BY <2>1, CanTrade
  <2>3. f = [order |-> i, at |-> now, cum |-> FilledIn(broker, i) + 1] /\ f.at = now /\ now \in Int
    BY <1>1
  <2> HIDE DEF f
  <2>4. /\ IsAccount(broker') /\ broker'.orders = broker.orders
        /\ Len(broker'.fills) = Len(broker.fills) + 1
        /\ \A k \in 1 .. Len(broker.fills) : broker'.fills[k] = broker.fills[k]
        /\ broker'.fills[Len(broker.fills) + 1] = f
    BY <1>1, <2>1, <2>2, <2>3, FillKeepsAccount
  <2>5. DOMAIN broker'.fills = 1 .. Len(broker'.fills)
    BY <2>4, AccountFacts
  <2>6. \A k \in 1 .. (Len(broker.fills) + 1) :
          k \notin 1 .. Len(broker.fills) => k = Len(broker.fills) + 1
    BY <1>1
  <2> QED
    BY <1>1, <2>1, <2>3, <2>4, <2>5, <2>6 DEF Growth
<1>5. ASSUME NEW i, CancelOrder(i) PROVE Growth
  <2>1. /\ i \in DOMAIN broker.orders /\ Status(i) \in {"new", "partially_filled"}
        /\ broker' = [broker EXCEPT !.orders[i].canceled = TRUE]
        /\ now' = now /\ UnchangedWorker
    BY <1>5 DEF CancelOrder
  <2>2. FilledIn(broker, i) # broker.orders[i].qty /\ i \in 1 .. Len(broker.orders)
    BY <2>1, CanTrade
  <2>3. broker'.fills = broker.fills /\ Len(broker'.orders) = Len(broker.orders)
    BY <1>1, <2>1, <2>2, CancelKeepsAccount
  <2> QED
    BY <1>1, <2>1, <2>3 DEF Growth
<1> QED
  BY <1>2, <1>3, <1>4, <1>5

\* New fills are in no window that has begun.
LEMMA GrowthWindow ==
  ASSUME CInv, Growth
  PROVE  Window' = Window
<1>1. /\ Len(broker.fills) \in Nat /\ DOMAIN broker.fills = 1 .. Len(broker.fills)
      /\ now \in Nat /\ run.start \in Nat /\ run.start <= now
  BY BrokerFacts, BoundFacts DEF CInv, RunState
<1>2. WindowStart' = WindowStart /\ run' = run
  BY DEF Growth, UnchangedWorker, WindowStart
<1>3. \A k \in 1 .. Len(broker.fills) : InWindow(k)' <=> InWindow(k)
  BY <1>2 DEF Growth, InWindow
<1>4. \A k \in 1 .. Len(broker'.fills) : k \notin 1 .. Len(broker.fills) => ~(InWindow(k)')
  BY <1>1, <1>2 DEF Growth, InWindow
<1>5. \A k \in 1 .. Len(broker.fills) : k \in 1 .. Len(broker'.fills)
  BY <1>1 DEF Growth
<1> DEFINE In(k) == InWindow(k)
           Next1(k) == InWindow(k)'
<1>6. Window = {k \in 1 .. Len(broker.fills) : In(k)}
  BY <1>1 DEF Window
<1>7. Window' = {k \in 1 .. Len(broker'.fills) : Next1(k)}
  BY DEF Window, Growth
<1>8. /\ \A k \in 1 .. Len(broker.fills) : Next1(k) <=> In(k)
      /\ \A k \in 1 .. Len(broker'.fills) : k \notin 1 .. Len(broker.fills) => ~Next1(k)
  BY <1>3, <1>4
<1> HIDE DEF In, Next1
<1> QED
  BY <1>5, <1>6, <1>7, <1>8

\* An account that grows during the reads leaves what they showed whole.
LEMMA GrowthWhole ==
  ASSUME CInv, PagesWhole, Growth
  PROVE  PagesWhole'
<1>1. Window' = Window /\ run' = run /\ task' = task
  BY GrowthWindow DEF Growth, UnchangedWorker
<1> DEFINE seen == Seen
           next == Seen'
<1>2. /\ next.known = seen.known /\ next.window = seen.window
      /\ seen.orders <= next.orders /\ seen.fills <= next.fills
      /\ next.orders \in Nat /\ next.fills \in Nat
  BY <1>1 DEF Seen, Growth
<1>3. SeenRight(seen)
  BY DEF PagesWhole
<1> HIDE DEF seen, next
<1>4. SeenRight(next)
  BY <1>2, <1>3 DEF SeenRight
<1>5. ASSUME NEW r \in Resources, NEW read, ReadWhole(r, read, seen)
      PROVE  ReadWhole(r, read, next)
  <2>1. OrdersShown(read.pages, seen.known, seen.orders) => OrdersShown(read.pages, next.known, next.orders)
    <3>1. \A m \in 0 .. seen.orders : m \in 0 .. next.orders
      BY <1>2, <1>3 DEF SeenRight
    <3> QED
      BY <1>2, <3>1 DEF OrdersShown
  <2>2. FillsShown(read.pages, seen.window, seen.fills) => FillsShown(read.pages, next.window, next.fills)
    <3>1. \A m \in 0 .. seen.fills : m \in 0 .. next.fills
      BY <1>2, <1>3 DEF SeenRight
    <3>2. 1 .. seen.fills \subseteq 1 .. next.fills
      BY <1>2, <1>3 DEF SeenRight
    <3>3. \A m : FillsUptoCursor(read.pages, m, seen.window, seen.fills)
                   => FillsUptoCursor(read.pages, m, next.window, next.fills)
      BY <1>2, <3>2 DEF FillsUptoCursor
    <3> QED
      BY <3>1, <3>3 DEF FillsShown
  <2> QED
    BY <1>5, <2>1, <2>2 DEF ReadWhole, PagesRight
<1>6. \A a \in Attempts, r \in Resources : ReadWhole(r, task[a][r], next)
  BY <1>5 DEF PagesWhole, seen
<1> QED
  BY <1>1, <1>4, <1>6 DEF PagesWhole, next

-----------------------------------------------------------------------------
(* What is captured.                                                        *)

\* The items of all pages.
PageItems(pages) == FlattenSeq([p \in DOMAIN pages |-> pages[p].items])

\* The items of a read that has ended.
LEMMA ItemsRules ==
  ASSUME NEW r \in {"orders", "fills"}, NEW pages, IsSeq(pages),
         \A p \in 1 .. Len(pages) : PageRight(r, pages[p]),
         NEW items, items = PageItems(pages)
  PROVE  /\ IsSeq(items)
         /\ \A e \in ToSet(items) : IF r = "orders" THEN OrderItem(e) ELSE FillItem(e)
         /\ \A p \in 1 .. Len(pages) : \A j : j \in DOMAIN pages[p].items => pages[p].items[j] \in ToSet(items)
         /\ \A e \in ToSet(items) : e.id[1] \in Shown(pages)
         /\ \A k \in Shown(pages) : \E e \in ToSet(items) : e.id[1] = k
<1> DEFINE n == Len(pages)
           seqs == [p \in 1 .. n |-> pages[p].items]
<1>1. n \in Nat /\ DOMAIN pages = 1 .. n
  BY SeqDomain
<1>2. items = FlattenSeq(seqs)
  BY <1>1 DEF PageItems
<1>3. seqs = [p \in 1 .. n |-> seqs[p]] /\ \A p \in 1 .. n : seqs[p] = pages[p].items
  OBVIOUS
<1> HIDE DEF seqs, n
<1>4. IsSeq(seqs) /\ Len(seqs) = n
  BY <1>1, <1>3, MadeIsSeq
<1>5. \A p \in 1 .. n : IsSeq(pages[p].items)
  BY DEF PageRight, n
<1>6. IsSeq(items) /\ ToSet(items) = AllItems(seqs)
  BY <1>2, <1>3, <1>4, <1>5, NestedRules
<1>7. \A e : e \in ToSet(items) <=> \E p \in 1 .. n : e \in ToSet(pages[p].items)
  BY <1>3, <1>4, <1>6 DEF AllItems
<1>8. \A p \in 1 .. n : \A j : j \in DOMAIN pages[p].items => pages[p].items[j] \in ToSet(items)
  BY <1>7 DEF ToSet
<1>9. \A e \in ToSet(items) : \E p \in 1 .. n : \E j \in DOMAIN pages[p].items : e = pages[p].items[j]
  BY <1>7 DEF ToSet
<1>10. \A e \in ToSet(items) : IF r = "orders" THEN OrderItem(e) ELSE FillItem(e)
  BY <1>9 DEF PageRight, n
<1>11. \A e \in ToSet(items) : e.id[1] \in Shown(pages)
  BY <1>1, <1>9 DEF Shown, NumbersOf
<1>12. \A k \in Shown(pages) : \E e \in ToSet(items) : e.id[1] = k
  BY <1>1, <1>8 DEF Shown, NumbersOf
<1> QED
  BY <1>6, <1>8, <1>10, <1>11, <1>12 DEF n

\* A part of an order, as FlattenOrders makes it.
PartOf(raw, role, mleg) ==
  [id |-> raw.id, asset |-> raw.asset, class |-> raw.class, side |-> raw.side,
   legs |-> raw.legs, status |-> raw.status, qty |-> raw.qty, filled |-> raw.filled,
   role |-> role, mleg |-> mleg]

\* An order and its legs.
PartsOf(raw) ==
  <<PartOf(raw, "parent", raw.structure = "mleg")>> \o
    [i \in DOMAIN raw.legs |-> PartOf(raw.legs[i], "leg", raw.structure = "mleg")]

\* An order and its legs bear one number.
LEMMA PartsRules ==
  ASSUME NEW raw, OrderItem(raw)
  PROVE  /\ IsSeq(PartsOf(raw))
         /\ \A o \in ToSet(PartsOf(raw)) : o.id[1] = raw.id[1]
         /\ \E o \in ToSet(PartsOf(raw)) : o.id[1] = raw.id[1] /\ o.status = raw.status
<1> DEFINE mleg == raw.structure = "mleg"
           parent == PartOf(raw, "parent", mleg)
           one == <<parent>>
           n == Len(raw.legs)
           legs == [i \in 1 .. n |-> PartOf(raw.legs[i], "leg", mleg)]
           S == ToSet(one) \cup ToSet(legs)
           both == one \o legs
<1>1. n \in Nat /\ DOMAIN raw.legs = 1 .. n
  BY SeqDomain DEF OrderItem
<1>2. PartsOf(raw) = both
  BY <1>1 DEF PartsOf
<1>3. parent.id = raw.id /\ parent.status = raw.status
  BY DEF PartOf
<1>4. \A i \in 1 .. n : legs[i].id[1] = raw.id[1]
  <2>1. TAKE i \in 1 .. n
  <2>2. legs[i].id = raw.legs[i].id
    BY DEF PartOf
  <2>3. raw.legs[i].id = <<raw.id[1], "leg">>
    BY <1>1 DEF OrderItem
  <2> HIDE DEF legs
  <2> QED
    BY <2>2, <2>3
<1>5. legs = [i \in 1 .. n |-> legs[i]]
  OBVIOUS
<1> HIDE DEF parent, legs, n
<1>6. IsSeq(legs) /\ Len(legs) = n /\ DOMAIN legs = 1 .. n
  BY <1>1, <1>5, MadeIsSeq
<1>7. IsSeq(one) /\ ToSet(one) = {parent}
  <2>1. one \in Seq({parent}) /\ DOMAIN one = {1} /\ one[1] = parent
    OBVIOUS
  <2> QED
    BY <2>1, SeqIsSeq DEF ToSet
<1> HIDE DEF one
<1>8. one \in Seq(S) /\ legs \in Seq(S)
  <2>1. ToSet(one) \subseteq S /\ ToSet(legs) \subseteq S
    OBVIOUS
  <2> HIDE DEF S
  <2> QED
    BY <1>6, <1>7, <2>1, SeqOfMore
<1> HIDE DEF S
<1>9. both \in Seq(S) /\ ToSet(both) = ToSet(one) \cup ToSet(legs)
  BY <1>8, ConcatRules
<1> HIDE DEF both
<1>10. IsSeq(both)
  BY <1>9, SeqIsSeq
<1>11. \A o \in ToSet(legs) : o.id[1] = raw.id[1]
  BY <1>4, <1>6 DEF ToSet
<1>12. \A o \in ToSet(both) : o.id[1] = raw.id[1]
  BY <1>3, <1>7, <1>9, <1>11
<1>13. parent \in ToSet(both)
  BY <1>7, <1>9
<1> QED
  BY <1>2, <1>3, <1>10, <1>12, <1>13

\* Flattening the orders and their legs keeps the number of every order and the
\* status of every raw order.
LEMMA FlattenOrdersRules ==
  ASSUME NEW raws, IsSeq(raws), \A raw \in ToSet(raws) : OrderItem(raw)
  PROVE  /\ IsSeq(FlattenOrders(raws))
         /\ \A o \in ToSet(FlattenOrders(raws)) : \E raw \in ToSet(raws) : o.id[1] = raw.id[1]
         /\ \A raw \in ToSet(raws) :
              \E o \in ToSet(FlattenOrders(raws)) : o.id[1] = raw.id[1] /\ o.status = raw.status
<1> DEFINE n == Len(raws)
           seqs == [i \in 1 .. n |-> PartsOf(raws[i])]
<1>1. /\ n \in Nat /\ DOMAIN raws = 1 .. n
      /\ \A j \in 1 .. n : raws[j] \in ToSet(raws)
      /\ \A e \in ToSet(raws) : \E j \in 1 .. n : e = raws[j]
  BY SeqDomain
<1>2. FlattenOrders(raws) = FlattenSeq(seqs)
  BY <1>1 DEF FlattenOrders, PartsOf, PartOf
<1>3. seqs = [i \in 1 .. n |-> seqs[i]] /\ \A i \in 1 .. n : seqs[i] = PartsOf(raws[i])
  OBVIOUS
<1> HIDE DEF seqs, n
<1>4. IsSeq(seqs) /\ Len(seqs) = n
  BY <1>1, <1>3, MadeIsSeq
<1>5. \A i \in 1 .. n :
        /\ IsSeq(seqs[i])
        /\ \A o \in ToSet(seqs[i]) : o.id[1] = raws[i].id[1]
        /\ \E o \in ToSet(seqs[i]) : o.id[1] = raws[i].id[1] /\ o.status = raws[i].status
  BY <1>1, <1>3, PartsRules
<1>6. IsSeq(FlattenSeq(seqs)) /\ ToSet(FlattenSeq(seqs)) = AllItems(seqs)
  BY <1>4, <1>5, NestedRules
<1>7. \A o : o \in AllItems(seqs) <=> \E i \in 1 .. n : o \in ToSet(seqs[i])
  BY <1>4 DEF AllItems
<1>8. \A o \in AllItems(seqs) : \E raw \in ToSet(raws) : o.id[1] = raw.id[1]
  BY <1>1, <1>5, <1>7
<1>9. \A raw \in ToSet(raws) : \E o \in AllItems(seqs) : o.id[1] = raw.id[1] /\ o.status = raw.status
  BY <1>1, <1>5, <1>7
<1> QED
  BY <1>2, <1>6, <1>8, <1>9

\* The numbers of the orders of a snapshot.
OrderNumbers(orders) == {o.id[1] : o \in orders}

\* What a capture that is accepted has kept of its pages.
LEMMA NormalizedRules ==
  ASSUME NEW raw, Consistent(raw),
         NEW flat, flat = ToSet(FlattenOrders(raw.orders))
  PROVE  /\ OrderNumbers(Normalized(raw).orders) = OrderNumbers(flat)
         /\ \A o \in flat : o.status # "odd"
         /\ \A f \in ToSet(raw.fills) : \E g \in Normalized(raw).fills : g.id = f.id
         /\ Normalized(raw).cutover = raw.start
<1> DEFINE positions == NormalizePositions(raw)
           orders == FlattenOrders(raw.orders)
           currency == raw.account.currency
           linked(f) == Linked(f, orders)
           kept == {NormalizeOrder(o, positions, currency) : o \in flat}
           fills == {NormalizeFill(f, linked(f), positions, currency) : f \in ToSet(raw.fills)}
           x == Normalized(raw)
<1>1. /\ \A o \in flat : OrderIsConsistent(o, positions)
      /\ x.orders = kept /\ x.fills = fills /\ x.cutover = raw.start
  <2>1. Normalized(raw) = NormalizeCapture(raw, positions, orders)
    BY DEF Normalized
  <2>2. CaptureIsConsistent(raw, positions, orders)
    BY DEF Consistent
  <2> HIDE DEF positions
  <2> QED
    BY <2>1, <2>2 DEF NormalizeCapture, CaptureIsConsistent
<1>2. \A o : NormalizeOrder(o, positions, currency).id = o.id
  <2> HIDE DEF positions, currency
  <2> QED
    BY DEF NormalizeOrder
<1>3. \A f : NormalizeFill(f, linked(f), positions, currency).id = f.id
  <2> HIDE DEF positions, currency, orders
  <2>1. \A f, l : NormalizeFill(f, l, positions, currency).id = f.id
    BY DEF NormalizeFill
  <2> HIDE DEF linked
  <2> QED
    BY <2>1
<1>4. OrderNumbers(kept) = OrderNumbers(flat)
  <2> DEFINE N(o) == NormalizeOrder(o, positions, currency)
  <2>1. kept = {N(o) : o \in flat} /\ \A o : N(o).id = o.id
    BY <1>2
  <2> HIDE DEF N, kept
  <2> QED
    BY <2>1 DEF OrderNumbers
<1>5. \A f \in ToSet(raw.fills) : \E g \in fills : g.id = f.id
  <2> DEFINE N(f) == NormalizeFill(f, linked(f), positions, currency)
  <2>1. fills = {N(f) : f \in ToSet(raw.fills)} /\ \A f : N(f).id = f.id
    BY <1>3
  <2> HIDE DEF N, fills
  <2> QED
    BY <2>1
<1>6. \A o \in flat : o.status # "odd"
  <2>1. "odd" \notin OpenStatus \cup TerminalStatus \cup {"calculated"}
    BY DEF OpenStatus, TerminalStatus
  <2> HIDE DEF positions
  <2> QED
    BY <1>1, <2>1 DEF OrderIsConsistent
<1> HIDE DEF kept, fills
<1> QED
  BY <1>1, <1>4, <1>5, <1>6

\* A read of the orders or the fills that has ended well.
LEMMA DoneRules ==
  ASSUME NEW r \in {"orders", "fills"}, NEW read, ReadRight(read), VerdictKept(r, read), read.st = "done",
         \A p \in 1 .. Len(read.pages) : PageRight(r, read.pages[p])
  PROVE  /\ IsSeq(read.pages) /\ read.pages # <<>> /\ ~IsMalformed(r, read.pages)
         /\ Len(Last(read.pages).items) < PageSize
<1>1. IsSeq(read.pages) /\ Len(read.pages) \in 1 .. MaxPages
  BY DEF ReadRight
<1>2. read.pages # <<>> /\ Len(read.pages) \in 1 .. Len(read.pages)
  BY <1>1, SeqDomain
<1>3. PageVerdict(r, read.pages) = "done"
  BY DEF VerdictKept
<1>4. ~IsMalformed(r, read.pages)
  BY <1>3 DEF IsMalformed
<1>5. Len(Last(read.pages).items) < PageSize
  BY <1>3 DEF PageVerdict
<1> QED
  BY <1>1, <1>2, <1>4, <1>5

\* The orders without a gap, and the fills of the window.
WholeCapture(snapshot) ==
  /\ \E m \in Nat : run.known <= m /\ OrderNumbers(snapshot.orders) = 1 .. m
  /\ \A k \in Window : \E f \in snapshot.fills : f.id[1] = k
  /\ snapshot.cutover = run.start

\* What is about to be stored is whole.
CapturedWhole == run.pc = "store" => WholeCapture(captured)

\* What settled reads are normalized to is a whole capture, unless it is
\* rejected.
LEMMA CaptureRules ==
  ASSUME CInv, PagesWhole, run.pc = "collect",
         \A r \in Resources : task[run.attempt][r].st = "done",
         Consistent(Capture)
  PROVE  WholeCapture(Normalized(Capture))
<1> DEFINE raw == Capture
           snapshot == Normalized(raw)
           reads == task[run.attempt]
           orders == reads["orders"].pages
           fills == reads["fills"].pages
           flat == ToSet(FlattenOrders(raw.orders))
<1>1. run.attempt \in Attempts
  BY DEF CInv, AttemptRight, PhaseRight
<1>2. \A r \in Resources : ReadRight(reads[r]) /\ ReadWhole(r, reads[r], Seen) /\ reads[r].st = "done"
  BY <1>1 DEF CInv, AttemptRight, ReadsRight, PagesWhole
<1>3. "orders" \in Resources /\ "fills" \in Resources
  BY DEF Resources, Collections
<1>4. raw.orders = PageItems(orders) /\ raw.fills = PageItems(fills) /\ raw.start = run.start
  BY Zenon DEF Capture, Items, CurrentTask, PageItems
<1> HIDE DEF raw, reads
<1>5. Seen.known = run.known /\ Seen.orders = Len(broker.orders) /\ Seen.fills = Len(broker.fills)
      /\ Seen.window = Window
  BY DEF Seen
<1>6. /\ \A p \in 1 .. Len(orders) : PageRight("orders", orders[p])
      /\ OrdersShown(orders, run.known, Len(broker.orders))
      /\ VerdictKept("orders", reads["orders"])
  BY <1>2, <1>3, <1>5 DEF ReadWhole, PagesRight
<1>7. /\ \A p \in 1 .. Len(fills) : PageRight("fills", fills[p])
      /\ FillsShown(fills, Window, Len(broker.fills))
      /\ VerdictKept("fills", reads["fills"])
  BY <1>2, <1>3, <1>5 DEF ReadWhole, PagesRight
<1>8. /\ IsSeq(orders) /\ orders # <<>> /\ ~IsMalformed("orders", orders)
      /\ Len(Last(orders).items) < PageSize
  BY <1>2, <1>3, <1>6, DoneRules
<1>9. /\ IsSeq(fills) /\ fills # <<>> /\ ~IsMalformed("fills", fills)
      /\ Len(Last(fills).items) < PageSize
  BY <1>2, <1>3, <1>7, DoneRules
<1> HIDE DEF orders, fills
<1>10. /\ IsSeq(raw.orders)
       /\ \A e \in ToSet(raw.orders) : OrderItem(e)
       /\ \A p \in 1 .. Len(orders) : \A j : j \in DOMAIN orders[p].items => orders[p].items[j] \in ToSet(raw.orders)
       /\ \A e \in ToSet(raw.orders) : e.id[1] \in Shown(orders)
       /\ \A k \in Shown(orders) : \E e \in ToSet(raw.orders) : e.id[1] = k
  BY <1>4, <1>6, <1>8, ItemsRules
<1>11. \A k \in Shown(fills) : \E e \in ToSet(raw.fills) : e.id[1] = k
  BY <1>4, <1>7, <1>9, ItemsRules
<1>12. /\ \A o \in flat : \E e \in ToSet(raw.orders) : o.id[1] = e.id[1]
       /\ \A e \in ToSet(raw.orders) : \E o \in flat : o.id[1] = e.id[1] /\ o.status = e.status
  BY <1>10, FlattenOrdersRules
<1>13. flat = ToSet(FlattenOrders(raw.orders)) /\ snapshot = Normalized(raw) /\ Consistent(raw)
  BY DEF raw
<1> HIDE DEF flat, snapshot
<1>14. /\ OrderNumbers(snapshot.orders) = OrderNumbers(flat)
       /\ \A o \in flat : o.status # "odd"
       /\ \A f \in ToSet(raw.fills) : \E g \in snapshot.fills : g.id = f.id
       /\ snapshot.cutover = raw.start
  BY <1>13, NormalizedRules
<1>15. ~Odd(orders)
  <2>1. SUFFICES ASSUME Odd(orders) PROVE FALSE
    OBVIOUS
  <2>2. PICK p \in DOMAIN orders : \E j \in DOMAIN orders[p].items : orders[p].items[j].status = "odd"
    BY <2>1 DEF Odd
  <2>3. p \in 1 .. Len(orders)
    BY <1>8, SeqDomain
  <2>4. \E e \in ToSet(raw.orders) : e.status = "odd"
    BY <1>10, <2>2, <2>3
  <2> QED
    BY <1>12, <1>14, <2>4
<1>16. PICK m \in 0 .. Len(broker.orders) : OrdersUpto(orders, m, run.known)
  BY <1>6, <1>8, <1>15 DEF OrdersShown
<1>17. Shown(orders) = 1 .. m /\ run.known <= m
  BY <1>8, <1>16 DEF OrdersUpto
<1>18. OrderNumbers(flat) = Shown(orders)
  BY <1>10, <1>12 DEF OrderNumbers
<1>19. m \in Nat
  BY <1>16, BrokerFacts
<1>20. \E y \in Nat : run.known <= y /\ OrderNumbers(snapshot.orders) = 1 .. y
  BY <1>14, <1>17, <1>18, <1>19
<1>21. PICK z \in 0 .. Len(broker.fills) : FillsUptoCursor(fills, z, Window, Len(broker.fills))
  BY <1>7, <1>9 DEF FillsShown
<1>22. Window \subseteq Shown(fills)
  BY <1>9, <1>21 DEF FillsUptoCursor
<1>23. \A k \in Window : \E f \in snapshot.fills : f.id[1] = k
  <2>1. TAKE k \in Window
  <2>2. PICK e \in ToSet(raw.fills) : e.id[1] = k
    BY <1>11, <1>22
  <2>3. PICK g \in snapshot.fills : g.id = e.id
    BY <1>14
  <2>4. g.id[1] = k
    BY <2>2, <2>3
  <2> QED
    BY <2>4
<1>24. WholeCapture(snapshot)
  BY <1>4, <1>14, <1>20, <1>23 DEF WholeCapture
<1> QED
  BY <1>24 DEF snapshot, raw

-----------------------------------------------------------------------------
(* What is promoted.                                                        *)

\* A snapshot has the orders 1 to m and all that were known.
SnapWhole(snap) ==
  /\ \E m \in Nat : snap.history.known <= m /\ OrderNumbers(snap.observed.orders) = 1 .. m
  /\ snap.observed.cutover \in Nat

\* So have all snapshots, and together they have every fill.
SnapsWhole ==
  /\ \A i \in 1 .. Len(snaps) : SnapWhole(snaps[i]) /\ snaps[i].observed.cutover <= now
  /\ FillsAreContiguous

\* The invariant behind CaptureIsWhole.
WInv == CInv /\ PagesWhole /\ CapturedWhole /\ SnapsWhole

\* The types that the properties of snapshots need.
LEMMA SnapFacts ==
  ASSUME CInv
  PROVE  /\ IsSeq(snaps) /\ Len(snaps) \in Nat /\ (snaps = <<>> <=> Len(snaps) = 0)
         /\ now \in Nat /\ run.start \in Nat /\ run.start <= now
         /\ \A k \in DOMAIN broker.fills : broker.fills[k].at \in Int
<1>1. IsSeq(snaps) /\ Len(snaps) \in Nat /\ (snaps = <<>> <=> Len(snaps) = 0)
  BY SeqDomain DEF CInv, SnapsRight
<1>2. now \in Nat /\ run.start \in Nat /\ run.start <= now
  BY BoundFacts DEF CInv, RunState
<1>3. \A k \in DOMAIN broker.fills : broker.fills[k].at \in Int
  BY BrokerFacts, AccountFacts
<1> QED
  BY <1>1, <1>2, <1>3

\* A fill that is new is of no window that was promoted.
LEMMA GrowthSnaps ==
  ASSUME CInv, Growth, SnapsWhole
  PROVE  SnapsWhole'
<1>1. snaps' = snaps /\ now <= now' /\ now' \in Int /\ now \in Nat
  <2>1. snaps' = snaps /\ now <= now' /\ now \in Nat
    BY SnapFacts DEF Growth, UnchangedWorker
  <2>2. now' \in Int
    BY DEF Growth
  <2> QED
    BY <2>1, <2>2
<1>2. \A i \in 1 .. Len(snaps') : SnapWhole(snaps'[i]) /\ snaps'[i].observed.cutover <= now'
  BY <1>1 DEF SnapsWhole, SnapWhole
<1>3. ASSUME snaps # <<>>, NEW k \in DOMAIN broker'.fills,
             broker'.fills[k].at \in snaps[1].observed.cutover .. (Last(snaps).observed.cutover - 1)
      PROVE  \E s \in ToSet(snaps) : \E f \in s.observed.fills : f.id[1] = k
  <2>1. Last(snaps).observed.cutover \in Nat /\ Last(snaps).observed.cutover <= now
    <3>1. Len(snaps) \in 1 .. Len(snaps)
      BY <1>3, SnapFacts
    <3> QED
      BY <3>1 DEF SnapsWhole, SnapWhole, Last
  <2>2. broker'.fills[k].at # now
    BY <1>1, <1>3, <2>1
  <2>3. k \in 1 .. Len(broker.fills)
    BY <1>3, <2>2 DEF Growth
  <2>4. k \in DOMAIN broker.fills /\ broker'.fills[k] = broker.fills[k]
    BY <2>3, BrokerFacts DEF Growth
  <2> QED
    BY <1>3, <2>4 DEF SnapsWhole, FillsAreContiguous
<1>4. FillsAreContiguous'
  BY <1>1, <1>3 DEF FillsAreContiguous
<1> QED
  BY <1>2, <1>4 DEF SnapsWhole

\* The invariant survives the growth of the account.
LEMMA GrowthStep ==
  ASSUME WInv, Growth
  PROVE  PagesWhole' /\ CapturedWhole' /\ SnapsWhole'
<1>1. PagesWhole' /\ SnapsWhole'
  BY GrowthWhole, GrowthSnaps DEF WInv
<1>2. Window' = Window /\ run' = run /\ captured' = captured
  BY GrowthWindow DEF WInv, Growth, UnchangedWorker
<1>3. CapturedWhole'
  BY <1>2 DEF WInv, CapturedWhole, WholeCapture
<1> QED
  BY <1>1, <1>3

\* Snapshots stay whole while account and time do.
LEMMA SameSnaps ==
  ASSUME SnapsWhole, UNCHANGED <<snaps, broker, now>>
  PROVE  SnapsWhole'
BY DEF SnapsWhole, FillsAreContiguous

\* The snapshot that is promoted goes on where the last one ended.
LEMMA PromotedSnaps ==
  ASSUME WInv, run.pc = "store", UNCHANGED <<broker, now>>,
         NEW projection, snaps' = Append(snaps, SnapshotRow(projection))
  PROVE  SnapsWhole'
<1> DEFINE row == SnapshotRow(projection)
           n == Len(snaps)
<1>1. /\ row.observed.orders = captured.orders /\ row.observed.fills = captured.fills
      /\ row.observed.cutover = captured.cutover /\ row.history.known = run.known
  BY DEF SnapshotRow, ObservationRows
<1> HIDE DEF row
<1>2. WholeCapture(captured)
  BY DEF WInv, CapturedWhole
<1>3. /\ IsSeq(snaps) /\ n \in Nat /\ (snaps = <<>> <=> n = 0)
      /\ now \in Nat /\ run.start \in Nat /\ run.start <= now
      /\ \A k \in DOMAIN broker.fills : broker.fills[k].at \in Int
  BY SnapFacts DEF WInv
<1>4. SnapWhole(row) /\ row.observed.cutover = run.start /\ row.observed.cutover <= now
  BY <1>1, <1>2, <1>3 DEF SnapWhole, WholeCapture
<1>5. /\ Len(snaps') = n + 1 /\ DOMAIN snaps' = 1 .. (n + 1) /\ DOMAIN snaps = 1 .. n
      /\ \A i \in 1 .. n : snaps'[i] = snaps[i]
      /\ snaps'[n + 1] = row
  BY <1>3, AppendIsSeq DEF row
<1>6. \A i \in 1 .. n : SnapWhole(snaps[i]) /\ snaps[i].observed.cutover <= now
  BY DEF WInv, SnapsWhole
<1> HIDE DEF n
<1>7. \A i \in 1 .. (n + 1) : i \in 1 .. n \/ i = n + 1
  BY <1>3
<1>8. \A i \in 1 .. Len(snaps') : SnapWhole(snaps'[i]) /\ snaps'[i].observed.cutover <= now
  BY <1>4, <1>5, <1>6, <1>7
<1>9. /\ ToSet(snaps) \subseteq ToSet(snaps') /\ row \in ToSet(snaps')
      /\ Last(snaps') = row
  <2>1. n + 1 \in 1 .. (n + 1) /\ \A i \in 1 .. n : i \in 1 .. (n + 1)
    BY <1>3
  <2> QED
    BY <1>5, <2>1 DEF ToSet, Last
<1>10. ASSUME NEW k \in DOMAIN broker.fills,
              broker.fills[k].at \in snaps'[1].observed.cutover .. (run.start - 1)
       PROVE  \E s \in ToSet(snaps') : \E f \in s.observed.fills : f.id[1] = k
  <2>1. CASE n = 0
    <3>1. snaps'[1].observed.cutover = run.start
      BY <1>3, <1>4, <1>5, <2>1
    <3> QED
      BY <1>3, <1>10, <3>1
  <2>2. CASE n # 0
    <3>1. n \in 1 .. n /\ 1 \in 1 .. n /\ snaps # <<>>
      BY <1>3, <2>2
    <3>2. snaps'[1] = snaps[1] /\ Last(snaps) = snaps[n]
      BY <1>5, <3>1 DEF Last, n
    <3>3. Last(snaps).observed.cutover \in Nat /\ snaps[1].observed.cutover \in Nat
      BY <1>6, <3>1, <3>2 DEF SnapWhole
    <3> DEFINE at == broker.fills[k].at
               from == Last(snaps).observed.cutover
    <3>4. at \in Int /\ at \in snaps[1].observed.cutover .. (run.start - 1)
      BY <1>3, <1>10, <3>2
    <3>5. CASE at < from
      <4>1. at \in snaps[1].observed.cutover .. (from - 1)
        <5> HIDE DEF at, from
        <5>1. from \in Nat
          BY <3>3 DEF from
        <5> QED
          BY <3>3, <3>4, <3>5, <5>1
      <4>2. \E s \in ToSet(snaps) : \E f \in s.observed.fills : f.id[1] = k
        BY <3>1, <4>1 DEF WInv, SnapsWhole, FillsAreContiguous
      <4> QED
        BY <1>9, <4>2
    <3>6. CASE ~(at < from)
      <4>1. WindowStart = from - Overlap
        BY <3>1 DEF WindowStart
      <4>2. from - Overlap < at /\ at < run.start
        <5> HIDE DEF at, from
        <5>1. from \in Nat
          BY <3>3 DEF from
        <5> QED
          BY <1>3, <3>3, <3>4, <3>6, <5>1, BoundFacts
      <4>3. k \in Window
        BY <1>10, <4>1, <4>2 DEF Window, InWindow
      <4>4. \E f \in captured.fills : f.id[1] = k
        BY <1>2, <4>3 DEF WholeCapture
      <4> QED
        BY <1>1, <1>9, <4>4
    <3> QED
      BY <3>5, <3>6
  <2> QED
    BY <2>1, <2>2
<1>11. FillsAreContiguous'
  BY <1>4, <1>9, <1>10 DEF FillsAreContiguous
<1> QED
  BY <1>8, <1>11 DEF SnapsWhole

-----------------------------------------------------------------------------
(* What was read is whole.                                                  *)

\* What a capture has to show is part of the account.
LEMMA SeenIsRight ==
  ASSUME CInv', run'.known <= Len(broker'.orders)
  PROVE  SeenRight(Seen')
<1>1. IsAccount(broker') /\ run' \in RunState
  BY DEF CInv, BrokerRight
<1>2. /\ Len(broker'.orders) \in Nat /\ Len(broker'.fills) \in Nat
      /\ DOMAIN broker'.fills = 1 .. Len(broker'.fills)
  BY <1>1, AccountFacts
<1>3. run'.known \in Nat
  BY <1>1, BoundFacts DEF RunState
<1>4. Window' \subseteq 1 .. Len(broker'.fills)
  BY <1>2 DEF Window
<1> QED
  BY <1>2, <1>3, <1>4 DEF SeenRight, Seen

\* The attempt ends, whether it is retried or not.
LEMMA FailKnown ==
  ASSUME run \in RunState, NEW err \in Errors, FailAttempt(err)
  PROVE  run'.known \in {0, run.known}
<1> DEFINE class == AttemptError(err)
<1>1. class \in Errors
  BY DEF AttemptError, Errors, Failures
<1>2. run' = IF MayRetry(class) THEN [run EXCEPT !.pc = "delay", !.outcome = class] ELSE Ended(class)
  BY DEF FailAttempt
<1> HIDE DEF class
<1>3. CASE MayRetry(class)
  <2>1. run' = [run EXCEPT !.pc = "delay", !.outcome = class]
    BY <1>2, <1>3
  <2> QED
    BY <2>1 DEF RunState
<1>4. CASE ~MayRetry(class)
  BY <1>1, <1>2, <1>4, EndedRules
<1> QED
  BY <1>3, <1>4

\* An attempt ends: no read of it is left.
LEMMA OverWhole ==
  ASSUME WInv, CInv', run'.known \in {0, run.known}, broker' = broker,
         \A b \in Attempts, q \in Resources : task'[b][q] = Idle
  PROVE  PagesWhole'
<1>1. run'.known <= Len(broker'.orders)
  BY BrokerFacts DEF WInv, PagesWhole, SeenRight, Seen
<1>2. SeenRight(Seen')
  BY <1>1, SeenIsRight
<1> QED
  BY <1>2, FreshWhole, FailedIsEmpty

\* The invariant holds initially.
LEMMA WholeInit == CaptureInit => WInv
<1> SUFFICES ASSUME CaptureInit PROVE WInv
  OBVIOUS
<1>1. CInv
  BY CaptureInvInit
<1>2. run.known = 0 /\ run.pc = "idle" /\ task = NoTasks /\ snaps = <<>>
  BY DEF CaptureInit
<1>3. SeenRight(Seen)
  BY <1>1, <1>2, BrokerFacts DEF SeenRight, Seen, Window
<1>4. \A a \in Attempts, r \in Resources : ReadWhole(r, task[a][r], Seen)
  <2>1. \A a \in Attempts, r \in Resources : task[a][r] = Idle
    BY <1>2 DEF NoTasks, Attempts
  <2> QED
    BY <1>3, <2>1, EmptyWhole, FailedIsEmpty
<1>5. SnapsWhole
  <2>1. \A i \in 1 .. Len(snaps) : FALSE
    BY <1>2, EmptyIsSeq
  <2> QED
    BY <1>2, <2>1 DEF SnapsWhole, FillsAreContiguous
<1> QED
  BY <1>1, <1>2, <1>3, <1>4, <1>5 DEF WInv, PagesWhole, CapturedWhole

\* The steps of a read leave what is captured alone.
LEMMA ReadFrame ==
  ASSUME WInv, run.pc # "store", run'.pc = run.pc, UNCHANGED <<snaps, broker, now>>
  PROVE  CapturedWhole' /\ SnapsWhole'
BY SameSnaps DEF WInv, CapturedWhole

\* The reads of an attempt keep the invariant.
LEMMA ReadsStep ==
  ASSUME WInv, NEW a \in Attempts, NEW r \in Resources,
         \/ Answer(a, r) \/ RecordReceipt(a, r)
         \/ \E class \in FailureClasses : AnswerFails(a, r, class)
  PROVE  PagesWhole' /\ CapturedWhole' /\ SnapsWhole'
<1>1. CInv /\ PagesWhole
  BY DEF WInv
<1>2. PagesWhole' /\ SameHistory /\ SameAttempt
  BY <1>1, AnswerWhole, AnswerStep, RecordWhole, RecordStep, AnswerFailsWhole, AnswerFailsStep
<1>3. task[a][r].st \in {"fetching", "recording"} /\ now' = now
  BY DEF Answer, RecordReceipt, AnswerFails, UnchangedWorld
<1>4. run.pc \in {"account", "collect"}
  BY <1>1, <1>3, ReadingRules DEF CInv
<1>5. CapturedWhole' /\ SnapsWhole'
  BY <1>2, <1>3, <1>4, ReadFrame DEF SameHistory, SameAttempt
<1> QED
  BY <1>2, <1>5

\* The collections begin with no pages.
LEMMA AccountReadWhole ==
  ASSUME WInv, AccountRead
  PROVE  PagesWhole' /\ CapturedWhole' /\ SnapsWhole'
<1>1. /\ run'.pc = "collect" /\ run'.start = run.start /\ run'.known = run.known
      /\ task'[run.attempt]["account"] = task[run.attempt]["account"]
      /\ \A r \in Collections : task'[run.attempt][r] \in {NewRead, Failed("cancelled")}
      /\ UNCHANGED <<broker, now, snaps>> /\ CInv'
      /\ run'.attempt = run.attempt
  BY AccountReadStep DEF WInv
<1>2. \A b \in Attempts, q \in Resources : b # run.attempt => task[b][q] = Idle /\ task'[b][q] = Idle
  BY <1>1 DEF WInv, CInv, AttemptRight, PhaseRight
<1>3. \A b \in Attempts, q \in Resources :
        task'[b][q] = task[b][q] \/ (task'[b][q].pages = <<>> /\ task'[b][q].st # "done")
  BY <1>1, <1>2, FailedIsEmpty DEF Resources
<1>4. PagesWhole'
  BY <1>1, <1>3, AbortWhole DEF WInv, SameHistory
<1> QED
  BY <1>1, <1>4, SameSnaps DEF WInv, CapturedWhole

\* Canceling the reads keeps the invariant.
LEMMA AbortStays ==
  ASSUME WInv, AbortFrame, run.pc # "store"
  PROVE  PagesWhole' /\ CapturedWhole' /\ SnapsWhole'
<1>1. SameHistory /\ run'.pc = run.pc /\ UNCHANGED <<snaps, broker, now>>
  BY DEF AbortFrame, SameHistory
<1>2. \A b \in Attempts, q \in Resources :
        task'[b][q] = task[b][q] \/ (task'[b][q].pages = <<>> /\ task'[b][q].st # "done")
  BY FailedIsEmpty DEF AbortFrame
<1> QED
  BY <1>1, <1>2, AbortWhole, ReadFrame DEF WInv

\* A cycle or a new attempt begins with no pages.
LEMMA BeginWhole ==
  ASSUME WInv, BeginCycle \/ RetryDelayEnds
  PROVE  PagesWhole' /\ CapturedWhole' /\ SnapsWhole'
<1>1. /\ CInv' /\ run'.pc \in {"idle", "account"} /\ UNCHANGED <<broker, now, snaps>>
      /\ \A b \in Attempts, q \in Resources : task'[b][q] \in {Idle, NewRead}
      /\ run'.known = 0 \/ run'.known = Len(broker.orders)
  <2>1. CASE BeginCycle
    BY <2>1, BeginStep DEF WInv, BeginCycle
  <2>2. CASE RetryDelayEnds
    BY <2>2, RetryStep DEF WInv
  <2> QED
    BY <2>1, <2>2
<1>2. SeenRight(Seen')
  <2>1. run'.known <= Len(broker'.orders)
    BY <1>1, BrokerFacts DEF WInv
  <2> QED
    BY <1>1, <2>1, SeenIsRight
<1>3. PagesWhole'
  <2>1. \A b \in Attempts, q \in Resources : task'[b][q].pages = <<>> /\ task'[b][q].st # "done"
    BY <1>1, FailedIsEmpty
  <2> QED
    BY <1>2, <2>1, FreshWhole
<1> QED
  BY <1>1, <1>3, SameSnaps DEF WInv, CapturedWhole

\* A failed attempt leaves no pages.
LEMMA FailWhole ==
  ASSUME WInv, CInv', NEW err \in Errors, FailAttempt(err), UNCHANGED <<broker, now, snaps>>,
         run'.pc # "store", \A b \in Attempts, q \in Resources : task'[b][q] = Idle
  PROVE  PagesWhole' /\ CapturedWhole' /\ SnapsWhole'
<1>1. run'.known \in {0, run.known}
  BY FailKnown DEF WInv, CInv
<1>2. PagesWhole'
  BY <1>1, OverWhole
<1> QED
  BY <1>2, SameSnaps DEF WInv, CapturedWhole

\* A failed account read leaves no pages.
LEMMA AccountReadFailedWhole ==
  ASSUME WInv, AccountReadFailed
  PROVE  PagesWhole' /\ CapturedWhole' /\ SnapsWhole'
<1>1. /\ CInv' /\ run'.pc \in {"idle", "delay"} /\ UNCHANGED <<broker, now, snaps>>
      /\ \A b \in Attempts, q \in Resources : task'[b][q] = Idle
  BY AccountReadFailedStep DEF WInv
<1> DEFINE err == task[run.attempt]["account"].err
<1>2. run.pc = "account" /\ task[run.attempt]["account"].st = "failed" /\ FailAttempt(err)
  BY DEF AccountReadFailed, CurrentTask
<1>3. err \in Errors
  <2>1. run.attempt \in Attempts /\ "account" \in Resources
    BY <1>2 DEF WInv, CInv, AttemptRight, PhaseRight, Resources
  <2>2. ReadRight(task[run.attempt]["account"])
    BY <2>1 DEF WInv, CInv, AttemptRight, ReadsRight
  <2> QED
    BY <1>2, <2>2 DEF ReadRight, Causes, Errors
<1> HIDE DEF err
<1> QED
  BY <1>1, <1>2, <1>3, FailWhole

\* A capture is taken over only when it is whole.
LEMMA SettledWhole ==
  ASSUME WInv, CollectionsSettled
  PROVE  PagesWhole' /\ CapturedWhole' /\ SnapsWhole'
<1>1. CInv /\ CInv'
  BY SettledStep DEF WInv
<1>2. /\ run.pc = "collect" /\ UNCHANGED <<broker, now, receipts, snaps, fillRows, faults>>
      /\ \A r \in Resources : task[run.attempt][r].st \in {"done", "failed"}
      /\ \/ FailAttempt(run.reason)
         \/ FailAttempt("malformed_response")
         \/ /\ \A r \in Resources : task[run.attempt][r].st = "done"
            /\ captured' = Normalized(Capture) /\ Consistent(Capture)
            /\ run' = [run EXCEPT !.pc = "store"] /\ UNCHANGED task
  BY <1>1, SettledCases
<1>3. ASSUME NEW err \in Errors, FailAttempt(err)
      PROVE  PagesWhole' /\ CapturedWhole' /\ SnapsWhole'
  <2>1. /\ run'.pc \in {"idle", "delay"}
        /\ \A b \in Attempts, q \in Resources : task'[b][q] = Idle
    BY <1>1, <1>2, <1>3, FailStep
  <2> QED
    BY <1>1, <1>2, <1>3, <2>1, FailWhole
<1>4. CASE FailAttempt(run.reason)
  <2>1. run.reason \in Errors
    BY <1>1 DEF CInv, RunState
  <2> QED
    BY <1>3, <1>4, <2>1
<1>5. CASE FailAttempt("malformed_response")
  <2>1. "malformed_response" \in Errors
    BY DEF Errors, Failures
  <2> QED
    BY <1>3, <1>5, <2>1
<1>6. CASE /\ \A r \in Resources : task[run.attempt][r].st = "done"
           /\ captured' = Normalized(Capture) /\ Consistent(Capture)
           /\ run' = [run EXCEPT !.pc = "store"] /\ UNCHANGED task
  <2>1. WholeCapture(Normalized(Capture))
    BY <1>1, <1>2, <1>6, CaptureRules DEF WInv
  <2>2. run'.known = run.known /\ run'.start = run.start
    BY <1>1, <1>6 DEF CInv, RunState
  <2>3. SameHistory
    BY <1>2, <2>2 DEF SameHistory
  <2>4. Seen' = Seen /\ Window' = Window
    BY <2>3, SeenKept
  <2>5. PagesWhole'
    BY <1>6, <2>4 DEF WInv, PagesWhole
  <2> DEFINE snapshot == Normalized(Capture)
  <2>6. captured' = snapshot /\ WholeCapture(snapshot)
    BY <1>6, <2>1
  <2> HIDE DEF snapshot
  <2>7. CapturedWhole'
    BY <2>2, <2>4, <2>6 DEF CapturedWhole, WholeCapture
  <2> QED
    BY <1>2, <2>5, <2>7, SameSnaps DEF WInv
<1> QED
  BY <1>2, <1>4, <1>5, <1>6

\* A promoted snapshot is whole and continues the one before.
LEMMA CompleteWhole ==
  ASSUME WInv, CompleteSync
  PROVE  PagesWhole' /\ CapturedWhole' /\ SnapsWhole'
<1>1. /\ CInv' /\ run'.pc = "idle"
      /\ \A b \in Attempts, q \in Resources : task'[b][q] = Idle
  BY CompleteStep DEF WInv
<1>2. /\ run.pc = "store" /\ UNCHANGED <<broker, now>>
      /\ \/ run' = Ended("projection_failed") /\ UNCHANGED snaps
         \/ run' = Ended("database") /\ UNCHANGED snaps
         \/ /\ run' = Ended("none")
            /\ \E projection : snaps' = Append(snaps, SnapshotRow(projection))
  BY CompleteCases
<1>3. run'.known = 0
  <2>1. {"projection_failed", "database", "none"} \subseteq Errors
    BY DEF Errors
  <2> QED
    BY <1>2, <2>1, EndedRules DEF WInv, CInv
<1>4. PagesWhole'
  BY <1>1, <1>2, <1>3, OverWhole
<1>5. SnapsWhole'
  BY <1>2, SameSnaps, PromotedSnaps DEF WInv
<1> QED
  BY <1>1, <1>4, <1>5 DEF CapturedWhole

\* Every step of the capture keeps the invariant.
LEMMA WholeStep == WInv /\ [CaptureNext]_captureVars => WInv'
<1> SUFFICES ASSUME WInv, [CaptureNext]_captureVars PROVE WInv'
  OBVIOUS
<1>1. CInv /\ CInv'
  BY CaptureInvStep DEF WInv
<1> SUFFICES PagesWhole' /\ CapturedWhole' /\ SnapsWhole'
  BY <1>1 DEF WInv
<1>2. CASE UNCHANGED captureVars
  <2>1. SameHistory /\ task' = task /\ captured' = captured /\ run' = run /\ UNCHANGED <<snaps, broker, now>>
    BY <1>2 DEF captureVars, SameHistory
  <2>2. Seen' = Seen /\ Window' = Window
    BY <2>1, SeenKept
  <2>3. PagesWhole'
    BY <2>1, <2>2 DEF WInv, PagesWhole
  <2>4. CapturedWhole'
    BY <2>1, <2>2 DEF WInv, CapturedWhole, WholeCapture
  <2> QED
    BY <2>1, <2>3, <2>4, SameSnaps DEF WInv
<1>3. CASE PlaceOrder \/ ClockTick \/ \E i : FillOrder(i) \/ CancelOrder(i)
  <2>1. Growth
    BY <1>1, <1>3, GrowthCases
  <2> QED
    BY <2>1, GrowthStep
<1>4. ASSUME NEW a \in Attempts, NEW r \in Resources,
             \/ Answer(a, r) \/ RecordReceipt(a, r)
             \/ \E class \in FailureClasses : AnswerFails(a, r, class)
      PROVE PagesWhole' /\ CapturedWhole' /\ SnapsWhole'
  BY <1>4, ReadsStep
<1>5. CASE AccountRead
  BY <1>5, AccountReadWhole
<1>6. CASE AccountReadFailed
  BY <1>6, AccountReadFailedWhole
<1>7. CASE CollectionsSettled
  BY <1>7, SettledWhole
<1>8. CASE BeginCycle \/ RetryDelayEnds
  BY <1>8, BeginWhole
<1>9. CASE CompleteSync
  BY <1>9, CompleteWhole
<1>10. CASE Deadline
  <2>1. AbortFrame /\ run.pc # "store"
    BY <1>1, <1>10, DeadlineStep DEF Deadline
  <2> QED
    BY <2>1, AbortStays
<1>11. CASE ShutdownSignal
  <2>1. AbortFrame /\ run.pc # "store"
    BY <1>1, <1>11, ShutdownStep DEF ShutdownSignal, Waiting
  <2> QED
    BY <2>1, AbortStays
<1> QED
  BY <1>2, <1>3, <1>4, <1>5, <1>6, <1>7, <1>8, <1>9, <1>10, <1>11
     DEF CaptureNext, Account, Provider, Worker, Attempts

\* The invariant always holds.
LEMMA WholeInvariance == CaptureSpec => []WInv
BY WholeInit, WholeStep, PTL DEF CaptureSpec

\* The invariant contains the property.
LEMMA SnapsAreWhole == WInv => CaptureIsWhole
<1> SUFFICES ASSUME WInv PROVE CaptureIsWhole
  OBVIOUS
<1>1. FillsAreContiguous
  BY DEF WInv, SnapsWhole
<1>2. IsSeq(snaps) /\ \A s \in ToSet(snaps) : \E i \in 1 .. Len(snaps) : s = snaps[i]
  BY SeqDomain DEF WInv, CInv, SnapsRight
<1>3. ASSUME NEW s \in ToSet(snaps)
      PROVE  LET numbers == {o.id[1] : o \in s.observed.orders}
             IN  numbers = 1 .. Cardinality(numbers) /\ s.history.known <= Cardinality(numbers)
  <2> DEFINE numbers == {o.id[1] : o \in s.observed.orders}
  <2>1. SnapWhole(s)
    BY <1>2 DEF WInv, SnapsWhole
  <2>2. PICK m \in Nat : s.history.known <= m /\ OrderNumbers(s.observed.orders) = 1 .. m
    BY <2>1 DEF SnapWhole
  <2>3. numbers = 1 .. m /\ s.history.known <= m
    BY <2>2 DEF OrderNumbers
  <2> HIDE DEF numbers
  <2>4. Cardinality(1 .. m) = m
    <3>1. Cardinality(1 .. m) = IF 1 > m THEN 0 ELSE m - 1 + 1
      BY FS_Interval
    <3> QED
      BY <3>1
  <2>5. numbers = 1 .. Cardinality(numbers) /\ s.history.known <= Cardinality(numbers)
    BY <2>3, <2>4
  <2> QED
    BY <2>5 DEF numbers
<1>4. OrdersAreWhole
  BY <1>3 DEF OrdersAreWhole
<1> QED
  BY <1>1, <1>4 DEF CaptureIsWhole

\* What was read page by page and window by window is whole, for every account,
\* page size, overlap and number of attempts: no fill is lost between two
\* windows, no order within one listing (readOrders, readFills).
THEOREM CapturesAreWhole == CaptureSpec => []CaptureIsWhole
BY WholeInvariance, SnapsAreWhole, PTL
=============================================================================
