-------------------------- MODULE SignalRunsProofs --------------------------
(***************************************************************************)
(* Proofs about SignalRuns for every set of processes and configurations   *)
(* and every bound: types, the partition of the journal, exactly-once      *)
(* processing in order, and the implementation of RevisionQueue.           *)
(***************************************************************************)
EXTENDS SignalRuns, TLAPS, WellFoundedInduction

-----------------------------------------------------------------------------
(* The least run of a set *)

\* First returns a member that no other member precedes.
LEMMA FirstIsLeast ==
  ASSUME NEW S \in SUBSET Nat, S # {}
  PROVE  First(S) \in S /\ \A s \in S : First(S) <= s
<1> DEFINE R == {ss \in Nat \X Nat : ss[1] < ss[2]}
<1>1. R = OpToRel(<, Nat)
  BY DEF OpToRel
<1>2. IsWellFoundedOn(R, Nat)
  BY <1>1, NatLessThanWellFounded
<1>3. \A y, z \in Nat : y < z => <<y, z>> \in R
  OBVIOUS
<1> HIDE DEF R
<1>4. PICK x \in S : \A y \in S : ~(<<y, x>> \in R)
  BY <1>2, WFMin
<1>5. \A y \in S : x <= y
  <2>1. SUFFICES ASSUME NEW y \in S, ~(x <= y) PROVE FALSE
    OBVIOUS
  <2>2. y < x /\ x \in Nat /\ y \in Nat
    BY <2>1
  <2>3. <<y, x>> \in R
    BY <2>2, <1>3
  <2> QED
    BY <2>3, <1>4
<1> QED
  BY <1>5 DEF First

\* The fields of a row that the properties depend on; claims change the others.
SameCore(a, b) ==
  /\ a.state = b.state
  /\ a.capture = b.capture
  /\ a.start = b.start
  /\ a.stop = b.stop
  /\ a.cursor = b.cursor

\* The oldest closing run is closing, and no run before it is.
LEMMA NextClosingIsOldest ==
  ASSUME NEW rs \in [Runs -> Run], Closing(rs) # {}
  PROVE  /\ NextClosing(rs) \in Runs
         /\ rs[NextClosing(rs)].state = "closing"
         /\ \A q \in Runs : q < NextClosing(rs) => rs[q].state # "closing"
<1>1. Closing(rs) \in SUBSET Nat
  BY DEF Closing, Runs
<1>2. NextClosing(rs) \in Closing(rs) /\ \A s \in Closing(rs) : NextClosing(rs) <= s
  BY <1>1, FirstIsLeast DEF NextClosing
<1> QED
  BY <1>2, BoundsAssumption DEF Closing, Runs

\* A row stays a row when one field is assigned.
LEMMA RowEdits ==
  ASSUME NEW x \in Run
  PROVE  /\ \A n \in Nat : [x EXCEPT !.fence = n] \in Run
         /\ \A o \in Worker \cup {Nobody} : [x EXCEPT !.owner = o] \in Run
         /\ \A b \in BOOLEAN : [x EXCEPT !.live = b] \in Run
         /\ \A b \in BOOLEAN : [x EXCEPT !.capture = b] \in Run
         /\ \A s \in States : [x EXCEPT !.state = s] \in Run
         /\ \A n \in Nat : [x EXCEPT !.stop = n] \in Run
         /\ \A n \in Nat : [x EXCEPT !.cursor = n] \in Run
<1>1. \A n \in Nat : [x EXCEPT !.fence = n] \in Run
  BY DEF Run
<1>2. \A o \in Worker \cup {Nobody} : [x EXCEPT !.owner = o] \in Run
  BY DEF Run
<1>3. \A b \in BOOLEAN : [x EXCEPT !.live = b] \in Run
  BY DEF Run
<1>4. \A b \in BOOLEAN : [x EXCEPT !.capture = b] \in Run
  BY DEF Run
<1>5. \A s \in States : [x EXCEPT !.state = s] \in Run
  BY DEF Run
<1>6. \A n \in Nat : [x EXCEPT !.stop = n] \in Run
  BY DEF Run
<1>7. \A n \in Nat : [x EXCEPT !.cursor = n] \in Run
  BY DEF Run
<1> QED
  BY <1>1, <1>2, <1>3, <1>4, <1>5, <1>6, <1>7

\* Taking the claim on a run, or on the oldest closing run, leaves every core.
LEMMA TakenCore ==
  ASSUME NEW rs \in [Runs -> Run], NEW r \in Runs, NEW w \in Worker
  PROVE  /\ Taken(rs, r, w) \in [Runs -> Run]
         /\ \A q \in Runs : SameCore(Taken(rs, r, w)[q], rs[q])
<1> DEFINE a == [rs[r] EXCEPT !.fence = @ + 1]
           b == [a EXCEPT !.owner = w]
           c == [b EXCEPT !.live = TRUE]
<1>1. rs[r] \in Run /\ rs[r].fence \in Nat
  BY DEF Run
<1>2. a \in Run /\ SameCore(a, rs[r])
  BY <1>1, RowEdits DEF Run, SameCore
<1> HIDE DEF a
<1>3. b \in Run /\ SameCore(b, a)
  BY <1>2, RowEdits DEF Run, SameCore
<1> HIDE DEF b
<1>4. c \in Run /\ SameCore(c, b)
  BY <1>3, RowEdits DEF Run, SameCore
<1> HIDE DEF c
<1>5. Taken(rs, r, w) = [rs EXCEPT ![r] = c]
  BY DEF Taken, a, b, c
<1> QED
  BY <1>2, <1>3, <1>4, <1>5 DEF SameCore

\* Claiming the oldest closing run rewrites claims only.
LEMMA TakeClosingCore ==
  ASSUME NEW rs \in [Runs -> Run], NEW w \in Worker
  PROVE  /\ TakeClosing(rs, w) \in [Runs -> Run]
         /\ \A q \in Runs : SameCore(TakeClosing(rs, w)[q], rs[q])
<1>1. CASE Closing(rs) = {}
  BY <1>1 DEF TakeClosing, SameCore
<1>2. CASE Closing(rs) # {}
  BY <1>2, NextClosingIsOldest, TakenCore DEF TakeClosing
<1> QED
  BY <1>1, <1>2

\* Rows with the same core have the same closing runs and the same oldest one.
LEMMA SameClosing ==
  ASSUME NEW rs \in [Runs -> Run], NEW ss \in [Runs -> Run],
         \A q \in Runs : SameCore(rs[q], ss[q])
  PROVE  Closing(rs) = Closing(ss) /\ NextClosing(rs) = NextClosing(ss)
<1>1. Closing(rs) = Closing(ss)
  BY DEF Closing, SameCore
<1> QED
  BY <1>1 DEF NextClosing

\* While something captures, the run addressed by the cutover is one that captures.
LEMMA CaptureIsFirst ==
  ASSUME TypeOK, CaptureRuns # {}
  PROVE  First(CaptureRuns) \in Runs /\ runs[First(CaptureRuns)].capture
<1>1. CaptureRuns \in SUBSET Nat
  BY DEF CaptureRuns, Runs
<1> QED
  BY <1>1, FirstIsLeast DEF CaptureRuns

\* The watermark is a natural number: the counter starts at one.
LEMMA WatermarkType ==
  ASSUME TypeOK
  PROVE  Watermark \in Nat /\ Watermark < nextPosition /\ nextPosition \in Nat
BY BoundsAssumption DEF TypeOK, Watermark

\* Freezing the capturing run gives well-formed rows.
LEMMA FreezeType ==
  ASSUME TypeOK
  PROVE  FreezeCapture(runs) \in [Runs -> Run]
<1>1. CASE CaptureRuns = {}
  BY <1>1 DEF FreezeCapture, TypeOK
<1>2. CASE CaptureRuns # {}
  <2> DEFINE r == First(CaptureRuns)
             a == [runs[r] EXCEPT !.capture = FALSE]
             b == [a EXCEPT !.state = "closing"]
             c == [b EXCEPT !.stop = Watermark]
  <2>1. r \in Runs /\ runs[r] \in Run
    BY <1>2, CaptureIsFirst DEF TypeOK
  <2>2. Frozen(runs, r) = [runs EXCEPT ![r] = c]
    BY DEF Frozen
  <2>3. FreezeCapture(runs) = [runs EXCEPT ![r] = c]
    BY <1>2, <2>2 DEF FreezeCapture
  <2> HIDE DEF r
  <2>4. a \in Run
    BY <2>1, RowEdits
  <2> HIDE DEF a
  <2>5. b \in Run
    BY <2>4, RowEdits DEF States
  <2> HIDE DEF b
  <2>6. c \in Run
    BY <2>5, RowEdits, WatermarkType
  <2> HIDE DEF c
  <2> QED
    BY <2>1, <2>3, <2>6 DEF TypeOK
<1> QED
  BY <1>1, <1>2

\* The row enableOrResume inserts is well formed.
LEMMA NewRunType ==
  ASSUME TypeOK, NEW w \in Worker
  PROVE  NewRun(w) \in Run
BY WatermarkType DEF NewRun, CreatedState, TypeOK, Run, States, Modes

\* The rows after an enable or a resume are well formed.
LEMMA EnabledType ==
  ASSUME TypeOK, NEW w \in Worker, Matches(w) \/ created < MaxRuns
  PROVE  EnabledRuns(w) \in [Runs -> Run]
<1>1. CASE Matches(w)
  <2>1. CaptureRuns # {}
    BY <1>1 DEF Matches
  <2> QED
    BY <1>1, <2>1, CaptureIsFirst, TakenCore, TakeClosingCore DEF EnabledRuns, TypeOK
<1>2. CASE ~Matches(w)
  <2>1. created + 1 \in Runs
    BY <1>2, BoundsAssumption DEF TypeOK, Runs
  <2>2. [FreezeCapture(runs) EXCEPT ![created + 1] = NewRun(w)] \in [Runs -> Run]
    BY <2>1, FreezeType, NewRunType
  <2> QED
    BY <1>2, <2>2, TakeClosingCore DEF EnabledRuns
<1> QED
  BY <1>1, <1>2

-----------------------------------------------------------------------------
(* The inductive invariant *)

\* What the properties need of a row of signal_runs besides its partition of
\* the journal.
RowOK(r) ==
  IF r > created
  THEN runs[r].state = "absent" /\ ~runs[r].capture
  ELSE /\ runs[r].state # "absent"
       /\ runs[r].capture <=> runs[r].state \in {"pending", "active"}
       /\ runs[r].start <= runs[r].cursor
       /\ runs[r].cursor < nextPosition
       /\ runs[r].stop # NoStop => runs[r].cursor <= runs[r].stop /\ runs[r].stop < nextPosition
RowsOK == \A r \in Runs : RowOK(r)

\* Positions not yet allocated belong to no run.
FeedOK == \A p \in Positions : p >= nextPosition => journal[p] = NoRun

\* No run captures and none is closing.
Quiet == CaptureRuns = {} /\ Closing(runs) = {}

\* A claimed run exists, and every earlier run has completed.
ClaimOK(w) ==
  claim[w].run # NoRun =>
    /\ claim[w].run \in 1..created
    /\ \A q \in 1..(claim[w].run - 1) : runs[q].state = "completed"

\* A process in the drain loop has a claim.
WorkingOK(w) ==
  pc[w] \in {"backlog", "read", "complete", "commit", "retry"} => claim[w].run # NoRun

\* What is left of its batch was captured by the claimed run.
BatchOK(w) ==
  pc[w] \in {"commit", "retry"} =>
    /\ rev[w] <= upto[w]
    /\ \A p \in rev[w]..upto[w] : p \in Positions /\ journal[p] = claim[w].run

\* A disabled process about to report has left nothing to drain, unless another
\* process has taken the status claim since.
QuietOK(w) == pc[w] = "quiet" /\ status.owner = w => Quiet

ProcOK(w) == ClaimOK(w) /\ WorkingOK(w) /\ BatchOK(w) /\ QuietOK(w)

\* The database by itself.
DbOK ==
  /\ JournalIsPartitioned
  /\ RowsOK
  /\ FeedOK
  /\ AppliedExactlyOnce
  /\ CompletedIsDrained
  /\ PendingHasPredecessor

\* The inductive invariant.
IInv ==
  /\ TypeOK
  /\ DbOK
  /\ DisabledIsQuiet
  /\ \A w \in Worker : ProcOK(w)

\* Rows that agree on every field the properties depend on.
SameCores(rs, ss) == ss \in [Runs -> Run] /\ \A q \in Runs : SameCore(ss[q], rs[q])

\* The kinds of database step: claims only; a cutover, with or without a new
\* run; the completion of a run; the commit of a revision; a journaled change.
ClaimsOnly == UNCHANGED <<nextPosition, journal, created, applied>> /\ SameCores(runs, runs')

Freezing ==
  /\ UNCHANGED <<nextPosition, journal, created, applied>>
  /\ SameCores(FreezeCapture(runs), runs')

Opening(w) ==
  /\ ~Matches(w)
  /\ created < MaxRuns
  /\ created' = created + 1
  /\ UNCHANGED <<nextPosition, journal, applied>>
  /\ SameCores([FreezeCapture(runs) EXCEPT ![created + 1] = NewRun(w)], runs')

Completing(w) ==
  /\ pc[w] = "complete"
  /\ runs[claim[w].run].state = "closing"
  /\ runs[claim[w].run].cursor = runs[claim[w].run].stop
  /\ runs' = Completed(claim[w].run)
  /\ UNCHANGED <<nextPosition, journal, created, applied>>

Committing(w) ==
  /\ pc[w] = "commit"
  /\ rev[w] = runs[claim[w].run].cursor + 1
  /\ runs' = Advanced(claim[w].run, rev[w])
  /\ applied' = [applied EXCEPT ![rev[w]] = Append(@, claim[w].run)]
  /\ UNCHANGED <<nextPosition, journal, created>>

\* What no step of the database undoes.
Monotone ==
  /\ created <= created'
  /\ \A q \in Runs : runs[q].state = "completed" => runs'[q].state = "completed"
  /\ \A p \in Positions : journal[p] # NoRun => journal'[p] = journal[p]

DbType ==
  /\ nextPosition \in 1..(MaxPosition + 1)
  /\ journal \in [Positions -> Runs \cup {NoRun}]
  /\ runs \in [Runs -> Run]
  /\ created \in 0..MaxRuns
  /\ applied \in [Positions -> Seq(Runs)]

\* The types the arithmetic below needs, for one row.
LEMMA RowTypes ==
  ASSUME DbType, NEW r \in Runs
  PROVE  /\ runs[r] \in Run
         /\ runs[r].start \in Nat /\ runs[r].cursor \in Nat
         /\ runs[r].stop \in Nat \cup {NoStop}
         /\ runs[r].capture \in BOOLEAN
         /\ r \in Nat /\ r >= 1 /\ created \in Nat /\ nextPosition \in Nat
BY BoundsAssumption DEF DbType, Run, Runs

\* The type invariant covers the tables.
LEMMA TypeHasDb == TypeOK => DbType
BY DEF TypeOK, DbType

\* Only the run created last can capture.
LEMMA OnlyLastCaptures ==
  ASSUME DbType, DbOK, NEW r \in Runs, runs[r].capture
  PROVE  r = created /\ runs[r].stop = NoStop
<1>1. r <= created
  BY RowTypes DEF DbOK, RowsOK, RowOK
<1>2. r \in 1..created /\ created \in 1..created
  BY <1>1, RowTypes
<1>3. runs[r].stop = NoStop
  BY <1>2 DEF DbOK, JournalIsPartitioned
<1>4. ~(r < created)
  BY <1>2, <1>3 DEF DbOK, JournalIsPartitioned
<1> QED
  BY <1>1, <1>3, <1>4, RowTypes

\* A position is journaled for its run, before it is closed.
LEMMA JournaledPosition ==
  ASSUME DbType, DbOK, NEW p \in Positions, journal[p] # NoRun
  PROVE  /\ p < nextPosition
         /\ journal[p] \in Runs /\ journal[p] \in 1..created
         /\ runs[journal[p]].start < p
         /\ runs[journal[p]].stop # NoStop => p <= runs[journal[p]].stop
<1>1. p \in Nat /\ p >= 1 /\ nextPosition \in Nat
  BY BoundsAssumption DEF Positions, DbType
<1>2. p < nextPosition
  BY <1>1 DEF DbOK, FeedOK
<1>3. p \in 1..(nextPosition - 1)
  BY <1>1, <1>2
<1>4. journal[p] \in 1..created
  BY <1>3 DEF DbOK, JournalIsPartitioned
<1>5. journal[p] \in Runs
  BY DEF DbType
<1> QED
  BY <1>2, <1>3, <1>4, <1>5 DEF DbOK, JournalIsPartitioned

-----------------------------------------------------------------------------
(* Steps of the database *)

\* Claims alone change nothing that the database invariant speaks about.
LEMMA ClaimsOnlyKeeps ==
  ASSUME DbType, DbOK, ClaimsOnly
  PROVE  DbType' /\ DbOK' /\ Monotone /\ Quiet' = Quiet
<1>1. \A q \in Runs : SameCore(runs'[q], runs[q])
  BY DEF ClaimsOnly, SameCores
<1>2. DbType'
  BY DEF ClaimsOnly, SameCores, DbType
<1>3. Monotone
  BY <1>1 DEF Monotone, ClaimsOnly, SameCore, DbType
<1>4. Closing(runs') = Closing(runs) /\ CaptureRuns' = CaptureRuns
  BY <1>1 DEF Closing, CaptureRuns, SameCore
<1>5. \A r \in 1..created : r \in Runs
  BY BoundsAssumption DEF DbType, Runs
<1>6. JournalIsPartitioned'
  BY <1>1, <1>5 DEF DbOK, JournalIsPartitioned, ClaimsOnly, SameCore
<1>7. RowsOK'
  BY <1>1 DEF DbOK, RowsOK, RowOK, ClaimsOnly, SameCore
<1>8. FeedOK'
  BY DEF DbOK, FeedOK, ClaimsOnly
<1>9. AppliedExactlyOnce'
  <2>1. SUFFICES ASSUME NEW p \in Positions
        PROVE  applied[p] = IF p < nextPosition /\ p <= runs'[journal[p]].cursor
                            THEN <<journal[p]>> ELSE <<>>
    BY DEF AppliedExactlyOnce, ClaimsOnly
  <2>2. p < nextPosition => journal[p] \in Runs
    BY <1>5, BoundsAssumption DEF DbOK, JournalIsPartitioned, Positions, DbType
  <2>3. p < nextPosition => runs'[journal[p]].cursor = runs[journal[p]].cursor
    BY <1>1, <2>2 DEF SameCore
  <2> QED
    BY <2>3 DEF DbOK, AppliedExactlyOnce
<1>10. CompletedIsDrained'
  BY <1>1 DEF DbOK, CompletedIsDrained, SameCore
<1>11. PendingHasPredecessor'
  <2>1. SUFFICES ASSUME NEW r \in Runs, runs'[r].state = "pending"
        PROVE  \E q \in 1..(r - 1) : runs'[q].state = "closing"
    BY DEF PendingHasPredecessor
  <2>2. PICK q \in 1..(r - 1) : runs[q].state = "closing"
    BY <1>1, <2>1 DEF DbOK, PendingHasPredecessor, SameCore
  <2>3. q \in Runs
    BY BoundsAssumption DEF Runs
  <2> QED
    BY <1>1, <2>2, <2>3 DEF SameCore
<1> QED
  BY <1>2, <1>3, <1>4, <1>6, <1>7, <1>8, <1>9, <1>10, <1>11 DEF DbOK, Quiet

\* After the freeze no run captures; the one that did is closing at the watermark.
LEMMA FreezeCore ==
  ASSUME TypeOK, DbOK, NEW q \in Runs
  PROVE  /\ FreezeCapture(runs)[q].start = runs[q].start
         /\ FreezeCapture(runs)[q].cursor = runs[q].cursor
         /\ FreezeCapture(runs)[q].capture = FALSE
         /\ FreezeCapture(runs)[q].state = IF runs[q].capture THEN "closing" ELSE runs[q].state
         /\ FreezeCapture(runs)[q].stop = IF runs[q].capture THEN Watermark ELSE runs[q].stop
<1>1. DbType /\ runs \in [Runs -> Run]
  BY TypeHasDb DEF TypeOK
<1>2. runs[q] \in Run /\ runs[q].capture \in BOOLEAN
  BY <1>1, RowTypes
<1>3. CASE CaptureRuns = {}
  BY <1>2, <1>3 DEF FreezeCapture, CaptureRuns
<1>4. CASE CaptureRuns # {}
  <2> DEFINE r == First(CaptureRuns)
  <2>1. r \in Runs /\ runs[r].capture
    BY <1>4, CaptureIsFirst
  <2>2. r = created /\ (runs[q].capture => q = created)
    BY <1>1, <2>1, OnlyLastCaptures
  <2>3. FreezeCapture(runs) = Frozen(runs, r)
    BY <1>4 DEF FreezeCapture
  <2> HIDE DEF r
  <2>4. CASE q = r
    <3> DEFINE a == [runs[r] EXCEPT !.capture = FALSE]
               b == [a EXCEPT !.state = "closing"]
               c == [b EXCEPT !.stop = Watermark]
    <3>1. a.capture = FALSE /\ a.start = runs[r].start /\ a.cursor = runs[r].cursor /\ a \in Run
      BY <2>4, <1>2, RowEdits DEF Run
    <3>2. Frozen(runs, r) = [runs EXCEPT ![r] = c]
      BY DEF Frozen
    <3> HIDE DEF a
    <3>3. /\ b.capture = a.capture /\ b.start = a.start /\ b.cursor = a.cursor
          /\ b.state = "closing" /\ b \in Run
      BY <3>1, RowEdits DEF Run, States
    <3> HIDE DEF b
    <3>4. /\ c.capture = b.capture /\ c.start = b.start /\ c.cursor = b.cursor
          /\ c.state = b.state /\ c.stop = Watermark
      BY <3>3 DEF Run
    <3> HIDE DEF c
    <3>5. FreezeCapture(runs)[q] = c
      BY <1>1, <2>1, <2>3, <2>4, <3>2
    <3> QED
      BY <2>1, <2>4, <3>1, <3>3, <3>4, <3>5
  <2>5. CASE q # r
    <3>1. FreezeCapture(runs)[q] = runs[q]
      BY <1>1, <2>1, <2>3, <2>5 DEF Frozen
    <3>2. runs[q].capture = FALSE
      BY <1>2, <2>2, <2>5
    <3> QED
      BY <3>1, <3>2
  <2> QED
    BY <2>4, <2>5
<1> QED
  BY <1>3, <1>4

\* What a cutover leaves of the rows created before it.
Closed(ss) ==
  /\ ss \in [Runs -> Run]
  /\ \A q \in Runs : q <= created =>
       /\ ss[q].start = runs[q].start
       /\ ss[q].cursor = runs[q].cursor
       /\ ss[q].capture = FALSE
       /\ ss[q].state = IF runs[q].capture THEN "closing" ELSE runs[q].state
       /\ ss[q].stop = IF runs[q].capture THEN nextPosition - 1 ELSE runs[q].stop

\* The rows created before a cutover keep what the invariant says of them.
LEMMA ClosedRows ==
  ASSUME DbType, DbOK, Closed(runs'), UNCHANGED <<nextPosition, journal>>
  PROVE  /\ \A r \in Runs : r <= created =>
              /\ runs'[r].state # "absent"
              /\ runs'[r].capture <=> runs'[r].state \in {"pending", "active"}
              /\ runs'[r].state # "pending" /\ runs'[r].state # "active"
              /\ runs'[r].start <= runs'[r].cursor
              /\ runs'[r].cursor < nextPosition
              /\ runs'[r].stop # NoStop /\ runs'[r].cursor <= runs'[r].stop
              /\ runs'[r].stop < nextPosition
              /\ runs[r].state = "completed" => runs'[r].state = "completed"
         /\ \A p \in 1..(nextPosition - 1), r \in 1..created :
              journal[p] = r <=> runs'[r].start < p /\ p <= runs'[r].stop
         /\ \A r, s \in 1..created : r < s => runs'[r].stop <= runs'[s].start
         /\ \A r \in Runs : r <= created /\ runs'[r].state = "completed" =>
              runs'[r].cursor = runs'[r].stop
<1>1. ASSUME NEW r \in Runs, r <= created
      PROVE  /\ runs'[r].state # "absent"
             /\ runs'[r].capture <=> runs'[r].state \in {"pending", "active"}
             /\ runs'[r].state # "pending" /\ runs'[r].state # "active"
             /\ runs'[r].start <= runs'[r].cursor
             /\ runs'[r].cursor < nextPosition
             /\ runs'[r].stop # NoStop /\ runs'[r].cursor <= runs'[r].stop
             /\ runs'[r].stop < nextPosition
             /\ runs[r].state = "completed" => runs'[r].state = "completed"
             /\ runs'[r].state = "completed" => runs'[r].cursor = runs'[r].stop
  <2>1. /\ runs[r].state # "absent"
        /\ runs[r].capture <=> runs[r].state \in {"pending", "active"}
        /\ runs[r].start <= runs[r].cursor
        /\ runs[r].cursor < nextPosition
        /\ runs[r].stop # NoStop => runs[r].cursor <= runs[r].stop /\ runs[r].stop < nextPosition
    BY <1>1, RowTypes DEF DbOK, RowsOK, RowOK
  <2>2. /\ runs'[r].start = runs[r].start
        /\ runs'[r].cursor = runs[r].cursor
        /\ runs'[r].capture = FALSE
        /\ runs'[r].state = IF runs[r].capture THEN "closing" ELSE runs[r].state
        /\ runs'[r].stop = IF runs[r].capture THEN nextPosition - 1 ELSE runs[r].stop
    BY <1>1 DEF Closed
  <2>3. runs[r].capture <=> runs[r].stop = NoStop
    BY <1>1, RowTypes DEF DbOK, JournalIsPartitioned
  <2>4. runs[r].state = "completed" => runs[r].cursor = runs[r].stop
    BY DEF DbOK, CompletedIsDrained
  <2>5. runs[r].cursor \in Nat /\ nextPosition \in Nat
    BY RowTypes
  <2>6. CASE runs[r].capture
    BY <2>1, <2>2, <2>5, <2>6, NullsAssumption
  <2>7. CASE ~runs[r].capture
    BY <2>1, <2>2, <2>3, <2>4, <2>5, <2>7
  <2> QED
    BY <2>6, <2>7
<1>2. ASSUME NEW p \in 1..(nextPosition - 1), NEW r \in 1..created
      PROVE  journal[p] = r <=> runs'[r].start < p /\ p <= runs'[r].stop
  <2>1. r \in Runs /\ r <= created
    BY BoundsAssumption DEF DbType, Runs
  <2>2. journal[p] = r <=> /\ runs[r].start < p
                           /\ runs[r].stop # NoStop => p <= runs[r].stop
    BY DEF DbOK, JournalIsPartitioned
  <2>3. runs[r].capture <=> runs[r].stop = NoStop
    BY DEF DbOK, JournalIsPartitioned
  <2>4. p <= nextPosition - 1
    BY <2>1, RowTypes
  <2> QED
    BY <2>1, <2>2, <2>3, <2>4 DEF Closed
<1>3. ASSUME NEW r \in 1..created, NEW s \in 1..created, r < s
      PROVE  runs'[r].stop <= runs'[s].start
  <2>1. r \in Runs /\ s \in Runs /\ r <= created /\ s <= created
    BY BoundsAssumption DEF DbType, Runs
  <2>2. runs[r].stop # NoStop /\ runs[r].stop <= runs[s].start
    BY <1>3 DEF DbOK, JournalIsPartitioned
  <2>3. ~runs[r].capture
    BY <2>2, <2>1 DEF DbOK, JournalIsPartitioned
  <2> QED
    BY <2>1, <2>2, <2>3 DEF Closed
<1> QED
  BY <1>1, <1>2, <1>3

\* A freeze alone.
LEMMA FreezingKeeps ==
  ASSUME TypeOK, DbOK, Freezing
  PROVE  /\ DbType' /\ DbOK' /\ Monotone
         /\ CaptureRuns' = {}
         /\ Quiet => Quiet'
<1> USE DEF Freezing
<1>1. DbType /\ DbType'
  BY TypeHasDb DEF SameCores, DbType
<1>2. \A q \in Runs :
        /\ runs'[q].start = runs[q].start
        /\ runs'[q].cursor = runs[q].cursor
        /\ runs'[q].capture = FALSE
        /\ runs'[q].state = IF runs[q].capture THEN "closing" ELSE runs[q].state
        /\ runs'[q].stop = IF runs[q].capture THEN nextPosition - 1 ELSE runs[q].stop
  BY FreezeCore DEF SameCores, SameCore, Watermark
<1>3. Closed(runs')
  BY <1>2, <1>1 DEF Closed, DbType
<1>4. \A r \in 1..created : r \in Runs /\ r <= created
  BY <1>1, BoundsAssumption DEF DbType, Runs
<1>5. Monotone
  <2>1. \A q \in Runs : runs[q].state = "completed" => runs'[q].state = "completed"
    <3>1. SUFFICES ASSUME NEW q \in Runs, runs[q].state = "completed"
          PROVE  runs'[q].state = "completed"
      OBVIOUS
    <3>2. ~runs[q].capture
      BY <1>1, <3>1, RowTypes DEF DbOK, RowsOK, RowOK
    <3> QED
      BY <1>2, <3>1, <3>2
  <2> QED
    BY <1>1, <2>1 DEF Monotone, DbType
<1>6. JournalIsPartitioned'
  <2>1. \A r \in 1..created : runs'[r].stop # NoStop /\ runs'[r].capture = FALSE
    BY <1>1, <1>2, <1>3, <1>4, ClosedRows
  <2>2. \A p \in 1..(nextPosition - 1) : journal[p] \in 1..created
    BY DEF DbOK, JournalIsPartitioned
  <2>3. \A p \in 1..(nextPosition - 1), r \in 1..created :
          journal[p] = r <=> runs'[r].start < p /\ p <= runs'[r].stop
    BY <1>1, <1>3, ClosedRows
  <2>4. \A r, s \in 1..created : r < s => runs'[r].stop <= runs'[s].start
    BY <1>1, <1>3, ClosedRows
  <2> QED
    BY <2>1, <2>2, <2>3, <2>4 DEF JournalIsPartitioned
<1>7. RowsOK'
  <2>1. SUFFICES ASSUME NEW r \in Runs PROVE RowOK(r)'
    BY DEF RowsOK
  <2>2. CASE r > created
    <3>1. runs[r].state = "absent" /\ ~runs[r].capture
      BY <2>2 DEF DbOK, RowsOK, RowOK
    <3> QED
      BY <1>2, <2>2, <3>1 DEF RowOK
  <2>3. CASE ~(r > created)
    <3>1. r <= created
      BY <1>1, <2>3, RowTypes
    <3> QED
      BY <1>1, <1>3, <2>3, <3>1, ClosedRows DEF RowOK
  <2> QED
    BY <2>2, <2>3
<1>8. FeedOK'
  BY DEF DbOK, FeedOK
<1>9. AppliedExactlyOnce'
  <2>1. SUFFICES ASSUME NEW p \in Positions
        PROVE  applied[p] = IF p < nextPosition /\ p <= runs'[journal[p]].cursor
                            THEN <<journal[p]>> ELSE <<>>
    BY DEF AppliedExactlyOnce
  <2>2. p < nextPosition => journal[p] \in Runs
    BY <1>1, <1>4, BoundsAssumption DEF DbOK, JournalIsPartitioned, Positions, DbType
  <2> QED
    BY <1>2, <2>2 DEF DbOK, AppliedExactlyOnce
<1>10. CompletedIsDrained'
  <2>1. SUFFICES ASSUME NEW r \in Runs, runs'[r].state = "completed"
        PROVE  runs'[r].cursor = runs'[r].stop
    BY DEF CompletedIsDrained
  <2>2. ~runs[r].capture /\ runs[r].state = "completed"
    BY <1>2, <2>1
  <2> QED
    BY <1>2, <2>2 DEF DbOK, CompletedIsDrained
<1>11. PendingHasPredecessor'
  <2>1. \A r \in Runs : runs'[r].state # "pending"
    <3>1. SUFFICES ASSUME NEW r \in Runs, runs'[r].state = "pending" PROVE FALSE
      OBVIOUS
    <3>2. ~runs[r].capture /\ runs[r].state = "pending"
      BY <1>2, <3>1
    <3> QED
      BY <1>1, <3>2, RowTypes DEF DbOK, RowsOK, RowOK
  <2> QED
    BY <2>1 DEF PendingHasPredecessor
<1>12. CaptureRuns' = {}
  BY <1>2 DEF CaptureRuns
<1>13. Quiet => Quiet'
  BY <1>2 DEF Quiet, CaptureRuns, Closing
<1> QED
  BY <1>1, <1>5, <1>6, <1>7, <1>8, <1>9, <1>10, <1>11, <1>12, <1>13 DEF DbOK

\* A freeze and a new run after the last one.
LEMMA OpeningKeeps ==
  ASSUME TypeOK, DbOK, NEW w \in Worker, Opening(w)
  PROVE  DbType' /\ DbOK' /\ Monotone
<1> USE DEF Opening
<1> DEFINE n == created + 1
<1>1. DbType /\ n \in Runs /\ n \in Nat /\ created \in Nat /\ nextPosition \in Nat
  BY TypeHasDb, BoundsAssumption DEF DbType, Runs
<1>2. DbType'
  BY <1>1, BoundsAssumption DEF SameCores, DbType
<1>3. FreezeCapture(runs) \in [Runs -> Run]
  BY FreezeType
<1>4. /\ runs'[n].start = nextPosition - 1
      /\ runs'[n].cursor = nextPosition - 1
      /\ runs'[n].capture = TRUE
      /\ runs'[n].stop = NoStop
      /\ runs'[n].state = CreatedState
  BY <1>1, <1>3 DEF SameCores, SameCore, NewRun, Watermark
<1>5. \A q \in Runs \ {n} :
        /\ runs'[q].start = runs[q].start
        /\ runs'[q].cursor = runs[q].cursor
        /\ runs'[q].capture = FALSE
        /\ runs'[q].state = IF runs[q].capture THEN "closing" ELSE runs[q].state
        /\ runs'[q].stop = IF runs[q].capture THEN nextPosition - 1 ELSE runs[q].stop
  <2>1. SUFFICES ASSUME NEW q \in Runs, q # n
        PROVE  SameCore(runs'[q], FreezeCapture(runs)[q])
    BY FreezeCore DEF SameCore, Watermark
  <2>2. [FreezeCapture(runs) EXCEPT ![n] = NewRun(w)][q] = FreezeCapture(runs)[q]
    BY <1>3, <2>1
  <2> QED
    BY <2>2 DEF SameCores
<1>6. Closed(runs')
  <2>1. \A q \in Runs : q <= created => q # n
    BY <1>1 DEF Runs
  <2> QED
    BY <1>5, <1>2, <2>1 DEF Closed, DbType
<1>7. \A r \in 1..n : r \in Runs /\ (r <= created \/ r = n) /\ (r <= created => r \in 1..created)
  <2>1. SUFFICES ASSUME NEW r \in 1..n
        PROVE  r \in Runs /\ (r <= created \/ r = n) /\ (r <= created => r \in 1..created)
    OBVIOUS
  <2>2. r \in Nat /\ 1 <= r /\ r <= created + 1
    BY <1>1
  <2>3. created + 1 <= MaxRuns /\ MaxRuns \in Nat
    BY <1>1, BoundsAssumption DEF Runs
  <2> QED
    BY <1>1, <2>2, <2>3 DEF Runs
<1>8. runs[n].state = "absent" /\ ~runs[n].capture
  BY <1>1 DEF DbOK, RowsOK, RowOK
<1> HIDE DEF n
<1>9. created' = n /\ n > created
  BY <1>1 DEF n
<1>10. Monotone
  <2>1. \A q \in Runs : runs[q].state = "completed" => runs'[q].state = "completed"
    <3>1. SUFFICES ASSUME NEW q \in Runs, runs[q].state = "completed"
          PROVE  runs'[q].state = "completed"
      OBVIOUS
    <3>2. ~runs[q].capture /\ q # n
      BY <1>1, <1>8, <3>1, RowTypes DEF DbOK, RowsOK, RowOK
    <3> QED
      BY <1>5, <3>1, <3>2
  <2> QED
    BY <1>1, <1>9, <2>1 DEF Monotone
<1>11. JournalIsPartitioned'
  <2>1. \A r \in 1..n : (runs'[r].capture <=> runs'[r].stop = NoStop)
    <3>1. SUFFICES ASSUME NEW r \in 1..n PROVE runs'[r].capture <=> runs'[r].stop = NoStop
      OBVIOUS
    <3>2. CASE r = n
      BY <1>4, <3>2
    <3>3. CASE r # n
      <4>1. r \in Runs /\ r <= created
        BY <1>7, <3>3
      <4>2. runs'[r].stop # NoStop
        BY <4>1, <1>1, <1>6, ClosedRows
      <4> QED
        BY <4>1, <4>2, <1>6 DEF Closed
    <3> QED
      BY <3>2, <3>3
  <2>2. \A p \in 1..(nextPosition - 1) : journal[p] \in 1..n
    BY <1>1, <1>9 DEF DbOK, JournalIsPartitioned
  <2>3. ASSUME NEW p \in 1..(nextPosition - 1), NEW r \in 1..n
        PROVE  journal[p] = r <=> runs'[r].start < p /\ (runs'[r].stop # NoStop => p <= runs'[r].stop)
    <3>1. CASE r = n
      <4>1. journal[p] \in 1..created
        BY DEF DbOK, JournalIsPartitioned
      <4>2. journal[p] # n
        BY <4>1, <1>1, <1>9
      <4>3. ~(runs'[n].start < p)
        BY <1>1, <1>4
      <4> QED
        BY <3>1, <4>2, <4>3
    <3>2. CASE r # n
      <4>1. r \in 1..created /\ r \in Runs /\ r <= created
        BY <1>7, <3>2
      <4>2. runs'[r].stop # NoStop
        BY <4>1, <1>1, <1>6, ClosedRows
      <4> QED
        BY <4>1, <4>2, <1>1, <1>6, ClosedRows
    <3> QED
      BY <3>1, <3>2
  <2>4. ASSUME NEW r \in 1..n, NEW s \in 1..n, r < s
        PROVE  runs'[r].stop # NoStop /\ runs'[r].stop <= runs'[s].start
    <3>1. r \in 1..created /\ r \in Runs /\ r <= created
      BY <2>4, <1>7, <1>1, <1>9
    <3>2. runs'[r].stop # NoStop /\ runs'[r].stop < nextPosition
      BY <3>1, <1>1, <1>6, ClosedRows
    <3>3. CASE s = n
      <4>1. runs'[r].stop \in Nat
        BY <1>2, <3>1, <3>2, RowTypes DEF DbType, Run
      <4> QED
        BY <3>2, <3>3, <4>1, <1>1, <1>4
    <3>4. CASE s # n
      <4>1. s \in 1..created
        BY <1>7, <3>4
      <4> QED
        BY <2>4, <3>1, <3>2, <4>1, <1>1, <1>6, ClosedRows
    <3> QED
      BY <3>3, <3>4
  <2> QED
    BY <1>9, <2>1, <2>2, <2>3, <2>4 DEF JournalIsPartitioned
<1>12. RowsOK'
  <2>1. SUFFICES ASSUME NEW r \in Runs PROVE RowOK(r)'
    BY DEF RowsOK
  <2>2. CASE r > n
    <3>1. r > created /\ r # n
      BY <1>1, <1>9, <2>2 DEF Runs
    <3>2. runs[r].state = "absent" /\ ~runs[r].capture
      BY <3>1 DEF DbOK, RowsOK, RowOK
    <3>3. runs'[r].state = "absent" /\ ~runs'[r].capture
      BY <1>5, <3>1, <3>2
    <3> QED
      BY <1>9, <2>2, <3>3 DEF RowOK
  <2>3. CASE r = n
    <3>1. ~(n > created')
      BY <1>1, <1>9
    <3> QED
      BY <1>1, <1>4, <2>3, <3>1 DEF RowOK, CreatedState
  <2>4. CASE ~(r > n) /\ r # n
    <3>1. r <= created
      BY <1>1, <2>4 DEF Runs, n
    <3> QED
      BY <1>1, <1>6, <1>9, <2>4, <3>1, ClosedRows DEF RowOK
  <2> QED
    BY <2>2, <2>3, <2>4
<1>13. FeedOK'
  BY DEF DbOK, FeedOK
<1>14. AppliedExactlyOnce'
  <2>1. SUFFICES ASSUME NEW p \in Positions
        PROVE  applied[p] = IF p < nextPosition /\ p <= runs'[journal[p]].cursor
                            THEN <<journal[p]>> ELSE <<>>
    BY DEF AppliedExactlyOnce
  <2>2. p < nextPosition => journal[p] \in 1..created
    BY <1>1, BoundsAssumption DEF DbOK, JournalIsPartitioned, Positions
  <2>3. p < nextPosition => journal[p] \in Runs /\ journal[p] # n
    BY <1>1, <1>9, <2>2, BoundsAssumption DEF DbType, Runs
  <2> QED
    BY <1>5, <2>3 DEF DbOK, AppliedExactlyOnce
<1>15. CompletedIsDrained'
  <2>1. SUFFICES ASSUME NEW r \in Runs, runs'[r].state = "completed"
        PROVE  runs'[r].cursor = runs'[r].stop
    BY DEF CompletedIsDrained
  <2>2. r # n
    BY <1>4, <2>1 DEF CreatedState
  <2>3. ~runs[r].capture /\ runs[r].state = "completed"
    BY <1>5, <2>1, <2>2
  <2> QED
    BY <1>5, <2>2, <2>3 DEF DbOK, CompletedIsDrained
<1>16. PendingHasPredecessor'
  <2>1. SUFFICES ASSUME NEW r \in Runs, runs'[r].state = "pending"
        PROVE  \E q \in 1..(r - 1) : runs'[q].state = "closing"
    BY DEF PendingHasPredecessor
  <2>2. r = n
    <3>1. SUFFICES ASSUME r # n PROVE FALSE
      OBVIOUS
    <3>2. ~runs[r].capture /\ runs[r].state = "pending"
      BY <1>5, <2>1, <3>1
    <3> QED
      BY <1>1, <3>2, RowTypes DEF DbOK, RowsOK, RowOK
  <2>3. PICK q \in Runs : runs[q].capture \/ runs[q].state = "closing"
    BY <1>4, <2>1, <2>2 DEF CreatedState, CaptureRuns, Closing
  <2>4. q # n /\ runs[q].state # "absent"
    BY <1>1, <1>8, <2>3, RowTypes DEF DbOK, RowsOK, RowOK
  <2>5. q <= created
    <3>1. ~(q > created)
      BY <2>4 DEF DbOK, RowsOK, RowOK
    <3> QED
      BY <1>1, <3>1, RowTypes
  <2>6. q \in 1..(r - 1)
    BY <1>1, <2>2, <2>5 DEF n, Runs
  <2>7. runs'[q].state = "closing"
    BY <1>5, <2>3, <2>4
  <2> QED
    BY <2>6, <2>7
<1> QED
  BY <1>2, <1>10, <1>11, <1>12, <1>13, <1>14, <1>15, <1>16 DEF DbOK

\* The run completes, a pending run becomes active, and no other field changes.
LEMMA CompletedCore ==
  ASSUME DbType, DbOK, NEW r \in Runs, runs[r].state = "closing", NEW q \in Runs
  PROVE  /\ Completed(r) \in [Runs -> Run]
         /\ Completed(r)[q].start = runs[q].start
         /\ Completed(r)[q].cursor = runs[q].cursor
         /\ Completed(r)[q].capture = runs[q].capture
         /\ Completed(r)[q].stop = runs[q].stop
         /\ Completed(r)[q].state = IF q = r THEN "completed"
                                   ELSE IF runs[q].state = "pending" THEN "active"
                                   ELSE runs[q].state
<1>1. ASSUME NEW x \in Runs, NEW s \in States
      PROVE  /\ [runs[x] EXCEPT !.state = s] \in Run
             /\ [runs[x] EXCEPT !.state = s].state = s
             /\ [runs[x] EXCEPT !.state = s].start = runs[x].start
             /\ [runs[x] EXCEPT !.state = s].cursor = runs[x].cursor
             /\ [runs[x] EXCEPT !.state = s].capture = runs[x].capture
             /\ [runs[x] EXCEPT !.state = s].stop = runs[x].stop
  BY RowTypes, RowEdits DEF Run
<1>2. Completed(r)[q] = IF q = r THEN [runs[q] EXCEPT !.state = "completed"]
                        ELSE IF Pending # {} /\ q = First(Pending)
                        THEN [runs[q] EXCEPT !.state = "active"]
                        ELSE runs[q]
  BY DEF Completed
<1>3. (Pending # {} /\ q = First(Pending)) <=> runs[q].state = "pending"
  <2>1. \A x \in Runs : runs[x].state = "pending" => x \in Pending
    BY RowTypes DEF DbOK, RowsOK, RowOK, Pending
  <2>2. \A x \in Pending : x = created
    BY OnlyLastCaptures DEF Pending
  <2>3. Pending \in SUBSET Nat
    BY DEF Pending, Runs
  <2>4. Pending # {} => First(Pending) \in Pending
    BY <2>3, FirstIsLeast
  <2> QED
    BY <2>1, <2>2, <2>4 DEF Pending
<1>4. Completed(r) \in [Runs -> Run]
  <2>1. \A x \in Runs : /\ runs[x] \in Run
                        /\ [runs[x] EXCEPT !.state = "completed"] \in Run
                        /\ [runs[x] EXCEPT !.state = "active"] \in Run
    BY <1>1, RowTypes DEF States
  <2> QED
    BY <2>1 DEF Completed
<1> QED
  BY <1>1, <1>2, <1>3, <1>4 DEF States

\* completeIfDrained keeps the tables sound: what it completes is drained, and a
\* pending run that loses its last predecessor is promoted.
LEMMA CompletingKeeps ==
  ASSUME DbType, DbOK, NEW w \in Worker, Completing(w), claim[w].run \in Runs
  PROVE  DbType' /\ DbOK' /\ Monotone /\ (Quiet => Quiet')
<1> DEFINE r == claim[w].run
<1>1. /\ r \in Runs /\ runs[r].state = "closing" /\ runs[r].cursor = runs[r].stop
      /\ runs' = Completed(r)
      /\ UNCHANGED <<nextPosition, journal, created, applied>>
  BY DEF Completing
<1> HIDE DEF r
<1>2. \A q \in Runs :
        /\ runs'[q].start = runs[q].start
        /\ runs'[q].cursor = runs[q].cursor
        /\ runs'[q].capture = runs[q].capture
        /\ runs'[q].stop = runs[q].stop
        /\ runs'[q].state = IF q = r THEN "completed"
                           ELSE IF runs[q].state = "pending" THEN "active"
                           ELSE runs[q].state
  BY <1>1, CompletedCore
<1>3. DbType'
  BY <1>1, CompletedCore DEF DbType
<1>4. \A q \in 1..created : q \in Runs
  BY BoundsAssumption DEF DbType, Runs
<1>5. Monotone
  BY <1>1, <1>2 DEF Monotone, DbType
<1>6. JournalIsPartitioned'
  BY <1>1, <1>2, <1>4 DEF DbOK, JournalIsPartitioned
<1>7. RowsOK'
  <2>1. SUFFICES ASSUME NEW q \in Runs PROVE RowOK(q)'
    BY DEF RowsOK
  <2>2. RowOK(q)
    BY DEF DbOK, RowsOK
  <2>3. CASE q > created
    BY <1>1, <1>2, <2>2, <2>3 DEF RowOK
  <2>4. CASE ~(q > created)
    <3>1. runs[r].state = "closing" => ~(r > created) /\ ~runs[r].capture
      BY <1>1 DEF DbOK, RowsOK, RowOK
    <3>2. runs'[q].capture <=> runs'[q].state \in {"pending", "active"}
      BY <1>1, <1>2, <2>2, <2>4, <3>1 DEF RowOK
    <3> QED
      BY <1>1, <1>2, <2>2, <2>4, <3>2 DEF RowOK
  <2> QED
    BY <2>3, <2>4
<1>8. FeedOK'
  BY <1>1 DEF DbOK, FeedOK
<1>9. AppliedExactlyOnce'
  <2>1. SUFFICES ASSUME NEW p \in Positions
        PROVE  applied[p] = IF p < nextPosition /\ p <= runs'[journal[p]].cursor
                            THEN <<journal[p]>> ELSE <<>>
    BY <1>1 DEF AppliedExactlyOnce
  <2>2. p < nextPosition => journal[p] \in Runs
    BY <1>4, BoundsAssumption DEF DbOK, JournalIsPartitioned, Positions, DbType
  <2> QED
    BY <1>2, <2>2 DEF DbOK, AppliedExactlyOnce
<1>10. CompletedIsDrained'
  BY <1>1, <1>2 DEF DbOK, CompletedIsDrained
<1>11. PendingHasPredecessor'
  BY <1>2 DEF PendingHasPredecessor
<1>12. Quiet => Quiet'
  BY <1>1 DEF Quiet, Closing
<1> QED
  BY <1>3, <1>5, <1>6, <1>7, <1>8, <1>9, <1>10, <1>11, <1>12 DEF DbOK

\* What the guard of a commit and the batch's origin give.
LEMMA CommittingFacts ==
  ASSUME DbType, DbOK, NEW w \in Worker, Committing(w), claim[w].run \in Runs,
         rev[w] \in Positions, journal[rev[w]] = claim[w].run
  PROVE  /\ rev[w] = runs[claim[w].run].cursor + 1
         /\ rev[w] < nextPosition
         /\ claim[w].run \in 1..created
         /\ runs[claim[w].run].stop # NoStop => rev[w] <= runs[claim[w].run].stop
         /\ applied[rev[w]] = <<>>
<1>1. journal[rev[w]] # NoRun
  BY NullsAssumption DEF Runs
<1>2. rev[w] = runs[claim[w].run].cursor + 1 /\ runs[claim[w].run].cursor \in Nat
  BY RowTypes DEF Committing
<1>3. applied[rev[w]] = <<>>
  <2>1. ~(rev[w] <= runs[journal[rev[w]]].cursor)
    BY <1>2
  <2> QED
    BY <2>1 DEF DbOK, AppliedExactlyOnce
<1> QED
  BY <1>1, <1>2, <1>3, JournaledPosition

\* commitRevision keeps the tables sound: one position of the claimed run is
\* delivered and the cursor moves to it.
LEMMA CommittingKeeps ==
  ASSUME DbType, DbOK, NEW w \in Worker, Committing(w), claim[w].run \in Runs,
         rev[w] \in Positions, journal[rev[w]] = claim[w].run
  PROVE  DbType' /\ DbOK' /\ Monotone /\ (Quiet => Quiet')
<1> DEFINE r == claim[w].run
           p == rev[w]
<1>1. /\ r \in Runs /\ p \in Positions /\ p \in Nat /\ journal[p] = r
      /\ p = runs[r].cursor + 1
      /\ p < nextPosition
      /\ r \in 1..created
      /\ runs[r].stop # NoStop => p <= runs[r].stop
      /\ applied[p] = <<>>
  BY CommittingFacts DEF Positions
<1>2. /\ runs' = Advanced(r, p)
      /\ applied' = [applied EXCEPT ![p] = Append(@, r)]
      /\ UNCHANGED <<nextPosition, journal, created>>
  BY DEF Committing
<1> HIDE DEF r, p
<1>3. /\ runs' \in [Runs -> Run]
      /\ \A q \in Runs : /\ runs'[q].start = runs[q].start
                        /\ runs'[q].capture = runs[q].capture
                        /\ runs'[q].stop = runs[q].stop
                        /\ runs'[q].state = runs[q].state
                        /\ runs'[q].cursor = IF q = r THEN p ELSE runs[q].cursor
  <2> DEFINE a == [runs[r] EXCEPT !.cursor = p]
  <2>1. /\ a \in Run /\ a.start = runs[r].start /\ a.capture = runs[r].capture
        /\ a.stop = runs[r].stop /\ a.state = runs[r].state /\ a.cursor = p
    BY <1>1, RowTypes, RowEdits DEF Run
  <2>2. runs' = [runs EXCEPT ![r] = a]
    BY <1>2 DEF Advanced
  <2> HIDE DEF a
  <2> QED
    BY <1>1, <2>1, <2>2 DEF DbType
<1>4. /\ applied' \in [Positions -> Seq(Runs)]
      /\ applied'[p] = <<r>>
      /\ \A x \in Positions : x # p => applied'[x] = applied[x]
  BY <1>1, <1>2 DEF DbType
<1>5. DbType'
  BY <1>2, <1>3, <1>4 DEF DbType
<1>6. \A q \in 1..created : q \in Runs
  BY BoundsAssumption DEF DbType, Runs
<1>7. Monotone
  BY <1>2, <1>3 DEF Monotone, DbType
<1>8. JournalIsPartitioned'
  BY <1>2, <1>3, <1>6 DEF DbOK, JournalIsPartitioned
<1>9. RowsOK'
  <2>1. SUFFICES ASSUME NEW q \in Runs PROVE RowOK(q)'
    BY DEF RowsOK
  <2>2. RowOK(q)
    BY DEF DbOK, RowsOK
  <2>3. CASE q # r
    BY <1>2, <1>3, <2>2, <2>3 DEF RowOK
  <2>4. CASE q = r
    <3>1. ~(r > created)
      BY <1>1, RowTypes
    <3>2. runs[r].start <= p
      BY <1>1, <2>2, <2>4, <3>1, RowTypes DEF RowOK
    <3> QED
      BY <1>1, <1>2, <1>3, <2>2, <2>4, <3>1, <3>2 DEF RowOK
  <2> QED
    BY <2>3, <2>4
<1>10. FeedOK'
  BY <1>2 DEF DbOK, FeedOK
<1>11. AppliedExactlyOnce'
  <2>1. SUFFICES ASSUME NEW x \in Positions
        PROVE  applied'[x] = IF x < nextPosition /\ x <= runs'[journal[x]].cursor
                             THEN <<journal[x]>> ELSE <<>>
    BY <1>2 DEF AppliedExactlyOnce
  <2>2. x < nextPosition => journal[x] \in Runs
    BY <1>6, BoundsAssumption DEF DbOK, JournalIsPartitioned, Positions, DbType
  <2>3. CASE x = p
    <3>1. journal[x] = r /\ x < nextPosition /\ x <= p
      BY <1>1, <2>3
    <3>2. runs'[r].cursor = p
      BY <1>1, <1>3
    <3>3. applied'[x] = <<journal[x]>>
      BY <1>4, <2>3, <3>1
    <3> QED
      BY <3>1, <3>2, <3>3
  <2>4. CASE x # p
    <3>1. applied'[x] = applied[x]
      BY <1>4, <2>4
    <3>2. x < nextPosition => (x <= runs'[journal[x]].cursor <=> x <= runs[journal[x]].cursor)
      <4>1. x \in Nat /\ runs[r].cursor \in Nat
        BY <1>1, RowTypes DEF Positions
      <4>2. CASE journal[x] = r
        <5>1. runs'[journal[x]].cursor = runs[r].cursor + 1
          BY <1>1, <1>3, <4>2
        <5>2. x # runs[r].cursor + 1
          BY <1>1, <2>4
        <5> QED
          BY <4>1, <4>2, <5>1, <5>2
      <4>3. CASE journal[x] # r
        BY <1>3, <2>2, <4>3
      <4> QED
        BY <4>2, <4>3
    <3> QED
      BY <3>1, <3>2 DEF DbOK, AppliedExactlyOnce
  <2> QED
    BY <2>3, <2>4
<1>12. CompletedIsDrained'
  <2>1. runs[r].state # "completed"
    <3>1. runs[r].state = "completed" => runs[r].cursor = runs[r].stop
      BY <1>1 DEF DbOK, CompletedIsDrained
    <3>2. runs[r].cursor \in Nat
      BY <1>1, RowTypes
    <3>3. runs[r].cursor # NoStop
      BY <3>2, NullsAssumption
    <3> QED
      BY <1>1, <3>1, <3>2, <3>3
  <2> QED
    BY <1>3, <2>1 DEF DbOK, CompletedIsDrained
<1>13. PendingHasPredecessor'
  <2>1. SUFFICES ASSUME NEW s \in Runs, runs'[s].state = "pending"
        PROVE  \E q \in 1..(s - 1) : runs'[q].state = "closing"
    BY DEF PendingHasPredecessor
  <2>2. PICK q \in 1..(s - 1) : runs[q].state = "closing"
    BY <1>3, <2>1 DEF DbOK, PendingHasPredecessor
  <2>3. q \in Runs
    BY BoundsAssumption DEF Runs
  <2> QED
    BY <1>3, <2>2, <2>3
<1>14. Quiet => Quiet'
  BY <1>3 DEF Quiet, CaptureRuns, Closing
<1> QED
  BY <1>5, <1>7, <1>8, <1>9, <1>10, <1>11, <1>12, <1>13, <1>14 DEF DbOK

\* A change is journaled for the run that captures, which is the last one.
LEMMA JournalKeeps ==
  ASSUME DbType, DbOK, JournalChange
  PROVE  DbType' /\ DbOK' /\ Monotone /\ (Quiet => Quiet')
<1> DEFINE n == nextPosition
<1>1. PICK r \in CaptureRuns : journal' = [journal EXCEPT ![n] = r]
  BY DEF JournalChange
<1>2. /\ nextPosition' = n + 1 /\ UNCHANGED <<runs, created, applied, status>>
      /\ n \in Positions /\ n \in Nat
  BY DEF JournalChange, db, DbType, Positions
<1>3. r \in Runs /\ runs[r].capture /\ r = created /\ runs[r].stop = NoStop
  BY <1>1, OnlyLastCaptures DEF CaptureRuns
<1>4. r \in 1..created /\ created \in Nat /\ \A q \in 1..created : q \in Runs
  BY <1>3, BoundsAssumption DEF DbType, Runs
<1>5. journal'[n] = r /\ \A p \in Positions : p # n => journal'[p] = journal[p]
  BY <1>1, <1>2 DEF DbType
<1>6. DbType'
  <2>1. n + 1 \in 1..(MaxPosition + 1)
    BY <1>2, BoundsAssumption DEF Positions
  <2>2. journal' \in [Positions -> Runs \cup {NoRun}]
    BY <1>1, <1>2, <1>3 DEF DbType
  <2> QED
    BY <1>2, <2>1, <2>2 DEF DbType
<1>7. Monotone
  <2>1. journal[n] = NoRun
    BY <1>2 DEF DbOK, FeedOK
  <2> QED
    BY <1>2, <1>4, <1>5, <2>1 DEF Monotone
<1>8. JournalIsPartitioned'
  <2>1. ASSUME NEW p \in 1..n
        PROVE  /\ journal'[p] \in 1..created
               /\ \A s \in 1..created :
                    journal'[p] = s <=> /\ runs[s].start < p
                                        /\ runs[s].stop # NoStop => p <= runs[s].stop
    <3>1. CASE p = n
      <4>1. ASSUME NEW s \in 1..created
            PROVE  journal'[n] = s <=> /\ runs[s].start < n
                                       /\ runs[s].stop # NoStop => n <= runs[s].stop
        <5>1. s \in Runs /\ ~(s > created)
          BY <1>4
        <5>2. /\ runs[s].start <= runs[s].cursor
              /\ runs[s].cursor < n
              /\ runs[s].stop # NoStop => runs[s].cursor <= runs[s].stop /\ runs[s].stop < n
          BY <5>1 DEF DbOK, RowsOK, RowOK
        <5>3. runs[s].start < n
          BY <1>2, <5>1, <5>2, RowTypes
        <5>4. s # r => runs[s].stop # NoStop
          BY <1>3, <1>4 DEF DbOK, JournalIsPartitioned
        <5>5. CASE s = r
          BY <1>3, <1>5, <5>3, <5>5
        <5>6. CASE s # r
          <6>1. runs[s].stop \in Nat
            BY <5>1, <5>4, <5>6, RowTypes
          <6> QED
            BY <1>2, <1>5, <5>2, <5>4, <5>6, <6>1
        <5> QED
          BY <5>5, <5>6
      <4> QED
        BY <1>4, <1>5, <3>1, <4>1
    <3>2. CASE p # n
      <4>1. p \in 1..(n - 1) /\ p \in Positions
        BY <1>2, <3>2, BoundsAssumption DEF Positions
      <4>2. journal'[p] = journal[p]
        BY <1>5, <3>2, <4>1
      <4> QED
        BY <4>1, <4>2 DEF DbOK, JournalIsPartitioned
    <3> QED
      BY <3>1, <3>2
  <2>2. 1..(nextPosition' - 1) = 1..n
    BY <1>2
  <2>3. \A q \in 1..created : runs[q].capture <=> runs[q].stop = NoStop
    BY DEF DbOK, JournalIsPartitioned
  <2>4. \A q, s \in 1..created : q < s => runs[q].stop # NoStop /\ runs[q].stop <= runs[s].start
    BY DEF DbOK, JournalIsPartitioned
  <2> HIDE DEF n
  <2> QED
    BY <1>2, <2>1, <2>2, <2>3, <2>4 DEF JournalIsPartitioned
<1>9. RowsOK'
  <2>1. SUFFICES ASSUME NEW q \in Runs PROVE RowOK(q)'
    BY DEF RowsOK
  <2>2. RowOK(q)
    BY DEF DbOK, RowsOK
  <2>3. CASE q > created
    BY <1>2, <2>2, <2>3 DEF RowOK
  <2>4. CASE ~(q > created)
    <3>1. runs[q].cursor < n /\ runs[q].cursor \in Nat
      BY <2>2, <2>4, RowTypes DEF RowOK
    <3>2. runs[q].stop # NoStop => runs[q].stop < n /\ runs[q].stop \in Nat
      BY <2>2, <2>4, RowTypes DEF RowOK
    <3>3. runs[q].cursor < n + 1 /\ (runs[q].stop # NoStop => runs[q].stop < n + 1)
      BY <1>2, <3>1, <3>2
    <3> QED
      BY <1>2, <2>2, <2>4, <3>3 DEF RowOK
  <2> QED
    BY <2>3, <2>4
<1>10. FeedOK'
  <2>1. SUFFICES ASSUME NEW p \in Positions, p >= n + 1 PROVE journal'[p] = NoRun
    BY <1>2 DEF FeedOK
  <2>2. p # n /\ p >= n
    BY <1>2, <2>1 DEF Positions
  <2> QED
    BY <1>5, <2>2 DEF DbOK, FeedOK
<1>11. AppliedExactlyOnce'
  <2>1. SUFFICES ASSUME NEW p \in Positions
        PROVE  applied[p] = IF p < n + 1 /\ p <= runs[journal'[p]].cursor
                            THEN <<journal'[p]>> ELSE <<>>
    BY <1>2 DEF AppliedExactlyOnce
  <2>2. p \in Nat
    BY DEF Positions
  <2>3. CASE p = n
    <3>1. applied[n] = <<>>
      <4>1. ~(n < nextPosition)
        BY <1>2
      <4> HIDE DEF n
      <4> QED
        BY <1>2, <4>1 DEF DbOK, AppliedExactlyOnce
    <3>2. runs[r].cursor < n /\ runs[r].cursor \in Nat
      BY <1>3, <1>4, RowTypes DEF DbOK, RowsOK, RowOK
    <3> QED
      BY <1>2, <1>5, <2>3, <3>1, <3>2
  <2>4. CASE p # n
    <3>1. p < n + 1 <=> p < n
      BY <1>2, <2>2, <2>4
    <3> QED
      BY <1>5, <2>4, <3>1 DEF DbOK, AppliedExactlyOnce
  <2> QED
    BY <2>3, <2>4
<1>12. CompletedIsDrained' /\ PendingHasPredecessor'
  BY <1>2 DEF DbOK, CompletedIsDrained, PendingHasPredecessor
<1>13. Quiet => Quiet'
  BY <1>1 DEF Quiet
<1> QED
  BY <1>6, <1>7, <1>8, <1>9, <1>10, <1>11, <1>12, <1>13 DEF DbOK

-----------------------------------------------------------------------------
(* Steps of the processes *)

ProcType ==
  /\ pc \in [Worker -> Phases]
  /\ mode \in [Worker -> Modes]
  /\ claim \in [Worker -> Claim]
  /\ rev \in [Worker -> Nat]
  /\ upto \in [Worker -> Nat]
  /\ attempt \in [Worker -> Nat]
  /\ aborted \in [Worker -> BOOLEAN]
  /\ faults \in 0..MaxFaults
  /\ orders \in 0..MaxOrders

\* The type invariant, cut into tables, status row and process memory.
LEMMA TypeSplits == TypeOK <=> DbType /\ status \in Status /\ ProcType
BY DEF TypeOK, DbType, ProcType

\* The types of what one process works with.
LEMMA ProcTypes ==
  ASSUME TypeOK, NEW w \in Worker
  PROVE  /\ pc[w] \in Phases /\ mode[w] \in Modes /\ claim[w] \in Claim
         /\ claim[w].run \in Runs \cup {NoRun}
         /\ rev[w] \in Nat /\ upto[w] \in Nat /\ attempt[w] \in Nat
         /\ status.owner \in Worker \cup {Nobody} /\ status.fence \in Nat
         /\ status.live \in BOOLEAN /\ status.lifecycle \in Lifecycles
BY DEF TypeOK, Claim, Status

\* The counters of faults and orders stay within their bounds.
LEMMA LimitsType ==
  ASSUME TypeOK
  PROVE  /\ Fault => faults' \in 0..MaxFaults /\ orders' \in 0..MaxOrders
         /\ Order => faults' \in 0..MaxFaults /\ orders' \in 0..MaxOrders
         /\ UNCHANGED limits => faults' \in 0..MaxFaults /\ orders' \in 0..MaxOrders
BY BoundsAssumption DEF TypeOK, Fault, Order, limits

\* The status turns disabled only in the quiet, and nobody new owns it.
StatusFrame ==
  /\ status' \in Status
  /\ status'.lifecycle = "disabled" => status.lifecycle = "disabled" \/ Quiet
  /\ \A v \in Worker : status'.owner = v => status.owner = v

\* Only this process moves.
Only(w) ==
  \A v \in Worker \ {w} : /\ pc'[v] = pc[v]
                         /\ claim'[v] = claim[v]
                         /\ rev'[v] = rev[v]
                         /\ upto'[v] = upto[v]

\* The processes that do not move keep what the invariant says of them.
LEMMA OthersKeep ==
  ASSUME IInv, DbType', DbOK', Monotone, NEW v \in Worker,
         pc'[v] = pc[v], claim'[v] = claim[v], rev'[v] = rev[v], upto'[v] = upto[v]
  PROVE  ClaimOK(v)' /\ WorkingOK(v)' /\ BatchOK(v)'
<1>1. ClaimOK(v) /\ WorkingOK(v) /\ BatchOK(v) /\ DbType /\ claim[v].run \in Runs \cup {NoRun}
  BY TypeHasDb, ProcTypes DEF IInv, ProcOK
<1>2. ClaimOK(v)'
  <2>1. SUFFICES ASSUME claim[v].run # NoRun
        PROVE  /\ claim[v].run \in 1..created'
               /\ \A q \in 1..(claim[v].run - 1) : runs'[q].state = "completed"
    BY DEF ClaimOK
  <2>2. /\ claim[v].run \in 1..created /\ claim[v].run \in Runs
        /\ \A q \in 1..(claim[v].run - 1) : runs[q].state = "completed"
    BY <1>1, <2>1 DEF ClaimOK
  <2>3. claim[v].run \in 1..created'
    BY <1>1, <2>2, BoundsAssumption DEF Monotone, DbType
  <2>4. \A q \in 1..(claim[v].run - 1) : q \in Runs
    BY <2>2, BoundsAssumption DEF Runs
  <2> QED
    BY <2>2, <2>3, <2>4 DEF Monotone
<1>3. WorkingOK(v)'
  BY <1>1 DEF WorkingOK
<1>4. BatchOK(v)'
  <2>1. SUFFICES ASSUME pc[v] \in {"commit", "retry"}, NEW p \in rev[v]..upto[v]
        PROVE  rev[v] <= upto[v] /\ p \in Positions /\ journal'[p] = claim[v].run
    BY <1>1 DEF BatchOK
  <2>2. rev[v] <= upto[v] /\ p \in Positions /\ journal[p] = claim[v].run
    BY <1>1, <2>1 DEF BatchOK
  <2>3. claim[v].run # NoRun
    BY <1>1, <2>1 DEF WorkingOK
  <2> QED
    BY <2>2, <2>3 DEF Monotone
<1> QED
  BY <1>2, <1>3, <1>4

\* A claim on the same run, or none, stays valid.
LEMMA SameRunClaim ==
  ASSUME IInv, DbType', Monotone, NEW w \in Worker,
         claim'[w].run \in {claim[w].run, NoRun}
  PROVE  ClaimOK(w)'
<1>1. SUFFICES ASSUME claim'[w].run # NoRun
      PROVE  /\ claim[w].run \in 1..created'
             /\ \A q \in 1..(claim[w].run - 1) : runs'[q].state = "completed"
  BY DEF ClaimOK
<1>2. claim[w].run # NoRun /\ claim[w].run \in Runs /\ DbType
  BY <1>1, TypeHasDb, ProcTypes DEF IInv
<1>3. /\ claim[w].run \in 1..created
      /\ \A q \in 1..(claim[w].run - 1) : runs[q].state = "completed"
  BY <1>2 DEF IInv, ProcOK, ClaimOK
<1>4. claim[w].run \in 1..created'
  BY <1>2, <1>3, BoundsAssumption DEF Monotone, DbType
<1>5. \A q \in 1..(claim[w].run - 1) : q \in Runs
  BY <1>2, BoundsAssumption DEF Runs
<1> QED
  BY <1>3, <1>4, <1>5 DEF Monotone

\* A step of one process that opens no run and leaves the status as it was.
LEMMA StepFrame ==
  ASSUME IInv, NEW w \in Worker, ProcType', DbType', DbOK', Monotone, Quiet => Quiet',
         StatusFrame, Only(w), pc'[w] = "quiet" => pc[w] = "quiet",
         claim'[w].run \in {claim[w].run, NoRun},
         WorkingOK(w)', BatchOK(w)'
  PROVE  IInv'
<1>1. TypeOK'
  BY TypeSplits DEF StatusFrame, TypeOK, DbType, ProcType
<1>2. DisabledIsQuiet'
  BY DEF IInv, DisabledIsQuiet, StatusFrame, Quiet
<1>3. ASSUME NEW v \in Worker PROVE ProcOK(v)'
  <2>1. CASE v = w
    <3>1. QuietOK(w)'
      BY DEF IInv, ProcOK, QuietOK, StatusFrame
    <3> QED
      BY <2>1, <3>1, SameRunClaim DEF ProcOK
  <2>2. CASE v # w
    <3>1. ClaimOK(v)' /\ WorkingOK(v)' /\ BatchOK(v)'
      BY <2>2, OthersKeep DEF Only
    <3>2. QuietOK(v)'
      BY <2>2 DEF IInv, ProcOK, QuietOK, Only, StatusFrame
    <3> QED
      BY <3>1, <3>2 DEF ProcOK
  <2> QED
    BY <2>1, <2>2
<1> QED
  BY <1>1, <1>2, <1>3 DEF IInv

\* Without a write to the database its invariant and the status stay.
LEMMA NoWrite ==
  ASSUME IInv, UNCHANGED <<feed, db>>
  PROVE  DbType' /\ DbOK' /\ Monotone /\ Quiet' = Quiet /\ StatusFrame
<1>1. DbType /\ DbOK
  BY TypeHasDb DEF IInv
<1>2. ClaimsOnly
  BY <1>1 DEF ClaimsOnly, SameCores, SameCore, DbType, feed, db
<1>3. StatusFrame
  BY DEF StatusFrame, db, IInv, TypeOK
<1> QED
  BY <1>1, <1>2, <1>3, ClaimsOnlyKeeps

\* A row with its claim ended or expired has the same core.
LEMMA ReleasedRow ==
  ASSUME NEW x \in Run
  PROVE  /\ [x EXCEPT !.live = FALSE] \in Run /\ SameCore([x EXCEPT !.live = FALSE], x)
         /\ [x EXCEPT !.owner = Nobody] \in Run /\ SameCore([x EXCEPT !.owner = Nobody], x)
<1>1. [x EXCEPT !.live = FALSE] \in Run /\ [x EXCEPT !.owner = Nobody] \in Run
  BY RowEdits
<1>2. SameCore([x EXCEPT !.live = FALSE], x)
  BY DEF SameCore, Run
<1>3. SameCore([x EXCEPT !.owner = Nobody], x)
  BY DEF SameCore, Run
<1> QED
  BY <1>1, <1>2, <1>3

\* The final heartbeat writes claims, and the lifecycle it is given.
LEMMA ReleaseKeeps ==
  ASSUME IInv, NEW w \in Worker, NEW lifecycle \in Lifecycles, Release(w, lifecycle),
         UNCHANGED feed
  PROVE  /\ ClaimsOnly
         /\ DbType' /\ DbOK' /\ Monotone /\ Quiet' = Quiet
         /\ status' \in Status
         /\ status'.owner = status.owner
         /\ status' = status \/ (status.owner = w /\ status'.lifecycle = lifecycle)
<1>1. DbType /\ DbOK /\ runs \in [Runs -> Run] /\ status \in Status
  BY TypeHasDb DEF IInv, TypeOK
<1>2. ClaimsOnly
  <2>1. SameCores(runs, runs')
    <3>1. CASE ~OwnsStatus(w)
      BY <1>1, <3>1 DEF Release, SameCores, SameCore
    <3>2. CASE OwnsStatus(w)
      <4> DEFINE mine(r) == r = claim[w].run /\ runs[r].owner = w /\ runs[r].fence = claim[w].fence
      <4>1. runs' = [r \in Runs |-> IF mine(r) THEN [runs[r] EXCEPT !.live = FALSE] ELSE runs[r]]
        BY <3>2 DEF Release
      <4> HIDE DEF mine
      <4>2. \A r \in Runs : runs'[r] \in Run /\ SameCore(runs'[r], runs[r])
        BY <1>1, <4>1, ReleasedRow DEF SameCore
      <4> QED
        BY <4>1, <4>2 DEF SameCores
    <3> QED
      BY <3>1, <3>2
  <2> QED
    BY <2>1 DEF ClaimsOnly, Release, feed
<1>3. CASE ~OwnsStatus(w)
  BY <1>1, <1>2, <1>3, ClaimsOnlyKeeps DEF Release
<1>4. CASE OwnsStatus(w)
  <2>1. status' = [status EXCEPT !.lifecycle = lifecycle, !.live = FALSE]
    BY <1>4 DEF Release
  <2>2. status' \in Status /\ status'.owner = status.owner /\ status'.lifecycle = lifecycle
    BY <1>1, <2>1 DEF Status
  <2> QED
    BY <1>1, <1>2, <1>4, <2>2, ClaimsOnlyKeeps DEF OwnsStatus
<1> QED
  BY <1>3, <1>4

\* A step of the environment.
LEMMA NoMove ==
  ASSUME IInv, ProcType', DbType', DbOK', Monotone, Quiet => Quiet', StatusFrame,
         UNCHANGED <<pc, claim, rev, upto>>
  PROVE  IInv'
<1>1. TypeOK'
  BY TypeSplits DEF StatusFrame, TypeOK, DbType, ProcType
<1>2. DisabledIsQuiet'
  BY DEF IInv, DisabledIsQuiet, StatusFrame, Quiet
<1>3. ASSUME NEW v \in Worker PROVE ProcOK(v)'
  <2>1. ClaimOK(v)' /\ WorkingOK(v)' /\ BatchOK(v)'
    BY OthersKeep
  <2>2. QuietOK(v)'
    BY DEF IInv, ProcOK, QuietOK, StatusFrame
  <2> QED
    BY <2>1, <2>2 DEF ProcOK
<1> QED
  BY <1>1, <1>2, <1>3 DEF IInv

\* A phase outside the drain loop asks nothing of the process.
LEMMA Outside ==
  ASSUME NEW w \in Worker, pc'[w] \notin {"backlog", "read", "complete", "commit", "retry"}
  PROVE  WorkingOK(w)' /\ BatchOK(w)'
BY DEF WorkingOK, BatchOK

\* A process that ends.
LEMMA ExitKeeps ==
  ASSUME IInv, NEW w \in Worker, Exit(w)
  PROVE  /\ Only(w) /\ pc'[w] = "down" /\ claim'[w].run = NoRun
         /\ pc' \in [Worker -> Phases] /\ claim' \in [Worker -> Claim]
         /\ rev' \in [Worker -> Nat] /\ upto' \in [Worker -> Nat]
         /\ attempt' \in [Worker -> Nat] /\ aborted' \in [Worker -> BOOLEAN]
<1>1. NoClaim \in Claim /\ NoClaim.run = NoRun
  BY DEF NoClaim, Claim, States
<1>2. /\ pc \in [Worker -> Phases] /\ claim \in [Worker -> Claim]
      /\ rev \in [Worker -> Nat] /\ upto \in [Worker -> Nat]
      /\ attempt \in [Worker -> Nat] /\ aborted \in [Worker -> BOOLEAN]
  BY DEF IInv, TypeOK
<1>3. pc' \in [Worker -> Phases] /\ pc'[w] = "down"
  BY <1>2 DEF Exit, Goto, Phases
<1>4. claim' \in [Worker -> Claim] /\ claim'[w].run = NoRun
  BY <1>1, <1>2 DEF Exit, Forget
<1>5. /\ rev' \in [Worker -> Nat] /\ upto' \in [Worker -> Nat]
      /\ attempt' \in [Worker -> Nat] /\ aborted' \in [Worker -> BOOLEAN]
  BY <1>2 DEF Exit, Forget
<1>6. Only(w)
  BY <1>2 DEF Exit, Forget, Goto, Only
<1> QED
  BY <1>3, <1>4, <1>5, <1>6

\* A process that goes on with what it had.
LEMMA GotoKeeps ==
  ASSUME IInv, NEW w \in Worker, NEW p \in Phases, Goto(w, p), UNCHANGED <<claim, work>>
  PROVE  /\ Only(w) /\ pc'[w] = p /\ claim'[w].run = claim[w].run
         /\ pc' \in [Worker -> Phases] /\ claim' \in [Worker -> Claim]
         /\ rev' \in [Worker -> Nat] /\ upto' \in [Worker -> Nat]
         /\ attempt' \in [Worker -> Nat]
BY DEF IInv, TypeOK, Goto, Only, work

\* A drain that sees the abort signal changes no row.
LEMMA DrainAbortedStep ==
  ASSUME IInv, NEW w \in Worker, DrainAborted(w) \/ RetryAborted(w)
  PROVE  IInv'
<1>1. UNCHANGED <<feed, db, mode, claim, work, aborted, limits>> /\ Goto(w, AfterAbort(w))
  BY DEF DrainAborted, RetryAborted
<1>2. AfterAbort(w) \in {"acquire", "leave"} /\ AfterAbort(w) \in Phases
  BY DEF AfterAbort, Phases
<1>3. DbType' /\ DbOK' /\ Monotone /\ Quiet' = Quiet /\ StatusFrame
  BY <1>1, NoWrite
<1>4. ProcType'
  BY <1>1, <1>2, GotoKeeps, LimitsType DEF ProcType, IInv, TypeOK
<1>5. Only(w) /\ pc'[w] \in {"acquire", "leave"} /\ claim'[w].run = claim[w].run
  BY <1>1, <1>2, GotoKeeps
<1>6. WorkingOK(w)' /\ BatchOK(w)'
  BY <1>5, Outside
<1> QED
  BY <1>3, <1>4, <1>5, <1>6, StepFrame

\* A failed read changes no row.
LEMMA ReadFailsStep ==
  ASSUME IInv, NEW w \in Worker, ReadFails(w)
  PROVE  IInv'
<1>1. UNCHANGED <<feed, db, mode, claim, work, aborted>> /\ Goto(w, "failing") /\ Fault
  BY DEF ReadFails, Catch
<1>2. DbType' /\ DbOK' /\ Monotone /\ Quiet' = Quiet /\ StatusFrame
  BY <1>1, NoWrite
<1>3. /\ ProcType' /\ Only(w) /\ pc'[w] = "failing" /\ claim'[w].run = claim[w].run
  BY <1>1, GotoKeeps, LimitsType DEF ProcType, IInv, TypeOK, Phases
<1>4. WorkingOK(w)' /\ BatchOK(w)'
  BY <1>3, Outside
<1> QED
  BY <1>2, <1>3, <1>4, StepFrame

\* A crash leaves rows and claims behind and forgets the rest.
LEMMA CrashStep ==
  ASSUME IInv, NEW w \in Worker, Crash(w)
  PROVE  IInv'
<1>1. UNCHANGED <<feed, db, mode>> /\ Exit(w) /\ Fault
  BY DEF Crash
<1>2. DbType' /\ DbOK' /\ Monotone /\ Quiet' = Quiet /\ StatusFrame
  BY <1>1, NoWrite
<1>3. ProcType' /\ Only(w) /\ pc'[w] = "down" /\ claim'[w].run = NoRun
  BY <1>1, ExitKeeps, LimitsType DEF ProcType, IInv, TypeOK
<1>4. WorkingOK(w)' /\ BatchOK(w)'
  BY <1>3, Outside
<1> QED
  BY <1>2, <1>3, <1>4, StepFrame

\* A stop signal is only remembered.
LEMMA ShutdownStep ==
  ASSUME IInv, NEW w \in Worker, Shutdown(w)
  PROVE  IInv'
<1>1. /\ UNCHANGED <<feed, db, mode, claim, work>> /\ Order
      /\ aborted' = [aborted EXCEPT ![w] = TRUE]
      /\ IF pc[w] = "parked" THEN Goto(w, "leave") ELSE UNCHANGED pc
  BY DEF Shutdown
<1>2. DbType' /\ DbOK' /\ Monotone /\ Quiet' = Quiet /\ StatusFrame
  BY <1>1, NoWrite
<1>3. aborted' \in [Worker -> BOOLEAN] /\ UNCHANGED mode
  BY <1>1 DEF IInv, TypeOK
<1>4. CASE pc[w] = "parked"
  <2>1. ProcType' /\ Only(w) /\ pc'[w] = "leave" /\ claim'[w].run = claim[w].run
    BY <1>1, <1>3, <1>4, GotoKeeps, LimitsType DEF ProcType, IInv, TypeOK, Phases
  <2>2. WorkingOK(w)' /\ BatchOK(w)'
    BY <2>1, Outside
  <2> QED
    BY <1>2, <2>1, <2>2, StepFrame
<1>5. CASE pc[w] # "parked"
  <2>1. ProcType' /\ UNCHANGED <<pc, claim, rev, upto>>
    BY <1>1, <1>3, <1>5, LimitsType DEF ProcType, IInv, TypeOK, work
  <2> QED
    BY <1>2, <2>1, NoMove
<1> QED
  BY <1>4, <1>5

\* Steps that change nothing.
LEMMA StutterStep ==
  ASSUME IInv, UNCHANGED vars
  PROVE  IInv'
<1>1. DbType' /\ DbOK' /\ Monotone /\ Quiet' = Quiet /\ StatusFrame
  BY NoWrite DEF vars, feed, db
<1>2. ProcType' /\ UNCHANGED <<pc, claim, rev, upto>>
  BY DEF vars, ProcType, IInv, TypeOK
<1> QED
  BY <1>1, <1>2, NoMove

\* A canonical change: a position is allocated to the run that captures.
LEMMA JournalChangeStep ==
  ASSUME IInv, JournalChange
  PROVE  IInv'
<1>1. DbType' /\ DbOK' /\ Monotone /\ (Quiet => Quiet')
  BY JournalKeeps, TypeHasDb DEF IInv
<1>2. StatusFrame /\ UNCHANGED <<pc, claim, rev, upto>>
  BY DEF JournalChange, db, work, StatusFrame, IInv, TypeOK
<1>3. ProcType'
  BY LimitsType DEF JournalChange, work, ProcType, IInv, TypeOK
<1> QED
  BY <1>1, <1>2, <1>3, NoMove

\* The lease of the status row runs out.
LEMMA ExpireStatusStep ==
  ASSUME IInv, ExpireStatus
  PROVE  IInv'
<1>1. /\ UNCHANGED <<feed, runs, created, applied, pc, mode, claim, work, aborted>>
      /\ status' = [status EXCEPT !.live = FALSE]
      /\ UNCHANGED limits \/ Fault
  BY DEF ExpireStatus
<1>2. ClaimsOnly
  BY <1>1 DEF ClaimsOnly, SameCores, SameCore, feed, IInv, TypeOK
<1>3. DbType' /\ DbOK' /\ Monotone /\ Quiet' = Quiet
  BY <1>2, ClaimsOnlyKeeps, TypeHasDb DEF IInv
<1>4. StatusFrame
  BY <1>1 DEF StatusFrame, Status, IInv, TypeOK
<1>5. ProcType' /\ UNCHANGED <<pc, claim, rev, upto>>
  BY <1>1, LimitsType DEF ProcType, IInv, TypeOK, work
<1> QED
  BY <1>3, <1>4, <1>5, NoMove

\* The lease of a run claim runs out.
LEMMA ExpireRunStep ==
  ASSUME IInv, NEW r \in Runs, ExpireRun(r)
  PROVE  IInv'
<1>1. /\ UNCHANGED <<feed, created, applied, status, pc, mode, claim, work, aborted>>
      /\ runs' = [runs EXCEPT ![r].live = FALSE]
      /\ UNCHANGED limits \/ Fault
  BY DEF ExpireRun
<1>2. ClaimsOnly
  <2>1. runs \in [Runs -> Run]
    BY DEF IInv, TypeOK
  <2> DEFINE row == [runs[r] EXCEPT !.live = FALSE]
  <2>2. runs' = [runs EXCEPT ![r] = row] /\ row \in Run /\ SameCore(row, runs[r])
    BY <1>1, <2>1, ReleasedRow
  <2> HIDE DEF row
  <2>3. SameCores(runs, runs')
    BY <2>1, <2>2 DEF SameCores, SameCore
  <2> QED
    BY <1>1, <2>3 DEF ClaimsOnly, feed
<1>3. DbType' /\ DbOK' /\ Monotone /\ Quiet' = Quiet
  BY <1>2, ClaimsOnlyKeeps, TypeHasDb DEF IInv
<1>4. StatusFrame
  BY <1>1 DEF StatusFrame, IInv, TypeOK
<1>5. ProcType' /\ UNCHANGED <<pc, claim, rev, upto>>
  BY <1>1, LimitsType DEF ProcType, IInv, TypeOK, work
<1> QED
  BY <1>3, <1>4, <1>5, NoMove

\* A process starts, as a new owner.
LEMMA StartStep ==
  ASSUME IInv, NEW w \in Worker, NEW m \in Modes, Start(w, m)
  PROVE  IInv'
<1>1. /\ UNCHANGED <<feed, created, applied, claim, work, aborted>>
      /\ runs' = [r \in Runs |-> Disowned(runs[r], w)]
      /\ status' = Disowned(status, w)
      /\ mode' = [mode EXCEPT ![w] = m]
      /\ Goto(w, "acquire")
      /\ UNCHANGED limits \/ Order
  BY DEF Start
<1>2. ClaimsOnly
  <2>1. \A r \in Runs : runs[r] \in Run
    BY DEF IInv, TypeOK
  <2>2. \A r \in Runs : Disowned(runs[r], w) \in Run /\ SameCore(Disowned(runs[r], w), runs[r])
    BY <2>1, ReleasedRow DEF Disowned, SameCore
  <2> QED
    BY <1>1, <2>2 DEF ClaimsOnly, SameCores, feed
<1>3. DbType' /\ DbOK' /\ Monotone /\ Quiet' = Quiet
  BY <1>2, ClaimsOnlyKeeps, TypeHasDb DEF IInv
<1>4. StatusFrame
  <2>1. status \in Status
    BY DEF IInv, TypeOK
  <2> QED
    BY <1>1, <2>1, NullsAssumption DEF StatusFrame, Status, Disowned
<1>5. ProcType' /\ Only(w) /\ pc'[w] = "acquire" /\ claim'[w].run = claim[w].run
  BY <1>1, GotoKeeps, LimitsType DEF ProcType, IInv, TypeOK, Phases
<1>6. WorkingOK(w)' /\ BatchOK(w)'
  BY <1>5, Outside
<1> QED
  BY <1>3, <1>4, <1>5, <1>6, StepFrame

\* A failed worker records its failure and ends.
LEMMA FailStep ==
  ASSUME IInv, NEW w \in Worker, Fail(w)
  PROVE  IInv'
<1>1. Exit(w) /\ UNCHANGED <<feed, mode>> /\ (UNCHANGED limits \/ Fault)
  BY DEF Fail
<1>2. UNCHANGED db \/ Release(w, "failed")
  BY DEF Fail
<1>3. DbType' /\ DbOK' /\ Monotone /\ (Quiet => Quiet') /\ StatusFrame
  <2>1. CASE UNCHANGED db
    BY <1>1, <2>1, NoWrite
  <2>2. CASE Release(w, "failed")
    BY <1>1, <2>2, ReleaseKeeps DEF StatusFrame, Lifecycles
  <2> QED
    BY <1>2, <2>1, <2>2
<1>4. ProcType' /\ Only(w) /\ pc'[w] = "down" /\ claim'[w].run = NoRun
  BY <1>1, ExitKeeps, LimitsType DEF ProcType, IInv, TypeOK
<1>5. WorkingOK(w)' /\ BatchOK(w)'
  BY <1>4, Outside
<1> QED
  BY <1>3, <1>4, <1>5, StepFrame

\* The last heartbeat releases what the worker drained and ends.
LEMMA LeaveStep ==
  ASSUME IInv, NEW w \in Worker, Leave(w)
  PROVE  IInv'
<1>1. /\ UNCHANGED <<feed, mode>>
      /\ UNCHANGED limits \/ Fault
      /\ UNCHANGED db \/ Release(w, "stopped")
      /\ Exit(w) \/ (Goto(w, "failing") /\ UNCHANGED <<claim, work, aborted>>)
  BY DEF Leave, Catch
<1>2. DbType' /\ DbOK' /\ Monotone /\ (Quiet => Quiet') /\ StatusFrame
  <2>1. CASE UNCHANGED db
    BY <1>1, <2>1, NoWrite
  <2>2. CASE Release(w, "stopped")
    BY <1>1, <2>2, ReleaseKeeps DEF StatusFrame, Lifecycles
  <2> QED
    BY <1>1, <2>1, <2>2
<1>3. /\ ProcType' /\ Only(w) /\ pc'[w] \in {"down", "failing"}
      /\ claim'[w].run \in {claim[w].run, NoRun}
  <2>1. CASE Exit(w)
    BY <1>1, <2>1, ExitKeeps, LimitsType DEF ProcType, IInv, TypeOK
  <2>2. CASE Goto(w, "failing") /\ UNCHANGED <<claim, work, aborted>>
    BY <1>1, <2>2, GotoKeeps, LimitsType DEF ProcType, IInv, TypeOK, Phases
  <2> QED
    BY <1>1, <2>1, <2>2
<1>4. WorkingOK(w)' /\ BatchOK(w)'
  BY <1>3, Outside
<1> QED
  BY <1>2, <1>3, <1>4, StepFrame

\* In the drain loop, but with no batch.
LEMMA Inside ==
  ASSUME IInv, NEW w \in Worker, claim'[w].run = claim[w].run,
         pc[w] \in {"backlog", "read", "complete", "commit", "retry"},
         pc'[w] \notin {"commit", "retry"}
  PROVE  WorkingOK(w)' /\ BatchOK(w)'
BY DEF WorkingOK, BatchOK, IInv, ProcOK

\* refreshBacklog renews the claims it checked.
LEMMA RefreshBacklogStep ==
  ASSUME IInv, NEW w \in Worker, RefreshBacklog(w)
  PROVE  IInv'
<1> DEFINE written == status' = [status EXCEPT !.lifecycle = IF @ = "starting" THEN "running" ELSE @]
<1>1. /\ pc[w] = "backlog"
      /\ UNCHANGED <<feed, mode, aborted, runs, created, applied>>
      /\ written \/ UNCHANGED status
      /\ Goto(w, "read") \/ Goto(w, "failing")
      /\ UNCHANGED <<claim, work>>
      /\ UNCHANGED limits \/ Fault
  BY DEF RefreshBacklog, Transaction, Catch, db
<1>2. ClaimsOnly
  BY <1>1 DEF ClaimsOnly, SameCores, SameCore, feed, IInv, TypeOK
<1>3. DbType' /\ DbOK' /\ Monotone /\ Quiet' = Quiet
  BY <1>2, ClaimsOnlyKeeps, TypeHasDb DEF IInv
<1>4. StatusFrame
  BY <1>1 DEF StatusFrame, Status, Lifecycles, IInv, TypeOK
<1>5. /\ ProcType' /\ Only(w) /\ pc'[w] \in {"read", "failing"}
      /\ claim'[w].run = claim[w].run
  BY <1>1, GotoKeeps, LimitsType DEF ProcType, IInv, TypeOK, Phases
<1>6. WorkingOK(w)' /\ BatchOK(w)'
  BY <1>1, <1>5, Inside
<1> QED
  BY <1>3, <1>4, <1>5, <1>6, StepFrame

\* The batch read holds pending revisions of the claimed run only.
LEMMA ReadRevisionsStep ==
  ASSUME IInv, NEW w \in Worker, ReadRevisions(w)
  PROVE  IInv'
<1>1. pc[w] = "read" /\ UNCHANGED <<feed, db, mode, claim, aborted, limits>>
  BY DEF ReadRevisions
<1>2. DbType' /\ DbOK' /\ Monotone /\ Quiet' = Quiet /\ StatusFrame
  BY <1>1, NoWrite
<1>3. CASE \E p \in {"complete", "backlog", "failing"} : Goto(w, p) /\ UNCHANGED work
  <2>1. /\ ProcType' /\ Only(w) /\ pc'[w] \in {"complete", "backlog", "failing"}
        /\ claim'[w].run = claim[w].run
    BY <1>1, <1>3, GotoKeeps, LimitsType DEF ProcType, IInv, TypeOK, Phases
  <2>2. WorkingOK(w)' /\ BatchOK(w)'
    BY <1>1, <2>1, Inside
  <2> QED
    BY <1>2, <2>1, <2>2, StepFrame
<1>4. CASE \E k \in 1..BatchSize :
             /\ Batch(claim[w], k)
             /\ rev' = [rev EXCEPT ![w] = claim[w].cursor + 1]
             /\ upto' = [upto EXCEPT ![w] = claim[w].cursor + k]
             /\ attempt' = [attempt EXCEPT ![w] = 1]
             /\ Goto(w, "commit")
  <2>1. PICK k \in 1..BatchSize :
             /\ Batch(claim[w], k)
             /\ rev' = [rev EXCEPT ![w] = claim[w].cursor + 1]
             /\ upto' = [upto EXCEPT ![w] = claim[w].cursor + k]
             /\ attempt' = [attempt EXCEPT ![w] = 1]
             /\ Goto(w, "commit")
    BY <1>4
  <2>2. claim[w].cursor \in Nat /\ k \in Nat /\ 1 <= k
    BY LimitsAssumption, ProcTypes DEF IInv, Claim
  <2>3. ProcType' /\ Only(w) /\ pc'[w] = "commit" /\ claim'[w].run = claim[w].run
    <3>1. rev' \in [Worker -> Nat] /\ upto' \in [Worker -> Nat] /\ attempt' \in [Worker -> Nat]
      BY <2>1, <2>2 DEF IInv, TypeOK
    <3>2. pc' \in [Worker -> Phases] /\ pc'[w] = "commit"
      BY <2>1 DEF Goto, Phases, IInv, TypeOK
    <3>3. Only(w)
      BY <1>1, <2>1 DEF Only, Goto, IInv, TypeOK
    <3> QED
      BY <1>1, <3>1, <3>2, <3>3, LimitsType DEF ProcType, IInv, TypeOK
  <2>4. rev'[w] = claim[w].cursor + 1 /\ upto'[w] = claim[w].cursor + k
    BY <2>1 DEF IInv, TypeOK
  <2>5. WorkingOK(w)'
    BY <1>1 DEF WorkingOK, IInv, ProcOK
  <2>6. BatchOK(w)'
    <3>1. \A p \in (claim[w].cursor + 1)..(claim[w].cursor + k) :
            p \in Positions /\ journal[p] = claim[w].run
      BY <2>1 DEF Batch, Wanted
    <3> QED
      BY <1>1, <2>2, <2>4, <3>1 DEF BatchOK, feed
  <2> QED
    BY <1>2, <2>3, <2>5, <2>6, StepFrame
<1> QED
  BY <1>3, <1>4 DEF ReadRevisions

\* The drained run is completed, or kept with its claim.
LEMMA CompleteIfDrainedStep ==
  ASSUME IInv, NEW w \in Worker, CompleteIfDrained(w)
  PROVE  IInv'
<1>1. /\ pc[w] = "complete"
      /\ UNCHANGED <<feed, mode, aborted, created, applied, status, claim, work>>
      /\ UNCHANGED runs
         \/ (/\ runs[claim[w].run].state = "closing"
             /\ runs[claim[w].run].cursor = runs[claim[w].run].stop
             /\ runs' = Completed(claim[w].run))
      /\ \E p \in {"acquire", "leave", "failing"} : Goto(w, p)
      /\ UNCHANGED limits \/ Fault
  BY DEF CompleteIfDrained, Transaction, Catch, AfterAbort, db
<1>2. claim[w].run \in Runs
  BY <1>1, ProcTypes DEF IInv, ProcOK, WorkingOK
<1>3. DbType' /\ DbOK' /\ Monotone /\ (Quiet => Quiet')
  <2>1. CASE UNCHANGED runs
    BY <1>1, <2>1, NoWrite DEF db
  <2>2. CASE ~UNCHANGED runs
    <3>1. Completing(w)
      BY <1>1, <2>2 DEF Completing, feed
    <3> QED
      BY <1>2, <3>1, CompletingKeeps, TypeHasDb DEF IInv
  <2> QED
    BY <2>1, <2>2
<1>4. StatusFrame
  BY <1>1 DEF StatusFrame, IInv, TypeOK
<1>5. /\ ProcType' /\ Only(w) /\ pc'[w] \in {"acquire", "leave", "failing"}
      /\ claim'[w].run = claim[w].run
  BY <1>1, GotoKeeps, LimitsType DEF ProcType, IInv, TypeOK, Phases
<1>6. WorkingOK(w)' /\ BatchOK(w)'
  BY <1>5, Outside
<1> QED
  BY <1>3, <1>4, <1>5, <1>6, StepFrame

\* A claim read back from the rows.
LEMMA ClaimOfType ==
  ASSUME runs' \in [Runs -> Run], status' \in Status, NEW r \in Runs
  PROVE  ClaimOf(r) \in Claim /\ ClaimOf(r).run = r
BY DEF ClaimOf, Claim, Run, Status

\* After a revision the process goes on with the rest of the batch or leaves it.
LEMMA NextRevisionKeeps ==
  ASSUME IInv, NEW w \in Worker, pc[w] \in {"commit", "retry"}, NextRevision(w),
         runs' \in [Runs -> Run], status' \in Status, UNCHANGED journal,
         claim' = [claim EXCEPT ![w] = ClaimOf(claim[w].run)]
  PROVE  /\ pc' \in [Worker -> Phases] /\ claim' \in [Worker -> Claim]
         /\ rev' \in [Worker -> Nat] /\ upto' \in [Worker -> Nat]
         /\ attempt' \in [Worker -> Nat]
         /\ Only(w) /\ pc'[w] # "quiet" /\ claim'[w].run = claim[w].run
         /\ WorkingOK(w)' /\ BatchOK(w)'
<1>1. /\ pc \in [Worker -> Phases] /\ claim \in [Worker -> Claim]
      /\ rev \in [Worker -> Nat] /\ upto \in [Worker -> Nat] /\ attempt \in [Worker -> Nat]
  BY DEF IInv, TypeOK
<1>2. claim[w].run # NoRun /\ claim[w].run \in Runs
  BY ProcTypes DEF IInv, ProcOK, WorkingOK
<1>3. claim' \in [Worker -> Claim] /\ claim'[w].run = claim[w].run
  BY <1>1, <1>2, ClaimOfType
<1>4. /\ rev[w] <= upto[w]
      /\ \A p \in rev[w]..upto[w] : p \in Positions /\ journal[p] = claim[w].run
  BY DEF IInv, ProcOK, BatchOK
<1>5. CASE rev[w] = upto[w] \/ aborted[w]
  <2>1. \E p \in {"backlog", "acquire", "leave"} : Goto(w, p) /\ UNCHANGED work
    BY <1>5 DEF NextRevision, AfterAbort
  <2>2. pc' \in [Worker -> Phases] /\ pc'[w] \in {"backlog", "acquire", "leave"}
    BY <1>1, <2>1 DEF Goto, Phases
  <2>3. Only(w)
    BY <1>1, <2>1 DEF Only, Goto, work
  <2>4. WorkingOK(w)' /\ BatchOK(w)'
    BY <1>3, <2>2, Inside
  <2> QED
    BY <1>1, <1>3, <2>1, <2>2, <2>3, <2>4 DEF work
<1>6. CASE ~(rev[w] = upto[w] \/ aborted[w])
  <2>1. /\ rev' = [rev EXCEPT ![w] = rev[w] + 1] /\ Goto(w, "commit")
        /\ attempt' = [attempt EXCEPT ![w] = 1] /\ UNCHANGED upto
    BY <1>6 DEF NextRevision
  <2>2. pc' \in [Worker -> Phases] /\ pc'[w] = "commit"
    BY <1>1, <2>1 DEF Goto, Phases
  <2>3. /\ rev' \in [Worker -> Nat] /\ attempt' \in [Worker -> Nat] /\ upto' \in [Worker -> Nat]
        /\ rev'[w] = rev[w] + 1 /\ upto'[w] = upto[w]
    BY <1>1, <2>1
  <2>4. Only(w)
    BY <1>1, <2>1 DEF Only, Goto
  <2>5. WorkingOK(w)'
    BY <1>2, <1>3 DEF WorkingOK
  <2>6. BatchOK(w)'
    <3>1. rev[w] \in Nat /\ upto[w] \in Nat /\ rev[w] # upto[w]
      BY <1>1, <1>6
    <3>2. rev[w] + 1 <= upto[w] /\ \A p \in (rev[w] + 1)..upto[w] : p \in rev[w]..upto[w]
      BY <1>4, <3>1
    <3> QED
      BY <1>3, <1>4, <2>3, <3>2 DEF BatchOK
  <2> QED
    BY <1>3, <2>2, <2>3, <2>4, <2>5, <2>6
<1> QED
  BY <1>5, <1>6

\* What is left of the batch, with the revision at hand in it.
LEMMA BatchFacts ==
  ASSUME IInv, NEW w \in Worker, pc[w] \in {"commit", "retry"}
  PROVE  /\ claim[w].run \in Runs
         /\ rev[w] \in Positions
         /\ journal[rev[w]] = claim[w].run
<1>1. claim[w].run \in Runs
  BY ProcTypes DEF IInv, ProcOK, WorkingOK
<1>2. rev[w] \in rev[w]..upto[w]
  BY ProcTypes DEF IInv, ProcOK, BatchOK
<1> QED
  BY <1>1, <1>2 DEF IInv, ProcOK, BatchOK

\* What CommitRevision does to the database.
LEMMA CommitRevisionWrites ==
  ASSUME IInv, NEW w \in Worker, CommitRevision(w)
  PROVE  /\ UNCHANGED db \/ Committing(w)
         /\ DbType' /\ DbOK' /\ Monotone /\ (Quiet => Quiet') /\ StatusFrame
<1> DEFINE written == status' = [status EXCEPT !.lifecycle = "running"]
<1>1. pc[w] = "commit" /\ UNCHANGED feed
  BY DEF CommitRevision
<1>2. UNCHANGED db \/ (Committing(w) /\ written)
  BY DEF CommitRevision, Transaction, Committing, feed
<1>3. CASE UNCHANGED db
  BY <1>1, <1>3, NoWrite
<1>4. CASE Committing(w) /\ written
  <2>1. DbType' /\ DbOK' /\ Monotone /\ (Quiet => Quiet')
    BY <1>1, <1>4, BatchFacts, CommittingKeeps, TypeHasDb DEF IInv
  <2>2. StatusFrame
    BY <1>4 DEF StatusFrame, Status, Lifecycles, IInv, TypeOK
  <2> QED
    BY <1>4, <2>1, <2>2
<1> QED
  BY <1>2, <1>3, <1>4

\* One revision is committed, with its reply or without.
LEMMA CommitRevisionStep ==
  ASSUME IInv, NEW w \in Worker, CommitRevision(w)
  PROVE  IInv'
<1>1. /\ pc[w] = "commit" /\ UNCHANGED <<feed, mode, aborted>>
      /\ UNCHANGED limits \/ Fault
  BY DEF CommitRevision, Transaction
<1>2. DbType' /\ DbOK' /\ Monotone /\ (Quiet => Quiet') /\ StatusFrame
  BY CommitRevisionWrites
<1>3. CASE claim' = [claim EXCEPT ![w] = ClaimOf(claim[w].run)] /\ NextRevision(w)
  <2>1. runs' \in [Runs -> Run] /\ status' \in Status /\ UNCHANGED journal
    BY <1>1, <1>2 DEF DbType, StatusFrame, feed
  <2>2. /\ pc' \in [Worker -> Phases] /\ claim' \in [Worker -> Claim]
        /\ rev' \in [Worker -> Nat] /\ upto' \in [Worker -> Nat]
        /\ attempt' \in [Worker -> Nat]
        /\ Only(w) /\ pc'[w] # "quiet" /\ claim'[w].run = claim[w].run
        /\ WorkingOK(w)' /\ BatchOK(w)'
    BY <1>1, <1>3, <2>1, NextRevisionKeeps
  <2>3. ProcType'
    BY <1>1, <2>2, LimitsType DEF ProcType, IInv, TypeOK
  <2> QED
    BY <1>2, <2>2, <2>3, StepFrame
<1>4. CASE (\E p \in {"failing", "retry"} : Goto(w, p)) /\ UNCHANGED <<claim, work>>
  <2>1. /\ ProcType' /\ Only(w) /\ pc'[w] \in {"failing", "retry"}
        /\ claim'[w].run = claim[w].run
    BY <1>1, <1>4, GotoKeeps, LimitsType DEF ProcType, IInv, TypeOK, Phases
  <2>2. WorkingOK(w)' /\ BatchOK(w)'
    BY <1>1, <1>4, <2>1 DEF WorkingOK, BatchOK, IInv, ProcOK, feed, work
  <2> QED
    BY <1>2, <2>1, <2>2, StepFrame
<1> QED
  BY <1>3, <1>4 DEF CommitRevision, Transaction

\* After an uncertain commit the claim and its cursor are read again.
LEMMA RefreshClaimStep ==
  ASSUME IInv, NEW w \in Worker, RefreshClaim(w)
  PROVE  IInv'
<1>1. /\ pc[w] = "retry" /\ UNCHANGED <<feed, db, mode, aborted>>
      /\ UNCHANGED limits \/ Fault
  BY DEF RefreshClaim, Transaction
<1>2. DbType' /\ DbOK' /\ Monotone /\ Quiet' = Quiet /\ StatusFrame
  BY <1>1, NoWrite
<1>3. CASE Catch(w)
  <2>1. ProcType' /\ Only(w) /\ pc'[w] = "failing" /\ claim'[w].run = claim[w].run
    BY <1>1, <1>3, GotoKeeps, LimitsType DEF Catch, ProcType, IInv, TypeOK, Phases
  <2>2. WorkingOK(w)' /\ BatchOK(w)'
    BY <2>1, Outside
  <2> QED
    BY <1>2, <2>1, <2>2, StepFrame
<1>4. CASE claim' = [claim EXCEPT ![w] = ClaimOf(claim[w].run)] /\ NextRevision(w)
  <2>1. runs' \in [Runs -> Run] /\ status' \in Status /\ UNCHANGED journal
    BY <1>1, <1>2 DEF DbType, StatusFrame, feed
  <2>2. /\ pc' \in [Worker -> Phases] /\ claim' \in [Worker -> Claim]
        /\ rev' \in [Worker -> Nat] /\ upto' \in [Worker -> Nat]
        /\ attempt' \in [Worker -> Nat]
        /\ Only(w) /\ pc'[w] # "quiet" /\ claim'[w].run = claim[w].run
        /\ WorkingOK(w)' /\ BatchOK(w)'
    BY <1>1, <1>4, <2>1, NextRevisionKeeps
  <2>3. ProcType'
    BY <1>1, <2>2, LimitsType DEF ProcType, IInv, TypeOK
  <2> QED
    BY <1>2, <2>2, <2>3, StepFrame
<1>5. CASE /\ claim' = [claim EXCEPT ![w] = ClaimOf(claim[w].run)]
           /\ attempt' = [attempt EXCEPT ![w] = @ + 1]
           /\ Goto(w, "commit")
           /\ UNCHANGED <<rev, upto>>
  <2>1. runs' \in [Runs -> Run] /\ status' \in Status
    BY <1>2 DEF DbType, StatusFrame
  <2>2. claim' \in [Worker -> Claim] /\ claim'[w].run = claim[w].run
    BY <1>1, <1>5, <2>1, BatchFacts, ClaimOfType DEF IInv, TypeOK
  <2>3. attempt' \in [Worker -> Nat]
    BY <1>5 DEF IInv, TypeOK
  <2>4. pc' \in [Worker -> Phases] /\ pc'[w] = "commit" /\ Only(w)
    BY <1>5 DEF Goto, Phases, Only, IInv, TypeOK
  <2>5. ProcType'
    BY <1>1, <1>5, <2>2, <2>3, <2>4, LimitsType DEF ProcType, IInv, TypeOK
  <2>6. WorkingOK(w)' /\ BatchOK(w)'
    BY <1>1, <1>5, <2>2 DEF WorkingOK, BatchOK, IInv, ProcOK, feed
  <2> QED
    BY <1>2, <2>2, <2>4, <2>5, <2>6, StepFrame
<1> QED
  BY <1>3, <1>4, <1>5 DEF RefreshClaim, Transaction

\* The heartbeat of a disabled worker.
LEMMA ReportDisabledStep ==
  ASSUME IInv, NEW w \in Worker, ReportDisabled(w)
  PROVE  IInv'
<1>1. /\ pc[w] = "quiet" /\ UNCHANGED <<feed, mode, aborted, claim, work>>
      /\ UNCHANGED limits \/ Fault
      /\ UNCHANGED db \/ Release(w, "disabled")
      /\ \E p \in {"deaf", "parked", "failing"} : Goto(w, p)
  BY DEF ReportDisabled, Transaction, Catch
<1>2. DbType' /\ DbOK' /\ Monotone /\ (Quiet => Quiet') /\ StatusFrame
  <2>1. CASE UNCHANGED db
    BY <1>1, <2>1, NoWrite
  <2>2. CASE Release(w, "disabled")
    <3>1. status.owner = w => Quiet
      BY <1>1 DEF IInv, ProcOK, QuietOK
    <3> QED
      BY <1>1, <2>2, <3>1, ReleaseKeeps DEF StatusFrame, Lifecycles
  <2> QED
    BY <1>1, <2>1, <2>2
<1>3. /\ ProcType' /\ Only(w) /\ pc'[w] \in {"deaf", "parked", "failing"}
      /\ claim'[w].run = claim[w].run
  BY <1>1, GotoKeeps, LimitsType DEF ProcType, IInv, TypeOK, Phases
<1>4. WorkingOK(w)' /\ BatchOK(w)'
  BY <1>3, Outside
<1> QED
  BY <1>2, <1>3, <1>4, StepFrame

\* Whatever run a cutover hands out, every earlier run has completed.
LEMMA HandoutIsOldest ==
  ASSUME DbType', DbOK', NEW r \in Runs,
         \/ r = NextClosing(runs') /\ Closing(runs') # {}
         \/ runs'[r].capture /\ Closing(runs') = {}
  PROVE  r \in 1..created' /\ \A q \in 1..(r - 1) : runs'[q].state = "completed"
<1>1. runs' \in [Runs -> Run] /\ created' \in Nat /\ r \in Nat /\ r >= 1
  BY BoundsAssumption DEF DbType, Runs
<1>2. runs'[r].state = "closing" \/ runs'[r].capture
  BY <1>1, NextClosingIsOldest
<1>3. r \in 1..created'
  BY <1>1, <1>2 DEF DbOK, RowsOK, RowOK
<1>4. ASSUME NEW q \in 1..(r - 1) PROVE runs'[q].state = "completed"
  <2>1. q \in Runs /\ q \in 1..created' /\ q < r
    BY <1>1, <1>3, BoundsAssumption DEF Runs
  <2>2. runs'[q].state # "closing"
    BY <1>1, <2>1, NextClosingIsOldest DEF Closing
  <2>3. ~runs'[q].capture
    BY <1>3, <2>1 DEF DbOK, JournalIsPartitioned
  <2>4. ~(q > created')
    BY <1>1, <2>1
  <2>5. /\ runs'[q].state # "absent"
        /\ runs'[q].state # "pending" /\ runs'[q].state # "active"
    BY <2>1, <2>3, <2>4 DEF DbOK, RowsOK, RowOK
  <2>6. runs'[q].state \in States
    BY <1>1, <2>1 DEF Run
  <2> QED
    BY <2>2, <2>5, <2>6 DEF States
<1> QED
  BY <1>3, <1>4

\* The status claim is taken by the process that makes the step.
LEMMA TakeFrame ==
  ASSUME IInv, NEW w \in Worker, ProcType', DbType', DbOK', Monotone,
         status' \in Status, status'.owner = w, Only(w),
         status'.lifecycle = "disabled" => Quiet',
         pc'[w] = "quiet" => Quiet',
         ClaimOK(w)', WorkingOK(w)', BatchOK(w)'
  PROVE  IInv'
<1>1. TypeOK'
  BY TypeSplits DEF TypeOK, DbType, ProcType
<1>2. DisabledIsQuiet'
  BY DEF DisabledIsQuiet, Quiet
<1>3. ASSUME NEW v \in Worker PROVE ProcOK(v)'
  <2>1. CASE v = w
    BY <2>1 DEF ProcOK, QuietOK
  <2>2. CASE v # w
    BY <2>2, OthersKeep DEF Only, ProcOK, QuietOK
  <2> QED
    BY <2>1, <2>2
<1> QED
  BY <1>1, <1>2, <1>3 DEF IInv

\* The status row after a process took it.
LEMMA StatusTakenType ==
  ASSUME TypeOK, NEW w \in Worker, NEW lifecycle \in Lifecycles
  PROVE  /\ StatusTaken(w, lifecycle) \in Status
         /\ StatusTaken(w, lifecycle).owner = w
         /\ StatusTaken(w, lifecycle).lifecycle = lifecycle
BY DEF TypeOK, StatusTaken, Status

\* Entering the drain loop, or leaving it, with a new claim or none.
LEMMA Entering ==
  ASSUME IInv, NEW w \in Worker, NEW c \in Claim, NEW p \in Phases,
         p \notin {"read", "complete", "commit", "retry"},
         p = "backlog" => c.run # NoRun,
         claim' = [claim EXCEPT ![w] = c], Goto(w, p), UNCHANGED work
  PROVE  /\ pc' \in [Worker -> Phases] /\ claim' \in [Worker -> Claim]
         /\ rev' \in [Worker -> Nat] /\ upto' \in [Worker -> Nat]
         /\ attempt' \in [Worker -> Nat]
         /\ Only(w) /\ pc'[w] = p /\ claim'[w] = c
         /\ WorkingOK(w)' /\ BatchOK(w)'
<1>1. /\ pc' \in [Worker -> Phases] /\ claim' \in [Worker -> Claim]
      /\ pc'[w] = p /\ claim'[w] = c /\ Only(w)
  BY DEF Goto, Only, work, IInv, TypeOK
<1>2. rev' \in [Worker -> Nat] /\ upto' \in [Worker -> Nat] /\ attempt' \in [Worker -> Nat]
  BY DEF work, IInv, TypeOK
<1> QED
  BY <1>1, <1>2 DEF WorkingOK, BatchOK

\* A failed transaction of the acquisition.
LEMMA AcquireFails ==
  ASSUME IInv, NEW w \in Worker, Catch(w), UNCHANGED <<feed, mode, aborted>>,
         UNCHANGED limits \/ Fault
  PROVE  /\ ProcType' /\ Only(w) /\ pc'[w] = "failing" /\ claim'[w].run = claim[w].run
         /\ WorkingOK(w)' /\ BatchOK(w)'
<1>1. ProcType' /\ Only(w) /\ pc'[w] = "failing" /\ claim'[w].run = claim[w].run
  BY GotoKeeps, LimitsType DEF Catch, ProcType, IInv, TypeOK, Phases
<1> QED
  BY <1>1, Outside

\* What the commit of enableOrResume does to the database.
LEMMA EnableWrites ==
  ASSUME IInv, NEW w \in Worker, mode[w] \in Config, Matches(w) \/ created < MaxRuns,
         UNCHANGED <<feed, applied>>,
         runs' = EnabledRuns(w), created' = IF Matches(w) THEN created ELSE created + 1
  PROVE  /\ DbType' /\ DbOK' /\ Monotone
         /\ \E r \in Runs : runs'[r].capture
<1>1. TypeOK /\ DbType /\ DbOK /\ runs \in [Runs -> Run] /\ created \in Nat
  BY TypeHasDb, BoundsAssumption DEF IInv, TypeOK
<1>2. CASE Matches(w)
  <2>1. CaptureRuns # {}
    BY <1>2 DEF Matches
  <2> DEFINE r == First(CaptureRuns)
             ss == Taken(runs, r, w)
  <2>2. r \in Runs /\ runs[r].capture
    BY <1>1, <2>1, CaptureIsFirst
  <2>3. ss \in [Runs -> Run] /\ \A q \in Runs : SameCore(ss[q], runs[q])
    BY <1>1, <2>2, TakenCore
  <2>4. runs' = TakeClosing(ss, w)
    BY <1>2 DEF EnabledRuns
  <2> HIDE DEF ss, r
  <2>5. SameCores(runs, runs')
    BY <2>3, <2>4, TakeClosingCore DEF SameCores, SameCore
  <2>6. ClaimsOnly
    BY <1>2, <2>5 DEF ClaimsOnly, feed
  <2>7. runs'[r].capture
    BY <2>2, <2>5 DEF SameCores, SameCore
  <2> QED
    BY <1>1, <2>2, <2>6, <2>7, ClaimsOnlyKeeps
<1>3. CASE ~Matches(w)
  <2> DEFINE ss == [FreezeCapture(runs) EXCEPT ![created + 1] = NewRun(w)]
  <2>1. created + 1 \in Runs /\ created < MaxRuns
    BY <1>1, <1>3, BoundsAssumption DEF Runs
  <2>2. FreezeCapture(runs) \in [Runs -> Run] /\ NewRun(w) \in Run
    BY <1>1, FreezeType, NewRunType
  <2>3. ss \in [Runs -> Run] /\ ss[created + 1].capture = TRUE
    BY <2>1, <2>2 DEF NewRun
  <2>4. runs' = TakeClosing(ss, w)
    BY <1>3 DEF EnabledRuns
  <2>5. SameCores(ss, runs')
    <3> HIDE DEF ss
    <3> QED
      BY <2>3, <2>4, TakeClosingCore DEF SameCores
  <2>6. Opening(w)
    BY <1>3, <2>1, <2>5 DEF Opening, feed
  <2>7. runs'[created + 1].capture
    <3> HIDE DEF ss
    <3> QED
      BY <2>1, <2>3, <2>5 DEF SameCores, SameCore
  <2> QED
    BY <1>1, <2>1, <2>6, <2>7, OpeningKeeps
<1> QED
  BY <1>2, <1>3

\* enableOrResume: the cutover to a configuration.
LEMMA EnableStep ==
  ASSUME IInv, NEW w \in Worker, Enable(w)
  PROVE  IInv'
<1> DEFINE commit == /\ runs' = EnabledRuns(w)
                     /\ created' = IF Matches(w) THEN created ELSE created + 1
                     /\ status' = StatusTaken(w, "starting")
                     /\ UNCHANGED applied
           acknowledged == /\ claim' = [claim EXCEPT ![w] = ClaimOf(RunToDrain(runs'))]
                           /\ Goto(w, IF aborted[w] THEN "leave" ELSE "backlog")
                           /\ UNCHANGED work
<1>1. /\ mode[w] \in Config /\ (Matches(w) \/ created < MaxRuns)
      /\ UNCHANGED <<feed, mode, aborted>>
      /\ UNCHANGED limits \/ Fault
  BY DEF Enable, Transaction
<1>2. (commit /\ acknowledged) \/ (commit /\ Catch(w)) \/ (UNCHANGED db /\ Catch(w))
  BY DEF Enable, Transaction
<1>3. CASE UNCHANGED db /\ Catch(w)
  <2>1. DbType' /\ DbOK' /\ Monotone /\ Quiet' = Quiet /\ StatusFrame
    BY <1>1, <1>3, NoWrite
  <2>2. /\ ProcType' /\ Only(w) /\ pc'[w] = "failing" /\ claim'[w].run = claim[w].run
        /\ WorkingOK(w)' /\ BatchOK(w)'
    BY <1>1, <1>3, AcquireFails
  <2> QED
    BY <2>1, <2>2, StepFrame
<1>4. ASSUME commit
      PROVE  /\ DbType' /\ DbOK' /\ Monotone
             /\ \E r \in Runs : runs'[r].capture
             /\ status' \in Status /\ status'.owner = w /\ status'.lifecycle = "starting"
  BY <1>1, <1>4, EnableWrites, StatusTakenType DEF IInv, Lifecycles
<1>5. CASE commit /\ Catch(w)
  <2>1. /\ ProcType' /\ Only(w) /\ pc'[w] = "failing" /\ claim'[w].run = claim[w].run
        /\ WorkingOK(w)' /\ BatchOK(w)'
    BY <1>1, <1>5, AcquireFails
  <2>2. ClaimOK(w)'
    BY <1>4, <1>5, <2>1, SameRunClaim
  <2> QED
    BY <1>4, <1>5, <2>1, <2>2, TakeFrame
<1>6. CASE commit /\ acknowledged
  <2> DEFINE r == RunToDrain(runs')
             p == IF aborted[w] THEN "leave" ELSE "backlog"
  <2>1. /\ r \in Runs
        /\ \/ r = NextClosing(runs') /\ Closing(runs') # {}
           \/ runs'[r].capture /\ Closing(runs') = {}
    <3>1. CASE Closing(runs') # {}
      BY <1>4, <1>6, <3>1, NextClosingIsOldest DEF RunToDrain, DbType
    <3>2. CASE Closing(runs') = {}
      <4> DEFINE S == {x \in Runs : runs'[x].capture}
      <4>1. S # {} /\ S \in SUBSET Nat
        BY <1>4, <1>6 DEF Runs
      <4>2. First(S) \in S
        BY <4>1, FirstIsLeast
      <4>3. r = First(S)
        BY <3>2 DEF RunToDrain
      <4> QED
        BY <3>2, <4>2, <4>3
    <3> QED
      BY <3>1, <3>2
  <2> HIDE DEF r
  <2>2. r \in 1..created' /\ \A q \in 1..(r - 1) : runs'[q].state = "completed"
    BY <1>4, <1>6, <2>1, HandoutIsOldest
  <2>3. ClaimOf(r) \in Claim /\ ClaimOf(r).run = r /\ r # NoRun
    BY <1>4, <1>6, <2>1, ClaimOfType, NullsAssumption DEF DbType, Runs
  <2>4. p \in Phases /\ p \in {"leave", "backlog"}
    BY DEF Phases
  <2>5. claim' = [claim EXCEPT ![w] = ClaimOf(r)] /\ Goto(w, p) /\ UNCHANGED work
    BY <1>6 DEF r
  <2> HIDE DEF p
  <2>6. /\ pc' \in [Worker -> Phases] /\ claim' \in [Worker -> Claim]
        /\ rev' \in [Worker -> Nat] /\ upto' \in [Worker -> Nat]
        /\ attempt' \in [Worker -> Nat]
        /\ Only(w) /\ pc'[w] = p /\ claim'[w] = ClaimOf(r)
        /\ WorkingOK(w)' /\ BatchOK(w)'
    BY <2>3, <2>4, <2>5, Entering
  <2>7. ProcType'
    BY <1>1, <2>6, LimitsType DEF ProcType, IInv, TypeOK
  <2>8. ClaimOK(w)'
    BY <2>2, <2>3, <2>6 DEF ClaimOK
  <2> QED
    BY <1>4, <1>6, <2>4, <2>6, <2>7, <2>8, TakeFrame
<1> QED
  BY <1>2, <1>3, <1>5, <1>6

\* What the commit of disable does to the database.
LEMMA DisableWrites ==
  ASSUME IInv, NEW w \in Worker, UNCHANGED <<feed, created, applied>>,
         runs' = TakeClosing(FreezeCapture(runs), w)
  PROVE  /\ DbType' /\ DbOK' /\ Monotone
         /\ Closing(runs') = {} => Quiet'
<1>1. TypeOK /\ DbOK /\ FreezeCapture(runs) \in [Runs -> Run]
  BY FreezeType DEF IInv
<1>2. SameCores(FreezeCapture(runs), runs')
  BY <1>1, TakeClosingCore DEF SameCores
<1>3. Freezing
  BY <1>2 DEF Freezing, feed
<1> QED
  BY <1>1, <1>3, FreezingKeeps DEF Quiet

\* disable: the cutover to no configuration.
LEMMA DisableStep ==
  ASSUME IInv, NEW w \in Worker, Disable(w)
  PROVE  IInv'
<1> DEFINE commit == /\ runs' = TakeClosing(FreezeCapture(runs), w)
                     /\ status' = StatusTaken(w, DisabledLifecycle(runs'))
                     /\ UNCHANGED <<created, applied>>
           idle == /\ Closing(runs') = {}
                   /\ claim' = [claim EXCEPT ![w] = NoClaim]
                   /\ Goto(w, IF aborted[w] THEN "leave" ELSE "quiet")
                   /\ UNCHANGED work
           draining == /\ Closing(runs') # {}
                       /\ claim' = [claim EXCEPT ![w] = ClaimOf(NextClosing(runs'))]
                       /\ Goto(w, IF aborted[w] THEN "leave" ELSE "backlog")
                       /\ UNCHANGED work
<1>1. UNCHANGED <<feed, mode, aborted>> /\ (UNCHANGED limits \/ Fault)
  BY DEF Disable, Transaction
<1>2. \/ commit /\ idle
      \/ commit /\ draining
      \/ commit /\ Catch(w)
      \/ UNCHANGED db /\ Catch(w)
  BY DEF Disable, Transaction
<1>3. CASE UNCHANGED db /\ Catch(w)
  <2>1. DbType' /\ DbOK' /\ Monotone /\ Quiet' = Quiet /\ StatusFrame
    BY <1>1, <1>3, NoWrite
  <2>2. /\ ProcType' /\ Only(w) /\ pc'[w] = "failing" /\ claim'[w].run = claim[w].run
        /\ WorkingOK(w)' /\ BatchOK(w)'
    BY <1>1, <1>3, AcquireFails
  <2> QED
    BY <2>1, <2>2, StepFrame
<1>4. ASSUME commit
      PROVE  /\ DbType' /\ DbOK' /\ Monotone
             /\ Closing(runs') = {} => Quiet'
             /\ status' \in Status /\ status'.owner = w
             /\ status'.lifecycle = "disabled" => Quiet'
  <2>1. DisabledLifecycle(runs') \in Lifecycles
    BY DEF DisabledLifecycle, Lifecycles
  <2>2. DisabledLifecycle(runs') = "disabled" => Closing(runs') = {}
    BY DEF DisabledLifecycle
  <2> QED
    BY <1>1, <1>4, <2>1, <2>2, DisableWrites, StatusTakenType DEF IInv
<1>5. CASE commit /\ Catch(w)
  <2>1. /\ ProcType' /\ Only(w) /\ pc'[w] = "failing" /\ claim'[w].run = claim[w].run
        /\ WorkingOK(w)' /\ BatchOK(w)'
    BY <1>1, <1>5, AcquireFails
  <2>2. ClaimOK(w)'
    BY <1>4, <1>5, <2>1, SameRunClaim
  <2> QED
    BY <1>4, <1>5, <2>1, <2>2, TakeFrame
<1>6. CASE commit /\ idle
  <2> DEFINE p == IF aborted[w] THEN "leave" ELSE "quiet"
  <2>1. NoClaim \in Claim /\ NoClaim.run = NoRun
    BY DEF NoClaim, Claim, States
  <2>2. p \in Phases /\ p \in {"leave", "quiet"}
    BY DEF Phases
  <2>3. claim' = [claim EXCEPT ![w] = NoClaim] /\ Goto(w, p) /\ UNCHANGED work
    BY <1>6
  <2> HIDE DEF p
  <2>4. /\ pc' \in [Worker -> Phases] /\ claim' \in [Worker -> Claim]
        /\ rev' \in [Worker -> Nat] /\ upto' \in [Worker -> Nat]
        /\ attempt' \in [Worker -> Nat]
        /\ Only(w) /\ pc'[w] = p /\ claim'[w] = NoClaim
        /\ WorkingOK(w)' /\ BatchOK(w)'
    BY <2>1, <2>2, <2>3, Entering
  <2>5. ProcType'
    BY <1>1, <2>4, LimitsType DEF ProcType, IInv, TypeOK
  <2>6. ClaimOK(w)'
    BY <2>1, <2>4 DEF ClaimOK
  <2> QED
    BY <1>4, <1>6, <2>4, <2>5, <2>6, TakeFrame
<1>7. CASE commit /\ draining
  <2> DEFINE r == NextClosing(runs')
             p == IF aborted[w] THEN "leave" ELSE "backlog"
  <2>1. r \in Runs
    BY <1>4, <1>7, NextClosingIsOldest DEF DbType
  <2>2. r \in 1..created' /\ \A q \in 1..(r - 1) : runs'[q].state = "completed"
    BY <1>4, <1>7, <2>1, HandoutIsOldest
  <2>3. claim' = [claim EXCEPT ![w] = ClaimOf(r)] /\ Goto(w, p) /\ UNCHANGED work
    BY <1>7
  <2> HIDE DEF r
  <2>4. ClaimOf(r) \in Claim /\ ClaimOf(r).run = r /\ r # NoRun
    BY <1>4, <1>7, <2>1, ClaimOfType, NullsAssumption DEF DbType, Runs
  <2>5. p \in Phases /\ p \in {"leave", "backlog"}
    BY DEF Phases
  <2> HIDE DEF p
  <2>6. /\ pc' \in [Worker -> Phases] /\ claim' \in [Worker -> Claim]
        /\ rev' \in [Worker -> Nat] /\ upto' \in [Worker -> Nat]
        /\ attempt' \in [Worker -> Nat]
        /\ Only(w) /\ pc'[w] = p /\ claim'[w] = ClaimOf(r)
        /\ WorkingOK(w)' /\ BatchOK(w)'
    BY <2>3, <2>4, <2>5, Entering
  <2>7. ProcType'
    BY <1>1, <2>6, LimitsType DEF ProcType, IInv, TypeOK
  <2>8. ClaimOK(w)'
    BY <2>2, <2>4, <2>6 DEF ClaimOK
  <2> QED
    BY <1>4, <1>7, <2>5, <2>6, <2>7, <2>8, TakeFrame
<1> QED
  BY <1>2, <1>3, <1>5, <1>6, <1>7

-----------------------------------------------------------------------------
(* The invariant *)

\* The initial state satisfies the inductive invariant.
LEMMA InvInit == Init => IInv
<1> SUFFICES ASSUME Init PROVE IInv
  OBVIOUS
<1>1. NoRow \in Run /\ NoClaim \in Claim
  BY DEF NoRow, Run, States, NoClaim, Claim
<1>2. TypeOK
  BY <1>1, BoundsAssumption DEF Init, TypeOK, Phases, Status, Lifecycles
<1>3. \A r \in Runs : runs[r] = NoRow /\ r > created
  BY BoundsAssumption DEF Init, Runs
<1>4. DbOK
  <2>1. JournalIsPartitioned
    BY DEF JournalIsPartitioned, Init
  <2>2. RowsOK
    BY <1>3 DEF RowsOK, RowOK, NoRow
  <2>3. FeedOK
    BY DEF FeedOK, Init
  <2>4. AppliedExactlyOnce
    <3>1. \A p \in Positions : ~(p < 1)
      BY BoundsAssumption DEF Positions
    <3> QED
      BY <3>1 DEF AppliedExactlyOnce, Init
  <2>5. CompletedIsDrained /\ PendingHasPredecessor
    BY <1>3 DEF CompletedIsDrained, PendingHasPredecessor, NoRow
  <2> QED
    BY <2>1, <2>2, <2>3, <2>4, <2>5 DEF DbOK
<1>5. Quiet
  BY <1>3 DEF Quiet, CaptureRuns, Closing, NoRow
<1>6. \A w \in Worker : ProcOK(w)
  <2>1. \A w \in Worker : pc[w] = "down" /\ claim[w].run = NoRun
    BY DEF Init, NoClaim
  <2> QED
    BY <2>1 DEF ProcOK, ClaimOK, WorkingOK, BatchOK, QuietOK
<1> QED
  BY <1>2, <1>4, <1>5, <1>6 DEF IInv, DisabledIsQuiet, Quiet

\* Every step keeps the inductive invariant, action by action.
LEMMA InvStep == IInv /\ [Next]_vars => IInv'
<1> SUFFICES ASSUME IInv, [Next]_vars PROVE IInv'
  OBVIOUS
<1>1. ASSUME NEW w \in Worker, Step(w) PROVE IInv'
  BY <1>1, EnableStep, DisableStep, DrainAbortedStep, RefreshBacklogStep,
     ReadRevisionsStep, ReadFailsStep, CompleteIfDrainedStep, CommitRevisionStep,
     RefreshClaimStep, FailStep, ReportDisabledStep, LeaveStep DEF Step
<1>2. ASSUME NEW w \in Worker, Shutdown(w) \/ Crash(w) PROVE IInv'
  BY <1>2, ShutdownStep, CrashStep
<1>3. ASSUME NEW w \in Worker, NEW m \in Modes, Start(w, m) PROVE IInv'
  BY <1>3, StartStep
<1>4. ASSUME NEW r \in Runs, ExpireRun(r) PROVE IInv'
  BY <1>4, ExpireRunStep
<1> QED
  BY <1>1, <1>2, <1>3, <1>4, ExpireStatusStep, JournalChangeStep, StutterStep DEF Next

\* The inductive invariant holds in every reachable state, whatever the numbers
\* of processes, configurations, runs and positions.
THEOREM Invariance == Spec => []IInv
BY InvInit, InvStep, PTL DEF Spec

\* Every variable keeps its type.
THEOREM TypeCorrect == Spec => []TypeOK
<1>1. IInv => TypeOK
  BY DEF IInv
<1> QED
  BY <1>1, Invariance, PTL

\* The runs always cut the journal into consecutive stretches: no change that was
\* captured is lost between two runs or belongs to both.
THEOREM JournalPartition == Spec => []JournalIsPartitioned
<1>1. IInv => JournalIsPartitioned
  BY DEF IInv, DbOK
<1> QED
  BY <1>1, Invariance, PTL

\* A position has results exactly when its run's cursor has reached it, and then
\* once, whatever replies are lost and whatever processes die or stall.
THEOREM ExactlyOnce == Spec => []AppliedExactlyOnce
<1>1. IInv => AppliedExactlyOnce
  BY DEF IInv, DbOK
<1> QED
  BY <1>1, Invariance, PTL

\* A run that completed has processed everything it captured.
THEOREM CompletedRunsAreDrained == Spec => []CompletedIsDrained
<1>1. IInv => CompletedIsDrained
  BY DEF IInv, DbOK
<1> QED
  BY <1>1, Invariance, PTL

\* A pending run always has a closing run before it.
THEOREM PendingIsPromotable == Spec => []PendingHasPredecessor
<1>1. IInv => PendingHasPredecessor
  BY DEF IInv, DbOK
<1> QED
  BY <1>1, Invariance, PTL

\* The status never says disabled while a run captures or is closing.
THEOREM DisabledMeansQuiet == Spec => []DisabledIsQuiet
<1>1. IInv => DisabledIsQuiet
  BY DEF IInv
<1> QED
  BY <1>1, Invariance, PTL

\* All of it together: the journal is partitioned among the runs, each change is
\* applied once, and runs complete only when drained.
THEOREM RunsStayAccountedFor == Spec => []RunsAreAccountedFor
<1>1. IInv => RunsAreAccountedFor
  BY DEF IInv, DbOK, RunsAreAccountedFor
<1> QED
  BY <1>1, Invariance, PTL

-----------------------------------------------------------------------------
(* Order, and the refinement *)

\* A step that moves no cursor of an existing run and delivers nothing.
CursorsKept ==
  /\ UNCHANGED <<nextPosition, applied>>
  /\ \A r \in Runs : runs[r].state # "absent" => runs'[r].cursor = runs[r].cursor

\* A step that rewrites only claims moves no cursor.
LEMMA ClaimsKeepCursors == ClaimsOnly /\ UNCHANGED applied => CursorsKept
BY DEF ClaimsOnly, SameCores, SameCore, CursorsKept

\* The cutovers move no cursor.
LEMMA CutoverKeepsCursors ==
  ASSUME IInv, NEW w \in Worker, Enable(w) \/ Disable(w)
  PROVE  CursorsKept
<1>1. TypeOK /\ DbType /\ DbOK /\ runs \in [Runs -> Run] /\ created \in Nat
  BY TypeHasDb, BoundsAssumption DEF IInv, TypeOK
<1>2. UNCHANGED <<nextPosition, applied>>
  BY DEF Enable, Disable, Transaction, feed, db
<1>3. CASE UNCHANGED runs
  BY <1>2, <1>3 DEF CursorsKept
<1>4. CASE runs' = TakeClosing(FreezeCapture(runs), w)
  <2>1. FreezeCapture(runs) \in [Runs -> Run]
    BY <1>1, FreezeType
  <2>2. \A r \in Runs : runs'[r].cursor = runs[r].cursor
    BY <1>1, <1>4, <2>1, TakeClosingCore, FreezeCore DEF SameCore
  <2> QED
    BY <1>2, <2>2 DEF CursorsKept
<1>5. CASE runs' = EnabledRuns(w) /\ Matches(w)
  <2>1. CaptureRuns # {}
    BY <1>5 DEF Matches
  <2> DEFINE ss == Taken(runs, First(CaptureRuns), w)
  <2>2. ss \in [Runs -> Run] /\ \A q \in Runs : SameCore(ss[q], runs[q])
    BY <1>1, <2>1, CaptureIsFirst, TakenCore
  <2>3. runs' = TakeClosing(ss, w)
    BY <1>5 DEF EnabledRuns
  <2> HIDE DEF ss
  <2> QED
    BY <1>2, <2>2, <2>3, TakeClosingCore DEF SameCore, CursorsKept
<1>6. CASE runs' = EnabledRuns(w) /\ ~Matches(w) /\ created < MaxRuns /\ mode[w] \in Config
  <2> DEFINE ss == [FreezeCapture(runs) EXCEPT ![created + 1] = NewRun(w)]
  <2>1. created + 1 \in Runs
    BY <1>1, <1>6, BoundsAssumption DEF Runs
  <2>2. FreezeCapture(runs) \in [Runs -> Run] /\ NewRun(w) \in Run
    BY <1>1, <1>6, FreezeType, NewRunType
  <2>3. ss \in [Runs -> Run]
    BY <2>1, <2>2
  <2>4. \A q \in Runs : q # created + 1 => ss[q].cursor = runs[q].cursor
    BY <1>1, <2>2, FreezeCore
  <2>5. runs' = TakeClosing(ss, w)
    BY <1>6 DEF EnabledRuns
  <2>6. runs[created + 1].state = "absent"
    BY <1>1, <2>1 DEF DbOK, RowsOK, RowOK
  <2> HIDE DEF ss
  <2>7. \A q \in Runs : runs'[q].cursor = ss[q].cursor
    BY <2>3, <2>5, TakeClosingCore DEF SameCore
  <2> QED
    BY <1>2, <2>4, <2>6, <2>7 DEF CursorsKept
<1> QED
  BY <1>3, <1>4, <1>5, <1>6 DEF Enable, Disable, Transaction, db

\* A step keeps the cursors, commits a revision, or journals a change.
LEMMA StepEffect ==
  ASSUME IInv, [Next]_vars
  PROVE  \/ CursorsKept
         \/ \E w \in Worker : Committing(w) /\ UNCHANGED feed
         \/ JournalChange
<1>1. ASSUME UNCHANGED <<nextPosition, db>> PROVE CursorsKept
  BY <1>1 DEF db, CursorsKept
<1>2. ASSUME NEW w \in Worker, Step(w)
      PROVE  CursorsKept \/ (Committing(w) /\ UNCHANGED feed)
  <2>1. CASE Enable(w) \/ Disable(w)
    BY <2>1, CutoverKeepsCursors
  <2>2. CASE DrainAborted(w) \/ ReadRevisions(w) \/ ReadFails(w) \/ RetryAborted(w)
    BY <1>1, <2>2 DEF DrainAborted, ReadRevisions, ReadFails, RetryAborted, feed
  <2>3. CASE RefreshBacklog(w) \/ RefreshClaim(w)
    BY <2>3 DEF RefreshBacklog, RefreshClaim, Transaction, CursorsKept, feed, db
  <2>4. CASE CompleteIfDrained(w)
    <3>1. pc[w] = "complete" /\ UNCHANGED <<nextPosition, applied>>
      BY <2>4 DEF CompleteIfDrained, Transaction, feed, db
    <3>2. claim[w].run \in Runs /\ DbType /\ DbOK
      BY <3>1, ProcTypes, TypeHasDb DEF IInv, ProcOK, WorkingOK
    <3>3. \/ UNCHANGED runs
          \/ runs[claim[w].run].state = "closing" /\ runs' = Completed(claim[w].run)
      BY <2>4 DEF CompleteIfDrained, Transaction, db
    <3> QED
      BY <3>1, <3>2, <3>3, CompletedCore DEF CursorsKept
  <2>5. CASE CommitRevision(w)
    <3>1. UNCHANGED feed
      BY <2>5 DEF CommitRevision
    <3> QED
      BY <1>1, <2>5, <3>1, CommitRevisionWrites DEF feed
  <2>6. CASE Fail(w) \/ ReportDisabled(w) \/ Leave(w)
    <3>1. /\ UNCHANGED feed
          /\ UNCHANGED db \/ \E l \in {"failed", "disabled", "stopped"} : Release(w, l)
      BY <2>6 DEF Fail, ReportDisabled, Leave, Transaction
    <3>2. CASE UNCHANGED db
      BY <1>1, <3>1, <3>2 DEF feed
    <3>3. CASE \E l \in {"failed", "disabled", "stopped"} : Release(w, l)
      BY <3>1, <3>3, ReleaseKeeps, ClaimsKeepCursors DEF Lifecycles, ClaimsOnly
    <3> QED
      BY <3>1, <3>2, <3>3
  <2> QED
    BY <1>2, <2>1, <2>2, <2>3, <2>4, <2>5, <2>6 DEF Step
<1>3. ASSUME NEW w \in Worker, Shutdown(w) \/ Crash(w) PROVE CursorsKept
  BY <1>1, <1>3 DEF Shutdown, Crash, feed
<1>4. ASSUME NEW w \in Worker, NEW m \in Modes, Start(w, m) PROVE CursorsKept
  <2>1. \A r \in Runs : Disowned(runs[r], w).cursor = runs[r].cursor
    BY ReleasedRow DEF Disowned, SameCore, IInv, TypeOK
  <2> QED
    BY <1>4, <2>1 DEF Start, CursorsKept, feed
<1>5. ASSUME NEW r \in Runs, ExpireRun(r) PROVE CursorsKept
  BY <1>5 DEF ExpireRun, CursorsKept, feed, IInv, TypeOK, Run
<1>6. CASE ExpireStatus
  BY <1>6 DEF ExpireStatus, CursorsKept, feed
<1>7. CASE UNCHANGED vars
  BY <1>1, <1>7 DEF vars, db
<1> QED
  BY <1>2, <1>3, <1>4, <1>5, <1>6, <1>7 DEF Next

\* A revision is committed only after every revision before it.
LEMMA CommitsInOrder ==
  ASSUME IInv, NEW w \in Worker, Committing(w)
  PROVE  /\ \A q \in 1..(claim[w].run - 1) : runs[q].state = "completed"
         /\ rev[w] \in Positions /\ rev[w] < nextPosition
         /\ applied[rev[w]] = <<>>
         /\ \A p \in 1..(rev[w] - 1) : p \in Positions /\ applied[p] # <<>>
<1> DEFINE r == claim[w].run
           x == rev[w]
<1>1. DbType /\ DbOK /\ pc[w] = "commit"
  BY TypeHasDb DEF IInv, Committing
<1>2. /\ r \in Runs /\ x \in Positions /\ journal[x] = r /\ x \in Nat /\ x >= 1
      /\ x = runs[r].cursor + 1 /\ x < nextPosition /\ r \in 1..created
      /\ runs[r].stop # NoStop => x <= runs[r].stop
      /\ applied[x] = <<>>
  BY <1>1, BatchFacts, CommittingFacts DEF Positions
<1>3. \A q \in 1..(r - 1) : runs[q].state = "completed"
  <2>1. r # NoRun
    BY <1>2, NullsAssumption DEF Runs
  <2> QED
    BY <2>1 DEF IInv, ProcOK, ClaimOK
<1> HIDE DEF r, x
<1>4. ASSUME NEW p \in 1..(x - 1) PROVE p \in Positions /\ applied[p] # <<>>
  <2> DEFINE s == journal[p]
  <2>1. p \in Nat /\ p >= 1 /\ p < x /\ p \in Positions /\ p < nextPosition
    BY <1>1, <1>2, BoundsAssumption DEF Positions, DbType
  <2>2. p \in 1..(nextPosition - 1)
    BY <1>1, <2>1 DEF DbType
  <2>3. s \in 1..created /\ s \in Runs /\ s \in Nat /\ r \in Nat /\ s >= 1
    BY <1>1, <1>2, <2>2, BoundsAssumption DEF DbOK, JournalIsPartitioned, DbType, Runs
  <2>4. runs[s].start < p /\ (runs[s].stop # NoStop => p <= runs[s].stop)
    BY <1>1, <2>2, <2>3 DEF DbOK, JournalIsPartitioned
  <2>5. /\ runs[s].start \in Nat /\ runs[s].cursor \in Nat
        /\ runs[s].stop \in Nat \cup {NoStop}
        /\ runs[r].stop \in Nat \cup {NoStop} /\ runs[r].cursor \in Nat
    BY <1>1, <1>2, <2>3, RowTypes
  <2> HIDE DEF s
  <2>6. p <= runs[s].cursor
    <3>1. CASE s = r
      BY <1>2, <2>1, <2>5, <3>1
    <3>2. CASE s < r
      <4>1. s \in 1..(r - 1)
        BY <2>3, <3>2
      <4>2. runs[s].cursor = runs[s].stop
        BY <1>1, <1>3, <2>3, <4>1 DEF DbOK, CompletedIsDrained
      <4>3. runs[s].stop # NoStop
        BY <2>5, <4>2, NullsAssumption
      <4> QED
        BY <2>4, <4>2, <4>3
    <3>3. CASE r < s
      <4>1. runs[r].stop # NoStop /\ runs[r].stop <= runs[s].start
        BY <1>1, <1>2, <2>3, <3>3 DEF DbOK, JournalIsPartitioned
      <4>2. runs[r].stop \in Nat
        BY <2>5, <4>1
      <4> QED
        BY <1>2, <2>1, <2>4, <2>5, <4>1, <4>2
    <3> QED
      BY <2>3, <3>1, <3>2, <3>3
  <2>7. applied[p] = <<s>>
    BY <1>1, <2>1, <2>6 DEF DbOK, AppliedExactlyOnce, s
  <2> QED
    BY <2>1, <2>7
<1> QED
  BY <1>2, <1>3, <1>4 DEF r, x

\* A run's cursor moves only after every earlier run has completed.
THEOREM HandoffIsOrdered == Spec => OrderedHandoff
<1> DEFINE Act == \A r \in Runs :
                    runs'[r].cursor # runs[r].cursor /\ runs[r].state # "absent"
                      => \A q \in 1..(r - 1) : runs[q].state = "completed"
<1>1. IInv /\ [Next]_vars => [Act]_vars
  <2>1. SUFFICES ASSUME IInv, [Next]_vars PROVE Act
    OBVIOUS
  <2>2. CASE CursorsKept
    BY <2>2 DEF CursorsKept
  <2>3. CASE JournalChange
    BY <2>3 DEF JournalChange, db
  <2>4. ASSUME NEW w \in Worker, Committing(w) PROVE Act
    <3>1. \A q \in 1..(claim[w].run - 1) : runs[q].state = "completed"
      BY <2>1, <2>4, CommitsInOrder
    <3>2. runs' = [runs EXCEPT ![claim[w].run].cursor = rev[w]] /\ runs \in [Runs -> Run]
      BY <2>1, <2>4 DEF Committing, Advanced, IInv, TypeOK
    <3>3. \A r \in Runs : r # claim[w].run => runs'[r] = runs[r]
      BY <3>2
    <3> QED
      BY <3>1, <3>3
  <2> QED
    BY <2>1, <2>2, <2>3, <2>4, StepEffect
<1> QED
  BY <1>1, Invariance, PTL DEF Spec, OrderedHandoff

\* Every step is a step of the queue or none.
LEMMA StepRefinesQueue ==
  ASSUME IInv, [Next]_vars
  PROVE  [Queue!QueueNext]_(Queue!queueVars)
<1>1. CASE CursorsKept
  BY <1>1 DEF CursorsKept, Queue!queueVars
<1>2. CASE JournalChange
  <2>1. nextPosition \in Nat /\ nextPosition' = nextPosition + 1 /\ UNCHANGED applied
    BY <1>2, BoundsAssumption DEF JournalChange, db, IInv, TypeOK
  <2>2. nextPosition' - 1 = (nextPosition - 1) + 1
    BY <2>1
  <2> QED
    BY <2>1, <2>2 DEF Queue!QueueNext, Queue!Produce, Queue!queueVars
<1>3. ASSUME NEW w \in Worker, Committing(w) /\ UNCHANGED feed
      PROVE  Queue!QueueNext
  <2> DEFINE x == rev[w]
  <2>1. /\ x \in Positions /\ x < nextPosition /\ applied[x] = <<>>
        /\ \A p \in 1..(x - 1) : p \in Positions /\ applied[p] # <<>>
    BY <1>3, CommitsInOrder
  <2>2. x \in 1..(nextPosition - 1) /\ nextPosition' = nextPosition
    BY <1>3, <2>1, BoundsAssumption DEF Positions, IInv, TypeOK, feed
  <2>3. /\ applied' = [applied EXCEPT ![x] = Append(@, claim[w].run)]
        /\ applied \in [Positions -> Seq(Runs)]
        /\ claim[w].run \in Runs
    BY <1>3, BatchFacts DEF Committing, IInv, TypeOK
  <2>4. applied'[x] # <<>> /\ \A p \in Positions : p # x => applied'[p] = applied[p]
    BY <2>1, <2>3
  <2> HIDE DEF x
  <2>5. x \notin {p \in Positions : applied[p] # <<>>}
    BY <2>1
  <2>6. \A q \in 1..(x - 1) : q \in {p \in Positions : applied[p] # <<>>}
    BY <2>1
  <2>7. {p \in Positions : applied'[p] # <<>>} = {p \in Positions : applied[p] # <<>>} \cup {x}
    BY <2>1, <2>4
  <2> DEFINE given(p) ==
        /\ p \notin {q \in Positions : applied[q] # <<>>}
        /\ \A o \in 1..(p - 1) : o \in {q \in Positions : applied[q] # <<>>}
        /\ {q \in Positions : applied'[q] # <<>>} = {q \in Positions : applied[q] # <<>>} \cup {p}
        /\ nextPosition' - 1 = nextPosition - 1
  <2>8. given(x)
    BY <2>2, <2>5, <2>6, <2>7
  <2>9. \E p \in 1..(nextPosition - 1) : given(p)
    <3> HIDE DEF given
    <3> QED
      BY <2>2, <2>8
  <2> QED
    BY <2>9, Zenon DEF Queue!QueueNext, Queue!Deliver
<1> QED
  BY <1>1, <1>2, <1>3, StepEffect

\* The journal and the workers implement the queue: every position allocated by a
\* writer is delivered at most once, and in allocation order.
THEOREM RefinesQueue == Spec => ImplementsQueue
<1>1. Init => Queue!QueueInit
  <2>1. Init => nextPosition - 1 = 0
    BY DEF Init
  <2>2. Init => {p \in Positions : applied[p] # <<>>} = {}
    BY DEF Init
  <2> QED
    BY <2>1, <2>2 DEF Queue!QueueInit
<1>2. IInv /\ [Next]_vars => [Queue!QueueNext]_(Queue!queueVars)
  BY StepRefinesQueue
<1> QED
  BY <1>1, <1>2, Invariance, PTL DEF Spec, ImplementsQueue, Queue!QueueSpec

=============================================================================
