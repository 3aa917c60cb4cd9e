---------------------------- MODULE RevisionQueue ----------------------------
(***************************************************************************)
(* What the revision journal and the signal worker promise together: every *)
(* position the market-data writers allocate is processed exactly once and *)
(* in allocation order, whatever runs, restarts and rollovers lie between. *)
(***************************************************************************)
EXTENDS Naturals

VARIABLES
  produced,   \* how many positions have been allocated
  delivered   \* the positions whose results are committed

queueVars == <<produced, delivered>>

QueueInit ==
  /\ produced = 0
  /\ delivered = {}

Produce ==
  /\ produced' = produced + 1
  /\ UNCHANGED delivered

\* Only the first position not yet delivered can be delivered.
Deliver(p) ==
  /\ p \notin delivered
  /\ \A q \in 1..(p - 1) : q \in delivered
  /\ delivered' = delivered \cup {p}
  /\ UNCHANGED produced

QueueNext == Produce \/ \E p \in 1..produced : Deliver(p)

QueueSpec == QueueInit /\ [][QueueNext]_queueVars
=============================================================================
