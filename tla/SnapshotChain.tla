---------------------------- MODULE SnapshotChain ----------------------------
(***************************************************************************)
(* What the portfolio worker promises: the completed snapshots of all      *)
(* processes form one chain.  Selecting a snapshot adds it at the head,    *)
(* linked to the snapshot it replaces; nothing completed is ever undone.   *)
(***************************************************************************)
CONSTANTS
  RunIds,   \* synchronization runs
  NoRun     \* no snapshot is selected

VARIABLES
  completed,  \* the complete runs
  head,       \* the selected run
  link        \* the run each complete run replaced

chainVars == <<completed, head, link>>

ChainTypeOK ==
  /\ completed \subseteq RunIds
  /\ head \in RunIds \cup {NoRun}
  /\ link \in [RunIds -> RunIds \cup {NoRun}]

ChainInit ==
  /\ completed = {}
  /\ head = NoRun
  /\ link = [r \in RunIds |-> NoRun]

Select(r) ==
  /\ r \notin completed
  /\ completed' = completed \cup {r}
  /\ head' = r
  /\ link' = [link EXCEPT ![r] = head]

ChainNext == \E r \in RunIds : Select(r)

ChainSpec == ChainInit /\ [][ChainNext]_chainVars

\* The history is a chain and not a tree: the head is the only complete run
\* nothing replaced, and no two complete runs replaced the same one.
LinearHistory ==
  /\ head = NoRun <=> completed = {}
  /\ head # NoRun => head \in completed
  /\ \A r \in completed : link[r] \in (completed \cup {NoRun}) \ {head}
  /\ \A r, s \in completed : link[r] = link[s] => r = s
=============================================================================
