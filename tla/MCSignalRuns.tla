---------------------------- MODULE MCSignalRuns ----------------------------
(* Small instances of SignalRuns for TLC. *)
EXTENDS SignalRuns, TLC

CONSTANTS w1, w2, c1, c2, c3

Symmetry == Permutations(Worker) \cup Permutations(Config)
=============================================================================
