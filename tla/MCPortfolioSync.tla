-------------------------- MODULE MCPortfolioSync --------------------------
(* Small instances of PortfolioSync for TLC. *)
EXTENDS PortfolioSync, TLC

CONSTANTS w1, w2, a1

OneAccount == [w \in Workers |-> a1]
=============================================================================
