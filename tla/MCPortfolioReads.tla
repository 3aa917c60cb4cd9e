-------------------------- MODULE MCPortfolioReads --------------------------
(* A small instance of PortfolioReads: one row, then two.                   *)
EXTENDS PortfolioReads, TLC

CONSTANTS s1, s2

MCRowsOf == s1 :> 1 @@ s2 :> 2
MCKindOf == 1 :> "summary" @@ 2 :> "page"
MCOffsetOf == 1 :> 0 @@ 2 :> 1
=============================================================================
