-------------------------- MODULE MCMarketDelivery --------------------------
(* Small instances of MarketDelivery for TLC.                                *)
EXTENDS MarketDelivery, TLC

CONSTANTS p1, p2, e1, e2

Symmetry == Permutations(Session) \cup Permutations(Event)
=============================================================================
