------------------------- MODULE MCPortfolioCapture -------------------------
(* Small instances of PortfolioCapture.                                     *)
EXTENDS PortfolioCapture

Order(structure, side, qty) ==
  [structure |-> structure, side |-> side, qty |-> qty, canceled |-> FALSE]

\* An order filled in part beside a multi-leg one.
MCAccounts == {
  [orders |-> <<Order("simple", "buy", 2), Order("mleg", "buy", 1)>>,
   fills  |-> <<[order |-> 1, at |-> 0, cum |-> 1]>>]}

\* A holding about to be sold.
MCSelling == {
  [orders |-> <<Order("simple", "buy", 1), Order("simple", "sell", 1)>>,
   fills  |-> <<[order |-> 1, at |-> 0, cum |-> 1]>>]}
=============================================================================
