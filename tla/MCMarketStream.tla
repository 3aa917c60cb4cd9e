--------------------------- MODULE MCMarketStream ---------------------------
(* A small instance of MarketStream for TLC.                                 *)
EXTENDS MarketStream

CONSTANTS AAPL, SPY

Lists == {<<>>, <<AAPL, SPY>>, <<AAPL, AAPL>>, <<SPY, AAPL, SPY>>}
=============================================================================
