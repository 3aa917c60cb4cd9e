------------------------- MODULE MCSignalProcessing -------------------------
(* One series over two sessions with replacements, one of a bar that was    *)
(* received before it ended, and a bar of a second series; a lookback of    *)
(* two bars.                                                                *)
EXTENDS SignalProcessing

Bar(id, series, start, received, close, volume) ==
  [id |-> id, series |-> series, start |-> start, received |-> received,
   high |-> close, low |-> close, close |-> close, volume |-> volume]

MCSessionOf == [m \in {1, 2} \cup 11 .. 14 |-> IF m < 10 THEN "monday" ELSE "tuesday"]

\* Bar 13 is a breakout over 11 and 12; the replacement of 12 undoes it.
MCEvents ==
  {Bar(1, "AAPL", 2, 3, 5, 1), Bar(2, "AAPL", 2, 4, 6, 1),
   Bar(3, "AAPL", 11, 12, 5, 1), Bar(4, "AAPL", 12, 12, 5, 1),
   Bar(5, "AAPL", 12, 15, 9, 1), Bar(6, "AAPL", 13, 14, 7, 2),
   Bar(7, "SPY", 12, 13, 5, 1)}

MCClock == {11, 15}

MCSymmetry == Permutations(Workers)
=============================================================================
