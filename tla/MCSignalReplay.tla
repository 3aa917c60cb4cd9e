--------------------------- MODULE MCSignalReplay ---------------------------
(* All orders of a small recording of two series, with a replacement, a gap *)
(* that may be filled late, and a repeated entry; a lookback of one bar.    *)
EXTENDS SignalReplay

Bar(id, series, start, received, close, volume) ==
  [id |-> id, series |-> series, start |-> start, received |-> received,
   high |-> close, low |-> close, close |-> close, volume |-> volume]

MCSessionOf == [m \in 11 .. 13 |-> "tuesday"]

First == Bar(1, "AAPL", 11, 12, 5, 1)
Second == Bar(2, "AAPL", 12, 12, 7, 2)
Corrected == Bar(3, "AAPL", 12, 14, 5, 1)
Third == Bar(4, "AAPL", 13, 14, 6, 1)
Other == <<Bar(5, "SPY", 11, 12, 5, 1), Bar(6, "SPY", 12, 13, 4, 3)>>

\* Each recording has the catalog's events, the first one twice.
MCRecordings ==
  {Other \o order \o <<First>> : order \in SetToSeqs({First, Second, Corrected, Third})}

MCEvents == {First, Second, Corrected, Third} \cup Range(Other)

MCSymmetry == Permutations(Process)
=============================================================================
