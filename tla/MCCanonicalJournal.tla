------------------------- MODULE MCCanonicalJournal -------------------------
(* Small instances of CanonicalJournal for TLC.  A later id is a greater    *)
(* hash.                                                                    *)
EXTENDS CanonicalJournal, TLC

CONSTANTS w1, w2, aapl, spy

TwoSeries == <<aapl, spy>>

(* Two bars around a missing minute, the bar of the missing minute, a       *)
(* correction of the same receipt time, a resend with a later one, a bar    *)
(* outside the session, and a bar of the other series.                      *)
Bars(s, start, id, received) == [series |-> s, start |-> start, id |-> id, received |-> received]

OpenThenClosed == [m \in 1..4 |-> IF m = 4 THEN "outside" ELSE "open"]

SmallFeed ==
  {Bars(aapl, 1, 1, 1), Bars(aapl, 3, 3, 2), Bars(aapl, 3, 2, 2),
   Bars(aapl, 2, 4, 3), Bars(aapl, 3, 2, 4), Bars(aapl, 4, 7, 4),
   Bars(spy, 1, 6, 1)}

(* Every second minute is missing.                                          *)
AllOpen == [m \in 1..5 |-> "open"]
Alternating == {Bars(aapl, 1, 1, 1), Bars(aapl, 3, 2, 2), Bars(aapl, 5, 3, 3)}

Symmetry == Permutations(Writer)
=============================================================================
