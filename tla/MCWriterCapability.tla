------------------------- MODULE MCWriterCapability -------------------------
(* Two processes with different freshness thresholds, and the signal        *)
(* worker, which may be reconfigured from either to the other.              *)
EXTENDS WriterCapability

CONSTANTS ingestA, ingestB, aapl, spy

MCSession == {ingestA, ingestB}
MCSeriesOrder == <<aapl, spy>>
MCThreshold == {60, 120}
MCThresholdOf == (ingestA :> 60) @@ (ingestB :> 120)
=============================================================================
