--------------------------- MODULE MCMetricBuffer ---------------------------
(* Small instance of MetricBuffer for TLC: a buffer of two, so that the    *)
(* third failed batch evicts, and enough restarts to reload a stale file.  *)
EXTENDS MetricBuffer
=============================================================================
