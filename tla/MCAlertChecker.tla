--------------------------- MODULE MCAlertChecker ---------------------------
(* Environments for TLC, of one series each: kinds share no keys, and the  *)
(* two goroutines share no key and no acknowledgement, so the              *)
(* interleavings that matter are those of one goroutine with the           *)
(* operators, the clock and the changing metrics.                          *)
EXTENDS AlertChecker

One(kind) == {[kind |-> kind, host |-> "h1", name |-> "x"]}

MCSeriesSets ==
  {One(k) : k \in {"cpu", "disk", "rapid", "down", "svc", "forecast", "ssl"}}

\* For the run about service checks alone.
MCServices == {One("svc")}
=============================================================================
