--------------------------- MODULE MCMetricsSensor ---------------------------
(* An instance of MetricsSensor for TLC. *)
EXTENDS MetricsSensor

MCZeroLines == {1, 3}
=============================================================================
