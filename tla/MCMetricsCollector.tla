-------------------------- MODULE MCMetricsCollector --------------------------
(* Model values and symmetry for checking MetricsCollector with TLC. *)
EXTENDS MetricsCollector, TLC

RequestSymmetry == Permutations(Requests)
=============================================================================
