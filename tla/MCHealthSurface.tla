---------------------------- MODULE MCHealthSurface ----------------------------
(* Model values and symmetry for checking HealthSurface with TLC. *)
EXTENDS HealthSurface, TLC

CallerSymmetry == Permutations(Callers)
=============================================================================
