-------------------------- MODULE MCServiceLifecycle --------------------------
(* Finite instances of ServiceLifecycle for TLC. *)
EXTENDS ServiceLifecycle, TLC
=============================================================================
