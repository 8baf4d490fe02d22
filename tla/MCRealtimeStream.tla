--------------------------- MODULE MCRealtimeStream ---------------------------
(* Finite instances of RealtimeStream for TLC; liveness rules out symmetry. *)
EXTENDS RealtimeStream, TLC
=============================================================================
