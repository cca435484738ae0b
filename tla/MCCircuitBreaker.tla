--------------------------- MODULE MCCircuitBreaker ---------------------------
(* Two run slots for TLC; README.md gives the bounds. *)
EXTENDS CircuitBreaker

CONSTANTS r1, r2
=============================================================================
