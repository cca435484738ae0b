------------------------------ MODULE MCScoring ------------------------------
(* Overlapping scorers for TLC; README.md gives the bounds. *)
EXTENDS Scoring

CONSTANTS s1, s2, a1, j1
=============================================================================
