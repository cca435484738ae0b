---------------------------- MODULE MCSeenCache ----------------------------
(* Two overlapping runs and two offers for TLC; README.md gives the bounds. *)
EXTENDS SeenCache

CONSTANTS r1, r2, o1, o2
=============================================================================
