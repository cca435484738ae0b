---------------------------- MODULE MCPublicFetch ----------------------------
(* Budgets of a few blocks; README.md gives the bounds. *)
EXTENDS PublicFetch

CONSTANTS careers, listing, numeric
=============================================================================
