---------------------------- MODULE MCRunJournal ----------------------------
(* Two overlapping launchers for TLC; README.md gives the bounds. *)
EXTENDS RunJournal

CONSTANTS r1, r2
=============================================================================
