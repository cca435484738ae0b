--------------------------- MODULE MCRuntimeRotate ---------------------------
(* Builds of a few files; README.md gives the bounds. *)
EXTENDS RuntimeRotate

CONSTANTS v1, v2, v3
=============================================================================
