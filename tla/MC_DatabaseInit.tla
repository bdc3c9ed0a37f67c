--------------------------- MODULE MC_DatabaseInit ---------------------------
(* A small instance of DatabaseInit for TLC.                               *)
EXTENDS DatabaseInit, TLC

KeySymmetry == Permutations(DataKeys)
=============================================================================
