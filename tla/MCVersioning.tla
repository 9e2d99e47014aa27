---------------------------- MODULE MCVersioning ----------------------------
(***************************************************************************)
(* Small instances of Versioning.                                          *)
(***************************************************************************)
EXTENDS Versioning, TLC

CONSTANTS f1, f2, w1, w2, w3, c1, c2, c3, c4

Symmetry == Permutations(Files) \cup Permutations(Writers) \cup Permutations(Contents)
=============================================================================
