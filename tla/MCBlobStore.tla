----------------------------- MODULE MCBlobStore -----------------------------
(***************************************************************************)
(* Small instances of BlobStore.                                           *)
(***************************************************************************)
EXTENDS BlobStore, TLC

CONSTANTS c1, c2, t1, t2, t3

Symmetry == Permutations(Contents) \cup Permutations(Tasks)
=============================================================================
