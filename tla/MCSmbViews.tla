----------------------------- MODULE MCSmbViews -----------------------------
(* A series of two files and an empty one, two tags with a file at one of  *)
(* them, and room for a file to be made.                                   *)
EXTENDS SmbViews, TLC
MCBefore == [f \in Files |-> CASE f = "f" -> 2 [] f = "g" -> 1 [] OTHER -> 3]
MCLinks == [f \in Files |-> IF f = "f" THEN {"t"} ELSE {}]
MCMembers == [s \in Series |-> [f \in Files |->
  CASE s = "s" /\ f = "f" -> 10 [] s = "s" /\ f = "g" -> 20 [] OTHER -> 0]]
MCArrivals == Ops
Swap == Permutations(Requests)
=============================================================================
