------------------------------ MODULE MCAiTags ------------------------------
(* AiTags with two names in use as manual tags, or none. *)
EXTENDS AiTags

CONSTANTS n1, n2

Nothing == [t \in TagIds |-> NoTag]
TwoManual ==
  [Nothing EXCEPT ![1] = [name |-> n1, kind |-> "manual"], ![2] = [name |-> n2, kind |-> "manual"]]
=============================================================================
