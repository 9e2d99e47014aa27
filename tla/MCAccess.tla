------------------------------ MODULE MCAccess ------------------------------
(* Two users, a group, a file with an owner or none and room for another   *)
(* one; a filter without conditions, and one of all of two conditions, of  *)
(* which one is negated and one without a value.                           *)
EXTENDS Access, TLC
Tagged(op) == [field |-> "manual_tag", op |-> op, value |-> "x"]
Unnamed == [field |-> "name", op |-> "contains", value |-> None]
MCDefinitions == {[all |-> FALSE, conditions |-> {}],
                  [all |-> TRUE, conditions |-> {Tagged("exclude"), Unnamed}]}
MCFacts == {<<"f", "manual_tag", "x">>}
Offer(m, b, n) == [mask |-> m, allow |-> b, priority |-> n]
MCOffers == {Offer(Permissions, TRUE, 0), Offer(Permissions, FALSE, 0), Offer(Permissions, FALSE, TopPriority),
             Offer({"VIEW"}, TRUE, TopPriority)}
MCFirstFiles == <<"f">>
Swap == Permutations(Requests) \cup Permutations(Users) \cup Permutations(Names)
=============================================================================
