----------------------------- MODULE MCLibrary -----------------------------
(* A file that requests of most kinds come for, in the trash beside        *)
(* another one; or, alone, a live one that is given names in every way.  A *)
(* save over REST is an upload under the name the file has.                *)
EXTENDS Library, TLC
MCExt(n) == IF n = "a" THEN "ext:a" ELSE "ext:b"
MCRow(state) == [state |-> state, name |-> "a", head |-> 1]
MCFirstRows ==
  {[f |-> NoRow, g |-> Gone, h |-> Gone], [f |-> MCRow("live"), g |-> Gone, h |-> Gone],
   [f |-> MCRow("trash"), g |-> MCRow("trash"), h |-> Gone], [f |-> Gone, g |-> Gone, h |-> MCRow("live")]}
MCNaming == {"upload", "retitle", "fold"}
MCArrivals == ((Ops \ ({"empty", "save"} \cup MCNaming)) \X {"f"})
              \cup ((MCNaming \cup {"rename", "delete", "commit"}) \X {"h"})
Swap == Permutations(Requests)
=============================================================================
