------------------------------ MODULE MCSmbAll ------------------------------
(* Two clients that save one file, each in one of the ways programs have.   *)
EXTENDS SmbAll

MCTexts == {"doc", "._doc", ".a", ".b", ".del"}
MCHidden == MCTexts \ {"doc"}
MCMetas == {"._doc"}

Doc == [id |-> 1, text |-> "doc"]
At(d, n) == [dir |-> d, file |-> n]
Top(n) == At(Root, n)
Temp(c) == Top(Plain(IF c = "a" THEN ".a" ELSE ".b"))
DirOf(c) == IF c = "a" THEN "a.sb" ELSE "b.sb"
Opening(p, intent) == [op |-> "open", path |-> p, intent |-> intent]
On(op, p) == [op |-> op, path |-> p]
Rename(p, q) == [op |-> "rename", path |-> p, to |-> q]
Put(p, intent) == <<Opening(p, intent), [op |-> "write"], [op |-> "close"]>>
Here(c) == At(DirOf(c), Doc)
InTemp(c, n, more) ==
  <<On("mkdir", At(DirOf(c), n))>> \o Put(At(DirOf(c), n), "Create") \o more
    \o <<On("rmdir", At(DirOf(c), n))>>

InPlace == <<Opening(Top(Doc), "Open"), [op |-> "write"], [op |-> "flush"],
             [op |-> "write"], [op |-> "close"]>>
Overwritten == Put(Top(Doc), "Overwrite")
TempOver(c) ==
  <<Opening(Temp(c), "Create"), [op |-> "write"], [op |-> "flush"], [op |-> "close"],
    Rename(Temp(c), Top(Doc))>>
Folded(c) == InTemp(c, Doc, <<Rename(Here(c), Top(Doc))>>)
Salvaged(c) == InTemp(c, Doc, <<>>)
BackedUp(c) == InTemp(c, Plain("._doc"), <<Rename(Top(Doc), Here(c)), On("unlink", Here(c))>>)
Swapped(c) ==
  InTemp(c, Doc, <<Rename(Top(Doc), Temp(c)), Rename(Here(c), Top(Doc)),
                   Rename(Temp(c), Top(Plain(".del"))), On("unlink", Top(Plain(".del")))>>)
SwappedLate(c) ==
  InTemp(c, Doc, <<Rename(Top(Doc), Temp(c)), On("unlink", Temp(c)),
                   Rename(Here(c), Top(Doc))>>)
Sidecar(c) ==
  InTemp(c, Plain("._doc"), <<Rename(At(DirOf(c), Plain("._doc")), Top(Plain("._doc"))),
                             On("unlink", Top(Plain("._doc")))>>)
    \o Put(Top(Plain("._doc")), "OpenOrCreate")

Savings(c) == {InPlace, Overwritten, TempOver(c), Folded(c), Salvaged(c), Swapped(c), SwappedLate(c)}
MCPrograms == [c \in Clients |->
  IF c = "a" THEN Savings(c) \cup {Sidecar(c), BackedUp(c)}
  ELSE Savings(c)]
=============================================================================
