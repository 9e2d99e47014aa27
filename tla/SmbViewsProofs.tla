--------------------------- MODULE SmbViewsProofs ---------------------------
(***************************************************************************)
(* Theorems about SmbViews, for any files, tags, series and requests.      *)
(*                                                                         *)
(* Typed: the tables and what each request knows at each of its calls      *)
(* (Fits, with the table of calls StepTable read both ways).               *)
(*                                                                         *)
(* PlaceInv: a file that was put somewhere is there, or the request that   *)
(* moves it is between its two halves.                                     *)
(*                                                                         *)
(* OwnerInv: a file without its owner's rule is one whose making ended     *)
(* early, or is still under way.                                           *)
(*                                                                         *)
(* OrderInv: requests at one series have met (Apart), the place found at   *)
(* its end is past everybody until it is taken (AtEnd), a new order gives  *)
(* each file a greater number than those before it (ByNow) and only to     *)
(* members (Listed), and what was reordered is sorted by hand (ByHand).    *)
(***************************************************************************)
EXTENDS SmbViews, FiniteSetTheorems, TLAPS

-----------------------------------------------------------------------------
(* What a request has in hand at each of its calls.                        *)
Calls ==
  [op: Ops, at: 1..4, file: Files \cup {None}, from: Tags \cup Series \cup {None}, to: Series \cup {None},
   todo: Seq(Tags \cup Files), place: Nat, found: SUBSET Files, alone: BOOLEAN]
Distinct(q) == \A i, j \in DOMAIN q : q[i] = q[j] => i = j
Made(c) == (c.op \in {"upload", "dropInTag"} /\ c.at >= 2) \/ (c.op = "dropInSeries" /\ c.at >= 3)

Fits(c) ==
  /\ c \in Calls /\ c.at \in DOMAIN Steps[c.op]
  /\ c.op \in {"retag", "untag", "add", "number", "remove", "move"} \/ Made(c) => c.file \in Files
  /\ c.op \in {"dropInSeries", "add", "number", "move", "reorder", "sort"} => c.to \in Series
  /\ c.op \in {"remove", "move"} => c.from \in Series
  /\ c.op \in {"dropInTag", "retag"} => c.todo \in Seq(Tags)
  /\ c.op = "untag" => c.todo = <<>>
  /\ c.op = "reorder" => c.todo \in Seq(Files) /\ Distinct(c.todo)
  /\ c.op = "reorder" /\ c.at = 2 => c.place >= 10
  /\ c.op \in {"add", "dropInSeries"} /\ c.at >= 2 => c.place >= 1

TablesOk ==
  /\ files \in [Files -> States] /\ tags \in [Tags -> States] /\ series \in [Series -> States]
  /\ links \in [Files -> SUBSET There(tags)] /\ owned \subseteq Files
  /\ order \in [Series -> [Files -> Nat]] /\ sort \in [Series -> Sorts]
  /\ \A f \in Files : files[f] # "there" => links[f] = {} /\ \A s \in Series : order[s][f] = 0
  /\ \A s \in Series : series[s] # "there" => Members(s) = {}
HistoryOk ==
  /\ asked \in [Series -> Seq(Files)] /\ arranged \subseteq Series
  /\ kept \subseteq Files /\ tagged \subseteq Files /\ deserted \subseteq Files
  /\ started \in 0..MaxRequests /\ faults \in 0..MaxFaults
CallsOk == call \in [Requests -> Calls \cup {Idle}] /\ \A p \in Requests : call[p] = Idle \/ Fits(call[p])
Typed == TablesOk /\ HistoryOk /\ CallsOk

LEMMA AllOps ==
  Ops = {"upload", "dropInTag", "dropInSeries", "retag", "untag", "add", "number", "remove", "move",
         "reorder", "sort"}
  BY DEF Ops, Steps

(* The handlers read as tables: how many calls each makes, and which.      *)
LEMMA StepTable ==
  /\ DOMAIN Steps["upload"] = 1..2 /\ Len(Steps["upload"]) = 2
      /\ Steps["upload"][1] = "create" /\ Steps["upload"][2] = "owner"
  /\ DOMAIN Steps["dropInTag"] = 1..3 /\ Len(Steps["dropInTag"]) = 3
      /\ Steps["dropInTag"][1] = "create" /\ Steps["dropInTag"][2] = "attach" /\ Steps["dropInTag"][3] = "owner"
  /\ DOMAIN Steps["dropInSeries"] = 1..4 /\ Len(Steps["dropInSeries"]) = 4
      /\ Steps["dropInSeries"][1] = "last" /\ Steps["dropInSeries"][2] = "create"
      /\ Steps["dropInSeries"][3] = "join" /\ Steps["dropInSeries"][4] = "owner"
  /\ DOMAIN Steps["retag"] = 1..2 /\ Len(Steps["retag"]) = 2
      /\ Steps["retag"][1] = "detach" /\ Steps["retag"][2] = "attach"
  /\ DOMAIN Steps["untag"] = 1..1 /\ Len(Steps["untag"]) = 1
      /\ Steps["untag"][1] = "detach"
  /\ DOMAIN Steps["add"] = 1..2 /\ Len(Steps["add"]) = 2
      /\ Steps["add"][1] = "last" /\ Steps["add"][2] = "join"
  /\ DOMAIN Steps["number"] = 1..1 /\ Len(Steps["number"]) = 1
      /\ Steps["number"][1] = "join"
  /\ DOMAIN Steps["remove"] = 1..1 /\ Len(Steps["remove"]) = 1
      /\ Steps["remove"][1] = "leave"
  /\ DOMAIN Steps["move"] = 1..2 /\ Len(Steps["move"]) = 2
      /\ Steps["move"][1] = "leave" /\ Steps["move"][2] = "join"
  /\ DOMAIN Steps["reorder"] = 1..3 /\ Len(Steps["reorder"]) = 3
      /\ Steps["reorder"][1] = "members" /\ Steps["reorder"][2] = "renumber" /\ Steps["reorder"][3] = "manual"
  /\ DOMAIN Steps["sort"] = 1..1 /\ Len(Steps["sort"]) = 1
      /\ Steps["sort"][1] = "sort"
<1>1. /\ DOMAIN Steps["upload"] = 1..2 /\ Len(Steps["upload"]) = 2
      /\ Steps["upload"][1] = "create" /\ Steps["upload"][2] = "owner"
  BY DEF Steps, UploadSteps
<1>2. /\ DOMAIN Steps["dropInTag"] = 1..3 /\ Len(Steps["dropInTag"]) = 3
      /\ Steps["dropInTag"][1] = "create" /\ Steps["dropInTag"][2] = "attach" /\ Steps["dropInTag"][3] = "owner"
  BY DEF Steps, DropInTagSteps
<1>3. /\ DOMAIN Steps["dropInSeries"] = 1..4 /\ Len(Steps["dropInSeries"]) = 4
      /\ Steps["dropInSeries"][1] = "last" /\ Steps["dropInSeries"][2] = "create"
      /\ Steps["dropInSeries"][3] = "join" /\ Steps["dropInSeries"][4] = "owner"
  BY DEF Steps, DropInSeriesSteps
<1>4. /\ DOMAIN Steps["retag"] = 1..2 /\ Len(Steps["retag"]) = 2
      /\ Steps["retag"][1] = "detach" /\ Steps["retag"][2] = "attach"
  BY DEF Steps, RetagSteps
<1>5. /\ DOMAIN Steps["untag"] = 1..1 /\ Len(Steps["untag"]) = 1
      /\ Steps["untag"][1] = "detach"
  BY DEF Steps, UntagSteps
<1>6. /\ DOMAIN Steps["add"] = 1..2 /\ Len(Steps["add"]) = 2
      /\ Steps["add"][1] = "last" /\ Steps["add"][2] = "join"
  BY DEF Steps, AddSteps
<1>7. /\ DOMAIN Steps["number"] = 1..1 /\ Len(Steps["number"]) = 1
      /\ Steps["number"][1] = "join"
  BY DEF Steps, NumberSteps
<1>8. /\ DOMAIN Steps["remove"] = 1..1 /\ Len(Steps["remove"]) = 1
      /\ Steps["remove"][1] = "leave"
  BY DEF Steps, RemoveSteps
<1>9. /\ DOMAIN Steps["move"] = 1..2 /\ Len(Steps["move"]) = 2
      /\ Steps["move"][1] = "leave" /\ Steps["move"][2] = "join"
  BY DEF Steps, MoveSteps
<1>10. /\ DOMAIN Steps["reorder"] = 1..3 /\ Len(Steps["reorder"]) = 3
      /\ Steps["reorder"][1] = "members" /\ Steps["reorder"][2] = "renumber" /\ Steps["reorder"][3] = "manual"
  BY DEF Steps, ReorderSteps
<1>11. /\ DOMAIN Steps["sort"] = 1..1 /\ Len(Steps["sort"]) = 1
      /\ Steps["sort"][1] = "sort"
  BY DEF Steps, SortSteps
<1>12. QED BY <1>1, <1>2, <1>3, <1>4, <1>5, <1>6, <1>7, <1>8, <1>9, <1>10, <1>11

(* And the other way round: where each call is made.                       *)
LEMMA CallsMadeAt ==
  ASSUME NEW c, c.op \in Ops, c.at \in DOMAIN Steps[c.op]
  PROVE  /\ c.at \in 1..4 /\ c.at \in 1..Len(Steps[c.op]) /\ Len(Steps[c.op]) \in 1..4
         /\ DOMAIN Steps[c.op] = 1..Len(Steps[c.op])
         /\ Steps[c.op][c.at] = "create" =>
              \/ c.op \in {"upload", "dropInTag"} /\ c.at = 1
              \/ c.op \in {"dropInSeries"} /\ c.at = 2
         /\ Steps[c.op][c.at] = "owner" =>
              \/ c.op \in {"upload"} /\ c.at = 2
              \/ c.op \in {"dropInTag"} /\ c.at = 3
              \/ c.op \in {"dropInSeries"} /\ c.at = 4
         /\ Steps[c.op][c.at] = "attach" =>
              \/ c.op \in {"dropInTag", "retag"} /\ c.at = 2
         /\ Steps[c.op][c.at] = "last" =>
              \/ c.op \in {"dropInSeries", "add"} /\ c.at = 1
         /\ Steps[c.op][c.at] = "join" =>
              \/ c.op \in {"number"} /\ c.at = 1
              \/ c.op \in {"add", "move"} /\ c.at = 2
              \/ c.op \in {"dropInSeries"} /\ c.at = 3
         /\ Steps[c.op][c.at] = "detach" =>
              \/ c.op \in {"retag", "untag"} /\ c.at = 1
         /\ Steps[c.op][c.at] = "leave" =>
              \/ c.op \in {"remove", "move"} /\ c.at = 1
         /\ Steps[c.op][c.at] = "members" =>
              \/ c.op \in {"reorder"} /\ c.at = 1
         /\ Steps[c.op][c.at] = "renumber" =>
              \/ c.op \in {"reorder"} /\ c.at = 2
         /\ Steps[c.op][c.at] = "manual" =>
              \/ c.op \in {"reorder"} /\ c.at = 3
         /\ Steps[c.op][c.at] = "sort" =>
              \/ c.op \in {"sort"} /\ c.at = 1
<1>1. CASE c.op = "upload"
  <2>1. /\ DOMAIN Steps[c.op] = 1..2 /\ Len(Steps[c.op]) = 2
        /\ Steps[c.op][1] = "create" /\ Steps[c.op][2] = "owner"
    BY <1>1, StepTable
  <2>2. CASE c.at = 1
    BY <1>1, <2>1, <2>2
  <2>3. CASE c.at = 2
    BY <1>1, <2>1, <2>3
  <2>4. QED BY <2>1, <2>2, <2>3
<1>2. CASE c.op = "dropInTag"
  <2>1. /\ DOMAIN Steps[c.op] = 1..3 /\ Len(Steps[c.op]) = 3
        /\ Steps[c.op][1] = "create" /\ Steps[c.op][2] = "attach" /\ Steps[c.op][3] = "owner"
    BY <1>2, StepTable
  <2>2. CASE c.at = 1
    BY <1>2, <2>1, <2>2
  <2>3. CASE c.at = 2
    BY <1>2, <2>1, <2>3
  <2>4. CASE c.at = 3
    BY <1>2, <2>1, <2>4
  <2>5. QED BY <2>1, <2>2, <2>3, <2>4
<1>3. CASE c.op = "dropInSeries"
  <2>1. /\ DOMAIN Steps[c.op] = 1..4 /\ Len(Steps[c.op]) = 4
        /\ Steps[c.op][1] = "last" /\ Steps[c.op][2] = "create" /\ Steps[c.op][3] = "join" /\ Steps[c.op][4] = "owner"
    BY <1>3, StepTable
  <2>2. CASE c.at = 1
    BY <1>3, <2>1, <2>2
  <2>3. CASE c.at = 2
    BY <1>3, <2>1, <2>3
  <2>4. CASE c.at = 3
    BY <1>3, <2>1, <2>4
  <2>5. CASE c.at = 4
    BY <1>3, <2>1, <2>5
  <2>6. QED BY <2>1, <2>2, <2>3, <2>4, <2>5
<1>4. CASE c.op = "retag"
  <2>1. /\ DOMAIN Steps[c.op] = 1..2 /\ Len(Steps[c.op]) = 2
        /\ Steps[c.op][1] = "detach" /\ Steps[c.op][2] = "attach"
    BY <1>4, StepTable
  <2>2. CASE c.at = 1
    BY <1>4, <2>1, <2>2
  <2>3. CASE c.at = 2
    BY <1>4, <2>1, <2>3
  <2>4. QED BY <2>1, <2>2, <2>3
<1>5. CASE c.op = "untag"
  <2>1. /\ DOMAIN Steps[c.op] = 1..1 /\ Len(Steps[c.op]) = 1
        /\ Steps[c.op][1] = "detach"
    BY <1>5, StepTable
  <2>2. CASE c.at = 1
    BY <1>5, <2>1, <2>2
  <2>3. QED BY <2>1, <2>2
<1>6. CASE c.op = "add"
  <2>1. /\ DOMAIN Steps[c.op] = 1..2 /\ Len(Steps[c.op]) = 2
        /\ Steps[c.op][1] = "last" /\ Steps[c.op][2] = "join"
    BY <1>6, StepTable
  <2>2. CASE c.at = 1
    BY <1>6, <2>1, <2>2
  <2>3. CASE c.at = 2
    BY <1>6, <2>1, <2>3
  <2>4. QED BY <2>1, <2>2, <2>3
<1>7. CASE c.op = "number"
  <2>1. /\ DOMAIN Steps[c.op] = 1..1 /\ Len(Steps[c.op]) = 1
        /\ Steps[c.op][1] = "join"
    BY <1>7, StepTable
  <2>2. CASE c.at = 1
    BY <1>7, <2>1, <2>2
  <2>3. QED BY <2>1, <2>2
<1>8. CASE c.op = "remove"
  <2>1. /\ DOMAIN Steps[c.op] = 1..1 /\ Len(Steps[c.op]) = 1
        /\ Steps[c.op][1] = "leave"
    BY <1>8, StepTable
  <2>2. CASE c.at = 1
    BY <1>8, <2>1, <2>2
  <2>3. QED BY <2>1, <2>2
<1>9. CASE c.op = "move"
  <2>1. /\ DOMAIN Steps[c.op] = 1..2 /\ Len(Steps[c.op]) = 2
        /\ Steps[c.op][1] = "leave" /\ Steps[c.op][2] = "join"
    BY <1>9, StepTable
  <2>2. CASE c.at = 1
    BY <1>9, <2>1, <2>2
  <2>3. CASE c.at = 2
    BY <1>9, <2>1, <2>3
  <2>4. QED BY <2>1, <2>2, <2>3
<1>10. CASE c.op = "reorder"
  <2>1. /\ DOMAIN Steps[c.op] = 1..3 /\ Len(Steps[c.op]) = 3
        /\ Steps[c.op][1] = "members" /\ Steps[c.op][2] = "renumber" /\ Steps[c.op][3] = "manual"
    BY <1>10, StepTable
  <2>2. CASE c.at = 1
    BY <1>10, <2>1, <2>2
  <2>3. CASE c.at = 2
    BY <1>10, <2>1, <2>3
  <2>4. CASE c.at = 3
    BY <1>10, <2>1, <2>4
  <2>5. QED BY <2>1, <2>2, <2>3, <2>4
<1>11. CASE c.op = "sort"
  <2>1. /\ DOMAIN Steps[c.op] = 1..1 /\ Len(Steps[c.op]) = 1
        /\ Steps[c.op][1] = "sort"
    BY <1>11, StepTable
  <2>2. CASE c.at = 1
    BY <1>11, <2>1, <2>2
  <2>3. QED BY <2>1, <2>2
<1>12. QED BY AllOps, <1>1, <1>2, <1>3, <1>4, <1>5, <1>6, <1>7, <1>8, <1>9, <1>10, <1>11
-----------------------------------------------------------------------------
(* A finite set can be listed in the order of a key: the place of an       *)
(* element is the number of those before it, where equal keys come in the  *)
(* order of some enumeration.                                              *)
Sorted(q, S, key) ==
  /\ q \in [1..Cardinality(S) -> S]
  /\ \A i, j \in DOMAIN q : i < j => q[i] # q[j] /\ key[q[i]] <= key[q[j]]

LEMMA SortedExists ==
  ASSUME NEW S, IsFiniteSet(S), NEW key, \A x \in S : key[x] \in Nat
  PROVE  \E q : Sorted(q, S, key)
<1> DEFINE n == Cardinality(S)
<1>1. n \in Nat /\ ExistsBijection(1..n, S) BY FS_CardinalityType
<1>2. PICK e : e \in Bijection(1..n, S) BY <1>1 DEF ExistsBijection
<1>3. /\ \A a \in 1..n : e[a] \in S
      /\ \A a, b \in 1..n : e[a] = e[b] => a = b
  BY <1>2 DEF Bijection, Injection, IsInjective
<1>4. \A a \in 1..n : key[e[a]] \in Nat BY <1>3
<1> DEFINE Under(a, b) == key[e[a]] < key[e[b]] \/ (key[e[a]] = key[e[b]] /\ a < b)
           Below(a) == {b \in 1..n : Under(b, a)}
           rank == [a \in 1..n |-> Cardinality(Below(a)) + 1]
<1>5. /\ \A a, b \in 1..n : a # b => Under(a, b) \/ Under(b, a)
      /\ \A a, b, c \in 1..n : Under(a, b) /\ Under(b, c) => Under(a, c)
      /\ \A a \in 1..n : ~Under(a, a)
  BY <1>1, <1>4
<1>6. IsFiniteSet(1..n) /\ Cardinality(1..n) = n BY <1>1, FS_Interval, 1 \in Int
<1> HIDE DEF n, Under
<1>7. ASSUME NEW a \in 1..n
      PROVE  IsFiniteSet(Below(a)) /\ Cardinality(Below(a)) \in Nat /\ Cardinality(Below(a)) <= n - 1
  <2>1. IsFiniteSet((1..n) \ {a}) /\ Cardinality((1..n) \ {a}) = n - 1
    BY <1>6, <1>7, FS_RemoveElement
  <2>2. Below(a) \in SUBSET ((1..n) \ {a}) BY <1>5
  <2>3. IsFiniteSet(Below(a)) /\ Cardinality(Below(a)) <= n - 1 BY <2>1, <2>2, FS_Subset
  <2>4. QED BY <2>3, FS_CardinalityType
<1>8. ASSUME NEW a \in 1..n, NEW b \in 1..n, Under(a, b)
      PROVE  Cardinality(Below(a)) < Cardinality(Below(b))
  <2>1. Below(a) \in SUBSET Below(b) BY <1>5, <1>8
  <2>2. a \in Below(b) /\ a \notin Below(a) BY <1>5, <1>8
  <2>3. Cardinality(Below(a)) <= Cardinality(Below(b)) /\ Cardinality(Below(a)) # Cardinality(Below(b))
    BY <1>7, <2>1, <2>2, FS_Subset
  <2>4. QED BY <1>7, <2>3
<1> HIDE DEF Below
<1>9. rank \in [1..n -> 1..n]
  <2>1. ASSUME NEW a \in 1..n PROVE Cardinality(Below(a)) + 1 \in 1..n BY <1>1, <1>7
  <2>2. QED BY <2>1
<1>10. \A a, b \in 1..n : Under(a, b) => rank[a] < rank[b]
  BY <1>7, <1>8
<1> HIDE DEF rank
<1>11. \A a, b \in 1..n : rank[a] = rank[b] => a = b
  <2>1. SUFFICES ASSUME NEW a \in 1..n, NEW b \in 1..n, rank[a] = rank[b], a # b PROVE FALSE OBVIOUS
  <2>2. rank[a] < rank[b] \/ rank[b] < rank[a] BY <1>5, <1>10, <2>1
  <2>3. rank[a] \in 1..n /\ rank[b] \in 1..n BY <1>9
  <2>4. QED BY <1>1, <2>1, <2>2, <2>3 DEF n
<1>12. rank \in Injection(1..n, 1..n) BY <1>9, <1>11 DEF Injection, IsInjective
<1>13. rank \in Surjection(1..n, 1..n) BY <1>6, <1>12, FS_Injection
<1>14. \A i \in 1..n : \E a \in 1..n : rank[a] = i BY <1>13 DEF Surjection
<1> DEFINE at == [i \in 1..n |-> CHOOSE a \in 1..n : rank[a] = i]
           q == [i \in 1..n |-> e[at[i]]]
<1>15. \A i \in 1..n : at[i] \in 1..n /\ rank[at[i]] = i BY <1>14
<1> HIDE DEF at
<1>16. q \in [1..n -> S] /\ DOMAIN q = 1..n BY <1>3, <1>15
<1>17. ASSUME NEW i \in 1..n, NEW j \in 1..n, i < j PROVE q[i] # q[j] /\ key[q[i]] <= key[q[j]]
  <2>1. at[i] \in 1..n /\ at[j] \in 1..n /\ rank[at[i]] = i /\ rank[at[j]] = j BY <1>15
  <2>2. i # j /\ ~(j < i) BY <1>1, <1>17 DEF n
  <2>3. at[i] # at[j] /\ ~Under(at[j], at[i]) BY <1>10, <2>1, <2>2
  <2>4. Under(at[i], at[j]) BY <1>5, <2>1, <2>3
  <2>5. key[e[at[i]]] <= key[e[at[j]]] BY <1>4, <2>1, <2>4 DEF Under
  <2>6. QED BY <1>3, <2>1, <2>3, <2>5
<1>18. QED BY <1>16, <1>17 DEF Sorted, n

LEMMA InOrderSorts ==
  ASSUME NEW S, IsFiniteSet(S), NEW key, \A x \in S : key[x] \in Nat
  PROVE  Sorted(InOrder(S, key), S, key)
<1>1. PICK q : Sorted(q, S, key) BY SortedExists
<1> DEFINE P(r) == \A i, j \in DOMAIN r : i < j => r[i] # r[j] /\ key[r[i]] <= key[r[j]]
<1>2. q \in [1..Cardinality(S) -> S] /\ P(q) BY <1>1 DEF Sorted
<1>3. InOrder(S, key) = CHOOSE r \in [1..Cardinality(S) -> S] : P(r) BY DEF InOrder
<1> HIDE DEF P
<1>4. InOrder(S, key) \in [1..Cardinality(S) -> S] /\ P(InOrder(S, key)) BY <1>2, <1>3
<1>5. QED BY <1>4 DEF P, Sorted

(* So a finite set of numbers has a greatest one: the last.                *)
LEMMA GreatestExists ==
  ASSUME NEW S, IsFiniteSet(S), S # {}, S \subseteq Nat
  PROVE  Max(S) \in S /\ \A x \in S : x <= Max(S)
<1> DEFINE key == [x \in S |-> x]  n == Cardinality(S)
<1>1. PICK q : Sorted(q, S, key)
  <2>1. \A x \in S : key[x] \in Nat OBVIOUS
  <2>2. QED BY <2>1, SortedExists
<1>2. n \in Nat /\ n # 0 BY FS_CardinalityType, FS_EmptySet
<1>3. q \in [1..n -> S] /\ \A i, j \in 1..n : i < j => q[i] # q[j] /\ q[i] <= q[j]
  <2>1. q \in [1..n -> S] /\ DOMAIN q = 1..n BY <1>1 DEF Sorted
  <2>2. ASSUME NEW i \in 1..n, NEW j \in 1..n, i < j PROVE q[i] # q[j] /\ q[i] <= q[j]
    BY <1>1, <2>1, <2>2 DEF Sorted
  <2>3. QED BY <2>1, <2>2
<1>4. IsFiniteSet(1..n) /\ Cardinality(1..n) = n BY <1>2, FS_Interval, 1 \in Int
<1>5. q \in Injection(1..n, S)
  <2>1. ASSUME NEW i \in 1..n, NEW j \in 1..n, q[i] = q[j] PROVE i = j
    <3>1. i < j \/ j < i \/ i = j BY <1>2
    <3>2. QED BY <1>3, <2>1, <3>1
  <2>2. QED BY <1>3, <2>1 DEF Injection, IsInjective
<1>6. q \in Surjection(1..n, S) BY <1>4, <1>5, FS_Injection
<1>7. n \in 1..n /\ q[n] \in S BY <1>2, <1>3
<1>8. ASSUME NEW x \in S PROVE x <= q[n]
  <2>1. PICK i \in 1..n : q[i] = x BY <1>6 DEF Surjection
  <2>2. i < n \/ i = n BY <1>2
  <2>3. QED BY <1>3, <1>7, <2>1, <2>2
<1>9. \E x \in S : \A y \in S : x >= y
  <2>1. \A y \in S : q[n] >= y BY <1>7, <1>8
  <2>2. QED BY <1>7, <2>1
<1>10. QED BY <1>9 DEF Max

-----------------------------------------------------------------------------
(* Sequences in the order of a key, and what is left of them.              *)
Rises(q, key) == \A i, j \in DOMAIN q : i < j => key[q[i]] < key[q[j]]

LEMMA WithoutIs ==
  ASSUME NEW q \in Seq(Files), NEW f
  PROVE  /\ Without(q, f) \in Seq(Files)
         /\ \A i \in DOMAIN Without(q, f) : \E k \in DOMAIN q :
              Without(q, f)[i] = q[k]
         /\ \A key \in [Files -> Nat] : Rises(q, key) =>
              Rises(Without(q, f), key) /\ \A i \in DOMAIN Without(q, f) : Without(q, f)[i] # f
<1>1. PICK n \in Nat : n = Len(q) OBVIOUS
<1>2. DOMAIN q = 1..n /\ \A i \in 1..n : q[i] \in Files BY <1>1
<1>3. CASE \A i \in DOMAIN q : q[i] # f
  <2>1. Without(q, f) = q BY <1>3 DEF Without
  <2>2. QED BY <1>3, <2>1
<1>4. CASE ~ \A i \in DOMAIN q : q[i] # f
  <2> DEFINE k == CHOOSE i \in DOMAIN q : q[i] = f
             w == [i \in 1..(n - 1) |-> IF i < k THEN q[i] ELSE q[i + 1]]
  <2>1. k \in 1..n /\ q[k] = f BY <1>2, <1>4
  <2>2. Without(q, f) = w BY <1>1, <1>4 DEF Without
  <2> HIDE DEF k
  <2>3. n - 1 \in Nat BY <2>1
  <2>4. \A i \in 1..(n - 1) : i \in 1..n /\ i + 1 \in 1..n BY <2>3
  <2>5. DOMAIN w = 1..(n - 1) /\ \A i \in 1..(n - 1) : w[i] = IF i < k THEN q[i] ELSE q[i + 1] OBVIOUS
  <2>6. w \in [1..(n - 1) -> Files] BY <1>2, <2>4
  <2>7. w \in Seq(Files) BY <2>3, <2>6
  <2> HIDE DEF w
  <2>8. ASSUME NEW i \in DOMAIN w PROVE \E j \in DOMAIN q : w[i] = q[j]
    BY <1>2, <2>4, <2>5
  <2>9. ASSUME NEW key \in [Files -> Nat], Rises(q, key)
        PROVE  Rises(w, key) /\ \A i \in DOMAIN w : w[i] # f
    <3>1. ASSUME NEW i \in DOMAIN w, NEW j \in DOMAIN w, i < j PROVE key[w[i]] < key[w[j]]
      <4> DEFINE u == IF i < k THEN i ELSE i + 1
                 v == IF j < k THEN j ELSE j + 1
      <4>1. u \in 1..n /\ v \in 1..n /\ u < v /\ w[i] = q[u] /\ w[j] = q[v]
        <5>1. i \in 1..(n - 1) /\ j \in 1..(n - 1) BY <2>5
        <5>2. w[i] = q[u] /\ w[j] = q[v] BY <2>5, <5>1
        <5>3. u \in 1..n /\ v \in 1..n BY <2>4, <5>1
        <5>4. u < v BY <2>1, <3>1, <5>1
        <5>5. QED BY <5>2, <5>3, <5>4
      <4>2. QED BY <1>2, <2>9, <4>1 DEF Rises
    <3>2. ASSUME NEW i \in DOMAIN w, w[i] = f PROVE FALSE
      <4> DEFINE u == IF i < k THEN i ELSE i + 1
      <4>1. u \in 1..n /\ (u < k \/ k < u) /\ w[i] = q[u] BY <2>1, <2>4, <2>5
      <4>2. key[q[u]] \in Nat /\ key[q[k]] \in Nat BY <1>2, <2>1, <4>1
      <4>3. key[q[u]] # key[q[k]] BY <1>2, <2>1, <2>9, <4>1, <4>2 DEF Rises
      <4>4. QED BY <2>1, <3>2, <4>1, <4>3
    <3>3. QED BY <3>1, <3>2 DEF Rises
  <2>10. QED BY <2>2, <2>7, <2>8, <2>9
<1>5. QED BY <1>3, <1>4

(* What only looks at the files of a sequence can look at another key.     *)
LEMMA RisesElsewhere ==
  ASSUME NEW q, NEW key, NEW other, \A i \in DOMAIN q : other[q[i]] = key[q[i]], Rises(q, key)
  PROVE  Rises(q, other)
  BY DEF Rises

LEMMA AppendRises ==
  ASSUME NEW q \in Seq(Files), NEW f \in Files, NEW key \in [Files -> Nat], Rises(q, key),
         \A i \in DOMAIN q : key[q[i]] < key[f]
  PROVE  Append(q, f) \in Seq(Files) /\ Rises(Append(q, f), key)
<1>1. PICK n \in Nat : n = Len(q) OBVIOUS
<1>2. DOMAIN q = 1..n BY <1>1
<1>3. Append(q, f) \in Seq(Files) /\ DOMAIN Append(q, f) = 1..(n + 1) BY <1>1
<1>4. \A i \in 1..n : Append(q, f)[i] = q[i] BY <1>1
<1>5. Append(q, f)[n + 1] = f BY <1>1
<1>6. ASSUME NEW i \in 1..(n + 1), NEW j \in 1..(n + 1), i < j
      PROVE  key[Append(q, f)[i]] < key[Append(q, f)[j]]
  <2>1. i \in 1..n BY <1>6
  <2>2. j \in 1..n \/ j = n + 1 BY <1>6
  <2>3. QED BY <1>2, <1>4, <1>5, <1>6, <2>1, <2>2 DEF Rises
<1>7. QED BY <1>3, <1>6 DEF Rises

(* The rest of a sequence.                                                 *)
LEMMA RestIs ==
  ASSUME NEW S, NEW q \in Seq(S), NEW i \in DOMAIN q
  PROVE  /\ SubSeq(q, i + 1, Len(q)) \in Seq(S)
         /\ \A j \in DOMAIN SubSeq(q, i + 1, Len(q)) :
              i + j \in DOMAIN q /\ SubSeq(q, i + 1, Len(q))[j] = q[i + j]
         /\ Distinct(q) => Distinct(SubSeq(q, i + 1, Len(q)))
                           /\ \A j \in DOMAIN SubSeq(q, i + 1, Len(q)) : SubSeq(q, i + 1, Len(q))[j] # q[i]
<1> DEFINE r == SubSeq(q, i + 1, Len(q))
<1>1. PICK n \in Nat : n = Len(q) OBVIOUS
<1>2. DOMAIN q = 1..n /\ i \in 1..n BY <1>1
<1>3. r = [j \in 1..(n - i) |-> q[i + j]]
  <2>1. r = [j \in 1..(n - (i + 1) + 1) |-> q[(i + 1) + j - 1]] BY <1>1, <1>2
  <2>2. n - (i + 1) + 1 = n - i /\ \A j \in 1..(n - i) : (i + 1) + j - 1 = i + j BY <1>2
  <2>3. QED BY <2>1, <2>2
<1>4. \A j \in 1..(n - i) : i + j \in 1..n /\ i + j # i BY <1>2
<1>5. DOMAIN r = 1..(n - i) /\ \A j \in 1..(n - i) : r[j] = q[i + j] BY <1>3
<1>6. \A j \in 1..n : q[j] \in S BY <1>1
<1>7. r \in Seq(S)
  <2>1. n - i \in Nat BY <1>2
  <2>2. r \in [1..(n - i) -> S] BY <1>3, <1>4, <1>6
  <2>3. QED BY <2>1, <2>2
<1>8. ASSUME Distinct(q) PROVE Distinct(r) /\ \A j \in DOMAIN r : r[j] # q[i]
  <2>1. \A j \in DOMAIN r : r[j] # q[i] BY <1>2, <1>4, <1>5, <1>8 DEF Distinct
  <2>2. ASSUME NEW j \in DOMAIN r, NEW k \in DOMAIN r, r[j] = r[k] PROVE j = k
    <3>1. j \in 1..(n - i) /\ k \in 1..(n - i) /\ q[i + j] = q[i + k] BY <1>5, <2>2
    <3>2. i + j = i + k BY <1>2, <1>4, <1>8, <3>1 DEF Distinct
    <3>3. QED BY <1>2, <3>1, <3>2
  <2>3. QED BY <2>1, <2>2 DEF Distinct
<1>9. QED BY <1>2, <1>4, <1>5, <1>7, <1>8

-----------------------------------------------------------------------------
(* Calls in general.                                                       *)
LEMMA NoneIsOther ==
  /\ None \notin Ops /\ None \notin Files /\ None \notin Tags /\ None \notin Series
  /\ None \notin {"create", "owner", "attach", "detach", "last", "join", "leave", "members", "renumber",
                  "manual", "sort"}
<1>1. \A op \in Ops : \A i \in DOMAIN Steps[op] : Steps[op][i] # None BY NoneAssumption
<1>2. \A i \in 1..4 : Steps["dropInSeries"][i] # None BY <1>1, AllOps, StepTable
<1>3. \A i \in 1..3 : Steps["dropInTag"][i] # None /\ Steps["reorder"][i] # None BY <1>1, AllOps, StepTable
<1>4. \A i \in 1..2 : Steps["retag"][i] # None /\ Steps["move"][i] # None BY <1>1, AllOps, StepTable
<1>5. Steps["sort"][1] # None BY <1>1, AllOps, StepTable
<1>6. /\ Steps["dropInSeries"][1] # None /\ Steps["dropInSeries"][2] # None
      /\ Steps["dropInSeries"][3] # None /\ Steps["dropInSeries"][4] # None
  BY <1>2
<1>7. /\ Steps["dropInTag"][2] # None /\ Steps["reorder"][1] # None /\ Steps["reorder"][2] # None
      /\ Steps["reorder"][3] # None /\ Steps["retag"][1] # None /\ Steps["move"][1] # None
  BY <1>3, <1>4
<1>8. QED BY <1>5, <1>6, <1>7, NoneAssumption, StepTable

LEMMA IdleIs ==
  /\ Idle.op = None /\ Idle.at = 0 /\ Idle.file = None /\ Idle.from = None /\ Idle.to = None
  /\ Idle.todo = <<>> /\ Idle.place = 0 /\ Idle.found = {} /\ Idle.alone = TRUE
  /\ OnSeries(Idle) = {} /\ Idle \notin Calls
  BY NoneIsOther DEF Idle, OnSeries, Calls

LEMMA StepOf ==
  ASSUME CallsOk, NEW p \in Requests, Step(p) # None
  PROVE  /\ call[p] \in Calls /\ Fits(call[p]) /\ call[p].op \in Ops /\ call[p].at \in DOMAIN Steps[call[p].op]
         /\ Step(p) = Steps[call[p].op][call[p].at] /\ call[p] # Idle
<1>1. call[p] # Idle BY IdleIs DEF Step
<1>2. Fits(call[p]) BY <1>1 DEF CallsOk
<1>3. call[p].op \in Ops BY <1>2 DEF Fits, Calls
<1>4. call[p].op # None BY <1>3, NoneIsOther
<1>5. QED BY <1>1, <1>2, <1>3, <1>4 DEF Step, Fits

LEMMA OneCall ==
  ASSUME CallsOk, NEW p \in Requests, NEW c, c = Idle \/ Fits(c), call' = [call EXCEPT ![p] = c]
  PROVE  CallsOk'
<1>1. call' \in [Requests -> Calls \cup {Idle}] BY DEF CallsOk, Fits
<1>2. ASSUME NEW q \in Requests PROVE call'[q] = Idle \/ Fits(call'[q])
  <2>1. CASE q = p BY <2>1 DEF CallsOk
  <2>2. CASE q # p BY <2>2 DEF CallsOk
  <2>3. QED BY <2>1, <2>2
<1>3. QED BY <1>1, <1>2 DEF CallsOk

LEMMA StopFits ==
  ASSUME CallsOk, NEW p \in Requests, Stop(p) PROVE CallsOk'
  BY OneCall DEF Stop

(* A step of a call leaves it there, or takes it to the next.              *)
Next1(c) == [c EXCEPT !.at = @ + 1]

LEMMA NextIs ==
  ASSUME NEW c \in Calls, c.at \in DOMAIN Steps[c.op], c.at < Len(Steps[c.op])
  PROVE  /\ Next1(c) \in Calls /\ Next1(c).at \in DOMAIN Steps[Next1(c).op] /\ Next1(c).at = c.at + 1
         /\ Next1(c).op = c.op /\ Next1(c).file = c.file /\ Next1(c).from = c.from /\ Next1(c).to = c.to
         /\ Next1(c).todo = c.todo /\ Next1(c).place = c.place /\ Next1(c).found = c.found
         /\ Next1(c).alone = c.alone
<1>1. c.op \in Ops BY DEF Calls
<1>2. c.at \in 1..4 /\ Len(Steps[c.op]) \in 1..4 /\ DOMAIN Steps[c.op] = 1..Len(Steps[c.op])
  BY <1>1, CallsMadeAt
<1>3. c.at + 1 \in 1..4 /\ c.at + 1 \in DOMAIN Steps[c.op]
  <2>1. PICK n \in 1..4 : n = Len(Steps[c.op]) BY <1>2
  <2>2. PICK a \in 1..4 : a = c.at BY <1>2
  <2>3. a < n BY <2>1, <2>2
  <2>4. a + 1 \in 1..4 /\ a + 1 \in 1..n BY <2>3
  <2>5. QED BY <1>2, <2>1, <2>2, <2>4
<1>4. QED BY <1>3 DEF Next1, Calls

LEMMA GoesIs ==
  ASSUME CallsOk, NEW p \in Requests, NEW c, Goes(p, c)
  PROVE  /\ call' = [call EXCEPT ![p] = IF c.at < Len(Steps[c.op]) THEN Next1(c) ELSE Idle]
         /\ call'[p] = (IF c.at < Len(Steps[c.op]) THEN Next1(c) ELSE Idle)
         /\ \A q \in Requests : q # p => call'[q] = call[q]
  BY DEF Goes, CallsOk, Next1

LEMMA GoesFits ==
  ASSUME CallsOk, NEW p \in Requests, NEW c, Goes(p, c), c.at < Len(Steps[c.op]) => Fits(Next1(c))
  PROVE  CallsOk'
<1>1. CASE c.at < Len(Steps[c.op])
  <2>1. call' = [call EXCEPT ![p] = Next1(c)] BY <1>1, GoesIs
  <2>2. QED BY <1>1, <2>1, OneCall
<1>2. CASE ~(c.at < Len(Steps[c.op]))
  <2>1. call' = [call EXCEPT ![p] = Idle] BY <1>2, GoesIs
  <2>2. QED BY <2>1, OneCall
<1>3. QED BY <1>1, <1>2

(* What is asked for with the numbers of the files it has: everything a    *)
(* call needs later that it has from the start.                            *)
LEMMA FitsOn ==
  ASSUME NEW c, Fits(c), c.at < Len(Steps[c.op]),
         Made(Next1(c)) => c.file \in Files,
         c.op = "reorder" /\ c.at = 1 => c.place >= 10,
         c.op \in {"add", "dropInSeries"} => c.place >= 1
  PROVE  Fits(Next1(c))
<1>1. c \in Calls /\ c.at \in DOMAIN Steps[c.op] BY DEF Fits
<1>2. c.at \in 1..4 BY <1>1, CallsMadeAt DEF Calls
<1>3. QED BY <1>1, <1>2, NextIs DEF Fits

-----------------------------------------------------------------------------
(* What a client asks for fits.                                            *)
Plainly(c, op) ==
  c = [op |-> op, at |-> 1, file |-> c.file, from |-> c.from, to |-> c.to, todo |-> c.todo,
       place |-> c.place, found |-> {}, alone |-> TRUE]

LEMMA NewIs ==
  \A op, F, A, B, Q, N : \A c \in New(op, F, A, B, Q, N) :
    /\ c.file \in F /\ c.from \in A /\ c.to \in B /\ c.todo \in Q /\ c.place \in N
    /\ Plainly(c, op)
<1> TAKE op, F, A, B, Q, N
<1> TAKE c \in New(op, F, A, B, Q, N)
<1>1. PICK d \in [file: F, from: A, to: B, todo: Q, place: N] :
        c = [Idle EXCEPT !.op = op, !.at = 1, !.file = d.file, !.from = d.from, !.to = d.to,
                         !.todo = d.todo, !.place = d.place]
  BY DEF New
<1>2. c = [op |-> op, at |-> 1, file |-> d.file, from |-> d.from, to |-> d.to, todo |-> d.todo,
           place |-> d.place, found |-> {}, alone |-> TRUE]
  BY <1>1 DEF Idle
<1>3. QED BY <1>2 DEF Plainly

LEMMA PermsAre ==
  ASSUME NEW S, IsFiniteSet(S), NEW U \in SUBSET S, NEW q \in Perms(U)
  PROVE  q \in Seq(U) /\ q \in Seq(S) /\ Distinct(q)
<1>1. IsFiniteSet(U) BY FS_Subset
<1>2. Cardinality(U) \in Nat BY <1>1, FS_CardinalityType
<1>3. q \in [1..Cardinality(U) -> U] /\ \A i, j \in DOMAIN q : q[i] = q[j] => i = j BY DEF Perms
<1>4. QED BY <1>2, <1>3 DEF Distinct

Begins(c, op) ==
  /\ Fits(c) /\ c.op = op /\ c.at = 1 /\ c.found = {} /\ c.alone = TRUE

LEMMA Beginning ==
  ASSUME NEW op \in Ops, NEW c, Plainly(c, op),
         c.file \in Files \cup {None}, c.from \in Tags \cup Series \cup {None}, c.to \in Series \cup {None},
         c.todo \in Seq(Tags \cup Files), c.place \in Nat,
         op \in {"retag", "untag", "add", "number", "remove", "move"} => c.file \in Files,
         op \in {"dropInSeries", "add", "number", "move", "reorder", "sort"} => c.to \in Series,
         op \in {"remove", "move"} => c.from \in Series,
         op \in {"dropInTag", "retag"} => c.todo \in Seq(Tags),
         op = "untag" => c.todo = <<>>,
         op = "reorder" => c.todo \in Seq(Files) /\ Distinct(c.todo)
  PROVE  Begins(c, op)
<1>1. c.op = op /\ c.at = 1 /\ c.found = {} /\ c.alone = TRUE BY DEF Plainly
<1>2. c \in Calls
  <2>1. PICK f \in Files \cup {None}, a \in Tags \cup Series \cup {None}, b \in Series \cup {None},
            q \in Seq(Tags \cup Files), n \in Nat :
          c = [op |-> op, at |-> 1, file |-> f, from |-> a, to |-> b, todo |-> q,
               place |-> n, found |-> {}, alone |-> TRUE]
    BY DEF Plainly
  <2>2. 1 \in 1..4 /\ {} \in SUBSET Files /\ TRUE \in BOOLEAN OBVIOUS
  <2>3. [op |-> op, at |-> 1, file |-> f, from |-> a, to |-> b, todo |-> q,
         place |-> n, found |-> {}, alone |-> TRUE] \in Calls
    BY <2>2 DEF Calls
  <2>4. QED BY <2>1, <2>3
<1>3. ~Made(c) BY <1>1 DEF Made
<1>4. 1 \in DOMAIN Steps[op] BY AllOps, StepTable
<1>5. QED BY <1>1, <1>2, <1>3, <1>4 DEF Fits, Begins

LEMMA AsksFit ==
  ASSUME TablesOk, NEW op \in Ops, NEW c \in Asks(op)
  PROVE  Begins(c, op)
<1> DEFINE Fl == There(files)  T == There(tags)  S == There(series)
           Paths == UNION {Perms(U) : U \in SUBSET T} \ {<<>>}
           Orderings == UNION {Perms(U) : U \in SUBSET Fl}
<1>1. /\ Fl \subseteq Files /\ T \subseteq Tags /\ S \subseteq Series
      /\ \A f \in Files : links[f] \subseteq Tags
      /\ \A s \in Series : Members(s) \subseteq Files
  BY DEF TablesOk, There, Members
<1>2. \A q \in Paths : q \in Seq(Tags)
  <2>1. SUFFICES ASSUME NEW U \in SUBSET T, NEW q \in Perms(U) PROVE q \in Seq(Tags) OBVIOUS
  <2>2. U \in SUBSET Tags /\ IsFiniteSet(Tags) BY <1>1, SmbViewsAssumption
  <2>3. QED BY <2>2, PermsAre
<1>3. \A q \in Orderings : q \in Seq(Files) /\ Distinct(q)
  <2>1. SUFFICES ASSUME NEW U \in SUBSET Fl, NEW q \in Perms(U) PROVE q \in Seq(Files) /\ Distinct(q) OBVIOUS
  <2>2. U \in SUBSET Files /\ IsFiniteSet(Files) BY <1>1, SmbViewsAssumption
  <2>3. QED BY <2>2, PermsAre
<1>4. <<>> \in Seq(Tags) /\ \A q \in Seq(Tags) \cup Seq(Files) : q \in Seq(Tags \cup Files)
  OBVIOUS
<1>5. Orders \subseteq Nat /\ 0 \in Nat BY SmbViewsAssumption
<1> HIDE DEF Fl, T, S, Paths, Orderings
<1>6. CASE op = "upload"
  <2>1. c \in New(op, {None}, {None}, {None}, {<<>>}, {0})
    BY <1>6 DEF Asks, Fl, S, T, Paths, Orderings, Places
  <2>2. Plainly(c, op) /\ c.file = None /\ c.from = None /\ c.to = None /\ c.todo = <<>> /\ c.place = 0
    BY <2>1, NewIs
  <2>3. QED BY <1>1, <1>2, <1>3, <1>4, <1>5, <1>6, <2>1, <2>2, Beginning
<1>7. CASE op = "dropInTag"
  <2>1. c \in New(op, {None}, {None}, {None}, Paths, {0})
    BY <1>7 DEF Asks, Fl, S, T, Paths, Orderings, Places
  <2>2. Plainly(c, op) /\ c.file = None /\ c.from = None /\ c.to = None /\ c.todo \in Paths /\ c.place = 0
    BY <2>1, NewIs
  <2>3. QED BY <1>1, <1>2, <1>3, <1>4, <1>5, <1>7, <2>1, <2>2, Beginning
<1>8. CASE op = "dropInSeries"
  <2>1. c \in New(op, {None}, {None}, S, {<<>>}, {0})
    BY <1>8 DEF Asks, Fl, S, T, Paths, Orderings, Places
  <2>2. Plainly(c, op) /\ c.file = None /\ c.from = None /\ c.to \in S /\ c.todo = <<>> /\ c.place = 0
    BY <2>1, NewIs
  <2>3. QED BY <1>1, <1>2, <1>3, <1>4, <1>5, <1>8, <2>1, <2>2, Beginning
<1>9. CASE op = "retag"
  <2>1. PICK f \in Fl : c \in New(op, {f}, links[f], {None}, Paths \cup {<<>>}, {0})
    BY <1>9 DEF Asks, Fl, S, T, Paths, Orderings, Places
  <2>2. Plainly(c, op) /\ c.file = f /\ c.from \in links[f] /\ c.to = None /\ c.todo \in Paths \cup {<<>>} /\ c.place = 0
    BY <2>1, NewIs
  <2>3. QED BY <1>1, <1>2, <1>3, <1>4, <1>5, <1>9, <2>1, <2>2, Beginning
<1>10. CASE op = "untag"
  <2>1. PICK f \in Fl : c \in New(op, {f}, links[f], {None}, {<<>>}, {0})
    BY <1>10 DEF Asks, Fl, S, T, Paths, Orderings, Places
  <2>2. Plainly(c, op) /\ c.file = f /\ c.from \in links[f] /\ c.to = None /\ c.todo = <<>> /\ c.place = 0
    BY <2>1, NewIs
  <2>3. QED BY <1>1, <1>2, <1>3, <1>4, <1>5, <1>10, <2>1, <2>2, Beginning
<1>11. CASE op = "add"
  <2>1. c \in New(op, Fl, {None}, S, {<<>>}, {0})
    BY <1>11 DEF Asks, Fl, S, T, Paths, Orderings, Places
  <2>2. Plainly(c, op) /\ c.file \in Fl /\ c.from = None /\ c.to \in S /\ c.todo = <<>> /\ c.place = 0
    BY <2>1, NewIs
  <2>3. QED BY <1>1, <1>2, <1>3, <1>4, <1>5, <1>11, <2>1, <2>2, Beginning
<1>12. CASE op = "number"
  <2>1. c \in New(op, Fl, {None}, S, {<<>>}, Orders)
    BY <1>12 DEF Asks, Fl, S, T, Paths, Orderings, Places
  <2>2. Plainly(c, op) /\ c.file \in Fl /\ c.from = None /\ c.to \in S /\ c.todo = <<>> /\ c.place \in Orders
    BY <2>1, NewIs
  <2>3. QED BY <1>1, <1>2, <1>3, <1>4, <1>5, <1>12, <2>1, <2>2, Beginning
<1>13. CASE op = "remove"
  <2>1. PICK s \in S : c \in New(op, Members(s), {s}, {None}, {<<>>}, {0})
    BY <1>13 DEF Asks, Fl, S, T, Paths, Orderings, Places
  <2>2. Plainly(c, op) /\ c.file \in Members(s) /\ c.from = s /\ c.to = None /\ c.todo = <<>> /\ c.place = 0
    BY <2>1, NewIs
  <2>3. QED BY <1>1, <1>2, <1>3, <1>4, <1>5, <1>13, <2>1, <2>2, Beginning
<1>14. CASE op = "move"
  <2>1. PICK s \in S : c \in New(op, Members(s), {s}, S \ {s}, {<<>>}, Orders \cup {0})
    BY <1>14 DEF Asks, Fl, S, T, Paths, Orderings, Places
  <2>2. Plainly(c, op) /\ c.file \in Members(s) /\ c.from = s /\ c.to \in S \ {s} /\ c.todo = <<>> /\ c.place \in Orders \cup {0}
    BY <2>1, NewIs
  <2>3. QED BY <1>1, <1>2, <1>3, <1>4, <1>5, <1>14, <2>1, <2>2, Beginning
<1>15. CASE op = "reorder"
  <2>1. c \in New(op, {None}, {None}, S, Orderings, {0})
    BY <1>15 DEF Asks, Fl, S, T, Paths, Orderings, Places
  <2>2. Plainly(c, op) /\ c.file = None /\ c.from = None /\ c.to \in S /\ c.todo \in Orderings /\ c.place = 0
    BY <2>1, NewIs
  <2>3. QED BY <1>1, <1>2, <1>3, <1>4, <1>5, <1>15, <2>1, <2>2, Beginning
<1>16. CASE op = "sort"
  <2>1. c \in New(op, {None}, {None}, S, {<<>>}, {0})
    BY <1>16 DEF Asks, Fl, S, T, Paths, Orderings, Places
  <2>2. Plainly(c, op) /\ c.file = None /\ c.from = None /\ c.to \in S /\ c.todo = <<>> /\ c.place = 0
    BY <2>1, NewIs
  <2>3. QED BY <1>1, <1>2, <1>3, <1>4, <1>5, <1>16, <2>1, <2>2, Beginning
<1>17. QED BY <1>6, <1>7, <1>8, <1>9, <1>10, <1>11, <1>12, <1>13, <1>14, <1>15, <1>16, AllOps

-----------------------------------------------------------------------------
(* A request that begins takes the peace from those at the same series.    *)
Calmer(c) == [c EXCEPT !.alone = FALSE]

LEMMA CalmerIs ==
  ASSUME NEW c \in Calls
  PROVE  /\ Calmer(c) \in Calls /\ Calmer(c).op = c.op /\ Calmer(c).at = c.at /\ Calmer(c).file = c.file
         /\ Calmer(c).from = c.from /\ Calmer(c).to = c.to /\ Calmer(c).todo = c.todo
         /\ Calmer(c).place = c.place /\ Calmer(c).found = c.found /\ Calmer(c).alone = FALSE
  BY DEF Calmer, Calls

LEMMA CalmerFits ==
  ASSUME NEW c, Fits(c) PROVE Fits(Calmer(c)) /\ OnSeries(Calmer(c)) = OnSeries(c)
<1>1. c \in Calls BY DEF Fits
<1>2. Made(Calmer(c)) = Made(c) BY <1>1, CalmerIs DEF Made
<1>3. OnSeries(Calmer(c)) = OnSeries(c) BY <1>1, CalmerIs DEF OnSeries
<1>4. QED BY <1>1, <1>2, <1>3, CalmerIs DEF Fits

LEMMA IdleOrBusy ==
  ASSUME CallsOk, NEW p \in Requests
  PROVE  /\ call[p] = Idle \/ (Fits(call[p]) /\ call[p] \in Calls /\ call[p].op \in Ops)
         /\ call[p].op = None => call[p] = Idle
         /\ OnSeries(call[p]) # {} => Fits(call[p])
<1>1. call[p] = Idle \/ Fits(call[p]) BY DEF CallsOk
<1>2. Fits(call[p]) => call[p] \in Calls /\ call[p].op \in Ops BY DEF Fits, Calls
<1>3. QED BY <1>1, <1>2, IdleIs, NoneIsOther

(* What a start leaves: its own request, disturbed when another is there,  *)
(* and the others, disturbed where it goes.                                *)
Started(p, c) ==
  /\ call[p] = Idle
  /\ call'[p] \in {c, Calmer(c)}
  /\ \A q \in Requests \ {p} :
       /\ call'[q] = call[q] \/ (Fits(call[q]) /\ call'[q] = Calmer(call[q]))
       /\ OnSeries(call[q]) \cap OnSeries(c) # {} => call'[q] = Calmer(call[q]) /\ call'[p] = Calmer(c)

LEMMA StartIs ==
  ASSUME TablesOk, CallsOk, NEW p \in Requests, NEW op \in Arrivals, Start(p, op)
  PROVE  /\ op \in Ops
         /\ \E c : Begins(c, op) /\ Started(p, c)
         /\ CallsOk'
<1>1. op \in Ops BY NoneAssumption
<1>2. PICK c \in Asks(op) : Disturb(p, OnSeries(c), c) BY DEF Start
<1>3. Begins(c, op) BY <1>1, AsksFit
<1>4. Fits(c) /\ c \in Calls /\ c.alone = TRUE BY <1>3 DEF Begins, Fits
<1>5. call[p] = Idle BY IdleOrBusy DEF Start
<1> DEFINE met == UNION {Meets(p, s) : s \in OnSeries(c)}
<1>6. call' = [q \in Requests |-> IF q = p THEN [c EXCEPT !.alone = @ /\ met = {}]
                                  ELSE IF q \in met THEN [call[q] EXCEPT !.alone = FALSE] ELSE call[q]]
  BY <1>2 DEF Disturb
<1>7. \A q \in Requests \ {p} : q \in met <=> OnSeries(call[q]) \cap OnSeries(c) # {}
  BY DEF Meets
<1>8. met \subseteq Requests \ {p} BY DEF Meets
<1> HIDE DEF met
<1>9. call'[p] = [c EXCEPT !.alone = c.alone /\ met = {}] BY <1>6
<1>10. met = {} => call'[p] = c
  <2>1. [c EXCEPT !.alone = TRUE] = c BY <1>4 DEF Calls
  <2>2. QED BY <1>4, <1>9, <2>1
<1>11. met # {} => call'[p] = Calmer(c)
  BY <1>4, <1>9 DEF Calmer
<1>12. \A q \in Requests \ {p} :
         /\ q \in met => call'[q] = Calmer(call[q]) /\ Fits(call[q])
         /\ q \notin met => call'[q] = call[q]
  <2>1. SUFFICES ASSUME NEW q \in Requests \ {p}
                 PROVE  /\ q \in met => call'[q] = Calmer(call[q]) /\ Fits(call[q])
                        /\ q \notin met => call'[q] = call[q]
    OBVIOUS
  <2>2. q \in met => Fits(call[q]) BY <1>7, IdleOrBusy
  <2>3. QED BY <1>6, <2>2 DEF Calmer
<1>13. Started(p, c)
  <2>1. ASSUME NEW q \in Requests \ {p}
        PROVE  /\ call'[q] = call[q] \/ (Fits(call[q]) /\ call'[q] = Calmer(call[q]))
               /\ OnSeries(call[q]) \cap OnSeries(c) # {} => call'[q] = Calmer(call[q]) /\ call'[p] = Calmer(c)
    <3>1. CASE q \in met BY <1>11, <1>12, <3>1
    <3>2. CASE q \notin met BY <1>7, <1>12, <3>2
    <3>3. QED BY <3>1, <3>2
  <2>2. QED BY <1>5, <1>10, <1>11, <2>1 DEF Started
<1>14. CallsOk'
  <2>1. ASSUME NEW q \in Requests PROVE call'[q] = Idle \/ Fits(call'[q])
    <3>1. CASE q = p BY <1>4, <1>13, <3>1, CalmerFits DEF Started
    <3>2. CASE q # p
      <4>1. call'[q] = call[q] \/ (Fits(call[q]) /\ call'[q] = Calmer(call[q])) BY <1>13, <3>2 DEF Started
      <4>2. call[q] = Idle \/ Fits(call[q]) BY DEF CallsOk
      <4>3. QED BY <4>1, <4>2, CalmerFits
    <3>3. QED BY <3>1, <3>2
  <2>2. \A q \in Requests : call'[q] \in Calls \cup {Idle} BY <2>1 DEF Fits
  <2>3. call' = [q \in Requests |-> call'[q]] BY <1>6
  <2>4. call' \in [Requests -> Calls \cup {Idle}] BY <2>2, <2>3
  <2>5. QED BY <2>1, <2>4 DEF CallsOk
<1>15. QED BY <1>1, <1>3, <1>13, <1>14

-----------------------------------------------------------------------------
(* What a request has in hand at each call.                                *)
LEMMA InCall ==
  ASSUME CallsOk, NEW p \in Requests, NEW c, c = call[p], Step(p) # None
  PROVE  /\ Fits(c) /\ c \in Calls /\ c.op \in Ops /\ c # Idle
         /\ Step(p) = "create" =>
              /\ c.at < Len(Steps[c.op]) /\ c.op \in Creates /\ ~Made(c)
              /\ (c.op \in {"upload", "dropInTag"} /\ c.at = 1) \/ (c.op = "dropInSeries" /\ c.at = 2)
         /\ Step(p) = "owner" => ~(c.at < Len(Steps[c.op])) /\ c.op \in Creates /\ Made(c) /\ c.file \in Files
         /\ Step(p) = "attach" =>
              /\ c.file \in Files /\ c.todo \in Seq(Tags) /\ c.at = 2
              /\ (c.op = "dropInTag" /\ c.at < Len(Steps[c.op])) \/ (c.op = "retag" /\ ~(c.at < Len(Steps[c.op])))
         /\ Step(p) = "detach" =>
              /\ c.file \in Files /\ c.todo \in Seq(Tags) /\ c.at = 1
              /\ (c.op = "retag" /\ c.at < Len(Steps[c.op]))
                   \/ (c.op = "untag" /\ ~(c.at < Len(Steps[c.op])) /\ c.todo = <<>>)
         /\ Step(p) = "last" =>
              c.at < Len(Steps[c.op]) /\ c.op \in {"dropInSeries", "add"} /\ c.at = 1 /\ c.to \in Series
         /\ Step(p) = "join" =>
              /\ c.file \in Files /\ c.to \in Series
              /\ \/ c.op = "number" /\ c.at = 1 /\ ~(c.at < Len(Steps[c.op]))
                 \/ c.op \in {"add", "move"} /\ c.at = 2 /\ ~(c.at < Len(Steps[c.op]))
                 \/ c.op = "dropInSeries" /\ c.at = 3 /\ c.at < Len(Steps[c.op])
         /\ Step(p) = "leave" =>
              /\ c.file \in Files /\ c.from \in Series /\ c.at = 1
              /\ \/ c.op = "remove" /\ ~(c.at < Len(Steps[c.op]))
                 \/ c.op = "move" /\ c.to \in Series /\ c.at < Len(Steps[c.op])
         /\ Step(p) \in {"members", "renumber", "manual"} =>
              c.op = "reorder" /\ c.to \in Series /\ c.todo \in Seq(Files) /\ Distinct(c.todo)
         /\ Step(p) = "members" => c.at = 1 /\ c.at < Len(Steps[c.op])
         /\ Step(p) = "renumber" => c.at = 2 /\ c.at < Len(Steps[c.op]) /\ c.place >= 10
         /\ Step(p) = "manual" => c.at = 3 /\ ~(c.at < Len(Steps[c.op]))
         /\ Step(p) = "sort" => c.op = "sort" /\ c.to \in Series /\ c.at = 1 /\ ~(c.at < Len(Steps[c.op]))
<1>1. /\ Fits(c) /\ c.op \in Ops /\ c.at \in DOMAIN Steps[c.op] /\ Step(p) = Steps[c.op][c.at] /\ c # Idle
  BY StepOf
<1>2. /\ c \in Calls
      /\ c.op \in {"retag", "untag", "add", "number", "remove", "move"} \/ Made(c) => c.file \in Files
      /\ c.op \in {"dropInSeries", "add", "number", "move", "reorder", "sort"} => c.to \in Series
      /\ c.op \in {"remove", "move"} => c.from \in Series
      /\ c.op \in {"dropInTag", "retag"} => c.todo \in Seq(Tags)
      /\ c.op = "untag" => c.todo = <<>>
  BY <1>1 DEF Fits
<1>3. PICK n \in 1..4 : n = Len(Steps[c.op]) BY <1>1, CallsMadeAt
<1>4. PICK a \in 1..4 : a = c.at BY <1>1, CallsMadeAt
<1>5. /\ c.op = "upload" => n = 2
      /\ c.op = "dropInTag" => n = 3
      /\ c.op = "dropInSeries" => n = 4
      /\ c.op = "retag" => n = 2
      /\ c.op = "untag" => n = 1
      /\ c.op = "add" => n = 2
      /\ c.op = "number" => n = 1
      /\ c.op = "remove" => n = 1
      /\ c.op = "move" => n = 2
      /\ c.op = "reorder" => n = 3
      /\ c.op = "sort" => n = 1
  BY <1>3, StepTable
<1>6. /\ c.op = "upload" /\ a = 1 => a < n
      /\ c.op = "upload" /\ a = 2 => ~(a < n)
      /\ c.op = "dropInTag" /\ a = 1 => a < n
      /\ c.op = "dropInTag" /\ a = 2 => a < n
      /\ c.op = "dropInTag" /\ a = 3 => ~(a < n)
      /\ c.op = "dropInSeries" /\ a = 1 => a < n
      /\ c.op = "dropInSeries" /\ a = 2 => a < n
      /\ c.op = "dropInSeries" /\ a = 3 => a < n
      /\ c.op = "dropInSeries" /\ a = 4 => ~(a < n)
      /\ c.op = "retag" /\ a = 1 => a < n
      /\ c.op = "retag" /\ a = 2 => ~(a < n)
      /\ c.op = "untag" /\ a = 1 => ~(a < n)
      /\ c.op = "add" /\ a = 1 => a < n
      /\ c.op = "add" /\ a = 2 => ~(a < n)
      /\ c.op = "number" /\ a = 1 => ~(a < n)
      /\ c.op = "remove" /\ a = 1 => ~(a < n)
      /\ c.op = "move" /\ a = 1 => a < n
      /\ c.op = "move" /\ a = 2 => ~(a < n)
      /\ c.op = "reorder" /\ a = 1 => a < n
      /\ c.op = "reorder" /\ a = 2 => a < n
      /\ c.op = "reorder" /\ a = 3 => ~(a < n)
      /\ c.op = "sort" /\ a = 1 => ~(a < n)
  BY <1>5
<1>7. /\ c.op = "upload" /\ c.at = 1 => c.at < Len(Steps[c.op])
      /\ c.op = "upload" /\ c.at = 2 => ~(c.at < Len(Steps[c.op]))
      /\ c.op = "dropInTag" /\ c.at = 1 => c.at < Len(Steps[c.op])
      /\ c.op = "dropInTag" /\ c.at = 2 => c.at < Len(Steps[c.op])
      /\ c.op = "dropInTag" /\ c.at = 3 => ~(c.at < Len(Steps[c.op]))
      /\ c.op = "dropInSeries" /\ c.at = 1 => c.at < Len(Steps[c.op])
      /\ c.op = "dropInSeries" /\ c.at = 2 => c.at < Len(Steps[c.op])
      /\ c.op = "dropInSeries" /\ c.at = 3 => c.at < Len(Steps[c.op])
      /\ c.op = "dropInSeries" /\ c.at = 4 => ~(c.at < Len(Steps[c.op]))
      /\ c.op = "retag" /\ c.at = 1 => c.at < Len(Steps[c.op])
      /\ c.op = "retag" /\ c.at = 2 => ~(c.at < Len(Steps[c.op]))
      /\ c.op = "untag" /\ c.at = 1 => ~(c.at < Len(Steps[c.op]))
      /\ c.op = "add" /\ c.at = 1 => c.at < Len(Steps[c.op])
      /\ c.op = "add" /\ c.at = 2 => ~(c.at < Len(Steps[c.op]))
      /\ c.op = "number" /\ c.at = 1 => ~(c.at < Len(Steps[c.op]))
      /\ c.op = "remove" /\ c.at = 1 => ~(c.at < Len(Steps[c.op]))
      /\ c.op = "move" /\ c.at = 1 => c.at < Len(Steps[c.op])
      /\ c.op = "move" /\ c.at = 2 => ~(c.at < Len(Steps[c.op]))
      /\ c.op = "reorder" /\ c.at = 1 => c.at < Len(Steps[c.op])
      /\ c.op = "reorder" /\ c.at = 2 => c.at < Len(Steps[c.op])
      /\ c.op = "reorder" /\ c.at = 3 => ~(c.at < Len(Steps[c.op]))
      /\ c.op = "sort" /\ c.at = 1 => ~(c.at < Len(Steps[c.op]))
  BY <1>3, <1>4, <1>6
<1>8. Step(p) = "create" =>
        /\ c.at < Len(Steps[c.op]) /\ c.op \in Creates /\ ~Made(c)
        /\ (c.op \in {"upload", "dropInTag"} /\ c.at = 1) \/ (c.op = "dropInSeries" /\ c.at = 2)
  <2>1. ASSUME Step(p) = "create"
        PROVE  (c.op \in {"upload", "dropInTag"} /\ c.at = 1) \/ (c.op = "dropInSeries" /\ c.at = 2)
    BY <1>1, <2>1, CallsMadeAt
  <2>2. QED BY <2>1, <1>7 DEF Creates, Made
<1>9. Step(p) = "owner" => ~(c.at < Len(Steps[c.op])) /\ c.op \in Creates /\ Made(c) /\ c.file \in Files
  <2>1. ASSUME Step(p) = "owner"
        PROVE  \/ c.op = "upload" /\ c.at = 2
               \/ c.op = "dropInTag" /\ c.at = 3
               \/ c.op = "dropInSeries" /\ c.at = 4
    BY <1>1, <2>1, CallsMadeAt
  <2>2. Step(p) = "owner" => Made(c) BY <2>1 DEF Made
  <2>3. QED BY <1>2, <2>1, <2>2, <1>7 DEF Creates
<1>10. Step(p) = "attach" =>
        /\ c.file \in Files /\ c.todo \in Seq(Tags) /\ c.at = 2
        /\ (c.op = "dropInTag" /\ c.at < Len(Steps[c.op])) \/ (c.op = "retag" /\ ~(c.at < Len(Steps[c.op])))
  <2>1. ASSUME Step(p) = "attach" PROVE c.op \in {"dropInTag", "retag"} /\ c.at = 2
    BY <1>1, <2>1, CallsMadeAt
  <2>2. Step(p) = "attach" => Made(c) \/ c.op = "retag" BY <2>1 DEF Made
  <2>3. QED BY <1>2, <2>1, <2>2, <1>7
<1>11. Step(p) = "detach" =>
        /\ c.file \in Files /\ c.todo \in Seq(Tags) /\ c.at = 1
        /\ (c.op = "retag" /\ c.at < Len(Steps[c.op]))
             \/ (c.op = "untag" /\ ~(c.at < Len(Steps[c.op])) /\ c.todo = <<>>)
  <2>1. ASSUME Step(p) = "detach" PROVE c.op \in {"retag", "untag"} /\ c.at = 1
    BY <1>1, <2>1, CallsMadeAt
  <2>2. <<>> \in Seq(Tags) OBVIOUS
  <2>3. QED BY <1>2, <2>1, <2>2, <1>7
<1>12. Step(p) = "last" =>
        c.at < Len(Steps[c.op]) /\ c.op \in {"dropInSeries", "add"} /\ c.at = 1 /\ c.to \in Series
  <2>1. ASSUME Step(p) = "last" PROVE c.op \in {"dropInSeries", "add"} /\ c.at = 1
    BY <1>1, <2>1, CallsMadeAt
  <2>2. QED BY <1>2, <2>1, <1>7
<1>13. Step(p) = "join" =>
        /\ c.file \in Files /\ c.to \in Series
        /\ \/ c.op = "number" /\ c.at = 1 /\ ~(c.at < Len(Steps[c.op]))
           \/ c.op \in {"add", "move"} /\ c.at = 2 /\ ~(c.at < Len(Steps[c.op]))
           \/ c.op = "dropInSeries" /\ c.at = 3 /\ c.at < Len(Steps[c.op])
  <2>1. ASSUME Step(p) = "join"
        PROVE  \/ c.op = "number" /\ c.at = 1
               \/ c.op \in {"add", "move"} /\ c.at = 2
               \/ c.op = "dropInSeries" /\ c.at = 3
    BY <1>1, <2>1, CallsMadeAt
  <2>2. Step(p) = "join" => Made(c) \/ c.op \in {"add", "number", "move"} BY <2>1 DEF Made
  <2>3. QED BY <1>2, <2>1, <2>2, <1>7
<1>14. Step(p) = "leave" =>
        /\ c.file \in Files /\ c.from \in Series /\ c.at = 1
        /\ \/ c.op = "remove" /\ ~(c.at < Len(Steps[c.op]))
           \/ c.op = "move" /\ c.to \in Series /\ c.at < Len(Steps[c.op])
  <2>1. ASSUME Step(p) = "leave" PROVE c.op \in {"remove", "move"} /\ c.at = 1
    BY <1>1, <2>1, CallsMadeAt
  <2>2. QED BY <1>2, <2>1, <1>7
<1>15. /\ Step(p) \in {"members", "renumber", "manual"} => c.op = "reorder"
       /\ Step(p) = "members" => c.at = 1
       /\ Step(p) = "renumber" => c.at = 2
       /\ Step(p) = "manual" => c.at = 3
       /\ Step(p) = "sort" => c.op = "sort" /\ c.at = 1
  BY <1>1, CallsMadeAt
<1>16. c.op = "reorder" => c.to \in Series /\ c.todo \in Seq(Files) /\ Distinct(c.todo)
                           /\ (c.at = 2 => c.place >= 10)
  BY <1>1 DEF Fits
<1>17. c.op = "sort" => c.to \in Series BY <1>1 DEF Fits
<1>18. /\ c.op = "reorder" /\ c.at \in {1, 2} => c.at < Len(Steps[c.op])
       /\ c.op = "reorder" /\ c.at = 3 => ~(c.at < Len(Steps[c.op]))
       /\ c.op = "sort" /\ c.at = 1 => ~(c.at < Len(Steps[c.op]))
  BY <1>7
<1>19. QED BY <1>1, <1>2, <1>8, <1>9, <1>10, <1>11, <1>12, <1>13, <1>14, <1>15, <1>16, <1>17, <1>18

-----------------------------------------------------------------------------
(* What a call makes of the request that made it.                          *)
Holding(c, f) == [c EXCEPT !.file = f]
LEMMA HoldingIs ==
  ASSUME NEW c \in Calls, NEW f \in Files
  PROVE  /\ Holding(c, f) \in Calls /\ Holding(c, f).op = c.op /\ Holding(c, f).at = c.at
         /\ Holding(c, f).from = c.from /\ Holding(c, f).to = c.to /\ Holding(c, f).todo = c.todo
         /\ Holding(c, f).place = c.place /\ Holding(c, f).found = c.found
         /\ Holding(c, f).alone = c.alone /\ Holding(c, f).file = f
  BY DEF Holding, Calls

Placed(c, n) == [c EXCEPT !.place = n]
LEMMA PlacedIs ==
  ASSUME NEW c \in Calls, NEW n \in Nat
  PROVE  /\ Placed(c, n) \in Calls /\ Placed(c, n).op = c.op /\ Placed(c, n).at = c.at
         /\ Placed(c, n).file = c.file /\ Placed(c, n).from = c.from /\ Placed(c, n).to = c.to
         /\ Placed(c, n).todo = c.todo /\ Placed(c, n).found = c.found /\ Placed(c, n).alone = c.alone
         /\ Placed(c, n).place = n
  BY DEF Placed, Calls

Left(c, q) == [c EXCEPT !.todo = q]
LEMMA LeftIs ==
  ASSUME NEW c \in Calls, NEW q \in Seq(Tags \cup Files)
  PROVE  /\ Left(c, q) \in Calls /\ Left(c, q).op = c.op /\ Left(c, q).at = c.at
         /\ Left(c, q).file = c.file /\ Left(c, q).from = c.from /\ Left(c, q).to = c.to
         /\ Left(c, q).place = c.place /\ Left(c, q).found = c.found /\ Left(c, q).alone = c.alone
         /\ Left(c, q).todo = q
  BY DEF Left, Calls

Finding(c, F) == [c EXCEPT !.found = F, !.place = 10]
LEMMA FindingIs ==
  ASSUME NEW c \in Calls, NEW F \in SUBSET Files
  PROVE  /\ Finding(c, F) \in Calls /\ Finding(c, F).op = c.op /\ Finding(c, F).at = c.at
         /\ Finding(c, F).file = c.file /\ Finding(c, F).from = c.from /\ Finding(c, F).to = c.to
         /\ Finding(c, F).todo = c.todo /\ Finding(c, F).alone = c.alone /\ Finding(c, F).found = F
         /\ Finding(c, F).place = 10
  BY DEF Finding, Calls

Passed(c, q, n) == [c EXCEPT !.todo = q, !.place = n]

(* A request that gets on keeps the types.                                 *)
LEMMA GoesOn ==
  ASSUME CallsOk, NEW p \in Requests, NEW c, Fits(c), Goes(p, c),
         c.at < Len(Steps[c.op]) =>
           /\ Made(Next1(c)) => c.file \in Files
           /\ c.op = "reorder" /\ c.at = 1 => c.place >= 10
           /\ c.op \in {"add", "dropInSeries"} => c.place >= 1
  PROVE  CallsOk'
<1>1. c.at < Len(Steps[c.op]) => Fits(Next1(c)) BY FitsOn
<1>2. QED BY <1>1, GoesFits

LEMMA InitTyped ==
  ASSUME Init PROVE Typed
<1> USE SmbViewsAssumption
<1>1. files \in [Files -> States] /\ tags \in [Tags -> States] /\ series \in [Series -> States]
  BY DEF Init, State, States
<1>2. There(tags) = FirstTags BY DEF Init, State, There
<1>3. links \in [Files -> SUBSET There(tags)] /\ owned \subseteq Files BY <1>2 DEF Init
<1>4. order \in [Series -> [Files -> Nat]] /\ sort \in [Series -> Sorts] BY DEF Init, Sorts
<1>5. \A f \in Files : files[f] # "there" => links[f] = {} /\ \A s \in Series : order[s][f] = 0
  BY <1>4 DEF Init, State
<1>6. \A s \in Series : series[s] # "there" => Members(s) = {} BY DEF Init, State, Members
<1>7. asked \in [Series -> Seq(Files)]
  <2>1. ASSUME NEW s \in Series PROVE InOrder(Members(s), order[s]) \in Seq(Files)
    <3>1. IsFiniteSet(Members(s)) BY FS_Subset DEF Members
    <3>2. \A f \in Members(s) : order[s][f] \in Nat BY <1>4 DEF Members
    <3>3. Sorted(InOrder(Members(s), order[s]), Members(s), order[s]) BY <3>1, <3>2, InOrderSorts
    <3>4. PICK n \in Nat : n = Cardinality(Members(s)) BY <3>1, FS_CardinalityType
    <3>5. Members(s) \subseteq Files BY DEF Members
    <3>6. InOrder(Members(s), order[s]) \in [1..n -> Members(s)] BY <3>3, <3>4 DEF Sorted
    <3>7. InOrder(Members(s), order[s]) \in [1..n -> Files] BY <3>5, <3>6
    <3>8. QED BY <3>7
  <2>2. QED BY <2>1 DEF Init
<1>8. HistoryOk BY <1>7 DEF Init, HistoryOk
<1>9. CallsOk BY DEF Init, CallsOk
<1>10. QED BY <1>1, <1>3, <1>4, <1>5, <1>6, <1>8, <1>9 DEF Typed, TablesOk

LEMMA StartTyped ==
  ASSUME Typed, NEW p \in Requests, NEW op \in Arrivals, Start(p, op) PROVE Typed'
<1>1. CallsOk' BY StartIs DEF Typed
<1>2. TablesOk' BY DEF Start, tables, Typed, TablesOk, Members, There
<1>3. started' \in 0..MaxRequests BY SmbViewsAssumption DEF Start, Typed, HistoryOk
<1>4. HistoryOk' BY <1>3 DEF Start, history, Typed, HistoryOk
<1>5. QED BY <1>1, <1>2, <1>4 DEF Typed

LEMMA CreateTyped ==
  ASSUME Typed, NEW p \in Requests, Create(p) PROVE Typed'
<1> USE DEF Typed
<1> DEFINE c == call[p]
<1>1. PICK f \in Files : /\ files[f] = "new" /\ files' = [files EXCEPT ![f] = "there"]
                         /\ Goes(p, Holding(c, f))
  BY DEF Create, Holding
<1>2. Step(p) = "create" /\ Step(p) # None BY NoneIsOther DEF Create
<1>3. /\ Fits(c) /\ c \in Calls /\ c.op \in Creates
      /\ (c.op \in {"upload", "dropInTag"} /\ c.at = 1) \/ (c.op = "dropInSeries" /\ c.at = 2)
  BY <1>2, InCall
<1> HIDE DEF c
<1> DEFINE d == Holding(c, f)
<1>4. /\ d \in Calls /\ d.op = c.op /\ d.at = c.at /\ d.from = c.from /\ d.to = c.to /\ d.todo = c.todo
      /\ d.place = c.place /\ d.file \in Files
  BY <1>3, HoldingIs
<1>5. Goes(p, d) BY <1>1
<1> HIDE DEF d
<1>6. Fits(d) BY <1>3, <1>4 DEF Fits, Creates, Made
<1>7. c.op = "dropInSeries" => c.place >= 1 BY <1>3 DEF Fits
<1>8. CallsOk' BY <1>3, <1>4, <1>5, <1>6, <1>7, GoesOn DEF Creates
<1>9. HistoryOk' BY DEF Create, history, HistoryOk
<1>10. \A g \in Files : files'[g] # "there" => files[g] # "there" BY <1>1 DEF TablesOk
<1>11. files' \in [Files -> States] BY <1>1 DEF TablesOk, States
<1>12. TablesOk' BY <1>10, <1>11 DEF Create, TablesOk, Members, There
<1>13. QED BY <1>8, <1>9, <1>12

LEMMA AddOwnerTyped ==
  ASSUME Typed, NEW p \in Requests, AddOwner(p) PROVE Typed'
<1> USE DEF Typed
<1> DEFINE c == call[p]
<1>1. Step(p) = "owner" /\ Step(p) # None BY NoneIsOther DEF AddOwner
<1>2. Fits(c) /\ ~(c.at < Len(Steps[c.op])) /\ c.file \in Files BY <1>1, InCall
<1>3. Goes(p, c) /\ owned' = owned \cup {c.file} BY DEF AddOwner
<1> HIDE DEF c
<1>4. CallsOk' BY <1>2, <1>3, GoesOn
<1>5. HistoryOk' BY DEF AddOwner, history, HistoryOk
<1>6. TablesOk' BY <1>2, <1>3 DEF AddOwner, TablesOk, Members, There
<1>7. QED BY <1>4, <1>5, <1>6

LEMMA AttachTyped ==
  ASSUME Typed, NEW p \in Requests, Attach(p) PROVE Typed'
<1> USE DEF Typed
<1> DEFINE c == call[p]
<1>1. Step(p) = "attach" /\ Step(p) # None BY NoneIsOther DEF Attach
<1>2. /\ Fits(c) /\ c \in Calls /\ c.file \in Files /\ c.todo \in Seq(Tags)
      /\ c.op \in {"dropInTag", "retag"}
  BY <1>1, InCall
<1>3. CASE /\ c.todo = <<>> /\ Goes(p, c) /\ UNCHANGED <<links, tagged, deserted>>
  <2> HIDE DEF c
  <2>1. CallsOk' BY <1>2, <1>3, GoesOn
  <2>2. HistoryOk' BY <1>3 DEF Attach, HistoryOk
  <2>3. TablesOk' BY <1>3 DEF Attach, TablesOk, Members, There
  <2>4. QED BY <2>1, <2>2, <2>3
<1>4. CASE /\ c.todo # <<>> /\ files[c.file] = "there" /\ tags[Head(c.todo)] = "there"
           /\ links' = [links EXCEPT ![c.file] = @ \cup {Head(c.todo)}]
           /\ tagged' = tagged \cup {c.file}
           /\ call' = [call EXCEPT ![p].todo = Tail(@)]
           /\ UNCHANGED deserted
  <2>1. call' = [call EXCEPT ![p] = Left(c, Tail(c.todo))] BY <1>4 DEF Left
  <2> HIDE DEF c
  <2>2. PICK q \in Seq(Tags) : q = c.todo BY <1>2
  <2>3. q # <<>> BY <1>4, <2>2
  <2>4. Tail(q) \in Seq(Tags) /\ Head(q) \in Tags BY <2>3
  <2>5. Tail(q) \in Seq(Tags \cup Files)
    <3>1. \A r \in Seq(Tags) : r \in Seq(Tags \cup Files) OBVIOUS
    <3>2. QED BY <2>4, <3>1
  <2> DEFINE d == Left(c, Tail(q))
  <2>6. /\ d \in Calls /\ d.op = c.op /\ d.at = c.at /\ d.file = c.file /\ d.from = c.from /\ d.to = c.to
        /\ d.todo = Tail(q) /\ d.place = c.place
    BY <1>2, <2>5, LeftIs
  <2>7. call' = [call EXCEPT ![p] = d] BY <2>1, <2>2
  <2> HIDE DEF d
  <2>8. Fits(d) BY <1>2, <2>4, <2>6 DEF Fits, Made
  <2>9. CallsOk' BY <2>7, <2>8, OneCall
  <2>10. HistoryOk' BY <1>2, <1>4 DEF Attach, HistoryOk
  <2>11. Head(q) \in There(tags) BY <1>4, <2>2, <2>4 DEF TablesOk, There
  <2>12. links' \in [Files -> SUBSET There(tags)] BY <1>2, <1>4, <2>2, <2>11 DEF TablesOk
  <2>13. \A g \in Files : files[g] # "there" => links'[g] = {} BY <1>2, <1>4 DEF TablesOk
  <2>14. TablesOk' BY <2>12, <2>13 DEF Attach, TablesOk, Members, There
  <2>15. QED BY <2>9, <2>10, <2>14
<1>5. CASE Vanished(p) /\ tagged' = tagged \ {c.file} /\ UNCHANGED links
  <2> HIDE DEF c
  <2>1. CallsOk' BY <1>5, StopFits DEF Vanished
  <2>2. deserted' = deserted \cup {c.file} \/ deserted' = deserted BY <1>5 DEF Vanished, c
  <2>3. HistoryOk' BY <1>2, <1>5, <2>2 DEF Attach, HistoryOk
  <2>4. TablesOk' BY <1>5 DEF Attach, TablesOk, Members, There
  <2>5. QED BY <2>1, <2>3, <2>4
<1>6. QED BY <1>3, <1>4, <1>5 DEF Attach

LEMMA DetachTyped ==
  ASSUME Typed, NEW p \in Requests, Detach(p) PROVE Typed'
<1> USE DEF Typed
<1> DEFINE c == call[p]
<1>1. Step(p) = "detach" /\ Step(p) # None BY NoneIsOther DEF Detach
<1>2. /\ Fits(c) /\ c \in Calls /\ c.file \in Files
      /\ c.op \in {"retag", "untag"}
  BY <1>1, InCall
<1>3. /\ links' = [links EXCEPT ![c.file] = @ \ {c.from}]
      /\ tagged' = (IF c.todo = <<>> THEN tagged \ {c.file} ELSE tagged)
      /\ Goes(p, c)
  BY DEF Detach
<1> HIDE DEF c
<1>4. CallsOk' BY <1>2, <1>3, GoesOn
<1>5. HistoryOk' BY <1>3 DEF Detach, HistoryOk
<1>6. links' \in [Files -> SUBSET There(tags)] BY <1>2, <1>3 DEF TablesOk
<1>7. \A g \in Files : files[g] # "there" => links'[g] = {} BY <1>2, <1>3 DEF TablesOk
<1>8. TablesOk' BY <1>6, <1>7 DEF Detach, TablesOk, Members, There
<1>9. QED BY <1>4, <1>5, <1>8

LEMMA HighestIs ==
  ASSUME TablesOk, NEW s \in Series, Members(s) # {}
  PROVE  Highest(s) \in Nat /\ \A g \in Files : order[s][g] <= Highest(s)
<1> DEFINE N == {order[s][f] : f \in Members(s)}
<1>1. N \subseteq Nat /\ N # {}
  <2>1. \A f \in Members(s) : order[s][f] \in Nat BY DEF TablesOk, Members
  <2>2. QED BY <2>1
<1>2. IsFiniteSet(Members(s)) BY SmbViewsAssumption, FS_Subset DEF Members
<1>3. IsFiniteSet(N)
  <2>1. N = {order[s][f] : f \in Members(s)} OBVIOUS
  <2> HIDE DEF N
  <2> DEFINE M == Members(s)  g == [f \in M |-> order[s][f]]
  <2>2. N = {g[f] : f \in M} BY <2>1
  <2>3. g \in Surjection(M, N) BY <2>2 DEF Surjection
  <2>4. QED BY <1>2, <2>3, FS_Surjection
<1>4. Max(N) \in N /\ \A x \in N : x <= Max(N)
  <2> HIDE DEF N
  <2>1. QED BY <1>1, <1>3, GreatestExists
<1>5. Highest(s) = Max(N) BY DEF Highest
<1>6. ASSUME NEW g \in Files PROVE order[s][g] <= Highest(s)
  <2>1. CASE g \in Members(s) BY <1>4, <1>5, <2>1
  <2>2. CASE g \notin Members(s)
    <3>1. order[s][g] = 0 BY <2>2 DEF Members
    <3>2. Max(N) \in Nat BY <1>1, <1>4
    <3> HIDE DEF N
    <3>3. 0 <= Max(N) BY <3>2
    <3>4. QED BY <1>5, <3>1, <3>3
  <2>3. QED BY <2>1, <2>2
<1>7. QED BY <1>1, <1>4, <1>5, <1>6

(* The place after the last one.                                           *)
LastPlace(s, op) == IF Members(s) = {} THEN 10 ELSE Highest(s) + Gap(op)

LEMMA LastPlaceIs ==
  ASSUME TablesOk, NEW s \in Series, NEW op
  PROVE  /\ LastPlace(s, op) \in Nat /\ LastPlace(s, op) >= 1
         /\ \A g \in Files : order[s][g] < LastPlace(s, op)
<1>1. CASE Members(s) = {}
  <2>1. \A g \in Files : order[s][g] = 0 BY <1>1 DEF Members
  <2>2. LastPlace(s, op) = 10 BY <1>1 DEF LastPlace
  <2>3. QED BY <2>1, <2>2
<1>2. CASE Members(s) # {}
  <2>1. PICK h \in Nat : h = Highest(s) BY <1>2, HighestIs
  <2>2. PICK g \in Nat : g = Gap(op) /\ g >= 1 BY DEF Gap
  <2>3. LastPlace(s, op) = h + g BY <1>2, <2>1, <2>2 DEF LastPlace
  <2>4. ASSUME NEW f \in Files PROVE order[s][f] < h + g
    <3>1. PICK o \in Nat : o = order[s][f] BY DEF TablesOk
    <3>2. o <= h BY <1>2, <2>1, <3>1, HighestIs
    <3>3. o < h + g BY <2>2, <3>2
    <3>4. QED BY <3>1, <3>3
  <2>5. h + g \in Nat /\ h + g >= 1 BY <2>2
  <2>6. QED BY <2>3, <2>4, <2>5
<1>3. QED BY <1>1, <1>2

LEMMA FindLastTyped ==
  ASSUME Typed, NEW p \in Requests, FindLast(p) PROVE Typed'
<1> USE DEF Typed
<1> DEFINE c == call[p]
<1>1. Step(p) = "last" /\ Step(p) # None BY NoneIsOther DEF FindLast
<1>2. Fits(c) /\ c \in Calls /\ c.to \in Series /\ c.op \in {"dropInSeries", "add"} /\ c.at = 1 BY <1>1, InCall
<1> DEFINE n == LastPlace(c.to, c.op)
<1>3. Goes(p, Placed(c, n)) BY DEF FindLast, Placed, LastPlace
<1> HIDE DEF c
<1>4. n \in Nat /\ n >= 1 BY <1>2, LastPlaceIs
<1> HIDE DEF n
<1> DEFINE d == Placed(c, n)
<1>5. /\ d \in Calls /\ d.op = c.op /\ d.at = c.at /\ d.file = c.file /\ d.from = c.from /\ d.to = c.to
      /\ d.todo = c.todo /\ d.place = n
  BY <1>2, <1>4, PlacedIs
<1> HIDE DEF d
<1>6. Fits(d) BY <1>2, <1>4, <1>5 DEF Fits, Made
<1>7. ASSUME d.at < Len(Steps[d.op])
      PROVE  /\ Made(Next1(d)) => d.file \in Files
             /\ d.op = "reorder" /\ d.at = 1 => d.place >= 10
             /\ d.op \in {"add", "dropInSeries"} => d.place >= 1
  <2>1. Next1(d).at = 2 /\ Next1(d).op = d.op
    <3>1. d.at \in DOMAIN Steps[d.op] BY <1>6 DEF Fits
    <3>2. Next1(d).at = d.at + 1 /\ Next1(d).op = d.op BY <1>5, <1>7, <3>1, NextIs
    <3>3. QED BY <1>2, <1>5, <3>2
  <2>2. ~Made(Next1(d)) BY <1>2, <1>5, <2>1 DEF Made
  <2>3. QED BY <1>2, <1>4, <1>5, <2>2
<1>8. CallsOk' BY <1>3, <1>6, <1>7, GoesOn DEF d
<1>9. HistoryOk' BY DEF FindLast, history, HistoryOk
<1>10. TablesOk' BY DEF FindLast, tables, TablesOk, Members, There
<1>11. QED BY <1>8, <1>9, <1>10

-----------------------------------------------------------------------------
(* A place in a series, given or taken.                                    *)
Putting(s, f, n) == order' = [order EXCEPT ![s][f] = n]

LEMMA PuttingIs ==
  ASSUME TablesOk, NEW s \in Series, NEW f \in Files, NEW n \in Nat, Putting(s, f, n)
  PROVE  /\ order' \in [Series -> [Files -> Nat]] /\ order'[s][f] = n
         /\ \A g \in Files : g # f => order'[s][g] = order[s][g]
         /\ \A t \in Series : t # s => order'[t] = order[t]
         /\ \A t \in Series : \A g \in Files : t # s \/ g # f => order'[t][g] = order[t][g]
<1>1. order \in [Series -> [Files -> Nat]] BY DEF TablesOk
<1>2. order' = [order EXCEPT ![s] = [order[s] EXCEPT ![f] = n]] BY DEF Putting
<1>3. [order[s] EXCEPT ![f] = n] \in [Files -> Nat] BY <1>1
<1>4. order' \in [Series -> [Files -> Nat]] /\ order'[s] = [order[s] EXCEPT ![f] = n]
      /\ \A t \in Series : t # s => order'[t] = order[t]
  BY <1>1, <1>2, <1>3
<1>5. order'[s][f] = n /\ \A g \in Files : g # f => order'[s][g] = order[s][g] BY <1>1, <1>4
<1>6. QED BY <1>4, <1>5

LEMMA PutTyped ==
  ASSUME TablesOk, NEW s \in Series, NEW f \in Files, NEW n \in Nat, Putting(s, f, n),
         n = 0 \/ (files[f] = "there" /\ series[s] = "there"),
         UNCHANGED <<files, tags, series, links, sort, owned>>
  PROVE  TablesOk'
<1>1. /\ order' \in [Series -> [Files -> Nat]] /\ order'[s][f] = n
      /\ \A t \in Series : \A g \in Files : t # s \/ g # f => order'[t][g] = order[t][g]
  BY PuttingIs
<1>2. /\ \A g \in Files : files[g] # "there" => \A t \in Series : order[t][g] = 0
      /\ \A t \in Series : series[t] # "there" => \A g \in Files : order[t][g] = 0
  BY DEF TablesOk, Members
<1>3. \A g \in Files : files[g] # "there" => \A t \in Series : order'[t][g] = 0
  <2>1. SUFFICES ASSUME NEW g \in Files, files[g] # "there", NEW t \in Series PROVE order'[t][g] = 0
    OBVIOUS
  <2>2. CASE t = s /\ g = f BY <1>1, <2>1, <2>2
  <2>3. CASE ~(t = s /\ g = f) BY <1>1, <1>2, <2>1, <2>3
  <2>4. QED BY <2>2, <2>3
<1>4. \A t \in Series : series[t] # "there" => \A g \in Files : order'[t][g] = 0
  <2>1. SUFFICES ASSUME NEW t \in Series, series[t] # "there", NEW g \in Files PROVE order'[t][g] = 0
    OBVIOUS
  <2>2. CASE t = s /\ g = f BY <1>1, <2>1, <2>2
  <2>3. CASE ~(t = s /\ g = f) BY <1>1, <1>2, <2>1, <2>3
  <2>4. QED BY <2>2, <2>3
<1>5. QED BY <1>1, <1>3, <1>4 DEF TablesOk, Members, There

LEMMA PlaceIs ==
  ASSUME NEW c \in Calls
  PROVE  Place(c) \in Nat /\ Place(c) # 0 /\ (c.place # 0 => Place(c) = c.place)
<1>1. PICK n \in Nat : n = c.place BY DEF Calls
<1>2. QED BY <1>1 DEF Place

LEMMA AppendedIs ==
  ASSUME HistoryOk, NEW p \in Requests, NEW f \in Files, NEW s \in Series
  PROVE  Appended(p, f, s) \in Seq(Files)
<1>1. Without(asked[s], f) \in Seq(Files) BY WithoutIs DEF HistoryOk
<1>2. QED BY <1>1 DEF Appended

LEMMA JoinSeriesTyped ==
  ASSUME Typed, NEW p \in Requests, JoinSeries(p) PROVE Typed'
<1> USE DEF Typed
<1> DEFINE c == call[p]
<1>1. Step(p) = "join" /\ Step(p) # None BY NoneIsOther DEF JoinSeries
<1>2. /\ Fits(c) /\ c \in Calls /\ c.file \in Files /\ c.to \in Series
      /\ (c.op = "dropInSeries" /\ c.at = 3) \/ ~(c.at < Len(Steps[c.op]))
  BY <1>1, InCall
<1>3. CASE /\ files[c.file] = "there" /\ series[c.to] = "there"
           /\ order' = [order EXCEPT ![c.to][c.file] = Place(c)]
           /\ kept' = kept \cup {c.file}
           /\ asked' = [asked EXCEPT ![c.to] = Appended(p, c.file, c.to)]
           /\ Goes(p, c) /\ UNCHANGED deserted
  <2> HIDE DEF c
  <2>1. c.op = "dropInSeries" /\ c.at = 3 => c.place >= 1 BY <1>2 DEF Fits
  <2>2. CallsOk' BY <1>2, <1>3, <2>1, GoesOn
  <2>3. Appended(p, c.file, c.to) \in Seq(Files) BY <1>2, AppendedIs
  <2>4. asked' \in [Series -> Seq(Files)] BY <1>3, <2>3 DEF HistoryOk
  <2>5. HistoryOk' BY <1>2, <1>3, <2>4 DEF JoinSeries, HistoryOk
  <2>6. Putting(c.to, c.file, Place(c)) /\ Place(c) \in Nat BY <1>2, <1>3, PlaceIs DEF Putting
  <2>7. TablesOk' BY <1>2, <1>3, <2>6, PutTyped DEF JoinSeries
  <2>8. QED BY <2>2, <2>5, <2>7
<1>4. CASE Vanished(p) /\ kept' = kept \ {c.file} /\ UNCHANGED <<order, asked>>
  <2> HIDE DEF c
  <2>1. CallsOk' BY <1>4, StopFits DEF Vanished
  <2>2. deserted' = deserted \cup {c.file} \/ deserted' = deserted BY <1>4 DEF Vanished, c
  <2>3. HistoryOk' BY <1>2, <1>4, <2>2 DEF JoinSeries, HistoryOk
  <2>4. TablesOk' BY <1>4 DEF JoinSeries, TablesOk, Members, There
  <2>5. QED BY <2>1, <2>3, <2>4
<1>5. QED BY <1>3, <1>4 DEF JoinSeries

LEMMA LeaveSeriesTyped ==
  ASSUME Typed, NEW p \in Requests, LeaveSeries(p) PROVE Typed'
<1> USE DEF Typed
<1> DEFINE c == call[p]
<1>1. Step(p) = "leave" /\ Step(p) # None BY NoneIsOther DEF LeaveSeries
<1>2. /\ Fits(c) /\ c \in Calls /\ c.file \in Files /\ c.from \in Series /\ c.op \in {"remove", "move"}
  BY <1>1, InCall
<1>3. /\ Putting(c.from, c.file, 0)
      /\ asked' = [asked EXCEPT ![c.from] = Without(asked[c.from], c.file)]
      /\ kept' = (IF c.op = "remove" THEN kept \ {c.file} ELSE kept)
      /\ Goes(p, c)
  BY DEF LeaveSeries, Putting
<1> HIDE DEF c
<1>4. CallsOk' BY <1>2, <1>3, GoesOn
<1>5. Without(asked[c.from], c.file) \in Seq(Files) BY <1>2, WithoutIs DEF HistoryOk
<1>6. asked' \in [Series -> Seq(Files)] BY <1>3, <1>5 DEF HistoryOk
<1>7. HistoryOk' BY <1>3, <1>6 DEF LeaveSeries, HistoryOk
<1>8. TablesOk' BY <1>2, <1>3, PutTyped DEF LeaveSeries
<1>9. QED BY <1>4, <1>7, <1>8

LEMMA ListMembersTyped ==
  ASSUME Typed, NEW p \in Requests, ListMembers(p) PROVE Typed'
<1> USE DEF Typed
<1> DEFINE c == call[p]
<1>1. Step(p) = "members" /\ Step(p) # None BY NoneIsOther DEF ListMembers
<1>2. Fits(c) /\ c \in Calls /\ c.op = "reorder" /\ c.at = 1 /\ c.to \in Series BY <1>1, InCall
<1> DEFINE d == Finding(c, Members(c.to))
<1>3. Goes(p, d) BY DEF ListMembers, Finding
<1> HIDE DEF c
<1>4. Members(c.to) \in SUBSET Files BY DEF Members
<1>5. /\ d \in Calls /\ d.op = c.op /\ d.at = c.at /\ d.file = c.file /\ d.from = c.from /\ d.to = c.to
      /\ d.todo = c.todo /\ d.place = 10
  BY <1>2, <1>4, FindingIs
<1> HIDE DEF d
<1>6. Fits(d) BY <1>2, <1>5 DEF Fits, Made
<1>7. d.at < Len(Steps[d.op]) => ~Made(Next1(d))
  <2>1. ASSUME d.at < Len(Steps[d.op]) PROVE Next1(d).op = "reorder"
    <3>1. d.at \in DOMAIN Steps[d.op] BY <1>6 DEF Fits
    <3>2. QED BY <1>2, <1>5, <2>1, <3>1, NextIs
  <2>2. QED BY <2>1 DEF Made
<1>8. d.place >= 10 /\ d.op = "reorder" BY <1>2, <1>5
<1>9. CallsOk' BY <1>3, <1>6, <1>7, <1>8, GoesOn
<1>10. HistoryOk' BY DEF ListMembers, history, HistoryOk
<1>11. TablesOk' BY DEF ListMembers, tables, TablesOk, Members, There
<1>12. QED BY <1>9, <1>10, <1>11

(* One file of a new order: what is left to do, and the place after.       *)
LEMMA PassedFits ==
  ASSUME NEW c, Fits(c), c.op = "reorder", c.place >= 10, NEW i \in DOMAIN c.todo
  PROVE  LET d == Passed(c, SubSeq(c.todo, i + 1, Len(c.todo)), c.place + 10)
         IN /\ Fits(d) /\ d.op = c.op /\ d.at = c.at /\ d.file = c.file /\ d.from = c.from /\ d.to = c.to
            /\ d.found = c.found /\ d.alone = c.alone /\ d.place = c.place + 10
            /\ d.todo = SubSeq(c.todo, i + 1, Len(c.todo))
<1> DEFINE q == SubSeq(c.todo, i + 1, Len(c.todo))
<1>1. c \in Calls /\ c.todo \in Seq(Files) /\ Distinct(c.todo) BY DEF Fits
<1>2. q \in Seq(Files) /\ Distinct(q) BY <1>1, RestIs
<1> HIDE DEF q
<1>3. q \in Seq(Tags \cup Files)
  <2>1. \A r \in Seq(Files) : r \in Seq(Tags \cup Files) OBVIOUS
  <2>2. QED BY <1>2, <2>1
<1>4. PICK m \in Nat : m = c.place BY <1>1 DEF Calls
<1>5. PICK k \in Nat : k = m + 10 /\ k >= 10 BY <1>4
<1> DEFINE d == Passed(c, q, k)
<1>6. /\ d \in Calls /\ d.op = c.op /\ d.at = c.at /\ d.file = c.file /\ d.from = c.from /\ d.to = c.to
      /\ d.found = c.found /\ d.alone = c.alone /\ d.todo = q /\ d.place = k
  <2>1. c \in Calls /\ q \in Seq(Tags \cup Files) /\ k \in Nat BY <1>1, <1>3
  <2>2. QED BY <2>1 DEF Passed, Calls
<1> HIDE DEF d
<1>7. Fits(d) BY <1>2, <1>5, <1>6 DEF Fits, Made
<1>8. d = Passed(c, SubSeq(c.todo, i + 1, Len(c.todo)), c.place + 10) BY <1>4, <1>5 DEF d, q
<1>9. QED BY <1>4, <1>5, <1>6, <1>7, <1>8 DEF q

(* The first file asked for that is a member gets the place.               *)
Numbers(p, i) ==
  LET c == call[p]
  IN /\ i \in DOMAIN c.todo /\ c.todo[i] \in c.found /\ files[c.todo[i]] = "there" /\ series[c.to] = "there"
     /\ Putting(c.to, c.todo[i], c.place)
     /\ kept' = kept \cup {c.todo[i]}
     /\ call' = [call EXCEPT ![p] = Passed(c, SubSeq(c.todo, i + 1, Len(c.todo)), c.place + 10)]
     /\ asked' = [asked EXCEPT ![c.to] =
          IF ~c.alone THEN <<>> ELSE IF c.place = 10 THEN <<c.todo[i]>> ELSE Append(@, c.todo[i])]

LEMMA RenumberIs ==
  ASSUME Typed, NEW p \in Requests, Renumber(p)
  PROVE  /\ UNCHANGED <<files, tags, series, links, sort, owned, started, faults, tagged, deserted, arranged>>
         /\ \/ Goes(p, call[p]) /\ UNCHANGED <<order, asked, kept>>
            \/ \E i : Numbers(p, i)
            \/ Stop(p) /\ UNCHANGED <<order, asked, kept>>
<1>1. UNCHANGED <<files, tags, series, links, sort, owned, started, faults, tagged, deserted, arranged>>
  BY DEF Renumber
<1>2. CASE Wanted(call[p]) = {} /\ Goes(p, call[p]) /\ UNCHANGED <<order, asked, kept>>
  BY <1>1, <1>2
<1>3. CASE \E i \in Wanted(call[p]) : (\A j \in Wanted(call[p]) : i <= j) /\ NextPlace(p, i)
  <2>1. PICK i \in Wanted(call[p]) : NextPlace(p, i) BY <1>3
  <2>2. i \in DOMAIN call[p].todo /\ call[p].todo[i] \in call[p].found BY <2>1 DEF Wanted
  <2>3. \/ /\ files[call[p].todo[i]] = "there" /\ series[call[p].to] = "there"
           /\ order' = [order EXCEPT ![call[p].to][call[p].todo[i]] = call[p].place]
           /\ kept' = kept \cup {call[p].todo[i]}
           /\ call' = [call EXCEPT ![p].todo = SubSeq(call[p].todo, i + 1, Len(call[p].todo)), ![p].place = @ + 10]
           /\ asked' = [asked EXCEPT ![call[p].to] =
                IF ~call[p].alone THEN <<>>
                ELSE IF call[p].place = 10 THEN <<call[p].todo[i]>> ELSE Append(@, call[p].todo[i])]
        \/ Stop(p) /\ UNCHANGED <<order, kept, asked>>
    BY <2>1 DEF NextPlace
  <2>4. [call EXCEPT ![p].todo = SubSeq(call[p].todo, i + 1, Len(call[p].todo)), ![p].place = @ + 10]
          = [call EXCEPT ![p] = Passed(call[p], SubSeq(call[p].todo, i + 1, Len(call[p].todo)), call[p].place + 10)]
    BY DEF Typed, CallsOk, Passed
  <2>5. Numbers(p, i) \/ (Stop(p) /\ UNCHANGED <<order, kept, asked>>)
    BY <2>2, <2>3, <2>4 DEF Numbers, Putting
  <2>6. QED BY <1>1, <2>5
<1>4. QED BY <1>2, <1>3 DEF Renumber

LEMMA RenumberTyped ==
  ASSUME Typed, NEW p \in Requests, Renumber(p) PROVE Typed'
<1> USE DEF Typed
<1> DEFINE c == call[p]
<1>1. Step(p) = "renumber" /\ Step(p) # None BY NoneIsOther DEF Renumber
<1>2. /\ Fits(c) /\ c \in Calls /\ c.op = "reorder" /\ c.at = 2 /\ c.to \in Series /\ c.todo \in Seq(Files)
      /\ c.place >= 10
  BY <1>1, InCall
<1>3. UNCHANGED <<files, tags, series, links, sort, owned, started, faults, tagged, deserted, arranged>>
  BY RenumberIs
<1>4. CASE Goes(p, c) /\ UNCHANGED <<order, asked, kept>>
  <2> HIDE DEF c
  <2>1. c.at < Len(Steps[c.op]) => ~Made(Next1(c))
    <3>1. ASSUME c.at < Len(Steps[c.op]) PROVE Next1(c).op = "reorder"
      <4>1. c.at \in DOMAIN Steps[c.op] BY <1>2 DEF Fits
      <4>2. QED BY <1>2, <3>1, <4>1, NextIs
    <3>2. QED BY <3>1 DEF Made
  <2>2. CallsOk' BY <1>2, <1>4, <2>1, GoesOn
  <2>3. HistoryOk' BY <1>3, <1>4 DEF HistoryOk
  <2>4. TablesOk' BY <1>3, <1>4 DEF TablesOk, Members, There
  <2>5. QED BY <2>2, <2>3, <2>4
<1>5. CASE Stop(p) /\ UNCHANGED <<order, asked, kept>>
  <2>1. CallsOk' BY <1>5, StopFits
  <2>2. HistoryOk' BY <1>3, <1>5 DEF HistoryOk
  <2>3. TablesOk' BY <1>3, <1>5 DEF TablesOk, Members, There
  <2>4. QED BY <2>1, <2>2, <2>3
<1>6. ASSUME NEW i, Numbers(p, i) PROVE Typed'
  <2>1. /\ i \in DOMAIN c.todo /\ files[c.todo[i]] = "there" /\ series[c.to] = "there"
        /\ Putting(c.to, c.todo[i], c.place)
        /\ kept' = kept \cup {c.todo[i]}
        /\ call' = [call EXCEPT ![p] = Passed(c, SubSeq(c.todo, i + 1, Len(c.todo)), c.place + 10)]
        /\ asked' = [asked EXCEPT ![c.to] =
             IF ~c.alone THEN <<>> ELSE IF c.place = 10 THEN <<c.todo[i]>> ELSE Append(@, c.todo[i])]
    BY <1>6 DEF Numbers
  <2> HIDE DEF c
  <2>2. PICK f \in Files : f = c.todo[i] BY <1>2, <2>1
  <2>3. Fits(Passed(c, SubSeq(c.todo, i + 1, Len(c.todo)), c.place + 10)) BY <1>2, <2>1, PassedFits
  <2>4. CallsOk' BY <2>1, <2>3, OneCall
  <2>5. asked[c.to] \in Seq(Files) BY <1>2 DEF HistoryOk
  <2>6. (IF ~c.alone THEN <<>> ELSE IF c.place = 10 THEN <<f>> ELSE Append(asked[c.to], f)) \in Seq(Files)
    BY <2>5
  <2>7. asked' \in [Series -> Seq(Files)] BY <2>1, <2>2, <2>6 DEF HistoryOk
  <2>8. HistoryOk' BY <1>3, <2>1, <2>2, <2>7 DEF HistoryOk
  <2>9. c.place \in Nat BY <1>2 DEF Calls
  <2>10. TablesOk' BY <1>2, <1>3, <2>1, <2>2, <2>9, PutTyped
  <2>11. QED BY <2>4, <2>8, <2>10
<1>7. QED BY <1>4, <1>5, <1>6, RenumberIs

LEMMA SetSortTyped ==
  ASSUME Typed, NEW p \in Requests, SetSort(p) PROVE Typed'
<1> USE DEF Typed
<1> DEFINE c == call[p]
<1>1. Step(p) \in {"manual", "sort"} /\ Step(p) # None BY NoneIsOther DEF SetSort
<1>2. Fits(c) /\ c.to \in Series /\ ~(c.at < Len(Steps[c.op])) BY <1>1, InCall
<1>3. Goes(p, c) BY DEF SetSort
<1>4. /\ arranged' \in {arranged \ {c.to}, arranged \cup {c.to}, arranged}
      /\ \E how \in Sorts : sort' = IF series[c.to] = "there" THEN [sort EXCEPT ![c.to] = how] ELSE sort
  <2>1. PICK how \in IF Step(p) = "manual" THEN {"manual"} ELSE Sorts :
          sort' = IF series[c.to] = "there" THEN [sort EXCEPT ![c.to] = how] ELSE sort
    BY DEF SetSort
  <2>2. how \in Sorts BY DEF Sorts
  <2>3. QED BY <2>1, <2>2 DEF SetSort
<1> HIDE DEF c
<1>5. CallsOk' BY <1>2, <1>3, GoesOn
<1>6. HistoryOk' BY <1>2, <1>4 DEF SetSort, HistoryOk
<1>7. sort' \in [Series -> Sorts] BY <1>2, <1>4 DEF TablesOk
<1>8. TablesOk' BY <1>7 DEF SetSort, TablesOk, Members, There
<1>9. QED BY <1>5, <1>6, <1>8

-----------------------------------------------------------------------------
(* The ends of tags, series and files, and the faults.                     *)
LEMMA OneMore ==
  ASSUME HistoryOk, started < MaxRequests, started' = started + 1 PROVE started' \in 0..MaxRequests
  BY SmbViewsAssumption DEF HistoryOk

LEMMA SameCalls ==
  ASSUME CallsOk, UNCHANGED call PROVE CallsOk'
  BY DEF CallsOk

LEMMA DeleteTagTyped ==
  ASSUME Typed, NEW t \in Tags, DeleteTag(t) PROVE Typed'
<1> USE DEF Typed
<1>1. CallsOk' BY SameCalls DEF DeleteTag
<1>2. started' \in 0..MaxRequests BY OneMore DEF DeleteTag
<1>3. HistoryOk' BY <1>2 DEF DeleteTag, HistoryOk
<1>4. tags' \in [Tags -> States] /\ There(tags)' = There(tags) \ {t}
  BY DEF DeleteTag, TablesOk, States, There
<1>5. links' \in [Files -> SUBSET There(tags)'] BY <1>4 DEF DeleteTag, TablesOk
<1>6. \A f \in Files : files[f] # "there" => links'[f] = {} BY DEF DeleteTag, TablesOk
<1>7. TablesOk' BY <1>4, <1>5, <1>6 DEF DeleteTag, TablesOk, Members
<1>8. QED BY <1>1, <1>3, <1>7

LEMMA MergeTagsTyped ==
  ASSUME Typed, NEW t \in Tags, NEW target \in Tags, MergeTags(t, target) PROVE Typed'
<1> USE DEF Typed
<1>1. CallsOk' BY SameCalls DEF MergeTags
<1>2. started' \in 0..MaxRequests BY OneMore DEF MergeTags
<1>3. HistoryOk' BY <1>2 DEF MergeTags, history, HistoryOk
<1>4. tags' \in [Tags -> States] /\ There(tags)' = There(tags) \ {t} /\ target \in There(tags)'
  BY DEF MergeTags, TablesOk, States, There
<1>5. links' \in [Files -> SUBSET There(tags)'] BY <1>4 DEF MergeTags, TablesOk
<1>6. \A f \in Files : files[f] # "there" => links'[f] = {} BY DEF MergeTags, TablesOk
<1>7. TablesOk' BY <1>4, <1>5, <1>6 DEF MergeTags, TablesOk, Members
<1>8. QED BY <1>1, <1>3, <1>7

LEMMA DeleteSeriesIs ==
  ASSUME TablesOk, NEW s \in Series, DeleteSeries(s)
  PROVE  /\ order' \in [Series -> [Files -> Nat]] /\ \A g \in Files : order'[s][g] = 0
         /\ \A t \in Series \ {s} : order'[t] = order[t] /\ series'[t] = series[t]
         /\ series' \in [Series -> States] /\ series'[s] = "gone"
<1>1. order \in [Series -> [Files -> Nat]] /\ [f \in Files |-> 0] \in [Files -> Nat] BY DEF TablesOk
<1>2. order' = [order EXCEPT ![s] = [f \in Files |-> 0]] BY DEF DeleteSeries
<1>3. order'[s] = [f \in Files |-> 0] BY <1>1, <1>2
<1>4. QED BY <1>1, <1>2, <1>3 DEF DeleteSeries, TablesOk, States

LEMMA DeleteSeriesTyped ==
  ASSUME Typed, NEW s \in Series, DeleteSeries(s) PROVE Typed'
<1> USE DEF Typed
<1>1. CallsOk' BY SameCalls DEF DeleteSeries
<1>2. started' \in 0..MaxRequests BY OneMore DEF DeleteSeries
<1>3. asked' \in [Series -> Seq(Files)]
  <2>1. <<>> \in Seq(Files) OBVIOUS
  <2>2. QED BY <2>1 DEF DeleteSeries, HistoryOk
<1>4. HistoryOk' BY <1>2, <1>3 DEF DeleteSeries, HistoryOk
<1>5. /\ order' \in [Series -> [Files -> Nat]] /\ \A g \in Files : order'[s][g] = 0
      /\ \A t \in Series \ {s} : order'[t] = order[t] /\ series'[t] = series[t]
      /\ series' \in [Series -> States]
  BY DeleteSeriesIs
<1>6. \A f \in Files : files[f] # "there" => \A t \in Series : order'[t][f] = 0
  <2>1. SUFFICES ASSUME NEW f \in Files, files[f] # "there", NEW t \in Series PROVE order'[t][f] = 0 OBVIOUS
  <2>2. order[t][f] = 0 BY <2>1 DEF TablesOk
  <2>3. QED BY <1>5, <2>2
<1>7. \A t \in Series : series'[t] # "there" => Members(t)' = {}
  <2>1. SUFFICES ASSUME NEW t \in Series, series'[t] # "there" PROVE Members(t)' = {} OBVIOUS
  <2>2. CASE t = s BY <1>5, <2>2 DEF Members
  <2>3. CASE t # s
    <3>1. order'[t] = order[t] /\ series[t] # "there" BY <1>5, <2>1, <2>3
    <3>2. Members(t) = {} BY <3>1 DEF TablesOk
    <3>3. QED BY <3>1, <3>2 DEF Members
  <2>4. QED BY <2>2, <2>3
<1>8. TablesOk' BY <1>5, <1>6, <1>7 DEF DeleteSeries, TablesOk, There
<1>9. QED BY <1>1, <1>4, <1>8

LEMMA PurgeIs ==
  ASSUME TablesOk, NEW f \in Files, Purge(f)
  PROVE  /\ order' \in [Series -> [Files -> Nat]] /\ links' \in [Files -> SUBSET There(tags)]
         /\ links'[f] = {} /\ \A s \in Series : order'[s][f] = 0
         /\ \A g \in Files \ {f} : /\ files'[g] = files[g] /\ links'[g] = links[g]
                                   /\ \A s \in Series : order'[s][g] = order[s][g]
         /\ files' \in [Files -> States] /\ files'[f] = "gone"
<1>1. order \in [Series -> [Files -> Nat]] BY DEF TablesOk
<1>2. \A s \in Series : order'[s] = [order[s] EXCEPT ![f] = 0] BY DEF Purge
<1>3. ASSUME NEW s \in Series PROVE order'[s] \in [Files -> Nat] /\ order'[s][f] = 0
  <2>1. order[s] \in [Files -> Nat] /\ order'[s] = [order[s] EXCEPT ![f] = 0] BY <1>1, <1>2
  <2>2. [order[s] EXCEPT ![f] = 0] \in [Files -> Nat] /\ [order[s] EXCEPT ![f] = 0][f] = 0 BY <2>1
  <2>3. QED BY <2>1, <2>2
<1>4. order' = [s \in Series |-> order'[s]] BY DEF Purge
<1>5. order' \in [Series -> [Files -> Nat]] BY <1>3, <1>4
<1>6. \A g \in Files \ {f} : \A s \in Series : order'[s][g] = order[s][g] BY <1>1, <1>2
<1>7. QED BY <1>3, <1>5, <1>6 DEF Purge, TablesOk, States

LEMMA PurgeTyped ==
  ASSUME Typed, NEW f \in Files, Purge(f) PROVE Typed'
<1> USE DEF Typed
<1>1. CallsOk' BY SameCalls DEF Purge
<1>2. started' \in 0..MaxRequests BY OneMore DEF Purge
<1>3. asked' \in [Series -> Seq(Files)]
  <2>1. ASSUME NEW s \in Series PROVE Without(asked[s], f) \in Seq(Files) BY WithoutIs DEF HistoryOk
  <2>2. QED BY <2>1 DEF Purge
<1>4. HistoryOk' BY <1>2, <1>3 DEF Purge, HistoryOk
<1>5. /\ order' \in [Series -> [Files -> Nat]] /\ links' \in [Files -> SUBSET There(tags)]
      /\ links'[f] = {} /\ \A s \in Series : order'[s][f] = 0
      /\ \A g \in Files \ {f} : /\ files'[g] = files[g] /\ links'[g] = links[g]
                                /\ \A s \in Series : order'[s][g] = order[s][g]
      /\ files' \in [Files -> States]
  BY PurgeIs
<1>6. ASSUME NEW g \in Files, files'[g] # "there"
      PROVE  links'[g] = {} /\ \A s \in Series : order'[s][g] = 0
  <2>1. CASE g = f BY <1>5, <2>1
  <2>2. CASE g # f
    <3>1. files[g] # "there" BY <1>5, <1>6, <2>2
    <3>2. links[g] = {} /\ \A s \in Series : order[s][g] = 0 BY <3>1 DEF TablesOk
    <3>3. QED BY <1>5, <2>2, <3>2
  <2>3. QED BY <2>1, <2>2
<1>7. ASSUME NEW s \in Series, series[s] # "there" PROVE Members(s)' = {}
  <2>1. Members(s) = {} BY <1>7 DEF TablesOk
  <2>2. \A g \in Files : order[s][g] = 0 BY <2>1 DEF Members
  <2>3. \A g \in Files : order'[s][g] = 0 BY <1>5, <2>2
  <2>4. QED BY <2>3 DEF Members
<1>8. There(tags)' = There(tags) BY DEF Purge
<1>9. TablesOk' BY <1>5, <1>6, <1>7, <1>8 DEF Purge, TablesOk
<1>10. QED BY <1>1, <1>4, <1>9

LEMMA CutTyped ==
  ASSUME Typed, NEW P \in SUBSET Requests, Cut(P) PROVE Typed'
<1> USE DEF Typed
<1> DEFINE F == {call[p].file : p \in {q \in P : call[q].op # None}} \ {None}
<1>1. F \subseteq Files
  <2>1. ASSUME NEW p \in Requests, call[p].op # None PROVE call[p].file \in Files \cup {None}
    <3>1. call[p] \in Calls BY <2>1, IdleOrBusy, IdleIs
    <3>2. QED BY <3>1 DEF Calls
  <2>2. QED BY <2>1
<1>2. /\ call' = [p \in Requests |-> IF p \in P THEN Idle ELSE call[p]]
      /\ kept' = kept \ F /\ tagged' = tagged \ F
      /\ deserted' = deserted \cup (F \cap {call[p].file : p \in {q \in P : call[q].op \in Creates}})
  BY DEF Cut
<1> HIDE DEF F
<1>3. CallsOk' BY <1>2 DEF CallsOk
<1>4. faults' \in 0..MaxFaults BY SmbViewsAssumption DEF Cut, HistoryOk
<1>5. HistoryOk' BY <1>1, <1>2, <1>4 DEF Cut, HistoryOk
<1>6. TablesOk' BY DEF Cut, tables, TablesOk, Members, There
<1>7. QED BY <1>3, <1>5, <1>6

LEMMA StepTyped ==
  ASSUME Typed, [Next]_vars PROVE Typed'
<1>1. ASSUME NEW p \in Requests, NEW op \in Arrivals, Start(p, op) PROVE Typed' BY <1>1, StartTyped
<1>2. ASSUME NEW p \in Requests, Create(p) PROVE Typed' BY <1>2, CreateTyped
<1>3. ASSUME NEW p \in Requests, AddOwner(p) PROVE Typed' BY <1>3, AddOwnerTyped
<1>4. ASSUME NEW p \in Requests, Attach(p) PROVE Typed' BY <1>4, AttachTyped
<1>5. ASSUME NEW p \in Requests, Detach(p) PROVE Typed' BY <1>5, DetachTyped
<1>6. ASSUME NEW p \in Requests, FindLast(p) PROVE Typed' BY <1>6, FindLastTyped
<1>7. ASSUME NEW p \in Requests, JoinSeries(p) PROVE Typed' BY <1>7, JoinSeriesTyped
<1>8. ASSUME NEW p \in Requests, LeaveSeries(p) PROVE Typed' BY <1>8, LeaveSeriesTyped
<1>9. ASSUME NEW p \in Requests, ListMembers(p) PROVE Typed' BY <1>9, ListMembersTyped
<1>10. ASSUME NEW p \in Requests, Renumber(p) PROVE Typed' BY <1>10, RenumberTyped
<1>11. ASSUME NEW p \in Requests, SetSort(p) PROVE Typed' BY <1>11, SetSortTyped
<1>12. ASSUME NEW p \in Requests, Fails(p) PROVE Typed'
  <2>1. {p} \in SUBSET Requests /\ Cut({p}) BY <1>12 DEF Fails
  <2>2. QED BY <2>1, CutTyped
<1>13. ASSUME NEW t \in Tags, DeleteTag(t) PROVE Typed' BY <1>13, DeleteTagTyped
<1>14. ASSUME NEW t \in Tags, NEW u \in Tags, MergeTags(t, u) PROVE Typed' BY <1>14, MergeTagsTyped
<1>15. ASSUME NEW s \in Series, DeleteSeries(s) PROVE Typed' BY <1>15, DeleteSeriesTyped
<1>16. ASSUME NEW f \in Files, Purge(f) PROVE Typed' BY <1>16, PurgeTyped
<1>17. ASSUME Crash PROVE Typed'
  <2>1. Requests \in SUBSET Requests /\ Cut(Requests) BY <1>17 DEF Crash
  <2>2. QED BY <2>1, CutTyped
<1>18. ASSUME UNCHANGED vars PROVE Typed'
  <2>1. UNCHANGED <<files, tags, series, links, order, sort, owned, call, started, faults,
                    asked, arranged, kept, tagged, deserted>>
    BY <1>18 DEF vars, tables, history
  <2>2. QED BY <2>1 DEF Typed, TablesOk, HistoryOk, CallsOk, Members, There
<1>19. QED
  BY <1>1, <1>2, <1>3, <1>4, <1>5, <1>6, <1>7, <1>8, <1>9, <1>10, <1>11, <1>12, <1>13, <1>14, <1>15,
     <1>16, <1>17, <1>18 DEF Next

LEMMA AlwaysTyped == Spec => []Typed
<1>1. Init => Typed BY InitTyped
<1>2. Typed /\ [Next]_vars => Typed' BY StepTyped
<1>3. QED BY <1>1, <1>2, PTL DEF Spec

(* The tables, the requests and the history stay within their types: no    *)
(* link to a tag that is not there, nor a member or a link of a file or a  *)
(* series that is not.                                                     *)
THEOREM ViewsTyped == Spec => []TypeOK
<1>1. Typed => TypeOK
  <2>1. ASSUME Typed PROVE \A p \in Requests : call[p] # Idle => call[p].at \in DOMAIN Steps[call[p].op]
    BY <2>1 DEF Typed, CallsOk, Fits
  <2>2. QED BY <2>1 DEF Typed, TablesOk, HistoryOk, TypeOK
<1>2. QED BY <1>1, AlwaysTyped, PTL

-----------------------------------------------------------------------------
(* Files keep their places: a file put into a series is in one, or a move  *)
(* of it is between its two halves; a file given a tag has one, or a path  *)
(* of tags is being given to it.                                           *)
Moving(c, f) == c.op = "move" /\ c.at = 2 /\ c.file = f
Retagging(c, f) == c.op = "retag" /\ c.at = 2 /\ c.file = f /\ c.todo # <<>>

InSeries == \A f \in kept : (\E s \in Series : f \in Members(s)) \/ \E p \in Requests : Moving(call[p], f)
UnderTag == \A f \in tagged : links[f] # {} \/ \E p \in Requests : Retagging(call[p], f)
PlaceInv == Typed /\ InSeries /\ UnderTag

(* What a step must see to: the files it puts somewhere, and that the      *)
(* others stay where they are.                                             *)
LEMMA InSeriesStays ==
  ASSUME Typed, Typed', InSeries, NEW G, kept' \subseteq kept \cup G,
         \A g \in kept' \cap G : (\E s \in Series : order'[s][g] # 0) \/ \E p \in Requests : Moving(call'[p], g),
         \A g \in kept' \ G : /\ \A s \in Series : order[s][g] # 0 => order'[s][g] # 0
                              /\ \A p \in Requests : Moving(call[p], g) => Moving(call'[p], g)
  PROVE  InSeries'
<1>1. kept \subseteq Files /\ kept' \subseteq Files BY DEF Typed, HistoryOk
<1>2. ASSUME NEW g \in kept'
      PROVE  (\E s \in Series : order'[s][g] # 0) \/ \E p \in Requests : Moving(call'[p], g)
  <2>1. CASE g \in G BY <2>1
  <2>2. CASE g \notin G
    <3>1. g \in kept BY <2>2
    <3>2. (\E s \in Series : order[s][g] # 0) \/ \E p \in Requests : Moving(call[p], g)
      BY <3>1 DEF InSeries, Members
    <3>3. QED BY <2>2, <3>2
  <2>3. QED BY <2>1, <2>2
<1>3. QED BY <1>1, <1>2 DEF InSeries, Members, Moving

LEMMA UnderTagStays ==
  ASSUME UnderTag, NEW G, tagged' \subseteq tagged \cup G,
         \A g \in tagged' \cap G : links'[g] # {} \/ \E p \in Requests : Retagging(call'[p], g),
         \A g \in tagged' \ G : /\ links[g] # {} => links'[g] # {}
                                /\ \A p \in Requests : Retagging(call[p], g) => Retagging(call'[p], g)
  PROVE  UnderTag'
<1>1. ASSUME NEW g \in tagged' PROVE links'[g] # {} \/ \E p \in Requests : Retagging(call'[p], g)
  <2>1. CASE g \in G BY <2>1
  <2>2. CASE g \notin G BY <2>2 DEF UnderTag
  <2>3. QED BY <2>1, <2>2
<1>2. QED BY <1>1 DEF UnderTag, Retagging

(* A step of a request that is not between the two halves of a move.       *)
LEMMA OthersMoving ==
  ASSUME NEW p \in Requests, ~(call[p].op \in {"move", "retag"} /\ call[p].at = 2),
         \A q \in Requests \ {p} : call'[q] = call[q]
  PROVE  \A q \in Requests : \A g :
           /\ Moving(call[q], g) => Moving(call'[q], g)
           /\ Retagging(call[q], g) => Retagging(call'[q], g)
  BY DEF Moving, Retagging

LEMMA Elsewhere ==
  ASSUME Typed, Typed', InSeries, UnderTag, UNCHANGED <<order, links, kept, tagged>>,
         \A q \in Requests : \A g :
           /\ Moving(call[q], g) => Moving(call'[q], g)
           /\ Retagging(call[q], g) => Retagging(call'[q], g)
  PROVE  InSeries' /\ UnderTag'
<1>1. InSeries'
  <2>1. kept' \subseteq kept \cup {} OBVIOUS
  <2>2. \A g \in kept' \cap {} : (\E s \in Series : order'[s][g] # 0) \/ \E q \in Requests : Moving(call'[q], g)
    OBVIOUS
  <2>3. \A g \in kept' \ {} : /\ \A s \in Series : order[s][g] # 0 => order'[s][g] # 0
                              /\ \A q \in Requests : Moving(call[q], g) => Moving(call'[q], g)
    OBVIOUS
  <2>4. QED BY <2>1, <2>2, <2>3, InSeriesStays
<1>2. UnderTag' BY UnderTagStays
<1>3. QED BY <1>1, <1>2

LEMMA OthersGo ==
  ASSUME CallsOk, NEW p \in Requests, NEW c, Goes(p, c) \/ Stop(p) \/ call' = [call EXCEPT ![p] = c]
  PROVE  \A q \in Requests \ {p} : call'[q] = call[q]
  BY DEF CallsOk, Goes, Stop

LEMMA InitPlaces ==
  ASSUME Init PROVE PlaceInv
<1>1. Typed BY InitTyped
<1>2. InSeries /\ UnderTag BY DEF Init, InSeries, UnderTag
<1>3. QED BY <1>1, <1>2 DEF PlaceInv

LEMMA StartPlaces ==
  ASSUME PlaceInv, Typed', NEW p \in Requests, NEW op \in Arrivals, Start(p, op) PROVE InSeries' /\ UnderTag'
<1>1. PICK c : Started(p, c) BY StartIs DEF PlaceInv, Typed
<1>2. ASSUME NEW q \in Requests, NEW g
      PROVE  /\ Moving(call[q], g) => Moving(call'[q], g)
             /\ Retagging(call[q], g) => Retagging(call'[q], g)
  <2>1. CASE q = p
    <3>1. call[q] = Idle BY <1>1, <2>1 DEF Started
    <3>2. QED BY <3>1, IdleIs, NoneIsOther DEF Moving, Retagging
  <2>2. CASE q # p
    <3>1. call'[q] = call[q] \/ (Fits(call[q]) /\ call'[q] = Calmer(call[q])) BY <1>1, <2>2 DEF Started
    <3>2. CASE call'[q] = call[q] BY <3>2 DEF Moving, Retagging
    <3>3. CASE Fits(call[q]) /\ call'[q] = Calmer(call[q])
      <4>1. call[q] \in Calls BY <3>3 DEF Fits
      <4>2. QED BY <3>3, <4>1, CalmerIs DEF Moving, Retagging
    <3>4. QED BY <3>1, <3>2, <3>3
  <2>3. QED BY <2>1, <2>2
<1>3. UNCHANGED <<order, links, kept, tagged>> BY DEF Start, tables, history
<1>4. QED BY <1>2, <1>3, Elsewhere DEF PlaceInv

(* The calls that leave places alone.                                      *)
LEMMA CallsElsewhere ==
  ASSUME PlaceInv, Typed', NEW p \in Requests,
         Create(p) \/ AddOwner(p) \/ FindLast(p) \/ ListMembers(p) \/ SetSort(p)
  PROVE  InSeries' /\ UnderTag'
<1>1. CallsOk BY DEF PlaceInv, Typed
<1>2. Step(p) \in {"create", "owner", "last", "members", "manual", "sort"} /\ Step(p) # None
  BY NoneIsOther DEF Create, AddOwner, FindLast, ListMembers, SetSort
<1>3. ~(call[p].op \in {"move", "retag"} /\ call[p].at = 2)
  BY <1>1, <1>2, InCall DEF Creates
<1>4. \E c : Goes(p, c)
  BY DEF Create, AddOwner, FindLast, ListMembers, SetSort
<1>5. \A q \in Requests \ {p} : call'[q] = call[q] BY <1>1, <1>4, OthersGo
<1>6. UNCHANGED <<order, links, kept, tagged>>
  BY DEF Create, AddOwner, FindLast, ListMembers, SetSort, tables, history
<1>7. QED BY <1>3, <1>5, <1>6, OthersMoving, Elsewhere DEF PlaceInv

LEMMA AttachPlaces ==
  ASSUME PlaceInv, Typed', NEW p \in Requests, Attach(p) PROVE InSeries' /\ UnderTag'
<1> DEFINE c == call[p]
<1>1. Typed /\ CallsOk BY DEF PlaceInv, Typed
<1>2. Step(p) = "attach" /\ Step(p) # None BY NoneIsOther DEF Attach
<1>3. c.op \in {"dropInTag", "retag"} /\ c.at = 2 /\ c.file \in Files BY <1>1, <1>2, InCall
<1>4. /\ UNCHANGED <<order, kept>>
      /\ \/ c.todo = <<>> /\ Goes(p, c) /\ UNCHANGED <<links, tagged>>
         \/ /\ links' = [links EXCEPT ![c.file] = @ \cup {Head(c.todo)}]
            /\ tagged' = tagged \cup {c.file} /\ call' = [call EXCEPT ![p].todo = Tail(@)]
         \/ Stop(p) /\ tagged' = tagged \ {c.file} /\ UNCHANGED links
  BY DEF Attach, Vanished
<1>5. \A q \in Requests \ {p} : call'[q] = call[q] BY <1>1, <1>4 DEF Goes, Stop, CallsOk
<1>6. \A q \in Requests : \A g : Moving(call[q], g) => Moving(call'[q], g)
  BY <1>3, <1>5 DEF Moving
<1>7. InSeries'
  <2>1. kept' \subseteq kept \cup {} BY <1>4
  <2>2. \A g \in kept' \cap {} : (\E s \in Series : order'[s][g] # 0) \/ \E q \in Requests : Moving(call'[q], g)
    OBVIOUS
  <2>3. \A g \in kept' \ {} : /\ \A s \in Series : order[s][g] # 0 => order'[s][g] # 0
                              /\ \A q \in Requests : Moving(call[q], g) => Moving(call'[q], g)
    BY <1>4, <1>6
  <2>4. QED BY <1>1, <2>1, <2>2, <2>3, InSeriesStays DEF PlaceInv
<1>8. \A q \in Requests : \A g : Retagging(call[q], g) /\ g # c.file => Retagging(call'[q], g)
  BY <1>5 DEF Retagging
<1>9. links \in [Files -> SUBSET There(tags)] /\ tagged \subseteq Files BY <1>1 DEF Typed, TablesOk, HistoryOk
<1>10. CASE c.todo = <<>> /\ Goes(p, c) /\ UNCHANGED <<links, tagged>>
  <2>1. \A g : ~Retagging(call[p], g) BY <1>10 DEF Retagging
  <2>2. \A q \in Requests : \A g : Retagging(call[q], g) => Retagging(call'[q], g)
    BY <1>5, <2>1 DEF Retagging
  <2>3. QED BY <1>7, <1>10, <2>2, UnderTagStays DEF PlaceInv
<1>11. CASE /\ links' = [links EXCEPT ![c.file] = @ \cup {Head(c.todo)}]
            /\ tagged' = tagged \cup {c.file}
  <2> HIDE DEF c
  <2>1. links'[c.file] # {} /\ \A g \in Files : g # c.file => links'[g] = links[g]
    BY <1>3, <1>9, <1>11
  <2>2. tagged' \subseteq tagged \cup {c.file} BY <1>11
  <2>3. \A g \in tagged' \cap {c.file} : links'[g] # {} BY <2>1
  <2>4. \A g \in tagged' \ {c.file} : /\ links[g] # {} => links'[g] # {}
                                      /\ \A q \in Requests : Retagging(call[q], g) => Retagging(call'[q], g)
    BY <1>8, <1>9, <1>11, <2>1
  <2>5. UnderTag' BY <2>2, <2>3, <2>4, UnderTagStays DEF PlaceInv
  <2>6. QED BY <1>7, <2>5
<1>12. CASE tagged' = tagged \ {c.file} /\ UNCHANGED links
  <2> HIDE DEF c
  <2>1. UnderTag' BY <1>8, <1>12, UnderTagStays DEF PlaceInv
  <2>2. QED BY <1>7, <2>1
<1>13. QED BY <1>4, <1>10, <1>11, <1>12

LEMMA DetachPlaces ==
  ASSUME PlaceInv, Typed', NEW p \in Requests, Detach(p) PROVE InSeries' /\ UnderTag'
<1> DEFINE c == call[p]
<1>1. Typed /\ CallsOk BY DEF PlaceInv, Typed
<1>2. Step(p) = "detach" /\ Step(p) # None BY NoneIsOther DEF Detach
<1>3. /\ c \in Calls /\ Fits(c) /\ c.at = 1 /\ c.file \in Files
      /\ (c.op = "retag" /\ c.at < Len(Steps[c.op])) \/ (c.op = "untag" /\ c.todo = <<>>)
  BY <1>1, <1>2, InCall
<1>4. /\ links' = [links EXCEPT ![c.file] = @ \ {c.from}]
      /\ tagged' = (IF c.todo = <<>> THEN tagged \ {c.file} ELSE tagged)
      /\ Goes(p, c) /\ UNCHANGED <<order, kept>>
  BY DEF Detach
<1>5. \A q \in Requests \ {p} : call'[q] = call[q] BY <1>1, <1>4, OthersGo
<1>6. \A q \in Requests : \A g : /\ Moving(call[q], g) => Moving(call'[q], g)
                                 /\ Retagging(call[q], g) => Retagging(call'[q], g)
  BY <1>3, <1>5, OthersMoving
<1>7. InSeries'
  <2>1. kept' \subseteq kept \cup {} BY <1>4
  <2>2. \A g \in kept' \cap {} : (\E s \in Series : order'[s][g] # 0) \/ \E q \in Requests : Moving(call'[q], g)
    OBVIOUS
  <2>3. \A g \in kept' \ {} : /\ \A s \in Series : order[s][g] # 0 => order'[s][g] # 0
                              /\ \A q \in Requests : Moving(call[q], g) => Moving(call'[q], g)
    BY <1>4, <1>6
  <2>4. QED BY <1>1, <2>1, <2>2, <2>3, InSeriesStays DEF PlaceInv
<1>8. links \in [Files -> SUBSET There(tags)] /\ tagged \subseteq Files BY <1>1 DEF Typed, TablesOk, HistoryOk
<1>9. c.todo # <<>> => Retagging(call'[p], c.file)
  <2>1. ASSUME c.todo # <<>> PROVE Retagging(call'[p], c.file)
    <3>1. c.op = "retag" /\ c.at < Len(Steps[c.op]) BY <1>3, <2>1
    <3>2. call'[p] = Next1(c) BY <1>1, <1>4, <3>1, GoesIs
    <3>3. c.at \in DOMAIN Steps[c.op] BY <1>3 DEF Fits
    <3>4. /\ Next1(c).at = c.at + 1 /\ Next1(c).op = c.op /\ Next1(c).file = c.file
          /\ Next1(c).todo = c.todo
      BY <1>3, <3>1, <3>3, NextIs
    <3>5. Next1(c).at = 2 BY <1>3, <3>4
    <3>6. QED BY <2>1, <3>1, <3>2, <3>4, <3>5 DEF Retagging
  <2>2. QED BY <2>1
<1> HIDE DEF c
<1>10. \A g \in Files : g # c.file => links'[g] = links[g] BY <1>3, <1>4, <1>8
<1>11. tagged' \subseteq tagged \cup {c.file} /\ (c.todo = <<>> => c.file \notin tagged') BY <1>4
<1>12. \A g \in tagged' \cap {c.file} : links'[g] # {} \/ \E q \in Requests : Retagging(call'[q], g)
  BY <1>9, <1>11
<1>13. \A g \in tagged' \ {c.file} : /\ links[g] # {} => links'[g] # {}
                                     /\ \A q \in Requests : Retagging(call[q], g) => Retagging(call'[q], g)
  BY <1>6, <1>8, <1>10, <1>11
<1>14. UnderTag' BY <1>11, <1>12, <1>13, UnderTagStays DEF PlaceInv
<1>15. QED BY <1>7, <1>14

(* A file put into a series: a member of it.                               *)
LEMMA PutPlaces ==
  ASSUME PlaceInv, Typed', NEW p \in Requests, NEW s \in Series, NEW f \in Files, NEW n \in Nat \ {0},
         Putting(s, f, n), kept' = kept \cup {f}, UNCHANGED <<links, tagged>>,
         call[p].op # "retag", call[p].op = "move" => call[p].file = f,
         \A q \in Requests \ {p} : call'[q] = call[q]
  PROVE  InSeries' /\ UnderTag'
<1>1. Typed /\ TablesOk BY DEF PlaceInv, Typed
<1>2. order'[s][f] = n /\ \A t \in Series : \A g \in Files : t # s \/ g # f => order'[t][g] = order[t][g]
  BY <1>1, PuttingIs
<1>3. kept' \subseteq Files BY DEF Typed, HistoryOk
<1>4. kept' \subseteq kept \cup {f} OBVIOUS
<1>5. \A g \in kept' \cap {f} : (\E t \in Series : order'[t][g] # 0) \/ \E q \in Requests : Moving(call'[q], g)
  BY <1>2
<1>6. \A g \in kept' \ {f} : /\ \A t \in Series : order[t][g] # 0 => order'[t][g] # 0
                             /\ \A q \in Requests : Moving(call[q], g) => Moving(call'[q], g)
  BY <1>2, <1>3 DEF Moving
<1>7. InSeries' BY <1>1, <1>4, <1>5, <1>6, InSeriesStays DEF PlaceInv
<1>8. \A q \in Requests : \A g : Retagging(call[q], g) => Retagging(call'[q], g) BY DEF Retagging
<1>9. UnderTag' BY <1>8, UnderTagStays DEF PlaceInv
<1>10. QED BY <1>7, <1>9

(* A file that its request gives up on, or takes out.                      *)
LEMMA DropPlaces ==
  ASSUME PlaceInv, Typed', NEW p \in Requests, NEW G, kept' = kept \ G, UNCHANGED <<links, tagged>>,
         \A s \in Series : \A g \in Files \ G : order'[s][g] = order[s][g],
         call[p].op # "retag", call[p].op = "move" /\ call[p].at = 2 => call[p].file \in G,
         \A q \in Requests \ {p} : call'[q] = call[q]
  PROVE  InSeries' /\ UnderTag'
<1>1. Typed BY DEF PlaceInv
<1>2. kept' \subseteq Files BY DEF Typed, HistoryOk
<1>3. kept' \subseteq kept \cup G /\ kept' \cap G = {} OBVIOUS
<1>4. \A g \in kept' \ G : /\ \A t \in Series : order[t][g] # 0 => order'[t][g] # 0
                           /\ \A q \in Requests : Moving(call[q], g) => Moving(call'[q], g)
  BY <1>2 DEF Moving
<1>5. InSeries' BY <1>1, <1>3, <1>4, InSeriesStays DEF PlaceInv
<1>6. \A q \in Requests : \A g : Retagging(call[q], g) => Retagging(call'[q], g) BY DEF Retagging
<1>7. UnderTag' BY <1>6, UnderTagStays DEF PlaceInv
<1>8. QED BY <1>5, <1>7

LEMMA JoinSeriesPlaces ==
  ASSUME PlaceInv, Typed', NEW p \in Requests, JoinSeries(p) PROVE InSeries' /\ UnderTag'
<1> DEFINE c == call[p]
<1>1. Typed /\ CallsOk BY DEF PlaceInv, Typed
<1>2. Step(p) = "join" /\ Step(p) # None BY NoneIsOther DEF JoinSeries
<1>3. c \in Calls /\ c.file \in Files /\ c.to \in Series /\ c.op # "retag" BY <1>1, <1>2, InCall
<1>4. UNCHANGED <<links, tagged>> BY DEF JoinSeries
<1>5. CASE /\ Putting(c.to, c.file, Place(c)) /\ kept' = kept \cup {c.file} /\ Goes(p, c)
  <2>1. \A q \in Requests \ {p} : call'[q] = call[q] BY <1>1, <1>5, OthersGo
  <2>2. Place(c) \in Nat \ {0} BY <1>3, PlaceIs
  <2>3. QED BY <1>3, <1>4, <1>5, <2>1, <2>2, PutPlaces
<1>6. CASE Stop(p) /\ kept' = kept \ {c.file} /\ UNCHANGED order
  <2>1. \A q \in Requests \ {p} : call'[q] = call[q] BY <1>1, <1>6, OthersGo
  <2>2. QED BY <1>3, <1>4, <1>6, <2>1, DropPlaces
<1>7. QED BY <1>5, <1>6 DEF JoinSeries, Vanished, Putting

LEMMA LeaveSeriesPlaces ==
  ASSUME PlaceInv, Typed', NEW p \in Requests, LeaveSeries(p) PROVE InSeries' /\ UnderTag'
<1> DEFINE c == call[p]
<1>1. Typed /\ CallsOk /\ TablesOk BY DEF PlaceInv, Typed
<1>2. Step(p) = "leave" /\ Step(p) # None BY NoneIsOther DEF LeaveSeries
<1>3. /\ c \in Calls /\ Fits(c) /\ c.file \in Files /\ c.from \in Series /\ c.at = 1
      /\ c.op = "remove" \/ (c.op = "move" /\ c.at < Len(Steps[c.op]))
  BY <1>1, <1>2, InCall
<1>4. /\ UNCHANGED <<links, tagged>> /\ Goes(p, c) /\ Putting(c.from, c.file, 0)
      /\ kept' = (IF c.op = "remove" THEN kept \ {c.file} ELSE kept)
  BY DEF LeaveSeries, Putting
<1>5. \A q \in Requests \ {p} : call'[q] = call[q] BY <1>1, <1>4, OthersGo
<1>6. \A s \in Series : \A g \in Files \ {c.file} : order'[s][g] = order[s][g]
  BY <1>1, <1>3, <1>4, PuttingIs
<1>7. CASE c.op = "remove" BY <1>3, <1>4, <1>5, <1>6, <1>7, DropPlaces
<1>8. CASE c.op = "move"
  <2>1. Moving(call'[p], c.file)
    <3>1. call'[p] = Next1(c) BY <1>1, <1>3, <1>4, <1>8, GoesIs
    <3>2. c.at \in DOMAIN Steps[c.op] BY <1>3 DEF Fits
    <3>3. Next1(c).at = c.at + 1 /\ Next1(c).op = c.op /\ Next1(c).file = c.file
      BY <1>3, <1>8, <3>2, NextIs
    <3>4. Next1(c).at = 2 BY <1>3, <3>3
    <3>5. QED BY <1>8, <3>1, <3>3, <3>4 DEF Moving
  <2> HIDE DEF c
  <2>2. kept' = kept /\ kept' \subseteq Files BY <1>4, <1>8 DEF Typed, HistoryOk
  <2>3. kept' \subseteq kept \cup {c.file} BY <2>2
  <2>4. \A g \in kept' \cap {c.file} :
          (\E t \in Series : order'[t][g] # 0) \/ \E q \in Requests : Moving(call'[q], g)
    BY <2>1
  <2>5. \A q \in Requests : \A g : /\ Moving(call[q], g) => Moving(call'[q], g)
                                   /\ Retagging(call[q], g) => Retagging(call'[q], g)
    BY <1>3, <1>5, OthersMoving DEF c
  <2>6. \A g \in kept' \ {c.file} : /\ \A t \in Series : order[t][g] # 0 => order'[t][g] # 0
                                    /\ \A q \in Requests : Moving(call[q], g) => Moving(call'[q], g)
    BY <1>6, <2>2, <2>5
  <2>7. InSeries' BY <1>1, <2>3, <2>4, <2>6, InSeriesStays DEF PlaceInv
  <2>8. UnderTag' BY <1>4, <2>5, UnderTagStays DEF PlaceInv
  <2>9. QED BY <2>7, <2>8
<1>9. QED BY <1>3, <1>7, <1>8

LEMMA RenumberPlaces ==
  ASSUME PlaceInv, Typed', NEW p \in Requests, Renumber(p) PROVE InSeries' /\ UnderTag'
<1> DEFINE c == call[p]
<1>1. Typed /\ CallsOk BY DEF PlaceInv, Typed
<1>2. Step(p) = "renumber" /\ Step(p) # None BY NoneIsOther DEF Renumber
<1>3. /\ c \in Calls /\ c.op = "reorder" /\ c.to \in Series /\ c.todo \in Seq(Files) /\ c.place >= 10
  BY <1>1, <1>2, InCall
<1>4. UNCHANGED <<links, tagged>> BY <1>1, RenumberIs
<1>5. ASSUME (Goes(p, c) \/ Stop(p)) /\ UNCHANGED <<order, kept>> PROVE InSeries' /\ UnderTag'
  <2>1. \A q \in Requests \ {p} : call'[q] = call[q] BY <1>1, <1>5, OthersGo
  <2>2. ~(c.op \in {"move", "retag"} /\ c.at = 2) BY <1>3
  <2>3. QED BY <1>4, <1>5, <2>1, <2>2, OthersMoving, Elsewhere DEF PlaceInv
<1>6. ASSUME NEW i, Numbers(p, i) PROVE InSeries' /\ UnderTag'
  <2>1. /\ i \in DOMAIN c.todo /\ Putting(c.to, c.todo[i], c.place) /\ kept' = kept \cup {c.todo[i]}
        /\ \E d : call' = [call EXCEPT ![p] = d]
    BY <1>6 DEF Numbers
  <2>2. \A q \in Requests \ {p} : call'[q] = call[q] BY <1>1, <2>1, OthersGo
  <2>3. PICK f \in Files : f = c.todo[i] BY <1>3, <2>1
  <2>4. PICK n \in Nat : n = c.place BY <1>3 DEF Calls
  <2>5. n \in Nat \ {0} BY <1>3, <2>4
  <2>6. QED BY <1>3, <1>4, <2>1, <2>2, <2>3, <2>4, <2>5, PutPlaces
<1>7. QED BY <1>1, <1>5, <1>6, RenumberIs

LEMMA SameMoves ==
  ASSUME UNCHANGED call
  PROVE  \A q \in Requests : \A g : /\ Moving(call[q], g) => Moving(call'[q], g)
                                    /\ Retagging(call[q], g) => Retagging(call'[q], g)
  OBVIOUS

LEMMA SeriesAlone ==
  ASSUME PlaceInv, Typed', UNCHANGED <<order, kept, call>> PROVE InSeries'
  BY DEF PlaceInv, InSeries, Members, Moving

LEMMA TagEndPlaces ==
  ASSUME PlaceInv, Typed', NEW t \in Tags, DeleteTag(t) \/ \E u \in Tags : MergeTags(t, u)
  PROVE  InSeries' /\ UnderTag'
<1>1. Typed BY DEF PlaceInv
<1>2. tagged \subseteq Files /\ tagged' \subseteq Files BY <1>1 DEF Typed, HistoryOk
<1>3. UNCHANGED call /\ \A q \in Requests : \A g : Retagging(call[q], g) => Retagging(call'[q], g)
  BY SameMoves DEF DeleteTag, MergeTags
<1>4. tagged' \subseteq tagged /\ \A g \in tagged' : links[g] # {} => links'[g] # {}
  <2>1. CASE DeleteTag(t) BY <1>2, <2>1 DEF DeleteTag
  <2>2. CASE \E u \in Tags : MergeTags(t, u)
    <3>1. PICK u \in Tags : MergeTags(t, u) BY <2>2
    <3>2. tagged' = tagged BY <3>1 DEF MergeTags, history
    <3>3. \A g \in Files : links'[g] = IF t \in links[g] THEN (links[g] \ {t}) \cup {u} ELSE links[g]
      BY <3>1 DEF MergeTags
    <3>4. QED BY <1>2, <3>2, <3>3
  <2>3. QED BY <2>1, <2>2
<1>5. UnderTag'
  <2>1. tagged' \subseteq tagged \cup {} BY <1>4
  <2>2. \A g \in tagged' \cap {} : links'[g] # {} \/ \E q \in Requests : Retagging(call'[q], g) OBVIOUS
  <2>3. \A g \in tagged' \ {} : /\ links[g] # {} => links'[g] # {}
                                /\ \A q \in Requests : Retagging(call[q], g) => Retagging(call'[q], g)
    BY <1>3, <1>4
  <2>4. QED BY <2>1, <2>2, <2>3, UnderTagStays DEF PlaceInv
<1>6. UNCHANGED <<order, kept, call>> BY DEF DeleteTag, MergeTags, history
<1>7. QED BY <1>5, <1>6, SeriesAlone

LEMMA DeleteSeriesPlaces ==
  ASSUME PlaceInv, Typed', NEW s \in Series, DeleteSeries(s) PROVE InSeries' /\ UnderTag'
<1>1. Typed /\ TablesOk BY DEF PlaceInv, Typed
<1>2. \A t \in Series \ {s} : order'[t] = order[t] BY <1>1, DeleteSeriesIs
<1>3. UNCHANGED <<call, links, tagged>> /\ kept' = kept \ Members(s) BY DEF DeleteSeries
<1>4. kept \subseteq Files BY <1>1 DEF Typed, HistoryOk
<1>5. ASSUME NEW g \in kept' PROVE (\E t \in Series : order'[t][g] # 0) \/ \E p \in Requests : Moving(call'[p], g)
  <2>1. g \in kept /\ g \in Files /\ order[s][g] = 0 BY <1>3, <1>4 DEF Members
  <2>2. (\E t \in Series : order[t][g] # 0) \/ \E p \in Requests : Moving(call[p], g)
    BY <2>1 DEF PlaceInv, InSeries, Members
  <2>3. QED BY <1>2, <1>3, <2>1, <2>2
<1>6. kept' \subseteq Files BY <1>3, <1>4
<1>7. InSeries' BY <1>5, <1>6 DEF InSeries, Members, Moving
<1>8. UnderTag' BY <1>3, SameMoves, UnderTagStays DEF PlaceInv
<1>9. QED BY <1>7, <1>8

LEMMA PurgePlaces ==
  ASSUME PlaceInv, Typed', NEW f \in Files, Purge(f) PROVE InSeries' /\ UnderTag'
<1>1. Typed /\ TablesOk BY DEF PlaceInv, Typed
<1>2. \A g \in Files \ {f} : links'[g] = links[g] /\ \A s \in Series : order'[s][g] = order[s][g]
  BY <1>1, PurgeIs
<1>3. kept' = kept \ {f} /\ tagged' = tagged \ {f} /\ UNCHANGED call BY DEF Purge
<1>4. kept' \subseteq Files /\ tagged' \subseteq Files BY DEF Typed, HistoryOk
<1>5. InSeries'
  <2>1. kept' \subseteq kept \cup {f} /\ kept' \cap {f} = {} BY <1>3
  <2>2. \A g \in kept' \ {f} : /\ \A t \in Series : order[t][g] # 0 => order'[t][g] # 0
                               /\ \A q \in Requests : Moving(call[q], g) => Moving(call'[q], g)
    BY <1>2, <1>3, <1>4
  <2>3. QED BY <1>1, <2>1, <2>2, InSeriesStays DEF PlaceInv
<1>6. UnderTag'
  <2>1. tagged' \subseteq tagged \cup {f} /\ tagged' \cap {f} = {} BY <1>3
  <2>2. \A g \in tagged' \ {f} : /\ links[g] # {} => links'[g] # {}
                                 /\ \A q \in Requests : Retagging(call[q], g) => Retagging(call'[q], g)
    BY <1>2, <1>3, <1>4
  <2>3. QED BY <2>1, <2>2, UnderTagStays DEF PlaceInv
<1>7. QED BY <1>5, <1>6

(* A request that is cut off gives up the file it has in hand.             *)
LEMMA CutPlaces ==
  ASSUME PlaceInv, Typed', NEW P \in SUBSET Requests, Cut(P) PROVE InSeries' /\ UnderTag'
<1> DEFINE F == {call[p].file : p \in {q \in P : call[q].op # None}} \ {None}
<1>1. /\ call' = [p \in Requests |-> IF p \in P THEN Idle ELSE call[p]]
      /\ kept' = kept \ F /\ tagged' = tagged \ F /\ UNCHANGED <<order, links>>
  BY DEF Cut, tables
<1>2. Typed /\ Files \cap {None} = {} BY NoneIsOther DEF PlaceInv
<1>3. kept' \subseteq Files /\ tagged' \subseteq Files BY DEF Typed, HistoryOk
<1>4. ASSUME NEW g \in Files \ F, NEW q \in Requests
      PROVE  /\ Moving(call[q], g) => Moving(call'[q], g)
             /\ Retagging(call[q], g) => Retagging(call'[q], g)
  <2>1. CASE q \in P
    <3>1. "move" # None /\ "retag" # None
      <4>1. "move" \in Ops /\ "retag" \in Ops BY AllOps
      <4>2. QED BY <4>1, NoneAssumption
    <3>2. ASSUME call[q].file = g, call[q].op # None PROVE FALSE
      BY <1>2, <2>1, <3>2
    <3>3. QED BY <3>1, <3>2 DEF Moving, Retagging
  <2>2. CASE q \notin P BY <1>1, <2>2
  <2>3. QED BY <2>1, <2>2
<1> HIDE DEF F
<1>5. InSeries'
  <2>1. kept' \subseteq kept \cup F /\ kept' \cap F = {} BY <1>1
  <2>2. \A g \in kept' \ F : /\ \A t \in Series : order[t][g] # 0 => order'[t][g] # 0
                             /\ \A q \in Requests : Moving(call[q], g) => Moving(call'[q], g)
    BY <1>1, <1>3, <1>4
  <2>3. QED BY <1>2, <2>1, <2>2, InSeriesStays DEF PlaceInv
<1>6. UnderTag'
  <2>1. tagged' \subseteq tagged \cup F /\ tagged' \cap F = {} BY <1>1
  <2>2. \A g \in tagged' \ F : /\ links[g] # {} => links'[g] # {}
                               /\ \A q \in Requests : Retagging(call[q], g) => Retagging(call'[q], g)
    BY <1>1, <1>3, <1>4
  <2>3. QED BY <2>1, <2>2, UnderTagStays DEF PlaceInv
<1>7. QED BY <1>5, <1>6

LEMMA StepPlaces ==
  ASSUME PlaceInv, [Next]_vars PROVE PlaceInv'
<1>1. Typed' BY StepTyped DEF PlaceInv
<1> DEFINE G == InSeries' /\ UnderTag'
<1>2. ASSUME NEW p \in Requests, NEW op \in Arrivals, Start(p, op) PROVE G BY <1>1, <1>2, StartPlaces
<1>3. ASSUME NEW p \in Requests, Create(p) \/ AddOwner(p) \/ FindLast(p) \/ ListMembers(p) \/ SetSort(p) PROVE G
  BY <1>1, <1>3, CallsElsewhere
<1>4. ASSUME NEW p \in Requests, Attach(p) PROVE G BY <1>1, <1>4, AttachPlaces
<1>5. ASSUME NEW p \in Requests, Detach(p) PROVE G BY <1>1, <1>5, DetachPlaces
<1>6. ASSUME NEW p \in Requests, JoinSeries(p) PROVE G BY <1>1, <1>6, JoinSeriesPlaces
<1>7. ASSUME NEW p \in Requests, LeaveSeries(p) PROVE G BY <1>1, <1>7, LeaveSeriesPlaces
<1>8. ASSUME NEW p \in Requests, Renumber(p) PROVE G BY <1>1, <1>8, RenumberPlaces
<1>9. ASSUME NEW p \in Requests, Fails(p) PROVE G
  <2>1. {p} \in SUBSET Requests /\ Cut({p}) BY <1>9 DEF Fails
  <2>2. QED BY <1>1, <2>1, CutPlaces
<1>10. ASSUME NEW t \in Tags, DeleteTag(t) \/ \E u \in Tags : MergeTags(t, u) PROVE G
  BY <1>1, <1>10, TagEndPlaces
<1>11. ASSUME NEW s \in Series, DeleteSeries(s) PROVE G BY <1>1, <1>11, DeleteSeriesPlaces
<1>12. ASSUME NEW f \in Files, Purge(f) PROVE G BY <1>1, <1>12, PurgePlaces
<1>13. ASSUME Crash PROVE G
  <2>1. Requests \in SUBSET Requests /\ Cut(Requests) BY <1>13 DEF Crash
  <2>2. QED BY <1>1, <2>1, CutPlaces
<1>14. ASSUME UNCHANGED vars PROVE G
  <2>1. UNCHANGED <<order, links, kept, tagged, call>> BY <1>14 DEF vars, tables, history
  <2>2. QED BY <1>1, <2>1, SameMoves, Elsewhere DEF PlaceInv
<1> HIDE DEF G
<1>15. G
  BY <1>2, <1>3, <1>4, <1>5, <1>6, <1>7, <1>8, <1>9, <1>10, <1>11, <1>12, <1>13, <1>14 DEF Next
<1>16. QED BY <1>1, <1>15 DEF PlaceInv, G

(* However moves, reorders, additions, merges and ends of tags and series  *)
(* run beside each other, a file put into a series is in one once nobody   *)
(* works on it, and a file given a tag has one (rename in SeriesBackend    *)
(* and TagsBackend, reorder_series_members).                               *)
THEOREM PlacesAreKept == Spec => []PlacesKept
<1>1. Init => PlaceInv BY InitPlaces
<1>2. PlaceInv /\ [Next]_vars => PlaceInv' BY StepPlaces
<1>3. PlaceInv => PlacesKept
  BY DEF PlaceInv, InSeries, UnderTag, Moving, Retagging, PlacesKept, MovesKeepMember, RetagsKeepTag, Quiet
<1>4. QED BY <1>1, <1>2, <1>3, PTL DEF Spec

-----------------------------------------------------------------------------
(* Owners: a file that is there has its owner's rule, or its making ended  *)
(* with an error, or the request that makes it is still at it.             *)
Making(c, f) == Made(c) /\ c.file = f

OwnedOrMaking ==
  \A f \in Files : files[f] = "there" => f \in owned \cup deserted \/ \E p \in Requests : Making(call[p], f)
OwnerInv == Typed /\ OwnedOrMaking

LEMMA OwnedStays ==
  ASSUME OwnedOrMaking, owned \subseteq owned', deserted \subseteq deserted',
         \A f \in Files : files'[f] = "there" => files[f] = "there" \/ \E p \in Requests : Making(call'[p], f),
         \A q \in Requests : \A f \in Files :
           Making(call[q], f) => Making(call'[q], f) \/ f \in owned' \cup deserted'
  PROVE  OwnedOrMaking'
<1>1. ASSUME NEW f \in Files, files'[f] = "there"
      PROVE  f \in owned' \cup deserted' \/ \E p \in Requests : Making(call'[p], f)
  <2>1. CASE \E p \in Requests : Making(call'[p], f) BY <2>1
  <2>2. CASE files[f] = "there"
    <3>1. f \in owned \cup deserted \/ \E p \in Requests : Making(call[p], f) BY <2>2 DEF OwnedOrMaking
    <3>2. QED BY <3>1
  <2>3. QED BY <1>1, <2>1, <2>2
<1>2. QED BY <1>1 DEF OwnedOrMaking, Making, Made

(* A step of one request: the others make what they made.                  *)
LEMMA OwnedElsewhere ==
  ASSUME OwnedOrMaking, NEW p \in Requests, owned \subseteq owned', deserted \subseteq deserted',
         \A q \in Requests \ {p} : call'[q] = call[q],
         \A f \in Files : files'[f] = "there" => files[f] = "there" \/ Making(call'[p], f),
         Made(call[p]) => Making(call'[p], call[p].file) \/ call[p].file \in owned' \cup deserted'
  PROVE  OwnedOrMaking'
<1>1. ASSUME NEW q \in Requests, NEW f \in Files, Making(call[q], f)
      PROVE  Making(call'[q], f) \/ f \in owned' \cup deserted'
  <2>1. CASE q = p BY <1>1, <2>1 DEF Making
  <2>2. CASE q # p
    <3>1. call'[q] = call[q] BY <2>2
    <3>2. QED BY <1>1, <3>1 DEF Making
  <2>3. QED BY <2>1, <2>2
<1>2. QED BY <1>1, OwnedStays

LEMMA IdleMakes ==
  ~Made(Idle)
  <1>1. "upload" \in Ops /\ "dropInTag" \in Ops /\ "dropInSeries" \in Ops BY AllOps
  <1>2. QED BY <1>1, IdleIs, NoneAssumption DEF Made

LEMMA InitOwners ==
  ASSUME Init PROVE OwnerInv
<1>1. Typed BY InitTyped
<1>2. OwnedOrMaking BY DEF Init, State, OwnedOrMaking
<1>3. QED BY <1>1, <1>2 DEF OwnerInv

LEMMA StartOwners ==
  ASSUME OwnerInv, NEW p \in Requests, NEW op \in Arrivals, Start(p, op) PROVE OwnedOrMaking'
<1>1. PICK c : Started(p, c) BY StartIs DEF OwnerInv, Typed
<1>2. UNCHANGED <<files, owned, deserted>> BY DEF Start, tables, history
<1>3. ASSUME NEW q \in Requests, NEW f \in Files, Making(call[q], f) PROVE Making(call'[q], f)
  <2>1. CASE q = p
    <3>1. call[q] = Idle BY <1>1, <2>1 DEF Started
    <3>2. QED BY <1>3, <3>1, IdleMakes DEF Making
  <2>2. CASE q # p
    <3>1. call'[q] = call[q] \/ (Fits(call[q]) /\ call'[q] = Calmer(call[q])) BY <1>1, <2>2 DEF Started
    <3>2. CASE call'[q] = call[q] BY <1>3, <3>2 DEF Making
    <3>3. CASE Fits(call[q]) /\ call'[q] = Calmer(call[q])
      <4>1. call[q] \in Calls BY <3>3 DEF Fits
      <4>2. call'[q].op = call[q].op /\ call'[q].at = call[q].at /\ call'[q].file = call[q].file
        BY <3>3, <4>1, CalmerIs
      <4>3. QED BY <1>3, <4>2 DEF Making, Made
    <3>4. QED BY <3>1, <3>2, <3>3
  <2>3. QED BY <2>1, <2>2
<1>4. QED BY <1>2, <1>3, OwnedStays DEF OwnerInv

LEMMA CreateOwners ==
  ASSUME OwnerInv, NEW p \in Requests, Create(p) PROVE OwnedOrMaking'
<1> DEFINE c == call[p]
<1>1. Typed /\ CallsOk /\ TablesOk BY DEF OwnerInv, Typed
<1>2. Step(p) = "create" /\ Step(p) # None BY NoneIsOther DEF Create
<1>3. /\ Fits(c) /\ c \in Calls /\ c.at < Len(Steps[c.op]) /\ ~Made(c)
      /\ (c.op \in {"upload", "dropInTag"} /\ c.at = 1) \/ (c.op = "dropInSeries" /\ c.at = 2)
  BY <1>1, <1>2, InCall
<1>4. PICK f \in Files : files' = [files EXCEPT ![f] = "there"] /\ Goes(p, Holding(c, f))
  BY DEF Create, Holding
<1>5. UNCHANGED <<owned, deserted>> BY DEF Create, history
<1>6. \A q \in Requests \ {p} : call'[q] = call[q] BY <1>1, <1>4, OthersGo
<1>7. Making(call'[p], f)
  <2> DEFINE d == Holding(c, f)
  <2>1. d \in Calls /\ d.op = c.op /\ d.at = c.at /\ d.file = f BY <1>3, HoldingIs
  <2>2. Goes(p, d) BY <1>4
  <2> HIDE DEF d, c
  <2>3. d.at < Len(Steps[d.op]) /\ d.at \in DOMAIN Steps[d.op] BY <1>3, <2>1 DEF Fits
  <2>4. call'[p] = Next1(d) BY <1>1, <2>2, <2>3, GoesIs
  <2>5. Next1(d).at = d.at + 1 /\ Next1(d).op = d.op /\ Next1(d).file = d.file BY <2>1, <2>3, NextIs
  <2>6. PICK a \in 1..4 : a = c.at BY <1>3 DEF Calls
  <2>7. Next1(d).at = a + 1 BY <2>1, <2>5, <2>6
  <2>8. (c.op \in {"upload", "dropInTag"} /\ a + 1 >= 2) \/ (c.op = "dropInSeries" /\ a + 1 >= 3)
    BY <1>3, <2>6
  <2>9. Made(Next1(d)) BY <2>1, <2>5, <2>7, <2>8 DEF Made
  <2>10. QED BY <2>1, <2>4, <2>5, <2>9 DEF Making
<1>8. \A g \in Files : files'[g] = "there" => files[g] = "there" \/ Making(call'[p], g)
  BY <1>1, <1>4, <1>7 DEF TablesOk
<1>9. QED BY <1>3, <1>5, <1>6, <1>8, OwnedElsewhere DEF OwnerInv

(* A call of a request that goes on making what it makes, or hands it over.*)
LEMMA MakesOn ==
  ASSUME CallsOk, NEW p \in Requests, NEW c, c = call[p], Fits(c), c.at < Len(Steps[c.op]), Goes(p, c), Made(c)
  PROVE  Making(call'[p], c.file)
<1>1. c \in Calls /\ c.at \in DOMAIN Steps[c.op] BY DEF Fits
<1>2. call'[p] = Next1(c) BY GoesIs
<1>3. Next1(c).at = c.at + 1 /\ Next1(c).op = c.op /\ Next1(c).file = c.file BY <1>1, NextIs
<1>4. PICK a \in 1..4 : a = c.at BY <1>1 DEF Calls
<1>5. Next1(c).at = a + 1 BY <1>3, <1>4
<1>6. (c.op \in {"upload", "dropInTag"} /\ a + 1 >= 2) \/ (c.op = "dropInSeries" /\ a + 1 >= 3)
  BY <1>4 DEF Made
<1>7. Made(Next1(c)) BY <1>3, <1>5, <1>6 DEF Made
<1>8. QED BY <1>2, <1>3, <1>7 DEF Making

LEMMA AddOwnerOwners ==
  ASSUME OwnerInv, NEW p \in Requests, AddOwner(p) PROVE OwnedOrMaking'
<1>1. CallsOk BY DEF OwnerInv, Typed
<1>2. Goes(p, call[p]) /\ owned' = owned \cup {call[p].file} /\ UNCHANGED <<files, deserted>>
  BY DEF AddOwner, history
<1>3. \A q \in Requests \ {p} : call'[q] = call[q] BY <1>1, <1>2, OthersGo
<1>4. QED BY <1>2, <1>3, OwnedElsewhere DEF OwnerInv

LEMMA AttachOwners ==
  ASSUME OwnerInv, NEW p \in Requests, Attach(p) PROVE OwnedOrMaking'
<1> DEFINE c == call[p]
<1>1. CallsOk BY DEF OwnerInv, Typed
<1>2. Step(p) = "attach" /\ Step(p) # None BY NoneIsOther DEF Attach
<1>3. /\ Fits(c) /\ c \in Calls
      /\ (c.op = "dropInTag" /\ c.at < Len(Steps[c.op])) \/ c.op = "retag"
  BY <1>1, <1>2, InCall
<1>4. Made(c) => c.op = "dropInTag" BY <1>3 DEF Made
<1>5. UNCHANGED <<files, owned>> BY DEF Attach
<1>6. CASE Goes(p, c) /\ UNCHANGED deserted
  <2>1. \A q \in Requests \ {p} : call'[q] = call[q] BY <1>1, <1>6, OthersGo
  <2>2. Made(c) => Making(call'[p], c.file) BY <1>1, <1>3, <1>4, <1>6, MakesOn
  <2>3. QED BY <1>5, <1>6, <2>1, <2>2, OwnedElsewhere DEF OwnerInv
<1>7. CASE call' = [call EXCEPT ![p].todo = Tail(@)] /\ UNCHANGED deserted
  <2>1. \A q \in Requests \ {p} : call'[q] = call[q] BY <1>1, <1>7 DEF CallsOk
  <2>2. call'[p] = [c EXCEPT !.todo = Tail(c.todo)] BY <1>1, <1>7 DEF CallsOk
  <2>3. call'[p].op = c.op /\ call'[p].at = c.at /\ call'[p].file = c.file BY <1>3, <2>2 DEF Calls
  <2>4. Made(c) => Making(call'[p], c.file) BY <2>3 DEF Making, Made
  <2>5. QED BY <1>5, <1>7, <2>1, <2>4, OwnedElsewhere DEF OwnerInv
<1>8. CASE Vanished(p)
  <2>1. \A q \in Requests \ {p} : call'[q] = call[q] BY <1>1, <1>8, OthersGo DEF Vanished
  <2>2. deserted \subseteq deserted' /\ (Made(c) => c.file \in deserted')
    BY <1>4, <1>8 DEF Vanished, Creates
  <2>3. QED BY <1>5, <2>1, <2>2, OwnedElsewhere DEF OwnerInv
<1>9. QED BY <1>6, <1>7, <1>8 DEF Attach

LEMMA JoinSeriesOwners ==
  ASSUME OwnerInv, NEW p \in Requests, JoinSeries(p) PROVE OwnedOrMaking'
<1> DEFINE c == call[p]
<1>1. CallsOk BY DEF OwnerInv, Typed
<1>2. Step(p) = "join" /\ Step(p) # None BY NoneIsOther DEF JoinSeries
<1>3. /\ Fits(c) /\ c \in Calls
      /\ (c.op = "dropInSeries" /\ c.at < Len(Steps[c.op])) \/ c.op \in {"number", "add", "move"}
  BY <1>1, <1>2, InCall
<1>4. Made(c) => c.op = "dropInSeries" BY <1>3 DEF Made
<1>5. UNCHANGED <<files, owned>> BY DEF JoinSeries
<1>6. CASE Goes(p, c) /\ UNCHANGED deserted
  <2>1. \A q \in Requests \ {p} : call'[q] = call[q] BY <1>1, <1>6, OthersGo
  <2>2. Made(c) => Making(call'[p], c.file) BY <1>1, <1>3, <1>4, <1>6, MakesOn
  <2>3. QED BY <1>5, <1>6, <2>1, <2>2, OwnedElsewhere DEF OwnerInv
<1>7. CASE Vanished(p)
  <2>1. \A q \in Requests \ {p} : call'[q] = call[q] BY <1>1, <1>7, OthersGo DEF Vanished
  <2>2. deserted \subseteq deserted' /\ (Made(c) => c.file \in deserted')
    BY <1>4, <1>7 DEF Vanished, Creates
  <2>3. QED BY <1>5, <2>1, <2>2, OwnedElsewhere DEF OwnerInv
<1>8. QED BY <1>6, <1>7 DEF JoinSeries

LEMMA OtherCallsOwners ==
  ASSUME OwnerInv, NEW p \in Requests,
         Detach(p) \/ FindLast(p) \/ LeaveSeries(p) \/ ListMembers(p) \/ Renumber(p) \/ SetSort(p)
  PROVE  OwnedOrMaking'
<1> DEFINE c == call[p]
<1>1. Typed /\ CallsOk BY DEF OwnerInv, Typed
<1>2. Step(p) \in {"detach", "last", "leave", "members", "renumber", "manual", "sort"} /\ Step(p) # None
  BY NoneIsOther DEF Detach, FindLast, LeaveSeries, ListMembers, Renumber, SetSort
<1>3. c.op \in {"retag", "untag", "add", "remove", "move", "reorder", "sort"} \/ (c.op = "dropInSeries" /\ c.at = 1)
  BY <1>1, <1>2, InCall
<1>4. ~Made(c) BY <1>3 DEF Made
<1>5. UNCHANGED <<files, owned, deserted>>
  BY DEF Detach, FindLast, LeaveSeries, ListMembers, Renumber, SetSort, tables, history
<1>6. \A q \in Requests \ {p} : call'[q] = call[q]
  <2>1. CASE Detach(p) \/ FindLast(p) \/ LeaveSeries(p) \/ ListMembers(p) \/ SetSort(p)
    <3>1. \E d : Goes(p, d) BY <2>1 DEF Detach, FindLast, LeaveSeries, ListMembers, SetSort
    <3>2. QED BY <1>1, <3>1, OthersGo
  <2>2. CASE Renumber(p)
    <3>1. (\E d : Goes(p, d)) \/ Stop(p) \/ \E d : call' = [call EXCEPT ![p] = d]
      BY <1>1, <2>2, RenumberIs DEF Numbers
    <3>2. QED BY <1>1, <3>1, OthersGo
  <2>3. QED BY <2>1, <2>2
<1>7. QED BY <1>4, <1>5, <1>6, OwnedElsewhere DEF OwnerInv

LEMMA CutOwners ==
  ASSUME OwnerInv, NEW P \in SUBSET Requests, Cut(P) PROVE OwnedOrMaking'
<1> DEFINE F == {call[p].file : p \in {q \in P : call[q].op # None}} \ {None}
<1>1. /\ call' = [p \in Requests |-> IF p \in P THEN Idle ELSE call[p]] /\ UNCHANGED <<files, owned>>
      /\ deserted' = deserted \cup (F \cap {call[p].file : p \in {q \in P : call[q].op \in Creates}})
  BY DEF Cut, tables
<1>2. "upload" # None /\ "dropInTag" # None /\ "dropInSeries" # None /\ None \notin Files
  <2>1. "upload" \in Ops /\ "dropInTag" \in Ops /\ "dropInSeries" \in Ops BY AllOps
  <2>2. QED BY <2>1, NoneAssumption
<1>3. ASSUME NEW q \in Requests, NEW f \in Files, Making(call[q], f)
      PROVE  Making(call'[q], f) \/ f \in owned' \cup deserted'
  <2>1. CASE q \in P
    <3>1. call[q].op \in Creates /\ call[q].op # None /\ call[q].file = f /\ f # None
      BY <1>2, <1>3 DEF Making, Made, Creates
    <3>2. f \in F BY <2>1, <3>1
    <3>3. QED BY <1>1, <2>1, <3>1, <3>2
  <2>2. CASE q \notin P
    <3>1. call'[q] = call[q] BY <1>1, <2>2
    <3>2. QED BY <1>3, <3>1 DEF Making
  <2>3. QED BY <2>1, <2>2
<1>4. QED BY <1>1, <1>3, OwnedStays DEF OwnerInv

LEMMA StepOwners ==
  ASSUME OwnerInv, [Next]_vars PROVE OwnerInv'
<1>1. Typed' BY StepTyped DEF OwnerInv
<1>2. ASSUME NEW p \in Requests, NEW op \in Arrivals, Start(p, op) PROVE OwnedOrMaking' BY <1>2, StartOwners
<1>3. ASSUME NEW p \in Requests, Create(p) PROVE OwnedOrMaking' BY <1>3, CreateOwners
<1>4. ASSUME NEW p \in Requests, AddOwner(p) PROVE OwnedOrMaking' BY <1>4, AddOwnerOwners
<1>5. ASSUME NEW p \in Requests, Attach(p) PROVE OwnedOrMaking' BY <1>5, AttachOwners
<1>6. ASSUME NEW p \in Requests, JoinSeries(p) PROVE OwnedOrMaking' BY <1>6, JoinSeriesOwners
<1>7. ASSUME NEW p \in Requests,
             Detach(p) \/ FindLast(p) \/ LeaveSeries(p) \/ ListMembers(p) \/ Renumber(p) \/ SetSort(p)
      PROVE  OwnedOrMaking'
  BY <1>7, OtherCallsOwners
<1>8. ASSUME NEW p \in Requests, Fails(p) PROVE OwnedOrMaking'
  <2>1. {p} \in SUBSET Requests /\ Cut({p}) BY <1>8 DEF Fails
  <2>2. QED BY <2>1, CutOwners
<1>9. ASSUME Crash PROVE OwnedOrMaking'
  <2>1. Requests \in SUBSET Requests /\ Cut(Requests) BY <1>9 DEF Crash
  <2>2. QED BY <2>1, CutOwners
<1>10. ASSUME UNCHANGED <<owned, deserted, call>>, \A f \in Files : files'[f] = "there" => files[f] = "there"
       PROVE  OwnedOrMaking'
  BY <1>10, OwnedStays DEF OwnerInv
<1>11. ASSUME NEW t \in Tags, DeleteTag(t) \/ \E u \in Tags : MergeTags(t, u) PROVE OwnedOrMaking'
  BY <1>10, <1>11 DEF DeleteTag, MergeTags, history
<1>12. ASSUME NEW s \in Series, DeleteSeries(s) PROVE OwnedOrMaking' BY <1>10, <1>12 DEF DeleteSeries
<1>13. ASSUME NEW f \in Files, Purge(f) PROVE OwnedOrMaking'
  <2>1. TablesOk BY DEF OwnerInv, Typed
  <2>2. files'[f] = "gone" /\ \A g \in Files \ {f} : files'[g] = files[g] BY <1>13, <2>1, PurgeIs
  <2>3. QED BY <1>10, <1>13, <2>2 DEF Purge
<1>14. ASSUME UNCHANGED vars PROVE OwnedOrMaking' BY <1>10, <1>14 DEF vars, tables, history
<1>15. OwnedOrMaking'
  BY <1>2, <1>3, <1>4, <1>5, <1>6, <1>7, <1>8, <1>9, <1>11, <1>12, <1>13, <1>14 DEF Next
<1>16. QED BY <1>1, <1>15 DEF OwnerInv

(* Whoever made a file has every right to it, or its making ended with an  *)
(* error, or is still under way (close in handle.rs, create_file in        *)
(* yozist-api lib.rs).                                                     *)
THEOREM OwnersStay == Spec => []OwnerUnlessDeserted
<1>1. Init => OwnerInv BY InitOwners
<1>2. OwnerInv /\ [Next]_vars => OwnerInv' BY StepOwners
<1>3. OwnerInv => OwnerUnlessDeserted BY DEF OwnerInv, OwnedOrMaking, Making, OwnerUnlessDeserted
<1>4. QED BY <1>1, <1>2, <1>3, PTL DEF Spec

-----------------------------------------------------------------------------
(* The order of a series.  Of two requests at one series neither is alone; *)
(* a request that is alone and has found a place at the end is still past  *)
(* everybody; one that is numbering has given lower numbers to those it is *)
(* done with, and those it found are members yet.                          *)
Apart ==
  \A p, q \in Requests :
    p # q /\ OnSeries(call[p]) \cap OnSeries(call[q]) # {} => ~call[p].alone /\ ~call[q].alone
Appending(c) == c.alone /\ ((c.op = "add" /\ c.at = 2) \/ (c.op = "dropInSeries" /\ c.at \in {2, 3}))
Numbering(c) == c.alone /\ c.op = "reorder" /\ c.at = 2
AtEnd == \A p \in Requests : Appending(call[p]) => \A g \in Files : order[call[p].to][g] < call[p].place
FoundThere(c) ==
  \A g \in c.found : order[c.to][g] # 0 \/ files[g] = "gone" \/ series[c.to] # "there"
NumberedFirst(c) ==
  \A i \in DOMAIN asked[c.to] :
    order[c.to][asked[c.to][i]] < c.place /\ \A j \in DOMAIN c.todo : c.todo[j] # asked[c.to][i]
ByNow == \A p \in Requests : Numbering(call[p]) => call[p].place = 10 \/ NumberedFirst(call[p])
Listed == \A p \in Requests : Numbering(call[p]) => FoundThere(call[p])
ByHand == \A s \in arranged : sort[s] = "manual" \/ series[s] # "there"
OrderInv == Typed /\ Apart /\ OrderAsAsked /\ AtEnd /\ ByNow /\ Listed /\ ByHand

(* The three of them for one request, over what it sees of its series: the *)
(* places o, what was asked q, the files fs and the state of the series.   *)
Ready(c, o, q, fs, state) ==
  /\ Appending(c) => \A g \in Files : o[g] < c.place
  /\ Numbering(c) =>
       /\ c.place = 10 \/ \A i \in DOMAIN q : o[q[i]] < c.place /\ \A j \in DOMAIN c.todo : c.todo[j] # q[i]
       /\ \A g \in c.found : o[g] # 0 \/ fs[g] = "gone" \/ state # "there"

ReadyNow(c) == Ready(c, order[c.to], asked[c.to], files, series[c.to])
ReadyNext(c) == Ready(c, order'[c.to], asked'[c.to], files', series'[c.to])

LEMMA ReadyIs ==
  AtEnd /\ ByNow /\ Listed <=> \A p \in Requests : ReadyNow(call[p])
  BY DEF AtEnd, ByNow, Listed, ReadyNow, Ready, NumberedFirst, FoundThere

LEMMA ReadyNextIs ==
  ASSUME \A p \in Requests : ReadyNext(call'[p]) PROVE AtEnd' /\ ByNow' /\ Listed'
  BY DEF AtEnd, ByNow, Listed, ReadyNext, Ready, NumberedFirst, FoundThere, Appending, Numbering

LEMMA AskedIs == OrderAsAsked <=> \A s \in Series : Rises(asked[s], order[s])
  BY DEF OrderAsAsked, Rises

LEMMA AskedNextIs ==
  ASSUME \A s \in Series : Rises(asked'[s], order'[s]) PROVE OrderAsAsked'
  BY DEF OrderAsAsked, Rises

(* Most requests have nothing to be ready for.                             *)
LEMMA NothingToBeReadyFor ==
  ASSUME NEW c, ~Appending(c), ~Numbering(c) PROVE ReadyNext(c)
  BY DEF ReadyNext, Ready

LEMMA IdleReady == ~Appending(Idle) /\ ~Numbering(Idle)
<1>1. "add" # None /\ "dropInSeries" # None /\ "reorder" # None
  <2>1. "add" \in Ops /\ "dropInSeries" \in Ops /\ "reorder" \in Ops BY AllOps
  <2>2. QED BY <2>1, NoneAssumption
<1>2. QED BY <1>1, IdleIs DEF Appending, Numbering

LEMMA ReadyAt ==
  ASSUME NEW c, Fits(c), Appending(c) \/ Numbering(c)
  PROVE  c.to \in Series /\ c.to \in OnSeries(c) /\ c.alone /\ (Appending(c) => c.place >= 1)
<1>1. c.to \in Series BY DEF Fits, Appending, Numbering
<1>2. Appending(c) => c.place >= 1
  <2>1. c.at \in 1..4 BY DEF Fits, Calls
  <2>2. c.op \in {"add", "dropInSeries"} /\ c.at \in {2, 3} => c.at >= 2 BY <2>1
  <2>3. QED BY <2>2 DEF Fits, Appending
<1>3. QED BY <1>1, <1>2 DEF OnSeries, Appending, Numbering

(* Nothing happens to its series: a request stays ready.                   *)
LEMMA StaysReady ==
  ASSUME NEW c, ReadyNow(c), \A g \in Files : files[g] = "gone" => files'[g] = "gone", c.found \subseteq Files,
         Appending(c) \/ Numbering(c) =>
           order'[c.to] = order[c.to] /\ asked'[c.to] = asked[c.to] /\ series'[c.to] = series[c.to]
  PROVE  ReadyNext(c)
  BY DEF ReadyNow, ReadyNext, Ready

(* A call of one request, which leaves other series and other requests as  *)
(* they are.                                                               *)
Follows(c, d) == d = Idle \/ (d.to = c.to /\ d.from = c.from /\ d.alone = c.alone)
OnlyAt(p) ==
  /\ \A q \in Requests \ {p} : call'[q] = call[q]
  /\ \A t \in Series \ OnSeries(call[p]) : order'[t] = order[t] /\ asked'[t] = asked[t]
  /\ series' = series
  /\ \A g \in Files : files[g] = "gone" => files'[g] = "gone"

LEMMA FollowsApart ==
  ASSUME Apart, \A p \in Requests : Follows(call[p], call'[p]) PROVE Apart'
<1>1. ASSUME NEW p \in Requests, NEW q \in Requests, p # q, OnSeries(call'[p]) \cap OnSeries(call'[q]) # {}
      PROVE  ~call'[p].alone /\ ~call'[q].alone
  <2>1. call'[p] # Idle /\ call'[q] # Idle BY <1>1, IdleIs
  <2>2. /\ call'[p].to = call[p].to /\ call'[p].from = call[p].from /\ call'[p].alone = call[p].alone
        /\ call'[q].to = call[q].to /\ call'[q].from = call[q].from /\ call'[q].alone = call[q].alone
    BY <2>1 DEF Follows
  <2>3. OnSeries(call'[p]) = OnSeries(call[p]) /\ OnSeries(call'[q]) = OnSeries(call[q])
    BY <2>2 DEF OnSeries
  <2>4. ~call[p].alone /\ ~call[q].alone BY <1>1, <2>3 DEF Apart
  <2>5. QED BY <2>2, <2>4
<1>2. QED BY <1>1 DEF Apart, OnSeries

LEMMA OthersReady ==
  ASSUME OrderInv, NEW p \in Requests, OnlyAt(p), NEW q \in Requests, q # p
  PROVE  ReadyNext(call'[q])
<1>1. CallsOk /\ Apart /\ ReadyNow(call[q]) BY ReadyIs DEF OrderInv, Typed
<1>2. call'[q] = call[q] BY DEF OnlyAt
<1>3. CASE ~Appending(call[q]) /\ ~Numbering(call[q])
  BY <1>2, <1>3, NothingToBeReadyFor
<1>4. CASE Appending(call[q]) \/ Numbering(call[q])
  <2>1. Fits(call[q]) BY <1>1, <1>4, IdleOrBusy, IdleReady
  <2>2. PICK c : c = call[q] OBVIOUS
  <2>3. c.to \in Series /\ c.to \in OnSeries(c) /\ c.alone BY <1>4, <2>1, <2>2, ReadyAt
  <2>4. c.to \notin OnSeries(call[p])
    <3>1. SUFFICES ASSUME c.to \in OnSeries(call[p]) PROVE FALSE OBVIOUS
    <3>2. OnSeries(call[p]) \cap OnSeries(call[q]) # {} BY <2>2, <2>3, <3>1
    <3>3. ~call[q].alone BY <1>1, <3>2 DEF Apart
    <3>4. QED BY <2>2, <2>3, <3>3
  <2>5. order'[c.to] = order[c.to] /\ asked'[c.to] = asked[c.to] /\ series' = series
    BY <2>3, <2>4 DEF OnlyAt
  <2>6. c.found \subseteq Files BY <2>1, <2>2 DEF Fits, Calls
  <2>7. \A g \in Files : files[g] = "gone" => files'[g] = "gone" BY DEF OnlyAt
  <2>8. ReadyNow(c) BY <1>1, <2>2
  <2>9. ReadyNext(c) BY <2>5, <2>6, <2>7, <2>8, StaysReady
  <2>10. QED BY <1>2, <2>2, <2>9
<1>5. QED BY <1>3, <1>4

LEMMA CallOrder ==
  ASSUME OrderInv, Typed', NEW p \in Requests, OnlyAt(p), Follows(call[p], call'[p]), ReadyNext(call'[p]),
         \A s \in OnSeries(call[p]) : Rises(asked'[s], order'[s]),
         ByHand'
  PROVE  OrderInv'
<1>1. \A q \in Requests : ReadyNext(call'[q]) BY OthersReady
<1>2. AtEnd' /\ ByNow' /\ Listed' BY <1>1, ReadyNextIs
<1>3. \A q \in Requests : Follows(call[q], call'[q])
  BY DEF OnlyAt, Follows
<1>4. Apart' BY <1>3, FollowsApart DEF OrderInv
<1>5. \A s \in Series : Rises(asked'[s], order'[s])
  <2>1. \A s \in Series : Rises(asked[s], order[s]) BY AskedIs DEF OrderInv
  <2>2. SUFFICES ASSUME NEW s \in Series, s \notin OnSeries(call[p]) PROVE Rises(asked'[s], order'[s]) OBVIOUS
  <2>3. order'[s] = order[s] /\ asked'[s] = asked[s] BY <2>2 DEF OnlyAt
  <2>4. QED BY <2>1, <2>3
<1>6. OrderAsAsked' BY <1>5, AskedNextIs
<1>7. QED BY <1>2, <1>4, <1>6 DEF OrderInv

(* The calls that leave the order of every series alone.                   *)
LEMMA QuietCallOrder ==
  ASSUME OrderInv, Typed', NEW p \in Requests, \A q \in Requests \ {p} : call'[q] = call[q],
         UNCHANGED <<order, asked, series>>, \A g \in Files : files[g] = "gone" => files'[g] = "gone",
         Follows(call[p], call'[p]), ReadyNext(call'[p]), ByHand'
  PROVE  OrderInv'
<1>1. OnlyAt(p) BY DEF OnlyAt
<1>2. \A s \in OnSeries(call[p]) : Rises(asked'[s], order'[s]) BY AskedIs DEF OrderInv, OnSeries
<1>3. QED BY <1>1, <1>2, CallOrder

LEMMA SameHand ==
  ASSUME ByHand, UNCHANGED <<arranged, sort, series>> PROVE ByHand'
  BY DEF ByHand

(* A call taken, and the next one to come.                                 *)
LEMMA NextFollows ==
  ASSUME CallsOk, NEW p \in Requests, NEW c, NEW d, c = call[p], d \in Calls, d.at \in DOMAIN Steps[d.op], Goes(p, d),
         d.to = c.to, d.from = c.from, d.alone = c.alone
  PROVE  /\ Follows(c, call'[p])
         /\ d.at < Len(Steps[d.op]) =>
              /\ call'[p].at = d.at + 1 /\ call'[p].op = d.op /\ call'[p].to = d.to /\ call'[p].place = d.place
              /\ call'[p].todo = d.todo /\ call'[p].found = d.found /\ call'[p].alone = d.alone
         /\ ~(d.at < Len(Steps[d.op])) => call'[p] = Idle
<1>1. CASE d.at < Len(Steps[d.op])
  <2>1. call'[p] = Next1(d) BY <1>1, GoesIs
  <2>2. /\ Next1(d).at = d.at + 1 /\ Next1(d).op = d.op /\ Next1(d).to = d.to /\ Next1(d).place = d.place
        /\ Next1(d).todo = d.todo /\ Next1(d).found = d.found /\ Next1(d).alone = d.alone
        /\ Next1(d).from = d.from
    BY <1>1, NextIs
  <2>3. QED BY <1>1, <2>1, <2>2 DEF Follows
<1>2. CASE ~(d.at < Len(Steps[d.op]))
  <2>1. call'[p] = Idle BY <1>2, GoesIs
  <2>2. QED BY <1>2, <2>1 DEF Follows
<1>3. QED BY <1>1, <1>2

LEMMA InitOrder ==
  ASSUME Init PROVE OrderInv
<1>1. Typed BY InitTyped
<1>2. \A p \in Requests : call[p] = Idle BY DEF Init
<1>3. Apart BY <1>2, IdleIs DEF Apart
<1>4. AtEnd /\ ByNow /\ Listed BY <1>2, IdleReady DEF AtEnd, ByNow, Listed
<1>5. ByHand BY DEF Init, ByHand
<1>6. ASSUME NEW s \in Series PROVE Rises(asked[s], order[s])
  <2> DEFINE q == InOrder(Members(s), order[s])
  <2>1. asked[s] = q BY DEF Init
  <2>2. order = FirstMembers /\ order \in [Series -> [Files -> Nat]] BY <1>1 DEF Init, Typed, TablesOk
  <2>3. IsFiniteSet(Members(s)) BY SmbViewsAssumption, FS_Subset DEF Members
  <2>4. \A f \in Members(s) : order[s][f] \in Nat BY <2>2 DEF Members
  <2>5. Sorted(q, Members(s), order[s]) BY <2>3, <2>4, InOrderSorts
  <2> HIDE DEF q
  <2>6. \A f \in Members(s) : \A g \in Files \ {f} : order[s][g] # order[s][f]
    BY <2>2, SmbViewsAssumption DEF Members
  <2>7. ASSUME NEW i \in DOMAIN q, NEW j \in DOMAIN q, i < j PROVE order[s][q[i]] < order[s][q[j]]
    <3>1. q[i] # q[j] /\ order[s][q[i]] <= order[s][q[j]] BY <2>5, <2>7 DEF Sorted
    <3>2. q[i] \in Members(s) /\ q[j] \in Members(s) BY <2>5 DEF Sorted
    <3>3. order[s][q[i]] # order[s][q[j]] BY <2>6, <3>1, <3>2 DEF Members
    <3>4. PICK a \in Nat, b \in Nat : a = order[s][q[i]] /\ b = order[s][q[j]] BY <2>4, <3>2
    <3>5. a < b BY <3>1, <3>3, <3>4
    <3>6. QED BY <3>4, <3>5
  <2>8. QED BY <2>1, <2>7 DEF Rises
<1>7. OrderAsAsked BY <1>6, AskedIs
<1>8. QED BY <1>1, <1>3, <1>4, <1>5, <1>7 DEF OrderInv

(* Whoever is at the series of a new request is not alone any more, and    *)
(* neither is the new one.                                                 *)
LEMMA StartOrder ==
  ASSUME OrderInv, Typed', NEW p \in Requests, NEW op \in Arrivals, Start(p, op) PROVE OrderInv'
<1>1. Typed /\ CallsOk /\ TablesOk /\ Apart BY DEF OrderInv, Typed
<1>2. PICK c : Begins(c, op) /\ Started(p, c) BY <1>1, StartIs
<1>3. c \in Calls /\ Fits(c) /\ c.at = 1 BY <1>2 DEF Begins, Fits
<1>4. UNCHANGED <<order, asked, series, files, sort, arranged>> BY DEF Start, tables, history
<1>5. call'[p] \in Calls /\ call'[p].at = 1 /\ OnSeries(call'[p]) = OnSeries(c)
  <2>1. Calmer(c) \in Calls /\ Calmer(c).at = 1 /\ OnSeries(Calmer(c)) = OnSeries(c)
    BY <1>3, CalmerIs, CalmerFits
  <2>2. call'[p] = c \/ call'[p] = Calmer(c) BY <1>2 DEF Started
  <2>3. QED BY <1>3, <2>1, <2>2
<1>6. ReadyNext(call'[p])
  <2>1. ~Appending(call'[p]) /\ ~Numbering(call'[p]) BY <1>5 DEF Appending, Numbering
  <2>2. QED BY <2>1, NothingToBeReadyFor
<1>7. ASSUME NEW q \in Requests \ {p}
      PROVE  /\ ReadyNext(call'[q])
             /\ OnSeries(call'[q]) = OnSeries(call[q]) /\ (~call[q].alone => ~call'[q].alone)
             /\ OnSeries(call[q]) \cap OnSeries(c) # {} => ~call'[q].alone /\ ~call'[p].alone
  <2>1. /\ call'[q] = call[q] \/ (Fits(call[q]) /\ call'[q] = Calmer(call[q]))
        /\ OnSeries(call[q]) \cap OnSeries(c) # {} => call'[q] = Calmer(call[q]) /\ call'[p] = Calmer(c)
    BY <1>2 DEF Started
  <2>2. OnSeries(call[q]) # {} => Fits(call[q]) BY <1>1, IdleOrBusy
  <2>3. Fits(call[q]) => Calmer(call[q]).alone = FALSE /\ OnSeries(Calmer(call[q])) = OnSeries(call[q])
    <3>1. SUFFICES ASSUME Fits(call[q])
                   PROVE  Calmer(call[q]).alone = FALSE /\ OnSeries(Calmer(call[q])) = OnSeries(call[q])
      OBVIOUS
    <3>2. call[q] \in Calls BY <3>1 DEF Fits
    <3>3. QED BY <3>1, <3>2, CalmerIs, CalmerFits
  <2>4. Calmer(c).alone = FALSE BY <1>3, CalmerIs
  <2>5. ReadyNext(call'[q])
    <3>1. CASE call'[q] = call[q]
      <4>1. ReadyNow(call[q]) BY ReadyIs DEF OrderInv
      <4>2. ReadyNext(call[q]) BY <1>4, <4>1 DEF ReadyNow, ReadyNext
      <4>3. QED BY <3>1, <4>2
    <3>2. CASE Fits(call[q]) /\ call'[q] = Calmer(call[q])
      <4>1. ~Appending(call'[q]) /\ ~Numbering(call'[q]) BY <2>3, <3>2 DEF Appending, Numbering
      <4>2. QED BY <4>1, NothingToBeReadyFor
    <3>3. QED BY <2>1, <3>1, <3>2
  <2>6. QED BY <2>1, <2>2, <2>3, <2>4, <2>5
<1>8. AtEnd' /\ ByNow' /\ Listed' BY <1>6, <1>7, ReadyNextIs
<1>9. ASSUME NEW q \in Requests, NEW r \in Requests, q # r, OnSeries(call'[q]) \cap OnSeries(call'[r]) # {}
      PROVE  ~call'[q].alone /\ ~call'[r].alone
  <2>1. CASE q = p
    <3>1. OnSeries(call[r]) \cap OnSeries(c) # {} BY <1>5, <1>7, <1>9, <2>1
    <3>2. QED BY <1>7, <1>9, <2>1, <3>1
  <2>2. CASE r = p
    <3>1. OnSeries(call[q]) \cap OnSeries(c) # {} BY <1>5, <1>7, <1>9, <2>2
    <3>2. QED BY <1>7, <1>9, <2>2, <3>1
  <2>3. CASE q # p /\ r # p
    <3>1. OnSeries(call[q]) \cap OnSeries(call[r]) # {} BY <1>7, <1>9, <2>3
    <3>2. ~call[q].alone /\ ~call[r].alone BY <1>1, <1>9, <3>1 DEF Apart
    <3>3. QED BY <1>7, <2>3, <3>2
  <2>4. QED BY <2>1, <2>2, <2>3
<1>10. Apart' BY <1>9 DEF Apart, OnSeries
<1>11. OrderAsAsked' BY <1>4 DEF OrderInv, OrderAsAsked
<1>12. ByHand' BY <1>4, SameHand DEF OrderInv
<1>13. QED BY <1>8, <1>10, <1>11, <1>12 DEF OrderInv

LEMMA CreateOrder ==
  ASSUME OrderInv, Typed', NEW p \in Requests, Create(p) PROVE OrderInv'
<1> DEFINE c == call[p]
<1>1. Typed /\ CallsOk /\ TablesOk BY DEF OrderInv, Typed
<1>2. Step(p) = "create" /\ Step(p) # None BY NoneIsOther DEF Create
<1>3. /\ Fits(c) /\ c \in Calls /\ c.at < Len(Steps[c.op])
      /\ (c.op \in {"upload", "dropInTag"} /\ c.at = 1) \/ (c.op = "dropInSeries" /\ c.at = 2)
  BY <1>1, <1>2, InCall
<1>4. PICK f \in Files : files[f] = "new" /\ files' = [files EXCEPT ![f] = "there"] /\ Goes(p, Holding(c, f))
  BY DEF Create, Holding
<1>5. UNCHANGED <<order, asked, series, sort, arranged>> BY DEF Create, history
<1>6. \A q \in Requests \ {p} : call'[q] = call[q] BY <1>1, <1>4, OthersGo
<1>7. \A g \in Files : files[g] = "gone" => files'[g] = "gone" BY <1>1, <1>4 DEF TablesOk
<1> DEFINE d == Holding(c, f)
<1>8. /\ d \in Calls /\ d.op = c.op /\ d.at = c.at /\ d.to = c.to /\ d.from = c.from /\ d.place = c.place
      /\ d.alone = c.alone
  BY <1>3, HoldingIs
<1>9. Goes(p, d) BY <1>4
<1> HIDE DEF d, c
<1>10. d.at \in DOMAIN Steps[d.op] /\ d.at < Len(Steps[d.op]) BY <1>3, <1>8 DEF Fits
<1>11. /\ Follows(c, call'[p]) /\ call'[p].op = c.op /\ call'[p].to = c.to /\ call'[p].place = c.place
       /\ call'[p].alone = c.alone /\ call'[p].at = d.at + 1
  BY <1>1, <1>8, <1>9, <1>10, NextFollows DEF c
<1>12. ReadyNext(call'[p])
  <2>1. c.op # "dropInSeries" => ~Appending(call'[p]) BY <1>3, <1>11 DEF Appending
  <2>2. ~Numbering(call'[p]) BY <1>3, <1>11 DEF Numbering
  <2>3. Appending(call'[p]) => Appending(c) BY <1>3, <1>11, <2>1 DEF Appending
  <2>4. ReadyNow(c) BY ReadyIs DEF OrderInv, c
  <2>5. QED BY <1>5, <1>11, <2>2, <2>3, <2>4 DEF ReadyNow, ReadyNext, Ready
<1>13. ByHand' BY <1>5, SameHand DEF OrderInv
<1>14. QED BY <1>5, <1>6, <1>7, <1>11, <1>12, <1>13, QuietCallOrder DEF c

LEMMA OtherCallsOrder ==
  ASSUME OrderInv, Typed', NEW p \in Requests, AddOwner(p) \/ Attach(p) \/ Detach(p) PROVE OrderInv'
<1> DEFINE c == call[p]
<1>1. Typed /\ CallsOk BY DEF OrderInv, Typed
<1>2. Step(p) \in {"owner", "attach", "detach"} /\ Step(p) # None
  BY NoneIsOther DEF AddOwner, Attach, Detach
<1>3. /\ Fits(c) /\ c \in Calls
      /\ c.op \in {"dropInTag", "retag", "untag"} \/ ~(c.at < Len(Steps[c.op]))
  BY <1>1, <1>2, InCall
<1>4. UNCHANGED <<order, asked, series, sort, arranged, files>>
  BY DEF AddOwner, Attach, Detach, history
<1>5. Goes(p, c) \/ Stop(p) \/ (Step(p) = "attach" /\ call' = [call EXCEPT ![p] = Left(c, Tail(c.todo))])
  <2>1. call' = [call EXCEPT ![p].todo = Tail(@)] => call' = [call EXCEPT ![p] = Left(c, Tail(c.todo))]
    BY DEF Left
  <2>2. QED BY <2>1 DEF AddOwner, Attach, Detach, Vanished
<1>6. \A q \in Requests \ {p} : call'[q] = call[q] BY <1>1, <1>5, OthersGo
<1>7. Follows(c, call'[p]) /\ ~Appending(call'[p]) /\ ~Numbering(call'[p])
  <2>1. CASE Goes(p, c)
    <3> HIDE DEF c
    <3>1. c.at \in DOMAIN Steps[c.op] BY <1>3 DEF Fits
    <3>2. /\ Follows(c, call'[p])
          /\ c.at < Len(Steps[c.op]) => call'[p].op = c.op
          /\ ~(c.at < Len(Steps[c.op])) => call'[p] = Idle
      BY <1>1, <1>3, <2>1, <3>1, NextFollows DEF c
    <3>3. QED BY <1>3, <3>2, IdleReady DEF Appending, Numbering
  <2>2. CASE Stop(p)
    <3>1. call'[p] = Idle BY <1>1, <2>2 DEF Stop, CallsOk
    <3>2. QED BY <3>1, IdleReady DEF Follows
  <2>3. CASE Step(p) = "attach" /\ call' = [call EXCEPT ![p] = Left(c, Tail(c.todo))]
    <3>1. c.op \in {"dropInTag", "retag"} BY <1>1, <1>2, <2>3, InCall
    <3>2. call'[p] = Left(c, Tail(c.todo)) BY <1>1, <2>3 DEF CallsOk
    <3>3. call'[p].op = c.op /\ call'[p].to = c.to /\ call'[p].from = c.from /\ call'[p].alone = c.alone
      BY <1>3, <3>2 DEF Left, Calls
    <3>4. QED BY <3>1, <3>3 DEF Follows, Appending, Numbering
  <2>4. QED BY <1>5, <2>1, <2>2, <2>3
<1>8. ReadyNext(call'[p]) BY <1>7, NothingToBeReadyFor
<1>9. ByHand' BY <1>4, SameHand DEF OrderInv
<1>10. QED BY <1>4, <1>6, <1>7, <1>8, <1>9, QuietCallOrder

LEMMA FindLastOrder ==
  ASSUME OrderInv, Typed', NEW p \in Requests, FindLast(p) PROVE OrderInv'
<1> DEFINE c == call[p]
<1>1. Typed /\ CallsOk /\ TablesOk BY DEF OrderInv, Typed
<1>2. Step(p) = "last" /\ Step(p) # None BY NoneIsOther DEF FindLast
<1>3. /\ Fits(c) /\ c \in Calls /\ c.to \in Series /\ c.op \in {"dropInSeries", "add"} /\ c.at = 1
      /\ c.at < Len(Steps[c.op])
  BY <1>1, <1>2, InCall
<1> DEFINE n == LastPlace(c.to, c.op)
           d == Placed(c, n)
<1>4. Goes(p, d) BY DEF FindLast, Placed, LastPlace
<1>5. n \in Nat /\ \A g \in Files : order[c.to][g] < n BY <1>1, <1>3, LastPlaceIs
<1> HIDE DEF n, c
<1>6. /\ d \in Calls /\ d.op = c.op /\ d.at = c.at /\ d.from = c.from /\ d.to = c.to /\ d.place = n
      /\ d.alone = c.alone
  BY <1>3, <1>5, PlacedIs
<1> HIDE DEF d
<1>7. d.at \in DOMAIN Steps[d.op] /\ d.at < Len(Steps[d.op]) BY <1>3, <1>6 DEF Fits
<1>8. Follows(c, call'[p]) /\ call'[p].op = c.op /\ call'[p].to = c.to /\ call'[p].place = n
  BY <1>1, <1>4, <1>6, <1>7, NextFollows DEF c
<1>9. UNCHANGED <<order, asked, series, sort, arranged, files>> BY DEF FindLast, tables, history
<1>10. ReadyNext(call'[p])
  <2>1. ~Numbering(call'[p]) BY <1>3, <1>8 DEF Numbering
  <2>2. QED BY <1>5, <1>8, <1>9, <2>1 DEF ReadyNext, Ready
<1>11. \A q \in Requests \ {p} : call'[q] = call[q] BY <1>1, <1>4, OthersGo
<1>12. ByHand' BY <1>9, SameHand DEF OrderInv
<1>13. QED BY <1>8, <1>9, <1>10, <1>11, <1>12, QuietCallOrder DEF c

LEMMA ListMembersOrder ==
  ASSUME OrderInv, Typed', NEW p \in Requests, ListMembers(p) PROVE OrderInv'
<1> DEFINE c == call[p]
<1>1. Typed /\ CallsOk /\ TablesOk BY DEF OrderInv, Typed
<1>2. Step(p) = "members" /\ Step(p) # None BY NoneIsOther DEF ListMembers
<1>3. /\ Fits(c) /\ c \in Calls /\ c.to \in Series /\ c.op = "reorder" /\ c.at = 1
      /\ c.at < Len(Steps[c.op])
  BY <1>1, <1>2, InCall
<1> DEFINE d == Finding(c, Members(c.to))
<1>4. Goes(p, d) BY DEF ListMembers, Finding
<1>5. Members(c.to) \in SUBSET Files BY DEF Members
<1> HIDE DEF c
<1>6. /\ d \in Calls /\ d.op = c.op /\ d.at = c.at /\ d.from = c.from /\ d.to = c.to /\ d.place = 10
      /\ d.alone = c.alone /\ d.found = Members(c.to)
  BY <1>3, <1>5, FindingIs
<1> HIDE DEF d
<1>7. d.at \in DOMAIN Steps[d.op] /\ d.at < Len(Steps[d.op]) BY <1>3, <1>6 DEF Fits
<1>8. /\ Follows(c, call'[p]) /\ call'[p].op = c.op /\ call'[p].to = c.to /\ call'[p].place = 10
      /\ call'[p].found = Members(c.to)
  BY <1>1, <1>4, <1>6, <1>7, NextFollows DEF c
<1>9. UNCHANGED <<order, asked, series, sort, arranged, files>> BY DEF ListMembers, tables, history
<1>10. ReadyNext(call'[p])
  <2>1. ~Appending(call'[p]) BY <1>3, <1>8 DEF Appending
  <2>2. \A g \in Members(c.to) : order[c.to][g] # 0 BY DEF Members
  <2>3. QED BY <1>8, <1>9, <2>1, <2>2 DEF ReadyNext, Ready
<1>11. \A q \in Requests \ {p} : call'[q] = call[q] BY <1>1, <1>4, OthersGo
<1>12. ByHand' BY <1>9, SameHand DEF OrderInv
<1>13. QED BY <1>8, <1>9, <1>10, <1>11, <1>12, QuietCallOrder DEF c

LEMMA SetSortOrder ==
  ASSUME OrderInv, Typed', NEW p \in Requests, SetSort(p) PROVE OrderInv'
<1> DEFINE c == call[p]
<1>1. Typed /\ CallsOk /\ TablesOk /\ HistoryOk /\ ByHand BY DEF OrderInv, Typed
<1>2. Step(p) \in {"manual", "sort"} /\ Step(p) # None BY NoneIsOther DEF SetSort
<1>3. Fits(c) /\ c \in Calls /\ c.to \in Series /\ ~(c.at < Len(Steps[c.op])) BY <1>1, <1>2, InCall
<1>4. Goes(p, c) /\ UNCHANGED <<order, asked, series, files>> BY DEF SetSort
<1>5. ByHand'
  <2>1. PICK how \in IF Step(p) = "manual" THEN {"manual"} ELSE Sorts :
          sort' = IF series[c.to] = "there" THEN [sort EXCEPT ![c.to] = how] ELSE sort
    BY DEF SetSort
  <2>2. sort \in [Series -> Sorts] /\ arranged \subseteq Series BY <1>1 DEF TablesOk, HistoryOk
  <2>3. arranged' \subseteq arranged \cup {c.to} /\ (Step(p) = "sort" => c.to \notin arranged')
    BY <1>2 DEF SetSort
  <2>4. Step(p) = "manual" => how = "manual" BY <2>1
  <2> HIDE DEF c
  <2>5. ASSUME NEW s \in arranged' PROVE sort'[s] = "manual" \/ series'[s] # "there"
    <3>1. CASE s = c.to
      <4>1. Step(p) = "manual" BY <1>2, <2>3, <3>1
      <4>2. QED BY <1>3, <1>4, <2>1, <2>2, <2>4, <3>1, <4>1
    <3>2. CASE s # c.to
      <4>1. s \in arranged /\ s \in Series BY <2>2, <2>3, <3>2
      <4>2. sort[s] = "manual" \/ series[s] # "there" BY <1>1, <4>1 DEF ByHand
      <4>3. sort'[s] = sort[s] BY <1>3, <2>1, <2>2, <3>2, <4>1
      <4>4. QED BY <1>4, <4>2, <4>3
    <3>3. QED BY <3>1, <3>2
  <2>6. QED BY <2>5 DEF ByHand
<1>6. \A q \in Requests \ {p} : call'[q] = call[q] BY <1>1, <1>4, OthersGo
<1>7. call'[p] = Idle BY <1>1, <1>3, <1>4, GoesIs
<1>8. ReadyNext(call'[p]) BY <1>7, IdleReady, NothingToBeReadyFor
<1>9. Follows(call[p], call'[p]) BY <1>7 DEF Follows
<1>10. QED BY <1>4, <1>5, <1>6, <1>8, <1>9, QuietCallOrder

LEMMA NothingRises == ASSUME NEW key PROVE Rises(<<>>, key)
  BY DEF Rises

(* Taking a file off a sequence, and out of the series.                    *)
LEMMA WithoutRises ==
  ASSUME NEW q \in Seq(Files), NEW f, NEW key \in [Files -> Nat], NEW other,
         Rises(q, key), \A g \in Files : g # f => other[g] = key[g]
  PROVE  /\ Without(q, f) \in Seq(Files) /\ Rises(Without(q, f), other)
         /\ \A i \in DOMAIN Without(q, f) : Without(q, f)[i] # f /\ Without(q, f)[i] \in Files
                                            /\ \E k \in DOMAIN q : Without(q, f)[i] = q[k]
<1>1. PICK w : w = Without(q, f) OBVIOUS
<1>2. /\ w \in Seq(Files) /\ Rises(w, key) /\ \A i \in DOMAIN w : w[i] # f
      /\ \A i \in DOMAIN w : \E k \in DOMAIN q : w[i] = q[k]
  BY <1>1, WithoutIs
<1>3. \A i \in DOMAIN w : w[i] \in Files BY <1>2
<1>4. \A i \in DOMAIN w : other[w[i]] = key[w[i]] BY <1>2, <1>3
<1>5. Rises(w, other) BY <1>2, <1>4, RisesElsewhere
<1>6. QED BY <1>1, <1>2, <1>3, <1>5

LEMMA JoinSeriesOrder ==
  ASSUME OrderInv, Typed', NEW p \in Requests, JoinSeries(p) PROVE OrderInv'
<1>1. Typed /\ CallsOk /\ TablesOk /\ HistoryOk BY DEF OrderInv, Typed
<1>2. Step(p) = "join" /\ Step(p) # None BY NoneIsOther DEF JoinSeries
<1>3. PICK c : c = call[p] OBVIOUS
<1>4. /\ Fits(c) /\ c \in Calls /\ c.file \in Files /\ c.to \in Series
      /\ \/ c.op = "number" /\ c.at = 1 /\ ~(c.at < Len(Steps[c.op]))
         \/ c.op \in {"add", "move"} /\ c.at = 2 /\ ~(c.at < Len(Steps[c.op]))
         \/ c.op = "dropInSeries" /\ c.at = 3 /\ c.at < Len(Steps[c.op])
  BY <1>1, <1>2, <1>3, InCall
<1>5. UNCHANGED <<series, sort, arranged, files>> BY DEF JoinSeries
<1>6. ByHand' BY <1>5, SameHand DEF OrderInv
<1>7. CASE Vanished(p) /\ UNCHANGED <<order, asked>>
  <2>1. \A q \in Requests \ {p} : call'[q] = call[q] BY <1>1, <1>7, OthersGo DEF Vanished
  <2>2. call'[p] = Idle BY <1>1, <1>7 DEF Vanished, Stop, CallsOk
  <2>3. ReadyNext(call'[p]) /\ Follows(call[p], call'[p])
    BY <2>2, IdleReady, NothingToBeReadyFor DEF Follows
  <2>4. QED BY <1>5, <1>6, <1>7, <2>1, <2>3, QuietCallOrder
<1>8. ASSUME /\ Putting(c.to, c.file, Place(c)) /\ Goes(p, c)
             /\ asked' = [asked EXCEPT ![c.to] = Appended(p, c.file, c.to)]
      PROVE  OrderInv'
  <2>1. \A q \in Requests \ {p} : call'[q] = call[q] BY <1>1, <1>8, OthersGo
  <2>2. c.at \in DOMAIN Steps[c.op] BY <1>4 DEF Fits
  <2>3. /\ Follows(c, call'[p])
        /\ c.at < Len(Steps[c.op]) => call'[p].op = c.op /\ call'[p].at = c.at + 1
        /\ ~(c.at < Len(Steps[c.op])) => call'[p] = Idle
    BY <1>1, <1>3, <1>4, <1>8, <2>2, NextFollows
  <2>4. ~Appending(call'[p]) /\ ~Numbering(call'[p])
    <3>1. CASE c.at < Len(Steps[c.op])
      <4>1. call'[p].op = "dropInSeries" /\ call'[p].at = 4 BY <1>4, <2>3, <3>1
      <4>2. QED BY <4>1 DEF Appending, Numbering
    <3>2. CASE ~(c.at < Len(Steps[c.op])) BY <2>3, <3>2, IdleReady
    <3>3. QED BY <3>1, <3>2
  <2>5. ReadyNext(call'[p]) BY <2>4, NothingToBeReadyFor
  <2>6. PICK s \in Series, f \in Files : s = c.to /\ f = c.file BY <1>4
  <2>7. PICK n \in Nat : n = Place(c) /\ (c.place # 0 => n = c.place) BY <1>4, PlaceIs
  <2>8. /\ order' \in [Series -> [Files -> Nat]] /\ order'[s][f] = n
        /\ \A g \in Files : g # f => order'[s][g] = order[s][g]
        /\ \A t \in Series : t # s => order'[t] = order[t]
    BY <1>1, <1>8, <2>6, <2>7, PuttingIs
  <2>9. asked \in [Series -> Seq(Files)] BY <1>1 DEF HistoryOk
  <2>10. asked'[s] = Appended(p, f, s) /\ \A t \in Series : t # s => asked'[t] = asked[t]
    BY <1>8, <2>6, <2>9
  <2>11. \A t \in Series : Rises(asked[t], order[t]) BY AskedIs DEF OrderInv
  <2>12. Rises(asked'[s], order'[s])
    <3>1. CASE c.alone /\ c.op \in {"add", "dropInSeries"}
      <4>1. Appending(c) BY <1>4, <3>1 DEF Appending
      <4>2. c.place >= 1 BY <1>4, <4>1, ReadyAt
      <4>3. PICK k \in Nat : k = c.place BY <1>4 DEF Calls
      <4>4. n = c.place BY <2>7, <4>2, <4>3
      <4>5. \A g \in Files : order[s][g] < n
        <5>1. ReadyNow(c) BY <1>3, ReadyIs DEF OrderInv
        <5>2. QED BY <2>6, <4>1, <4>4, <5>1 DEF ReadyNow, Ready
      <4>6. PICK w : w = Without(asked[s], f) OBVIOUS
      <4>7. order[s] \in [Files -> Nat] /\ order'[s] \in [Files -> Nat] /\ asked[s] \in Seq(Files)
        BY <1>1, <2>8, <2>9 DEF TablesOk
      <4>8. /\ w \in Seq(Files) /\ Rises(w, order'[s])
            /\ \A i \in DOMAIN w : w[i] # f /\ w[i] \in Files
        <5>1. Rises(asked[s], order[s]) /\ \A g \in Files : g # f => order'[s][g] = order[s][g]
          BY <2>8, <2>11
        <5>2. /\ Without(asked[s], f) \in Seq(Files) /\ Rises(Without(asked[s], f), order'[s])
              /\ \A i \in DOMAIN Without(asked[s], f) :
                   Without(asked[s], f)[i] # f /\ Without(asked[s], f)[i] \in Files
          BY <4>7, <5>1, WithoutRises
        <5>3. QED BY <4>6, <5>2
      <4>9. \A i \in DOMAIN w : order'[s][w[i]] < order'[s][f] BY <2>8, <4>5, <4>8
      <4>10. Rises(Append(w, f), order'[s]) BY <4>7, <4>8, <4>9, AppendRises
      <4>11. asked'[s] = Append(w, f) BY <1>3, <2>10, <3>1, <4>6 DEF Appended
      <4>12. QED BY <4>10, <4>11
    <3>2. CASE ~(c.alone /\ c.op \in {"add", "dropInSeries"})
      <4>1. asked'[s] = <<>> BY <1>3, <2>10, <3>2 DEF Appended
      <4>2. QED BY <4>1, NothingRises
    <3>3. QED BY <3>1, <3>2
  <2>13. \A t \in OnSeries(call[p]) : Rises(asked'[t], order'[t])
    <3>1. SUFFICES ASSUME NEW t \in Series PROVE Rises(asked'[t], order'[t]) BY DEF OnSeries
    <3>2. CASE t = s BY <2>12, <3>2
    <3>3. CASE t # s BY <2>8, <2>10, <2>11, <3>3
    <3>4. QED BY <3>2, <3>3
  <2>14. OnlyAt(p)
    <3>1. s \in OnSeries(call[p]) BY <1>3, <2>6 DEF OnSeries
    <3>2. QED BY <1>5, <2>1, <2>8, <2>10, <3>1 DEF OnlyAt
  <2>15. Follows(call[p], call'[p]) BY <1>3, <2>3
  <2>16. QED BY <1>6, <2>5, <2>13, <2>14, <2>15, CallOrder
<1>9. QED BY <1>3, <1>7, <1>8 DEF JoinSeries, Putting

LEMMA LeaveSeriesOrder ==
  ASSUME OrderInv, Typed', NEW p \in Requests, LeaveSeries(p) PROVE OrderInv'
<1>1. Typed /\ CallsOk /\ TablesOk /\ HistoryOk BY DEF OrderInv, Typed
<1>2. Step(p) = "leave" /\ Step(p) # None BY NoneIsOther DEF LeaveSeries
<1>3. PICK c : c = call[p] OBVIOUS
<1>4. Fits(c) /\ c \in Calls /\ c.file \in Files /\ c.from \in Series /\ c.op \in {"remove", "move"}
  BY <1>1, <1>2, <1>3, InCall
<1>5. UNCHANGED <<series, sort, arranged, files>> BY DEF LeaveSeries
<1>6. ByHand' BY <1>5, SameHand DEF OrderInv
<1>7. /\ Putting(c.from, c.file, 0) /\ Goes(p, c)
      /\ asked' = [asked EXCEPT ![c.from] = Without(asked[c.from], c.file)]
  BY <1>3 DEF LeaveSeries, Putting
<1>8. \A q \in Requests \ {p} : call'[q] = call[q] BY <1>1, <1>7, OthersGo
<1>9. c.at \in DOMAIN Steps[c.op] BY <1>4 DEF Fits
<1>10. /\ Follows(c, call'[p])
       /\ c.at < Len(Steps[c.op]) => call'[p].op = c.op
       /\ ~(c.at < Len(Steps[c.op])) => call'[p] = Idle
  BY <1>1, <1>3, <1>4, <1>7, <1>9, NextFollows
<1>11. ~Appending(call'[p]) /\ ~Numbering(call'[p])
  BY <1>4, <1>10, IdleReady DEF Appending, Numbering
<1>12. ReadyNext(call'[p]) BY <1>11, NothingToBeReadyFor
<1>13. PICK s \in Series, f \in Files : s = c.from /\ f = c.file BY <1>4
<1>14. /\ order' \in [Series -> [Files -> Nat]]
       /\ \A g \in Files : g # f => order'[s][g] = order[s][g]
       /\ \A t \in Series : t # s => order'[t] = order[t]
  BY <1>1, <1>7, <1>13, PuttingIs
<1>15. asked \in [Series -> Seq(Files)] /\ order[s] \in [Files -> Nat] BY <1>1 DEF HistoryOk, TablesOk
<1>16. asked'[s] = Without(asked[s], f) /\ \A t \in Series : t # s => asked'[t] = asked[t]
  BY <1>7, <1>13, <1>15
<1>17. \A t \in Series : Rises(asked[t], order[t]) BY AskedIs DEF OrderInv
<1>18. Rises(asked'[s], order'[s])
  <2>1. asked[s] \in Seq(Files) /\ Rises(asked[s], order[s]) BY <1>15, <1>17
  <2>2. Rises(Without(asked[s], f), order'[s]) BY <1>14, <1>15, <2>1, WithoutRises
  <2>3. QED BY <1>16, <2>2
<1>19. \A t \in OnSeries(call[p]) : Rises(asked'[t], order'[t])
  <2>1. SUFFICES ASSUME NEW t \in Series PROVE Rises(asked'[t], order'[t]) BY DEF OnSeries
  <2>2. CASE t = s BY <1>18, <2>2
  <2>3. CASE t # s BY <1>14, <1>16, <1>17, <2>3
  <2>4. QED BY <2>2, <2>3
<1>20. OnlyAt(p)
  <2>1. s \in OnSeries(call[p]) BY <1>3, <1>13 DEF OnSeries
  <2>2. QED BY <1>5, <1>8, <1>14, <1>16, <2>1 DEF OnlyAt
<1>21. Follows(call[p], call'[p]) BY <1>3, <1>10
<1>22. QED BY <1>6, <1>12, <1>19, <1>20, <1>21, CallOrder

(* The files left after the one taken are others of the same sequence.      *)
LEMMA LeftAfter ==
  \A q \in Seq(Files) : \A i \in DOMAIN q : Distinct(q) =>
    \A j \in DOMAIN SubSeq(q, i + 1, Len(q)) :
      SubSeq(q, i + 1, Len(q))[j] # q[i] /\ \E k \in DOMAIN q : SubSeq(q, i + 1, Len(q))[j] = q[k]
<1>1. SUFFICES ASSUME NEW q \in Seq(Files), NEW i \in DOMAIN q, Distinct(q)
               PROVE  \A j \in DOMAIN SubSeq(q, i + 1, Len(q)) :
                        /\ SubSeq(q, i + 1, Len(q))[j] # q[i]
                        /\ \E k \in DOMAIN q : SubSeq(q, i + 1, Len(q))[j] = q[k]
  OBVIOUS
<1>2. /\ \A j \in DOMAIN SubSeq(q, i + 1, Len(q)) :
           i + j \in DOMAIN q /\ SubSeq(q, i + 1, Len(q))[j] = q[i + j]
      /\ Distinct(q) => Distinct(SubSeq(q, i + 1, Len(q)))
                        /\ \A j \in DOMAIN SubSeq(q, i + 1, Len(q)) : SubSeq(q, i + 1, Len(q))[j] # q[i]
  BY RestIs
<1>3. QED BY <1>1, <1>2

(* One file of a new order: it comes after those that have their numbers.  *)
LEMMA NumbersOrder ==
  ASSUME OrderInv, Typed', NEW p \in Requests, Step(p) = "renumber", NEW i, Numbers(p, i),
         UNCHANGED <<files, series, sort, arranged>>
  PROVE  OrderInv'
<1>1. Typed /\ CallsOk /\ TablesOk /\ HistoryOk BY DEF OrderInv, Typed
<1>2. Step(p) # None BY NoneIsOther
<1>3. PICK c : c = call[p] OBVIOUS
<1>4. /\ Fits(c) /\ c \in Calls /\ c.to \in Series /\ c.op = "reorder" /\ c.at = 2
      /\ c.todo \in Seq(Files) /\ Distinct(c.todo) /\ c.place >= 10
  BY <1>1, <1>2, <1>3, InCall
<1>5. /\ i \in DOMAIN c.todo /\ c.todo[i] \in c.found /\ Putting(c.to, c.todo[i], c.place)
      /\ call' = [call EXCEPT ![p] = Passed(c, SubSeq(c.todo, i + 1, Len(c.todo)), c.place + 10)]
      /\ asked' = [asked EXCEPT ![c.to] =
           IF ~c.alone THEN <<>> ELSE IF c.place = 10 THEN <<c.todo[i]>> ELSE Append(@, c.todo[i])]
  BY <1>3 DEF Numbers
<1>6. ByHand' BY SameHand DEF OrderInv
<1>7. \A q \in Requests \ {p} : call'[q] = call[q] BY <1>1, <1>5, OthersGo
<1>8. PICK s \in Series, f \in Files : s = c.to /\ f = c.todo[i] BY <1>4, <1>5
<1>9. PICK n \in Nat : n = c.place /\ n >= 10 BY <1>4 DEF Calls
<1>10. /\ order' \in [Series -> [Files -> Nat]] /\ order'[s][f] = n
       /\ \A g \in Files : g # f => order'[s][g] = order[s][g]
       /\ \A t \in Series : t # s => order'[t] = order[t]
  BY <1>1, <1>5, <1>8, <1>9, PuttingIs
<1>11. asked \in [Series -> Seq(Files)] /\ order[s] \in [Files -> Nat] BY <1>1 DEF HistoryOk, TablesOk
<1>12. PICK q \in Seq(Files) : q = asked[s] BY <1>11
<1>13. /\ asked'[s] = (IF ~c.alone THEN <<>> ELSE IF c.place = 10 THEN <<f>> ELSE Append(q, f))
       /\ \A t \in Series : t # s => asked'[t] = asked[t]
  BY <1>5, <1>8, <1>11, <1>12
<1>14. PICK d : d = call'[p] OBVIOUS
<1>15. PICK r : r = SubSeq(c.todo, i + 1, Len(c.todo)) OBVIOUS
<1>16. /\ d.op = c.op /\ d.at = c.at /\ d.from = c.from /\ d.to = c.to /\ d.found = c.found
       /\ d.alone = c.alone /\ d.place = n + 10 /\ d.todo = r
  <2>1. d = Passed(c, SubSeq(c.todo, i + 1, Len(c.todo)), c.place + 10) BY <1>1, <1>5, <1>14 DEF CallsOk
  <2>2. QED BY <1>4, <1>5, <1>9, <1>15, <2>1, PassedFits
<1>17. \A j \in DOMAIN r : r[j] # f /\ \E k \in DOMAIN c.todo : r[j] = c.todo[k]
  <2>1. c.todo \in Seq(Files) /\ i \in DOMAIN c.todo /\ Distinct(c.todo) BY <1>4, <1>5
  <2>2. \A j \in DOMAIN SubSeq(c.todo, i + 1, Len(c.todo)) :
          /\ SubSeq(c.todo, i + 1, Len(c.todo))[j] # c.todo[i]
          /\ \E k \in DOMAIN c.todo : SubSeq(c.todo, i + 1, Len(c.todo))[j] = c.todo[k]
    BY <2>1, LeftAfter
  <2>3. QED BY <1>8, <1>15, <2>2
<1>18. \A t \in Series : Rises(asked[t], order[t]) BY AskedIs DEF OrderInv
<1>19. c.alone =>
         /\ n = 10 \/ \A j \in DOMAIN q : order[s][q[j]] < n /\ \A k \in DOMAIN c.todo : c.todo[k] # q[j]
         /\ \A g \in c.found : order[s][g] # 0 \/ files[g] = "gone" \/ series[s] # "there"
  <2>1. ReadyNow(c) BY <1>3, ReadyIs DEF OrderInv
  <2>2. c.alone => Numbering(c) BY <1>4 DEF Numbering
  <2>3. QED BY <1>8, <1>9, <1>12, <2>1, <2>2 DEF ReadyNow, Ready
<1>20. Follows(call[p], call'[p]) BY <1>3, <1>14, <1>16 DEF Follows
<1>21. OnlyAt(p)
  <2>1. s \in OnSeries(call[p]) BY <1>3, <1>8 DEF OnSeries
  <2>2. QED BY <1>7, <1>10, <1>13, <2>1 DEF OnlyAt
<1>22. CASE ~c.alone
  <2>1. ~Appending(d) /\ ~Numbering(d) BY <1>16, <1>22 DEF Appending, Numbering
  <2>2. ReadyNext(d) BY <2>1, NothingToBeReadyFor
  <2>3. Rises(asked'[s], order'[s]) BY <1>13, <1>22, NothingRises
  <2>4. \A t \in OnSeries(call[p]) : Rises(asked'[t], order'[t])
    <3>1. SUFFICES ASSUME NEW t \in Series PROVE Rises(asked'[t], order'[t]) BY DEF OnSeries
    <3>2. CASE t = s BY <2>3, <3>2
    <3>3. CASE t # s BY <1>10, <1>13, <1>18, <3>3
    <3>4. QED BY <3>2, <3>3
  <2>5. QED BY <1>6, <1>14, <1>20, <1>21, <2>2, <2>4, CallOrder
<1>23. CASE c.alone
  <2>1. PICK b \in Seq(Files) :
          /\ asked'[s] = Append(b, f)
          /\ \A j \in DOMAIN b : b[j] \in Files /\ b[j] # f /\ order'[s][b[j]] < n /\ \A k \in DOMAIN c.todo : c.todo[k] # b[j]
          /\ Rises(b, order'[s])
    <3>1. CASE n = 10
      <4>1. asked'[s] = Append(<<>>, f) /\ <<>> \in Seq(Files) /\ DOMAIN <<>> = {}
        BY <1>9, <1>13, <1>23, <3>1
      <4>2. Rises(<<>>, order'[s]) BY NothingRises
      <4>3. QED BY <4>1, <4>2
    <3>2. CASE n # 10
      <4>1. \A j \in DOMAIN q : order[s][q[j]] < n /\ q[j] # f /\ \A k \in DOMAIN c.todo : c.todo[k] # q[j]
        BY <1>5, <1>8, <1>19, <1>23, <3>2
      <4>2. \A j \in DOMAIN q : q[j] \in Files BY <1>12
      <4>3. \A j \in DOMAIN q : order'[s][q[j]] = order[s][q[j]] BY <1>10, <4>1, <4>2
      <4>4. Rises(q, order[s]) BY <1>12, <1>18
      <4>5. Rises(q, order'[s]) BY <4>3, <4>4, RisesElsewhere
      <4>6. asked'[s] = Append(q, f) BY <1>9, <1>13, <1>23, <3>2
      <4>7. QED BY <4>1, <4>2, <4>3, <4>5, <4>6
    <3>3. QED BY <3>1, <3>2
  <2>2. order'[s] \in [Files -> Nat] BY <1>10
  <2>3. \A j \in DOMAIN b : order'[s][b[j]] < order'[s][f] BY <1>10, <2>1
  <2>4. Rises(Append(b, f), order'[s]) BY <2>1, <2>2, <2>3, AppendRises
  <2>5. \A t \in OnSeries(call[p]) : Rises(asked'[t], order'[t])
    <3>1. SUFFICES ASSUME NEW t \in Series PROVE Rises(asked'[t], order'[t]) BY DEF OnSeries
    <3>2. CASE t = s BY <2>1, <2>4, <3>2
    <3>3. CASE t # s BY <1>10, <1>13, <1>18, <3>3
    <3>4. QED BY <3>2, <3>3
  <2>6. \A j \in DOMAIN asked'[s] :
          order'[s][asked'[s][j]] < n + 10 /\ \A k \in DOMAIN r : r[k] # asked'[s][j]
    <3>1. PICK m \in Nat : m = Len(b) OBVIOUS
    <3>2. /\ DOMAIN Append(b, f) = 1..(m + 1) /\ Append(b, f)[m + 1] = f /\ DOMAIN b = 1..m
          /\ \A j \in 1..m : Append(b, f)[j] = b[j]
      BY <3>1
    <3>3. SUFFICES ASSUME NEW j \in 1..(m + 1)
                   PROVE  order'[s][Append(b, f)[j]] < n + 10 /\ \A k \in DOMAIN r : r[k] # Append(b, f)[j]
      BY <2>1, <3>2
    <3>4. CASE j = m + 1
      <4>1. n < n + 10 BY <1>9
      <4>2. QED BY <1>10, <1>17, <3>2, <3>4, <4>1
    <3>5. CASE j # m + 1
      <4>1. j \in 1..m BY <3>5
      <4>2. Append(b, f)[j] = b[j] /\ b[j] \in Files BY <2>1, <3>2, <4>1
      <4>3. order'[s][b[j]] < n /\ \A k \in DOMAIN c.todo : c.todo[k] # b[j] BY <2>1, <3>2, <4>1
      <4>4. PICK o \in Nat : o = order'[s][b[j]] BY <2>2, <4>2
      <4>5. o < n + 10 BY <1>9, <4>3, <4>4
      <4>6. QED BY <1>17, <4>2, <4>3, <4>4, <4>5
    <3>6. QED BY <3>4, <3>5
  <2>7. \A g \in c.found : order'[s][g] # 0 \/ files'[g] = "gone" \/ series'[s] # "there"
    <3>1. c.found \subseteq Files BY <1>4 DEF Calls
    <3>2. n # 0 BY <1>9
    <3>3. QED BY <1>10, <1>19, <1>23, <3>1, <3>2
  <2>8. ReadyNext(d)
    <3>1. ~Appending(d) BY <1>4, <1>16 DEF Appending
    <3>2. QED BY <1>8, <1>16, <2>6, <2>7, <3>1 DEF ReadyNext, Ready
  <2>9. QED BY <1>6, <1>14, <1>20, <1>21, <2>5, <2>8, CallOrder
<1>24. QED BY <1>22, <1>23

LEMMA RenumberOrder ==
  ASSUME OrderInv, Typed', NEW p \in Requests, Renumber(p) PROVE OrderInv'
<1>1. Typed /\ CallsOk BY DEF OrderInv, Typed
<1>2. Step(p) = "renumber" /\ Step(p) # None BY NoneIsOther DEF Renumber
<1>3. PICK c : c = call[p] OBVIOUS
<1>4. Fits(c) /\ c \in Calls /\ c.op = "reorder" /\ c.at = 2 /\ c.at < Len(Steps[c.op])
  BY <1>1, <1>2, <1>3, InCall
<1>5. UNCHANGED <<files, series, sort, arranged>> BY <1>1, RenumberIs
<1>6. ByHand' BY <1>5, SameHand DEF OrderInv
<1>7. ASSUME Goes(p, c) \/ Stop(p), UNCHANGED <<order, asked>> PROVE OrderInv'
  <2>1. \A q \in Requests \ {p} : call'[q] = call[q] BY <1>1, <1>7, OthersGo
  <2>2. Follows(c, call'[p]) /\ ~Appending(call'[p]) /\ ~Numbering(call'[p])
    <3>1. CASE Goes(p, c)
      <4>1. c.at \in DOMAIN Steps[c.op] BY <1>4 DEF Fits
      <4>2. Follows(c, call'[p]) /\ call'[p].at = c.at + 1 /\ call'[p].op = c.op
        BY <1>1, <1>3, <1>4, <3>1, <4>1, NextFollows
      <4>3. call'[p].at = 3 BY <1>4, <4>2
      <4>4. QED BY <1>4, <4>2, <4>3 DEF Appending, Numbering
    <3>2. CASE Stop(p)
      <4>1. call'[p] = Idle BY <1>1, <3>2 DEF Stop, CallsOk
      <4>2. QED BY <4>1, IdleReady DEF Follows
    <3>3. QED BY <1>7, <3>1, <3>2
  <2>3. ReadyNext(call'[p]) BY <2>2, NothingToBeReadyFor
  <2>4. QED BY <1>3, <1>5, <1>6, <1>7, <2>1, <2>2, <2>3, QuietCallOrder
<1>8. ASSUME NEW i, Numbers(p, i) PROVE OrderInv' BY <1>2, <1>5, <1>8, NumbersOrder
<1>9. QED BY <1>1, <1>3, <1>7, <1>8, RenumberIs

-----------------------------------------------------------------------------
(* What happens to the order of a series without a request at it.          *)
LEMMA SameReady ==
  ASSUME OrderInv, \A p \in Requests : call'[p] = Idle \/ call'[p] = call[p],
         UNCHANGED <<order, asked, series, files>>
  PROVE  OrderAsAsked' /\ Apart' /\ AtEnd' /\ ByNow' /\ Listed'
<1>1. ASSUME NEW p \in Requests PROVE ReadyNext(call'[p])
  <2>1. CASE call'[p] = Idle BY <2>1, IdleReady, NothingToBeReadyFor
  <2>2. CASE call'[p] = call[p]
    <3>1. ReadyNow(call[p]) BY ReadyIs DEF OrderInv
    <3>2. ReadyNext(call[p]) BY <3>1 DEF ReadyNow, ReadyNext
    <3>3. QED BY <2>2, <3>2
  <2>3. QED BY <2>1, <2>2
<1>2. \A p \in Requests : Follows(call[p], call'[p]) BY DEF Follows
<1>3. Apart' BY <1>2, FollowsApart DEF OrderInv
<1>4. OrderAsAsked' BY DEF OrderInv, OrderAsAsked
<1>5. QED BY <1>1, <1>3, <1>4, ReadyNextIs

LEMMA CutOrder ==
  ASSUME OrderInv, Typed', NEW P \in SUBSET Requests, Cut(P) PROVE OrderInv'
<1>1. UNCHANGED <<order, asked, series, files, sort, arranged>> BY DEF Cut, tables
<1>2. \A p \in Requests : call'[p] = Idle \/ call'[p] = call[p] BY DEF Cut
<1>3. OrderAsAsked' /\ Apart' /\ AtEnd' /\ ByNow' /\ Listed' BY <1>1, <1>2, SameReady
<1>4. ByHand' BY <1>1, SameHand DEF OrderInv
<1>5. QED BY <1>3, <1>4 DEF OrderInv

LEMMA TagEndOrder ==
  ASSUME OrderInv, Typed', NEW t \in Tags, DeleteTag(t) \/ \E u \in Tags : MergeTags(t, u) PROVE OrderInv'
<1>1. UNCHANGED <<order, asked, series, files, sort, arranged, call>> BY DEF DeleteTag, MergeTags, history
<1>2. OrderAsAsked' /\ Apart' /\ AtEnd' /\ ByNow' /\ Listed' BY <1>1, SameReady
<1>3. ByHand' BY <1>1, SameHand DEF OrderInv
<1>4. QED BY <1>2, <1>3 DEF OrderInv

(* Files that go leave room: those that stay keep their places.            *)
LEMMA GoneReady ==
  ASSUME OrderInv, UNCHANGED call,
         \A s \in Series : \A g \in Files : order'[s][g] = 0 \/ order'[s][g] = order[s][g],
         \A s \in Series : \A i \in DOMAIN asked'[s] : \E k \in DOMAIN asked[s] :
           asked'[s][i] = asked[s][k] /\ order'[s][asked'[s][i]] = order[s][asked[s][k]],
         \A s \in Series : \A g \in Files :
           order'[s][g] = order[s][g] \/ files'[g] = "gone" \/ series'[s] # "there",
         \A g \in Files : files[g] = "gone" => files'[g] = "gone",
         \A s \in Series : series[s] # "there" => series'[s] # "there"
  PROVE  Apart' /\ AtEnd' /\ ByNow' /\ Listed'
<1>1. Typed /\ CallsOk BY DEF OrderInv, Typed
<1>2. ASSUME NEW p \in Requests PROVE ReadyNext(call'[p])
  <2>1. PICK c : c = call[p] OBVIOUS
  <2>2. CASE ~Appending(c) /\ ~Numbering(c) BY <2>1, <2>2, NothingToBeReadyFor
  <2>3. CASE Appending(c) \/ Numbering(c)
    <3>1. Fits(c) BY <1>1, <2>1, <2>3, IdleOrBusy, IdleReady
    <3>2. c.to \in Series /\ (Appending(c) => c.place >= 1) BY <2>3, <3>1, ReadyAt
    <3>3. c.place \in Nat /\ c.found \subseteq Files BY <3>1 DEF Fits, Calls
    <3>4. ReadyNow(c) BY <2>1, ReadyIs DEF OrderInv
    <3>5. Appending(c) => \A g \in Files : order'[c.to][g] < c.place
      <4>1. SUFFICES ASSUME Appending(c), NEW g \in Files PROVE order'[c.to][g] < c.place OBVIOUS
      <4>2. PICK n \in Nat : n = c.place /\ n >= 1 BY <3>2, <3>3, <4>1
      <4>3. order[c.to][g] < c.place BY <3>4, <4>1 DEF ReadyNow, Ready
      <4>4. CASE order'[c.to][g] = 0
        <5>1. 0 < n BY <4>2
        <5>2. QED BY <4>2, <4>4, <5>1
      <4>5. CASE order'[c.to][g] = order[c.to][g] BY <4>3, <4>5
      <4>6. QED BY <3>2, <4>4, <4>5
    <3>6. Numbering(c) =>
            /\ c.place = 10 \/ \A i \in DOMAIN asked'[c.to] :
                 /\ order'[c.to][asked'[c.to][i]] < c.place
                 /\ \A j \in DOMAIN c.todo : c.todo[j] # asked'[c.to][i]
            /\ \A g \in c.found : order'[c.to][g] # 0 \/ files'[g] = "gone" \/ series'[c.to] # "there"
      <4>1. SUFFICES ASSUME Numbering(c)
                     PROVE  /\ c.place = 10 \/ \A i \in DOMAIN asked'[c.to] :
                                 /\ order'[c.to][asked'[c.to][i]] < c.place
                                 /\ \A j \in DOMAIN c.todo : c.todo[j] # asked'[c.to][i]
                            /\ \A g \in c.found :
                                 order'[c.to][g] # 0 \/ files'[g] = "gone" \/ series'[c.to] # "there"
        OBVIOUS
      <4>2. PICK s \in Series : s = c.to BY <3>2
      <4>3. /\ c.place = 10 \/ \A k \in DOMAIN asked[s] :
                 order[s][asked[s][k]] < c.place /\ \A j \in DOMAIN c.todo : c.todo[j] # asked[s][k]
            /\ \A g \in c.found : order[s][g] # 0 \/ files[g] = "gone" \/ series[s] # "there"
        BY <3>4, <4>1, <4>2 DEF ReadyNow, Ready
      <4>4. ASSUME c.place # 10, NEW i \in DOMAIN asked'[s]
            PROVE  order'[s][asked'[s][i]] < c.place /\ \A j \in DOMAIN c.todo : c.todo[j] # asked'[s][i]
        <5>1. PICK k \in DOMAIN asked[s] :
                asked'[s][i] = asked[s][k] /\ order'[s][asked'[s][i]] = order[s][asked[s][k]]
          BY <4>4
        <5>2. QED BY <4>3, <4>4, <5>1
      <4>5. ASSUME NEW g \in c.found PROVE order'[s][g] # 0 \/ files'[g] = "gone" \/ series'[s] # "there"
        <5>1. g \in Files BY <3>3
        <5>2. order[s][g] # 0 \/ files[g] = "gone" \/ series[s] # "there" BY <4>3
        <5>3. QED BY <5>1, <5>2
      <4>6. QED BY <4>2, <4>4, <4>5
    <3>7. ReadyNext(c) BY <3>5, <3>6 DEF ReadyNext, Ready
    <3>8. QED BY <2>1, <3>7
  <2>4. QED BY <2>2, <2>3
<1>3. \A p \in Requests : Follows(call[p], call'[p]) BY DEF Follows
<1>4. Apart' BY <1>3, FollowsApart DEF OrderInv
<1>5. QED BY <1>2, <1>4, ReadyNextIs

LEMMA DeleteSeriesOrder ==
  ASSUME OrderInv, Typed', NEW s \in Series, DeleteSeries(s) PROVE OrderInv'
<1>1. Typed /\ TablesOk /\ HistoryOk BY DEF OrderInv, Typed
<1>2. /\ \A g \in Files : order'[s][g] = 0
      /\ \A t \in Series \ {s} : order'[t] = order[t] /\ series'[t] = series[t]
      /\ series'[s] = "gone"
  BY <1>1, DeleteSeriesIs
<1>3. asked \in [Series -> Seq(Files)] BY <1>1 DEF HistoryOk
<1>4. asked'[s] = <<>> /\ \A t \in Series \ {s} : asked'[t] = asked[t] BY <1>3 DEF DeleteSeries
<1>5. UNCHANGED <<call, files, sort>> /\ arranged' = arranged \ {s} BY DEF DeleteSeries
<1>6. \A t \in Series : Rises(asked[t], order[t]) BY AskedIs DEF OrderInv
<1>7. ASSUME NEW t \in Series PROVE Rises(asked'[t], order'[t])
  <2>1. CASE t = s BY <1>4, <2>1, NothingRises
  <2>2. CASE t # s BY <1>2, <1>4, <1>6, <2>2
  <2>3. QED BY <2>1, <2>2
<1>8. OrderAsAsked' BY <1>7, AskedNextIs
<1>9. \A t \in Series : \A g \in Files : order'[t][g] = 0 \/ order'[t][g] = order[t][g] BY <1>2
<1>10. ASSUME NEW t \in Series, NEW i \in DOMAIN asked'[t]
       PROVE  \E k \in DOMAIN asked[t] :
                asked'[t][i] = asked[t][k] /\ order'[t][asked'[t][i]] = order[t][asked[t][k]]
  <2>1. t # s BY <1>4, <1>10
  <2>2. QED BY <1>2, <1>4, <1>10, <2>1
<1>11. \A t \in Series : \A g \in Files :
         order'[t][g] = order[t][g] \/ files'[g] = "gone" \/ series'[t] # "there"
  BY <1>2
<1>12. \A t \in Series : series[t] # "there" => series'[t] # "there" BY <1>2
<1>13. Apart' /\ AtEnd' /\ ByNow' /\ Listed' BY <1>5, <1>9, <1>10, <1>11, <1>12, GoneReady
<1>14. ByHand'
  <2>1. arranged \subseteq Series BY <1>1 DEF HistoryOk
  <2>2. ASSUME NEW t \in arranged' PROVE sort'[t] = "manual" \/ series'[t] # "there"
    BY <1>2, <1>5, <2>1, <2>2 DEF OrderInv, ByHand
  <2>3. QED BY <2>2 DEF ByHand
<1>15. QED BY <1>8, <1>13, <1>14 DEF OrderInv

LEMMA PurgeOrder ==
  ASSUME OrderInv, Typed', NEW f \in Files, Purge(f) PROVE OrderInv'
<1>1. Typed /\ TablesOk /\ HistoryOk BY DEF OrderInv, Typed
<1>2. /\ \A s \in Series : order'[s][f] = 0
      /\ \A g \in Files \ {f} : files'[g] = files[g] /\ \A s \in Series : order'[s][g] = order[s][g]
      /\ files'[f] = "gone"
  BY <1>1, PurgeIs
<1>3. asked \in [Series -> Seq(Files)] /\ order \in [Series -> [Files -> Nat]]
  BY <1>1 DEF HistoryOk, TablesOk
<1>4. \A s \in Series : asked'[s] = Without(asked[s], f) BY DEF Purge
<1>5. UNCHANGED <<call, sort, series, arranged>> BY DEF Purge
<1>6. \A s \in Series : Rises(asked[s], order[s]) BY AskedIs DEF OrderInv
<1>7. ASSUME NEW s \in Series
      PROVE  /\ Rises(asked'[s], order'[s])
             /\ \A i \in DOMAIN asked'[s] :
                  /\ asked'[s][i] # f /\ asked'[s][i] \in Files
                  /\ \E k \in DOMAIN asked[s] : asked'[s][i] = asked[s][k]
  <2>1. asked[s] \in Seq(Files) /\ order[s] \in [Files -> Nat] /\ Rises(asked[s], order[s])
    BY <1>3, <1>6
  <2>2. \A g \in Files : g # f => order'[s][g] = order[s][g] BY <1>2
  <2>3. /\ Rises(Without(asked[s], f), order'[s])
        /\ \A i \in DOMAIN Without(asked[s], f) :
             /\ Without(asked[s], f)[i] # f /\ Without(asked[s], f)[i] \in Files
             /\ \E k \in DOMAIN asked[s] : Without(asked[s], f)[i] = asked[s][k]
    <3>1. /\ Without(asked[s], f) \in Seq(Files)
          /\ \A i \in DOMAIN Without(asked[s], f) : \E k \in DOMAIN asked[s] :
               Without(asked[s], f)[i] = asked[s][k]
          /\ \A key \in [Files -> Nat] : Rises(asked[s], key) =>
               /\ Rises(Without(asked[s], f), key)
               /\ \A i \in DOMAIN Without(asked[s], f) : Without(asked[s], f)[i] # f
      BY <2>1, WithoutIs
    <3>2. PICK w : w = Without(asked[s], f) OBVIOUS
    <3>3. \A i \in DOMAIN w : w[i] \in Files /\ w[i] # f BY <2>1, <3>1, <3>2
    <3>4. Rises(w, order[s]) BY <2>1, <3>1, <3>2
    <3>5. \A i \in DOMAIN w : order'[s][w[i]] = order[s][w[i]] BY <2>2, <3>3
    <3>6. Rises(w, order'[s]) BY <3>4, <3>5, RisesElsewhere
    <3>7. QED BY <3>1, <3>2, <3>3, <3>6
  <2>4. QED BY <1>4, <2>3
<1>8. OrderAsAsked' BY <1>7, AskedNextIs
<1>9. \A s \in Series : \A g \in Files : order'[s][g] = 0 \/ order'[s][g] = order[s][g] BY <1>2
<1>10. ASSUME NEW s \in Series, NEW i \in DOMAIN asked'[s]
       PROVE  \E k \in DOMAIN asked[s] :
                asked'[s][i] = asked[s][k] /\ order'[s][asked'[s][i]] = order[s][asked[s][k]]
  <2>1. PICK k \in DOMAIN asked[s] : asked'[s][i] = asked[s][k] BY <1>7
  <2>2. order'[s][asked'[s][i]] = order[s][asked'[s][i]] BY <1>2, <1>7
  <2>3. QED BY <2>1, <2>2
<1>11. \A s \in Series : \A g \in Files :
         order'[s][g] = order[s][g] \/ files'[g] = "gone" \/ series'[s] # "there"
  BY <1>2
<1>12. \A g \in Files : files[g] = "gone" => files'[g] = "gone" BY <1>2
<1>13. Apart' /\ AtEnd' /\ ByNow' /\ Listed' BY <1>5, <1>9, <1>10, <1>11, <1>12, GoneReady
<1>14. ByHand' BY <1>5, SameHand DEF OrderInv
<1>15. QED BY <1>8, <1>13, <1>14 DEF OrderInv

LEMMA StepOrder ==
  ASSUME OrderInv, [Next]_vars PROVE OrderInv'
<1>1. Typed' BY StepTyped DEF OrderInv
<1>2. ASSUME NEW p \in Requests, NEW op \in Arrivals, Start(p, op) PROVE OrderInv' BY <1>1, <1>2, StartOrder
<1>3. ASSUME NEW p \in Requests, Create(p) PROVE OrderInv' BY <1>1, <1>3, CreateOrder
<1>4. ASSUME NEW p \in Requests, AddOwner(p) \/ Attach(p) \/ Detach(p) PROVE OrderInv'
  BY <1>1, <1>4, OtherCallsOrder
<1>5. ASSUME NEW p \in Requests, FindLast(p) PROVE OrderInv' BY <1>1, <1>5, FindLastOrder
<1>6. ASSUME NEW p \in Requests, JoinSeries(p) PROVE OrderInv' BY <1>1, <1>6, JoinSeriesOrder
<1>7. ASSUME NEW p \in Requests, LeaveSeries(p) PROVE OrderInv' BY <1>1, <1>7, LeaveSeriesOrder
<1>8. ASSUME NEW p \in Requests, ListMembers(p) PROVE OrderInv' BY <1>1, <1>8, ListMembersOrder
<1>9. ASSUME NEW p \in Requests, Renumber(p) PROVE OrderInv' BY <1>1, <1>9, RenumberOrder
<1>10. ASSUME NEW p \in Requests, SetSort(p) PROVE OrderInv' BY <1>1, <1>10, SetSortOrder
<1>11. ASSUME NEW p \in Requests, Fails(p) PROVE OrderInv'
  <2>1. {p} \in SUBSET Requests /\ Cut({p}) BY <1>11 DEF Fails
  <2>2. QED BY <1>1, <2>1, CutOrder
<1>12. ASSUME Crash PROVE OrderInv'
  <2>1. Requests \in SUBSET Requests /\ Cut(Requests) BY <1>12 DEF Crash
  <2>2. QED BY <1>1, <2>1, CutOrder
<1>13. ASSUME NEW t \in Tags, DeleteTag(t) \/ \E u \in Tags : MergeTags(t, u) PROVE OrderInv'
  BY <1>1, <1>13, TagEndOrder
<1>14. ASSUME NEW s \in Series, DeleteSeries(s) PROVE OrderInv' BY <1>1, <1>14, DeleteSeriesOrder
<1>15. ASSUME NEW f \in Files, Purge(f) PROVE OrderInv' BY <1>1, <1>15, PurgeOrder
<1>16. ASSUME UNCHANGED vars PROVE OrderInv'
  <2>1. UNCHANGED <<order, asked, series, files, sort, arranged, call>> BY <1>16 DEF vars, tables, history
  <2>2. OrderAsAsked' /\ Apart' /\ AtEnd' /\ ByNow' /\ Listed' BY <2>1, SameReady
  <2>3. ByHand' BY <2>1, SameHand DEF OrderInv
  <2>4. QED BY <1>1, <2>2, <2>3 DEF OrderInv
<1>17. QED
  BY <1>2, <1>3, <1>4, <1>5, <1>6, <1>7, <1>8, <1>9, <1>10, <1>11, <1>12, <1>13, <1>14, <1>15, <1>16
  DEF Next

(* A list sorted by numbers shows the one with the smaller number first.   *)
LEMMA SmallerFirst ==
  ASSUME NEW S, NEW key, NEW q, Sorted(q, S, key), \A x \in S : key[x] \in Nat, IsFiniteSet(S),
         NEW k \in DOMAIN q, NEW l \in DOMAIN q, key[q[k]] < key[q[l]]
  PROVE  k < l
<1>1. PICK n \in Nat : n = Cardinality(S) BY FS_CardinalityType
<1>2. q \in [1..n -> S] /\ \A i, j \in 1..n : i < j => key[q[i]] <= key[q[j]] BY <1>1 DEF Sorted
<1>3. k \in 1..n /\ l \in 1..n BY <1>2
<1>4. q[k] \in S /\ q[l] \in S BY <1>2, <1>3
<1>5. PICK a \in Nat, b \in Nat : a = key[q[k]] /\ b = key[q[l]] BY <1>4
<1>6. a < b BY <1>5
<1>7. CASE l < k
  <2>1. b <= a BY <1>2, <1>3, <1>5, <1>7
  <2>2. QED BY <1>6, <2>1
<1>8. CASE l = k
  <2>1. a = b BY <1>5, <1>8
  <2>2. QED BY <1>6, <2>1
<1>9. QED BY <1>3, <1>7, <1>8

(* The list that is shown is sorted by the numbers of the series.          *)
LEMMA ShownAsAsked ==
  ASSUME OrderInv PROVE ReorderIsShown
<1>1. TablesOk /\ HistoryOk BY DEF OrderInv, Typed
<1>2. ASSUME NEW s \in arranged, NEW i \in DOMAIN asked[s], NEW j \in DOMAIN asked[s],
             NEW k \in DOMAIN Listing(s), NEW l \in DOMAIN Listing(s),
             i < j, Listing(s)[k] = asked[s][i], Listing(s)[l] = asked[s][j]
      PROVE  k < l
  <2>1. s \in Series BY <1>1 DEF HistoryOk
  <2>2. order[s] \in [Files -> Nat] BY <1>1, <2>1 DEF TablesOk
  <2>3. Members(s) \subseteq Files BY DEF Members
  <2>4. IsFiniteSet(Members(s)) BY <2>3, SmbViewsAssumption, FS_Subset
  <2>5. CASE sort[s] = "manual"
    <3>1. Listing(s) = InOrder(Members(s), order[s]) BY <2>5 DEF Listing
    <3>2. \A x \in Members(s) : order[s][x] \in Nat BY <2>2, <2>3
    <3>3. Sorted(InOrder(Members(s), order[s]), Members(s), order[s]) BY <2>4, <3>2, InOrderSorts
    <3>4. order[s][asked[s][i]] < order[s][asked[s][j]] BY <1>2, <2>1 DEF OrderInv, OrderAsAsked
    <3>5. PICK q : q = Listing(s) OBVIOUS
    <3>6. Sorted(q, Members(s), order[s]) BY <3>1, <3>3, <3>5
    <3>7. k \in DOMAIN q /\ l \in DOMAIN q /\ order[s][q[k]] < order[s][q[l]] BY <1>2, <3>4, <3>5
    <3>8. QED BY <2>4, <3>2, <3>6, <3>7, SmallerFirst
  <2>6. CASE series[s] # "there"
    <3>1. Members(s) = {} BY <1>1, <2>1, <2>6 DEF TablesOk
    <3>2. Cardinality({}) = 0 BY FS_EmptySet
    <3>3. PICK key : Listing(s) = InOrder({}, key) BY <3>1 DEF Listing
    <3>4. Sorted(InOrder({}, key), {}, key)
      <4>1. IsFiniteSet({}) /\ \A x \in {} : key[x] \in Nat BY FS_EmptySet
      <4>2. QED BY <4>1, InOrderSorts
    <3>5. Listing(s) \in [1..0 -> {}] BY <3>2, <3>3, <3>4 DEF Sorted
    <3>6. DOMAIN Listing(s) = {} BY <3>5
    <3>7. QED BY <3>6
  <2>7. QED BY <2>5, <2>6 DEF OrderInv, ByHand
<1>3. QED BY <1>2 DEF ReorderIsShown

(* The order of a series is the one asked for, as it is stored and as it   *)
(* is shown: reorders, additions at the end, moves and whatever else runs  *)
(* beside them (reorder_series_members, list_series_members_named).        *)
THEOREM OrderIsKept == Spec => []OrderKept
<1>1. Init => OrderInv BY InitOrder
<1>2. OrderInv /\ [Next]_vars => OrderInv' BY StepOrder
<1>3. OrderInv => OrderKept BY ShownAsAsked DEF OrderInv, OrderKept
<1>4. QED BY <1>1, <1>2, <1>3, PTL DEF Spec

-----------------------------------------------------------------------------
(* A reorder gives a number to whom it found a member and who, as nobody   *)
(* else was at the series, still is one.                                   *)
AddsNobody ==
  \A p \in Requests : Step(p) = "renumber" /\ call[p].alone /\ call'[p] # call[p]
    => \A f \in Files : order'[call[p].to][f] # 0 => order[call[p].to][f] # 0

LEMMA RenumberAddsNobody ==
  ASSUME OrderInv, NEW q \in Requests, Renumber(q) PROVE AddsNobody
<1>1. Typed /\ CallsOk /\ TablesOk BY DEF OrderInv, Typed
<1>2. CASE UNCHANGED order BY <1>2 DEF AddsNobody
<1>3. CASE \E i : Numbers(q, i)
  <2>1. PICK i : Numbers(q, i) BY <1>3
  <2>2. Step(q) = "renumber" /\ Step(q) # None BY NoneIsOther DEF Renumber
  <2>3. PICK c : c = call[q] OBVIOUS
  <2>4. /\ Fits(c) /\ c \in Calls /\ c.to \in Series /\ c.op = "reorder" /\ c.at = 2
        /\ c.todo \in Seq(Files) /\ c.place >= 10
    BY <1>1, <2>2, <2>3, InCall
  <2>5. /\ i \in DOMAIN c.todo /\ c.todo[i] \in c.found /\ Putting(c.to, c.todo[i], c.place)
        /\ files[c.todo[i]] = "there" /\ series[c.to] = "there"
        /\ call' = [call EXCEPT ![q] = Passed(c, SubSeq(c.todo, i + 1, Len(c.todo)), c.place + 10)]
    BY <2>1, <2>3 DEF Numbers
  <2>6. \A p \in Requests \ {q} : call'[p] = call[p] BY <1>1, <2>5, OthersGo
  <2>7. PICK s \in Series, f \in Files, n \in Nat : s = c.to /\ f = c.todo[i] /\ n = c.place
    BY <2>4, <2>5 DEF Calls
  <2>8. \A g \in Files : g # f => order'[s][g] = order[s][g] BY <1>1, <2>5, <2>7, PuttingIs
  <2>9. c.alone => order[s][f] # 0
    <3>1. Numbering(c) => FoundThere(c) BY <2>3 DEF OrderInv, Listed
    <3>2. QED BY <2>4, <2>5, <2>7, <3>1 DEF Numbering, FoundThere
  <2>10. QED BY <2>3, <2>6, <2>7, <2>8, <2>9 DEF AddsNobody
<1>4. QED BY <1>1, <1>2, <1>3, RenumberIs

LEMMA StepAddsNobody ==
  ASSUME OrderInv, [Next]_vars PROVE AddsNobody
<1>1. Typed /\ CallsOk /\ TablesOk BY DEF OrderInv, Typed
<1>2. \A p \in Requests : Step(p) = "renumber" => call[p].to \in Series
  <2>1. SUFFICES ASSUME NEW p \in Requests, Step(p) = "renumber" PROVE call[p].to \in Series OBVIOUS
  <2>2. PICK c : c = call[p] OBVIOUS
  <2>3. QED BY <1>1, <2>1, <2>2, NoneIsOther, InCall
<1>3. ASSUME \A s \in Series : \A f \in Files : order'[s][f] # 0 => order[s][f] # 0 PROVE AddsNobody
  BY <1>2, <1>3 DEF AddsNobody
<1>4. ASSUME UNCHANGED order PROVE AddsNobody BY <1>4 DEF AddsNobody
<1>5. ASSUME NEW p \in Requests, \E op \in Arrivals : Start(p, op) PROVE AddsNobody
  BY <1>4, <1>5 DEF Start, tables
<1>6. ASSUME NEW p \in Requests, Create(p) \/ AddOwner(p) \/ Attach(p) \/ Detach(p) \/ FindLast(p)
                                 \/ ListMembers(p) \/ SetSort(p)
      PROVE  AddsNobody
  BY <1>4, <1>6 DEF Create, AddOwner, Attach, Detach, FindLast, ListMembers, SetSort, tables
<1>7. ASSUME NEW p \in Requests, Renumber(p) PROVE AddsNobody BY <1>7, RenumberAddsNobody
<1>8. ASSUME NEW p \in Requests, JoinSeries(p) PROVE AddsNobody
  <2>1. Step(p) # "renumber" BY <1>8 DEF JoinSeries
  <2>2. Goes(p, call[p]) \/ Stop(p) BY <1>8 DEF JoinSeries, Vanished
  <2>3. \A q \in Requests \ {p} : call'[q] = call[q] BY <1>1, <2>2, OthersGo
  <2>4. QED BY <2>1, <2>3 DEF AddsNobody
<1>9. ASSUME NEW p \in Requests, LeaveSeries(p) PROVE AddsNobody
  <2>1. Step(p) # "renumber" BY <1>9 DEF LeaveSeries
  <2>2. Goes(p, call[p]) BY <1>9 DEF LeaveSeries
  <2>3. \A q \in Requests \ {p} : call'[q] = call[q] BY <1>1, <2>2, OthersGo
  <2>4. QED BY <2>1, <2>3 DEF AddsNobody
<1>10. ASSUME (\E p \in Requests : Fails(p)) \/ Crash PROVE AddsNobody
  BY <1>4, <1>10 DEF Fails, Crash, Cut, tables
<1>11. ASSUME NEW t \in Tags, DeleteTag(t) \/ \E u \in Tags : MergeTags(t, u) PROVE AddsNobody
  BY <1>4, <1>11 DEF DeleteTag, MergeTags
<1>12. ASSUME (\E s \in Series : DeleteSeries(s)) \/ \E f \in Files : Purge(f) PROVE AddsNobody
  <2>1. UNCHANGED call BY <1>12 DEF DeleteSeries, Purge
  <2>2. QED BY <2>1 DEF AddsNobody
<1>13. ASSUME UNCHANGED vars PROVE AddsNobody BY <1>4, <1>13 DEF vars, tables
<1>14. QED
  BY <1>5, <1>6, <1>7, <1>8, <1>9, <1>10, <1>11, <1>12, <1>13 DEF Next

(* A reorder makes nobody a member: as long as no other request has been   *)
(* at the series it numbers only those who are members at that moment      *)
(* (reorder_series_members).                                               *)
THEOREM ReordersAddNobody == Spec => ReorderAddsNobody
<1>1. Init => OrderInv BY InitOrder
<1>2. OrderInv /\ [Next]_vars => OrderInv' BY StepOrder
<1>3. OrderInv /\ [Next]_vars => [AddsNobody]_vars BY StepAddsNobody
<1>4. QED BY <1>1, <1>2, <1>3, PTL DEF Spec, ReorderAddsNobody, AddsNobody
=============================================================================
