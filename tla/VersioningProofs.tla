-------------------------- MODULE VersioningProofs --------------------------
(***************************************************************************)
(* That every version of a file can be had back, for any numbers of files, *)
(* contents, requests and commits: chains of delta bases never run in a    *)
(* circle, although forward and reverse deltas meet in them, and following *)
(* one back up gives what was committed.                                   *)
(*                                                                         *)
(* Link and Restore are recursive functions.  What is proved of them rests *)
(* on Induction, stated about sets of numbers, and on Recursion, that such *)
(* a function exists and meets its equation.                               *)
(***************************************************************************)
EXTENDS Versioning, FiniteSetTheorems, WellFoundedInduction, TLAPS

-----------------------------------------------------------------------------
(* Recursion over the numbers.                                             *)

Lower == {pair \in Nat \X Nat : pair[1] < pair[2]}

LEMMA Induction ==
  ASSUME NEW S \in SUBSET Nat, 0 \in S, \A n \in S : n + 1 \in S
  PROVE  S = Nat
<1>1. IsWellFoundedOn(Lower, Nat)
  BY NatLessThanWellFounded DEF OpToRel, Lower
<1>2. SUFFICES ASSUME Nat \ S # {} PROVE FALSE
  OBVIOUS
<1>3. PICK x \in Nat \ S : \A y \in Nat \ S : <<y, x>> \notin Lower
  <2>1. Nat \ S \in SUBSET Nat OBVIOUS
  <2>2. QED BY <1>1, <1>2, <2>1, WFMin
<1>4. x # 0 /\ x - 1 \in Nat /\ x - 1 < x /\ (x - 1) + 1 = x
  OBVIOUS
<1>5. x - 1 \in S
  BY <1>3, <1>4 DEF Lower
<1>6. x \in S
  BY <1>4, <1>5
<1>7. QED BY <1>6

(* f is what a recursive definition over 0..M asks for.                    *)
Iterates(f, M, S, a, G) ==
  f \in [0..M -> S] /\ f[0] = a /\ \A n \in 1..M : f[n] = G[<<n, f[n-1]>>]

LEMMA Recursion ==
  ASSUME NEW M \in Nat, NEW S, NEW a \in S, NEW G \in [Nat \X S -> S]
  PROVE  \E f : Iterates(f, M, S, a, G)
<1>. DEFINE Good(f, k) == f \in [0..k -> S] /\ f[0] = a /\ \A n \in 1..k : f[n] = G[<<n, f[n-1]>>]
            K == {k \in Nat : \E f : Good(f, k)}
<1>1. 0 \in K
  <2>1. Good([n \in 0..0 |-> a], 0) OBVIOUS
  <2>2. QED BY <2>1
<1>2. ASSUME NEW k \in K PROVE k + 1 \in K
  <2>1. PICK f : Good(f, k) BY <1>2
  <2>. DEFINE g == [n \in 0..(k + 1) |-> IF n = k + 1 THEN G[<<k + 1, f[k]>>] ELSE f[n]]
  <2>2. g \in [0..(k+1) -> S]
    <3>1. f[k] \in S BY <2>1
    <3>2. <<k+1, f[k]>> \in Nat \X S BY <3>1
    <3>3. G[<<k+1, f[k]>>] \in S BY <3>2
    <3>4. \A n \in 0..(k+1) : n # k + 1 => n \in 0..k OBVIOUS
    <3>5. QED BY <3>3, <3>4, <2>1
  <2>3. g[0] = a BY <2>1
  <2>4. ASSUME NEW n \in 1..(k+1) PROVE g[n] = G[<<n, g[n-1]>>]
    <3>1. CASE n = k + 1
      <4>1. n - 1 = k /\ n - 1 \in 0..(k+1) /\ n - 1 # k + 1 /\ n \in 0..(k+1) BY <3>1
      <4>2. g[n-1] = f[k] BY <4>1
      <4>3. g[n] = G[<<k + 1, f[k]>>] BY <3>1
      <4>4. QED BY <3>1, <4>2, <4>3
    <3>2. CASE n # k + 1
      <4>1. n \in 1..k /\ n \in 0..(k+1) /\ n - 1 \in 0..(k+1) /\ n - 1 # k + 1 BY <3>2
      <4>2. g[n] = f[n] /\ g[n-1] = f[n-1] BY <3>2, <4>1
      <4>3. QED BY <2>1, <4>1, <4>2
    <3>3. QED BY <3>1, <3>2
  <2>5. \E h : Good(h, k + 1)
    <3>. HIDE DEF g
    <3>1. QED BY <2>2, <2>3, <2>4
  <2>6. QED BY <2>5
<1>3. K = Nat
  <2>. HIDE DEF K
  <2>1. K \in SUBSET Nat BY DEF K
  <2>2. QED BY <1>1, <1>2, <2>1, Induction
<1>4. PICK f : Good(f, M)
  BY <1>3
<1>5. QED BY <1>4 DEF Iterates

(* Below an injection of 0..n into 1..n there is nothing.                  *)
LEMMA TooMany ==
  ASSUME NEW n \in Nat, NEW f \in [0..n -> 1..n]
  PROVE  \E a, b \in 0..n : a < b /\ f[a] = f[b]
<1>1. IsFiniteSet(1..n) /\ Cardinality(1..n) = n
  BY FS_Interval
<1>2. IsFiniteSet(0..n) /\ Cardinality(0..n) = n + 1
  BY FS_Interval
<1>3. PICK a, b \in 0..n : a # b /\ f[a] = f[b]
  <2>1. Cardinality(1..n) < Cardinality(0..n) BY <1>1, <1>2
  <2>2. QED BY <1>1, <1>2, <2>1, FS_PigeonHole
<1>4. QED BY <1>3

-----------------------------------------------------------------------------
(* Chains of delta bases.                                                  *)

LogTyped == log \in [Ids -> Maybe(Commit)]
BaseOf(x) == IF x = None \/ ~InLog(x) THEN None ELSE log[x].base

LEMMA IdsNumbers == Ids \subseteq Nat \ {0} /\ None \notin Ids /\ MaxCommits \in Nat
  BY VersioningAssumption, NoneAssumption DEF Ids

LEMMA LogRow ==
  ASSUME LogTyped, NEW i \in Ids, InLog(i)
  PROVE  log[i] \in Commit /\ log[i].base \in Maybe(Ids) /\ log[i].blob \in Blobs /\ log[i].file \in Files
  BY DEF LogTyped, InLog, Maybe, Commit

LEMMA LinkDef ==
  ASSUME LogTyped, NEW i \in Ids
  PROVE  /\ Link(i) \in [0..MaxCommits -> Maybe(Ids)]
         /\ Link(i)[0] = i
         /\ \A n \in 1..MaxCommits : Link(i)[n] = BaseOf(Link(i)[n-1])
<1>. DEFINE S == Maybe(Ids)
            G == [x \in Nat \X S |-> BaseOf(x[2])]
            Good(f) == f[0] = i /\ \A n \in 1..MaxCommits : f[n] = G[<<n, f[n-1]>>]
<1>1. G \in [Nat \X S -> S]
  <2>1. ASSUME NEW x \in Nat \X S PROVE BaseOf(x[2]) \in S
    BY LogRow DEF BaseOf, Maybe
  <2>2. QED BY <2>1
<1>2. PICK f \in [0..MaxCommits -> S] : Good(f)
  <2>. HIDE DEF G, S
  <2>1. i \in S BY DEF S, Maybe
  <2>2. PICK M \in Nat : M = MaxCommits BY IdsNumbers
  <2>3. PICK H, T : H = G /\ T = S OBVIOUS
  <2>4. H \in [Nat \X T -> T] /\ i \in T BY <1>1, <2>1, <2>3
  <2>5. PICK f : Iterates(f, M, T, i, H) BY <2>4, Recursion
  <2>6. QED BY <2>2, <2>3, <2>5 DEF Iterates
<1>3. \A n \in 1..MaxCommits : f[n] = BaseOf(f[n-1])
  <2>1. \A n \in 1..MaxCommits : n \in Nat /\ n - 1 \in 0..MaxCommits BY IdsNumbers
  <2>2. \A n \in 1..MaxCommits : <<n, f[n-1]>> \in Nat \X S BY <1>2, <2>1
  <2>3. QED BY <1>2, <2>2
<1>. DEFINE Body(g) == [n \in 0..MaxCommits |-> IF n = 0 THEN i
                          ELSE IF g[n-1] = None \/ ~InLog(g[n-1]) THEN None ELSE log[g[n-1]].base]
<1>4. f = Body(f)
  BY <1>2, <1>3, IdsNumbers DEF BaseOf
<1>5. Link(i) = Body(Link(i))
  BY <1>4 DEF Link
<1>. DEFINE L == Link(i)
<1>6. L[0] = i
  BY <1>5, IdsNumbers
<1>7. \A n \in 1..MaxCommits : L[n] = BaseOf(L[n-1])
  BY <1>5, IdsNumbers DEF BaseOf
<1>. HIDE DEF L
<1>8. \A n \in 0..MaxCommits : L[n] \in S
  <2>. DEFINE N == {n \in Nat : n \in 0..MaxCommits => L[n] \in S}
  <2>1. 0 \in N BY <1>6 DEF Maybe
  <2>2. ASSUME NEW n \in N PROVE n + 1 \in N
    <3>1. CASE n + 1 \in 0..MaxCommits
      <4>1. n \in 0..MaxCommits /\ n + 1 \in 1..MaxCommits /\ (n + 1) - 1 = n BY <3>1, IdsNumbers
      <4>2. L[n] \in S /\ L[n + 1] = BaseOf(L[n]) BY <1>7, <2>2, <4>1
      <4>3. L[n + 1] \in S BY <4>2, LogRow DEF BaseOf, Maybe
      <4>4. QED BY <4>3
    <3>2. QED BY <3>1
  <2>3. N = Nat
    <3>. HIDE DEF N
    <3>1. N \in SUBSET Nat BY DEF N
    <3>2. QED BY <2>1, <2>2, <3>1, Induction
  <2>4. QED BY <2>3, IdsNumbers
<1>9. L = [n \in 0..MaxCommits |-> L[n]]
  BY <1>5 DEF L
<1>10. QED BY <1>6, <1>7, <1>8, <1>9 DEF L
(* The content of a commit and the storage it has for it.  A commit falls  *)
(* when its base is older (a forward delta), climbs when it is newer (a    *)
(* compacted one).  What a commit climbs to does not fall: it came with a  *)
(* snapshot, and since then may only have been compacted itself.           *)
Falls(i) == log[i].base # None /\ log[i].base < i
Climbs(i) == log[i].base # None /\ log[i].base > i

Chained ==
  \A i \in Ids : InLog(i) =>
    /\ truth[i] \in Contents
    /\ log[i].base = None => log[i].blob = Full(truth[i])
    /\ log[i].base # None =>
         /\ InLog(log[i].base) /\ log[log[i].base].file = log[i].file
         /\ log[i].blob = Patch(truth[log[i].base], truth[i])
         /\ log[i].base # i
         /\ Climbs(i) => ~Falls(log[i].base)

(* Along a chain no commit comes twice: it falls, then it climbs, and what *)
(* it climbs over it did not fall through.                                 *)
LEMMA NeverTwice ==
  ASSUME LogTyped, Chained, NEW i \in Ids, InLog(i), NEW n \in 0..MaxCommits, Link(i)[n] # None
  PROVE  /\ InLog(Link(i)[n])
         /\ \A a \in 0..(n-1) : Link(i)[a] # None /\ Link(i)[a] # Link(i)[n]
<1>. DEFINE L == Link(i)
            Apart(m) ==
              L[m] # None =>
                /\ InLog(L[m])
                /\ \A a \in 0..(m-1) : /\ L[a] # None /\ InLog(L[a]) /\ L[a] # L[m]
                                       /\ log[L[a]].base # None
                                       /\ Falls(L[m]) => L[m] < L[a]
                                       /\ Climbs(L[a]) => L[a] < L[m]
            N == {m \in Nat : m \in 0..MaxCommits => Apart(m)}
<1>1. /\ L \in [0..MaxCommits -> Maybe(Ids)] /\ L[0] = i
      /\ \A m \in 1..MaxCommits : L[m] = BaseOf(L[m-1])
  BY LinkDef
<1>. HIDE DEF L
<1>2. 0 \in N
  BY <1>1
<1>3. ASSUME NEW m \in N PROVE m + 1 \in N
  <2>. SUFFICES ASSUME m + 1 \in 0..MaxCommits, L[m+1] # None PROVE Apart(m + 1)
    BY <1>3
  <2>. DEFINE x == L[m]
              y == L[m+1]
  <2>1. m \in 0..MaxCommits /\ m + 1 \in 1..MaxCommits /\ (m + 1) - 1 = m
    BY IdsNumbers
  <2>2. y = BaseOf(x)
    BY <1>1, <2>1
  <2>3. x # None /\ InLog(x) /\ y = log[x].base /\ x \in Ids /\ y \in Ids
    BY <1>1, <2>1, <2>2 DEF BaseOf, Maybe
  <2>4. Apart(m)
    BY <1>3, <2>1
  <2>5. InLog(y) /\ x # y /\ (Climbs(x) => ~Falls(y)) /\ x \in Nat /\ y \in Nat
    BY <2>3, IdsNumbers DEF Chained
  <2>6. Falls(x) \/ Climbs(x)
    BY <2>3, <2>5 DEF Falls, Climbs
  <2>7. Falls(y) => y < x
    BY <2>3, <2>5 DEF Falls, Climbs
  <2>8. Climbs(x) => x < y
    BY <2>3, <2>5 DEF Climbs
  <2>9. ASSUME NEW a \in 0..(m-1)
        PROVE  /\ L[a] # None /\ InLog(L[a]) /\ L[a] # y
               /\ log[L[a]].base # None
               /\ Falls(y) => y < L[a]
               /\ Climbs(L[a]) => L[a] < y
    <3>. DEFINE z == L[a]
    <3>1. /\ z # None /\ InLog(z) /\ z # x /\ log[z].base # None
          /\ Falls(x) => x < z
          /\ Climbs(z) => z < x
      BY <2>3, <2>4
    <3>2. z \in Ids /\ z \in Nat
      <4>1. a \in 0..MaxCommits BY <2>1, IdsNumbers
      <4>2. QED BY <1>1, <3>1, <4>1, IdsNumbers DEF Maybe
    <3>3. Falls(z) \/ Climbs(z)
      <4>1. PICK b \in Ids : log[z].base = b /\ b # z BY <3>1, <3>2, LogRow DEF Chained, Maybe
      <4>2. b \in Nat /\ (b < z \/ b > z) BY <3>2, <4>1, IdsNumbers
      <4>3. QED BY <3>1, <4>1, <4>2 DEF Falls, Climbs
    <3>. HIDE DEF x, y, z
    <3>4. CASE Falls(x)
      <4>1. y < x BY <2>3, <3>4 DEF Falls
      <4>2. QED BY <2>5, <3>1, <3>2, <3>4, <4>1 DEF z
    <3>5. CASE Climbs(x) /\ ~Falls(x)
      <4>1. x < y /\ ~Falls(y) BY <2>5, <2>8, <3>5
      <4>2. Climbs(z) => z < y BY <2>5, <3>1, <3>2, <4>1
      <4>3. z # y BY <2>5, <3>2, <3>3, <4>1, <4>2
      <4>4. QED BY <3>1, <4>1, <4>2, <4>3 DEF z
    <3>6. QED BY <2>6, <3>4, <3>5
  <2>10. ASSUME NEW a \in 0..m
         PROVE  /\ L[a] # None /\ InLog(L[a]) /\ L[a] # y
                /\ log[L[a]].base # None
                /\ Falls(y) => y < L[a]
                /\ Climbs(L[a]) => L[a] < y
    <3>1. CASE a = m BY <2>3, <2>5, <2>7, <2>8, <3>1
    <3>2. CASE a # m
      <4>1. a \in 0..(m-1) BY <3>2
      <4>2. QED BY <2>9, <4>1
    <3>3. QED BY <3>1, <3>2
  <2>11. QED BY <2>1, <2>5, <2>10
<1>4. N = Nat
  <2>. HIDE DEF N
  <2>1. N \in SUBSET Nat BY DEF N
  <2>2. QED BY <1>2, <1>3, <2>1, Induction
<1>5. Apart(n)
  BY <1>4, IdsNumbers
<1>6. QED BY <1>5 DEF L

(* So a chain ends: below its last commit, a snapshot, there is nothing.   *)
LEMMA ChainEnds ==
  ASSUME LogTyped, Chained, NEW i \in Ids, InLog(i)
  PROVE  \E d \in 0..(MaxCommits-1) :
           /\ Depth(i) = d
           /\ \A n \in 0..d : Link(i)[n] \in Ids /\ InLog(Link(i)[n])
           /\ log[Link(i)[d]].base = None
<1>. DEFINE L == Link(i)
<1>1. /\ L \in [0..MaxCommits -> Maybe(Ids)] /\ L[0] = i
      /\ \A m \in 1..MaxCommits : L[m] = BaseOf(L[m-1])
  BY LinkDef
<1>2. \E n \in 0..MaxCommits : L[n] = None
  <2>1. SUFFICES ASSUME \A n \in 0..MaxCommits : L[n] # None PROVE FALSE
    OBVIOUS
  <2>2. L \in [0..MaxCommits -> 1..MaxCommits]
    <3>. HIDE DEF L
    <3>1. \A n \in 0..MaxCommits : L[n] \in Ids BY <1>1, <2>1 DEF Maybe
    <3>2. QED BY <1>1, <3>1 DEF Ids
  <2>3. PICK f, M : f = L /\ M = MaxCommits OBVIOUS
  <2>4. f \in [0..M -> 1..M] /\ M \in Nat BY <2>2, <2>3, IdsNumbers
  <2>5. PICK a, b \in 0..M : a < b /\ f[a] = f[b] BY <2>4, TooMany
  <2>6. a \in 0..(b-1) /\ b \in 0..MaxCommits BY <2>3, <2>4, <2>5
  <2>7. L[a] # L[b] BY <2>1, <2>6, NeverTwice
  <2>8. QED BY <2>3, <2>5, <2>7
<1>3. PICK e \in 0..MaxCommits : L[e] = None /\ \A n \in 0..MaxCommits : n < e => L[n] # None
  <2>. DEFINE N == {n \in Nat : \A m \in 0..MaxCommits : m <= n => L[m] # None}
  <2>1. SUFFICES ASSUME \A e \in 0..MaxCommits : L[e] = None =>
                           \E n \in 0..MaxCommits : n < e /\ L[n] = None
                 PROVE FALSE
    BY <1>2
  <2>. HIDE DEF L
  <2>2. 0 \in N BY <1>1, IdsNumbers
  <2>3. ASSUME NEW n \in N PROVE n + 1 \in N
    <3>1. ASSUME NEW m \in 0..MaxCommits, m <= n + 1, L[m] = None PROVE FALSE
      <4>1. PICK k \in 0..MaxCommits : k < m /\ L[k] = None BY <2>1, <3>1
      <4>2. k <= n BY <3>1, <4>1, IdsNumbers
      <4>3. QED BY <2>3, <4>1, <4>2
    <3>2. QED BY <3>1
  <2>4. N = Nat
    <3>. HIDE DEF N
    <3>1. N \in SUBSET Nat BY DEF N
    <3>2. QED BY <2>2, <2>3, <3>1, Induction
  <2>5. QED BY <1>2, <2>4, IdsNumbers
<1>. DEFINE d == e - 1
<1>4. e # 0 /\ d \in 0..(MaxCommits-1) /\ d \in 0..MaxCommits /\ d < e /\ e \in 1..MaxCommits
  <2>1. i # None BY IdsNumbers
  <2>2. QED BY <1>1, <1>3, <2>1, IdsNumbers
<1>5. \A n \in 0..d : L[n] \in Ids /\ InLog(L[n])
  <2>1. TAKE n \in 0..d
  <2>2. n \in 0..MaxCommits /\ n < e BY <1>4, IdsNumbers
  <2>3. L[n] # None BY <1>3, <2>2
  <2>4. InLog(L[n]) BY <2>2, <2>3, NeverTwice
  <2>5. L[n] \in Maybe(Ids) BY <1>1, <2>2
  <2>6. QED BY <2>3, <2>4, <2>5 DEF Maybe
<1>6. log[L[d]].base = None
  <2>1. L[e] = BaseOf(L[d]) BY <1>1, <1>4
  <2>2. d \in 0..d BY <1>4
  <2>3. L[d] \in Ids /\ InLog(L[d]) BY <1>5, <2>2
  <2>4. L[d] # None BY <2>3, IdsNumbers
  <2>5. QED BY <1>3, <2>1, <2>3, <2>4 DEF BaseOf
<1>7. \A n \in 0..MaxCommits : n >= e => L[n] = None
  <2>. DEFINE N == {n \in Nat : n \in 0..MaxCommits /\ n >= e => L[n] = None}
  <2>. HIDE DEF L
  <2>1. 0 \in N BY <1>4
  <2>2. ASSUME NEW n \in N PROVE n + 1 \in N
    <3>1. SUFFICES ASSUME n + 1 \in 0..MaxCommits, n + 1 >= e PROVE L[n+1] = None OBVIOUS
    <3>2. CASE n + 1 = e BY <1>3, <3>2
    <3>3. CASE n + 1 # e
      <4>1. n >= e /\ n \in 0..MaxCommits /\ n + 1 \in 1..MaxCommits /\ (n + 1) - 1 = n
        BY <3>1, <3>3, IdsNumbers
      <4>2. L[n] = None BY <2>2, <4>1
      <4>3. L[n+1] = BaseOf(L[n]) BY <1>1, <4>1
      <4>4. QED BY <4>2, <4>3 DEF BaseOf
    <3>4. QED BY <3>2, <3>3
  <2>3. N = Nat
    <3>. HIDE DEF N
    <3>1. N \in SUBSET Nat BY DEF N
    <3>2. QED BY <2>1, <2>2, <3>1, Induction
  <2>4. QED BY <2>3, IdsNumbers
<1>8. {n \in 1..MaxCommits : L[n] # None} = 1..d
  <2>. HIDE DEF L
  <2>1. QED BY <1>3, <1>4, <1>7, IdsNumbers
<1>9. Depth(i) = d
  <2>1. Cardinality(1..d) = d BY <1>4, FS_Interval
  <2>2. QED BY <1>8, <2>1 DEF Depth
<1>10. QED BY <1>4, <1>5, <1>6, <1>9
-----------------------------------------------------------------------------
(* Restoring a content from its chain.                                     *)

LEMMA ApplyType ==
  ASSUME NEW b \in Blobs, NEW c PROVE Apply(b, c) \in Contents \cup {NoContent}
  BY DEF Blobs, Apply

LEMMA Encoded ==
  ASSUME NEW c, NEW d, NEW x
  PROVE  Apply(Full(c), x) = c /\ Apply(Patch(c, d), c) = d
  BY DEF Apply, Full, Patch

LEMMA Restored ==
  ASSUME LogTyped, Chained, NEW i \in Ids, InLog(i)
  PROVE  Restore(i) = truth[i]
<1>1. PICK d \in 0..(MaxCommits-1) :
        /\ Depth(i) = d
        /\ \A n \in 0..d : Link(i)[n] \in Ids /\ InLog(Link(i)[n])
        /\ log[Link(i)[d]].base = None
  BY ChainEnds
<1>. DEFINE L == Link(i)
            Last == Apply(log[L[d]].blob, NoContent)
            G == [x \in Nat \X (Contents \cup {NoContent}) |->
                    IF x[1] \in 0..d THEN Apply(log[L[d-x[1]]].blob, x[2]) ELSE NoContent]
            Body(g) == [k \in 0..d |-> IF k = 0 THEN Last ELSE Apply(log[L[d-k]].blob, g[k-1])]
<1>2. d \in Nat /\ d # MaxCommits /\ d < MaxCommits /\ d \in 0..d /\ d \in 0..MaxCommits
  BY IdsNumbers
<1>3. \A n \in 0..d : L[n] \in Ids /\ InLog(L[n])
  BY <1>1
<1>4. /\ L[0] = i
      /\ \A n \in 1..MaxCommits : L[n] = BaseOf(L[n-1])
  BY LinkDef
<1>5. log[L[d]].base = None
  BY <1>1
<1>. HIDE DEF L
<1>6. Last \in Contents \cup {NoContent}
  BY <1>2, <1>3, LogRow, ApplyType
<1>7. G \in [Nat \X (Contents \cup {NoContent}) -> Contents \cup {NoContent}]
  <2>1. ASSUME NEW x \in Nat \X (Contents \cup {NoContent}), x[1] \in 0..d
        PROVE  Apply(log[L[d-x[1]]].blob, x[2]) \in Contents \cup {NoContent}
    <3>1. d - x[1] \in 0..d BY <2>1
    <3>2. L[d-x[1]] \in Ids /\ InLog(L[d-x[1]]) BY <1>3, <3>1
    <3>3. QED BY <3>2, LogRow, ApplyType
  <2>2. QED BY <2>1
<1>8. PICK f : f = Body(f)
  <2>1. PICK H, T, a : H = G /\ T = Contents \cup {NoContent} /\ a = Last OBVIOUS
  <2>2. H \in [Nat \X T -> T] /\ a \in T BY <1>6, <1>7, <2>1
  <2>3. PICK f : Iterates(f, d, T, a, H) BY <1>2, <2>2, Recursion
  <2>4. ASSUME NEW k \in 1..d PROVE f[k] = Apply(log[L[d-k]].blob, f[k-1])
    <3>1. k \in Nat /\ k - 1 \in 0..d /\ k \in 0..d BY <1>2
    <3>2. f[k-1] \in T /\ f[k] = H[<<k, f[k-1]>>] BY <2>3, <3>1 DEF Iterates
    <3>3. <<k, f[k-1]>> \in Nat \X (Contents \cup {NoContent}) BY <2>1, <3>1, <3>2
    <3>4. G[<<k, f[k-1]>>] = Apply(log[L[d-k]].blob, f[k-1]) BY <3>1, <3>3
    <3>5. QED BY <2>1, <3>2, <3>4
  <2>5. f = [k \in 0..d |-> f[k]] /\ f[0] = Last BY <2>1, <2>3 DEF Iterates
  <2>6. ASSUME NEW k \in 0..d PROVE f[k] = IF k = 0 THEN Last ELSE Apply(log[L[d-k]].blob, f[k-1])
    <3>1. CASE k = 0 BY <2>5, <3>1
    <3>2. CASE k # 0
      <4>1. k \in 1..d BY <1>2, <3>2
      <4>2. QED BY <2>4, <3>2, <4>1
    <3>3. QED BY <3>1, <3>2
  <2>. HIDE DEF Last
  <2>7. QED BY <2>5, <2>6
<1>. DEFINE R == CHOOSE g : g = Body(g)
<1>9. R = Body(R)
  BY <1>8
<1>10. Restore(i) = R[d]
  BY <1>1, <1>2 DEF Restore, L
<1>. HIDE DEF R
<1>11. R[0] = Last /\ \A k \in 1..d : R[k] = Apply(log[L[d-k]].blob, R[k-1])
  <2>1. \A k \in 1..d : k \in 0..d /\ k # 0 BY <1>2
  <2>2. 0 \in 0..d BY <1>2
  <2>. HIDE DEF Last
  <2>3. R[0] = Last BY <1>9, <2>2
  <2>4. QED BY <1>9, <2>1, <2>3
<1>. DEFINE N == {k \in Nat : k \in 0..d => R[k] = truth[L[d-k]]}
<1>12. 0 \in N
  <2>1. d - 0 = d BY <1>2
  <2>2. log[L[d]].blob = Full(truth[L[d]]) BY <1>2, <1>3, <1>5 DEF Chained
  <2>3. QED BY <1>11, <2>1, <2>2, Encoded
<1>13. ASSUME NEW k \in N PROVE k + 1 \in N
  <2>. SUFFICES ASSUME k + 1 \in 0..d PROVE R[k+1] = truth[L[d-(k+1)]]
    OBVIOUS
  <2>1. PICK n \in Nat : n = d - (k + 1) BY <1>2
  <2>2. n \in 0..d /\ n + 1 \in 0..d /\ n + 1 \in 1..MaxCommits /\ n + 1 = d - k /\ (n + 1) - 1 = n
        /\ k \in 0..d /\ k + 1 \in 1..d /\ (k + 1) - 1 = k
    BY <1>2, <2>1, IdsNumbers
  <2>3. R[k] = truth[L[n+1]] BY <2>2
  <2>4. L[n+1] = BaseOf(L[n]) BY <1>4, <2>2
  <2>5. L[n] \in Ids /\ InLog(L[n]) /\ L[n+1] \in Ids BY <1>3, <2>2
  <2>6. log[L[n]].base = L[n+1] /\ L[n+1] # None BY <2>4, <2>5, IdsNumbers DEF BaseOf
  <2>7. log[L[n]].blob = Patch(truth[L[n+1]], truth[L[n]]) BY <2>5, <2>6 DEF Chained
  <2>8. R[k+1] = Apply(log[L[n]].blob, R[k]) BY <1>11, <2>1, <2>2
  <2>9. QED BY <2>1, <2>3, <2>7, <2>8, Encoded
<1>14. N = Nat
  <2>. HIDE DEF N
  <2>1. N \in SUBSET Nat BY DEF N
  <2>2. QED BY <1>12, <1>13, <2>1, Induction
<1>15. R[d] = truth[L[0]]
  <2>1. d \in 0..d /\ d - d = 0 BY <1>2
  <2>2. QED BY <1>2, <1>14, <2>1
<1>16. QED BY <1>4, <1>10, <1>15

LEMMA ChainBlobsType ==
  ASSUME LogTyped, Chained, NEW i \in Ids, InLog(i)
  PROVE  ChainBlobs(i) \subseteq Blobs
<1>1. PICK d \in 0..(MaxCommits-1) :
        Depth(i) = d /\ \A n \in 0..d : Link(i)[n] \in Ids /\ InLog(Link(i)[n])
  BY ChainEnds
<1>2. QED BY <1>1, LogRow DEF ChainBlobs
-----------------------------------------------------------------------------
(* What a request in progress relies on.                                   *)

Stages == {"idle", "read", "putfull", "list", "fetch", "put", "insertfile", "insert", "update",
           "compact", "compactfetch", "putpatch", "queuepatch", "reencode", "queueold"}
Storing == {"putfull", "list", "fetch", "put", "insertfile", "insert"}
Compacting == {"compact", "compactfetch", "putpatch", "queuepatch", "reencode", "queueold"}
Kinds == {"none", "create", "commit", "raw", "rollback", "rename", "read"}
Makers == {"create", "commit", "raw", "rollback"}

Requests ==
  [pc: Stages, kind: Kinds, file: Maybe(Files), head: Maybe(Ids), content: Contents \cup {NoContent},
   needs: SUBSET Blobs, blob: Maybe(Blobs), base: Maybe(Ids), id: Maybe(Ids), old: Maybe(Blobs)]
Sweeper == [pc: {"idle", "count", "delete", "remove"}, todo: SUBSET Blobs, cur: Maybe(Blobs)]
Queues == [Blobs -> Maybe(SUBSET Writers)]

Pends(o) == o.kind \in Makers /\ o.id = None
Creates(o) == o.kind = "create" /\ o.pc \in {"putfull", "insertfile"}

(* How far a request of which kind can be, and what it has by then.        *)
StageFits(o) ==
  /\ o.pc = "idle" => o = Idle
  /\ o.pc # "idle" => o.file \in Files /\ (o.kind # "rename" => o.content \in Contents)
  /\ o.pc = "read" => o.kind \in {"read", "rollback"} /\ o.head = None /\ o.id = None /\ o.base = None
  /\ o.pc \in Storing => o.kind \in {"create", "commit", "raw"} /\ o.id = None
  /\ o.pc \in {"list", "fetch", "put"} => o.kind = "commit"
  /\ o.pc \in {"putfull", "list"} => o.base = None
  /\ o.pc = "insertfile" => o.kind = "create"
  /\ o.pc = "update" => IF o.kind = "rename" THEN o.id = None
                        ELSE o.kind \in {"create", "commit", "raw"} /\ o.id # None
  /\ o.pc \in Compacting => o.kind = "raw" /\ o.id # None
  /\ o.kind = "create" => o.head = None

(* The head it found is a commit of its file, as long as the file is there.*)
HeadFits(o) ==
  o.head # None =>
    /\ o.head <= made
    /\ InLog(o.head) => log[o.head].file = o.file
    /\ Live(o.file) => InLog(o.head)

(* So is the commit it made, which is newer and does not fall if raw.      *)
CommitFits(o) ==
  o.id # None =>
    /\ o.id <= made
    /\ o.head # None => o.head < o.id
    /\ o.kind = "raw" => o.blob \in Blobs
    /\ InLog(o.id) => log[o.id].file = o.file
    /\ Live(o.file) => InLog(o.id) /\ truth[o.id] = o.content /\ (o.kind = "raw" => ~Falls(o.id))

(* What it is about to insert is its content, whole or as a forward delta. *)
BlobFits(o) ==
  o.pc \in {"fetch", "put", "insertfile", "insert"} =>
    /\ o.blob \in Blobs
    /\ o.base = None => o.blob = Full(o.content)
    /\ o.base # None =>
         o.kind = "commit" /\ o.base = o.head /\ (Live(o.file) => o.blob = Patch(truth[o.base], o.content))

(* What it is about to put for its parent is a reverse delta.              *)
PatchFits(o) ==
  /\ o.pc \in Compacting \ {"compact"} =>
       o.head # None /\ o.old \in Blobs /\ (Live(o.file) => o.old = Full(truth[o.head]))
  /\ o.pc \in {"putpatch", "queuepatch", "reencode"} => o.blob = Patch(o.content, o.old.to)

Fits(o) == StageFits(o) /\ HeadFits(o) /\ CommitFits(o) /\ BlobFits(o) /\ PatchFits(o)

OpsTyped == op \in [Writers -> Requests]
OpsFit == \A w \in Writers : Fits(op[w])

(* Nobody else knows of a file before its row is inserted.                 *)
MadeAlone ==
  \A w \in Writers : Creates(op[w]) =>
    file[op[w].file].state = "absent" /\ \A x \in Writers \ {w} : op[x].file # op[w].file

(* There is room for the commits under way.                                *)
RoomLeft == made + Cardinality({w \in Writers : Pends(op[w])}) <= MaxCommits

Rooted == \A i \in Ids : InLog(i) => i <= made /\ Live(log[i].file)

Kept ==
  /\ TypeOK /\ OpsTyped /\ gc \in Sweeper
  /\ Chained /\ Rooted /\ HeadInLog
  /\ OpsFit /\ MadeAlone /\ RoomLeft

LEMMA KeptHistory == ASSUME Kept, NEW i \in Ids, InLog(i)
  PROVE  Restore(i) = truth[i] /\ truth[i] \in Contents /\ ChainBlobs(i) \subseteq Blobs
<1>1. LogTyped /\ Chained BY DEF Kept, TypeOK, LogTyped
<1>2. QED BY <1>1, Restored, ChainBlobsType DEF Chained

LEMMA FullPatchType ==
  ASSUME NEW c \in Contents, NEW d \in Contents
  PROVE  Full(c) \in Blobs /\ Patch(c, d) \in Blobs
  BY DEF Full, Patch, Blobs

LEMMA IdleFits == Idle \in Requests /\ Fits(Idle) /\ ~Pends(Idle) /\ ~Creates(Idle)
  BY DEF Idle, Requests, Fits, StageFits, HeadFits, CommitFits, BlobFits, PatchFits, Pends, Creates, Stages,
         Storing, Compacting, Kinds, Makers, Maybe

LEMMA IdleFields ==
  /\ Idle.pc = "idle" /\ Idle.kind = "none" /\ Idle.file = None /\ Idle.head = None /\ Idle.content = NoContent
  /\ Idle.needs = {} /\ Idle.blob = None /\ Idle.base = None /\ Idle.id = None /\ Idle.old = None
  BY DEF Idle

LEMMA SameRequest ==
  ASSUME NEW y \in Requests, NEW o \in Requests,
         y.pc = o.pc, y.kind = o.kind, y.file = o.file, y.head = o.head, y.content = o.content, y.needs = o.needs,
         y.blob = o.blob, y.base = o.base, y.id = o.id, y.old = o.old
  PROVE  y = o
  BY DEF Requests

(* The record a request starts as.                                        *)
LEMMA FreshRequest ==
  ASSUME NEW o \in Requests, o.needs = {}, o.blob = None, o.base = None, o.id = None, o.old = None
  PROVE  [Idle EXCEPT !.pc = o.pc, !.kind = o.kind, !.file = o.file, !.head = o.head, !.content = o.content] = o
<1>1. PICK z \in Requests : z = Idle BY IdleFits
<1>2. PICK y : y = [z EXCEPT !.pc = o.pc, !.kind = o.kind, !.file = o.file, !.head = o.head, !.content = o.content] OBVIOUS
<1>3. y \in Requests BY <1>2 DEF Requests
<1>4. y.pc = o.pc /\ y.kind = o.kind /\ y.file = o.file /\ y.head = o.head /\ y.content = o.content
      /\ y.needs = z.needs /\ y.blob = z.blob /\ y.base = z.base /\ y.id = z.id /\ y.old = z.old
  BY <1>2 DEF Requests
<1>5. y = o BY <1>1, <1>3, <1>4, IdleFields, SameRequest
<1>6. QED BY <1>1, <1>2, <1>5

LEMMA FreshReader ==
  ASSUME NEW o \in Requests, o.head = None, o.blob = None, o.base = None, o.id = None, o.old = None
  PROVE  [Idle EXCEPT !.pc = o.pc, !.kind = o.kind, !.file = o.file, !.content = o.content, !.needs = o.needs] = o
<1>1. PICK z \in Requests : z = Idle BY IdleFits
<1>2. PICK y : y = [z EXCEPT !.pc = o.pc, !.kind = o.kind, !.file = o.file, !.content = o.content, !.needs = o.needs] OBVIOUS
<1>3. y \in Requests BY <1>2 DEF Requests
<1>4. y.pc = o.pc /\ y.kind = o.kind /\ y.file = o.file /\ y.needs = o.needs /\ y.content = o.content
      /\ y.head = z.head /\ y.blob = z.blob /\ y.base = z.base /\ y.id = z.id /\ y.old = z.old
  BY <1>2 DEF Requests
<1>5. y = o BY <1>1, <1>3, <1>4, IdleFields, SameRequest
<1>6. QED BY <1>1, <1>2, <1>5

LEMMA QueueTypes ==
  ASSUME queue \in Queues
  PROVE  /\ \A bs : Enlist(queue, bs) \in Queues
         /\ \A ws : Without(queue, ws) \in Queues
         /\ \A bs, ws : Without(Enlist(queue, bs), ws) \in Queues
<1>1. \A bs : Enlist(queue, bs) \in Queues
  BY DEF Enlist, Queues, Maybe, InFlight
<1>2. \A q \in Queues : \A ws : Without(q, ws) \in Queues
  BY DEF Without, Queues, Maybe
<1>3. QED BY <1>1, <1>2

LEMMA Pending ==
  ASSUME OpsTyped, NEW w \in Writers, NEW o \in Requests, op' = [op EXCEPT ![w] = o]
  PROVE  /\ {x \in Writers : Pends(op'[x])} = IF Pends(o) THEN {x \in Writers : Pends(op[x])} \cup {w}
                                              ELSE {x \in Writers : Pends(op[x])} \ {w}
         /\ IsFiniteSet({x \in Writers : Pends(op[x])})
<1>1. \A x \in Writers : op'[x] = IF x = w THEN o ELSE op[x] BY DEF OpsTyped
<1>2. IsFiniteSet({x \in Writers : Pends(op[x])})
  BY VersioningAssumption, FS_Subset
<1>. DEFINE P(x) == Pends(x)
<1>. HIDE DEF P
<1>3. {x \in Writers : P(op'[x])} = IF P(o) THEN {x \in Writers : P(op[x])} \cup {w}
                                     ELSE {x \in Writers : P(op[x])} \ {w}
  BY <1>1
<1>4. QED BY <1>2, <1>3 DEF P

(* What one request does, the others as before.                            *)
LEMMA OpsStep ==
  ASSUME Kept, NEW w \in Writers, NEW o \in Requests, op' = [op EXCEPT ![w] = o],
         \A x \in Requests : Fits(x) /\ x.file # op[w].file => Fits(x)',
         \A x \in Requests : Fits(x) /\ ~Creates(op[w]) => Fits(x)',
         Fits(o)'
  PROVE  OpsTyped' /\ OpsFit'
<1>1. OpsTyped' BY DEF Kept, OpsTyped
<1>2. ASSUME NEW x \in Writers, NEW d, d = op'[x] PROVE Fits(d)'
  <2>1. CASE x = w BY <1>2, <2>1 DEF Kept, OpsTyped
  <2>2. CASE x # w
    <3>1. d = op[x] /\ d \in Requests BY <1>2, <2>2 DEF Kept, OpsTyped
    <3>2. Fits(d) BY <3>1 DEF Kept, OpsFit
    <3>3. Creates(op[w]) => d.file # op[w].file BY <2>2, <3>1 DEF Kept, MadeAlone
    <3>4. QED BY <3>1, <3>2, <3>3
  <2>3. QED BY <2>1, <2>2
<1>3. QED BY <1>1, <1>2 DEF OpsFit
LEMMA RoomStep ==
  ASSUME Kept, NEW w \in Writers, NEW o \in Requests, op' = [op EXCEPT ![w] = o],
         \/ made' = made /\ (Pends(o) => Pends(op[w]))
         \/ made' = made + 1 /\ ~Pends(o) /\ Pends(op[w])
         \/ made' = made /\ Room
  PROVE  RoomLeft'
<1>. DEFINE P == {x \in Writers : Pends(op[x])}
            Q == {x \in Writers : Pends(op'[x])}
<1>1. Q = (IF Pends(o) THEN P \cup {w} ELSE P \ {w}) /\ IsFiniteSet(P)
  BY Pending DEF Kept
<1>2. made + Cardinality(P) <= MaxCommits /\ made \in Nat /\ Cardinality(P) \in Nat /\ MaxCommits \in Nat
  BY <1>1, FS_CardinalityType, IdsNumbers DEF Kept, RoomLeft, TypeOK
<1>3. Pends(op[w]) => w \in P
  OBVIOUS
<1>4. Room => made + Cardinality(P) < MaxCommits
  BY DEF Room, Pends, Makers
<1>. HIDE DEF P, Q
<1>5. made' + Cardinality(Q) <= MaxCommits
  <2>1. CASE made' = made /\ (Pends(o) => Pends(op[w]))
    <3>1. Q \subseteq P BY <1>1, <1>3, <2>1
    <3>2. Cardinality(Q) <= Cardinality(P) /\ Cardinality(Q) \in Nat
      BY <1>1, <3>1, FS_Subset, FS_CardinalityType
    <3>3. QED BY <1>2, <2>1, <3>2
  <2>2. CASE made' = made + 1 /\ ~Pends(o) /\ Pends(op[w])
    <3>1. Q = P \ {w} /\ w \in P BY <1>1, <1>3, <2>2
    <3>2. Cardinality(Q) = Cardinality(P) - 1 BY <1>1, <3>1, FS_RemoveElement
    <3>3. QED BY <1>2, <2>2, <3>2
  <2>3. CASE made' = made /\ Room
    <3>1. Q \subseteq P \cup {w} BY <1>1
    <3>2. IsFiniteSet(P \cup {w}) /\ Cardinality(P \cup {w}) <= Cardinality(P) + 1 /\ Cardinality(P \cup {w}) \in Nat
      <4>1. IsFiniteSet(P) BY <1>1
      <4>2. /\ IsFiniteSet(P \cup {w})
            /\ Cardinality(P \cup {w}) = IF w \in P THEN Cardinality(P) ELSE Cardinality(P) + 1
        BY <4>1, FS_AddElement
      <4>3. QED BY <1>2, <4>2
    <3>3. Cardinality(Q) <= Cardinality(P \cup {w}) /\ Cardinality(Q) \in Nat
      BY <3>1, <3>2, FS_Subset, FS_CardinalityType
    <3>4. QED BY <1>2, <1>4, <2>3, <3>2, <3>3
  <2>4. QED BY <2>1, <2>2, <2>3
<1>6. QED BY <1>5 DEF RoomLeft, Q

LEMMA AloneStep ==
  ASSUME Kept, NEW w \in Writers, NEW o \in Requests, op' = [op EXCEPT ![w] = o],
         \/ o.file = op[w].file /\ (Creates(o) => Creates(op[w]))
         \/ ~Creates(o) /\ (o.file = None \/ file[o.file].state # "absent")
         \/ Creates(o) /\ o.file \in Files /\ file[o.file].state = "absent" /\ \A x \in Writers : op[x].file # o.file,
         \A x \in Writers : x # w /\ Creates(op[x]) => file'[op[x].file] = file[op[x].file],
         Creates(o) => file'[o.file] = file[o.file]
  PROVE  MadeAlone'
<1>1. \A x \in Writers : op'[x] = IF x = w THEN o ELSE op[x]
  BY DEF Kept, OpsTyped
<1>2. \A x \in Writers : Creates(op[x]) => op[x].file \in Files /\ op[x].file # None
  <2>1. TAKE x \in Writers
  <2>2. Fits(op[x]) BY DEF Kept, OpsFit
  <2>3. QED BY <2>2, NoneAssumption DEF Fits, StageFits, Creates
<1>3. ASSUME NEW x \in Writers, Creates(op'[x])
      PROVE  file'[op'[x].file].state = "absent" /\ \A y \in Writers \ {x} : op'[y].file # op'[x].file
  <2>1. CASE x = w
    <3>1. op'[x] = o /\ Creates(o) BY <1>1, <1>3, <2>1
    <3>2. CASE o.file = op[w].file /\ Creates(op[w])
      <4>1. file'[op[w].file] = file[op[w].file] BY <3>1, <3>2
      <4>2. file[op[w].file].state = "absent" /\ \A y \in Writers \ {w} : op[y].file # op[w].file
        BY <3>2 DEF Kept, MadeAlone
      <4>3. QED BY <1>1, <2>1, <3>1, <3>2, <4>1, <4>2
    <3>3. CASE o.file \in Files /\ file[o.file].state = "absent" /\ \A y \in Writers : op[y].file # o.file
      BY <1>1, <2>1, <3>1, <3>3
    <3>4. QED BY <3>1, <3>2, <3>3
  <2>2. CASE x # w
    <3>1. op'[x] = op[x] /\ Creates(op[x]) BY <1>1, <1>3, <2>2
    <3>2. file[op[x].file].state = "absent" /\ \A y \in Writers \ {x} : op[y].file # op[x].file
      BY <3>1 DEF Kept, MadeAlone
    <3>3. o.file # op[x].file BY <1>2, <2>2, <3>1, <3>2
    <3>4. file'[op[x].file].state = "absent" BY <2>2, <3>1, <3>2
    <3>5. ASSUME NEW y \in Writers \ {x} PROVE op'[y].file # op[x].file
      BY <1>1, <3>2, <3>3, <3>5
    <3>6. QED BY <3>1, <3>4, <3>5
  <2>3. QED BY <2>1, <2>2
<1>4. QED BY <1>3 DEF MadeAlone, Creates

(* A step that touches no row.                                             *)
LEMMA Unaffected ==
  ASSUME UNCHANGED <<file, log, truth, made>>
  PROVE  /\ \A o \in Requests : Fits(o) => Fits(o)'
         /\ Chained => Chained'
         /\ Rooted => Rooted'
         /\ HeadInLog => HeadInLog'
<1>1. \A o \in Requests : Fits(o) => Fits(o)'
  BY DEF Fits, StageFits, HeadFits, CommitFits, BlobFits, PatchFits, InLog, Live, Falls
<1>2. Chained => Chained' /\ (Rooted => Rooted') /\ (HeadInLog => HeadInLog')
  BY DEF Chained, Rooted, HeadInLog, InLog, Live, Falls, Climbs
<1>3. QED BY <1>1, <1>2 DEF Chained, Rooted, HeadInLog, InLog, Live, Falls, Climbs

LEMMA LocalStep ==
  ASSUME Kept, NEW w \in Writers, NEW o \in Requests, op' = [op EXCEPT ![w] = o],
         UNCHANGED <<file, log, truth, made, gc, contested, crashes>>,
         blobs' \subseteq Blobs, queue' \in Queues, Fits(o),
         \/ o = Idle
         \/ o.file = op[w].file /\ (Creates(o) => Creates(op[w])) /\ (Pends(o) => Pends(op[w]))
         \/ /\ ~Pends(o) \/ Room
            /\ \/ ~Creates(o) /\ file[o.file].state # "absent"
               \/ /\ Creates(o) /\ o.file \in Files /\ file[o.file].state = "absent"
                  /\ \A x \in Writers : op[x].file # o.file
  PROVE  Kept'
<1>1. OpsTyped' /\ OpsFit' BY Unaffected, OpsStep
<1>2. MadeAlone' BY AloneStep, IdleFits DEF Idle
<1>3. RoomLeft' BY RoomStep, IdleFits
<1>4. TypeOK' BY DEF Kept, TypeOK, Queues
<1>5. gc' \in Sweeper BY DEF Kept
<1>6. Chained' /\ Rooted' /\ HeadInLog' BY Unaffected DEF Kept
<1>7. QED BY <1>1, <1>2, <1>3, <1>4, <1>5, <1>6 DEF Kept
-----------------------------------------------------------------------------
(* Every step keeps it.                                                    *)

LEMMA BecomesRequest ==
  ASSUME OpsTyped, NEW w \in Writers, NEW o \in Requests,
         op' \in [Writers -> Requests], \A x \in Writers \ {w} : op'[x] = op[x],
         op'[w].pc = o.pc, op'[w].kind = o.kind, op'[w].file = o.file, op'[w].head = o.head,
         op'[w].content = o.content, op'[w].needs = o.needs, op'[w].blob = o.blob, op'[w].base = o.base,
         op'[w].id = o.id, op'[w].old = o.old
  PROVE  op' = [op EXCEPT ![w] = o]
<1>1. op'[w] = o BY SameRequest
<1>2. QED BY <1>1 DEF OpsTyped

LEMMA Request0 == ASSUME Kept, NEW w \in Writers
  PROVE  /\ op[w] \in Requests /\ Fits(op[w])
         /\ queue \in Queues /\ blobs \subseteq Blobs
         /\ op[w] # Idle => op[w].file \in Files
  BY DEF Kept, OpsTyped, OpsFit, Fits, StageFits, TypeOK, Queues, Maybe

LEMMA InitKept == Init => Kept
<1>. SUFFICES ASSUME Init PROVE Kept
  OBVIOUS
<1>. USE DEF Init
<1>1. TypeOK
  <2>1. file \in [Files -> [state: {"absent", "live", "purged"}, head: Maybe(Ids)]] BY DEF Maybe
  <2>2. \A f \in Files : file[f].state # "live" => file[f].head = None OBVIOUS
  <2>3. log \in [Ids -> Maybe(Commit)] /\ truth \in [Ids -> Contents \cup {NoContent}] BY DEF Maybe
  <2>4. made \in 0..MaxCommits /\ crashes \in 0..MaxCrashes BY IdsNumbers, VersioningAssumption
  <2>5. queue \in [Blobs -> Maybe(SUBSET Writers)] BY DEF Maybe
  <2>6. blobs \subseteq Blobs /\ gc.todo \subseteq Blobs /\ contested \in BOOLEAN OBVIOUS
  <2>7. QED BY <2>1, <2>2, <2>3, <2>4, <2>5, <2>6 DEF TypeOK
<1>2. \A w \in Writers : op[w] = Idle
  OBVIOUS
<1>3. OpsTyped /\ OpsFit /\ MadeAlone
  BY <1>2, IdleFits DEF OpsTyped, OpsFit, MadeAlone
<1>4. gc \in Sweeper
  BY DEF Sweeper, Maybe
<1>5. Chained /\ Rooted /\ HeadInLog
  BY DEF Chained, Rooted, HeadInLog, InLog
<1>6. RoomLeft
  <2>1. {w \in Writers : Pends(op[w])} = {} BY <1>2, IdleFits
  <2>2. QED BY <2>1, FS_EmptySet, IdsNumbers DEF RoomLeft
<1>7. QED BY <1>1, <1>3, <1>4, <1>5, <1>6 DEF Kept

LEMMA BeginKept ==
  ASSUME Kept, NEW w \in Writers, NEW f \in Files, NEW c \in Contents \cup {NoContent}, NEW kind, NEW where,
         Begin(w, kind, f, c, where),
         \/ kind = "create" /\ where = "putfull" /\ c \in Contents
              /\ file[f].state = "absent" /\ \A x \in Writers : op[x].file # f
         \/ kind \in {"commit", "raw"} /\ where = "putfull" /\ c \in Contents /\ Live(f)
         \/ kind = "commit" /\ where = "list" /\ c \in Contents /\ Live(f)
         \/ kind = "rename" /\ where = "update" /\ Live(f)
  PROVE  Kept'
<1>. DEFINE o == [pc |-> where, kind |-> kind, file |-> f, head |-> file[f].head, content |-> c,
                  needs |-> {}, blob |-> None, base |-> None, id |-> None, old |-> None]
<1>1. file[f].head \in Maybe(Ids) BY DEF Kept, TypeOK
<1>2. o \in Requests BY <1>1 DEF Requests, Stages, Kinds, Maybe
<1>3. op' = [op EXCEPT ![w] = o]
  <2>1. PICK d : d = o OBVIOUS
  <2>2. d \in Requests BY <1>2, <2>1
  <2>3. [Idle EXCEPT !.pc = d.pc, !.kind = d.kind, !.file = d.file, !.head = d.head, !.content = d.content] = d
    BY <2>1, <2>2, FreshRequest
  <2>4. QED BY <2>1, <2>3 DEF Begin
<1>4. file[f].state = "absent" => file[f].head = None BY DEF Kept, TypeOK
<1>5. Fits(o)
  <2>1. StageFits(o) BY <1>4 DEF StageFits, Storing, Compacting
  <2>2. HeadFits(o)
    <3>1. file[f].head # None => file[f].head <= made /\ InLog(file[f].head) /\ log[file[f].head].file = f
      BY <1>1 DEF Kept, HeadInLog, Rooted, Maybe
    <3>2. QED BY <3>1 DEF HeadFits
  <2>3. CommitFits(o) /\ BlobFits(o) /\ PatchFits(o) BY DEF CommitFits, BlobFits, PatchFits, Compacting
  <2>4. QED BY <2>1, <2>2, <2>3 DEF Fits
<1>6. \/ ~Creates(o) /\ file[o.file].state # "absent"
      \/ Creates(o) /\ o.file \in Files /\ file[o.file].state = "absent" /\ \A x \in Writers : op[x].file # o.file
  BY DEF Creates, Live
<1>7. ~Pends(o) \/ Room BY DEF Begin, Pends, Makers
<1>8. UNCHANGED <<file, log, truth, made, blobs, queue, gc, contested, crashes>> BY DEF Begin
<1>9. blobs' \subseteq Blobs /\ queue' \in Queues BY <1>8, Request0
<1>10. PICK d \in Requests : d = o BY <1>2
<1>. HIDE DEF o
<1>11. QED BY <1>3, <1>5, <1>6, <1>7, <1>8, <1>9, <1>10, LocalStep

LEMMA MaterializeKept ==
  ASSUME Kept, NEW w \in Writers, NEW f \in Files, NEW i \in Ids, NEW kind \in {"read", "rollback"},
         Materialize(w, kind, f, i), kind = "read" \/ Room
  PROVE  Kept'
<1>. DEFINE o == [pc |-> "read", kind |-> kind, file |-> f, head |-> None, content |-> Restore(i),
                  needs |-> ChainBlobs(i), blob |-> None, base |-> None, id |-> None, old |-> None]
<1>1. Live(f) /\ InLog(i) BY DEF Materialize, History
<1>2. Restore(i) \in Contents /\ ChainBlobs(i) \subseteq Blobs BY <1>1, KeptHistory
<1>3. o \in Requests BY <1>2 DEF Requests, Stages, Kinds, Maybe
<1>4. op' = [op EXCEPT ![w] = o]
  <2>1. PICK d : d = o OBVIOUS
  <2>2. d \in Requests BY <1>3, <2>1
  <2>3. [Idle EXCEPT !.pc = d.pc, !.kind = d.kind, !.file = d.file, !.content = d.content, !.needs = d.needs] = d
    BY <2>1, <2>2, FreshReader
  <2>4. QED BY <2>1, <2>3 DEF Materialize
<1>5. Fits(o)
  BY <1>2 DEF Fits, StageFits, HeadFits, CommitFits, BlobFits, PatchFits, Storing, Compacting
<1>6. ~Creates(o) /\ file[o.file].state # "absent" BY <1>1 DEF Creates, Live
<1>7. ~Pends(o) \/ Room BY DEF Pends, Makers
<1>8. UNCHANGED <<file, log, truth, made, blobs, queue, gc, contested, crashes>> BY DEF Materialize
<1>9. blobs' \subseteq Blobs /\ queue' \in Queues BY <1>8, Request0
<1>10. PICK d \in Requests : d = o BY <1>3
<1>. HIDE DEF o
<1>11. QED BY <1>4, <1>5, <1>6, <1>7, <1>8, <1>9, <1>10, LocalStep

LEMMA RequestKept == ASSUME Kept, NEW w \in Writers, Request(w) PROVE Kept'
<1>1. PICK f \in Files :
        \/ \E c \in Contents : BeginCreate(w, f, c) \/ BeginCommit(w, f, c) \/ BeginRaw(w, f, c)
        \/ \E i \in Ids : BeginRead(w, f, i) \/ BeginRollback(w, f, i)
        \/ BeginRename(w, f)
  BY DEF Request
<1>2. ASSUME NEW c \in Contents, BeginCreate(w, f, c) PROVE Kept'
  <2>1. Begin(w, "create", f, c, "putfull") /\ file[f].state = "absent" /\ \A x \in Writers : op[x].file # f
    BY <1>2 DEF BeginCreate
  <2>2. QED BY <2>1, BeginKept
<1>3. ASSUME NEW c \in Contents, BeginCommit(w, f, c) PROVE Kept'
  <2>1. Live(f) /\ (Begin(w, "commit", f, c, "putfull") \/ Begin(w, "commit", f, c, "list"))
    BY <1>3 DEF BeginCommit
  <2>2. QED BY <2>1, BeginKept
<1>4. ASSUME NEW c \in Contents, BeginRaw(w, f, c) PROVE Kept'
  <2>1. Live(f) /\ Begin(w, "raw", f, c, "putfull") BY <1>4 DEF BeginRaw
  <2>2. QED BY <2>1, BeginKept
<1>5. ASSUME NEW i \in Ids, BeginRead(w, f, i) \/ BeginRollback(w, f, i) PROVE Kept'
  BY <1>5, MaterializeKept DEF BeginRead, BeginRollback
<1>6. ASSUME BeginRename(w, f) PROVE Kept'
  <2>1. Live(f) /\ Begin(w, "rename", f, NoContent, "update") BY <1>6 DEF BeginRename
  <2>2. QED BY <2>1, BeginKept
<1>7. QED BY <1>1, <1>2, <1>3, <1>4, <1>5, <1>6

LEMMA AbortKept == ASSUME Kept, NEW w \in Writers, Abort(w) PROVE Kept'
<1>1. op' = [op EXCEPT ![w] = Idle] /\ queue' = Without(queue, {w})
      /\ UNCHANGED <<file, log, truth, made, blobs, gc, contested, crashes>>
  BY DEF Abort, Finish
<1>2. blobs' \subseteq Blobs /\ queue' \in Queues BY <1>1, Request0, QueueTypes
<1>3. QED BY <1>1, <1>2, IdleFits, LocalStep

(* A step that changes nothing but the request and the blobs on disk.      *)
LEMMA OnwardStep ==
  ASSUME Kept, NEW w \in Writers, NEW o \in Requests, op' = [op EXCEPT ![w] = o],
         UNCHANGED <<file, log, truth, made, gc, contested, crashes>>,
         blobs' \subseteq Blobs, queue' \in Queues, Fits(o), o.file = op[w].file,
         Creates(o) => Creates(op[w]), Pends(o) => Pends(op[w])
  PROVE  Kept'
  BY LocalStep

LEMMA ReadKept == ASSUME Kept, NEW w \in Writers, Read(w) PROVE Kept'
<1>1. CASE Abort(w) BY <1>1, AbortKept
<1>2. CASE ~Abort(w)
  <2>. DEFINE c == op[w]
              o == [pc |-> "list", kind |-> "commit", file |-> c.file, head |-> file[c.file].head,
                    content |-> c.content, needs |-> {}, blob |-> c.blob, base |-> c.base, id |-> c.id, old |-> c.old]
  <2>1. c \in Requests /\ Fits(c) /\ queue \in Queues /\ blobs \subseteq Blobs BY Request0
  <2>2. c.pc = "read" /\ c.kind = "rollback" /\ Live(c.file)
        /\ op' = [op EXCEPT ![w].pc = "list", ![w].kind = "commit", ![w].needs = {}, ![w].head = file[c.file].head]
        /\ UNCHANGED <<file, log, truth, made, blobs, queue, gc, contested, crashes>>
    BY <1>2 DEF Read, At
  <2>3. op' = [op EXCEPT ![w] = o]
    <3>1. op \in [Writers -> Requests] BY DEF Kept, OpsTyped
    <3>2. QED BY <2>1, <2>2, <3>1 DEF Requests
  <2>4. c.file \in Files /\ file[c.file].head \in Maybe(Ids) BY <2>2 DEF Live, Kept, TypeOK
  <2>5. o \in Requests BY <2>1, <2>4 DEF Requests, Stages, Kinds
  <2>6. c.id = None /\ c.base = None /\ c.content \in Contents BY <2>1, <2>2 DEF Fits, StageFits
  <2>7. Fits(o)
    <3>1. file[c.file].head # None =>
            file[c.file].head <= made /\ InLog(file[c.file].head) /\ log[file[c.file].head].file = c.file
      BY <2>4 DEF Kept, HeadInLog, Rooted, Maybe
    <3>2. QED
      BY <2>4, <2>6, <3>1 DEF Fits, StageFits, HeadFits, CommitFits, BlobFits, PatchFits, Storing, Compacting
  <2>8. Pends(c) /\ ~Creates(o) BY <2>2, <2>6 DEF Pends, Creates, Makers
  <2>9. PICK d \in Requests : d = o BY <2>5
  <2>10. d.file = op[w].file BY <2>9
  <2>. HIDE DEF o
  <2>11. QED BY <2>1, <2>2, <2>3, <2>7, <2>8, <2>9, <2>10, OnwardStep
<1>3. QED BY <1>1, <1>2

LEMMA ListKept == ASSUME Kept, NEW w \in Writers, List(w) PROVE Kept'
<1>1. CASE Abort(w) BY <1>1, AbortKept
<1>2. CASE ~Abort(w)
  <2>. DEFINE c == op[w]
  <2>1. c \in Requests /\ Fits(c) /\ queue \in Queues /\ blobs \subseteq Blobs BY Request0
  <2>2. PICK blob, base :
          /\ \/ blob = Full(c.content) /\ base = None
             \/ blob = Patch(Restore(c.head), c.content) /\ base = c.head
          /\ op' = [op EXCEPT ![w].pc = "fetch", ![w].needs = ChainBlobs(c.head),
                              ![w].blob = blob, ![w].base = base]
          /\ c.pc = "list" /\ c.head # None /\ InLog(c.head)
          /\ UNCHANGED <<file, log, truth, made, blobs, queue, gc, contested, crashes>>
    BY <1>2 DEF List, At
  <2>. DEFINE o == [pc |-> "fetch", kind |-> c.kind, file |-> c.file, head |-> c.head, content |-> c.content,
                    needs |-> ChainBlobs(c.head), blob |-> blob, base |-> base, id |-> c.id, old |-> c.old]
  <2>3. c.head \in Ids /\ c.kind = "commit" /\ c.id = None /\ c.file \in Files /\ c.content \in Contents
    BY <2>1, <2>2 DEF Requests, Maybe, Fits, StageFits, Storing
  <2>4. Restore(c.head) = truth[c.head] /\ truth[c.head] \in Contents /\ ChainBlobs(c.head) \subseteq Blobs
    BY <2>2, <2>3, KeptHistory
  <2>5. blob \in Blobs /\ base \in Maybe(Ids)
    BY <2>2, <2>3, <2>4, FullPatchType DEF Maybe
  <2>6. o \in Requests BY <2>1, <2>4, <2>5 DEF Requests, Stages, Maybe
  <2>7. op' = [op EXCEPT ![w] = o]
    <3>1. PICK d \in Requests : d = o BY <2>6
    <3>2. op' = [op EXCEPT ![w].pc = d.pc, ![w].needs = d.needs, ![w].blob = d.blob, ![w].base = d.base]
      BY <2>2, <3>1
    <3>3. /\ op' \in [Writers -> Requests] /\ \A x \in Writers \ {w} : op'[x] = op[x]
          /\ op'[w].pc = d.pc /\ op'[w].needs = d.needs /\ op'[w].blob = d.blob /\ op'[w].base = d.base
          /\ op'[w].kind = c.kind /\ op'[w].file = c.file /\ op'[w].head = c.head
          /\ op'[w].content = c.content /\ op'[w].id = c.id
          /\ op'[w].old = c.old
      BY <3>2 DEF Kept, OpsTyped, Requests
    <3>4. op' = [op EXCEPT ![w] = d] BY <3>1, <3>3, BecomesRequest DEF Kept
    <3>5. QED BY <3>1, <3>4
  <2>8. Fits(o)
    <3>1. StageFits(o) BY <2>3 DEF StageFits, Storing, Compacting
    <3>2. HeadFits(o) BY <2>1 DEF Fits, HeadFits
    <3>3. CommitFits(o) /\ PatchFits(o) BY <2>3 DEF CommitFits, PatchFits, Compacting
    <3>4. BlobFits(o) BY <2>2, <2>3, <2>4, <2>5 DEF BlobFits
    <3>5. QED BY <3>1, <3>2, <3>3, <3>4 DEF Fits
  <2>9. Pends(c) /\ ~Creates(o) BY <2>3 DEF Pends, Creates, Makers
  <2>10. PICK d \in Requests : d = o BY <2>6
  <2>11. d.file = op[w].file BY <2>10
  <2>. HIDE DEF o
  <2>12. QED BY <2>1, <2>2, <2>7, <2>8, <2>9, <2>10, <2>11, OnwardStep
<1>3. QED BY <1>1, <1>2

LEMMA FetchKept == ASSUME Kept, NEW w \in Writers, Fetch(w) PROVE Kept'
<1>1. CASE Abort(w) BY <1>1, AbortKept
<1>2. CASE ~Abort(w)
  <2>. DEFINE c == op[w]
              o == [pc |-> "put", kind |-> c.kind, file |-> c.file, head |-> c.head, content |-> c.content,
                    needs |-> {}, blob |-> c.blob, base |-> c.base, id |-> c.id, old |-> c.old]
  <2>1. c \in Requests /\ Fits(c) /\ queue \in Queues /\ blobs \subseteq Blobs BY Request0
  <2>2. /\ c.pc = "fetch" /\ op' = [op EXCEPT ![w].pc = "put", ![w].needs = {}]
        /\ UNCHANGED <<file, log, truth, made, blobs, queue, gc, contested, crashes>>
    BY <1>2 DEF Fetch, At
  <2>3. o \in Requests BY <2>1 DEF Requests, Stages
  <2>4. op' = [op EXCEPT ![w] = o]
    <3>1. PICK d \in Requests : d = o BY <2>3
    <3>2. op' = [op EXCEPT ![w].pc = d.pc, ![w].needs = d.needs] BY <2>2, <3>1
    <3>3. /\ op' \in [Writers -> Requests] /\ \A x \in Writers \ {w} : op'[x] = op[x]
          /\ op'[w].pc = d.pc /\ op'[w].needs = d.needs
          /\ op'[w].kind = c.kind /\ op'[w].file = c.file /\ op'[w].head = c.head
          /\ op'[w].content = c.content /\ op'[w].blob = c.blob
          /\ op'[w].base = c.base /\ op'[w].id = c.id /\ op'[w].old = c.old
      BY <3>2 DEF Kept, OpsTyped, Requests
    <3>4. /\ d.kind = c.kind /\ d.file = c.file /\ d.head = c.head /\ d.content = c.content /\ d.blob = c.blob
          /\ d.base = c.base /\ d.id = c.id /\ d.old = c.old
      BY <3>1
    <3>. HIDE DEF o, c
    <3>5. op' = [op EXCEPT ![w] = d] BY <3>3, <3>4, BecomesRequest DEF Kept
    <3>6. QED BY <3>1, <3>5
  <2>5. Fits(o)
    BY <2>1, <2>2 DEF Fits, StageFits, HeadFits, CommitFits, BlobFits, PatchFits, Storing, Compacting
  <2>6. ~Creates(o) /\ (Pends(o) => Pends(c)) BY DEF Pends, Creates, Makers
  <2>7. PICK d \in Requests : d = o BY <2>3
  <2>8. d.file = op[w].file BY <2>7
  <2>. HIDE DEF o
  <2>9. QED BY <2>1, <2>2, <2>4, <2>5, <2>6, <2>7, <2>8, OnwardStep
<1>3. QED BY <1>1, <1>2

LEMMA PutKept == ASSUME Kept, NEW w \in Writers, Put(w) PROVE Kept'
<1>. DEFINE c == op[w]
            b == IF c.pc = "put" THEN c.blob ELSE Full(c.content)
            pc == IF c.kind = "create" THEN "insertfile" ELSE "insert"
            o == [pc |-> pc, kind |-> c.kind, file |-> c.file, head |-> c.head, content |-> c.content,
                  needs |-> c.needs, blob |-> b, base |-> c.base, id |-> c.id, old |-> c.old]
<1>1. c \in Requests /\ Fits(c) /\ queue \in Queues /\ blobs \subseteq Blobs
  BY Request0
<1>2. /\ c.pc \in {"put", "putfull"} /\ blobs' = blobs \cup {b}
      /\ op' = [op EXCEPT ![w].blob = b, ![w].pc = pc]
      /\ UNCHANGED <<file, log, truth, made, queue, gc, contested, crashes>>
  BY DEF Put, At
<1>3. /\ c.file \in Files /\ c.content \in Contents /\ c.kind \in {"create", "commit", "raw"} /\ c.id = None
      /\ c.pc = "put" => c.kind = "commit" /\ c.blob \in Blobs
      /\ c.pc = "putfull" => c.base = None
  BY <1>1, <1>2 DEF Fits, StageFits, BlobFits, Storing
<1>4. b \in Blobs BY <1>2, <1>3, FullPatchType
<1>5. o \in Requests BY <1>1, <1>4 DEF Requests, Stages, Maybe
<1>6. op' = [op EXCEPT ![w] = o]
  <2>1. PICK d \in Requests : d = o BY <1>5
  <2>2. op' = [op EXCEPT ![w].blob = d.blob, ![w].pc = d.pc] BY <1>2, <2>1
  <2>3. /\ op' \in [Writers -> Requests] /\ \A x \in Writers \ {w} : op'[x] = op[x]
        /\ op'[w].blob = d.blob /\ op'[w].pc = d.pc
        /\ op'[w].kind = c.kind /\ op'[w].file = c.file /\ op'[w].head = c.head
        /\ op'[w].content = c.content /\ op'[w].needs = c.needs
        /\ op'[w].base = c.base /\ op'[w].id = c.id /\ op'[w].old = c.old
    BY <2>2 DEF Kept, OpsTyped, Requests
  <2>4. op' = [op EXCEPT ![w] = d] BY <2>1, <2>3, BecomesRequest DEF Kept
  <2>5. QED BY <2>1, <2>4
<1>7. Fits(o)
  <2>1. StageFits(o) /\ CommitFits(o) /\ PatchFits(o)
    BY <1>1, <1>3 DEF Fits, StageFits, CommitFits, PatchFits, Storing, Compacting
  <2>2. HeadFits(o) BY <1>1 DEF Fits, HeadFits
  <2>3. BlobFits(o) BY <1>1, <1>2, <1>3, <1>4 DEF Fits, BlobFits
  <2>4. QED BY <2>1, <2>2, <2>3 DEF Fits
<1>8. (Creates(o) => Creates(c)) /\ (Pends(o) => Pends(c))
  BY <1>2, <1>3 DEF Pends, Creates
<1>9. PICK d \in Requests : d = o BY <1>5
<1>10. d.file = op[w].file BY <1>9
<1>11. blobs' \subseteq Blobs BY <1>1, <1>2, <1>4
<1>. HIDE DEF o
<1>12. QED BY <1>1, <1>2, <1>6, <1>7, <1>8, <1>9, <1>10, <1>11, OnwardStep

LEMMA CompactListKept == ASSUME Kept, NEW w \in Writers, CompactList(w) PROVE Kept'
<1>1. CASE Abort(w) BY <1>1, AbortKept
<1>2. CASE ~Abort(w)
  <2>. DEFINE c == op[w]
              p == c.head
              o == [pc |-> "compactfetch", kind |-> c.kind, file |-> c.file, head |-> c.head, content |-> c.content,
                    needs |-> {log[p].blob, c.blob}, blob |-> c.blob, base |-> c.base, id |-> c.id,
                    old |-> log[p].blob]
  <2>1. c \in Requests /\ Fits(c) /\ queue \in Queues /\ blobs \subseteq Blobs BY Request0
  <2>2. /\ c.pc = "compact" /\ p # None /\ InLog(p) /\ log[p].base = None
        /\ op' = [op EXCEPT ![w].pc = "compactfetch", ![w].old = log[p].blob,
                            ![w].needs = {log[p].blob, c.blob}]
        /\ UNCHANGED <<file, log, truth, made, blobs, queue, gc, contested, crashes>>
    BY <1>2 DEF CompactList, Compactable, At
  <2>3. p \in Ids BY <2>1, <2>2 DEF Requests, Maybe
  <2>4. log[p].blob \in Blobs /\ log[p].blob = Full(truth[p])
    BY <2>2, <2>3, LogRow DEF Kept, Chained, TypeOK, LogTyped
  <2>5. c.kind = "raw" /\ c.id # None /\ c.blob \in Blobs
    BY <2>1, <2>2 DEF Fits, StageFits, CommitFits, Compacting
  <2>6. o \in Requests BY <2>1, <2>4, <2>5 DEF Requests, Stages, Maybe
  <2>7. op' = [op EXCEPT ![w] = o]
    <3>1. PICK d \in Requests : d = o BY <2>6
    <3>2. op' = [op EXCEPT ![w].pc = d.pc, ![w].old = d.old, ![w].needs = d.needs] BY <2>2, <3>1
    <3>3. /\ op' \in [Writers -> Requests] /\ \A x \in Writers \ {w} : op'[x] = op[x]
          /\ op'[w].pc = d.pc /\ op'[w].old = d.old /\ op'[w].needs = d.needs
          /\ op'[w].kind = c.kind /\ op'[w].file = c.file /\ op'[w].head = c.head
          /\ op'[w].content = c.content /\ op'[w].blob = c.blob
          /\ op'[w].base = c.base /\ op'[w].id = c.id
      BY <3>2 DEF Kept, OpsTyped, Requests
    <3>4. op' = [op EXCEPT ![w] = d] BY <3>1, <3>3, BecomesRequest DEF Kept
    <3>5. QED BY <3>1, <3>4
  <2>8. Fits(o)
    <3>1. StageFits(o) BY <2>1, <2>2, <2>5 DEF Fits, StageFits, Storing, Compacting
    <3>2. HeadFits(o) /\ CommitFits(o) BY <2>1 DEF Fits, HeadFits, CommitFits
    <3>3. BlobFits(o) /\ PatchFits(o) BY <2>2, <2>4 DEF BlobFits, PatchFits
    <3>4. QED BY <3>1, <3>2, <3>3 DEF Fits
  <2>9. ~Creates(o) /\ (Pends(o) => Pends(c)) BY DEF Pends, Creates, Makers
  <2>10. PICK d \in Requests : d = o BY <2>6
  <2>11. d.file = op[w].file BY <2>10
  <2>. HIDE DEF o
  <2>12. QED BY <2>1, <2>2, <2>7, <2>8, <2>9, <2>10, <2>11, OnwardStep
<1>3. QED BY <1>1, <1>2

LEMMA CompactFetchKept == ASSUME Kept, NEW w \in Writers, CompactFetch(w) PROVE Kept'
<1>1. CASE Abort(w) BY <1>1, AbortKept
<1>2. CASE ~Abort(w)
  <2>. DEFINE c == op[w]
              b == Patch(c.content, c.old.to)
              o == [pc |-> "putpatch", kind |-> c.kind, file |-> c.file, head |-> c.head, content |-> c.content,
                    needs |-> {}, blob |-> b, base |-> c.base, id |-> c.id, old |-> c.old]
  <2>1. c \in Requests /\ Fits(c) /\ queue \in Queues /\ blobs \subseteq Blobs BY Request0
  <2>2. /\ c.pc = "compactfetch"
        /\ op' = [op EXCEPT ![w].pc = "putpatch", ![w].needs = {}, ![w].blob = b]
        /\ UNCHANGED <<file, log, truth, made, blobs, queue, gc, contested, crashes>>
    BY <1>2 DEF CompactFetch, At
  <2>3. c.kind = "raw" /\ c.id # None /\ c.content \in Contents /\ c.old \in Blobs
    BY <2>1, <2>2 DEF Fits, StageFits, PatchFits, Compacting
  <2>4. b \in Blobs BY <2>3, FullPatchType DEF Blobs
  <2>5. o \in Requests BY <2>1, <2>4 DEF Requests, Stages, Maybe
  <2>6. op' = [op EXCEPT ![w] = o]
    <3>1. PICK d \in Requests : d = o BY <2>5
    <3>2. op' = [op EXCEPT ![w].pc = d.pc, ![w].needs = d.needs, ![w].blob = d.blob] BY <2>2, <3>1
    <3>3. /\ op' \in [Writers -> Requests] /\ \A x \in Writers \ {w} : op'[x] = op[x]
          /\ op'[w].pc = d.pc /\ op'[w].needs = d.needs /\ op'[w].blob = d.blob
          /\ op'[w].kind = c.kind /\ op'[w].file = c.file /\ op'[w].head = c.head
          /\ op'[w].content = c.content /\ op'[w].base = c.base
          /\ op'[w].id = c.id /\ op'[w].old = c.old
      BY <3>2 DEF Kept, OpsTyped, Requests
    <3>4. op' = [op EXCEPT ![w] = d] BY <3>1, <3>3, BecomesRequest DEF Kept
    <3>5. QED BY <3>1, <3>4
  <2>7. Fits(o)
    <3>1. StageFits(o) BY <2>1, <2>2, <2>3 DEF Fits, StageFits, Storing, Compacting
    <3>2. HeadFits(o) BY <2>1 DEF Fits, HeadFits
    <3>3. CommitFits(o) BY <2>1, <2>4 DEF Fits, CommitFits
    <3>4. BlobFits(o) BY DEF BlobFits
    <3>5. PatchFits(o) BY <2>1, <2>2 DEF Fits, PatchFits, Compacting
    <3>6. QED BY <3>1, <3>2, <3>3, <3>4, <3>5 DEF Fits
  <2>8. ~Creates(o) /\ (Pends(o) => Pends(c)) BY DEF Pends, Creates, Makers
  <2>9. PICK d \in Requests : d = o BY <2>5
  <2>10. d.file = op[w].file BY <2>9
  <2>. HIDE DEF o
  <2>11. QED BY <2>1, <2>2, <2>6, <2>7, <2>8, <2>9, <2>10, OnwardStep
<1>3. QED BY <1>1, <1>2

LEMMA PatchKept ==
  ASSUME Kept, NEW w \in Writers, PutPatch(w) \/ QueuePatch(w)
  PROVE  Kept'
<1>. DEFINE c == op[w]
<1>1. c \in Requests /\ Fits(c) /\ queue \in Queues /\ blobs \subseteq Blobs
  BY Request0
<1>2. PICK pc \in {"queuepatch", "reencode"} :
        /\ c.pc \in {"putpatch", "queuepatch"} /\ op' = [op EXCEPT ![w].pc = pc]
        /\ blobs' = blobs \cup {c.blob} \/ blobs' = blobs
        /\ queue' = queue \/ queue' = Enlist(queue, {c.blob})
        /\ UNCHANGED <<file, log, truth, made, gc, contested, crashes>>
  BY DEF PutPatch, QueuePatch, At, Go
<1>. DEFINE o == [pc |-> pc, kind |-> c.kind, file |-> c.file, head |-> c.head, content |-> c.content,
                  needs |-> c.needs, blob |-> c.blob, base |-> c.base, id |-> c.id, old |-> c.old]
<1>3. c.kind = "raw" /\ c.id # None /\ c.blob \in Blobs
  BY <1>1, <1>2 DEF Fits, StageFits, CommitFits, Compacting
<1>4. blobs' \subseteq Blobs /\ queue' \in Queues
  <2>1. blobs' \subseteq Blobs BY <1>1, <1>2, <1>3
  <2>2. queue' \in Queues BY <1>1, <1>2, QueueTypes
  <2>3. QED BY <2>1, <2>2
<1>5. o \in Requests BY <1>1 DEF Requests, Stages
<1>6. op' = [op EXCEPT ![w] = o]
  <2>1. PICK d \in Requests : d = o BY <1>5
  <2>2. op' = [op EXCEPT ![w].pc = d.pc] BY <1>2, <2>1
  <2>3. /\ op' \in [Writers -> Requests] /\ \A x \in Writers \ {w} : op'[x] = op[x]
        /\ op'[w].pc = d.pc
        /\ op'[w].kind = c.kind /\ op'[w].file = c.file /\ op'[w].head = c.head
        /\ op'[w].content = c.content /\ op'[w].needs = c.needs
        /\ op'[w].blob = c.blob /\ op'[w].base = c.base /\ op'[w].id = c.id /\ op'[w].old = c.old
    BY <2>2 DEF Kept, OpsTyped, Requests
  <2>4. op' = [op EXCEPT ![w] = d] BY <2>1, <2>3, BecomesRequest DEF Kept
  <2>5. QED BY <2>1, <2>4
<1>7. Fits(o)
  <2>1. StageFits(o) BY <1>1, <1>2, <1>3 DEF Fits, StageFits, Storing, Compacting
  <2>2. HeadFits(o) /\ CommitFits(o) BY <1>1 DEF Fits, HeadFits, CommitFits
  <2>3. BlobFits(o) BY DEF BlobFits
  <2>4. PatchFits(o) BY <1>1, <1>2 DEF Fits, PatchFits, Compacting
  <2>5. QED BY <2>1, <2>2, <2>3, <2>4 DEF Fits
<1>8. ~Creates(o) /\ (Pends(o) => Pends(c)) BY <1>2 DEF Pends, Creates
<1>9. PICK d \in Requests : d = o BY <1>5
<1>10. d.file = op[w].file BY <1>9
<1>. HIDE DEF o
<1>11. QED BY <1>2, <1>6, <1>4, <1>7, <1>8, <1>9, <1>10, OnwardStep

LEMMA QueueOldKept == ASSUME Kept, NEW w \in Writers, QueueOld(w) PROVE Kept'
<1>1. op' = [op EXCEPT ![w] = Idle] /\ UNCHANGED <<file, log, truth, made, blobs, gc, contested, crashes>>
  BY DEF QueueOld
<1>2. blobs' \subseteq Blobs /\ queue' \in Queues BY <1>1, Request0, QueueTypes DEF QueueOld
<1>3. QED BY <1>1, <1>2, IdleFits, LocalStep

(* Its stage is all that changes in a request.                             *)
LEMMA NextStage ==
  ASSUME Kept, NEW w \in Writers, NEW pc \in Stages, op' = [op EXCEPT ![w].pc = pc]
  PROVE  \E o \in Requests :
           /\ op' = [op EXCEPT ![w] = o]
           /\ o.pc = pc /\ o.kind = op[w].kind /\ o.file = op[w].file /\ o.head = op[w].head
           /\ o.content = op[w].content /\ o.needs = op[w].needs /\ o.blob = op[w].blob
           /\ o.base = op[w].base /\ o.id = op[w].id /\ o.old = op[w].old
<1>. DEFINE c == op[w]
<1>1. PICK o : o = op'[w] OBVIOUS
<1>2. /\ op' \in [Writers -> Requests] /\ \A x \in Writers \ {w} : op'[x] = op[x]
      /\ op'[w].pc = pc /\ op'[w].kind = c.kind /\ op'[w].file = c.file /\ op'[w].head = c.head
      /\ op'[w].content = c.content /\ op'[w].needs = c.needs /\ op'[w].blob = c.blob
      /\ op'[w].base = c.base /\ op'[w].id = c.id /\ op'[w].old = c.old
  BY DEF Kept, OpsTyped, Requests
<1>3. o \in Requests BY <1>1, <1>2
<1>4. op' = [op EXCEPT ![w] = o] BY <1>1, <1>2, <1>3, BecomesRequest DEF Kept
<1>5. QED BY <1>1, <1>2, <1>3, <1>4

LEMMA InsertFileKept == ASSUME Kept, NEW w \in Writers, InsertFile(w) PROVE Kept'
<1>. DEFINE c == op[w]
            f == c.file
<1>1. c \in Requests /\ Fits(c) BY Request0
<1>2. /\ c.pc = "insertfile" /\ file' = [file EXCEPT ![f] = [state |-> "live", head |-> None]]
      /\ op' = [op EXCEPT ![w].pc = "insert"]
      /\ UNCHANGED <<log, truth, made, blobs, queue, gc, contested, crashes>>
  BY DEF InsertFile, At, Go
<1>3. PICK o \in Requests :
        /\ op' = [op EXCEPT ![w] = o]
        /\ o.pc = "insert" /\ o.kind = c.kind /\ o.file = c.file /\ o.head = c.head
        /\ o.content = c.content /\ o.needs = c.needs /\ o.blob = c.blob
        /\ o.base = c.base /\ o.id = c.id /\ o.old = c.old
  BY <1>2, NextStage DEF Stages
<1>4. /\ c.kind = "create" /\ c.head = None /\ c.id = None /\ f \in Files /\ c.content \in Contents
      /\ c.base = None /\ c.blob \in Blobs /\ c.blob = Full(c.content)
  BY <1>1, <1>2 DEF Fits, StageFits, BlobFits, Storing
<1>5. Creates(c) BY <1>2, <1>4 DEF Creates
<1>6. file[f].state = "absent" /\ \A x \in Writers \ {w} : op[x].file # f BY <1>5 DEF Kept, MadeAlone
<1>7. TypeOK' BY <1>2, <1>4 DEF Kept, TypeOK, Maybe
<1>8. /\ \A g : g # f => (Live(g) <=> Live(g)')
      /\ \A g : Live(g) => Live(g)'
      /\ \A g \in Files : g # f => file'[g] = file[g]
      /\ file'[f].head = None
  BY <1>2, <1>4, <1>6 DEF Live, Kept, TypeOK
<1>9. \A x \in Requests : Fits(x) /\ x.file # f => Fits(x)'
  BY <1>2, <1>8 DEF Fits, StageFits, HeadFits, CommitFits, BlobFits, PatchFits, InLog, Falls
<1>10. Fits(o)'
  BY <1>3, <1>4 DEF Fits, StageFits, HeadFits, CommitFits, BlobFits, PatchFits, Storing, Compacting
<1>11. ~Creates(o) BY <1>3 DEF Creates
<1>12. OpsTyped' /\ OpsFit' BY <1>3, <1>5, <1>9, <1>10, OpsStep
<1>13. \A x \in Writers : x # w /\ Creates(op[x]) => file'[op[x].file] = file[op[x].file]
  <2>1. TAKE x \in Writers
  <2>2. HAVE x # w /\ Creates(op[x])
  <2>3. op[x].file \in Files /\ op[x].file # f BY <1>6, <2>2, Request0 DEF Creates, Idle
  <2>4. QED BY <1>8, <2>3
<1>14. MadeAlone' BY <1>3, <1>11, <1>13, AloneStep
<1>15. RoomLeft' BY <1>2, <1>3, RoomStep DEF Pends
<1>16. Chained' BY <1>2 DEF Kept, Chained, InLog, Falls, Climbs
<1>17. Rooted' BY <1>2, <1>8 DEF Kept, Rooted, InLog
<1>18. HeadInLog' BY <1>2, <1>8 DEF Kept, HeadInLog, InLog
<1>19. gc' \in Sweeper BY <1>2 DEF Kept
<1>20. QED BY <1>7, <1>12, <1>14, <1>15, <1>16, <1>17, <1>18, <1>19 DEF Kept

LEMMA UpdateFileKept == ASSUME Kept, NEW w \in Writers, UpdateFile(w) PROVE Kept'
<1>1. CASE Abort(w) BY <1>1, AbortKept
<1>2. CASE ~Abort(w)
  <2>. DEFINE c == op[w]
              f == c.file
  <2>1. c \in Requests /\ Fits(c) /\ queue \in Queues BY Request0
  <2>2. /\ c.pc = "update" /\ Live(f) /\ file' = [file EXCEPT ![f].head = Written(w)]
        /\ \/ c.kind = "raw" /\ op' = [op EXCEPT ![w].pc = "compact"] /\ UNCHANGED queue
           \/ op' = [op EXCEPT ![w] = Idle] /\ queue' = Without(queue, {w})
        /\ UNCHANGED <<log, truth, made, blobs, gc, contested, crashes>>
    BY <1>2 DEF UpdateFile, At, Go, Finish
  <2>3. PICK o \in Requests :
          /\ op' = [op EXCEPT ![w] = o]
          /\ \/ o = Idle
             \/ /\ c.kind = "raw" /\ o.pc = "compact" /\ o.kind = c.kind /\ o.file = c.file /\ o.head = c.head
                /\ o.content = c.content /\ o.needs = c.needs /\ o.blob = c.blob
                /\ o.base = c.base /\ o.id = c.id /\ o.old = c.old
    <3>1. CASE op' = [op EXCEPT ![w] = Idle] BY <3>1, IdleFits
    <3>2. CASE c.kind = "raw" /\ op' = [op EXCEPT ![w].pc = "compact"]
      <4>1. "compact" \in Stages BY DEF Stages
      <4>2. PICK o \in Requests :
              /\ op' = [op EXCEPT ![w] = o]
              /\ o.pc = "compact" /\ o.kind = c.kind /\ o.file = c.file /\ o.head = c.head
              /\ o.content = c.content /\ o.needs = c.needs /\ o.blob = c.blob
              /\ o.base = c.base /\ o.id = c.id /\ o.old = c.old
        BY <3>2, <4>1, NextStage
      <4>3. QED BY <3>2, <4>2
    <3>3. QED BY <2>2, <3>1, <3>2
  <2>4. /\ Written(w) \in Maybe(Ids)
        /\ Written(w) # None => InLog(Written(w)) /\ log[Written(w)].file = f
    BY <2>1, <2>2 DEF Written, Fits, StageFits, HeadFits, CommitFits, Requests
  <2>5. f \in Files /\ file[f].state = "live" BY <2>2 DEF Live
  <2>6. /\ \A g : Live(g)' <=> Live(g)
        /\ \A g \in Files : g # f => file'[g] = file[g]
        /\ file'[f].head = Written(w)
    BY <2>2, <2>5 DEF Live, Kept, TypeOK
  <2>7. queue' \in Queues BY <2>1, <2>2, QueueTypes
  <2>8. TypeOK'
    <3>1. file' \in [Files -> [state: {"absent", "live", "purged"}, head: Maybe(Ids)]]
      BY <2>2, <2>4, <2>5 DEF Kept, TypeOK
    <3>2. \A g \in Files : file'[g].state # "live" => file'[g].head = None
      BY <2>2, <2>5 DEF Kept, TypeOK
    <3>3. QED BY <2>2, <2>7, <3>1, <3>2 DEF Kept, TypeOK, Queues
  <2>9. \A x \in Requests : Fits(x) => Fits(x)'
    BY <2>2, <2>6 DEF Fits, StageFits, HeadFits, CommitFits, BlobFits, PatchFits, InLog, Falls
  <2>10. Fits(o)
    <3>1. CASE o = Idle BY <3>1, IdleFits
    <3>2. CASE o # Idle
      <4>1. /\ c.kind = "raw" /\ o.pc = "compact" /\ o.kind = c.kind /\ o.file = c.file /\ o.head = c.head
            /\ o.content = c.content /\ o.blob = c.blob /\ o.id = c.id
        BY <2>3, <3>2
      <4>2. StageFits(o) BY <2>1, <2>2, <4>1 DEF Fits, StageFits, Storing, Compacting
      <4>3. HeadFits(o) /\ CommitFits(o) BY <2>1, <4>1 DEF Fits, HeadFits, CommitFits
      <4>4. BlobFits(o) /\ PatchFits(o) BY <4>1 DEF BlobFits, PatchFits
      <4>5. QED BY <4>2, <4>3, <4>4 DEF Fits
    <3>3. QED BY <3>1, <3>2
  <2>11. OpsTyped' /\ OpsFit' BY <2>3, <2>9, <2>10, OpsStep
  <2>12. ~Creates(o) /\ (Pends(o) => Pends(c)) /\ (o.file = None \/ o.file = c.file)
    BY <2>3, IdleFits, IdleFields DEF Creates, Pends
  <2>13. \A x \in Writers : x # w /\ Creates(op[x]) => file'[op[x].file] = file[op[x].file]
    <3>1. TAKE x \in Writers
    <3>2. HAVE x # w /\ Creates(op[x])
    <3>3. op[x].file \in Files BY <3>2, Request0 DEF Creates, Idle
    <3>4. file[op[x].file].state = "absent" BY <3>2 DEF Kept, MadeAlone
    <3>5. QED BY <2>5, <2>6, <3>3, <3>4
  <2>14. MadeAlone' BY <2>3, <2>12, <2>13, AloneStep
  <2>15. RoomLeft' BY <2>2, <2>3, <2>12, RoomStep
  <2>16. Chained' BY <2>2 DEF Kept, Chained, InLog, Falls, Climbs
  <2>17. Rooted' BY <2>2, <2>6 DEF Kept, Rooted, InLog
  <2>18. HeadInLog' BY <2>2, <2>4, <2>6 DEF Kept, HeadInLog, InLog
  <2>19. gc' \in Sweeper BY <2>2 DEF Kept
  <2>20. QED BY <2>8, <2>11, <2>14, <2>15, <2>16, <2>17, <2>18, <2>19 DEF Kept
<1>3. QED BY <1>1, <1>2

(* There is an id for the commit of a request, and it is a new one.        *)
LEMMA NextId ==
  ASSUME Kept, NEW w \in Writers, Pends(op[w])
  PROVE  made + 1 \in Ids /\ ~InLog(made + 1)
<1>. DEFINE P == {x \in Writers : Pends(op[x])}
<1>1. w \in P OBVIOUS
<1>2. IsFiniteSet(P) BY VersioningAssumption, FS_Subset
<1>3. made + Cardinality(P) <= MaxCommits BY DEF Kept, RoomLeft
<1>. HIDE DEF P
<1>4. Cardinality(P) \in Nat /\ Cardinality(P) # 0 BY <1>1, <1>2, FS_CardinalityType, FS_EmptySet
<1>5. MaxCommits \in Nat /\ made \in Nat BY IdsNumbers DEF Kept, TypeOK
<1>6. made + 1 \in Ids /\ ~(made + 1 <= made) BY <1>3, <1>4, <1>5 DEF Ids
<1>7. QED BY <1>6 DEF Kept, Rooted

LEMMA InsertCommitKept == ASSUME Kept, NEW w \in Writers, InsertCommit(w) PROVE Kept'
<1>1. CASE Abort(w) BY <1>1, AbortKept
<1>2. CASE ~Abort(w)
  <2>1. PICK c \in Requests : c = op[w] /\ Fits(c) BY Request0
  <2>2. PICK i, f : i = made + 1 /\ f = c.file OBVIOUS
  <2>3. /\ c.pc = "insert" /\ Live(f) /\ made' = i
        /\ log' = [log EXCEPT ![i] = [file |-> f, parent |-> c.head, blob |-> c.blob, base |-> c.base]]
        /\ truth' = [truth EXCEPT ![i] = c.content]
        /\ op' = [op EXCEPT ![w].pc = "update", ![w].id = i]
        /\ UNCHANGED <<file, blobs, queue, gc, contested, crashes>>
    BY <1>2, <2>1, <2>2 DEF InsertCommit, At
  <2>4. /\ c.kind \in {"create", "commit", "raw"} /\ c.id = None /\ f \in Files /\ c.content \in Contents
        /\ c.blob \in Blobs /\ c.head \in Maybe(Ids)
        /\ c.base = None => c.blob = Full(c.content)
        /\ c.base # None => c.kind = "commit" /\ c.base = c.head /\ c.blob = Patch(truth[c.base], c.content)
        /\ c.head # None => c.head \in Ids /\ c.head <= made /\ InLog(c.head) /\ log[c.head].file = f
    BY <2>1, <2>2, <2>3 DEF Fits, StageFits, HeadFits, BlobFits, Storing, Requests, Maybe
  <2>5. made \in Nat /\ i \in Nat /\ i > made /\ made <= i
    BY <2>2, IdsNumbers DEF Kept, TypeOK
  <2>6. i \in Ids BY <2>1, <2>2, <2>4, NextId DEF Pends, Makers
  <2>7. ~InLog(i) BY <2>1, <2>2, <2>4, NextId DEF Pends, Makers
  <2>8. i # None BY <2>6, IdsNumbers
  <2>. DEFINE row == [file |-> f, parent |-> c.head, blob |-> c.blob, base |-> c.base]
  <2>9. row \in Commit /\ row # None
    BY <2>1, <2>4, NoneAssumption DEF Commit, Requests, Maybe
  <2>10. /\ log' \in [Ids -> Maybe(Commit)] /\ truth' \in [Ids -> Contents \cup {NoContent}]
         /\ log'[i] = row /\ truth'[i] = c.content
         /\ \A j \in Ids : j # i => log'[j] = log[j] /\ truth'[j] = truth[j]
    BY <2>3, <2>4, <2>6, <2>9 DEF Kept, TypeOK, Maybe
  <2>11. /\ row.file = f /\ row.base = c.base /\ row.blob = c.blob OBVIOUS
  <2>. HIDE DEF row
  <2>12. /\ InLog(i)' /\ \A j \in Ids : InLog(j) => j # i /\ InLog(j)'
         /\ \A j \in Ids : j # i => (InLog(j)' <=> InLog(j))
    BY <2>6, <2>7, <2>9, <2>10 DEF InLog
  <2>13. \A j \in Ids : InLog(j) => (Falls(j)' <=> Falls(j)) /\ (Climbs(j)' <=> Climbs(j))
    BY <2>10, <2>12 DEF Falls, Climbs
  <2>14. \A g : Live(g)' <=> Live(g) BY <2>3 DEF Live
  <2>15. TypeOK'
    <3>1. made' \in 0..MaxCommits BY <2>3, <2>5, <2>6, IdsNumbers DEF Ids
    <3>2. QED BY <2>3, <2>10, <3>1 DEF Kept, TypeOK
  <2>16. ASSUME NEW x \in Requests, Fits(x) PROVE Fits(x)'
    <3>1. x.head \in Maybe(Ids) /\ x.id \in Maybe(Ids) /\ x.base \in Maybe(Ids) BY DEF Requests
    <3>2. StageFits(x)' BY <2>16 DEF Fits, StageFits
    <3>3. HeadFits(x)'
      <4>1. SUFFICES ASSUME x.head # None
                     PROVE  /\ x.head <= made'
                            /\ InLog(x.head)' => log'[x.head].file = x.file
                            /\ Live(x.file)' => InLog(x.head)'
        BY DEF HeadFits
      <4>2. x.head \in Ids /\ x.head <= made BY <2>16, <3>1, <4>1 DEF Fits, HeadFits, Maybe
      <4>3. x.head # i /\ x.head <= made' BY <2>3, <2>5, <4>2, IdsNumbers
      <4>4. QED BY <2>10, <2>12, <2>14, <2>16, <4>1, <4>2, <4>3 DEF Fits, HeadFits
    <3>4. CommitFits(x)'
      <4>1. SUFFICES ASSUME x.id # None
                     PROVE  /\ x.id <= made'
                            /\ x.head # None => x.head < x.id
                            /\ x.kind = "raw" => x.blob \in Blobs
                            /\ InLog(x.id)' => log'[x.id].file = x.file
                            /\ Live(x.file)' => /\ InLog(x.id)' /\ truth'[x.id] = x.content
                                                /\ x.kind = "raw" => ~Falls(x.id)'
        BY DEF CommitFits
      <4>2. x.id \in Ids /\ x.id <= made BY <2>16, <3>1, <4>1 DEF Fits, CommitFits, Maybe
      <4>3. x.id # i /\ x.id <= made' BY <2>3, <2>5, <4>2, IdsNumbers
      <4>4. QED BY <2>10, <2>12, <2>13, <2>14, <2>16, <4>1, <4>2, <4>3 DEF Fits, CommitFits
    <3>5. x.head # None /\ Live(x.file) => x.head \in Ids /\ InLog(x.head) /\ truth'[x.head] = truth[x.head]
      BY <2>10, <2>12, <2>16, <3>1 DEF Fits, HeadFits, Maybe
    <3>6. BlobFits(x)' BY <2>14, <2>16, <3>5 DEF Fits, BlobFits
    <3>7. PatchFits(x)' BY <2>14, <2>16, <3>5 DEF Fits, PatchFits
    <3>8. QED BY <3>2, <3>3, <3>4, <3>6, <3>7 DEF Fits
  <2>17. PICK o : o = op'[w] OBVIOUS
  <2>18. /\ op' \in [Writers -> Requests] /\ \A x \in Writers \ {w} : op'[x] = op[x]
         /\ o.pc = "update" /\ o.kind = c.kind /\ o.file = f /\ o.head = c.head
         /\ o.content = c.content /\ o.needs = c.needs /\ o.blob = c.blob
         /\ o.base = c.base /\ o.id = i /\ o.old = c.old
    <3>1. i \in Maybe(Ids) /\ "update" \in Stages BY <2>6 DEF Maybe, Stages
    <3>2. op' \in [Writers -> Requests] /\ \A x \in Writers \ {w} : op'[x] = op[x]
      BY <2>3, <3>1 DEF Kept, OpsTyped, Requests
    <3>3. /\ op'[w].pc = "update" /\ op'[w].kind = op[w].kind /\ op'[w].file = op[w].file
          /\ op'[w].head = op[w].head /\ op'[w].content = op[w].content /\ op'[w].needs = op[w].needs
          /\ op'[w].blob = op[w].blob /\ op'[w].base = op[w].base /\ op'[w].id = i /\ op'[w].old = op[w].old
      BY <2>3 DEF Kept, OpsTyped, Requests
    <3>4. QED BY <2>1, <2>2, <2>17, <3>2, <3>3
  <2>19. o \in Requests /\ op' = [op EXCEPT ![w] = o]
    <3>1. o \in Requests BY <2>17, <2>18
    <3>2. /\ op'[w].pc = o.pc /\ op'[w].kind = o.kind /\ op'[w].file = o.file /\ op'[w].head = o.head
          /\ op'[w].content = o.content /\ op'[w].needs = o.needs /\ op'[w].blob = o.blob
          /\ op'[w].base = o.base /\ op'[w].id = o.id /\ op'[w].old = o.old
      BY <2>17
    <3>3. QED BY <2>18, <3>1, <3>2, BecomesRequest DEF Kept
  <2>20. Fits(o)'
    <3>1. StageFits(o)' BY <2>1, <2>2, <2>4, <2>8, <2>18 DEF Fits, StageFits, Storing, Compacting
    <3>2. HeadFits(o)'
      <4>1. HeadFits(c)' BY <2>1, <2>16 DEF Fits
      <4>2. QED BY <2>2, <2>18, <4>1 DEF HeadFits
    <3>3. CommitFits(o)'
      <4>1. ASSUME c.head # None PROVE c.head < i
        <5>1. c.head \in Nat /\ c.head <= made BY <2>4, <4>1, IdsNumbers
        <5>2. QED BY <2>5, <5>1
      <4>2. c.kind = "raw" => ~Falls(i)' BY <2>4, <2>10, <2>11 DEF Falls
      <4>3. o.id <= made' BY <2>3, <2>5, <2>18
      <4>4. /\ o.id = i /\ o.head = c.head /\ o.kind = c.kind /\ o.blob \in Blobs
            /\ log'[i].file = o.file /\ truth'[i] = o.content /\ InLog(i)'
        BY <2>4, <2>10, <2>11, <2>12, <2>18
      <4>5. InLog(o.id)' /\ (o.kind = "raw" => ~Falls(o.id)')
        BY <4>2, <4>4 DEF InLog, Falls
      <4>6. QED BY <4>1, <4>3, <4>4, <4>5 DEF CommitFits
    <3>4. BlobFits(o)' /\ PatchFits(o)' BY <2>18 DEF BlobFits, PatchFits, Compacting
    <3>5. QED BY <3>1, <3>2, <3>3, <3>4 DEF Fits
  <2>21. OpsTyped' /\ OpsFit' BY <2>16, <2>19, <2>20, OpsStep
  <2>22. ~Creates(o) BY <2>18 DEF Creates
  <2>23. MadeAlone'
    <3>1. file' = file /\ o.file = op[w].file BY <2>1, <2>2, <2>3, <2>18
    <3>2. QED BY <2>19, <2>22, <3>1, AloneStep
  <2>24. RoomLeft'
    <3>1. Pends(c) /\ ~Pends(o) BY <2>4, <2>8, <2>18 DEF Pends, Makers
    <3>2. QED BY <2>1, <2>2, <2>3, <2>19, <3>1, RoomStep
  <2>25. ASSUME NEW j \in Ids, InLog(j)', NEW x, x = log'[j].base
         PROVE  /\ truth'[j] \in Contents
                /\ x = None => log'[j].blob = Full(truth'[j])
                /\ x # None =>
                     /\ InLog(x)' /\ log'[x].file = log'[j].file
                     /\ log'[j].blob = Patch(truth'[x], truth'[j])
                     /\ x # j
                     /\ Climbs(j)' => ~Falls(x)'
    <3>1. CASE j = i
      <4>1. x = c.base BY <2>10, <2>11, <2>25, <3>1
      <4>2. CASE c.base = None BY <2>4, <2>10, <2>11, <3>1, <4>1, <4>2
      <4>3. CASE c.base # None
        <5>1. x \in Ids /\ InLog(x) /\ x <= made /\ log[x].file = f BY <2>4, <4>1, <4>3
        <5>2. x # i /\ ~(x > i) BY <2>5, <5>1, IdsNumbers
        <5>3. log'[x] = log[x] /\ truth'[x] = truth[x] BY <2>10, <5>1, <5>2
        <5>4. ~Climbs(i)' BY <2>10, <2>11, <4>1, <5>2 DEF Climbs
        <5>5. InLog(x)' BY <2>12, <5>1
        <5>6. truth[c.base] = truth'[x] /\ log'[j].blob = c.blob /\ log'[j].file = f /\ truth'[j] = c.content
          BY <2>10, <2>11, <3>1, <4>1, <5>3
        <5>7. QED BY <2>4, <3>1, <4>1, <4>3, <5>1, <5>2, <5>3, <5>4, <5>5, <5>6
      <4>4. QED BY <4>2, <4>3
    <3>2. CASE j # i
      <4>1. InLog(j) /\ log'[j] = log[j] /\ truth'[j] = truth[j] BY <2>10, <2>12, <2>25, <3>2
      <4>2. CASE x = None BY <2>25, <4>1, <4>2 DEF Kept, Chained
      <4>3. CASE x # None
        <5>1. x \in Ids BY <2>25, <4>1, <4>3, LogRow DEF Kept, TypeOK, LogTyped, Maybe
        <5>2. InLog(x) BY <2>25, <4>1, <4>3 DEF Kept, Chained
        <5>3. log'[x] = log[x] /\ truth'[x] = truth[x]
          BY <2>10, <2>12, <5>1, <5>2
        <5>4. InLog(x)' /\ (Falls(x)' <=> Falls(x)) /\ (Climbs(j)' <=> Climbs(j))
          BY <2>12, <2>13, <4>1, <5>1, <5>2
        <5>5. /\ truth[j] \in Contents /\ log[x].file = log[j].file
              /\ log[j].blob = Patch(truth[x], truth[j]) /\ x # j /\ (Climbs(j) => ~Falls(x))
          BY <2>25, <4>1, <4>3 DEF Kept, Chained
        <5>6. QED BY <4>1, <4>3, <5>3, <5>4, <5>5
      <4>4. QED BY <4>2, <4>3
    <3>3. QED BY <3>1, <3>2
  <2>26. Chained' BY <2>25 DEF Chained, InLog, Falls, Climbs
  <2>27. Rooted'
    <3>1. ASSUME NEW j \in Ids, InLog(j)', NEW g, g = log'[j].file PROVE j <= made' /\ Live(g)'
      <4>1. CASE j = i BY <2>3, <2>5, <2>10, <2>11, <2>14, <3>1, <4>1
      <4>2. CASE j # i
        <5>1. InLog(j) /\ log'[j] = log[j] BY <2>10, <2>12, <3>1, <4>2
        <5>2. j <= made /\ Live(g) BY <3>1, <5>1 DEF Kept, Rooted
        <5>3. j \in Nat BY IdsNumbers
        <5>4. QED BY <2>3, <2>5, <2>14, <5>2, <5>3
      <4>3. QED BY <4>1, <4>2
    <3>2. QED BY <3>1 DEF Rooted, Live
  <2>28. HeadInLog'
    <3>1. ASSUME NEW g \in Files, NEW x, x = file[g].head, x # None
          PROVE  InLog(x)' /\ log'[x].file = g
      <4>1. x \in Ids BY <3>1 DEF Kept, TypeOK, Maybe
      <4>2. InLog(x) /\ log[x].file = g BY <3>1 DEF Kept, HeadInLog
      <4>3. QED BY <2>10, <2>12, <4>1, <4>2
    <3>2. QED BY <2>3, <3>1 DEF HeadInLog, InLog
  <2>29. gc' \in Sweeper BY <2>3 DEF Kept
  <2>30. QED BY <2>15, <2>21, <2>23, <2>24, <2>26, <2>27, <2>28, <2>29 DEF Kept
<1>3. QED BY <1>1, <1>2

(* What Reencode writes over the parent's storage fits its chain.          *)
LEMMA ReencodeKept == ASSUME Kept, NEW w \in Writers, Reencode(w) PROVE Kept'
<1>1. CASE Abort(w) BY <1>1, AbortKept
<1>2. CASE ~Abort(w)
  <2>1. PICK c \in Requests : c = op[w] /\ Fits(c) BY Request0
  <2>2. PICK h, i, f : h = c.head /\ i = c.id /\ f = c.file OBVIOUS
  <2>3. /\ c.pc = "reencode" /\ InLog(h) /\ log' = WithStorage(h, c.blob, i)
        /\ contested' = (contested \/ log[h].base # None)
        /\ op' = [op EXCEPT ![w].pc = "queueold"]
        /\ UNCHANGED <<file, truth, made, blobs, queue, gc, crashes>>
    BY <1>2, <2>1, <2>2 DEF Reencode, At, Go
  <2>4. "queueold" \in Stages BY DEF Stages
  <2>5. PICK o \in Requests :
          /\ op' = [op EXCEPT ![w] = o]
          /\ o.pc = "queueold" /\ o.kind = c.kind /\ o.file = c.file /\ o.head = c.head
          /\ o.content = c.content /\ o.needs = c.needs /\ o.blob = c.blob
          /\ o.base = c.base /\ o.id = c.id /\ o.old = c.old
    <3>1. PICK o \in Requests :
            /\ op' = [op EXCEPT ![w] = o]
            /\ o.pc = "queueold" /\ o.kind = op[w].kind /\ o.file = op[w].file /\ o.head = op[w].head
            /\ o.content = op[w].content /\ o.needs = op[w].needs /\ o.blob = op[w].blob
            /\ o.base = op[w].base /\ o.id = op[w].id /\ o.old = op[w].old
      BY <2>3, <2>4, NextStage
    <3>2. QED BY <2>1, <3>1
  <2>6. /\ h # None /\ i # None /\ c.kind = "raw" /\ c.content \in Contents /\ c.old \in Blobs
        /\ Live(f) => c.old = Full(truth[h])
        /\ c.blob = Patch(c.content, c.old.to) /\ c.blob \in Blobs
    BY <2>1, <2>2, <2>3 DEF Fits, StageFits, CommitFits, PatchFits, Compacting
  <2>7. h \in Ids /\ i \in Ids BY <2>1, <2>2, <2>6 DEF Requests, Maybe
  <2>8. log[h].file = f /\ Live(f)
    BY <2>1, <2>2, <2>3, <2>6, <2>7 DEF Fits, HeadFits, Kept, Rooted
  <2>9. h < i /\ InLog(i) /\ log[i].file = f /\ truth[i] = c.content /\ ~Falls(i)
    BY <2>1, <2>2, <2>6, <2>8 DEF Fits, CommitFits
  <2>10. i # h /\ ~(i < h) /\ i > h BY <2>7, <2>9, IdsNumbers
  <2>11. c.old.to = truth[h] BY <2>6, <2>8 DEF Full
  <2>12. log[h] \in Commit /\ log[h] # None BY <2>3, <2>7, LogRow DEF Kept, TypeOK, LogTyped, InLog
  <2>13. /\ log' \in [Ids -> Maybe(Commit)]
         /\ log'[h] \in Commit /\ log'[h].file = log[h].file /\ log'[h].blob = c.blob /\ log'[h].base = i
         /\ \A j \in Ids : j # h => log'[j] = log[j]
    <3>1. log \in [Ids -> Maybe(Commit)] BY DEF Kept, TypeOK
    <3>2. /\ log'[h] = [log[h] EXCEPT !.blob = c.blob, !.base = i]
          /\ \A j \in Ids : j # h => log'[j] = log[j]
          /\ DOMAIN log' = Ids /\ log' = [j \in Ids |-> log'[j]]
      BY <2>3, <2>7, <3>1 DEF WithStorage
    <3>3. /\ log'[h] \in Commit /\ log'[h].file = log[h].file /\ log'[h].blob = c.blob /\ log'[h].base = i
      BY <2>6, <2>7, <2>12, <3>2 DEF Commit
    <3>4. QED BY <3>1, <3>2, <3>3 DEF Maybe
  <2>14. \A j \in Ids : InLog(j)' <=> InLog(j)
    BY <2>12, <2>13, NoneAssumption DEF InLog
  <2>15. \A j \in Ids : InLog(j) => log'[j].file = log[j].file
    BY <2>13
  <2>16. \A j \in Ids : ~Falls(j) => ~Falls(j)'
    BY <2>10, <2>13 DEF Falls
  <2>17. \A g : Live(g)' <=> Live(g) BY <2>3 DEF Live
  <2>18. TypeOK'
    <3>1. contested' \in BOOLEAN BY <2>3 DEF Kept, TypeOK
    <3>2. QED BY <2>3, <2>13, <3>1 DEF Kept, TypeOK
  <2>19. ASSUME NEW x \in Requests, Fits(x) PROVE Fits(x)'
    <3>1. x.head \in Maybe(Ids) /\ x.id \in Maybe(Ids) BY DEF Requests
    <3>2. StageFits(x)' BY <2>19 DEF Fits, StageFits
    <3>3. HeadFits(x)' BY <2>3, <2>14, <2>15, <2>17, <2>19, <3>1 DEF Fits, HeadFits, Maybe
    <3>4. CommitFits(x)'
      BY <2>3, <2>14, <2>15, <2>16, <2>17, <2>19, <3>1 DEF Fits, CommitFits, Maybe
    <3>5. BlobFits(x)' BY <2>3, <2>17, <2>19 DEF Fits, BlobFits
    <3>6. PatchFits(x)' BY <2>3, <2>17, <2>19 DEF Fits, PatchFits
    <3>7. QED BY <3>2, <3>3, <3>4, <3>5, <3>6 DEF Fits
  <2>20. Fits(o)
    <3>1. StageFits(o) BY <2>1, <2>3, <2>5, <2>6, <2>2 DEF Fits, StageFits, Storing, Compacting
    <3>2. HeadFits(o) BY <2>1, <2>5 DEF Fits, HeadFits
    <3>3. CommitFits(o) BY <2>1, <2>5 DEF Fits, CommitFits
    <3>4. BlobFits(o) BY <2>5 DEF BlobFits
    <3>5. PatchFits(o) BY <2>1, <2>3, <2>5 DEF Fits, PatchFits, Compacting
    <3>6. QED BY <3>1, <3>2, <3>3, <3>4, <3>5 DEF Fits
  <2>21. OpsTyped' /\ OpsFit' BY <2>5, <2>19, <2>20, OpsStep
  <2>22. ~Creates(o) /\ (Pends(o) => Pends(c)) BY <2>5 DEF Creates, Pends
  <2>23. MadeAlone' BY <2>1, <2>3, <2>5, <2>22, AloneStep
  <2>24. RoomLeft' BY <2>1, <2>3, <2>5, <2>22, RoomStep
  <2>25. ASSUME NEW j \in Ids, InLog(j), NEW x, x = log'[j].base
         PROVE  /\ truth[j] \in Contents
                /\ x = None => log'[j].blob = Full(truth[j])
                /\ x # None =>
                     /\ InLog(x)' /\ log'[x].file = log'[j].file
                     /\ log'[j].blob = Patch(truth[x], truth[j])
                     /\ x # j
                     /\ Climbs(j)' => ~Falls(x)'
    <3>1. truth[j] \in Contents BY <2>25 DEF Kept, Chained
    <3>2. CASE j = h
      <4>1. x = i /\ x # None BY <2>6, <2>13, <2>25, <3>2
      <4>2. InLog(x)' /\ log'[x].file = f /\ ~Falls(x)'
        BY <2>7, <2>9, <2>10, <2>13, <2>14, <2>16, <4>1
      <4>3. log'[j].blob = Patch(truth[x], truth[j]) /\ log'[j].file = f
        BY <2>6, <2>8, <2>9, <2>11, <2>13, <3>2, <4>1
      <4>4. QED BY <2>10, <3>1, <3>2, <4>1, <4>2, <4>3
    <3>3. CASE j # h
      <4>1. log'[j] = log[j] /\ x = log[j].base BY <2>13, <2>25, <3>3
      <4>2. CASE x = None BY <2>25, <3>1, <4>1, <4>2 DEF Kept, Chained
      <4>3. CASE x # None
        <5>1. x \in Ids BY <2>25, <4>1, <4>3, LogRow DEF Kept, TypeOK, LogTyped, Maybe
        <5>2. /\ InLog(x) /\ log[x].file = log[j].file /\ log[j].blob = Patch(truth[x], truth[j])
              /\ x # j /\ (Climbs(j) => ~Falls(x))
          BY <2>25, <4>1, <4>3 DEF Kept, Chained
        <5>3. Climbs(j)' <=> Climbs(j) BY <4>1 DEF Climbs
        <5>4. InLog(x)' /\ log'[x].file = log[x].file BY <2>14, <2>15, <5>1, <5>2
        <5>5. QED BY <2>16, <3>1, <4>1, <4>3, <5>1, <5>2, <5>3, <5>4
      <4>4. QED BY <4>2, <4>3
    <3>4. QED BY <3>2, <3>3
  <2>26. Chained'
    <3>1. ASSUME NEW j \in Ids, InLog(j)', NEW x, x = log'[j].base
          PROVE  /\ truth'[j] \in Contents
                 /\ x = None => log'[j].blob = Full(truth'[j])
                 /\ x # None =>
                      /\ InLog(x)' /\ log'[x].file = log'[j].file
                      /\ log'[j].blob = Patch(truth'[x], truth'[j])
                      /\ x # j
                      /\ Climbs(j)' => ~Falls(x)'
      <4>1. InLog(j) /\ truth' = truth BY <2>3, <2>14, <3>1
      <4>2. QED BY <2>25, <3>1, <4>1
    <3>2. QED BY <3>1 DEF Chained, InLog, Falls, Climbs
  <2>27. Rooted'
    <3>1. ASSUME NEW j \in Ids, InLog(j)', NEW g, g = log'[j].file PROVE j <= made' /\ Live(g)'
      BY <2>3, <2>14, <2>15, <2>17, <3>1 DEF Kept, Rooted
    <3>2. QED BY <3>1 DEF Rooted, Live
  <2>28. HeadInLog'
    <3>1. ASSUME NEW g \in Files, NEW x, x = file[g].head, x # None
          PROVE  InLog(x)' /\ log'[x].file = g
      <4>1. x \in Ids BY <3>1 DEF Kept, TypeOK, Maybe
      <4>2. InLog(x) /\ log[x].file = g BY <3>1 DEF Kept, HeadInLog
      <4>3. QED BY <2>14, <2>15, <4>1, <4>2
    <3>2. QED BY <2>3, <3>1 DEF HeadInLog, InLog
  <2>29. gc' \in Sweeper BY <2>3 DEF Kept
  <2>30. QED BY <2>18, <2>21, <2>23, <2>24, <2>26, <2>27, <2>28, <2>29 DEF Kept
<1>3. QED BY <1>1, <1>2

LEMMA PurgeFileKept == ASSUME Kept, NEW f \in Files, PurgeFile(f) PROVE Kept'
<1>1. PICK H : H = History(f) OBVIOUS
<1>2. /\ Live(f) /\ log' = [i \in Ids |-> IF i \in H THEN None ELSE log[i]]
      /\ truth' = [i \in Ids |-> IF i \in H THEN NoContent ELSE truth[i]]
      /\ file' = [file EXCEPT ![f] = [state |-> "purged", head |-> None]]
      /\ UNCHANGED <<made, blobs, op, gc, contested, crashes>>
  BY <1>1 DEF PurgeFile
<1>3. queue' \in Queues BY QueueTypes DEF PurgeFile, Kept, TypeOK, Queues
<1>4. \A j \in Ids : j \in H <=> InLog(j) /\ log[j].file = f
  BY <1>1 DEF History
<1>5. /\ \A j \in Ids : j \notin H => log'[j] = log[j] /\ truth'[j] = truth[j]
      /\ \A j \in Ids : j \in H => log'[j] = None
  BY <1>2
<1>6. /\ \A j \in Ids : InLog(j) /\ log[j].file # f => InLog(j)'
      /\ \A j \in Ids : InLog(j)' => InLog(j) /\ log[j].file # f /\ j \notin H
  BY <1>4, <1>5 DEF InLog
<1>7. \A j \in Ids : InLog(j)' => (Falls(j)' <=> Falls(j)) /\ (Climbs(j)' <=> Climbs(j))
  BY <1>5, <1>6 DEF Falls, Climbs
<1>8. /\ ~Live(f)' /\ \A g : g # f => (Live(g)' <=> Live(g))
      /\ \A g \in Files : g # f => file'[g] = file[g]
      /\ file'[f].head = None
  BY <1>2 DEF Live, Kept, TypeOK
<1>9. TypeOK'
  <2>1. /\ file' \in [Files -> [state: {"absent", "live", "purged"}, head: Maybe(Ids)]]
        /\ \A g \in Files : file'[g].state # "live" => file'[g].head = None
    BY <1>2 DEF Kept, TypeOK, Maybe
  <2>2. log' \in [Ids -> Maybe(Commit)] /\ truth' \in [Ids -> Contents \cup {NoContent}]
    BY <1>2 DEF Kept, TypeOK, Maybe
  <2>3. QED BY <1>2, <1>3, <2>1, <2>2 DEF Kept, TypeOK, Queues
<1>10. ASSUME NEW x \in Requests, Fits(x) PROVE Fits(x)'
  <2>1. x.head \in Maybe(Ids) /\ x.id \in Maybe(Ids) BY DEF Requests
  <2>2. StageFits(x)' BY <1>10 DEF Fits, StageFits
  <2>3. Live(x.file)' => Live(x.file) /\ x.file # f BY <1>8
  <2>4. x.head # None => x.head \in Ids /\ (Live(x.file)' => InLog(x.head) /\ log[x.head].file = x.file)
    BY <1>10, <2>1, <2>3 DEF Fits, HeadFits, Maybe
  <2>5. x.head # None /\ Live(x.file)' => InLog(x.head)' /\ x.head \notin H /\ truth'[x.head] = truth[x.head]
    BY <1>5, <1>6, <2>3, <2>4
  <2>6. HeadFits(x)'
    <3>1. x.head # None /\ InLog(x.head)' => log'[x.head].file = x.file
      BY <1>5, <1>6, <1>10, <2>4 DEF Fits, HeadFits
    <3>2. x.head # None => x.head <= made' BY <1>2, <1>10 DEF Fits, HeadFits
    <3>3. QED BY <2>5, <3>1, <3>2 DEF HeadFits
  <2>7. CommitFits(x)'
    <3>1. SUFFICES ASSUME x.id # None
                   PROVE  /\ x.id <= made'
                          /\ x.head # None => x.head < x.id
                          /\ x.kind = "raw" => x.blob \in Blobs
                          /\ InLog(x.id)' => log'[x.id].file = x.file
                          /\ Live(x.file)' => /\ InLog(x.id)' /\ truth'[x.id] = x.content
                                              /\ x.kind = "raw" => ~Falls(x.id)'
      BY DEF CommitFits
    <3>2. x.id \in Ids BY <2>1, <3>1 DEF Maybe
    <3>3. /\ x.id <= made' /\ (x.head # None => x.head < x.id) /\ (x.kind = "raw" => x.blob \in Blobs)
          /\ InLog(x.id) => log[x.id].file = x.file
      BY <1>2, <1>10, <3>1 DEF Fits, CommitFits
    <3>4. InLog(x.id)' => log'[x.id].file = x.file BY <1>5, <1>6, <3>2, <3>3
    <3>5. ASSUME Live(x.file)'
          PROVE  InLog(x.id)' /\ truth'[x.id] = x.content /\ (x.kind = "raw" => ~Falls(x.id)')
      <4>1. InLog(x.id) /\ truth[x.id] = x.content /\ (x.kind = "raw" => ~Falls(x.id)) /\ log[x.id].file # f
        BY <1>10, <2>3, <3>1, <3>3, <3>5 DEF Fits, CommitFits
      <4>2. InLog(x.id)' /\ x.id \notin H BY <1>6, <3>2, <4>1
      <4>3. QED BY <1>5, <1>7, <3>2, <4>1, <4>2
    <3>6. QED BY <3>3, <3>4, <3>5
  <2>8. BlobFits(x)' BY <1>10, <2>3, <2>5 DEF Fits, BlobFits
  <2>9. PatchFits(x)' BY <1>10, <2>3, <2>5 DEF Fits, PatchFits
  <2>10. QED BY <2>2, <2>6, <2>7, <2>8, <2>9 DEF Fits
<1>11. OpsTyped' BY <1>2 DEF Kept, OpsTyped
<1>12. OpsFit'
  <2>1. ASSUME NEW x \in Writers, NEW d, d = op[x] PROVE Fits(d)'
    BY <1>10, <2>1 DEF Kept, OpsTyped, OpsFit
  <2>2. QED BY <1>2, <2>1 DEF OpsFit
<1>13. MadeAlone'
  <2>1. ASSUME NEW x \in Writers, NEW d, d = op[x], Creates(d)
        PROVE  file'[d.file].state = "absent" /\ \A y \in Writers \ {x} : op[y].file # d.file
    <3>1. file[d.file].state = "absent" /\ \A y \in Writers \ {x} : op[y].file # d.file
      BY <2>1 DEF Kept, MadeAlone
    <3>2. d.file \in Files BY <2>1, Request0 DEF Creates, Idle
    <3>3. d.file # f BY <1>2, <3>1 DEF Live
    <3>4. QED BY <1>8, <3>1, <3>2, <3>3
  <2>2. QED BY <1>2, <2>1 DEF MadeAlone, Creates
<1>14. RoomLeft' BY <1>2 DEF Kept, RoomLeft, Pends
<1>15. Chained'
  <2>1. ASSUME NEW j \in Ids, InLog(j)', NEW x, x = log'[j].base
        PROVE  /\ truth'[j] \in Contents
               /\ x = None => log'[j].blob = Full(truth'[j])
               /\ x # None =>
                    /\ InLog(x)' /\ log'[x].file = log'[j].file
                    /\ log'[j].blob = Patch(truth'[x], truth'[j])
                    /\ x # j
                    /\ Climbs(j)' => ~Falls(x)'
    <3>1. InLog(j) /\ log[j].file # f /\ log'[j] = log[j] /\ truth'[j] = truth[j] BY <1>5, <1>6, <2>1
    <3>2. CASE x = None BY <2>1, <3>1, <3>2 DEF Kept, Chained
    <3>3. CASE x # None
      <4>1. x \in Ids BY <2>1, <3>1, <3>3, LogRow DEF Kept, TypeOK, LogTyped, Maybe
      <4>2. /\ truth[j] \in Contents /\ InLog(x) /\ log[x].file = log[j].file
            /\ log[j].blob = Patch(truth[x], truth[j]) /\ x # j /\ (Climbs(j) => ~Falls(x))
        BY <2>1, <3>1, <3>3 DEF Kept, Chained
      <4>3. InLog(x)' /\ log'[x] = log[x] /\ truth'[x] = truth[x] BY <1>5, <1>6, <3>1, <4>1, <4>2
      <4>4. (Climbs(j)' <=> Climbs(j)) /\ (Falls(x)' <=> Falls(x)) BY <1>7, <2>1, <4>1, <4>3
      <4>5. QED BY <3>1, <3>3, <4>2, <4>3, <4>4
    <3>4. QED BY <3>2, <3>3
  <2>2. QED BY <2>1 DEF Chained, InLog, Falls, Climbs
<1>16. Rooted'
  <2>1. ASSUME NEW j \in Ids, InLog(j)', NEW g, g = log'[j].file PROVE j <= made' /\ Live(g)'
    BY <1>2, <1>5, <1>6, <1>8, <2>1 DEF Kept, Rooted
  <2>2. QED BY <2>1 DEF Rooted, Live
<1>17. HeadInLog'
  <2>1. ASSUME NEW g \in Files, NEW x, x = file'[g].head, x # None
        PROVE  InLog(x)' /\ log'[x].file = g
    <3>1. g # f /\ x = file[g].head BY <1>8, <2>1
    <3>2. x \in Ids BY <2>1, <3>1 DEF Kept, TypeOK, Maybe
    <3>3. InLog(x) /\ log[x].file = g BY <2>1, <3>1 DEF Kept, HeadInLog
    <3>4. QED BY <1>5, <1>6, <3>1, <3>2, <3>3
  <2>2. QED BY <2>1 DEF HeadInLog, InLog
<1>18. gc' \in Sweeper BY <1>2 DEF Kept
<1>19. QED BY <1>9, <1>11, <1>12, <1>13, <1>14, <1>15, <1>16, <1>17, <1>18 DEF Kept

(* The sweeper only deletes blobs.                                         *)
LEMMA SweepKept == ASSUME Kept, Sweep \/ UNCHANGED vars PROVE Kept'
<1>1. UNCHANGED <<file, log, truth, made, op, contested, crashes>>
  BY DEF Sweep, SweepList, SweepCount, SweepDelete, SweepRemove, vars
<1>2. gc \in Sweeper /\ queue \in Queues /\ blobs \subseteq Blobs
  BY DEF Kept, TypeOK, Queues
<1>3. gc' \in Sweeper /\ queue' \in Queues /\ blobs' \subseteq Blobs
  <2>1. CASE SweepList BY <1>2, <2>1 DEF SweepList, Sweeper, Due, Maybe
  <2>2. CASE SweepDelete BY <1>2, <2>2 DEF SweepDelete, Sweeper
  <2>3. CASE SweepRemove BY <1>2, <2>3 DEF SweepRemove, Sweeper, Queues, Maybe
  <2>4. ASSUME NEW b \in Blobs, SweepCount(b) PROVE gc' \in Sweeper /\ queue' \in Queues /\ blobs' \subseteq Blobs
    BY <1>2, <2>4 DEF SweepCount, Sweeper, Maybe
  <2>5. CASE UNCHANGED vars BY <1>2, <2>5 DEF vars
  <2>6. QED BY <2>1, <2>2, <2>3, <2>4, <2>5 DEF Sweep
<1>4. TypeOK' BY <1>1, <1>3 DEF Kept, TypeOK, Queues, Sweeper
<1>5. OpsTyped' BY <1>1 DEF Kept, OpsTyped
<1>6. Chained' /\ Rooted' /\ HeadInLog' BY <1>1, Unaffected DEF Kept
<1>7. OpsFit'
  <2>1. ASSUME NEW x \in Writers, NEW d, d = op[x] PROVE Fits(d)'
    BY <1>1, <2>1, Unaffected DEF Kept, OpsTyped, OpsFit
  <2>2. QED BY <1>1, <2>1 DEF OpsFit
<1>8. MadeAlone' /\ RoomLeft' BY <1>1 DEF Kept, MadeAlone, RoomLeft, Creates, Pends
<1>9. QED BY <1>3, <1>4, <1>5, <1>6, <1>7, <1>8 DEF Kept

LEMMA CrashKept == ASSUME Kept, Crash PROVE Kept'
<1>1. /\ op' = [w \in Writers |-> Idle] /\ crashes < MaxCrashes /\ crashes' = crashes + 1
      /\ gc' = [pc |-> "idle", todo |-> {}, cur |-> None] /\ queue' = Without(queue, Writers)
      /\ UNCHANGED <<file, log, truth, made, blobs, contested>>
  BY DEF Crash
<1>2. \A w \in Writers : op'[w] = Idle BY <1>1
<1>3. TypeOK'
  <2>1. crashes' \in 0..MaxCrashes BY <1>1, VersioningAssumption DEF Kept, TypeOK
  <2>2. queue' \in Queues BY <1>1, QueueTypes DEF Kept, TypeOK, Queues
  <2>3. QED BY <1>1, <2>1, <2>2 DEF Kept, TypeOK, Queues
<1>4. OpsTyped' BY <1>1, IdleFits DEF OpsTyped
<1>5. OpsFit'
  <2>1. ASSUME NEW d, d = Idle PROVE Fits(d)' BY <1>1, <2>1, IdleFits, Unaffected
  <2>2. QED BY <1>2, <2>1 DEF OpsFit
<1>6. MadeAlone' BY <1>2, IdleFits DEF MadeAlone, Creates
<1>7. RoomLeft'
  <2>1. {w \in Writers : Pends(op'[w])} = {} BY <1>2, IdleFits
  <2>2. made \in 0..MaxCommits BY DEF Kept, TypeOK
  <2>3. QED BY <1>1, <2>1, <2>2, FS_EmptySet, IdsNumbers DEF RoomLeft
<1>8. gc' \in Sweeper BY <1>1 DEF Sweeper, Maybe
<1>9. Chained' /\ Rooted' /\ HeadInLog' BY <1>1, Unaffected DEF Kept
<1>10. QED BY <1>3, <1>4, <1>5, <1>6, <1>7, <1>8, <1>9 DEF Kept

LEMMA NextKept == ASSUME Kept, [Next]_vars PROVE Kept'
<1>1. ASSUME NEW w \in Writers, Step(w) PROVE Kept'
  BY <1>1, ReadKept, ListKept, FetchKept, PutKept, InsertFileKept, InsertCommitKept, UpdateFileKept,
     CompactListKept, CompactFetchKept, PatchKept, ReencodeKept, QueueOldKept DEF Step
<1>2. QED BY <1>1, RequestKept, PurgeFileKept, SweepKept, CrashKept DEF Next
-----------------------------------------------------------------------------
(* The theorems.                                                           *)

LEMMA SpecKept == Spec => []Kept
<1>1. Init => Kept BY InitKept
<1>2. Kept /\ [Next]_vars => Kept' BY NextKept
<1>3. QED BY <1>1, <1>2, PTL DEF Spec

(* The tables, the candidates and the sweeper have their types, and only a *)
(* live file has a current commit (sqlite.rs, tables files, commits and    *)
(* blob_orphans).                                                          *)
THEOREM VersioningTyped == Spec => []TypeOK
<1>1. Kept => TypeOK BY DEF Kept
<1>2. QED BY <1>1, SpecKept, PTL

(* The history of a file is restorable as far as its rows go, however      *)
(* requests, compactions, purges, sweeps and crashes interleave: following *)
(* the delta bases of any commit ends at a snapshot, and applying the      *)
(* patches on the way back gives what was committed (materialize_from).    *)
THEOREM HistoryRestores == Spec => []HistoryIntact
<1>1. Kept => HistoryIntact BY KeptHistory DEF HistoryIntact
<1>2. QED BY <1>1, SpecKept, PTL

(* The current commit of a file is in its log, also when concurrent        *)
(* requests write back a row they read earlier (update_file).              *)
THEOREM HeadStaysInLog == Spec => []HeadInLog
<1>1. Kept => HeadInLog BY DEF Kept
<1>2. QED BY <1>1, SpecKept, PTL
-----------------------------------------------------------------------------
(* What a request holds before a row refers to it.                         *)

Held == \A w \in Writers : op[w].pc \in Unrecorded => op[w].blob \in blobs

(* The steps of a request that write no row of commits, and what they do   *)
(* to the blobs.                                                           *)
Rowless(w) ==
  \/ Read(w) \/ List(w) \/ Fetch(w) \/ Put(w) \/ InsertFile(w) \/ UpdateFile(w) \/ CompactList(w)
  \/ CompactFetch(w) \/ PutPatch(w) \/ QueuePatch(w) \/ QueueOld(w) \/ Abort(w)

(* How a step of a request changes what it holds.                          *)
LEMMA HoldStep ==
  ASSUME Kept, NEW w \in Writers, Rowless(w), Held
  PROVE  /\ UNCHANGED <<log, gc>> /\ blobs \subseteq blobs'
         /\ \A x \in Writers \ {w} : op'[x] = op[x]
         /\ op'[w].pc \in Unrecorded => op'[w].blob \in blobs'
<1>1. op \in [Writers -> Requests] /\ op[w] \in Requests BY Request0 DEF Kept, OpsTyped
<1>2. ASSUME Abort(w)
      PROVE  /\ UNCHANGED <<log, gc>> /\ blobs \subseteq blobs'
             /\ \A x \in Writers \ {w} : op'[x] = op[x]
             /\ op'[w].pc \notin Unrecorded
  <2>1. op' = [op EXCEPT ![w] = Idle] /\ UNCHANGED <<log, gc, blobs>> BY <1>2 DEF Abort, Finish
  <2>2. op'[w] = Idle /\ \A x \in Writers \ {w} : op'[x] = op[x] BY <1>1, <2>1
  <2>3. QED BY <2>1, <2>2, IdleFields DEF Unrecorded
<1>3. CASE Abort(w) BY <1>2, <1>3
<1>4. CASE Read(w) \/ List(w) \/ Fetch(w) \/ CompactList(w) \/ CompactFetch(w)
  <2>1. CASE Abort(w) BY <1>2, <2>1
  <2>2. CASE ~Abort(w)
    <3>1. UNCHANGED <<log, gc, blobs>> BY <1>4, <2>2 DEF Read, List, Fetch, CompactList, CompactFetch
    <3>2. \A x \in Writers \ {w} : op'[x] = op[x]
      BY <1>1, <1>4, <2>2 DEF Read, List, Fetch, CompactList, CompactFetch
    <3>3. op'[w].pc \in {"list", "fetch", "put", "compactfetch", "putpatch"}
      <4>1. CASE Read(w) BY <1>1, <2>2, <4>1 DEF Read, Requests
      <4>2. CASE List(w)
        <5>1. PICK n, b, d : op' = [op EXCEPT ![w].pc = "fetch", ![w].needs = n, ![w].blob = b, ![w].base = d]
          BY <2>2, <4>2 DEF List
        <5>2. op'[w].pc = "fetch" BY <1>1, <5>1 DEF Requests
        <5>3. QED BY <5>2
      <4>3. CASE Fetch(w) BY <1>1, <2>2, <4>3 DEF Fetch, Requests
      <4>4. CASE CompactList(w) BY <1>1, <2>2, <4>4 DEF CompactList, Requests
      <4>5. CASE CompactFetch(w) BY <1>1, <2>2, <4>5 DEF CompactFetch, Requests
      <4>6. QED BY <1>4, <4>1, <4>2, <4>3, <4>4, <4>5
    <3>4. QED BY <3>1, <3>2, <3>3 DEF Unrecorded
  <2>3. QED BY <2>1, <2>2
<1>5. CASE Put(w)
  <2>1. UNCHANGED <<log, gc>> BY <1>5 DEF Put
  <2>2. \A x \in Writers \ {w} : op'[x] = op[x] BY <1>1, <1>5 DEF Put
  <2>3. op'[w].blob \in blobs' /\ blobs \subseteq blobs'
    <3>1. PICK d : d = (IF op[w].pc = "put" THEN op[w].blob ELSE Full(op[w].content)) OBVIOUS
    <3>2. /\ blobs' = blobs \cup {d}
          /\ op' = [op EXCEPT ![w].blob = d, ![w].pc = IF op[w].kind = "create" THEN "insertfile" ELSE "insert"]
      BY <1>5, <3>1 DEF Put
    <3>3. op'[w].blob = d BY <1>1, <3>2 DEF Requests
    <3>4. QED BY <3>2, <3>3
  <2>4. QED BY <2>1, <2>2, <2>3
<1>6. CASE InsertFile(w) \/ PutPatch(w) \/ QueuePatch(w)
  <2>1. PICK pc : op' = [op EXCEPT ![w].pc = pc] /\ UNCHANGED <<log, gc>>
    BY <1>6 DEF InsertFile, PutPatch, QueuePatch, Go
  <2>2. blobs \subseteq blobs' /\ (PutPatch(w) => op[w].blob \in blobs')
    BY <1>6 DEF InsertFile, PutPatch, QueuePatch
  <2>3. InsertFile(w) \/ QueuePatch(w) => op[w].blob \in blobs
    BY DEF InsertFile, QueuePatch, At, Held, Unrecorded
  <2>4. /\ \A x \in Writers \ {w} : op'[x] = op[x]
        /\ op'[w].blob = op[w].blob
    BY <1>1, <2>1 DEF Requests
  <2>5. QED BY <1>6, <2>1, <2>2, <2>3, <2>4
<1>7. CASE UpdateFile(w) /\ ~Abort(w)
  <2>1. UNCHANGED <<log, gc, blobs>> BY <1>7 DEF UpdateFile
  <2>2. op' = [op EXCEPT ![w].pc = "compact"] \/ op' = [op EXCEPT ![w] = Idle]
    BY <1>7 DEF UpdateFile, Go, Finish
  <2>3. \A x \in Writers \ {w} : op'[x] = op[x] BY <1>1, <2>2
  <2>4. op'[w].pc \in {"compact", "idle"} BY <1>1, <2>2, IdleFields DEF Requests
  <2>5. QED BY <2>1, <2>3, <2>4 DEF Unrecorded
<1>8. CASE QueueOld(w)
  <2>1. op' = [op EXCEPT ![w] = Idle] /\ UNCHANGED <<log, gc, blobs>> BY <1>8 DEF QueueOld
  <2>2. op'[w] = Idle /\ \A x \in Writers \ {w} : op'[x] = op[x] BY <1>1, <2>1
  <2>3. QED BY <2>1, <2>2, IdleFields DEF Unrecorded
<1>9. QED BY <1>3, <1>4, <1>5, <1>6, <1>7, <1>8 DEF Rowless

(* A row written by a request refers to a blob it held.                    *)
LEMMA RowStep ==
  ASSUME Kept, NEW w \in Writers, InsertCommit(w) \/ Reencode(w), ~Abort(w)
  PROVE  /\ UNCHANGED <<blobs, gc, queue>>
         /\ op[w].pc \in {"insert", "reencode"} /\ op'[w].pc \in {"update", "queueold"}
         /\ \A x \in Writers \ {w} : op'[x] = op[x]
         /\ \A i \in Ids : InLog(i)' => log'[i].blob = op[w].blob \/ (InLog(i) /\ log'[i].blob = log[i].blob)
<1>1. op \in [Writers -> Requests] /\ op[w] \in Requests BY Request0 DEF Kept, OpsTyped
<1>2. log \in [Ids -> Maybe(Commit)] BY DEF Kept, TypeOK
<1>3. CASE InsertCommit(w)
  <2>1. PICK i : i = made + 1 OBVIOUS
  <2>2. /\ log' = [log EXCEPT ![i] = [file |-> op[w].file, parent |-> op[w].head,
                                      blob |-> op[w].blob, base |-> op[w].base]]
        /\ op' = [op EXCEPT ![w].pc = "update", ![w].id = i]
        /\ op[w].pc = "insert" /\ UNCHANGED <<blobs, gc, queue>>
    BY <1>3, <2>1 DEF InsertCommit, At
  <2>3. op'[w].pc = "update" /\ \A x \in Writers \ {w} : op'[x] = op[x] BY <1>1, <2>2 DEF Requests
  <2>4. \A j \in Ids : log'[j] = log[j] \/ log'[j].blob = op[w].blob BY <1>2, <2>2
  <2>5. QED BY <2>2, <2>3, <2>4 DEF InLog
<1>4. CASE Reencode(w)
  <2>1. PICK h : h = op[w].head OBVIOUS
  <2>2. /\ log' = WithStorage(h, op[w].blob, op[w].id) /\ InLog(h)
        /\ op' = [op EXCEPT ![w].pc = "queueold"]
        /\ op[w].pc = "reencode" /\ UNCHANGED <<blobs, gc, queue>>
    BY <1>4, <2>1 DEF Reencode, At, Go
  <2>3. op'[w].pc = "queueold" /\ \A x \in Writers \ {w} : op'[x] = op[x] BY <1>1, <2>2 DEF Requests
  <2>4. ASSUME NEW j \in Ids, j = h PROVE log'[j].blob = op[w].blob
    <3>1. log[j] \in Commit BY <2>2, <2>4, LogRow DEF Kept, TypeOK, LogTyped
    <3>2. log'[j] = [log[j] EXCEPT !.blob = op[w].blob, !.base = op[w].id] BY <1>2, <2>2, <2>4 DEF WithStorage
    <3>3. QED BY <3>1, <3>2 DEF Commit
  <2>5. \A j \in Ids : j # h => log'[j] = log[j] BY <1>2, <2>2 DEF WithStorage
  <2>6. QED BY <2>2, <2>3, <2>4, <2>5 DEF InLog
<1>5. QED BY <1>3, <1>4

(* What is common to every step but those of the sweeper.                  *)
LEMMA StepHeld ==
  ASSUME Kept, NEW w \in Writers, Step(w), NoBlobLost, Held
  PROVE  /\ NoBlobLost' /\ Held' /\ gc' = gc
         /\ ~Overlap => ~Settling
<1>1. CASE Rowless(w)
  <2>1. /\ UNCHANGED <<log, gc>> /\ blobs \subseteq blobs'
        /\ \A x \in Writers \ {w} : op'[x] = op[x]
        /\ op'[w].pc \in Unrecorded => op'[w].blob \in blobs'
    BY <1>1, HoldStep
  <2>2. NoBlobLost' BY <2>1 DEF NoBlobLost, InLog
  <2>3. Held'
    <3>1. ASSUME NEW x \in Writers, op'[x].pc \in Unrecorded PROVE op'[x].blob \in blobs'
      BY <2>1, <3>1 DEF Held
    <3>2. QED BY <3>1 DEF Held, Unrecorded
  <2>4. QED
    BY <2>1, <2>2, <2>3 DEF Step, At, Read, List, Fetch, Put, InsertFile, InsertCommit, UpdateFile, CompactList,
                            CompactFetch, PutPatch, QueuePatch, Reencode, QueueOld
<1>2. CASE (InsertCommit(w) \/ Reencode(w)) /\ ~Abort(w)
  <2>1. /\ UNCHANGED <<blobs, gc, queue>>
        /\ op[w].pc \in {"insert", "reencode"} /\ op'[w].pc \in {"update", "queueold"}
        /\ \A x \in Writers \ {w} : op'[x] = op[x]
        /\ \A i \in Ids : InLog(i)' => log'[i].blob = op[w].blob \/ (InLog(i) /\ log'[i].blob = log[i].blob)
    BY <1>2, RowStep
  <2>2. op[w].blob \in blobs BY <2>1 DEF Held, Unrecorded
  <2>3. NoBlobLost'
    <3>1. ASSUME NEW i \in Ids, InLog(i)' PROVE log'[i].blob \in blobs' BY <2>1, <2>2, <3>1 DEF NoBlobLost
    <3>2. QED BY <3>1 DEF NoBlobLost, InLog
  <2>4. Held'
    <3>1. ASSUME NEW x \in Writers, op'[x].pc \in Unrecorded PROVE op'[x].blob \in blobs'
      BY <2>1, <3>1 DEF Held, Unrecorded
    <3>2. QED BY <3>1 DEF Held, Unrecorded
  <2>5. QED BY <1>2, <2>1, <2>3, <2>4 DEF InsertCommit, Reencode, At
<1>3. QED BY <1>1, <1>2 DEF Step, Rowless

LEMMA RequestHeld ==
  ASSUME Kept, NEW w \in Writers, Request(w), NoBlobLost, Held
  PROVE  /\ NoBlobLost' /\ Held' /\ UNCHANGED <<file, log, truth, made, blobs, queue, gc, contested>>
         /\ op[w] = Idle /\ op'[w].pc \notin Unrecorded /\ \A x \in Writers \ {w} : op'[x] = op[x]
<1>1. op \in [Writers -> Requests] /\ op[w] \in Requests BY Request0 DEF Kept, OpsTyped
<1>2. PICK o : /\ op' = [op EXCEPT ![w] = o] /\ o.pc \in {"read", "putfull", "list", "update"} /\ op[w] = Idle
               /\ UNCHANGED <<file, log, truth, made, blobs, queue, gc, contested>>
  <2>1. ASSUME NEW f, NEW c, NEW kind, NEW where \in {"putfull", "list", "update"}, Begin(w, kind, f, c, where)
        PROVE  \E o : /\ op' = [op EXCEPT ![w] = o] /\ o.pc \in {"read", "putfull", "list", "update"}
                      /\ op[w] = Idle /\ UNCHANGED <<file, log, truth, made, blobs, queue, gc, contested>>
    <3>1. PICK o : /\ o = [Idle EXCEPT !.pc = where, !.kind = kind, !.file = f, !.head = file[f].head, !.content = c]
                   /\ op' = [op EXCEPT ![w] = o] /\ op[w] = Idle
                   /\ UNCHANGED <<file, log, truth, made, blobs, queue, gc, contested>>
      BY <2>1 DEF Begin
    <3>2. o.pc = where BY <3>1 DEF Idle
    <3>3. QED BY <3>1, <3>2
  <2>2. ASSUME NEW f, NEW i, NEW kind, Materialize(w, kind, f, i)
        PROVE  \E o : /\ op' = [op EXCEPT ![w] = o] /\ o.pc \in {"read", "putfull", "list", "update"}
                      /\ op[w] = Idle /\ UNCHANGED <<file, log, truth, made, blobs, queue, gc, contested>>
    <3>1. PICK o : /\ o = [Idle EXCEPT !.pc = "read", !.kind = kind, !.file = f,
                                       !.content = Restore(i), !.needs = ChainBlobs(i)]
                   /\ op' = [op EXCEPT ![w] = o] /\ op[w] = Idle
                   /\ UNCHANGED <<file, log, truth, made, blobs, queue, gc, contested>>
      BY <2>2 DEF Materialize
    <3>2. o.pc = "read" BY <3>1 DEF Idle
    <3>3. QED BY <3>1, <3>2
  <2>3. QED BY <2>1, <2>2 DEF Request, BeginCreate, BeginCommit, BeginRaw, BeginRename, BeginRead, BeginRollback
<1>3. op'[w] = o /\ \A x \in Writers \ {w} : op'[x] = op[x] BY <1>1, <1>2
<1>4. op'[w].pc \notin Unrecorded BY <1>2, <1>3 DEF Unrecorded
<1>5. NoBlobLost' BY <1>2 DEF NoBlobLost, InLog
<1>6. Held'
  <2>1. ASSUME NEW x \in Writers, op'[x].pc \in Unrecorded PROVE op'[x].blob \in blobs'
    BY <1>2, <1>3, <1>4, <2>1 DEF Held
  <2>2. QED BY <2>1 DEF Held, Unrecorded
<1>7. QED BY <1>2, <1>3, <1>4, <1>5, <1>6
-----------------------------------------------------------------------------
(* That no blob is lost, when no content is ever stored twice.  Requests,  *)
(* purges, the sweeper and crashes then interleave at will.                *)

Makes == {"create", "commit", "raw"}
Storer(w) == op[w].kind \in Makes /\ op[w].id = None

(* A content belongs to one request, and then to the commit it made.       *)
OwnContent ==
  /\ \A w \in Writers : op[w].kind # "rollback"
  /\ \A w, x \in Writers :
       w # x /\ op[w].kind \in Makes /\ op[x].kind \in Makes => op[w].content # op[x].content
  /\ \A i, j \in Ids : InLog(i) /\ InLog(j) /\ truth[i] = truth[j] => i = j
  /\ \A w \in Writers : op[w].kind \in Makes =>
       \A i \in Ids : InLog(i) /\ truth[i] = op[w].content => i = op[w].id

(* So does a commit id; and until a request compacts, no older commit      *)
(* rests on its own.                                                       *)
OwnId ==
  /\ \A w, x \in Writers : w # x /\ op[w].id # None => op[w].id # op[x].id
  /\ \A w \in Writers : op[w].kind = "raw" /\ op[w].id # None /\ op[w].pc # "queueold" =>
       \A j \in Ids : InLog(j) /\ j < op[w].id => log[j].base # op[w].id

(* What a request is going to record is about its own content.             *)
OwnBlob ==
  \A w \in Writers :
    /\ op[w].pc \in {"fetch", "put", "insertfile", "insert"} => op[w].blob.to = op[w].content
    /\ op[w].old # None => op[w].old = Full(op[w].old.to)

(* Nothing is a candidate that a request is still going to record.         *)
Untouched ==
  \A w \in Writers : Storer(w) =>
    /\ \A b \in Candidates : op[w].content \notin {b.from, b.to}
    /\ \A x \in Writers : op[x].old # None => op[x].old.to # op[w].content
PatchUnknown ==
  \A w \in Writers :
    /\ op[w].kind = "raw" /\ op[w].pc \in {"update", "compact"} /\ op[w].head # None /\ InLog(op[w].head)
         => Patch(op[w].content, truth[op[w].head]) \notin Candidates
    /\ op[w].pc \in {"compactfetch", "putpatch", "queuepatch"}
         => Patch(op[w].content, op[w].old.to) \notin Candidates
    /\ op[w].pc = "reencode"
         => op[w].blob \in Candidates /\ w \in queue[op[w].blob] /\ op[w].blob \notin gc.todo

(* The sweeper works on candidates, and deletes one that nothing refers to.*)
Doomed ==
  /\ gc.todo \subseteq Candidates
  /\ Settling => gc.cur \in gc.todo
  /\ gc.pc = "delete" => References(gc.cur) = {}

Fresh == OwnContent /\ OwnId /\ OwnBlob /\ Untouched /\ PatchUnknown /\ Doomed

LEMMA CandidateSteps ==
  ASSUME queue \in Queues
  PROVE  /\ \A ws : {b \in Blobs : Without(queue, ws)[b] # None} = Candidates
         /\ \A ws : \A b \in Candidates : Without(queue, ws)[b] = queue[b] \ ws
         /\ \A bs : {b \in Blobs : Enlist(queue, bs)[b] # None} = Candidates \cup (bs \cap Blobs)
         /\ \A bs : \A b \in Candidates : Enlist(queue, bs)[b] = queue[b]
         /\ \A bs : \A b \in (bs \cap Blobs) \ Candidates : Enlist(queue, bs)[b] = InFlight
         /\ \A bs, ws : {b \in Blobs : Without(Enlist(queue, bs), ws)[b] # None} = Candidates \cup (bs \cap Blobs)
         /\ \A bs, ws : \A b \in Candidates : Without(Enlist(queue, bs), ws)[b] = queue[b] \ ws
         /\ \A bs, ws : \A b \in (bs \cap Blobs) \ Candidates : Without(Enlist(queue, bs), ws)[b] = InFlight \ ws
<1>1. \A ws \in SUBSET Writers : ws # None
  BY NoneAssumption
<1>2. \A q \in Queues : \A b \in Blobs : q[b] # None => q[b] \in SUBSET Writers
  BY DEF Queues, Maybe
<1>3. InFlight \in SUBSET Writers
  BY DEF InFlight
<1>4. ASSUME NEW q \in Queues, NEW ws, NEW b \in Blobs
      PROVE  /\ Without(q, ws)[b] = IF q[b] = None THEN None ELSE q[b] \ ws
             /\ Without(q, ws)[b] # None <=> q[b] # None
  <2>1. Without(q, ws)[b] = IF q[b] = None THEN None ELSE q[b] \ ws
    BY DEF Without
  <2>2. q[b] # None => q[b] \ ws \in SUBSET Writers
    BY <1>2
  <2>3. QED BY <1>1, <2>1, <2>2
<1>5. ASSUME NEW bs, NEW b \in Blobs
      PROVE  /\ Enlist(queue, bs)[b] = IF b \in bs /\ queue[b] = None THEN InFlight ELSE queue[b]
             /\ Enlist(queue, bs)[b] # None <=> (queue[b] # None \/ b \in bs)
  BY <1>1, <1>3 DEF Enlist
<1>6. \A bs : Enlist(queue, bs) \in Queues
  BY QueueTypes
<1>7. Candidates = {b \in Blobs : queue[b] # None}
  BY DEF Candidates
<1>8. ASSUME NEW ws
      PROVE  /\ {b \in Blobs : Without(queue, ws)[b] # None} = Candidates
             /\ \A b \in Candidates : Without(queue, ws)[b] = queue[b] \ ws
  BY <1>4, <1>7
<1>9. ASSUME NEW bs
      PROVE  /\ {b \in Blobs : Enlist(queue, bs)[b] # None} = Candidates \cup (bs \cap Blobs)
             /\ \A b \in Candidates : Enlist(queue, bs)[b] = queue[b]
             /\ \A b \in (bs \cap Blobs) \ Candidates : Enlist(queue, bs)[b] = InFlight
  BY <1>5, <1>7
<1>10. ASSUME NEW bs, NEW ws
       PROVE  /\ {b \in Blobs : Without(Enlist(queue, bs), ws)[b] # None} = Candidates \cup (bs \cap Blobs)
              /\ \A b \in Candidates : Without(Enlist(queue, bs), ws)[b] = queue[b] \ ws
              /\ \A b \in (bs \cap Blobs) \ Candidates : Without(Enlist(queue, bs), ws)[b] = InFlight \ ws
  <2>1. PICK q \in Queues : q = Enlist(queue, bs) BY <1>6
  <2>2. \A b \in Blobs : /\ q[b] # None <=> (queue[b] # None \/ b \in bs)
                         /\ queue[b] # None => q[b] = queue[b]
                         /\ queue[b] = None /\ b \in bs => q[b] = InFlight
    <3>1. TAKE b \in Blobs
    <3>2. /\ q[b] = IF b \in bs /\ queue[b] = None THEN InFlight ELSE queue[b]
          /\ q[b] # None <=> (queue[b] # None \/ b \in bs)
      BY <1>5, <2>1
    <3>3. QED BY <3>2
  <2>3. /\ {b \in Blobs : Without(q, ws)[b] # None} = Candidates \cup (bs \cap Blobs)
        /\ \A b \in Candidates : Without(q, ws)[b] = queue[b] \ ws
        /\ \A b \in (bs \cap Blobs) \ Candidates : Without(q, ws)[b] = InFlight \ ws
    <3>1. ASSUME NEW b \in Blobs
          PROVE  /\ Without(q, ws)[b] # None <=> (queue[b] # None \/ b \in bs)
                 /\ queue[b] # None => Without(q, ws)[b] = queue[b] \ ws
                 /\ queue[b] = None /\ b \in bs => Without(q, ws)[b] = InFlight \ ws
      <4>1. /\ Without(q, ws)[b] = IF q[b] = None THEN None ELSE q[b] \ ws
            /\ Without(q, ws)[b] # None <=> q[b] # None
        BY <1>4
      <4>2. QED BY <2>2, <4>1
    <3>2. QED BY <1>7, <3>1
  <2>4. QED BY <2>1, <2>3
<1>11. QED BY <1>8, <1>9, <1>10

(* What a step of a request does to what is its own: it is over, it        *)
(* prepares a blob, it inserts its commit, or it compacts.                 *)
Same(c, o) == o.kind = c.kind /\ o.content = c.content /\ o.head = c.head
Over(c, o, w) ==
  /\ o = Idle /\ UNCHANGED <<log, truth>>
  /\ \/ c.pc # "queueold" /\ queue' = Without(queue, {w})
     \/ c.pc = "queueold" /\ c.old # None /\ queue' = Without(Enlist(queue, {c.old}), {w})
Prepares(c, o) ==
  /\ c.kind \in Makes /\ c.id = None /\ Same(c, o) /\ o.id = None /\ o.old = c.old
  /\ o.pc \in {"fetch", "put", "insertfile", "insert"} /\ o.blob.to = c.content
  /\ UNCHANGED <<log, truth, queue>>
Inserts(c, o) ==
  /\ c.kind \in Makes /\ c.id = None /\ Same(c, o) /\ o.id = made + 1 /\ o.old = c.old
  /\ c.pc = "insert" /\ o.pc = "update"
  /\ made + 1 \in Ids /\ ~InLog(made + 1)
  /\ log'[made + 1].blob = c.blob /\ truth'[made + 1] = c.content
  /\ \A j \in Ids : j # made + 1 => log'[j] = log[j] /\ truth'[j] = truth[j]
  /\ UNCHANGED queue
Compacts(c, o) ==
  /\ c.kind = "raw" /\ c.id # None /\ Same(c, o) /\ o.id = c.id
  /\ UNCHANGED truth
  /\ \/ /\ c.pc = "update" /\ o.pc = "compact" /\ o.old = c.old
        /\ UNCHANGED <<log, queue>>
     \/ /\ c.pc = "compact" /\ o.pc = "compactfetch"
        /\ c.head \in Ids /\ InLog(c.head) /\ o.old = Full(truth[c.head])
        /\ UNCHANGED <<log, queue>>
     \/ /\ c.pc \in {"compactfetch", "putpatch"} /\ o.pc \in {"putpatch", "queuepatch"} /\ o.old = c.old
        /\ UNCHANGED <<log, queue>>
     \/ /\ c.pc = "queuepatch" /\ o.pc = "reencode" /\ o.old = c.old
        /\ c.blob \in Blobs /\ o.blob = c.blob /\ c.blob = Patch(c.content, c.old.to)
        /\ queue' = Enlist(queue, {c.blob}) /\ UNCHANGED log
     \/ /\ c.pc = "reencode" /\ o.pc = "queueold" /\ o.old = c.old
        /\ c.head \in Ids /\ log'[c.head].blob = c.blob /\ log'[c.head].base = c.id
        /\ \A j \in Ids : (InLog(j)' <=> InLog(j)) /\ (j # c.head => log'[j] = log[j])
        /\ contested' \/ log[c.head].base = None
        /\ UNCHANGED queue

Moves(w, c, o) ==
  /\ c = op[w] /\ o = op'[w] /\ \A x \in Writers \ {w} : op'[x] = op[x]
  /\ Over(c, o, w) \/ Prepares(c, o) \/ Inserts(c, o) \/ Compacts(c, o)

LEMMA Moved ==
  ASSUME Kept, OwnContent, OwnBlob, NEW w \in Writers, Step(w)
  PROVE  gc' = gc /\ \E c, o \in Requests : Moves(w, c, o)
<1>1. gc' = gc
  BY DEF Step, Abort, Read, List, Fetch, Put, InsertFile, InsertCommit, UpdateFile, CompactList, CompactFetch,
         PutPatch, QueuePatch, Reencode, QueueOld
<1>2. op \in [Writers -> Requests] /\ op[w] \in Requests /\ Fits(op[w])
  BY Request0 DEF Kept, OpsTyped
<1>3. Kept'
  BY NextKept DEF Next
<1>4. PICK c, o \in Requests : c = op[w] /\ o = op'[w]
  BY <1>2, <1>3 DEF Kept, OpsTyped
<1>5. SUFFICES Moves(w, c, o)
  BY <1>1
<1>6. ASSUME Abort(w), op[w].pc # "queueold" PROVE Moves(w, c, o)
  <2>1. op' = [op EXCEPT ![w] = Idle] /\ queue' = Without(queue, {w}) /\ UNCHANGED <<log, truth>>
    BY <1>6 DEF Abort, Finish
  <2>2. o = Idle /\ \A x \in Writers \ {w} : op'[x] = op[x] BY <1>2, <1>4, <2>1
  <2>3. QED BY <1>4, <1>6, <2>1, <2>2 DEF Moves, Over
<1>7. ASSUME Read(w) PROVE Moves(w, c, o)
  BY <1>6, <1>7 DEF Read, At, OwnContent
<1>8. ASSUME List(w), ~Abort(w) PROVE Moves(w, c, o)
  <2>1. PICK n, b, d : /\ op' = [op EXCEPT ![w].pc = "fetch", ![w].needs = n, ![w].blob = b, ![w].base = d]
                       /\ b.to = op[w].content /\ op[w].pc = "list" /\ UNCHANGED <<log, truth, queue>>
    <3>1. PICK h : h = op[w].head OBVIOUS
    <3>2. PICK gain \in BOOLEAN :
            /\ op' = [op EXCEPT ![w].pc = "fetch", ![w].needs = ChainBlobs(h),
                 ![w].blob = IF gain /\ Depth(h) + 1 < Interval
                             THEN Patch(Restore(h), op[w].content) ELSE Full(op[w].content),
                 ![w].base = IF gain /\ Depth(h) + 1 < Interval THEN h ELSE None]
            /\ op[w].pc = "list" /\ UNCHANGED <<log, truth, queue>>
      BY <1>8, <3>1 DEF List, At
    <3>3. PICK b : b = IF gain /\ Depth(h) + 1 < Interval
                       THEN Patch(Restore(h), op[w].content) ELSE Full(op[w].content)
      OBVIOUS
    <3>4. b.to = op[w].content BY <3>3 DEF Full, Patch
    <3>5. QED BY <3>2, <3>3, <3>4
  <2>2. o.pc = "fetch" /\ o.kind = c.kind /\ o.content = c.content /\ o.head = c.head /\ o.id = c.id /\ o.old = c.old
    BY <1>2, <1>4, <2>1 DEF Requests
  <2>3. o.blob = b BY <1>2, <1>4, <2>1 DEF Requests
  <2>4. \A x \in Writers \ {w} : op'[x] = op[x] BY <1>2, <2>1
  <2>5. c.kind \in Makes /\ c.id = None BY <1>2, <1>4, <2>1 DEF Fits, StageFits, Storing, Makes
  <2>6. QED BY <1>4, <2>1, <2>2, <2>3, <2>4, <2>5 DEF Moves, Prepares, Same
<1>9. ASSUME Fetch(w), ~Abort(w) PROVE Moves(w, c, o)
  <2>1. /\ op' = [op EXCEPT ![w].pc = "put", ![w].needs = {}] /\ op[w].pc = "fetch"
        /\ UNCHANGED <<log, truth, queue>>
    BY <1>9 DEF Fetch, At
  <2>2. /\ o.pc = "put" /\ o.kind = c.kind /\ o.content = c.content /\ o.head = c.head /\ o.id = c.id
        /\ o.old = c.old /\ o.blob = c.blob
    BY <1>2, <1>4, <2>1 DEF Requests
  <2>3. \A x \in Writers \ {w} : op'[x] = op[x] BY <1>2, <2>1
  <2>4. c.kind \in Makes /\ c.id = None BY <1>2, <1>4, <2>1 DEF Fits, StageFits, Storing, Makes
  <2>5. c.blob.to = c.content BY <1>4, <2>1 DEF OwnBlob
  <2>6. QED BY <1>4, <2>1, <2>2, <2>3, <2>4, <2>5 DEF Moves, Prepares, Same
<1>10. ASSUME Put(w) PROVE Moves(w, c, o)
  <2>1. PICK b, pc : /\ b = (IF op[w].pc = "put" THEN op[w].blob ELSE Full(op[w].content))
                     /\ pc = (IF op[w].kind = "create" THEN "insertfile" ELSE "insert")
    OBVIOUS
  <2>2. /\ op' = [op EXCEPT ![w].blob = b, ![w].pc = pc] /\ op[w].pc \in {"put", "putfull"}
        /\ UNCHANGED <<log, truth, queue>>
    BY <1>10, <2>1 DEF Put, At
  <2>3. o.kind = c.kind /\ o.content = c.content /\ o.head = c.head /\ o.id = c.id /\ o.old = c.old
    BY <1>2, <1>4, <2>2 DEF Requests
  <2>4. o.pc = pc BY <1>2, <1>4, <2>2 DEF Requests
  <2>5. o.blob = b
    <3>1. PICK d : d = (IF op[w].pc = "put" THEN op[w].blob ELSE Full(op[w].content)) OBVIOUS
    <3>2. op' = [op EXCEPT ![w].blob = d, ![w].pc = IF op[w].kind = "create" THEN "insertfile" ELSE "insert"]
      BY <1>10, <3>1 DEF Put
    <3>3. op'[w].blob = d BY <1>2, <3>2 DEF Requests
    <3>4. QED BY <1>4, <2>1, <3>1, <3>3
  <2>6. b.to = c.content BY <1>4, <2>1, <2>2 DEF OwnBlob, Full
  <2>7. \A x \in Writers \ {w} : op'[x] = op[x] BY <1>2, <2>2
  <2>8. c.kind \in Makes /\ c.id = None BY <1>2, <1>4, <2>2 DEF Fits, StageFits, Storing, Makes
  <2>9. QED BY <1>4, <2>1, <2>2, <2>3, <2>4, <2>5, <2>6, <2>7, <2>8 DEF Moves, Prepares, Same
<1>11. ASSUME InsertFile(w) PROVE Moves(w, c, o)
  <2>1. /\ op' = [op EXCEPT ![w].pc = "insert"] /\ op[w].pc = "insertfile"
        /\ UNCHANGED <<log, truth, queue>>
    BY <1>11 DEF InsertFile, At, Go
  <2>2. /\ o.pc = "insert" /\ o.kind = c.kind /\ o.content = c.content /\ o.head = c.head /\ o.id = c.id
        /\ o.old = c.old /\ o.blob = c.blob
    BY <1>2, <1>4, <2>1 DEF Requests
  <2>3. \A x \in Writers \ {w} : op'[x] = op[x] BY <1>2, <2>1
  <2>4. c.kind \in Makes /\ c.id = None BY <1>2, <1>4, <2>1 DEF Fits, StageFits, Storing, Makes
  <2>5. c.blob.to = c.content BY <1>4, <2>1 DEF OwnBlob
  <2>6. QED BY <1>4, <2>1, <2>2, <2>3, <2>4, <2>5 DEF Moves, Prepares, Same
<1>12. ASSUME InsertCommit(w), ~Abort(w) PROVE Moves(w, c, o)
  <2>1. PICK i : i = made + 1 OBVIOUS
  <2>2. /\ log' = [log EXCEPT ![i] = [file |-> op[w].file, parent |-> op[w].head,
                                      blob |-> op[w].blob, base |-> op[w].base]]
        /\ truth' = [truth EXCEPT ![i] = op[w].content]
        /\ op' = [op EXCEPT ![w].pc = "update", ![w].id = i]
        /\ op[w].pc = "insert" /\ UNCHANGED queue
    BY <1>12, <2>1 DEF InsertCommit, At
  <2>3. o.pc = "update" /\ o.kind = c.kind /\ o.content = c.content /\ o.head = c.head /\ o.old = c.old
    BY <1>2, <1>4, <2>2 DEF Requests
  <2>4. o.id = i BY <1>2, <1>4, <2>2 DEF Requests
  <2>5. \A x \in Writers \ {w} : op'[x] = op[x] BY <1>2, <2>2
  <2>6. c.kind \in Makes /\ c.id = None BY <1>2, <1>4, <2>2 DEF Fits, StageFits, Storing, Makes
  <2>7. i \in Ids /\ ~InLog(i) BY <1>4, <2>1, <2>6, NextId DEF Pends, Makers, Makes
  <2>8. log'[i].blob = c.blob /\ truth'[i] = c.content
        /\ \A j \in Ids : j # i => log'[j] = log[j] /\ truth'[j] = truth[j]
    BY <1>4, <2>2, <2>7 DEF Kept, TypeOK
  <2>9. QED BY <1>4, <2>1, <2>2, <2>3, <2>4, <2>5, <2>6, <2>7, <2>8 DEF Moves, Inserts, Same
<1>13. ASSUME UpdateFile(w), ~Abort(w) PROVE Moves(w, c, o)
  <2>1. CASE op[w].kind = "raw"
    <3>1. /\ op' = [op EXCEPT ![w].pc = "compact"] /\ op[w].pc = "update"
          /\ UNCHANGED <<log, truth, queue>>
      BY <1>13, <2>1 DEF UpdateFile, At, Go
    <3>2. /\ o.pc = "compact" /\ o.kind = c.kind /\ o.content = c.content /\ o.head = c.head /\ o.id = c.id
          /\ o.old = c.old
      BY <1>2, <1>4, <3>1 DEF Requests
    <3>3. \A x \in Writers \ {w} : op'[x] = op[x] BY <1>2, <3>1
    <3>4. c.kind = "raw" /\ c.id # None BY <1>2, <1>4, <2>1, <3>1 DEF Fits, StageFits
    <3>5. QED BY <1>4, <3>1, <3>2, <3>3, <3>4 DEF Moves, Compacts, Same
  <2>2. CASE op[w].kind # "raw"
    <3>1. /\ op' = [op EXCEPT ![w] = Idle] /\ queue' = Without(queue, {w}) /\ UNCHANGED <<log, truth>>
          /\ op[w].pc = "update"
      BY <1>13, <2>2 DEF UpdateFile, Finish, At
    <3>2. o = Idle /\ \A x \in Writers \ {w} : op'[x] = op[x] BY <1>2, <1>4, <3>1
    <3>3. QED BY <1>4, <3>1, <3>2 DEF Moves, Over
  <2>3. QED BY <2>1, <2>2
<1>14. ASSUME CompactList(w), ~Abort(w) PROVE Moves(w, c, o)
  <2>1. PICK h, n, d : /\ op' = [op EXCEPT ![w].pc = "compactfetch", ![w].old = d, ![w].needs = n]
                       /\ h = op[w].head /\ d = log[h].blob
                       /\ op[w].pc = "compact" /\ h # None /\ InLog(h) /\ log[h].base = None
                       /\ UNCHANGED <<log, truth, queue>>
    BY <1>14 DEF CompactList, Compactable, At
  <2>2. o.pc = "compactfetch" /\ o.kind = c.kind /\ o.content = c.content /\ o.head = c.head /\ o.id = c.id
    BY <1>2, <1>4, <2>1 DEF Requests
  <2>3. o.old = d BY <1>2, <1>4, <2>1 DEF Requests
  <2>4. \A x \in Writers \ {w} : op'[x] = op[x] BY <1>2, <2>1
  <2>5. c.kind = "raw" /\ c.id # None BY <1>2, <1>4, <2>1 DEF Fits, StageFits, Compacting
  <2>6. h \in Ids BY <1>2, <2>1 DEF Requests, Maybe
  <2>7. d = Full(truth[h]) BY <2>1, <2>6 DEF Kept, Chained
  <2>8. QED BY <1>4, <2>1, <2>2, <2>3, <2>4, <2>5, <2>6, <2>7 DEF Moves, Compacts, Same
<1>15. ASSUME CompactFetch(w), ~Abort(w) PROVE Moves(w, c, o)
  <2>1. PICK b : /\ op' = [op EXCEPT ![w].pc = "putpatch", ![w].needs = {}, ![w].blob = b]
                 /\ op[w].pc = "compactfetch" /\ UNCHANGED <<log, truth, queue>>
    BY <1>15 DEF CompactFetch, At
  <2>2. /\ o.pc = "putpatch" /\ o.kind = c.kind /\ o.content = c.content /\ o.head = c.head /\ o.id = c.id
        /\ o.old = c.old
    BY <1>2, <1>4, <2>1 DEF Requests
  <2>3. \A x \in Writers \ {w} : op'[x] = op[x] BY <1>2, <2>1
  <2>4. c.kind = "raw" /\ c.id # None BY <1>2, <1>4, <2>1 DEF Fits, StageFits, Compacting
  <2>5. QED BY <1>4, <2>1, <2>2, <2>3, <2>4 DEF Moves, Compacts, Same
<1>16. ASSUME PutPatch(w) PROVE Moves(w, c, o)
  <2>1. op' = [op EXCEPT ![w].pc = "queuepatch"] /\ op[w].pc = "putpatch" /\ UNCHANGED <<log, truth, queue>>
    BY <1>16 DEF PutPatch, At, Go
  <2>2. /\ o.pc = "queuepatch" /\ o.kind = c.kind /\ o.content = c.content /\ o.head = c.head /\ o.id = c.id
        /\ o.old = c.old
    BY <1>2, <1>4, <2>1 DEF Requests
  <2>3. \A x \in Writers \ {w} : op'[x] = op[x] BY <1>2, <2>1
  <2>4. c.kind = "raw" /\ c.id # None BY <1>2, <1>4, <2>1 DEF Fits, StageFits, Compacting
  <2>5. QED BY <1>4, <2>1, <2>2, <2>3, <2>4 DEF Moves, Compacts, Same
<1>17. ASSUME QueuePatch(w) PROVE Moves(w, c, o)
  <2>1. /\ op' = [op EXCEPT ![w].pc = "reencode"] /\ op[w].pc = "queuepatch"
        /\ queue' = Enlist(queue, {op[w].blob}) /\ UNCHANGED <<log, truth>>
    BY <1>17 DEF QueuePatch, At, Go
  <2>2. /\ o.pc = "reencode" /\ o.kind = c.kind /\ o.content = c.content /\ o.head = c.head /\ o.id = c.id
        /\ o.old = c.old /\ o.blob = c.blob
    BY <1>2, <1>4, <2>1 DEF Requests
  <2>3. \A x \in Writers \ {w} : op'[x] = op[x] BY <1>2, <2>1
  <2>4. c.kind = "raw" /\ c.id # None /\ c.blob \in Blobs
    BY <1>2, <1>4, <2>1 DEF Fits, StageFits, CommitFits, Compacting
  <2>5. c.blob = Patch(c.content, c.old.to) BY <1>2, <1>4, <2>1 DEF Fits, PatchFits
  <2>6. QED BY <1>4, <2>1, <2>2, <2>3, <2>4, <2>5 DEF Moves, Compacts, Same
<1>18. ASSUME Reencode(w), ~Abort(w) PROVE Moves(w, c, o)
  <2>1. /\ log' = WithStorage(c.head, c.blob, c.id) /\ InLog(c.head)
        /\ op' = [op EXCEPT ![w].pc = "queueold"]
        /\ op[w].pc = "reencode" /\ UNCHANGED <<truth, queue>>
        /\ contested' = (contested \/ log[c.head].base # None)
    BY <1>4, <1>18 DEF Reencode, At, Go
  <2>2. /\ o.pc = "queueold" /\ o.kind = c.kind /\ o.content = c.content /\ o.head = c.head /\ o.id = c.id
        /\ o.old = c.old
    BY <1>2, <1>4, <2>1 DEF Requests
  <2>3. \A x \in Writers \ {w} : op'[x] = op[x] BY <1>2, <2>1
  <2>4. c.kind = "raw" /\ c.id # None /\ c.head # None
    BY <1>2, <1>4, <2>1 DEF Fits, StageFits, PatchFits, Compacting
  <2>5. c.head \in Ids BY <2>4 DEF Requests, Maybe
  <2>6. log \in [Ids -> Maybe(Commit)] /\ log' \in [Ids -> Maybe(Commit)] BY <1>3 DEF Kept, TypeOK
  <2>7. log[c.head] \in Commit BY <2>1, <2>5, LogRow DEF Kept, TypeOK, LogTyped
  <2>8. log'[c.head] = [log[c.head] EXCEPT !.blob = c.blob, !.base = c.id] BY <2>1, <2>5, <2>6 DEF WithStorage
  <2>9. log'[c.head].blob = c.blob /\ log'[c.head].base = c.id /\ log'[c.head].file = log[c.head].file
    BY <2>7, <2>8 DEF Commit
  <2>10. \A j \in Ids : j # c.head => log'[j] = log[j] BY <2>1, <2>6 DEF WithStorage
  <2>11. log'[c.head] # None
    <3>1. log'[c.head] \in Commit
      <4>1. c.blob \in Blobs /\ c.id \in Ids BY <1>2, <1>4, <2>4 DEF Fits, CommitFits, Requests, Maybe
      <4>2. QED BY <2>7, <2>8, <4>1 DEF Commit
    <3>2. QED BY <3>1, NoneAssumption
  <2>12. \A j \in Ids : InLog(j)' <=> InLog(j) BY <2>1, <2>10, <2>11 DEF InLog
  <2>13. QED BY <1>4, <2>1, <2>2, <2>3, <2>4, <2>5, <2>9, <2>10, <2>12 DEF Moves, Compacts, Same
<1>19. ASSUME QueueOld(w) PROVE Moves(w, c, o)
  <2>1. /\ op' = [op EXCEPT ![w] = Idle] /\ queue' = Without(Enlist(queue, {op[w].old}), {w})
        /\ op[w].pc = "queueold" /\ UNCHANGED <<log, truth>>
    BY <1>19 DEF QueueOld, At
  <2>2. o = Idle /\ \A x \in Writers \ {w} : op'[x] = op[x] BY <1>2, <1>4, <2>1
  <2>3. c.old # None
    <3>1. c.old \in Blobs BY <1>2, <1>4, <2>1 DEF Fits, PatchFits, Compacting
    <3>2. QED BY <3>1, NoneAssumption
  <2>4. QED BY <1>4, <2>1, <2>2, <2>3 DEF Moves, Over
<1>20. Step(w) /\ ~QueueOld(w) => op[w].pc # "queueold"
  BY DEF Step, At, Read, List, Fetch, Put, InsertFile, InsertCommit, UpdateFile, CompactList, CompactFetch,
         PutPatch, QueuePatch, Reencode
<1>21. QED
  BY <1>6, <1>7, <1>8, <1>9, <1>10, <1>11, <1>12, <1>13, <1>14, <1>15, <1>16, <1>17, <1>18, <1>19, <1>20 DEF Step

LEMMA MovedQueue ==
  ASSUME Kept, NEW w \in Writers, NEW c \in Requests, NEW o \in Requests, Moves(w, c, o)
  PROVE  /\ Candidates \subseteq Candidates'
         /\ \A b \in Candidates : queue'[b] = queue[b] \/ (o = Idle /\ queue'[b] = queue[b] \ {w})
         /\ \A b \in Candidates' \ Candidates :
              /\ queue'[b] = InFlight \/ (o = Idle /\ queue'[b] = InFlight \ {w})
              /\ \/ c.pc = "queueold" /\ c.old # None /\ b = c.old /\ o = Idle
                 \/ c.pc = "queuepatch" /\ o.pc = "reencode" /\ b = c.blob
         /\ c.pc = "queuepatch" /\ o.pc = "reencode" => c.blob \in Candidates'
         /\ c.pc = "queueold" => c.old \in Candidates' /\ o = Idle
<1>1. queue \in Queues BY DEF Kept, TypeOK, Queues
<1>2. Candidates' = {b \in Blobs : queue'[b] # None} BY DEF Candidates
<1>3. CASE queue' = queue /\ ~(c.pc = "queuepatch" /\ o.pc = "reencode") /\ c.pc # "queueold"
  <2>1. Candidates' = Candidates BY <1>2, <1>3 DEF Candidates
  <2>2. QED BY <1>3, <2>1
<1>4. CASE queue' = Without(queue, {w}) /\ o = Idle /\ c.pc # "queueold"
  <2>1. /\ {b \in Blobs : Without(queue, {w})[b] # None} = Candidates
        /\ \A b \in Candidates : Without(queue, {w})[b] = queue[b] \ {w}
    BY <1>1, CandidateSteps
  <2>2. QED BY <1>2, <1>4, <2>1, IdleFields
<1>5. CASE c.pc = "queueold" /\ c.old # None /\ queue' = Without(Enlist(queue, {c.old}), {w}) /\ o = Idle
  <2>1. /\ {b \in Blobs : Without(Enlist(queue, {c.old}), {w})[b] # None} = Candidates \cup ({c.old} \cap Blobs)
        /\ \A b \in Candidates : Without(Enlist(queue, {c.old}), {w})[b] = queue[b] \ {w}
        /\ \A b \in ({c.old} \cap Blobs) \ Candidates : Without(Enlist(queue, {c.old}), {w})[b] = InFlight \ {w}
    BY <1>1, CandidateSteps
  <2>2. c.old \in Blobs BY <1>5 DEF Requests, Maybe
  <2>3. Candidates' = Candidates \cup {c.old} BY <1>2, <1>5, <2>1, <2>2
  <2>4. QED BY <1>5, <2>1, <2>2, <2>3, IdleFields
<1>6. CASE c.pc = "queuepatch" /\ o.pc = "reencode" /\ c.blob \in Blobs /\ queue' = Enlist(queue, {c.blob})
  <2>1. /\ {b \in Blobs : Enlist(queue, {c.blob})[b] # None} = Candidates \cup ({c.blob} \cap Blobs)
        /\ \A b \in Candidates : Enlist(queue, {c.blob})[b] = queue[b]
        /\ \A b \in ({c.blob} \cap Blobs) \ Candidates : Enlist(queue, {c.blob})[b] = InFlight
    BY <1>1, CandidateSteps
  <2>2. QED BY <1>2, <1>6, <2>1
<1>7. c.pc = "queueold" => Over(c, o, w)
  <2>1. Fits(c) /\ c = op[w] BY DEF Moves, Kept, OpsFit
  <2>2. c.pc = "queueold" => c.id # None BY <2>1 DEF Fits, StageFits, Compacting
  <2>3. QED BY <2>2 DEF Moves, Prepares, Inserts, Compacts
<1>8. QED BY <1>3, <1>4, <1>5, <1>6, <1>7 DEF Moves, Over, Prepares, Inserts, Compacts

LEMMA MovedLog ==
  ASSUME Kept, NEW w \in Writers, NEW c \in Requests, NEW o \in Requests, Moves(w, c, o), ~Inserts(c, o)
  PROVE  /\ o = Idle \/ (Same(c, o) /\ c.kind \in Makes /\ o.id = c.id)
         /\ truth' = truth
         /\ \A j \in Ids : InLog(j)' <=> InLog(j)
         /\ \A j \in Ids : log'[j] = log[j] \/ /\ c.pc = "reencode" /\ o.pc = "queueold" /\ c.id # None
                                               /\ log'[j].blob = c.blob /\ log'[j].base = c.id
                                               /\ j = c.head /\ o.old = c.old
                                               /\ contested' \/ log[j].base = None
<1>1. CASE Over(c, o, w) BY <1>1 DEF Over, InLog
<1>2. CASE Prepares(c, o) BY <1>2 DEF Prepares, InLog
<1>3. CASE Compacts(c, o)
  <2>1. Same(c, o) /\ c.kind \in Makes /\ o.id = c.id /\ truth' = truth BY <1>3 DEF Compacts, Makes
  <2>2. CASE log' = log BY <2>1, <2>2 DEF InLog
  <2>3. CASE log' # log BY <1>3, <2>1, <2>3 DEF Compacts
  <2>4. QED BY <2>2, <2>3
<1>4. QED BY <1>1, <1>2, <1>3 DEF Moves

LEMMA MovedContent ==
  ASSUME Kept, OwnContent, NEW w \in Writers, NEW c \in Requests, NEW o \in Requests, Moves(w, c, o)
  PROVE  OwnContent'
<1>1. c = op[w] /\ o = op'[w] /\ \A x \in Writers \ {w} : op'[x] = op[x] BY DEF Moves
<1>2. o.kind # "rollback" /\ (o.kind \in Makes => c.kind \in Makes /\ o.content = c.content)
  BY <1>1, IdleFields DEF Moves, Over, Prepares, Inserts, Compacts, Same, Makes
<1>3. \A x \in Writers : op'[x].kind # "rollback" BY <1>1, <1>2 DEF OwnContent
<1>4. ASSUME NEW x \in Writers, NEW y \in Writers, x # y, op'[x].kind \in Makes, op'[y].kind \in Makes
      PROVE  op'[x].content # op'[y].content
  BY <1>1, <1>2, <1>4 DEF OwnContent
<1>5. CASE ~Inserts(c, o)
  <2>1. /\ o = Idle \/ (Same(c, o) /\ c.kind \in Makes /\ o.id = c.id)
        /\ truth' = truth /\ \A j \in Ids : InLog(j)' <=> InLog(j)
    BY <1>5, MovedLog
  <2>2. \A i, j \in Ids : InLog(i)' /\ InLog(j)' /\ truth'[i] = truth'[j] => i = j BY <2>1 DEF OwnContent
  <2>3. o.kind \in Makes => o.id = c.id BY <2>1, IdleFields DEF Makes
  <2>4. ASSUME NEW x \in Writers, op'[x].kind \in Makes, NEW i \in Ids, InLog(i)', truth'[i] = op'[x].content
        PROVE  i = op'[x].id
    <3>1. InLog(i) /\ truth[i] = op'[x].content BY <2>1, <2>4
    <3>2. CASE x = w BY <1>1, <1>2, <2>3, <2>4, <3>1, <3>2 DEF OwnContent
    <3>3. CASE x # w BY <1>1, <2>4, <3>1, <3>3 DEF OwnContent
    <3>4. QED BY <3>2, <3>3
  <2>5. QED BY <1>3, <1>4, <2>2, <2>4 DEF OwnContent, InLog
<1>6. CASE Inserts(c, o)
  <2>1. PICK n : n = made + 1 OBVIOUS
  <2>2. /\ c.kind \in Makes /\ c.id = None /\ o.id = n /\ o.content = c.content /\ o.kind = c.kind
        /\ n \in Ids /\ ~InLog(n) /\ truth'[n] = c.content
        /\ \A j \in Ids : j # n => log'[j] = log[j] /\ truth'[j] = truth[j]
    BY <1>6, <2>1 DEF Inserts, Same
  <2>3. None \notin Ids BY IdsNumbers
  <2>4. \A i \in Ids : i # n => (InLog(i)' <=> InLog(i)) BY <2>2 DEF InLog
  <2>5. \A i \in Ids : InLog(i) => truth[i] # c.content BY <1>1, <2>2, <2>3 DEF OwnContent
  <2>6. ASSUME NEW i \in Ids, NEW j \in Ids, InLog(i)', InLog(j)', truth'[i] = truth'[j] PROVE i = j
    BY <2>2, <2>4, <2>5, <2>6 DEF OwnContent
  <2>7. ASSUME NEW x \in Writers, op'[x].kind \in Makes, NEW i \in Ids, InLog(i)', truth'[i] = op'[x].content
        PROVE  i = op'[x].id
    <3>1. CASE x = w BY <1>1, <2>2, <2>4, <2>5, <2>7, <3>1
    <3>2. CASE x # w
      <4>1. op'[x] = op[x] /\ op[x].content # c.content BY <1>1, <2>2, <2>7, <3>2 DEF OwnContent
      <4>2. i # n BY <2>2, <2>7, <4>1
      <4>3. QED BY <2>2, <2>4, <2>7, <4>1, <4>2 DEF OwnContent
    <3>3. QED BY <3>1, <3>2
  <2>8. QED BY <1>3, <1>4, <2>6, <2>7 DEF OwnContent, InLog
<1>7. QED BY <1>5, <1>6

LEMMA MovedId ==
  ASSUME Kept, OwnId, NEW w \in Writers, NEW c \in Requests, NEW o \in Requests, Moves(w, c, o)
  PROVE  OwnId'
<1>1. c = op[w] /\ o = op'[w] /\ \A x \in Writers \ {w} : op'[x] = op[x] BY DEF Moves
<1>2. \A x \in Writers : op[x].id # None => op[x].id \in Ids /\ op[x].id <= made
  BY DEF Kept, OpsTyped, OpsFit, Requests, Maybe, Fits, CommitFits
<1>3. CASE ~Inserts(c, o)
  <2>1. /\ o = Idle \/ (Same(c, o) /\ c.kind \in Makes /\ o.id = c.id)
        /\ \A j \in Ids : InLog(j)' <=> InLog(j)
        /\ \A j \in Ids : log'[j] = log[j] \/ /\ c.pc = "reencode" /\ o.pc = "queueold" /\ c.id # None
                                              /\ log'[j].blob = c.blob /\ log'[j].base = c.id
    BY <1>3, MovedLog
  <2>2. o.id # None => o.id = c.id /\ o.kind = c.kind BY <2>1, IdleFields DEF Same
  <2>3. o.id # None /\ o.kind = "raw" /\ o.pc # "queueold" => c.pc # "queueold"
    BY <1>1, <2>2, IdleFields DEF Moves, Over, Prepares, Inserts, Compacts
  <2>4. ASSUME NEW x \in Writers, NEW y \in Writers, x # y, op'[x].id # None PROVE op'[x].id # op'[y].id
    BY <1>1, <2>2, <2>4 DEF OwnId
  <2>5. ASSUME NEW x \in Writers, op'[x].kind = "raw", op'[x].id # None, op'[x].pc # "queueold",
               NEW j \in Ids, InLog(j)', j < op'[x].id
        PROVE  log'[j].base # op'[x].id
    <3>1. CASE x = w
      <4>1. log'[j] = log[j] BY <1>1, <2>1, <2>5, <3>1
      <4>2. QED BY <1>1, <2>1, <2>2, <2>3, <2>5, <3>1, <4>1 DEF OwnId
    <3>2. CASE x # w
      <4>1. op'[x] = op[x] BY <1>1, <3>2
      <4>2. CASE log'[j] = log[j] BY <2>1, <2>5, <4>1, <4>2 DEF OwnId
      <4>3. CASE log'[j] # log[j]
        <5>1. c.id # None /\ log'[j].base = c.id BY <2>1, <4>3
        <5>2. QED BY <1>1, <2>5, <3>2, <4>1, <5>1 DEF OwnId
      <4>4. QED BY <4>2, <4>3
    <3>3. QED BY <3>1, <3>2
  <2>6. QED BY <2>4, <2>5 DEF OwnId, InLog
<1>4. CASE Inserts(c, o)
  <2>1. PICK n : n = made + 1 OBVIOUS
  <2>2. /\ c.id = None /\ o.id = n /\ n \in Ids /\ ~InLog(n)
        /\ \A j \in Ids : j # n => log'[j] = log[j]
    BY <1>4, <2>1 DEF Inserts
  <2>3. made \in Nat BY DEF Kept, TypeOK
  <2>4. ASSUME NEW x \in Writers, op[x].id # None PROVE op[x].id < n
    <3>1. PICK i \in Ids : i = op[x].id BY <1>2, <2>4
    <3>2. i \in Nat /\ i <= made BY <1>2, <2>4, <3>1, IdsNumbers
    <3>3. i < n BY <2>1, <2>3, <3>2
    <3>4. QED BY <3>1, <3>3
  <2>5. \A j \in Ids : InLog(j) => log[j].base # n BY <2>2, IdsNumbers DEF Kept, Chained
  <2>6. ASSUME NEW x \in Writers, NEW y \in Writers, x # y, op'[x].id # None PROVE op'[x].id # op'[y].id
    BY <1>1, <1>2, <2>2, <2>4, <2>6, IdsNumbers DEF OwnId
  <2>7. ASSUME NEW x \in Writers, op'[x].kind = "raw", op'[x].id # None, op'[x].pc # "queueold",
               NEW j \in Ids, InLog(j)', j < op'[x].id
        PROVE  log'[j].base # op'[x].id
    <3>1. j # n
      <4>1. PICK i \in Ids : i = op'[x].id /\ (i = n \/ i < n)
        <5>1. CASE x = w BY <1>1, <2>2, <5>1
        <5>2. CASE x # w
          <6>1. op'[x] = op[x] BY <1>1, <5>2
          <6>2. op[x].id \in Ids /\ op[x].id < n BY <1>2, <2>4, <2>7, <6>1
          <6>3. QED BY <6>1, <6>2
        <5>3. QED BY <5>1, <5>2
      <4>2. j < i /\ i \in Nat /\ j \in Nat /\ n \in Nat BY <2>2, <2>7, <4>1, IdsNumbers
      <4>3. QED BY <4>1, <4>2
    <3>2. log'[j] = log[j] /\ InLog(j) BY <2>2, <2>7, <3>1 DEF InLog
    <3>3. QED BY <1>1, <2>2, <2>5, <2>7, <3>2 DEF OwnId
  <2>8. QED BY <2>6, <2>7 DEF OwnId, InLog
<1>5. QED BY <1>3, <1>4

LEMMA MovedBlob ==
  ASSUME Kept, OwnBlob, NEW w \in Writers, NEW c \in Requests, NEW o \in Requests, Moves(w, c, o)
  PROVE  OwnBlob'
<1>1. c = op[w] /\ o = op'[w] /\ \A x \in Writers \ {w} : op'[x] = op[x] BY DEF Moves
<1>2. o.pc \in {"fetch", "put", "insertfile", "insert"} => o.blob.to = o.content
  BY IdleFields DEF Moves, Over, Prepares, Inserts, Compacts, Same
<1>3. o.old # None => o.old = Full(o.old.to)
  <2>1. CASE o.old \in {None, c.old} BY <1>1, <2>1 DEF OwnBlob
  <2>2. CASE o.old \notin {None, c.old}
    <3>1. o.old = Full(truth[c.head]) BY <2>2, IdleFields DEF Moves, Over, Prepares, Inserts, Compacts
    <3>2. QED BY <3>1 DEF Full
  <2>3. QED BY <2>1, <2>2
<1>4. ASSUME NEW x \in Writers
      PROVE  /\ op'[x].pc \in {"fetch", "put", "insertfile", "insert"} => op'[x].blob.to = op'[x].content
             /\ op'[x].old # None => op'[x].old = Full(op'[x].old.to)
  BY <1>1, <1>2, <1>3 DEF OwnBlob
<1>5. QED BY <1>4 DEF OwnBlob, Full

LEMMA NewCandidates ==
  ASSUME Kept, OwnBlob, NEW w \in Writers, NEW c \in Requests, NEW o \in Requests, Moves(w, c, o)
  PROVE  \A b \in Candidates' \ Candidates :
           \/ c.pc = "queueold" /\ c.old # None /\ b = Full(c.old.to) /\ o = Idle
           \/ /\ c.pc = "queuepatch" /\ o.pc = "reencode" /\ c.kind = "raw" /\ c.id # None /\ c.old # None
              /\ b = Patch(c.content, c.old.to)
<1>1. c = op[w] BY DEF Moves
<1>2. c.old # None => c.old = Full(c.old.to) BY <1>1 DEF OwnBlob
<1>3. ASSUME c.pc = "queuepatch"
      PROVE  c.kind = "raw" /\ c.id # None /\ c.old # None /\ c.blob = Patch(c.content, c.old.to)
  <2>1. Fits(c) BY <1>1 DEF Kept, OpsFit
  <2>2. c.kind = "raw" /\ c.id # None /\ c.old \in Blobs /\ c.blob = Patch(c.content, c.old.to)
    BY <1>3, <2>1 DEF Fits, StageFits, PatchFits, Compacting
  <2>3. QED BY <2>2, NoneAssumption
<1>4. QED BY <1>2, <1>3, MovedQueue

LEMMA MovedUntouched ==
  ASSUME Kept, Fresh, NEW w \in Writers, NEW c \in Requests, NEW o \in Requests, Moves(w, c, o)
  PROVE  Untouched'
<1>1. c = op[w] /\ o = op'[w] /\ \A x \in Writers \ {w} : op'[x] = op[x] BY DEF Moves
<1>2. ASSUME NEW x \in Writers, op'[x].kind \in Makes, op'[x].id = None
      PROVE  Storer(x) /\ op'[x].content = op[x].content /\ (x = w => c.id = None)
  <2>1. CASE x = w
    <3>1. o.kind \in Makes /\ o.id = None BY <1>1, <1>2, <2>1
    <3>2. o # Idle BY <3>1, IdleFields DEF Makes
    <3>3. made + 1 \in Ids => made + 1 # None BY IdsNumbers
    <3>4. Prepares(c, o) BY <3>1, <3>2, <3>3 DEF Moves, Over, Inserts, Compacts
    <3>5. QED BY <1>1, <2>1, <3>4 DEF Prepares, Same, Storer
  <2>2. CASE x # w BY <1>1, <1>2, <2>2 DEF Storer
  <2>3. QED BY <2>1, <2>2
<1>3. ASSUME NEW x \in Writers, Storer(x), c.id # None, NEW b \in Candidates' PROVE op[x].content \notin {b.from, b.to}
  <2>1. CASE b \in Candidates BY <1>3, <2>1 DEF Fresh, Untouched
  <2>2. CASE c.old # None /\ b = Full(c.old.to)
    BY <1>1, <1>3, <2>2 DEF Fresh, Untouched, Full
  <2>3. CASE c.kind = "raw" /\ c.old # None /\ b = Patch(c.content, c.old.to)
    <3>1. x # w BY <1>1, <1>3 DEF Storer
    <3>2. op[x].content # c.content BY <1>1, <1>3, <2>3, <3>1 DEF Fresh, OwnContent, Storer, Makes
    <3>3. op[x].content # c.old.to BY <1>1, <1>3, <2>3 DEF Fresh, Untouched
    <3>4. QED BY <2>3, <3>2, <3>3 DEF Patch
  <2>4. QED BY <2>1, <2>2, <2>3, NewCandidates DEF Fresh
<1>4. ASSUME NEW x \in Writers, Storer(x), c.id = None, NEW b \in Candidates' PROVE op[x].content \notin {b.from, b.to}
  <2>1. CASE b \in Candidates BY <1>4, <2>1 DEF Fresh, Untouched
  <2>2. CASE c.old # None /\ b = Full(c.old.to)
    BY <1>1, <1>4, <2>2 DEF Fresh, Untouched, Full
  <2>3. QED BY <1>4, <2>1, <2>2, NewCandidates DEF Fresh
<1>5. ASSUME NEW x \in Writers, Storer(x), NEW y \in Writers, op'[y].old # None
      PROVE  op'[y].old.to # op[x].content
  <2>1. CASE op'[y].old = op[y].old BY <1>5, <2>1 DEF Fresh, Untouched
  <2>2. CASE op'[y].old # op[y].old
    <3>1. y = w /\ o.old # None /\ o.old # c.old BY <1>1, <1>5, <2>2
    <3>2. o.old = Full(truth[c.head]) /\ c.head \in Ids /\ InLog(c.head)
      BY <3>1, IdleFields DEF Moves, Over, Prepares, Inserts, Compacts
    <3>3. op[x].content # truth[c.head] BY <1>5, <3>2, IdsNumbers DEF Fresh, OwnContent, Storer
    <3>4. QED BY <1>1, <3>1, <3>2, <3>3 DEF Full
  <2>3. QED BY <2>1, <2>2
<1>6. ASSUME NEW x \in Writers, op'[x].kind \in Makes, op'[x].id = None
      PROVE  /\ \A b \in Candidates' : op'[x].content \notin {b.from, b.to}
             /\ \A y \in Writers : op'[y].old # None => op'[y].old.to # op'[x].content
  BY <1>2, <1>3, <1>4, <1>5, <1>6
<1>7. QED BY <1>6 DEF Untouched, Storer

LEMMA MovedPatch ==
  ASSUME Kept, Fresh, NEW w \in Writers, NEW c \in Requests, NEW o \in Requests, Moves(w, c, o), gc' = gc
  PROVE  PatchUnknown'
<1>1. c = op[w] /\ o = op'[w] /\ \A x \in Writers \ {w} : op'[x] = op[x] BY DEF Moves
<1>2. \A x \in Writers : op[x].kind = "raw" /\ x # w /\ c.kind = "raw" => op[x].content # c.content
  BY <1>1 DEF Fresh, OwnContent, Makes
<1>3. ASSUME NEW x \in Writers \ {w}, op[x].kind = "raw", NEW d, Patch(op[x].content, d) \notin Candidates
      PROVE  Patch(op[x].content, d) \notin Candidates'
  <2>1. \A e : Patch(op[x].content, d) # Full(e) BY DEF Full, Patch
  <2>2. c.kind = "raw" => \A e : Patch(op[x].content, d) # Patch(c.content, e) BY <1>2, <1>3 DEF Patch
  <2>3. QED BY <1>3, <2>1, <2>2, NewCandidates DEF Fresh
<1>4. \A x \in Writers : /\ op[x] \in Requests /\ Fits(op[x])
                         /\ op[x].pc \in Compacting => op[x].kind = "raw"
  BY DEF Kept, OpsTyped, OpsFit, Fits, StageFits
<1>5. ASSUME NEW x \in Writers \ {w}, op[x].kind = "raw", op[x].pc \in {"update", "compact"},
             op[x].head # None, log'[op[x].head] # None
      PROVE  Patch(op[x].content, truth'[op[x].head]) \notin Candidates'
  <2>1. PICK h \in Ids : h = op[x].head BY <1>4, <1>5 DEF Requests, Maybe
  <2>2. h <= made BY <1>4, <2>1, <1>5 DEF Fits, HeadFits
  <2>3. InLog(h) /\ truth'[h] = truth[h]
    <3>1. CASE Inserts(c, o)
      <4>1. h # made + 1 BY <2>2, IdsNumbers DEF Kept, TypeOK
      <4>2. QED BY <1>5, <2>1, <3>1, <4>1 DEF Inserts, InLog
    <3>2. CASE ~Inserts(c, o) BY <1>5, <2>1, <3>2, MovedLog DEF InLog
    <3>3. QED BY <3>1, <3>2
  <2>4. Patch(op[x].content, truth[h]) \notin Candidates BY <1>5, <2>1, <2>3 DEF Fresh, PatchUnknown
  <2>5. QED BY <1>3, <1>5, <2>1, <2>3, <2>4
<1>6. ASSUME NEW x \in Writers \ {w}, op[x].pc \in {"compactfetch", "putpatch", "queuepatch"}
      PROVE  Patch(op[x].content, op[x].old.to) \notin Candidates'
  BY <1>3, <1>4, <1>6 DEF Fresh, PatchUnknown, Compacting
<1>7. ASSUME NEW x \in Writers \ {w}, op[x].pc = "reencode"
      PROVE  op[x].blob \in Candidates' /\ x \in queue'[op[x].blob] /\ op[x].blob \notin gc'.todo
  <2>1. op[x].blob \in Candidates /\ x \in queue[op[x].blob] /\ op[x].blob \notin gc.todo
    BY <1>7 DEF Fresh, PatchUnknown
  <2>2. QED BY <2>1, MovedQueue
<1>8. ASSUME o.kind = "raw", o.pc \in {"update", "compact"}, o.head # None, log'[o.head] # None
      PROVE  Patch(o.content, truth'[o.head]) \notin Candidates'
  <2>1. Inserts(c, o) \/ (Compacts(c, o) /\ c.pc = "update" /\ o.pc = "compact" /\ UNCHANGED <<log, truth, queue>>)
    BY <1>8, IdleFields DEF Moves, Over, Prepares, Compacts
  <2>2. Candidates' = Candidates BY <2>1 DEF Inserts, Candidates
  <2>3. CASE Inserts(c, o)
    <3>1. Storer(w) /\ o.content = c.content BY <1>1, <2>3 DEF Inserts, Storer, Same
    <3>2. \A b \in Candidates : b.from # o.content BY <1>1, <3>1 DEF Fresh, Untouched
    <3>3. QED BY <2>2, <3>2 DEF Patch
  <2>4. CASE Compacts(c, o) /\ c.pc = "update" /\ o.pc = "compact" /\ UNCHANGED <<log, truth, queue>>
    BY <1>1, <1>8, <2>2, <2>4 DEF Fresh, PatchUnknown, Compacts, Same, InLog
  <2>5. QED BY <2>1, <2>3, <2>4
<1>9. ASSUME o.pc \in {"compactfetch", "putpatch", "queuepatch"}
      PROVE  Patch(o.content, o.old.to) \notin Candidates'
  <2>1. /\ c.kind = "raw" /\ o.content = c.content /\ UNCHANGED queue
        /\ \/ /\ c.pc = "compact" /\ c.head \in Ids /\ InLog(c.head) /\ o.old = Full(truth[c.head])
           \/ c.pc \in {"compactfetch", "putpatch"} /\ o.old = c.old
    BY <1>9, IdleFields DEF Moves, Over, Prepares, Inserts, Compacts, Same
  <2>2. Candidates' = Candidates BY <2>1 DEF Candidates
  <2>3. CASE c.pc = "compact" /\ c.head \in Ids /\ InLog(c.head) /\ o.old = Full(truth[c.head])
    <3>1. Patch(c.content, truth[c.head]) \notin Candidates
      BY <1>1, <2>1, <2>3, IdsNumbers DEF Fresh, PatchUnknown
    <3>2. QED BY <2>1, <2>2, <2>3, <3>1 DEF Full
  <2>4. CASE c.pc \in {"compactfetch", "putpatch"} /\ o.old = c.old
    BY <1>1, <2>1, <2>2, <2>4 DEF Fresh, PatchUnknown
  <2>5. QED BY <2>1, <2>3, <2>4
<1>10. ASSUME o.pc = "reencode"
       PROVE  o.blob \in Candidates' /\ w \in queue'[o.blob] /\ o.blob \notin gc'.todo
  <2>1. c.pc = "queuepatch" /\ o.blob = c.blob /\ c.blob = Patch(c.content, c.old.to)
    BY <1>10, IdleFields DEF Moves, Over, Prepares, Inserts, Compacts
  <2>2. c.blob \notin Candidates BY <1>1, <2>1 DEF Fresh, PatchUnknown
  <2>3. c.blob \in Candidates' /\ queue'[c.blob] = InFlight BY <1>10, <2>1, <2>2, IdleFields, MovedQueue
  <2>4. w \in InFlight BY <1>1, <2>1, IdleFields DEF InFlight
  <2>5. c.blob \notin gc.todo BY <2>2 DEF Fresh, Doomed
  <2>6. QED BY <2>1, <2>3, <2>4, <2>5
<1>11. ASSUME NEW x \in Writers
       PROVE  /\ op'[x].kind = "raw" /\ op'[x].pc \in {"update", "compact"} /\ op'[x].head # None /\ InLog(op[x].head)'
                   => Patch(op'[x].content, truth'[op'[x].head]) \notin Candidates'
              /\ op'[x].pc \in {"compactfetch", "putpatch", "queuepatch"}
                   => Patch(op'[x].content, op'[x].old.to) \notin Candidates'
              /\ op'[x].pc = "reencode"
                   => op'[x].blob \in Candidates' /\ x \in queue'[op'[x].blob] /\ op'[x].blob \notin gc'.todo
  <2>1. CASE x = w BY <1>1, <1>8, <1>9, <1>10, <2>1 DEF InLog
  <2>2. CASE x # w BY <1>1, <1>5, <1>6, <1>7, <2>2 DEF InLog
  <2>3. QED BY <2>1, <2>2
<1>12. QED BY <1>11 DEF PatchUnknown, Patch

LEMMA MovedDoomed ==
  ASSUME Kept, Fresh, NEW w \in Writers, NEW c \in Requests, NEW o \in Requests, Moves(w, c, o), gc' = gc
  PROVE  Doomed'
<1>1. c = op[w] /\ o = op'[w] BY DEF Moves
<1>2. gc.todo \subseteq Candidates' BY MovedQueue DEF Fresh, Doomed
<1>3. ASSUME gc.pc = "delete" PROVE References(gc.cur)' = {}
  <2>1. References(gc.cur) = {} /\ gc.cur \in gc.todo BY <1>3 DEF Fresh, Doomed, Settling
  <2>2. ASSUME NEW i \in Ids, InLog(i)', log'[i].blob = gc.cur PROVE FALSE
    <3>1. log'[i] # log[i] BY <2>1, <2>2 DEF References, InLog
    <3>2. CASE Inserts(c, o)
      <4>1. log'[i].blob = c.blob /\ Storer(w) /\ c.pc = "insert" BY <1>1, <2>2, <3>1, <3>2 DEF Inserts, Storer
      <4>2. gc.cur.to = c.content BY <1>1, <2>2, <4>1 DEF Fresh, OwnBlob
      <4>3. gc.cur \in Candidates BY <2>1 DEF Fresh, Doomed
      <4>4. QED BY <1>1, <4>1, <4>2, <4>3 DEF Fresh, Untouched
    <3>3. CASE ~Inserts(c, o)
      <4>1. c.pc = "reencode" /\ gc.cur = c.blob BY <2>2, <3>1, <3>3, MovedLog
      <4>2. QED BY <1>1, <2>1, <4>1 DEF Fresh, PatchUnknown
    <3>4. QED BY <3>2, <3>3
  <2>3. QED BY <2>2 DEF References, InLog
<1>4. QED BY <1>2, <1>3 DEF Fresh, Doomed, Settling

LEMMA StepFresh ==
  ASSUME Kept, Fresh, NEW w \in Writers, Step(w)
  PROVE  Fresh'
<1>1. gc' = gc /\ \E c, o \in Requests : Moves(w, c, o) BY Moved DEF Fresh
<1>2. PICK c, o \in Requests : Moves(w, c, o) BY <1>1
<1>3. QED BY <1>1, <1>2, MovedContent, MovedId, MovedBlob, MovedUntouched, MovedPatch, MovedDoomed DEF Fresh

(* A request that starts has a content of its own, if it stores one.       *)
LEMMA RequestStarts ==
  ASSUME ~Recurring, "rollback" \notin Ops, Kept, NEW w \in Writers, Request(w)
  PROVE  \E o \in Requests :
           /\ o = op'[w] /\ o.kind # "rollback" /\ o.id = None /\ o.old = None
           /\ o.pc \in {"read", "putfull", "list"} \/ (o.pc = "update" /\ o.kind = "rename")
           /\ o.kind \in Makes => Unused(o.content)
<1>1. op \in [Writers -> Requests] BY Request0 DEF Kept, OpsTyped
<1>2. Kept' BY NextKept DEF Next
<1>3. PICK o \in Requests : o = op'[w] BY <1>2 DEF Kept, OpsTyped
<1>4. ASSUME NEW f, NEW c, NEW kind, NEW where, Begin(w, kind, f, c, where)
      PROVE  /\ o.kind = kind /\ o.pc = where /\ o.content = c /\ o.id = None /\ o.old = None /\ kind \in Ops
  <2>1. PICK d : /\ d = [Idle EXCEPT !.pc = where, !.kind = kind, !.file = f, !.head = file[f].head, !.content = c]
                 /\ op' = [op EXCEPT ![w] = d]
    BY <1>4 DEF Begin
  <2>2. d.kind = kind /\ d.pc = where /\ d.content = c /\ d.id = None /\ d.old = None BY <2>1 DEF Idle
  <2>3. o = d BY <1>1, <1>3, <2>1
  <2>4. QED BY <1>4, <2>2, <2>3 DEF Begin
<1>5. ASSUME NEW f, NEW i, NEW kind, Materialize(w, kind, f, i)
      PROVE  /\ o.kind = kind /\ o.pc = "read" /\ o.id = None /\ o.old = None /\ kind \in Ops
  <2>1. PICK d : /\ d = [Idle EXCEPT !.pc = "read", !.kind = kind, !.file = f,
                                     !.content = Restore(i), !.needs = ChainBlobs(i)]
                 /\ op' = [op EXCEPT ![w] = d]
    BY <1>5 DEF Materialize
  <2>2. d.kind = kind /\ d.pc = "read" /\ d.id = None /\ d.old = None BY <2>1 DEF Idle
  <2>3. o = d BY <1>1, <1>3, <2>1
  <2>4. QED BY <1>5, <2>2, <2>3 DEF Materialize
<1>6. SUFFICES /\ o.kind # "rollback" /\ o.id = None /\ o.old = None
               /\ o.pc \in {"read", "putfull", "list"} \/ (o.pc = "update" /\ o.kind = "rename")
               /\ o.kind \in Makes => Unused(o.content)
  BY <1>3
<1>7. CASE \E f \in Files : \E c \in Contents : BeginCreate(w, f, c) \/ BeginCommit(w, f, c) \/ BeginRaw(w, f, c)
  <2>1. PICK f \in Files, c \in Contents : BeginCreate(w, f, c) \/ BeginCommit(w, f, c) \/ BeginRaw(w, f, c)
    BY <1>7
  <2>2. Unused(c) BY <2>1 DEF BeginCreate, BeginCommit, BeginRaw, MayStore
  <2>3. \E kind \in Makes, where \in {"putfull", "list"} : Begin(w, kind, f, c, where)
    BY <2>1 DEF BeginCreate, BeginCommit, BeginRaw, Makes
  <2>4. QED BY <1>4, <2>2, <2>3 DEF Makes
<1>8. CASE \E f \in Files : \E i \in Ids : BeginRead(w, f, i) \/ BeginRollback(w, f, i)
  BY <1>5, <1>8 DEF BeginRead, BeginRollback, Makes
<1>9. CASE \E f \in Files : BeginRename(w, f)
  BY <1>4, <1>9 DEF BeginRename, Makes
<1>10. QED BY <1>7, <1>8, <1>9 DEF Request

LEMMA RequestFresh ==
  ASSUME ~Recurring, "rollback" \notin Ops, Kept, Fresh, NoBlobLost, Held, NEW w \in Writers, Request(w)
  PROVE  Fresh'
<1>1. /\ UNCHANGED <<log, truth, queue, gc>> /\ op[w] = Idle
      /\ \A x \in Writers \ {w} : op'[x] = op[x]
  BY RequestHeld
<1>2. PICK o \in Requests :
        /\ o = op'[w] /\ o.kind # "rollback" /\ o.id = None /\ o.old = None
        /\ o.pc \in {"read", "putfull", "list"} \/ (o.pc = "update" /\ o.kind = "rename")
        /\ o.kind \in Makes => Unused(o.content)
  BY RequestStarts
<1>3. \A i \in Ids : InLog(i)' <=> InLog(i) BY <1>1 DEF InLog
<1>4. Candidates' = Candidates BY <1>1 DEF Candidates
<1>5. o.kind \in Makes =>
        /\ \A x \in Writers : op[x].content # o.content /\ (op[x].old # None => op[x].old.to # o.content)
        /\ \A i \in Ids : truth[i] # o.content
        /\ \A b \in Candidates : o.content \notin {b.from, b.to}
  BY <1>2 DEF Unused
<1>6. OwnContent'
  <2>1. ASSUME NEW x \in Writers
        PROVE  /\ op'[x].kind # "rollback"
               /\ op'[x].kind \in Makes => \A i \in Ids : InLog(i)' /\ truth'[i] = op'[x].content => i = op'[x].id
    BY <1>1, <1>2, <1>3, <1>5 DEF Fresh, OwnContent
  <2>2. ASSUME NEW x \in Writers, NEW y \in Writers, x # y, op'[x].kind \in Makes, op'[y].kind \in Makes
        PROVE  op'[x].content # op'[y].content
    BY <1>1, <1>2, <1>5, <2>2 DEF Fresh, OwnContent
  <2>3. \A i, j \in Ids : InLog(i)' /\ InLog(j)' /\ truth'[i] = truth'[j] => i = j
    BY <1>1, <1>3 DEF Fresh, OwnContent
  <2>4. QED BY <2>1, <2>2, <2>3 DEF OwnContent, InLog
<1>7. OwnId'
  <2>1. \A x, y \in Writers : x # y /\ op'[x].id # None => op'[x].id # op'[y].id
    BY <1>1, <1>2 DEF Fresh, OwnId
  <2>2. ASSUME NEW x \in Writers, op'[x].kind = "raw", op'[x].id # None, op'[x].pc # "queueold",
               NEW j \in Ids, InLog(j)', j < op'[x].id
        PROVE  log'[j].base # op'[x].id
    BY <1>1, <1>2, <1>3, <2>2 DEF Fresh, OwnId
  <2>3. QED BY <2>1, <2>2 DEF OwnId, InLog
<1>8. OwnBlob'
  <2>1. ASSUME NEW x \in Writers
        PROVE  /\ op'[x].pc \in {"fetch", "put", "insertfile", "insert"} => op'[x].blob.to = op'[x].content
               /\ op'[x].old # None => op'[x].old = Full(op'[x].old.to)
    BY <1>1, <1>2 DEF Fresh, OwnBlob
  <2>2. QED BY <2>1 DEF OwnBlob, Full
<1>9. Untouched'
  <2>1. ASSUME NEW x \in Writers, op'[x].kind \in Makes, op'[x].id = None
        PROVE  /\ \A b \in Candidates : op'[x].content \notin {b.from, b.to}
               /\ \A y \in Writers : op'[y].old # None => op'[y].old.to # op'[x].content
    BY <1>1, <1>2, <1>5, <2>1 DEF Fresh, Untouched, Storer
  <2>2. QED BY <1>4, <2>1 DEF Untouched, Storer
<1>10. PatchUnknown'
  <2>1. ASSUME NEW x \in Writers
        PROVE  /\ op'[x].kind = "raw" /\ op'[x].pc \in {"update", "compact"} /\ op'[x].head # None /\ log'[op'[x].head] # None
                    => Patch(op'[x].content, truth'[op'[x].head]) \notin Candidates
               /\ op'[x].pc \in {"compactfetch", "putpatch", "queuepatch"}
                    => Patch(op'[x].content, op'[x].old.to) \notin Candidates
               /\ op'[x].pc = "reencode"
                    => op'[x].blob \in Candidates /\ x \in queue'[op'[x].blob] /\ op'[x].blob \notin gc'.todo
    <3>1. CASE x = w BY <1>2, <3>1
    <3>2. CASE x # w BY <1>1, <3>2 DEF Fresh, PatchUnknown, InLog
    <3>3. QED BY <3>1, <3>2
  <2>2. QED BY <1>4, <2>1 DEF PatchUnknown, Patch, InLog
<1>11. Doomed' BY <1>1, <1>4 DEF Fresh, Doomed, Settling, References, InLog
<1>12. QED BY <1>6, <1>7, <1>8, <1>9, <1>10, <1>11 DEF Fresh

(* The blobs of the rows that a purge deletes become candidates.           *)
LEMMA PurgeCandidates ==
  ASSUME Kept, NEW f \in Files, PurgeFile(f)
  PROVE  /\ Live(f) /\ UNCHANGED <<made, blobs, op, gc>>
         /\ \A i \in Ids : InLog(i)' <=> (InLog(i) /\ log[i].file # f)
         /\ \A i \in Ids : InLog(i)' => log'[i] = log[i] /\ truth'[i] = truth[i]
         /\ Candidates \subseteq Candidates'
         /\ \A b \in Candidates : queue'[b] = queue[b]
         /\ \A b \in Candidates' \ Candidates :
              queue'[b] = InFlight /\ \E i \in Ids : InLog(i) /\ log[i].file = f /\ log[i].blob = b
<1>1. queue \in Queues BY DEF Kept, TypeOK, Queues
<1>2. /\ Live(f) /\ UNCHANGED <<made, blobs, op, gc>>
      /\ queue' = Enlist(queue, {log[i].blob : i \in History(f)})
      /\ \A i \in Ids : log'[i] = IF i \in History(f) THEN None ELSE log[i]
      /\ \A i \in Ids : truth'[i] = IF i \in History(f) THEN NoContent ELSE truth[i]
  BY <1>1 DEF PurgeFile
<1>3. \A i \in Ids : InLog(i)' <=> (InLog(i) /\ log[i].file # f) BY <1>2 DEF InLog, History
<1>4. \A i \in Ids : InLog(i)' => log'[i] = log[i] /\ truth'[i] = truth[i] BY <1>2 DEF InLog
<1>5. PICK bs : bs = {log[i].blob : i \in History(f)} OBVIOUS
<1>6. \A b \in bs : \E i \in Ids : InLog(i) /\ log[i].file = f /\ log[i].blob = b BY <1>5 DEF History
<1>7. /\ {b \in Blobs : Enlist(queue, bs)[b] # None} = Candidates \cup (bs \cap Blobs)
      /\ \A b \in Candidates : Enlist(queue, bs)[b] = queue[b]
      /\ \A b \in (bs \cap Blobs) \ Candidates : Enlist(queue, bs)[b] = InFlight
  BY <1>1, CandidateSteps
<1>8. Candidates' = Candidates \cup (bs \cap Blobs) /\ queue' = Enlist(queue, bs) BY <1>2, <1>5, <1>7 DEF Candidates
<1>9. QED BY <1>2, <1>3, <1>4, <1>6, <1>7, <1>8

LEMMA PurgeFresh ==
  ASSUME Kept, Fresh, NEW f \in Files, PurgeFile(f)
  PROVE  Fresh'
<1>1. /\ Live(f) /\ UNCHANGED <<made, blobs, op, gc>>
      /\ \A i \in Ids : InLog(i)' <=> (InLog(i) /\ log[i].file # f)
      /\ \A i \in Ids : InLog(i)' => log'[i] = log[i] /\ truth'[i] = truth[i]
      /\ Candidates \subseteq Candidates'
      /\ \A b \in Candidates : queue'[b] = queue[b]
      /\ \A b \in Candidates' \ Candidates :
           \E i \in Ids : InLog(i) /\ log[i].file = f /\ log[i].blob = b
  BY PurgeCandidates
<1>2. OwnContent'
  <2>1. \A i, j \in Ids : InLog(i)' /\ InLog(j)' /\ truth'[i] = truth'[j] => i = j
    BY <1>1 DEF Fresh, OwnContent
  <2>2. \A x \in Writers : op[x].kind \in Makes =>
          \A i \in Ids : InLog(i)' /\ truth'[i] = op[x].content => i = op[x].id
    BY <1>1 DEF Fresh, OwnContent
  <2>3. QED BY <1>1, <2>1, <2>2 DEF Fresh, OwnContent, InLog
<1>3. OwnId'
  <2>1. ASSUME NEW x \in Writers, op[x].kind = "raw", op[x].id # None, op[x].pc # "queueold",
               NEW j \in Ids, InLog(j)', j < op[x].id
        PROVE  log'[j].base # op[x].id
    BY <1>1, <2>1 DEF Fresh, OwnId
  <2>2. QED BY <1>1, <2>1 DEF Fresh, OwnId, InLog
<1>4. OwnBlob' BY <1>1 DEF Fresh, OwnBlob, Full
<1>5. ASSUME NEW i \in Ids, InLog(i)
      PROVE  /\ truth[i] \in Contents
             /\ \/ log[i].base = None /\ log[i].blob = Full(truth[i])
                \/ /\ log[i].base \in Ids /\ InLog(log[i].base) /\ log[log[i].base].file = log[i].file
                   /\ log[i].blob = Patch(truth[log[i].base], truth[i]) /\ log[i].base # i
  <2>1. log[i].base \in Maybe(Ids) BY <1>5, LogRow DEF Kept, TypeOK, LogTyped
  <2>2. QED BY <1>5, <2>1 DEF Kept, Chained, Maybe
<1>6. Untouched'
  <2>1. ASSUME NEW x \in Writers, Storer(x), NEW i \in Ids, InLog(i)
        PROVE  truth[i] # op[x].content
    BY <2>1, IdsNumbers DEF Fresh, OwnContent, Storer
  <2>2. ASSUME NEW x \in Writers, Storer(x), NEW b \in Candidates'
        PROVE  op[x].content \notin {b.from, b.to}
    <3>1. CASE b \in Candidates BY <2>2, <3>1 DEF Fresh, Untouched
    <3>2. CASE b \notin Candidates
      <4>1. PICK i \in Ids : InLog(i) /\ log[i].blob = b BY <1>1, <3>2
      <4>2. truth[i] # op[x].content BY <2>1, <2>2, <4>1
      <4>3. CASE log[i].base = None /\ log[i].blob = Full(truth[i]) BY <4>1, <4>2, <4>3 DEF Full
      <4>4. CASE log[i].base \in Ids /\ InLog(log[i].base) /\ log[i].blob = Patch(truth[log[i].base], truth[i])
        <5>1. truth[log[i].base] # op[x].content BY <2>1, <2>2, <4>4
        <5>2. QED BY <4>1, <4>2, <4>4, <5>1 DEF Patch
      <4>5. QED BY <1>5, <4>1, <4>3, <4>4
    <3>3. QED BY <3>1, <3>2
  <2>3. \A x \in Writers : Storer(x) => \A y \in Writers : op[y].old # None => op[y].old.to # op[x].content
    BY DEF Fresh, Untouched
  <2>4. QED BY <1>1, <2>2, <2>3 DEF Untouched, Storer
<1>7. ASSUME NEW i \in Ids, InLog(i), NEW c, NEW d, log[i].blob = Patch(c, d)
      PROVE  /\ truth[i] = d
             /\ log[i].base \in Ids /\ InLog(log[i].base) /\ log[log[i].base].file = log[i].file
             /\ truth[log[i].base] = c /\ log[i].base # i
  <2>1. log[i].blob.patch /\ log[i].blob.from = c /\ log[i].blob.to = d BY <1>7 DEF Patch
  <2>2. CASE log[i].base = None /\ log[i].blob = Full(truth[i]) BY <2>1, <2>2 DEF Full
  <2>3. CASE /\ log[i].base \in Ids /\ InLog(log[i].base) /\ log[log[i].base].file = log[i].file
             /\ log[i].blob = Patch(truth[log[i].base], truth[i]) /\ log[i].base # i
    <3>1. log[i].blob.from = truth[log[i].base] /\ log[i].blob.to = truth[i] BY <2>3 DEF Patch
    <3>2. QED BY <2>1, <2>3, <3>1
  <2>4. QED BY <1>5, <1>7, <2>2, <2>3
<1>8. ASSUME NEW x \in Writers, op[x].kind = "raw", op[x].pc \in {"update", "compact"}, op[x].head # None,
             log'[op[x].head] # None
      PROVE  Patch(op[x].content, truth'[op[x].head]) \notin Candidates'
  <2>1. PICK h \in Ids : h = op[x].head BY <1>8 DEF Kept, OpsTyped, Requests, Maybe
  <2>2. InLog(h) /\ log[h].file # f /\ truth'[h] = truth[h] BY <1>1, <1>8, <2>1 DEF InLog
  <2>3. Patch(op[x].content, truth[h]) \notin Candidates BY <1>8, <2>1, <2>2 DEF Fresh, PatchUnknown
  <2>4. ASSUME NEW i \in Ids, InLog(i), log[i].file = f, log[i].blob = Patch(op[x].content, truth[h]) PROVE FALSE
    <3>1. truth[i] = truth[h] BY <1>7, <2>4
    <3>2. i = h BY <2>2, <2>4, <3>1 DEF Fresh, OwnContent
    <3>3. QED BY <2>2, <2>4, <3>2
  <2>5. QED BY <1>1, <2>1, <2>2, <2>3, <2>4
<1>9. ASSUME NEW x \in Writers, op[x].pc \in {"compactfetch", "putpatch", "queuepatch"}
      PROVE  Patch(op[x].content, op[x].old.to) \notin Candidates'
  <2>1. Patch(op[x].content, op[x].old.to) \notin Candidates BY <1>9 DEF Fresh, PatchUnknown
  <2>2. op[x] \in Requests /\ Fits(op[x]) BY DEF Kept, OpsTyped, OpsFit
  <2>3. /\ op[x].kind = "raw" /\ op[x].id # None /\ op[x].head # None
        /\ op[x].head < op[x].id
        /\ Live(op[x].file) => /\ op[x].old = Full(truth[op[x].head])
                               /\ InLog(op[x].head) /\ InLog(op[x].id)
        /\ InLog(op[x].id) => log[op[x].id].file = op[x].file
    BY <1>9, <2>2 DEF Fits, StageFits, HeadFits, CommitFits, PatchFits, Compacting
  <2>4. PICK h \in Ids, n \in Ids : h = op[x].head /\ n = op[x].id BY <2>2, <2>3 DEF Requests, Maybe
  <2>5. ASSUME NEW i \in Ids, InLog(i), log[i].file = f, log[i].blob = Patch(op[x].content, op[x].old.to) PROVE FALSE
    <3>1. PICK j \in Ids : j = log[i].base BY <1>7, <2>5
    <3>2. truth[i] = op[x].old.to /\ InLog(j) /\ log[j].file = f /\ truth[j] = op[x].content
      BY <1>7, <2>5, <3>1
    <3>3. j = n BY <2>3, <2>4, <3>2 DEF Fresh, OwnContent, Makes
    <3>4. op[x].file = f BY <2>3, <2>4, <3>2, <3>3
    <3>5. op[x].old = Full(truth[h]) /\ InLog(h) BY <1>1, <2>3, <2>4, <3>4
    <3>6. truth[i] = truth[h] BY <3>2, <3>5 DEF Full
    <3>7. i = h BY <2>5, <3>5, <3>6 DEF Fresh, OwnContent
    <3>8. log[h].base # n BY <1>9, <2>3, <2>4, <3>5 DEF Fresh, OwnId
    <3>9. QED BY <3>1, <3>3, <3>7, <3>8
  <2>6. QED BY <1>1, <2>1, <2>5
<1>10. ASSUME NEW x \in Writers, op[x].pc = "reencode"
       PROVE  op[x].blob \in Candidates' /\ x \in queue'[op[x].blob] /\ op[x].blob \notin gc'.todo
  BY <1>1, <1>10 DEF Fresh, PatchUnknown
<1>11. PatchUnknown'
  <2>1. ASSUME NEW x \in Writers
        PROVE  /\ op[x].kind = "raw" /\ op[x].pc \in {"update", "compact"} /\ op[x].head # None /\ log'[op[x].head] # None
                    => Patch(op[x].content, truth'[op[x].head]) \notin Candidates'
               /\ op[x].pc \in {"compactfetch", "putpatch", "queuepatch"}
                    => Patch(op[x].content, op[x].old.to) \notin Candidates'
               /\ op[x].pc = "reencode"
                    => op[x].blob \in Candidates' /\ x \in queue'[op[x].blob] /\ op[x].blob \notin gc'.todo
    BY <1>8, <1>9, <1>10
  <2>2. QED BY <1>1, <2>1 DEF PatchUnknown, Patch, InLog
<1>12. Doomed'
  <2>1. gc.todo \subseteq Candidates' BY <1>1 DEF Fresh, Doomed
  <2>2. References(gc.cur) = {} => \A i \in Ids : ~(InLog(i)' /\ log'[i].blob = gc.cur)
    BY <1>1 DEF References
  <2>3. QED BY <1>1, <2>1, <2>2 DEF Fresh, Doomed, Settling, References, InLog
<1>13. QED BY <1>2, <1>3, <1>4, <1>6, <1>11, <1>12 DEF Fresh

(* What depends on the candidates and on the sweeper alone.                *)
LEMMA SweepFresh ==
  ASSUME Kept, Fresh, UNCHANGED <<log, truth, op>>, Candidates' \subseteq Candidates,
         \A x \in Writers : op[x].pc = "reencode" =>
           op[x].blob \in Candidates' /\ x \in queue'[op[x].blob] /\ op[x].blob \notin gc'.todo,
         Doomed'
  PROVE  Fresh'
<1>1. OwnContent' BY DEF Fresh, OwnContent, InLog
<1>2. OwnId' BY DEF Fresh, OwnId, InLog
<1>3. OwnBlob' BY DEF Fresh, OwnBlob, Full
<1>4. Untouched' BY DEF Fresh, Untouched, Storer
<1>5. PatchUnknown'
  <2>1. ASSUME NEW x \in Writers
        PROVE  /\ op[x].kind = "raw" /\ op[x].pc \in {"update", "compact"} /\ op[x].head # None /\ InLog(op[x].head)
                    => Patch(op[x].content, truth[op[x].head]) \notin Candidates'
               /\ op[x].pc \in {"compactfetch", "putpatch", "queuepatch"}
                    => Patch(op[x].content, op[x].old.to) \notin Candidates'
    BY DEF Fresh, PatchUnknown
  <2>2. QED BY <2>1 DEF PatchUnknown, Patch, InLog
<1>6. QED BY <1>1, <1>2, <1>3, <1>4, <1>5 DEF Fresh

Whole == NoBlobLost /\ Held /\ Fresh

LEMMA WholeNext ==
  ASSUME ~Recurring, "rollback" \notin Ops, Kept, Whole, [Next]_vars
  PROVE  Whole'
<1>. USE DEF Whole
<1>1. ASSUME NEW w \in Writers, Step(w) PROVE Whole' BY <1>1, StepHeld, StepFresh
<1>2. ASSUME NEW w \in Writers, Request(w) PROVE Whole' BY <1>2, RequestHeld, RequestFresh
<1>3. ASSUME NEW f \in Files, PurgeFile(f) PROVE Whole'
  <2>1. /\ UNCHANGED <<blobs, op>> /\ \A i \in Ids : InLog(i)' => InLog(i) /\ log'[i] = log[i]
    BY <1>3, PurgeCandidates
  <2>2. NoBlobLost' BY <2>1 DEF NoBlobLost, InLog
  <2>3. Held' BY <2>1 DEF Held, Unrecorded
  <2>4. QED BY <1>3, <2>2, <2>3, PurgeFresh
<1>4. ASSUME SweepList PROVE Whole'
  <2>1. UNCHANGED <<log, truth, blobs, queue, op>> /\ gc'.todo = Due /\ gc'.pc = "count" BY <1>4 DEF SweepList
  <2>2. Candidates' = Candidates BY <2>1 DEF Candidates
  <2>3. Due \subseteq Candidates BY NoneAssumption DEF Due, Candidates
  <2>4. Doomed' BY <2>1, <2>2, <2>3 DEF Doomed, Settling
  <2>5. \A x \in Writers : op[x].pc = "reencode" =>
          op[x].blob \in Candidates' /\ x \in queue'[op[x].blob] /\ op[x].blob \notin gc'.todo
    BY <2>1, <2>2 DEF Fresh, PatchUnknown, Due
  <2>6. Fresh' BY <2>1, <2>2, <2>4, <2>5, SweepFresh
  <2>7. QED BY <2>1, <2>6 DEF NoBlobLost, InLog, Held, Unrecorded
<1>5. ASSUME NEW b \in Blobs, SweepCount(b) PROVE Whole'
  <2>1. UNCHANGED <<log, truth, blobs, queue, op>> BY <1>5 DEF SweepCount
  <2>2. /\ b \in gc.todo /\ gc'.todo = gc.todo /\ gc'.cur = b
        /\ gc'.pc = "delete" => References(b) = {}
    BY <1>5 DEF SweepCount, Kept, Sweeper
  <2>3. Candidates' = Candidates BY <2>1 DEF Candidates
  <2>4. Doomed' BY <2>1, <2>2, <2>3 DEF Fresh, Doomed, References, InLog
  <2>5. \A x \in Writers : op[x].pc = "reencode" =>
          op[x].blob \in Candidates' /\ x \in queue'[op[x].blob] /\ op[x].blob \notin gc'.todo
    BY <2>1, <2>2, <2>3 DEF Fresh, PatchUnknown
  <2>6. Fresh' BY <2>1, <2>3, <2>4, <2>5, SweepFresh
  <2>7. QED BY <2>1, <2>6 DEF NoBlobLost, InLog, Held, Unrecorded
<1>6. ASSUME SweepDelete PROVE Whole'
  <2>1. UNCHANGED <<log, truth, queue, op>> /\ blobs' = blobs \ {gc.cur} /\ gc.pc = "delete" BY <1>6 DEF SweepDelete
  <2>2. gc'.todo = gc.todo /\ gc'.cur = gc.cur /\ gc'.pc = "remove" BY <1>6 DEF SweepDelete, Kept, Sweeper
  <2>3. Candidates' = Candidates BY <2>1 DEF Candidates
  <2>4. References(gc.cur) = {} /\ gc.cur \in gc.todo /\ gc.cur \in Candidates
    BY <2>1 DEF Fresh, Doomed, Settling
  <2>5. Doomed' BY <2>2, <2>3, <2>4 DEF Fresh, Doomed
  <2>6. \A x \in Writers : op[x].pc = "reencode" =>
          op[x].blob \in Candidates' /\ x \in queue'[op[x].blob] /\ op[x].blob \notin gc'.todo
    BY <2>1, <2>2, <2>3 DEF Fresh, PatchUnknown
  <2>7. Fresh' BY <2>1, <2>3, <2>5, <2>6, SweepFresh
  <2>8. NoBlobLost' BY <2>1, <2>4 DEF NoBlobLost, InLog, References
  <2>9. ASSUME NEW x \in Writers, op[x].pc \in Unrecorded PROVE op[x].blob # gc.cur
    <3>1. op[x] \in Requests /\ Fits(op[x]) BY DEF Kept, OpsTyped, OpsFit
    <3>2. CASE op[x].pc \in {"insertfile", "insert"}
      <4>1. op[x].kind \in Makes /\ op[x].id = None BY <3>1, <3>2 DEF Fits, StageFits, Storing, Makes
      <4>2. op[x].blob.to = op[x].content BY <3>2 DEF Fresh, OwnBlob
      <4>3. gc.cur.to # op[x].content BY <2>4, <4>1 DEF Fresh, Untouched, Storer
      <4>4. QED BY <4>2, <4>3
    <3>3. CASE op[x].pc = "queuepatch"
      <4>1. op[x].blob = Patch(op[x].content, op[x].old.to) BY <3>1, <3>3 DEF Fits, PatchFits
      <4>2. QED BY <2>4, <3>3, <4>1 DEF Fresh, PatchUnknown
    <3>4. CASE op[x].pc = "reencode" BY <2>4, <3>4 DEF Fresh, PatchUnknown
    <3>5. QED BY <2>9, <3>2, <3>3, <3>4 DEF Unrecorded
  <2>10. Held' BY <2>1, <2>9 DEF Held, Unrecorded
  <2>11. QED BY <2>7, <2>8, <2>10
<1>7. ASSUME SweepRemove PROVE Whole'
  <2>1. /\ UNCHANGED <<log, truth, blobs, op>> /\ gc.pc = "remove"
        /\ queue' = [queue EXCEPT ![gc.cur] = None]
        /\ gc'.pc \in {"idle", "count"} /\ gc'.todo = gc.todo \ {gc.cur}
    BY <1>7 DEF SweepRemove
  <2>2. gc.cur \in gc.todo /\ gc.cur \in Candidates /\ gc.todo \subseteq Candidates
    BY <2>1 DEF Fresh, Doomed, Settling
  <2>3. \A b \in Blobs : queue'[b] = IF b = gc.cur THEN None ELSE queue[b] BY <2>1 DEF Kept, TypeOK
  <2>4. Candidates' = Candidates \ {gc.cur} BY <2>3 DEF Candidates
  <2>5. Doomed' BY <2>1, <2>2, <2>4 DEF Doomed, Settling
  <2>6. \A x \in Writers : op[x].pc = "reencode" =>
          op[x].blob \in Candidates' /\ x \in queue'[op[x].blob] /\ op[x].blob \notin gc'.todo
    BY <2>1, <2>2, <2>3, <2>4 DEF Fresh, PatchUnknown, Candidates
  <2>7. Fresh' BY <2>1, <2>4, <2>5, <2>6, SweepFresh
  <2>8. QED BY <2>1, <2>7 DEF NoBlobLost, InLog, Held, Unrecorded
<1>8. ASSUME Crash PROVE Whole'
  <2>1. /\ UNCHANGED <<log, truth, blobs>> /\ queue' = Without(queue, Writers)
        /\ gc'.pc = "idle" /\ gc'.todo = {}
        /\ \A x \in Writers : op'[x] = Idle
    BY <1>8 DEF Crash
  <2>2. NoBlobLost' /\ Held' BY <2>1, IdleFields DEF NoBlobLost, InLog, Held, Unrecorded
  <2>3. OwnContent' BY <2>1, IdleFields DEF Fresh, OwnContent, InLog, Makes
  <2>4. OwnId' BY <2>1, IdleFields DEF OwnId
  <2>5. OwnBlob' BY <2>1, IdleFields DEF OwnBlob
  <2>6. Untouched' BY <2>1, IdleFields DEF Untouched, Storer, Makes
  <2>7. PatchUnknown' BY <2>1, IdleFields DEF PatchUnknown
  <2>8. Doomed' BY <2>1 DEF Doomed, Settling
  <2>9. QED BY <2>2, <2>3, <2>4, <2>5, <2>6, <2>7, <2>8 DEF Fresh
<1>9. CASE UNCHANGED vars
  <2>1. UNCHANGED <<log, truth, blobs, queue, op, gc>> BY <1>9 DEF vars
  <2>2. Candidates' = Candidates BY <2>1 DEF Candidates
  <2>3. Doomed' BY <2>1, <2>2 DEF Fresh, Doomed, Settling, References, InLog
  <2>4. \A x \in Writers : op[x].pc = "reencode" =>
          op[x].blob \in Candidates' /\ x \in queue'[op[x].blob] /\ op[x].blob \notin gc'.todo
    BY <2>1, <2>2 DEF Fresh, PatchUnknown
  <2>5. Fresh' BY <2>1, <2>2, <2>3, <2>4, SweepFresh
  <2>6. QED BY <2>1, <2>5 DEF NoBlobLost, InLog, Held, Unrecorded
<1>10. QED BY <1>1, <1>2, <1>3, <1>4, <1>5, <1>6, <1>7, <1>8, <1>9 DEF Next, Sweep

LEMMA WholeInit == ASSUME Init PROVE Whole
<1>1. /\ \A x \in Writers : op[x] = Idle
      /\ \A i \in Ids : ~InLog(i)
      /\ gc.pc = "idle" /\ gc.todo = {}
  BY DEF Init, InLog
<1>2. OwnContent BY <1>1, IdleFields DEF OwnContent, Makes
<1>3. OwnId BY <1>1, IdleFields DEF OwnId
<1>4. OwnBlob BY <1>1, IdleFields DEF OwnBlob
<1>5. Untouched BY <1>1, IdleFields DEF Untouched, Storer, Makes
<1>6. PatchUnknown BY <1>1, IdleFields DEF PatchUnknown
<1>7. Doomed BY <1>1 DEF Doomed, Settling
<1>8. NoBlobLost /\ Held BY <1>1, IdleFields DEF NoBlobLost, Held, Unrecorded
<1>9. QED BY <1>2, <1>3, <1>4, <1>5, <1>6, <1>7, <1>8 DEF Whole, Fresh

(* Every version of a file can be had back, its current one among them,    *)
(* over blobs that are on disk, when no content is stored twice: requests, *)
(* purges, compactions, the sweeper and crashes may then interleave in any *)
(* way, the settling of a candidate included (sweep_orphan_blobs).         *)
THEOREM RestorableFresh ==
  ASSUME ~Recurring, "rollback" \notin Ops PROVE Spec => []Restorable
<1>1. Init => Whole BY WholeInit
<1>2. Kept /\ Whole /\ [Next]_vars => Whole'
  BY WholeNext
<1>3. Kept /\ Whole => Restorable
  BY KeptHistory DEF Whole, Kept, Restorable, HistoryIntact
<1>4. QED BY <1>1, <1>2, <1>3, SpecKept, PTL DEF Spec
-----------------------------------------------------------------------------
(* That a request finds the blobs it is going to read.                     *)

(* A snapshot is no candidate; a commit whose old blob is going to be one  *)
(* is a snapshot no more, and alone had that content.                      *)
Snapshots == \A i \in Ids : InLog(i) /\ ~log[i].blob.patch => log[i].blob \notin Candidates
Replaced == \A w \in Writers : op[w].pc = "queueold" /\ InLog(op[w].head) => log[op[w].head].base # None
OldContent ==
  \A w \in Writers : op[w].old # None =>
    \A i \in Ids : InLog(i) /\ truth[i] = op[w].old.to => i = op[w].head

(* No request was in flight when what is being swept was queued.           *)
Swept == \A b \in gc.todo : queue[b] = {}

(* What a request is going to read is of a row of its file, or was queued  *)
(* while the request was in flight, or is going to be.                     *)
Asks(o) == o.needs \cup {b \in Blobs : o.kind = "raw" /\ o.pc \in {"update", "compact"} /\ b = o.blob}
Row(f, b) == \E i \in Ids : InLog(i) /\ log[i].file = f /\ log[i].blob = b
Saved(w, b) ==
  \/ Row(op[w].file, b)
  \/ b \in Candidates /\ w \in queue[b]
  \/ b \notin Candidates /\ \E x \in Writers : op[x].pc = "queueold" /\ op[x].old = b
Sought ==
  ~contested => \A w \in Writers : Live(op[w].file) => \A b \in Asks(op[w]) : b \in blobs /\ Saved(w, b)
Fetching == \A w \in Writers : op[w].needs # {} => op[w].pc \in {"read", "fetch", "compactfetch"}

Lasting == Snapshots /\ Replaced /\ OldContent /\ Swept /\ Fetching /\ Sought

LEMMA MovedSnapshots ==
  ASSUME Kept, Fresh, Lasting, NEW w \in Writers, NEW c \in Requests, NEW o \in Requests, Moves(w, c, o)
  PROVE  Snapshots'
<1>1. c = op[w] /\ o = op'[w] BY DEF Moves
<1>2. Fits(c) BY <1>1 DEF Kept, OpsFit
<1>3. SUFFICES ASSUME NEW i \in Ids, InLog(i)', log'[i].blob \in Candidates', ~log'[i].blob.patch PROVE FALSE
  BY DEF Snapshots, InLog
<1>4. CASE Inserts(c, o)
  <2>1. Candidates' = Candidates BY <1>4 DEF Inserts, Candidates
  <2>2. CASE i = made + 1
    <3>1. log'[i].blob = c.blob /\ Storer(w) /\ c.pc = "insert" BY <1>1, <1>4, <2>2 DEF Inserts, Storer
    <3>2. c.blob.to = c.content BY <1>1, <3>1 DEF Fresh, OwnBlob
    <3>3. QED BY <1>1, <1>3, <2>1, <3>1, <3>2 DEF Fresh, Untouched
  <2>3. CASE i # made + 1 BY <1>3, <1>4, <2>1, <2>3 DEF Inserts, Lasting, Snapshots, InLog
  <2>4. QED BY <2>2, <2>3
<1>5. CASE ~Inserts(c, o)
  <2>1. /\ InLog(i)
        /\ log'[i] = log[i] \/ (c.pc = "reencode" /\ log'[i].blob = c.blob)
    BY <1>3, <1>5, MovedLog
  <2>2. log'[i] = log[i]
    <3>1. c.pc = "reencode" => c.blob.patch BY <1>2 DEF Fits, PatchFits, Patch
    <3>2. QED BY <1>3, <2>1, <3>1
  <2>3. log[i].blob \notin Candidates BY <1>3, <2>1, <2>2 DEF Lasting, Snapshots
  <2>4. CASE c.pc = "queueold" /\ c.old # None /\ log[i].blob = Full(c.old.to)
    <3>1. log[i].base = None
      <4>1. log[i].base # None => log[i].blob = Patch(truth[log[i].base], truth[i]) BY <2>1 DEF Kept, Chained
      <4>2. log[i].base # None => log[i].blob.patch BY <4>1 DEF Patch
      <4>3. QED BY <1>3, <2>2, <4>2
    <3>2. truth[i] = c.old.to
      <4>1. Full(truth[i]) = Full(c.old.to) BY <2>1, <2>4, <3>1 DEF Kept, Chained
      <4>2. QED BY <4>1 DEF Full
    <3>3. i = c.head BY <1>1, <2>1, <2>4, <3>2 DEF Lasting, OldContent
    <3>4. log[i].base # None BY <1>1, <2>1, <2>4, <3>3 DEF Lasting, Replaced
    <3>5. QED BY <3>1, <3>4
  <2>5. CASE log[i].blob = Patch(c.content, c.old.to) BY <1>3, <2>2, <2>5 DEF Patch
  <2>6. QED BY <1>3, <2>2, <2>3, <2>4, <2>5, NewCandidates DEF Fresh
<1>6. QED BY <1>4, <1>5

LEMMA MovedReplaced ==
  ASSUME Kept, Fresh, Lasting, NEW w \in Writers, NEW c \in Requests, NEW o \in Requests, Moves(w, c, o)
  PROVE  Replaced'
<1>1. c = op[w] /\ o = op'[w] /\ \A x \in Writers \ {w} : op'[x] = op[x] BY DEF Moves
<1>2. ASSUME NEW x \in Writers, op'[x].pc = "queueold", log'[op'[x].head] # None
      PROVE  log'[op'[x].head].base # None
  <2>1. PICK d \in Requests : d = op[x] BY DEF Kept, OpsTyped
  <2>2. CASE x = w
    <3>1. /\ c.pc = "reencode" /\ o.head = c.head
          /\ log'[c.head].base = c.id /\ c.id # None
      BY <1>1, <1>2, <2>2, IdleFields DEF Moves, Over, Prepares, Inserts, Compacts, Same
    <3>2. QED BY <1>1, <2>2, <3>1
  <2>3. CASE x # w
    <3>1. op'[x] = op[x] BY <1>1, <2>3
    <3>2. Fits(d) BY <2>1 DEF Kept, OpsFit
    <3>3. d.head # None /\ d.head <= made
      BY <1>2, <2>1, <3>1, <3>2 DEF Fits, HeadFits, PatchFits, Compacting
    <3>4. PICK h \in Ids : h = d.head BY <3>3 DEF Requests, Maybe
    <3>5. CASE Inserts(c, o)
      <4>1. h # made + 1 BY <3>3, <3>4, IdsNumbers DEF Kept, TypeOK
      <4>2. log'[h] = log[h] BY <3>5, <4>1 DEF Inserts
      <4>3. QED BY <1>2, <2>1, <3>1, <3>4, <4>2 DEF Lasting, Replaced, InLog
    <3>6. CASE ~Inserts(c, o)
      <4>1. InLog(h) BY <1>2, <2>1, <3>1, <3>4, <3>6, MovedLog DEF InLog
      <4>2. log[h].base # None BY <1>2, <2>1, <3>1, <3>4, <4>1 DEF Lasting, Replaced
      <4>3. log'[h] = log[h] \/ (c.id # None /\ log'[h].base = c.id) BY <3>6, MovedLog
      <4>4. QED BY <2>1, <3>1, <3>4, <4>2, <4>3
    <3>7. QED BY <3>5, <3>6
  <2>4. QED BY <2>2, <2>3
<1>3. QED BY <1>2 DEF Replaced, InLog

LEMMA MovedOld ==
  ASSUME Kept, Fresh, Lasting, NEW w \in Writers, NEW c \in Requests, NEW o \in Requests, Moves(w, c, o)
  PROVE  OldContent'
<1>1. c = op[w] /\ o = op'[w] /\ \A x \in Writers \ {w} : op'[x] = op[x] BY DEF Moves
<1>2. ASSUME NEW x \in Writers, op'[x].old # None, NEW i \in Ids, InLog(i)', truth'[i] = op'[x].old.to
      PROVE  i = op'[x].head
  <2>1. CASE op'[x].old = op[x].old
    <3>1. op'[x].head = op[x].head
      <4>1. o.old # None => o.head = c.head
        BY IdleFields DEF Moves, Over, Prepares, Inserts, Compacts, Same
      <4>2. QED BY <1>1, <1>2, <4>1
    <3>2. CASE Inserts(c, o)
      <4>1. Storer(w) BY <1>1, <3>2 DEF Inserts, Storer
      <4>2. op[x].old.to # c.content BY <1>1, <1>2, <2>1, <4>1 DEF Fresh, Untouched
      <4>3. i # made + 1 BY <1>2, <2>1, <3>2, <4>2 DEF Inserts
      <4>4. InLog(i) /\ truth[i] = truth'[i] BY <1>2, <3>2, <4>3 DEF Inserts, InLog
      <4>5. QED BY <1>2, <2>1, <3>1, <4>4 DEF Lasting, OldContent
    <3>3. CASE ~Inserts(c, o)
      <4>1. InLog(i) /\ truth[i] = truth'[i] BY <1>2, <3>3, MovedLog
      <4>2. QED BY <1>2, <2>1, <3>1, <4>1 DEF Lasting, OldContent
    <3>4. QED BY <3>2, <3>3
  <2>2. CASE op'[x].old # op[x].old
    <3>1. x = w /\ o.old # None /\ o.old # c.old BY <1>1, <1>2, <2>2
    <3>2. /\ o.old = Full(truth[c.head]) /\ c.head \in Ids /\ InLog(c.head) /\ o.head = c.head
          /\ UNCHANGED <<log, truth>>
      BY <3>1, IdleFields DEF Moves, Over, Prepares, Inserts, Compacts, Same
    <3>3. truth[i] = truth[c.head] /\ InLog(i) BY <1>1, <1>2, <3>1, <3>2 DEF Full, InLog
    <3>4. QED BY <1>1, <3>1, <3>2, <3>3 DEF Fresh, OwnContent
  <2>3. QED BY <2>1, <2>2
<1>3. QED BY <1>2 DEF OldContent, InLog

(* The chain below a commit is of its file.                                *)
LEMMA ChainRows ==
  ASSUME LogTyped, Chained, NEW i \in Ids, InLog(i)
  PROVE  \A b \in ChainBlobs(i) : Row(log[i].file, b)
<1>. DEFINE L == Link(i)
<1>1. /\ L \in [0..MaxCommits -> Maybe(Ids)] /\ L[0] = i
      /\ \A m \in 1..MaxCommits : L[m] = BaseOf(L[m-1])
  BY LinkDef
<1>2. PICK d \in 0..(MaxCommits-1) : Depth(i) = d /\ \A n \in 0..d : L[n] \in Ids /\ InLog(L[n])
  BY ChainEnds
<1>. DEFINE N == {n \in Nat : n \in 0..d => log[L[n]].file = log[i].file}
<1>3. 0 \in N BY <1>1
<1>4. ASSUME NEW n \in N PROVE n + 1 \in N
  <2>. SUFFICES ASSUME n + 1 \in 0..d PROVE log[L[n+1]].file = log[i].file
    OBVIOUS
  <2>1. n \in 0..d /\ n + 1 \in 1..MaxCommits /\ (n + 1) - 1 = n BY <1>2, IdsNumbers
  <2>2. L[n+1] = BaseOf(L[n]) BY <1>1, <2>1
  <2>3. L[n] \in Ids /\ InLog(L[n]) /\ L[n+1] \in Ids BY <1>2, <2>1
  <2>4. log[L[n]].base = L[n+1] /\ L[n+1] # None BY <2>2, <2>3, IdsNumbers DEF BaseOf
  <2>5. log[L[n+1]].file = log[L[n]].file BY <2>3, <2>4 DEF Chained
  <2>6. QED BY <2>1, <2>5
<1>5. N = Nat
  <2>. HIDE DEF N
  <2>1. N \in SUBSET Nat BY DEF N
  <2>2. QED BY <1>3, <1>4, <2>1, Induction
<1>6. ASSUME NEW n \in 0..d PROVE Row(log[i].file, log[L[n]].blob)
  <2>1. log[L[n]].file = log[i].file BY <1>2, <1>5
  <2>2. QED BY <1>2, <2>1 DEF Row
<1>7. QED BY <1>2, <1>6 DEF ChainBlobs

(* A step of a request asks for no blob but of a row of its file, and      *)
(* concerns nobody else's file.                                            *)
AsksWell(w) ==
  \/ op'[w] = Idle
  \/ /\ op'[w].file = op[w].file
     /\ op'[w].needs # {} => op'[w].pc \in {"read", "fetch", "compactfetch"}
     /\ \/ Asks(op'[w]) = {}
        \/ \A f \in Files : f = op[w].file =>
             /\ Live(f)' => Live(f)
             /\ Live(f) => \A b \in Asks(op'[w]) : b \in Asks(op[w]) \/ Row(f, b)'

LEMMA StepFiles ==
  ASSUME Kept, NEW w \in Writers, Step(w)
  PROVE  /\ blobs \subseteq blobs'
         /\ contested => contested'
         /\ \A f : Live(f)' => Live(f) \/ (InsertFile(w) /\ f = op[w].file)
<1>1. blobs \subseteq blobs' /\ (contested => contested')
  <2>1. Abort(w) => UNCHANGED <<blobs, contested>> BY DEF Abort
  <2>2. CASE Put(w) \/ PutPatch(w) BY <2>2 DEF Put, PutPatch
  <2>3. CASE Reencode(w) /\ ~Abort(w)
    <3>1. contested' = (contested \/ log[op[w].head].base # None) BY <2>3 DEF Reencode
    <3>2. blobs' = blobs BY <2>3 DEF Reencode
    <3>3. contested => contested' BY <3>1
    <3>4. QED BY <3>2, <3>3
  <2>4. CASE Read(w) \/ List(w) \/ Fetch(w) \/ InsertFile(w)
    <3>1. UNCHANGED <<blobs, contested>> BY <2>1, <2>4 DEF Read, List, Fetch, InsertFile
    <3>2. QED BY <3>1
  <2>5. CASE InsertCommit(w) \/ UpdateFile(w) BY <2>1, <2>5 DEF InsertCommit, UpdateFile
  <2>6. CASE CompactList(w) \/ CompactFetch(w) BY <2>1, <2>6 DEF CompactList, CompactFetch
  <2>7. CASE QueuePatch(w) \/ QueueOld(w) BY <2>7 DEF QueuePatch, QueueOld
  <2>8. QED BY <2>1, <2>2, <2>3, <2>4, <2>5, <2>6, <2>7 DEF Step
<1>2. file \in [Files -> [state: {"absent", "live", "purged"}, head: Maybe(Ids)]] BY DEF Kept, TypeOK
<1>3. CASE InsertFile(w) BY <1>1, <1>2, <1>3 DEF InsertFile, Live
<1>4. CASE UpdateFile(w) /\ ~Abort(w)
  <2>1. PICK h : file' = [file EXCEPT ![op[w].file].head = h] BY <1>4 DEF UpdateFile
  <2>2. \A f \in Files : file'[f].state = file[f].state BY <1>2, <2>1
  <2>3. QED BY <1>1, <2>2 DEF Live
<1>5. CASE ~InsertFile(w) /\ ~(UpdateFile(w) /\ ~Abort(w))
  <2>1. file' = file
    BY <1>5 DEF Step, Abort, Read, List, Fetch, Put, InsertCommit, UpdateFile, CompactList, CompactFetch,
                PutPatch, QueuePatch, Reencode, QueueOld
  <2>2. QED BY <1>1, <2>1 DEF Live
<1>6. QED BY <1>3, <1>4, <1>5

LEMMA StepAsks ==
  ASSUME Kept, Lasting, NEW w \in Writers, Step(w), op[w].kind # "rollback"
  PROVE  AsksWell(w)
<1>1. op \in [Writers -> Requests] /\ op[w] \in Requests /\ Fits(op[w])
  BY Request0 DEF Kept, OpsTyped
<1>2. op[w].needs # {} => op[w].pc \in {"read", "fetch", "compactfetch"} BY DEF Lasting, Fetching
<1>3. ASSUME Abort(w) PROVE AsksWell(w)
  <2>1. op' = [op EXCEPT ![w] = Idle] BY <1>3 DEF Abort, Finish
  <2>2. QED BY <1>1, <2>1 DEF AsksWell
<1>4. ASSUME ~InsertFile(w), NEW f \in Files PROVE Live(f)' => Live(f)
  BY <1>4, StepFiles
<1>5. ASSUME Read(w) PROVE AsksWell(w) BY <1>3, <1>5 DEF Read
<1>6. ASSUME List(w), ~Abort(w) PROVE AsksWell(w)
  <2>1. PICK h : h = op[w].head OBVIOUS
  <2>2. PICK b, d : /\ op' = [op EXCEPT ![w].pc = "fetch", ![w].needs = ChainBlobs(h), ![w].blob = b, ![w].base = d]
                    /\ op[w].pc = "list" /\ h # None /\ InLog(h) /\ UNCHANGED log
    <3>1. PICK gain \in BOOLEAN :
            /\ op' = [op EXCEPT ![w].pc = "fetch", ![w].needs = ChainBlobs(h),
                 ![w].blob = IF gain /\ Depth(h) + 1 < Interval
                             THEN Patch(Restore(h), op[w].content) ELSE Full(op[w].content),
                 ![w].base = IF gain /\ Depth(h) + 1 < Interval THEN h ELSE None]
            /\ op[w].pc = "list" /\ h # None /\ InLog(h) /\ UNCHANGED log
      BY <1>6, <2>1 DEF List, At
    <3>2. QED BY <3>1
  <2>3. op'[w].file = op[w].file BY <1>1, <2>2 DEF Requests
  <2>4. op'[w].pc = "fetch" BY <1>1, <2>2 DEF Requests
  <2>5. op'[w].needs = ChainBlobs(h) BY <1>1, <2>2 DEF Requests
  <2>6. Asks(op'[w]) = ChainBlobs(h) BY <2>4, <2>5 DEF Asks
  <2>7. h \in Ids BY <1>1, <2>1, <2>2 DEF Requests, Maybe
  <2>8. log[h].file = op[w].file BY <1>1, <2>1, <2>2, <2>7, IdsNumbers DEF Fits, HeadFits
  <2>9. \A g \in ChainBlobs(h) : Row(log[h].file, g) BY <2>2, <2>7, ChainRows DEF Kept, TypeOK, LogTyped
  <2>10. \A f : \A g : Row(f, g) => Row(f, g)' BY <2>2 DEF Row, InLog
  <2>11. ~InsertFile(w) BY <2>2 DEF InsertFile, At
  <2>12. QED BY <1>4, <2>3, <2>4, <2>6, <2>8, <2>9, <2>10, <2>11 DEF AsksWell
<1>7. ASSUME Fetch(w), ~Abort(w) PROVE AsksWell(w)
  <2>1. op' = [op EXCEPT ![w].pc = "put", ![w].needs = {}] BY <1>7 DEF Fetch
  <2>2. op'[w].file = op[w].file /\ op'[w].pc = "put" /\ op'[w].needs = {} BY <1>1, <2>1 DEF Requests
  <2>3. QED BY <2>2 DEF AsksWell, Asks
<1>8. ASSUME Put(w) PROVE AsksWell(w)
  <2>1. PICK b, pc : /\ op' = [op EXCEPT ![w].blob = b, ![w].pc = pc] /\ pc \in {"insertfile", "insert"}
                     /\ op[w].pc \in {"put", "putfull"}
    <3>1. PICK b, pc : /\ b = (IF op[w].pc = "put" THEN op[w].blob ELSE Full(op[w].content))
                       /\ pc = (IF op[w].kind = "create" THEN "insertfile" ELSE "insert")
      OBVIOUS
    <3>2. op' = [op EXCEPT ![w].blob = b, ![w].pc = pc] /\ op[w].pc \in {"put", "putfull"}
      BY <1>8, <3>1 DEF Put, At
    <3>3. QED BY <3>1, <3>2
  <2>2. op'[w].file = op[w].file /\ op'[w].pc = pc /\ op'[w].needs = op[w].needs BY <1>1, <2>1 DEF Requests
  <2>3. op'[w].needs = {} BY <1>2, <2>1, <2>2
  <2>4. QED BY <2>1, <2>2, <2>3 DEF AsksWell, Asks
<1>9. ASSUME InsertFile(w) \/ PutPatch(w) \/ QueuePatch(w) PROVE AsksWell(w)
  <2>1. PICK pc : /\ op' = [op EXCEPT ![w].pc = pc] /\ pc \in {"insert", "queuepatch", "reencode"}
                  /\ op[w].pc \in {"insertfile", "putpatch", "queuepatch"}
    BY <1>9 DEF InsertFile, PutPatch, QueuePatch, At, Go
  <2>2. op'[w].file = op[w].file /\ op'[w].pc = pc /\ op'[w].needs = op[w].needs BY <1>1, <2>1 DEF Requests
  <2>3. op'[w].needs = {} BY <1>2, <2>1, <2>2
  <2>4. QED BY <2>1, <2>2, <2>3 DEF AsksWell, Asks
<1>10. ASSUME InsertCommit(w), ~Abort(w) PROVE AsksWell(w)
  <2>1. PICK i : i = made + 1 OBVIOUS
  <2>2. /\ log' = [log EXCEPT ![i] = [file |-> op[w].file, parent |-> op[w].head,
                                      blob |-> op[w].blob, base |-> op[w].base]]
        /\ op' = [op EXCEPT ![w].pc = "update", ![w].id = i]
        /\ op[w].pc = "insert"
    BY <1>10, <2>1 DEF InsertCommit, At
  <2>3. op'[w].pc = "update" /\ op'[w].file = op[w].file /\ op'[w].needs = op[w].needs /\ op'[w].blob = op[w].blob
    BY <1>1, <2>2 DEF Requests
  <2>4. op'[w].needs = {} BY <1>2, <2>2, <2>3
  <2>5. Pends(op[w]) BY <1>1, <2>2 DEF Fits, StageFits, Storing, Pends, Makers
  <2>6. i \in Ids BY <2>1, <2>5, NextId
  <2>7. Kept' BY NextKept DEF Next
  <2>8. log'[i].file = op[w].file /\ log'[i].blob = op[w].blob /\ InLog(i)'
    <3>1. log \in [Ids -> Maybe(Commit)] BY DEF Kept, TypeOK
    <3>2. log'[i] = [file |-> op[w].file, parent |-> op[w].head, blob |-> op[w].blob, base |-> op[w].base]
      BY <2>2, <2>6, <3>1
    <3>3. log'[i] # None
      <4>1. op[w].file \in Files /\ op[w].head \in Maybe(Ids) /\ op[w].base \in Maybe(Ids) /\ op[w].blob \in Blobs
        BY <1>1, <2>2 DEF Fits, StageFits, BlobFits, Requests
      <4>2. log'[i] \in Commit BY <3>2, <4>1 DEF Commit, Maybe
      <4>3. QED BY <4>2, NoneAssumption
    <3>4. QED BY <3>2, <3>3 DEF InLog
  <2>9. ASSUME NEW f \in Files, f = op[w].file, NEW b \in Asks(op'[w]) PROVE Row(f, b)'
    <3>1. b = op[w].blob BY <2>3, <2>4, <2>9 DEF Asks
    <3>2. InLog(i)' /\ log'[i].file = f /\ log'[i].blob = b BY <2>8, <2>9, <3>1
    <3>3. QED BY <2>6, <3>2 DEF Row, InLog
  <2>10. ~InsertFile(w) BY <2>2 DEF InsertFile, At
  <2>11. QED BY <1>4, <2>3, <2>4, <2>9, <2>10 DEF AsksWell
<1>11. ASSUME UpdateFile(w), ~Abort(w) PROVE AsksWell(w)
  <2>1. op[w].pc = "update" /\ (op' = [op EXCEPT ![w].pc = "compact"] \/ op' = [op EXCEPT ![w] = Idle])
    BY <1>11 DEF UpdateFile, At, Go, Finish
  <2>2. CASE op' = [op EXCEPT ![w] = Idle] BY <1>1, <2>2 DEF AsksWell
  <2>3. CASE op' = [op EXCEPT ![w].pc = "compact"]
    <3>1. /\ op'[w].pc = "compact" /\ op'[w].file = op[w].file /\ op'[w].needs = op[w].needs
          /\ op'[w].blob = op[w].blob /\ op'[w].kind = op[w].kind
      BY <1>1, <2>3 DEF Requests
    <3>2. op'[w].needs = {} BY <1>2, <2>1, <3>1
    <3>3. Asks(op'[w]) \subseteq Asks(op[w]) BY <2>1, <3>1 DEF Asks
    <3>4. ~InsertFile(w) BY <2>1 DEF InsertFile, At
    <3>5. QED BY <1>4, <3>1, <3>2, <3>3, <3>4 DEF AsksWell
  <2>4. QED BY <2>1, <2>2, <2>3
<1>12. ASSUME CompactList(w), ~Abort(w) PROVE AsksWell(w)
  <2>1. PICK h, d, n : /\ op' = [op EXCEPT ![w].pc = "compactfetch", ![w].old = d, ![w].needs = n]
                       /\ h = op[w].head /\ n = {log[h].blob, op[w].blob} /\ h # None /\ InLog(h)
                       /\ op[w].pc = "compact" /\ UNCHANGED log
    BY <1>12 DEF CompactList, Compactable, At
  <2>2. op'[w].file = op[w].file /\ op'[w].pc = "compactfetch" BY <1>1, <2>1 DEF Requests
  <2>3. op'[w].needs = n BY <1>1, <2>1 DEF Requests
  <2>4. Asks(op'[w]) = n BY <2>2, <2>3 DEF Asks
  <2>5. h \in Ids BY <1>1, <2>1 DEF Requests, Maybe
  <2>6. log[h].file = op[w].file BY <1>1, <2>1, <2>5, IdsNumbers DEF Fits, HeadFits
  <2>7. op[w].blob \in Asks(op[w])
    <3>1. op[w].kind = "raw" /\ op[w].blob \in Blobs
      BY <1>1, <2>1 DEF Fits, StageFits, CommitFits, Compacting
    <3>2. QED BY <2>1, <3>1 DEF Asks
  <2>9. ~InsertFile(w) BY <2>1 DEF InsertFile, At
  <2>10. ASSUME NEW f \in Files, f = op[w].file, NEW b \in Asks(op'[w]) PROVE b \in Asks(op[w]) \/ Row(f, b)'
    <3>1. CASE b = op[w].blob BY <2>7, <3>1
    <3>2. CASE b = log[h].blob
      <4>1. InLog(h)' /\ log'[h].file = f /\ log'[h].blob = b BY <2>1, <2>6, <2>10, <3>2 DEF InLog
      <4>2. QED BY <2>5, <4>1 DEF Row, InLog
    <3>3. QED BY <2>1, <2>4, <2>10, <3>1, <3>2
  <2>11. QED BY <1>4, <2>2, <2>9, <2>10 DEF AsksWell
<1>13. ASSUME CompactFetch(w), ~Abort(w) PROVE AsksWell(w)
  <2>1. PICK b : op' = [op EXCEPT ![w].pc = "putpatch", ![w].needs = {}, ![w].blob = b] BY <1>13 DEF CompactFetch
  <2>2. op'[w].file = op[w].file /\ op'[w].pc = "putpatch" /\ op'[w].needs = {} BY <1>1, <2>1 DEF Requests
  <2>3. QED BY <2>2 DEF AsksWell, Asks
<1>14. ASSUME Reencode(w), ~Abort(w) PROVE AsksWell(w)
  <2>1. op' = [op EXCEPT ![w].pc = "queueold"] /\ op[w].pc = "reencode" BY <1>14 DEF Reencode, At, Go
  <2>2. op'[w].file = op[w].file /\ op'[w].pc = "queueold" /\ op'[w].needs = op[w].needs BY <1>1, <2>1 DEF Requests
  <2>3. op'[w].needs = {} BY <1>2, <2>1, <2>2
  <2>4. QED BY <2>2, <2>3 DEF AsksWell, Asks
<1>15. ASSUME QueueOld(w) PROVE AsksWell(w)
  <2>1. op' = [op EXCEPT ![w] = Idle] BY <1>15 DEF QueueOld
  <2>2. QED BY <1>1, <2>1 DEF AsksWell
<1>16. QED
  BY <1>3, <1>5, <1>6, <1>7, <1>8, <1>9, <1>10, <1>11, <1>12, <1>13, <1>14, <1>15 DEF Step

(* What somebody asked for stays saved over a step of a request.           *)
LEMMA StaysSaved ==
  ASSUME Kept, Fresh, Lasting, NEW w \in Writers, NEW c \in Requests, NEW o \in Requests, Moves(w, c, o),
         ~contested', NEW x \in Writers, op'[x] # Idle, op'[x].file = op[x].file,
         NEW b \in Blobs, Saved(x, b)
  PROVE  Saved(x, b)'
<1>1. c = op[w] /\ o = op'[w] /\ \A y \in Writers \ {w} : op'[y] = op[y] BY DEF Moves
<1>2. o = Idle => x # w BY <1>1
<1>3. x \in InFlight
  <2>1. CASE x = w
    <3>1. c.kind \in Makes BY <1>1, <2>1 DEF Moves, Over, Prepares, Inserts, Compacts, Makes
    <3>2. QED BY <1>1, <2>1, <3>1, IdleFields DEF InFlight, Makes
  <2>2. CASE x # w BY <1>1, <2>2 DEF InFlight
  <2>3. QED BY <2>1, <2>2
<1>4. \A d \in Candidates' \ Candidates : x \in queue'[d] BY <1>2, <1>3, MovedQueue
<1>5. CASE Row(op[x].file, b)
  <2>1. PICK i \in Ids : InLog(i) /\ log[i].file = op[x].file /\ log[i].blob = b BY <1>5 DEF Row
  <2>2. CASE log'[i] = log[i]
    <3>1. InLog(i)' /\ log'[i].file = op'[x].file /\ log'[i].blob = b BY <2>1, <2>2 DEF InLog
    <3>2. QED BY <3>1 DEF Saved, Row, InLog
  <2>3. CASE log'[i] # log[i]
    <3>1. ~Inserts(c, o) BY <2>1, <2>3 DEF Inserts
    <3>2. c.pc = "reencode" /\ o.pc = "queueold" /\ i = c.head /\ o.old = c.old /\ log[i].base = None
      BY <2>3, <3>1, MovedLog
    <3>3. b = Full(truth[i]) BY <2>1, <3>2 DEF Kept, Chained
    <3>4. c.old = Full(truth[i])
      <4>1. Fits(c) BY <1>1 DEF Kept, OpsFit
      <4>2. log[i].file = c.file BY <2>1, <3>2, <4>1, IdsNumbers DEF Fits, HeadFits
      <4>3. Live(c.file) BY <2>1, <4>2 DEF Kept, Rooted
      <4>4. QED BY <3>2, <4>1, <4>3 DEF Fits, PatchFits, Compacting
    <3>5. b \notin Candidates
      <4>1. ~b.patch BY <3>3 DEF Full
      <4>2. QED BY <2>1, <4>1 DEF Lasting, Snapshots
    <3>6. b \notin Candidates'
      <4>1. b \in Candidates' => c.pc \in {"queueold", "queuepatch"} BY <3>5, MovedQueue
      <4>2. QED BY <3>2, <4>1
    <3>7. QED BY <1>1, <3>2, <3>3, <3>4, <3>6 DEF Saved
  <2>4. QED BY <2>2, <2>3
<1>6. CASE b \in Candidates /\ x \in queue[b]
  <2>1. b \in Candidates' /\ x \in queue'[b] BY <1>2, <1>6, MovedQueue
  <2>2. QED BY <2>1 DEF Saved
<1>7. CASE b \notin Candidates /\ \E y \in Writers : op[y].pc = "queueold" /\ op[y].old = b
  <2>1. PICK y \in Writers : op[y].pc = "queueold" /\ op[y].old = b BY <1>7
  <2>2. CASE b \in Candidates' BY <1>4, <1>7, <2>2 DEF Saved
  <2>3. CASE b \notin Candidates'
    <3>1. y # w BY <1>1, <2>1, <2>3, MovedQueue
    <3>2. op'[y].pc = "queueold" /\ op'[y].old = b BY <1>1, <2>1, <3>1
    <3>3. QED BY <2>3, <3>2 DEF Saved
  <2>4. QED BY <2>2, <2>3
<1>8. QED BY <1>5, <1>6, <1>7 DEF Saved

LEMMA StepLasting ==
  ASSUME Kept, Whole, Lasting, NEW w \in Writers, Step(w)
  PROVE  Lasting'
<1>1. gc' = gc /\ \E c, o \in Requests : Moves(w, c, o) BY Moved DEF Whole, Fresh
<1>2. PICK c, o \in Requests : Moves(w, c, o) BY <1>1
<1>3. c = op[w] /\ o = op'[w] /\ \A y \in Writers \ {w} : op'[y] = op[y] BY <1>2 DEF Moves
<1>4. Fresh /\ NoBlobLost' /\ AsksWell(w)
  BY StepHeld, StepAsks DEF Whole, Fresh, OwnContent
<1>5. /\ blobs \subseteq blobs' /\ (contested => contested')
      /\ \A f : Live(f)' => Live(f) \/ (InsertFile(w) /\ f = op[w].file)
  BY StepFiles
<1>6. Kept' BY NextKept DEF Next
<1>7. Snapshots' /\ Replaced' /\ OldContent' BY <1>2, <1>4, MovedSnapshots, MovedReplaced, MovedOld
<1>8. Swept'
  <2>1. ASSUME NEW b \in gc.todo PROVE queue'[b] = {}
    <3>1. b \in Candidates /\ queue[b] = {} BY <1>4 DEF Fresh, Doomed, Lasting, Swept
    <3>2. QED BY <1>2, <3>1, MovedQueue
  <2>2. QED BY <1>1, <2>1 DEF Swept
<1>9. Fetching'
  <2>1. ASSUME NEW x \in Writers, op'[x].needs # {} PROVE op'[x].pc \in {"read", "fetch", "compactfetch"}
    <3>1. CASE x = w BY <1>4, <2>1, <3>1, IdleFields DEF AsksWell
    <3>2. CASE x # w BY <1>3, <2>1, <3>2 DEF Lasting, Fetching
    <3>3. QED BY <3>1, <3>2
  <2>2. QED BY <2>1 DEF Fetching
<1>10. Sought'
  <2>1. ASSUME ~contested', NEW x \in Writers, NEW f \in Files, f = op'[x].file, Live(f)', NEW b \in Asks(op'[x])
        PROVE  b \in blobs' /\ Saved(x, b)'
    <3>1. op'[x] # Idle BY <2>1, IdleFields, NoneAssumption
    <3>2. b \in Blobs
      <4>1. op'[x] \in Requests BY <1>6 DEF Kept, OpsTyped
      <4>2. QED BY <2>1, <4>1 DEF Asks, Requests
    <3>3. ASSUME op[x].file = f, Live(f), b \in Asks(op[x]) PROVE b \in blobs' /\ Saved(x, b)'
      <4>1. b \in blobs /\ Saved(x, b) BY <1>5, <2>1, <3>3 DEF Lasting, Sought
      <4>2. QED BY <1>2, <1>4, <1>5, <2>1, <3>1, <3>2, <3>3, <4>1, StaysSaved
    <3>4. ASSUME Row(f, b)' PROVE b \in blobs' /\ Saved(x, b)'
      <4>1. b \in blobs' BY <1>4, <3>4 DEF NoBlobLost, Row, InLog
      <4>2. Saved(x, b)' BY <2>1, <3>4 DEF Saved, Row, InLog
      <4>3. QED BY <4>1, <4>2
    <3>5. CASE x = w BY <1>4, <2>1, <3>1, <3>3, <3>4, <3>5 DEF AsksWell
    <3>6. CASE x # w
      <4>1. op'[x] = op[x] BY <1>3, <3>6
      <4>2. Live(f)
        <5>1. InsertFile(w) => op[x].file # op[w].file
          <6>1. InsertFile(w) => Creates(op[w])
            <7>1. Fits(op[w]) BY DEF Kept, OpsFit
            <7>2. QED BY <7>1 DEF InsertFile, At, Creates, Fits, StageFits
          <6>2. QED BY <3>6, <6>1 DEF Kept, MadeAlone
        <5>2. QED BY <1>5, <2>1, <4>1, <5>1
      <4>3. QED BY <2>1, <3>3, <4>1, <4>2
    <3>7. QED BY <3>5, <3>6
  <2>2. ASSUME ~contested', NEW x \in Writers, file'[op'[x].file].state = "live", op'[x].file \in Files,
               NEW b \in Asks(op'[x])
        PROVE  b \in blobs' /\ Saved(x, b)'
    <3>1. PICK f \in Files : f = op'[x].file BY <2>2
    <3>2. Live(f)' BY <2>2, <3>1 DEF Live
    <3>3. QED BY <2>1, <2>2, <3>1, <3>2
  <2>3. QED BY <2>2 DEF Sought, Live, Saved, Row, InLog, Asks
<1>11. QED BY <1>7, <1>8, <1>9, <1>10 DEF Lasting

LEMMA RequestAsks ==
  ASSUME Kept, NEW w \in Writers, Request(w)
  PROVE  /\ op'[w].old = None /\ op'[w].pc # "queueold"
         /\ op'[w].needs # {} => op'[w].pc = "read"
         /\ \A b \in Asks(op'[w]) : Row(op'[w].file, b)
<1>1. op \in [Writers -> Requests] BY Request0 DEF Kept, OpsTyped
<1>2. ASSUME NEW f, NEW c, NEW kind, NEW where \in {"putfull", "list", "update"}, Begin(w, kind, f, c, where),
             where = "update" => kind = "rename"
      PROVE  op'[w].old = None /\ op'[w].pc # "queueold" /\ op'[w].needs = {} /\ Asks(op'[w]) = {}
  <2>1. PICK d : /\ d = [Idle EXCEPT !.pc = where, !.kind = kind, !.file = f, !.head = file[f].head, !.content = c]
                 /\ op' = [op EXCEPT ![w] = d]
    BY <1>2 DEF Begin
  <2>2. d.kind = kind /\ d.pc = where /\ d.needs = {} /\ d.old = None BY <2>1 DEF Idle
  <2>3. op'[w] = d BY <1>1, <2>1
  <2>4. QED BY <1>2, <2>2, <2>3 DEF Asks
<1>3. ASSUME NEW f, NEW i \in Ids, NEW kind, Materialize(w, kind, f, i)
      PROVE  /\ op'[w].old = None /\ op'[w].pc = "read"
             /\ \A b \in Asks(op'[w]) : Row(op'[w].file, b)
  <2>1. PICK d : /\ d = [Idle EXCEPT !.pc = "read", !.kind = kind, !.file = f,
                                     !.content = Restore(i), !.needs = ChainBlobs(i)]
                 /\ op' = [op EXCEPT ![w] = d]
    BY <1>3 DEF Materialize
  <2>2. d.file = f /\ d.pc = "read" /\ d.needs = ChainBlobs(i) /\ d.old = None BY <2>1 DEF Idle
  <2>3. op'[w] = d BY <1>1, <2>1
  <2>4. Asks(d) = ChainBlobs(i) BY <2>2 DEF Asks
  <2>5. InLog(i) /\ log[i].file = f BY <1>3 DEF Materialize, History
  <2>6. \A b \in ChainBlobs(i) : Row(f, b) BY <2>5, ChainRows DEF Kept, TypeOK, LogTyped
  <2>7. QED BY <2>2, <2>3, <2>4, <2>6
<1>4. CASE \E f \in Files : \E c \in Contents : BeginCreate(w, f, c) \/ BeginCommit(w, f, c) \/ BeginRaw(w, f, c)
  <2>1. PICK f \in Files, c \in Contents : BeginCreate(w, f, c) \/ BeginCommit(w, f, c) \/ BeginRaw(w, f, c)
    BY <1>4
  <2>2. PICK kind \in Makes, where \in {"putfull", "list"} : Begin(w, kind, f, c, where)
    BY <2>1 DEF BeginCreate, BeginCommit, BeginRaw, Makes
  <2>3. where \in {"putfull", "list", "update"} /\ where # "update" OBVIOUS
  <2>4. op'[w].old = None /\ op'[w].pc # "queueold" /\ op'[w].needs = {} /\ Asks(op'[w]) = {}
    BY <1>2, <2>2, <2>3
  <2>5. QED BY <2>4
<1>5. CASE \E f \in Files : \E i \in Ids : BeginRead(w, f, i) \/ BeginRollback(w, f, i)
  BY <1>3, <1>5 DEF BeginRead, BeginRollback
<1>6. CASE \E f \in Files : BeginRename(w, f)
  BY <1>2, <1>6 DEF BeginRename
<1>7. QED BY <1>4, <1>5, <1>6 DEF Request

LEMMA RequestLasting ==
  ASSUME Kept, Whole, Lasting, NEW w \in Writers, Request(w)
  PROVE  Lasting'
<1>1. /\ NoBlobLost' /\ UNCHANGED <<file, log, truth, made, blobs, queue, gc, contested>>
      /\ op[w] = Idle /\ \A x \in Writers \ {w} : op'[x] = op[x]
  BY RequestHeld DEF Whole
<1>2. /\ op'[w].old = None /\ op'[w].pc # "queueold"
      /\ op'[w].needs # {} => op'[w].pc = "read"
      /\ \A b \in Asks(op'[w]) : Row(op'[w].file, b)
  BY RequestAsks
<1>3. Candidates' = Candidates BY <1>1 DEF Candidates
<1>4. Snapshots' /\ Swept' BY <1>1, <1>3 DEF Lasting, Snapshots, Swept, InLog
<1>5. Replaced'
  <2>1. ASSUME NEW x \in Writers, op'[x].pc = "queueold", log'[op'[x].head] # None
        PROVE  log'[op'[x].head].base # None
    BY <1>1, <1>2, <2>1 DEF Lasting, Replaced, InLog
  <2>2. QED BY <2>1 DEF Replaced, InLog
<1>6. OldContent'
  <2>1. ASSUME NEW x \in Writers, op'[x].old # None, NEW i \in Ids, InLog(i), truth[i] = op'[x].old.to
        PROVE  i = op'[x].head
    BY <1>1, <1>2, <2>1 DEF Lasting, OldContent
  <2>2. QED BY <1>1, <2>1 DEF OldContent, InLog
<1>7. Fetching' BY <1>1, <1>2 DEF Lasting, Fetching
<1>8. Sought'
  <2>1. ASSUME ~contested, NEW x \in Writers, Live(op'[x].file), NEW b \in Asks(op'[x])
        PROVE  /\ b \in blobs
               /\ \/ Row(op'[x].file, b)
                  \/ b \in Candidates /\ x \in queue[b]
                  \/ b \notin Candidates /\ \E y \in Writers : op'[y].pc = "queueold" /\ op'[y].old = b
    <3>1. CASE x = w
      <4>1. Row(op'[x].file, b) BY <1>2, <2>1, <3>1
      <4>2. QED BY <4>1 DEF Whole, NoBlobLost, Row
    <3>2. CASE x # w
      <4>1. b \in blobs /\ Saved(x, b) BY <1>1, <2>1, <3>2 DEF Lasting, Sought
      <4>2. \A y \in Writers : op[y].pc = "queueold" => op'[y] = op[y] BY <1>1, IdleFields
      <4>3. QED BY <1>1, <3>2, <4>1, <4>2 DEF Saved
    <3>3. QED BY <3>1, <3>2
  <2>2. QED BY <1>1, <1>3, <2>1 DEF Sought, Live, Saved, Row, InLog, Asks
<1>9. QED BY <1>4, <1>5, <1>6, <1>7, <1>8 DEF Lasting

LEMMA PurgeLasting ==
  ASSUME Kept, Whole, Lasting, NEW f \in Files, PurgeFile(f)
  PROVE  Lasting'
<1>1. /\ Live(f) /\ UNCHANGED <<made, blobs, op, gc>>
      /\ \A i \in Ids : InLog(i)' <=> (InLog(i) /\ log[i].file # f)
      /\ \A i \in Ids : InLog(i)' => log'[i] = log[i] /\ truth'[i] = truth[i]
      /\ Candidates \subseteq Candidates'
      /\ \A b \in Candidates : queue'[b] = queue[b]
      /\ \A b \in Candidates' \ Candidates :
           queue'[b] = InFlight /\ \E i \in Ids : InLog(i) /\ log[i].file = f /\ log[i].blob = b
  BY PurgeCandidates
<1>2. contested' = contested /\ \A g : Live(g)' => Live(g) /\ g # f
  <2>1. /\ contested' = contested /\ file' = [file EXCEPT ![f] = [state |-> "purged", head |-> None]]
    BY DEF PurgeFile
  <2>2. \A g \in Files : file'[g] = IF g = f THEN [state |-> "purged", head |-> None] ELSE file[g]
    BY <2>1 DEF Kept, TypeOK
  <2>3. QED BY <2>1, <2>2 DEF Live
<1>3. Snapshots'
  <2>1. ASSUME NEW i \in Ids, InLog(i)', ~log'[i].blob.patch, log'[i].blob \in Candidates' PROVE FALSE
    <3>1. InLog(i) /\ log[i].file # f /\ log'[i] = log[i] BY <1>1, <2>1
    <3>2. log[i].blob \notin Candidates BY <2>1, <3>1 DEF Lasting, Snapshots
    <3>3. PICK j \in Ids : InLog(j) /\ log[j].file = f /\ log[j].blob = log[i].blob BY <1>1, <2>1, <3>1, <3>2
    <3>4. ASSUME NEW k \in Ids, InLog(k), ~log[k].blob.patch PROVE log[k].blob = Full(truth[k])
      <4>1. log[k].base # None => log[k].blob = Patch(truth[log[k].base], truth[k]) BY <3>4 DEF Kept, Chained
      <4>2. log[k].base = None BY <3>4, <4>1 DEF Patch
      <4>3. QED BY <3>4, <4>2 DEF Kept, Chained
    <3>5. log[i].blob = Full(truth[i]) /\ log[j].blob = Full(truth[j]) BY <2>1, <3>1, <3>3, <3>4
    <3>6. truth[i] = truth[j]
      <4>1. Full(truth[i]) = Full(truth[j]) BY <3>3, <3>5
      <4>2. QED BY <4>1 DEF Full
    <3>7. i = j BY <3>1, <3>3, <3>6 DEF Whole, Fresh, OwnContent
    <3>8. QED BY <3>1, <3>3, <3>7
  <2>2. QED BY <2>1 DEF Snapshots, InLog
<1>4. Replaced'
  <2>1. ASSUME NEW x \in Writers, op[x].pc = "queueold", log'[op[x].head] # None
        PROVE  log'[op[x].head].base # None
    <3>1. op[x] \in Requests /\ Fits(op[x]) BY DEF Kept, OpsTyped, OpsFit
    <3>2. op[x].head # None BY <2>1, <3>1 DEF Fits, PatchFits, Compacting
    <3>3. PICK h \in Ids : h = op[x].head BY <3>1, <3>2 DEF Requests, Maybe
    <3>4. InLog(h) /\ log'[h] = log[h] BY <1>1, <2>1, <3>3 DEF InLog
    <3>5. QED BY <2>1, <3>3, <3>4 DEF Lasting, Replaced
  <2>2. QED BY <1>1, <2>1 DEF Replaced, InLog
<1>5. OldContent'
  <2>1. \A x \in Writers : op[x].old # None =>
          \A i \in Ids : InLog(i)' /\ truth'[i] = op[x].old.to => i = op[x].head
    BY <1>1 DEF Lasting, OldContent
  <2>2. QED BY <1>1, <2>1 DEF OldContent, InLog
<1>6. Swept'
  <2>1. \A b \in gc.todo : b \in Candidates BY DEF Whole, Fresh, Doomed
  <2>2. QED BY <1>1, <2>1 DEF Lasting, Swept
<1>7. Fetching' BY <1>1 DEF Lasting, Fetching
<1>8. Sought'
  <2>1. ASSUME ~contested, NEW x \in Writers, NEW g, g = op[x].file, Live(g)', NEW b \in Asks(op[x])
        PROVE  /\ b \in blobs
               /\ \/ Row(g, b)'
                  \/ b \in Candidates' /\ x \in queue'[b]
                  \/ b \notin Candidates' /\ \E y \in Writers : op[y].pc = "queueold" /\ op[y].old = b
    <3>1. Live(g) /\ g # f BY <1>2, <2>1
    <3>2. b \in blobs /\ Saved(x, b) BY <2>1, <3>1 DEF Lasting, Sought
    <3>3. CASE Row(g, b)
      <4>1. PICK i \in Ids : InLog(i) /\ log[i].file = g /\ log[i].blob = b BY <3>3 DEF Row
      <4>2. InLog(i)' /\ log'[i] = log[i] BY <1>1, <3>1, <4>1
      <4>3. QED BY <3>2, <4>1, <4>2 DEF Row, InLog
    <3>4. CASE b \in Candidates /\ x \in queue[b] BY <1>1, <3>2, <3>4
    <3>5. CASE b \notin Candidates /\ \E y \in Writers : op[y].pc = "queueold" /\ op[y].old = b
      <4>1. x \in InFlight BY <2>1, <3>1, IdleFields, NoneAssumption DEF InFlight, Live
      <4>2. QED BY <1>1, <3>2, <3>5, <4>1
    <3>6. QED BY <2>1, <3>2, <3>3, <3>4, <3>5 DEF Saved
  <2>2. ASSUME ~contested, NEW x \in Writers, op[x].file \in Files, file'[op[x].file].state = "live", NEW b \in Asks(op[x])
        PROVE  /\ b \in blobs
               /\ \/ \E i \in Ids : log'[i] # None /\ log'[i].file = op[x].file /\ log'[i].blob = b
                  \/ b \in Candidates' /\ x \in queue'[b]
                  \/ b \notin Candidates' /\ \E y \in Writers : op[y].pc = "queueold" /\ op[y].old = b
    <3>1. PICK g : g = op[x].file OBVIOUS
    <3>2. Live(g)' BY <2>2, <3>1 DEF Live
    <3>3. QED BY <2>1, <2>2, <3>1, <3>2 DEF Row, InLog
  <2>3. QED BY <1>1, <1>2, <2>2 DEF Sought, Live, Saved, Row, InLog, Asks
<1>9. QED BY <1>3, <1>4, <1>5, <1>6, <1>7, <1>8 DEF Lasting

(* What the sweeper does to the candidates and to the blobs.               *)
LEMMA SweepLasting ==
  ASSUME Kept, Whole, Lasting, UNCHANGED <<file, log, truth, op, contested>>, Candidates' \subseteq Candidates,
         Swept',
         \A x \in Writers, b \in Blobs : Saved(x, b) => Saved(x, b)',
         \A x \in Writers, b \in blobs \cap Blobs : Saved(x, b) => b \in blobs'
  PROVE  Lasting'
<1>1. Snapshots' BY DEF Lasting, Snapshots, InLog
<1>2. Replaced' BY DEF Lasting, Replaced, InLog
<1>3. OldContent' BY DEF Lasting, OldContent, InLog
<1>4. Fetching' BY DEF Lasting, Fetching
<1>5. Sought'
  <2>1. ASSUME ~contested, NEW x \in Writers, Live(op[x].file), NEW b \in Asks(op[x])
        PROVE  b \in blobs' /\ Saved(x, b)'
    <3>1. b \in Blobs
      <4>1. op[x] \in Requests BY DEF Kept, OpsTyped
      <4>2. QED BY <2>1, <4>1 DEF Asks, Requests
    <3>2. b \in blobs /\ Saved(x, b) BY <2>1 DEF Lasting, Sought
    <3>3. QED BY <3>1, <3>2
  <2>2. QED BY <2>1 DEF Sought, Live, Saved, Row, InLog, Asks
<1>6. QED BY <1>1, <1>2, <1>3, <1>4, <1>5 DEF Lasting

LEMMA LastingNext ==
  ASSUME ~Recurring, "rollback" \notin Ops, Kept, Whole, Lasting, [Next]_vars
  PROVE  Lasting'
<1>1. ASSUME NEW w \in Writers, Step(w) PROVE Lasting' BY <1>1, StepLasting
<1>2. ASSUME NEW w \in Writers, Request(w) PROVE Lasting' BY <1>2, RequestLasting
<1>3. ASSUME NEW f \in Files, PurgeFile(f) PROVE Lasting' BY <1>3, PurgeLasting
<1>4. ASSUME SweepList \/ (\E b \in Blobs : SweepCount(b)) \/ UNCHANGED vars PROVE Lasting'
  <2>1. UNCHANGED <<file, log, truth, blobs, queue, op, contested>> BY <1>4 DEF SweepList, SweepCount, vars
  <2>2. Candidates' = Candidates BY <2>1 DEF Candidates
  <2>3. gc'.todo = Due \/ gc'.todo = gc.todo
    <3>1. SweepList => gc'.todo = Due BY DEF SweepList
    <3>2. ASSUME NEW b \in Blobs, SweepCount(b) PROVE gc'.todo = gc.todo BY <3>2 DEF SweepCount, Kept, Sweeper
    <3>3. QED BY <1>4, <3>1, <3>2 DEF vars
  <2>4. Swept' BY <2>1, <2>3 DEF Lasting, Swept, Due
  <2>5. \A x \in Writers, b \in Blobs : Saved(x, b) => Saved(x, b)'
    BY <2>1, <2>2 DEF Saved, Row, InLog
  <2>6. QED BY <2>1, <2>2, <2>4, <2>5, SweepLasting
<1>5. ASSUME SweepDelete PROVE Lasting'
  <2>1. UNCHANGED <<file, log, truth, queue, op, contested>> /\ blobs' = blobs \ {gc.cur} /\ gc.pc = "delete"
    BY <1>5 DEF SweepDelete
  <2>2. gc'.todo = gc.todo BY <1>5 DEF SweepDelete, Kept, Sweeper
  <2>3. References(gc.cur) = {} /\ gc.cur \in gc.todo /\ gc.cur \in Candidates
    BY <2>1 DEF Whole, Fresh, Doomed, Settling
  <2>4. Candidates' = Candidates BY <2>1 DEF Candidates
  <2>5. Swept' BY <2>1, <2>2 DEF Lasting, Swept
  <2>6. \A x \in Writers, b \in Blobs : Saved(x, b) => Saved(x, b)'
    BY <2>1, <2>4 DEF Saved, Row, InLog
  <2>7. ASSUME NEW x \in Writers, NEW b \in blobs \cap Blobs, Saved(x, b) PROVE b # gc.cur
    <3>1. queue[gc.cur] = {} BY <2>3 DEF Lasting, Swept
    <3>2. QED BY <2>3, <2>7, <3>1 DEF Saved, Row, References
  <2>8. QED BY <2>1, <2>4, <2>5, <2>6, <2>7, SweepLasting
<1>6. ASSUME SweepRemove PROVE Lasting'
  <2>1. /\ UNCHANGED <<file, log, truth, blobs, op, contested>> /\ gc.pc = "remove"
        /\ queue' = [queue EXCEPT ![gc.cur] = None] /\ gc'.todo = gc.todo \ {gc.cur}
    BY <1>6 DEF SweepRemove
  <2>2. gc.cur \in gc.todo /\ gc.todo \subseteq Candidates
    BY <2>1 DEF Whole, Fresh, Doomed, Settling
  <2>3. \A b \in Blobs : queue'[b] = IF b = gc.cur THEN None ELSE queue[b] BY <2>1 DEF Kept, TypeOK
  <2>4. Candidates' = Candidates \ {gc.cur} BY <2>3 DEF Candidates
  <2>5. Swept' BY <2>1, <2>2, <2>3 DEF Lasting, Swept, Candidates
  <2>6. ASSUME NEW x \in Writers, NEW b \in Blobs, Saved(x, b) PROVE Saved(x, b)'
    <3>1. queue[gc.cur] = {} BY <2>2 DEF Lasting, Swept
    <3>2. QED BY <2>1, <2>3, <2>4, <2>6, <3>1 DEF Saved, Row, InLog
  <2>7. QED BY <2>1, <2>4, <2>5, <2>6, SweepLasting
<1>7. ASSUME Crash PROVE Lasting'
  <2>1. /\ UNCHANGED <<file, log, truth, blobs, contested>> /\ queue' = Without(queue, Writers)
        /\ gc'.todo = {} /\ \A x \in Writers : op'[x] = Idle
    BY <1>7 DEF Crash
  <2>2. Candidates' = Candidates
    <3>1. queue \in Queues BY DEF Kept, TypeOK, Queues
    <3>2. {b \in Blobs : Without(queue, Writers)[b] # None} = Candidates BY <3>1, CandidateSteps
    <3>3. QED BY <2>1, <3>2 DEF Candidates
  <2>3. Snapshots' BY <2>1, <2>2 DEF Lasting, Snapshots, InLog
  <2>4. Replaced' /\ OldContent' /\ Fetching' BY <2>1, IdleFields DEF Replaced, OldContent, Fetching
  <2>5. Swept' BY <2>1 DEF Swept
  <2>6. Sought' BY <2>1, IdleFields, NoneAssumption DEF Sought, Live
  <2>7. QED BY <2>3, <2>4, <2>5, <2>6 DEF Lasting
<1>8. QED BY <1>1, <1>2, <1>3, <1>4, <1>5, <1>6, <1>7 DEF Next, Sweep

(* A request that has listed the commits of a live file finds all their    *)
(* blobs when it comes to read them, as long as no two compactions have    *)
(* overwritten one row: what the sweeper deletes was queued before the     *)
(* request began (materialize_from and the grace period of main.rs).       *)
THEOREM ReadersFresh ==
  ASSUME ~Recurring, "rollback" \notin Ops PROVE Spec => []ReadersFindBlobs
<1>1. Init => Whole BY WholeInit
<1>2. Init => Lasting
  <2>1. ASSUME Init PROVE Lasting
    <3>1. /\ \A x \in Writers : op[x] = Idle
          /\ \A i \in Ids : ~InLog(i)
          /\ gc.todo = {}
      BY <2>1 DEF Init, InLog
    <3>2. Snapshots /\ Replaced /\ OldContent /\ Swept /\ Fetching
      BY <3>1, IdleFields DEF Snapshots, Replaced, OldContent, Swept, Fetching
    <3>3. Sought BY <3>1, IdleFields, NoneAssumption DEF Sought, Live
    <3>4. QED BY <3>2, <3>3 DEF Lasting
  <2>2. QED BY <2>1
<1>3. Kept /\ Whole /\ [Next]_vars => Whole'
  BY WholeNext
<1>4. Kept /\ Whole /\ Lasting /\ [Next]_vars => Lasting'
  BY LastingNext
<1>5. Lasting => ReadersFindBlobs
  BY DEF Lasting, Sought, ReadersFindBlobs, Asks
<1>6. QED BY <1>1, <1>2, <1>3, <1>4, <1>5, SpecKept, PTL DEF Spec
-----------------------------------------------------------------------------
(* That no acknowledged commit drops out of the history of the head, but   *)
(* where a request writes back a row that another one has moved.           *)

LEMMA BeforeParent ==
  ASSUME NEW commits \in [Ids -> Maybe(Commit)], NEW i \in Ids, commits[i] # None
  PROVE  commits[i].parent \in Before(commits, i)
<1>. DEFINE ParentOf(x) == IF x = None \/ commits[x] = None THEN None ELSE commits[x].parent
            S == Maybe(Ids)
            G == [x \in Nat \X S |-> ParentOf(x[2])]
            Body(g) == [n \in 0..MaxCommits |-> IF n = 0 THEN i
                          ELSE IF g[n-1] = None \/ commits[g[n-1]] = None THEN None ELSE commits[g[n-1]].parent]
            P == CHOOSE g : g = Body(g)
<1>1. G \in [Nat \X S -> S]
  <2>1. ASSUME NEW x \in Nat \X S PROVE ParentOf(x[2]) \in S
    <3>1. x[2] \in S OBVIOUS
    <3>2. CASE x[2] = None \/ commits[x[2]] = None BY <3>2 DEF Maybe
    <3>3. CASE x[2] \in Ids /\ commits[x[2]] # None
      <4>1. commits[x[2]] \in Commit BY <3>3 DEF Maybe
      <4>2. ParentOf(x[2]) = commits[x[2]].parent BY <3>3, IdsNumbers
      <4>3. QED BY <4>1, <4>2 DEF Commit, Maybe
    <3>4. QED BY <3>1, <3>2, <3>3 DEF Maybe
  <2>2. QED BY <2>1
<1>2. \E f : f = Body(f)
  <2>1. PICK M, T, H : M \in Nat /\ M = MaxCommits /\ T = S /\ H = G BY IdsNumbers
  <2>2. H \in [Nat \X T -> T] /\ i \in T BY <1>1, <2>1 DEF Maybe
  <2>3. PICK f : Iterates(f, M, T, i, H) BY <2>1, <2>2, Recursion
  <2>4. f \in [0..MaxCommits -> S] /\ f[0] = i /\ \A n \in 1..MaxCommits : f[n] = G[<<n, f[n-1]>>]
    BY <2>1, <2>3 DEF Iterates
  <2>5. \A n \in 1..MaxCommits : n \in Nat /\ n - 1 \in 0..MaxCommits BY IdsNumbers
  <2>6. \A n \in 1..MaxCommits : <<n, f[n-1]>> \in Nat \X S BY <2>4, <2>5
  <2>7. \A n \in 1..MaxCommits : f[n] = ParentOf(f[n-1]) BY <2>4, <2>6
  <2>8. f = Body(f) BY <2>4, <2>7, IdsNumbers
  <2>9. QED BY <2>8
<1>3. P = Body(P)
  BY <1>2
<1>4. Before(commits, i) = {P[n] : n \in 0..MaxCommits}
  BY DEF Before
<1>. HIDE DEF P
<1>5. 0 \in 0..MaxCommits /\ 1 \in 0..MaxCommits BY IdsNumbers DEF Ids
<1>6. P[0] = i BY <1>3, <1>5
<1>7. P[1] = commits[i].parent BY <1>3, <1>5, <1>6, IdsNumbers
<1>8. QED BY <1>4, <1>5, <1>7

(* The commit a request made comes after the head it found.                *)
Follows(o) == o.id # None /\ InLog(o.id) => log[o.id].parent = o.head

(* A row that stays keeps its parent.                                      *)
LEMMA ParentStays ==
  ASSUME Kept, [Next]_vars, NEW i \in Ids, i <= made, InLog(i)'
  PROVE  InLog(i) /\ log'[i].parent = log[i].parent
<1>1. log \in [Ids -> Maybe(Commit)] /\ made \in Nat /\ i \in Nat BY IdsNumbers DEF Kept, TypeOK, Ids
<1>2. ASSUME NEW w \in Writers, InsertCommit(w), ~Abort(w) PROVE log'[i] = log[i]
  <2>1. PICK n : n = made + 1 OBVIOUS
  <2>2. n # i BY <1>1, <2>1
  <2>3. PICK r : log' = [log EXCEPT ![n] = r] BY <1>2, <2>1 DEF InsertCommit
  <2>4. QED BY <2>2, <2>3
<1>3. ASSUME NEW w \in Writers, Reencode(w), ~Abort(w) PROVE InLog(i) /\ log'[i].parent = log[i].parent
  <2>1. PICK h, b, d : h = op[w].head /\ b = op[w].blob /\ d = op[w].id OBVIOUS
  <2>2. log' = [log EXCEPT ![h].blob = b, ![h].base = d] /\ InLog(h)
    BY <1>3, <2>1 DEF Reencode, WithStorage
  <2>3. CASE h # i
    <3>1. log'[i] = log[i] BY <1>1, <2>2, <2>3
    <3>2. QED BY <3>1 DEF InLog
  <2>4. CASE h = i
    <3>1. log'[i] = [log[i] EXCEPT !.blob = b, !.base = d] BY <1>1, <2>2, <2>4
    <3>2. log[i] \in Commit BY <1>1, <2>2, <2>4 DEF InLog, Maybe
    <3>3. QED BY <2>2, <2>4, <3>1, <3>2 DEF Commit
  <2>5. QED BY <2>3, <2>4
<1>4. ASSUME NEW w \in Writers, Step(w), ~(InsertCommit(w) /\ ~Abort(w)), ~(Reencode(w) /\ ~Abort(w))
      PROVE  log' = log
  BY <1>4 DEF Step, Abort, Read, List, Fetch, Put, InsertFile, InsertCommit, UpdateFile, CompactList,
              CompactFetch, PutPatch, QueuePatch, Reencode, QueueOld
<1>5. ASSUME NEW w \in Writers, Request(w) PROVE log' = log
  BY <1>5 DEF Request, BeginCreate, BeginCommit, BeginRaw, BeginRename, BeginRead, BeginRollback, Begin, Materialize
<1>6. ASSUME NEW f \in Files, PurgeFile(f) PROVE log'[i] = log[i]
  <2>1. log'[i] \in {None, log[i]} BY <1>6 DEF PurgeFile
  <2>2. QED BY <2>1 DEF InLog
<1>7. ASSUME Sweep \/ Crash \/ UNCHANGED vars PROVE log' = log
  BY <1>7 DEF Sweep, SweepList, SweepCount, SweepDelete, SweepRemove, Crash, vars
<1>8. QED BY <1>2, <1>3, <1>4, <1>5, <1>6, <1>7 DEF Next, InLog

(* A request keeps the head it found once it has made its commit.          *)
LEMMA RequestFollows ==
  ASSUME Kept, NEW w \in Writers, Request(w)
  PROVE  op'[w].id = None /\ \A x \in Writers \ {w} : op'[x] = op[x]
<1>1. op \in [Writers -> Requests] BY Request0 DEF Kept, OpsTyped
<1>2. ASSUME NEW f \in Files, NEW c, NEW kind, NEW where, Begin(w, kind, f, c, where)
      PROVE  op'[w].id = None /\ \A x \in Writers \ {w} : op'[x] = op[x]
  <2>1. PICK d : /\ d = [Idle EXCEPT !.pc = where, !.kind = kind, !.file = f, !.head = file[f].head, !.content = c]
                 /\ op' = [op EXCEPT ![w] = d]
    BY <1>2 DEF Begin
  <2>2. d.id = None BY <2>1 DEF Idle
  <2>3. QED BY <1>1, <2>1, <2>2
<1>3. ASSUME NEW f \in Files, NEW i, NEW kind, Materialize(w, kind, f, i)
      PROVE  op'[w].id = None /\ \A x \in Writers \ {w} : op'[x] = op[x]
  <2>1. PICK d : /\ d = [Idle EXCEPT !.pc = "read", !.kind = kind, !.file = f,
                                     !.content = Restore(i), !.needs = ChainBlobs(i)]
                 /\ op' = [op EXCEPT ![w] = d]
    BY <1>3 DEF Materialize
  <2>2. d.id = None BY <2>1 DEF Idle
  <2>3. QED BY <1>1, <2>1, <2>2
<1>4. QED
  BY <1>2, <1>3 DEF Request, BeginCreate, BeginCommit, BeginRaw, BeginRename, BeginRead, BeginRollback

LEMMA StepFollows ==
  ASSUME Kept, NEW w \in Writers, Step(w), ~(InsertCommit(w) /\ ~Abort(w))
  PROVE  /\ op'[w].id = None \/ (op'[w].id = op[w].id /\ op'[w].head = op[w].head)
         /\ \A x \in Writers \ {w} : op'[x] = op[x]
<1>1. PICK c \in Requests : c = op[w] /\ Fits(c) BY Request0
<1>2. op \in [Writers -> Requests] BY Request0 DEF Kept, OpsTyped
<1>3. CASE Abort(w)
  <2>1. op' = [op EXCEPT ![w] = Idle] BY <1>3 DEF Abort, Finish
  <2>2. QED BY <1>2, <2>1, IdleFields
<1>4. CASE Read(w) /\ ~Abort(w)
  <2>1. PICK h : op' = [op EXCEPT ![w].pc = "list", ![w].kind = "commit", ![w].needs = {}, ![w].head = h]
    BY <1>4 DEF Read
  <2>2. c.pc = "read" BY <1>1, <1>4 DEF Read, At
  <2>3. c.id = None BY <1>1, <2>2 DEF Fits, StageFits
  <2>4. op'[w].id = c.id BY <1>1, <1>2, <2>1 DEF Requests
  <2>5. QED BY <1>2, <2>1, <2>3, <2>4
<1>5. CASE List(w) /\ ~Abort(w)
  <2>1. PICK n, b, e : op' = [op EXCEPT ![w].pc = "fetch", ![w].needs = n, ![w].blob = b, ![w].base = e]
    BY <1>5 DEF List
  <2>2. QED BY <1>1, <1>2, <2>1 DEF Requests
<1>6. CASE Fetch(w) /\ ~Abort(w) BY <1>1, <1>2, <1>6 DEF Fetch, Requests
<1>7. CASE Put(w)
  <2>1. PICK b, p : op' = [op EXCEPT ![w].blob = b, ![w].pc = p] BY <1>7 DEF Put
  <2>2. QED BY <1>1, <1>2, <2>1 DEF Requests
<1>8. CASE ~Abort(w) /\ (InsertFile(w) \/ UpdateFile(w) \/ PutPatch(w) \/ QueuePatch(w) \/ Reencode(w))
  <2>1. (\E p : op' = [op EXCEPT ![w].pc = p]) \/ op' = [op EXCEPT ![w] = Idle]
    BY <1>8 DEF InsertFile, UpdateFile, PutPatch, QueuePatch, Reencode, Go, Finish
  <2>2. CASE op' = [op EXCEPT ![w] = Idle] BY <1>2, <2>2, IdleFields
  <2>3. CASE \E p : op' = [op EXCEPT ![w].pc = p] BY <1>1, <1>2, <2>3 DEF Requests
  <2>4. QED BY <2>1, <2>2, <2>3
<1>9. CASE CompactList(w) /\ ~Abort(w)
  <2>1. PICK b, n : op' = [op EXCEPT ![w].pc = "compactfetch", ![w].old = b, ![w].needs = n]
    BY <1>9 DEF CompactList
  <2>2. QED BY <1>1, <1>2, <2>1 DEF Requests
<1>10. CASE CompactFetch(w) /\ ~Abort(w)
  <2>1. PICK b : op' = [op EXCEPT ![w].pc = "putpatch", ![w].needs = {}, ![w].blob = b]
    BY <1>10 DEF CompactFetch
  <2>2. QED BY <1>1, <1>2, <2>1 DEF Requests
<1>11. CASE QueueOld(w) BY <1>2, <1>11, IdleFields DEF QueueOld
<1>12. QED BY <1>3, <1>4, <1>5, <1>6, <1>7, <1>8, <1>9, <1>10, <1>11 DEF Step

(* What a request knows of its commit outlasts what the others do.         *)
LEMMA StillFollows ==
  ASSUME Kept, [Next]_vars, NEW x \in Writers, Follows(op[x]),
         op'[x].id = op[x].id, op'[x].head = op[x].head
  PROVE  Follows(op[x])'
<1>1. PICK c \in Requests : c = op[x] /\ Fits(c) BY Request0
<1>2. PICK i, h : i = c.id /\ h = c.head OBVIOUS
<1>3. PICK d : d = op'[x] /\ d.id = i /\ d.head = h BY <1>1, <1>2
<1>4. SUFFICES ASSUME i # None, InLog(i)' PROVE log'[i].parent = h
  BY <1>3 DEF Follows
<1>5. i \in Ids /\ i <= made BY <1>1, <1>2, <1>4 DEF Requests, Maybe, Fits, CommitFits
<1>6. InLog(i) /\ log'[i].parent = log[i].parent BY <1>4, <1>5, ParentStays
<1>7. QED BY <1>1, <1>2, <1>4, <1>6 DEF Follows

LEMMA NextFollows ==
  ASSUME Kept, \A w \in Writers : Follows(op[w]), [Next]_vars
  PROVE  \A w \in Writers : Follows(op[w])'
<1>1. op \in [Writers -> Requests] BY DEF Kept, OpsTyped
<1>2. ASSUME NEW w \in Writers, Request(w) PROVE \A x \in Writers : Follows(op[x])'
  <2>1. op'[w].id = None /\ \A x \in Writers \ {w} : op'[x] = op[x] BY <1>2, RequestFollows
  <2>2. Follows(op[w])' BY <2>1 DEF Follows
  <2>3. \A x \in Writers \ {w} : Follows(op[x])' BY <2>1, StillFollows
  <2>4. QED BY <2>2, <2>3
<1>3. ASSUME NEW w \in Writers, Step(w), ~(InsertCommit(w) /\ ~Abort(w))
      PROVE  \A x \in Writers : Follows(op[x])'
  <2>1. /\ op'[w].id = None \/ (op'[w].id = op[w].id /\ op'[w].head = op[w].head)
        /\ \A x \in Writers \ {w} : op'[x] = op[x]
    BY <1>3, StepFollows
  <2>2. CASE op'[w].id = None BY <2>1, <2>2, StillFollows DEF Follows
  <2>3. CASE op'[w].id = op[w].id /\ op'[w].head = op[w].head BY <2>1, <2>3, StillFollows
  <2>4. QED BY <2>1, <2>2, <2>3
<1>4. ASSUME NEW w \in Writers, InsertCommit(w), ~Abort(w) PROVE \A x \in Writers : Follows(op[x])'
  <2>1. PICK c \in Requests : c = op[w] /\ Fits(c) BY Request0
  <2>2. PICK i : i = made + 1 OBVIOUS
  <2>3. /\ log' = [log EXCEPT ![i] = [file |-> c.file, parent |-> c.head, blob |-> c.blob, base |-> c.base]]
        /\ op' = [op EXCEPT ![w].pc = "update", ![w].id = i] /\ c.pc = "insert"
    BY <1>4, <2>1, <2>2 DEF InsertCommit, At
  <2>4. Pends(op[w]) BY <2>1, <2>3 DEF Fits, StageFits, Pends, Storing, Makers
  <2>5. i \in Ids BY <2>2, <2>4, NextId
  <2>6. log'[i].parent = c.head BY <2>3, <2>5 DEF Kept, TypeOK
  <2>7. PICK d : d = op'[w] OBVIOUS
  <2>8. d.head = c.head /\ d.id = i BY <1>1, <2>1, <2>3, <2>7 DEF Requests
  <2>9. Follows(op[w])' BY <2>6, <2>7, <2>8 DEF Follows
  <2>10. \A x \in Writers \ {w} : op'[x] = op[x] BY <1>1, <2>3
  <2>11. \A x \in Writers \ {w} : Follows(op[x])' BY <2>10, StillFollows
  <2>12. QED BY <2>9, <2>11
<1>5. ASSUME (\E f \in Files : PurgeFile(f)) \/ Sweep \/ UNCHANGED vars PROVE \A x \in Writers : Follows(op[x])'
  <2>1. op' = op BY <1>5 DEF PurgeFile, Sweep, SweepList, SweepCount, SweepDelete, SweepRemove, vars
  <2>2. QED BY <2>1, StillFollows
<1>6. ASSUME Crash PROVE \A x \in Writers : Follows(op[x])'
  <2>1. \A w \in Writers : op'[w] = Idle BY <1>6 DEF Crash
  <2>2. QED BY <2>1, IdleFields DEF Follows
<1>7. QED BY <1>2, <1>3, <1>4, <1>5, <1>6 DEF Next

(* What update_file does to the head of a file that has one.               *)
HeadKept(f) ==
  \/ file'[f].head = file[f].head
  \/ file[f].head \in Before(log', file'[f].head)
  \/ \E w \in Writers : op[w].pc = "update" /\ op[w].file = f /\ Stale(w) /\ op'[w] # op[w]

LEMMA HeadSteps ==
  ASSUME Kept, \A w \in Writers : Follows(op[w]), [Next]_vars,
         NEW f \in Files, Live(f), Live(f)', file[f].head # None
  PROVE  HeadKept(f)
<1>1. file \in [Files -> [state: {"absent", "live", "purged"}, head: Maybe(Ids)]] BY DEF Kept, TypeOK
<1>2. ASSUME NEW w \in Writers, UpdateFile(w), ~Abort(w)
      PROVE  HeadKept(f)
  <2>1. PICK c \in Requests : c = op[w] /\ Fits(c) BY Request0
  <2>2. PICK g, h : g = c.file /\ h = Written(w) OBVIOUS
  <2>3. file' = [file EXCEPT ![g].head = h] /\ log' = log /\ c.pc = "update" /\ Live(g)
    BY <1>2, <2>1, <2>2 DEF UpdateFile, At
  <2>4. CASE g # f BY <1>1, <2>3, <2>4 DEF HeadKept
  <2>5. CASE g = f /\ Stale(w)
    <3>1. op'[w] # op[w]
      <4>1. op' = [op EXCEPT ![w].pc = "compact"] \/ op' = [op EXCEPT ![w] = Idle]
        BY <1>2 DEF UpdateFile, Go, Finish
      <4>2. op'[w].pc \in {"compact", "idle"} BY <2>1, <4>1, IdleFields DEF Kept, OpsTyped, Requests
      <4>3. QED BY <2>1, <2>3, <4>2
    <3>2. QED BY <2>1, <2>2, <2>3, <2>5, <3>1 DEF HeadKept
  <2>6. CASE g = f /\ ~Stale(w)
    <3>1. file'[f].head = h BY <1>1, <2>3, <2>6
    <3>2. c.head = file[f].head BY <2>1, <2>2, <2>6 DEF Stale
    <3>3. CASE c.kind = "rename" BY <2>1, <2>2, <3>1, <3>2, <3>3 DEF Written, HeadKept
    <3>4. CASE c.kind # "rename"
      <4>1. h = c.id /\ c.id # None BY <2>1, <2>2, <2>3, <3>4 DEF Written, Fits, StageFits
      <4>2. c.id \in Ids /\ InLog(c.id)
        BY <2>1, <2>2, <2>3, <4>1 DEF Fits, CommitFits, Requests, Maybe
      <4>3. log[c.id].parent = c.head BY <2>1, <4>1, <4>2 DEF Follows
      <4>4. log[c.id].parent \in Before(log, c.id)
        BY <4>2, BeforeParent DEF Kept, TypeOK, InLog
      <4>5. QED BY <2>3, <3>1, <3>2, <4>1, <4>3, <4>4 DEF HeadKept
    <3>5. QED BY <3>3, <3>4
  <2>7. QED BY <2>4, <2>5, <2>6 DEF HeadKept
<1>3. ASSUME NEW w \in Writers, InsertFile(w) PROVE file'[f].head = file[f].head
  <2>1. PICK c \in Requests : c = op[w] /\ Fits(c) BY Request0
  <2>2. c.pc = "insertfile" /\ file' = [file EXCEPT ![c.file] = [state |-> "live", head |-> None]]
    BY <1>3, <2>1 DEF InsertFile, At
  <2>3. Creates(op[w]) BY <2>1, <2>2 DEF Fits, StageFits, Creates
  <2>4. file[c.file].state = "absent" BY <2>1, <2>3 DEF Kept, MadeAlone
  <2>5. c.file # f BY <2>4 DEF Live
  <2>6. QED BY <1>1, <2>2, <2>5
<1>4. ASSUME NEW g \in Files, PurgeFile(g) PROVE file'[f].head = file[f].head
  <2>1. file' = [file EXCEPT ![g] = [state |-> "purged", head |-> None]] BY <1>4 DEF PurgeFile
  <2>2. g # f BY <1>1, <2>1 DEF Live
  <2>3. QED BY <1>1, <2>1, <2>2
<1>5. ASSUME NEW w \in Writers, Step(w), ~(UpdateFile(w) /\ ~Abort(w)), ~InsertFile(w) PROVE file' = file
  BY <1>5 DEF Step, Abort, Read, List, Fetch, Put, InsertCommit, UpdateFile, CompactList, CompactFetch,
              PutPatch, QueuePatch, Reencode, QueueOld
<1>6. ASSUME NEW w \in Writers, Request(w) PROVE file' = file
  BY <1>6 DEF Request, BeginCreate, BeginCommit, BeginRaw, BeginRename, BeginRead, BeginRollback, Begin, Materialize
<1>7. ASSUME Sweep \/ Crash \/ UNCHANGED vars PROVE file' = file
  BY <1>7 DEF Sweep, SweepList, SweepCount, SweepDelete, SweepRemove, Crash, vars
<1>8. QED BY <1>2, <1>3, <1>4, <1>5, <1>6, <1>7 DEF Next, HeadKept

(* Every commit that becomes current descends from the one it replaces,    *)
(* whatever requests, purges, sweeps and crashes interleave, but where a   *)
(* request writes back a row whose head has moved since: the row           *)
(* update_file writes is otherwise the one the request read, or has for    *)
(* its head a commit whose parent is the head that was read                *)
(* (persist_commit).                                                       *)
THEOREM HeadAdvancesUnlessStale == Spec => HeadAdvances
<1>. DEFINE Current == \A w \in Writers : Follows(op[w])
<1>1. Init => Current
  <2>1. ASSUME Init PROVE Current
    BY <2>1, IdleFields DEF Init, Follows
  <2>2. QED BY <2>1
<1>2. Kept /\ Current /\ [Next]_vars => Current'
  BY NextFollows
<1>3. Kept /\ Current /\ [Next]_vars =>
        [\A f \in Files : (Live(f) /\ Live(f)' /\ file[f].head # None) => HeadKept(f)]_vars
  BY HeadSteps
<1>. HIDE DEF Current
<1>4. QED BY <1>1, <1>2, <1>3, SpecKept, PTL DEF Spec, HeadAdvances, HeadKept
-----------------------------------------------------------------------------
(* That chains stay below the interval, when one request works at a time.  *)

Alone == \A v, w \in Writers : v = w

(* Does the chain of i pass through p?                                     *)
Rests(i, p) == \E n \in 0..Depth(i) : Link(i)[n] = p

(* Depth and Rests, from one commit to its base.                           *)
ByBase ==
  \A i \in Ids : InLog(i) =>
    /\ Depth(i) \in 0..(MaxCommits-1) /\ log[i].base \in Maybe(Ids)
    /\ log[i].base = None => Depth(i) = 0 /\ \A p \in Ids : Rests(i, p) <=> i = p
    /\ log[i].base # None =>
         /\ InLog(log[i].base) /\ log[log[i].base].file = log[i].file
         /\ Depth(i) = Depth(log[i].base) + 1
         /\ \A p \in Ids : Rests(i, p) <=> (i = p \/ Rests(log[i].base, p))

(* The chain of a commit is the chain of its base, one further up.         *)
LEMMA LinkShift ==
  ASSUME LogTyped, Chained, NEW i \in Ids, InLog(i), NEW b \in Ids, log[i].base = b
  PROVE  \A n \in 0..(MaxCommits-1) : Link(i)[n + 1] = Link(b)[n]
<1>. DEFINE N == {n \in Nat : n \in 0..(MaxCommits-1) => Link(i)[n + 1] = Link(b)[n]}
<1>1. /\ Link(i)[0] = i /\ Link(b)[0] = b
      /\ \A n \in 1..MaxCommits : Link(i)[n] = BaseOf(Link(i)[n-1])
      /\ \A n \in 1..MaxCommits : Link(b)[n] = BaseOf(Link(b)[n-1])
  BY LinkDef
<1>2. 0 \in N
  <2>1. 1 \in 1..MaxCommits /\ 0 + 1 = 1 /\ 1 - 1 = 0 BY IdsNumbers DEF Ids
  <2>2. Link(i)[1] = BaseOf(Link(i)[0]) BY <1>1, <2>1
  <2>3. BaseOf(i) = b BY IdsNumbers DEF BaseOf
  <2>4. QED BY <1>1, <2>1, <2>2, <2>3
<1>3. ASSUME NEW n \in N PROVE n + 1 \in N
  <2>1. SUFFICES ASSUME n + 1 \in 0..(MaxCommits-1) PROVE Link(i)[(n + 1) + 1] = Link(b)[n + 1]
    OBVIOUS
  <2>2. /\ n \in 0..(MaxCommits-1) /\ n + 1 \in 1..MaxCommits /\ (n + 1) + 1 \in 1..MaxCommits
        /\ (n + 1) - 1 = n /\ ((n + 1) + 1) - 1 = n + 1
    BY <2>1, IdsNumbers
  <2>3. Link(i)[n + 1] = Link(b)[n] BY <2>2
  <2>4. Link(i)[(n + 1) + 1] = BaseOf(Link(i)[n + 1]) BY <1>1, <2>2
  <2>5. Link(b)[n + 1] = BaseOf(Link(b)[n]) BY <1>1, <2>2
  <2>6. QED BY <2>3, <2>4, <2>5
<1>4. N = Nat
  <2>. HIDE DEF N
  <2>1. N \in SUBSET Nat BY DEF N
  <2>2. QED BY <1>2, <1>3, <2>1, Induction
<1>5. QED BY <1>4, IdsNumbers

LEMMA DepthByBase ==
  ASSUME LogTyped, Chained PROVE ByBase
<1>1. SUFFICES ASSUME NEW i \in Ids, InLog(i)
      PROVE  /\ Depth(i) \in 0..(MaxCommits-1) /\ log[i].base \in Maybe(Ids)
             /\ log[i].base = None => Depth(i) = 0 /\ \A p \in Ids : Rests(i, p) <=> i = p
             /\ log[i].base # None =>
                  /\ InLog(log[i].base) /\ log[log[i].base].file = log[i].file
                  /\ Depth(i) = Depth(log[i].base) + 1
                  /\ \A p \in Ids : Rests(i, p) <=> (i = p \/ Rests(log[i].base, p))
  BY DEF ByBase
<1>2. PICK d \in 0..(MaxCommits-1) :
        /\ Depth(i) = d
        /\ \A n \in 0..d : Link(i)[n] \in Ids /\ InLog(Link(i)[n])
        /\ log[Link(i)[d]].base = None
  BY <1>1, ChainEnds
<1>3. /\ Link(i)[0] = i
      /\ \A n \in 1..MaxCommits : Link(i)[n] = BaseOf(Link(i)[n-1])
  BY LinkDef
<1>4. log[i].base \in Maybe(Ids) BY <1>1, LogRow
<1>5. ASSUME log[i].base = None PROVE d = 0 /\ \A p \in Ids : Rests(i, p) <=> i = p
  <2>1. d = 0
    <3>1. SUFFICES ASSUME d # 0 PROVE FALSE OBVIOUS
    <3>2. 1 \in 1..MaxCommits /\ 1 \in 0..d /\ 1 - 1 = 0 BY <3>1, IdsNumbers DEF Ids
    <3>3. Link(i)[1] = BaseOf(Link(i)[0]) BY <1>3, <3>2
    <3>4. Link(i)[1] = None BY <1>3, <1>5, <3>3 DEF BaseOf
    <3>5. QED BY <1>2, <3>2, <3>4, IdsNumbers
  <2>2. 0..d = {0} BY <2>1
  <2>3. QED BY <1>2, <1>3, <2>1, <2>2 DEF Rests
<1>6. ASSUME NEW b \in Ids, log[i].base = b
      PROVE  /\ InLog(b) /\ log[b].file = log[i].file
             /\ d = Depth(b) + 1
             /\ \A p \in Ids : Rests(i, p) <=> (i = p \/ Rests(b, p))
  <2>1. b # None BY IdsNumbers
  <2>2. InLog(b) /\ log[b].file = log[i].file BY <1>1, <1>6, <2>1 DEF Chained
  <2>3. PICK e \in 0..(MaxCommits-1) :
          /\ Depth(b) = e
          /\ \A n \in 0..e : Link(b)[n] \in Ids /\ InLog(Link(b)[n])
          /\ log[Link(b)[e]].base = None
    BY <2>2, ChainEnds
  <2>4. \A n \in 0..(MaxCommits-1) : Link(i)[n + 1] = Link(b)[n] BY <1>1, <1>6, LinkShift
  <2>5. d \in Nat /\ e \in Nat /\ MaxCommits \in Nat /\ d < MaxCommits /\ e < MaxCommits /\ d # 0
    <3>1. d # 0 BY <1>2, <1>3, <1>6, <2>1
    <3>2. QED BY <3>1, IdsNumbers
  <2>6. ASSUME e + 1 < d PROVE FALSE
    <3>1. /\ e + 2 \in 1..MaxCommits /\ e + 2 \in 0..d /\ e + 1 \in 0..d /\ (e + 2) - 1 = e + 1
          /\ e \in 0..(MaxCommits-1)
      BY <2>5, <2>6
    <3>2. Link(i)[e + 1] = Link(b)[e] BY <2>4, <3>1
    <3>3. Link(i)[e + 2] = BaseOf(Link(i)[e + 1]) BY <1>3, <3>1
    <3>4. Link(i)[e + 2] = None BY <2>3, <3>2, <3>3 DEF BaseOf
    <3>5. QED BY <1>2, <3>1, <3>4, IdsNumbers
  <2>7. ASSUME d < e + 1 PROVE FALSE
    <3>1. /\ d + 1 \in 1..MaxCommits /\ d \in 0..e /\ d \in 0..(MaxCommits-1) /\ (d + 1) - 1 = d /\ d \in 0..d
      BY <2>5, <2>7
    <3>2. Link(i)[d + 1] = Link(b)[d] BY <2>4, <3>1
    <3>3. Link(i)[d + 1] = BaseOf(Link(i)[d]) BY <1>3, <3>1
    <3>4. Link(i)[d + 1] = None BY <1>2, <3>1, <3>3 DEF BaseOf
    <3>5. QED BY <2>3, <3>1, <3>2, <3>4, IdsNumbers
  <2>8. d = e + 1 BY <2>5, <2>6, <2>7
  <2>9. ASSUME NEW p \in Ids PROVE Rests(i, p) <=> (i = p \/ Rests(b, p))
    <3>1. ASSUME NEW n \in 0..d, Link(i)[n] = p, n # 0 PROVE Rests(b, p)
      <4>1. n - 1 \in 0..e /\ n - 1 \in 0..(MaxCommits-1) /\ (n - 1) + 1 = n BY <2>5, <2>8, <3>1
      <4>2. Link(b)[n - 1] = p BY <2>4, <3>1, <4>1
      <4>3. QED BY <2>3, <4>1, <4>2 DEF Rests
    <3>2. ASSUME NEW n \in 0..e, Link(b)[n] = p PROVE Rests(i, p)
      <4>1. n + 1 \in 0..d /\ n \in 0..(MaxCommits-1) BY <2>5, <2>8, <3>2
      <4>2. Link(i)[n + 1] = p BY <2>4, <3>2, <4>1
      <4>3. QED BY <1>2, <4>1, <4>2 DEF Rests
    <3>3. i = p => Rests(i, p)
      <4>1. 0 \in 0..d BY <2>5
      <4>2. QED BY <1>2, <1>3, <4>1 DEF Rests
    <3>4. Rests(i, p) => i = p \/ Rests(b, p) BY <1>2, <1>3, <3>1 DEF Rests
    <3>5. Rests(b, p) => Rests(i, p) BY <2>3, <3>2 DEF Rests
    <3>6. QED BY <3>3, <3>4, <3>5
  <2>10. QED BY <2>2, <2>3, <2>8, <2>9
<1>7. log[i].base # None => log[i].base \in Ids BY <1>4 DEF Maybe
<1>8. QED BY <1>2, <1>4, <1>5, <1>6, <1>7

LEMMA KeptByBase == Kept => ByBase
  BY DepthByBase DEF Kept, TypeOK, LogTyped

LEMMA Greatest ==
  ASSUME NEW M \in Nat, NEW S \in SUBSET (0..M), S # {}
  PROVE  \E d \in S : \A x \in S : x <= d
<1>. DEFINE T == {y \in 0..M : M - y \in S}
<1>1. IsWellFoundedOn(Lower, Nat)
  BY NatLessThanWellFounded DEF OpToRel, Lower
<1>2. T \in SUBSET Nat /\ T # {}
  <2>1. PICK x \in S : TRUE OBVIOUS
  <2>2. x \in Nat /\ x <= M /\ M - x \in 0..M /\ M - (M - x) = x BY <2>1
  <2>3. M - x \in T BY <2>1, <2>2
  <2>4. T \in SUBSET Nat OBVIOUS
  <2>5. QED BY <2>3, <2>4
<1>. HIDE DEF T
<1>3. PICK y \in T : \A z \in T : <<z, y>> \notin Lower
  BY <1>1, <1>2, WFMin
<1>4. y \in 0..M /\ M - y \in S
  BY <1>3 DEF T
<1>5. ASSUME NEW x \in S PROVE x <= M - y
  <2>1. x \in Nat /\ x <= M /\ M - x \in 0..M /\ M - (M - x) = x BY <1>5
  <2>2. M - x \in T BY <1>5, <2>1 DEF T
  <2>3. ~(M - x < y) BY <1>2, <1>3, <1>4, <2>1, <2>2 DEF Lower
  <2>4. QED BY <1>4, <2>1, <2>3
<1>6. QED BY <1>4, <1>5

(* Above a snapshot, the distance to it is the depth.                      *)
LEMMA DepthAbove ==
  ASSUME LogTyped, Chained, NEW p \in Ids, InLog(p), log[p].base = None,
         NEW c \in Ids, InLog(c), NEW n \in 0..MaxCommits, Link(c)[n] = p
  PROVE  n = Depth(c)
<1>1. PICK d \in 0..(MaxCommits-1) :
        /\ Depth(c) = d
        /\ \A m \in 0..d : Link(c)[m] \in Ids /\ InLog(Link(c)[m])
        /\ log[Link(c)[d]].base = None
  BY ChainEnds
<1>2. \A m \in 1..MaxCommits : Link(c)[m] = BaseOf(Link(c)[m-1])
  BY LinkDef
<1>3. d \in Nat /\ n \in Nat /\ MaxCommits \in Nat /\ d < MaxCommits /\ n <= MaxCommits
  BY IdsNumbers
<1>4. ASSUME n < d PROVE FALSE
  <2>1. n + 1 \in 1..MaxCommits /\ n + 1 \in 0..d /\ (n + 1) - 1 = n BY <1>3, <1>4
  <2>2. Link(c)[n + 1] = BaseOf(Link(c)[n]) BY <1>2, <2>1
  <2>3. Link(c)[n + 1] = None BY <2>2 DEF BaseOf
  <2>4. QED BY <1>1, <2>1, <2>3, IdsNumbers
<1>5. ASSUME d < n PROVE FALSE
  <2>1. /\ d + 1 \in 1..MaxCommits /\ d + 1 \in 0..MaxCommits /\ (d + 1) - 1 = d /\ d \in 0..d
        /\ d + 1 = n \/ d + 1 \in 0..(n-1)
    BY <1>3, <1>5
  <2>2. Link(c)[d + 1] = BaseOf(Link(c)[d]) BY <1>2, <2>1
  <2>3. Link(c)[d + 1] = None BY <1>1, <2>1, <2>2 DEF BaseOf
  <2>4. Link(c)[n] # None BY IdsNumbers
  <2>5. QED BY <2>1, <2>3, <2>4, NeverTwice
<1>6. QED BY <1>1, <1>3, <1>4, <1>5

LEMMA DeepestAbove ==
  ASSUME LogTyped, Chained, NEW p \in Ids, InLog(p), log[p].base = None, DeepestDistanceTo(p) + 1 < Interval,
         NEW c \in Ids, InLog(c), Rests(c, p)
  PROVE  Depth(c) + 1 < Interval
<1>. DEFINE Above == {x \in Ids : InLog(x) /\ \E n \in 0..MaxCommits : Link(x)[n] = p}
            S == {Distance(x, p) : x \in Above}
<1>1. ASSUME NEW x \in Above PROVE Distance(x, p) = Depth(x) /\ Distance(x, p) \in 0..MaxCommits
  <2>1. PICK n : n = Distance(x, p) OBVIOUS
  <2>2. n \in 0..MaxCommits /\ Link(x)[n] = p BY <2>1 DEF Distance
  <2>3. QED BY <2>1, <2>2, DepthAbove
<1>2. c \in Above
  <2>1. PICK d \in 0..(MaxCommits-1) : Depth(c) = d BY ChainEnds
  <2>2. 0..d \subseteq 0..MaxCommits BY <2>1, IdsNumbers
  <2>3. QED BY <2>1, <2>2 DEF Rests
<1>3. DeepestDistanceTo(p) = CHOOSE d \in 0..MaxCommits :
        (\E x \in Above : Distance(x, p) = d) /\ \A x \in Above : Distance(x, p) <= d
  BY DEF DeepestDistanceTo
<1>. HIDE DEF Above
<1>4. PICK d \in S : \A x \in S : x <= d
  <2>1. PICK M, T : M \in Nat /\ M = MaxCommits /\ T = S BY IdsNumbers
  <2>2. T \in SUBSET (0..M) /\ T # {} BY <1>1, <1>2, <2>1
  <2>3. \E d \in T : \A x \in T : x <= d BY <2>1, <2>2, Greatest
  <2>4. QED BY <2>1, <2>3
<1>5. \E e \in 0..MaxCommits : (\E x \in Above : Distance(x, p) = e) /\ \A x \in Above : Distance(x, p) <= e
  BY <1>1, <1>4
<1>6. PICK e : e = DeepestDistanceTo(p) OBVIOUS
<1>7. e \in 0..MaxCommits /\ \A x \in Above : Distance(x, p) <= e
  BY <1>3, <1>5, <1>6
<1>8. Depth(c) <= e /\ Depth(c) \in Nat
  BY <1>1, <1>2, <1>7, IdsNumbers
<1>9. e \in Nat /\ e + 1 < Interval /\ Interval \in Nat
  BY <1>6, <1>7, IdsNumbers, VersioningAssumption
<1>10. QED BY <1>8, <1>9

(* Rows that keep their base, down to the snapshot, keep their depth.      *)
LEMMA DepthStays ==
  ASSUME ByBase, ByBase', NEW S \in SUBSET Ids,
         \A i \in S : /\ InLog(i) /\ InLog(i)' /\ log'[i].base = log[i].base
                      /\ log[i].base # None => log[i].base \in S
  PROVE  \A i \in S : Depth(i)' = Depth(i) /\ \A p \in Ids : Rests(i, p)' <=> Rests(i, p)
<1>. DEFINE N == {k \in Nat : \A i \in S : Depth(i) = k =>
                     Depth(i)' = Depth(i) /\ \A p \in Ids : Rests(i, p)' <=> Rests(i, p)}
<1>1. ASSUME NEW i \in S, log[i].base = None
      PROVE  Depth(i)' = Depth(i) /\ \A p \in Ids : Rests(i, p)' <=> Rests(i, p)
  <2>1. Depth(i) = 0 /\ \A p \in Ids : Rests(i, p) <=> i = p BY <1>1 DEF ByBase
  <2>2. Depth(i)' = 0 /\ \A p \in Ids : Rests(i, p)' <=> i = p BY <1>1 DEF ByBase
  <2>3. QED BY <2>1, <2>2
<1>2. 0 \in N
  <2>1. ASSUME NEW i \in S, Depth(i) = 0 PROVE log[i].base = None
    <3>1. SUFFICES ASSUME log[i].base # None PROVE FALSE OBVIOUS
    <3>2. PICK b \in S : b = log[i].base BY <3>1
    <3>3. Depth(i) = Depth(b) + 1 BY <3>1, <3>2 DEF ByBase
    <3>4. Depth(b) \in Nat BY IdsNumbers DEF ByBase
    <3>5. QED BY <2>1, <3>3, <3>4
  <2>2. QED BY <1>1, <2>1
<1>3. ASSUME NEW k \in N PROVE k + 1 \in N
  <2>1. ASSUME NEW i \in S, Depth(i) = k + 1
        PROVE  Depth(i)' = Depth(i) /\ \A p \in Ids : Rests(i, p)' <=> Rests(i, p)
    <3>1. CASE log[i].base = None BY <1>1, <3>1
    <3>2. CASE log[i].base # None
      <4>1. PICK b \in S : b = log[i].base BY <3>2
      <4>2. Depth(i) = Depth(b) + 1 /\ Depth(b) \in Nat /\ \A p \in Ids : Rests(i, p) <=> (i = p \/ Rests(b, p))
        BY <3>2, <4>1, IdsNumbers DEF ByBase
      <4>3. Depth(b) = k BY <2>1, <4>2
      <4>4. Depth(b)' = Depth(b) /\ \A p \in Ids : Rests(b, p)' <=> Rests(b, p) BY <4>3
      <4>5. InLog(i)' /\ log'[i].base = b /\ b # None BY <3>2, <4>1
      <4>6. Depth(i)' = Depth(b)' + 1 /\ \A p \in Ids : Rests(i, p)' <=> (i = p \/ Rests(b, p)')
        BY <4>5 DEF ByBase
      <4>7. QED BY <4>2, <4>4, <4>6
    <3>3. QED BY <3>1, <3>2
  <2>2. QED BY <2>1
<1>4. N = Nat
  <2>. HIDE DEF N
  <2>1. N \in SUBSET Nat BY DEF N
  <2>2. QED BY <1>2, <1>3, <2>1, Induction
<1>5. \A i \in S : Depth(i) \in Nat BY IdsNumbers DEF ByBase
<1>6. QED BY <1>4, <1>5

LEMMA RowsStay ==
  ASSUME ByBase, ByBase', \A i \in Ids : InLog(i)' => InLog(i) /\ log'[i] = log[i]
  PROVE  \A i \in Ids : InLog(i)' => Depth(i)' = Depth(i) /\ \A p \in Ids : Rests(i, p)' <=> Rests(i, p)
<1>. DEFINE S == {i \in Ids : InLog(i)'}
<1>1. ASSUME NEW i \in S
      PROVE  /\ InLog(i) /\ InLog(i)' /\ log'[i].base = log[i].base
             /\ log[i].base # None => log[i].base \in S
  <2>1. InLog(i) /\ InLog(i)' /\ log'[i] = log[i] OBVIOUS
  <2>2. ASSUME log[i].base # None PROVE log[i].base \in S
    <3>1. PICK b : b = log[i].base OBVIOUS
    <3>2. InLog(i)' /\ log'[i].base = b BY <2>1, <3>1
    <3>3. b \in Ids BY <2>2, <3>1, <3>2 DEF ByBase, Maybe
    <3>4. InLog(b)' BY <2>2, <3>1, <3>2 DEF ByBase
    <3>5. QED BY <3>1, <3>3, <3>4
  <2>3. QED BY <2>1, <2>2
<1>2. S \in SUBSET Ids OBVIOUS
<1>. HIDE DEF S
<1>3. \A i \in S : Depth(i)' = Depth(i) /\ \A p \in Ids : Rests(i, p)' <=> Rests(i, p)
  BY <1>1, <1>2, DepthStays
<1>4. QED BY <1>3 DEF S

(* One compaction: what rests on its commit is one deeper.                 *)
LEMMA DepthGrows ==
  ASSUME ByBase, ByBase', NEW p \in Ids, NEW q \in Ids, p # q, InLog(p), InLog(q), log[p].base = None, log[q].base = None,
         \A i \in Ids : InLog(i)' <=> InLog(i),
         \A i \in Ids : i # p => log'[i] = log[i], log'[p].base = q
  PROVE  \A i \in Ids : InLog(i) => Depth(i)' = IF Rests(i, p) THEN Depth(i) + 1 ELSE Depth(i)
<1>. DEFINE N == {k \in Nat : \A i \in Ids : InLog(i) /\ Depth(i) = k =>
                     Depth(i)' = IF Rests(i, p) THEN Depth(i) + 1 ELSE Depth(i)}
<1>1. ASSUME NEW i \in Ids, InLog(i), log[i].base = None
      PROVE  Depth(i)' = IF Rests(i, p) THEN Depth(i) + 1 ELSE Depth(i)
  <2>1. Depth(i) = 0 /\ (Rests(i, p) <=> i = p) BY <1>1 DEF ByBase
  <2>2. CASE i = p
    <3>1. InLog(p)' /\ log'[p].base # None BY IdsNumbers
    <3>2. Depth(p)' = Depth(q)' + 1 BY <3>1 DEF ByBase
    <3>3. InLog(q)' /\ log'[q].base = None OBVIOUS
    <3>4. Depth(q)' = 0 BY <3>3 DEF ByBase
    <3>5. QED BY <2>1, <2>2, <3>2, <3>4
  <2>3. CASE i # p
    <3>1. InLog(i)' /\ log'[i].base = None BY <1>1, <2>3
    <3>2. Depth(i)' = 0 BY <3>1 DEF ByBase
    <3>3. QED BY <2>1, <2>3, <3>2
  <2>4. QED BY <2>2, <2>3
<1>2. 0 \in N
  <2>1. ASSUME NEW i \in Ids, InLog(i), Depth(i) = 0 PROVE log[i].base = None
    <3>1. SUFFICES ASSUME log[i].base # None PROVE FALSE OBVIOUS
    <3>2. PICK b \in Ids : b = log[i].base BY <2>1, <3>1 DEF ByBase, Maybe
    <3>3. Depth(i) = Depth(b) + 1 /\ InLog(b) BY <2>1, <3>1, <3>2 DEF ByBase
    <3>4. Depth(b) \in Nat BY <3>3, IdsNumbers DEF ByBase
    <3>5. QED BY <2>1, <3>3, <3>4
  <2>2. QED BY <1>1, <2>1
<1>3. ASSUME NEW k \in N PROVE k + 1 \in N
  <2>1. ASSUME NEW i \in Ids, InLog(i), Depth(i) = k + 1
        PROVE  Depth(i)' = IF Rests(i, p) THEN Depth(i) + 1 ELSE Depth(i)
    <3>1. CASE log[i].base = None BY <1>1, <2>1, <3>1
    <3>2. CASE log[i].base # None
      <4>1. PICK b \in Ids : b = log[i].base BY <2>1, <3>2 DEF ByBase, Maybe
      <4>2. i # p BY <3>2
      <4>3. InLog(b) /\ Depth(i) = Depth(b) + 1 /\ (Rests(i, p) <=> Rests(b, p))
        BY <2>1, <3>2, <4>1, <4>2 DEF ByBase
      <4>4. Depth(b) \in Nat BY <4>3, IdsNumbers DEF ByBase
      <4>5. Depth(b)' = IF Rests(b, p) THEN Depth(b) + 1 ELSE Depth(b) BY <2>1, <4>3, <4>4
      <4>6. InLog(i)' /\ log'[i].base = b /\ b # None BY <2>1, <3>2, <4>1, <4>2
      <4>7. Depth(i)' = Depth(b)' + 1 BY <4>6 DEF ByBase
      <4>8. QED BY <4>3, <4>4, <4>5, <4>7
    <3>3. QED BY <3>1, <3>2
  <2>2. QED BY <2>1
<1>4. N = Nat
  <2>. HIDE DEF N
  <2>1. N \in SUBSET Nat BY DEF N
  <2>2. QED BY <1>2, <1>3, <2>1, Induction
<1>5. \A i \in Ids : InLog(i) => Depth(i) \in Nat BY IdsNumbers DEF ByBase
<1>6. QED BY <1>4, <1>5

(* What a request found out about depths still holds when it writes.       *)
Measured == {"compactfetch", "putpatch", "queuepatch", "reencode"}
DepthFits(o) ==
  /\ o.pc \in {"fetch", "put", "insert"} /\ o.base # None /\ Live(o.file) => Depth(o.base) + 1 < Interval
  /\ o.pc \in Measured /\ Live(o.file) =>
       /\ log[o.head].base = None
       /\ \A i \in Ids : InLog(i) /\ Rests(i, o.head) => Depth(i) + 1 < Interval
  /\ o.pc \in Measured \cup {"update", "compact"} /\ o.kind = "raw" /\ Live(o.file) => log[o.id].base = None

LEMMA DepthOnward ==
  ASSUME ByBase, ByBase', \A i \in Ids : InLog(i)' => InLog(i) /\ log'[i] = log[i],
         NEW c \in Requests, NEW o \in Requests, Fits(o)', DepthFits(c),
         o.kind = c.kind, o.file = c.file, o.head = c.head, o.base = c.base, o.id = c.id,
         Live(o.file)' => Live(c.file),
         o.pc \in {"fetch", "put", "insert"} => c.pc \in {"fetch", "put", "insert"} \/ c.base = None,
         o.pc \in Measured => c.pc \in Measured,
         o.pc \in {"update", "compact"} => c.pc \in {"update", "compact"}
  PROVE  DepthFits(o)'
<1>1. \A i \in Ids : InLog(i)' => Depth(i)' = Depth(i) /\ \A p \in Ids : Rests(i, p)' <=> Rests(i, p)
  BY RowsStay
<1>2. ASSUME o.pc \in {"fetch", "put", "insert"}, o.base # None, Live(o.file)'
      PROVE  Depth(o.base)' + 1 < Interval
  <2>1. o.base = o.head BY <1>2 DEF Fits, BlobFits
  <2>2. o.base \in Ids /\ InLog(o.base)' BY <1>2, <2>1 DEF Fits, HeadFits, Requests, Maybe
  <2>3. Depth(c.base) + 1 < Interval BY <1>2 DEF DepthFits
  <2>4. QED BY <1>1, <2>2, <2>3
<1>3. ASSUME o.pc \in Measured, Live(o.file)'
      PROVE  /\ log'[o.head].base = None
             /\ \A i \in Ids : InLog(i)' /\ Rests(i, o.head)' => Depth(i)' + 1 < Interval
  <2>1. o.head # None BY <1>3 DEF Fits, PatchFits, Measured, Compacting
  <2>2. o.head \in Ids /\ InLog(o.head)' BY <1>3, <2>1 DEF Fits, HeadFits, Requests, Maybe
  <2>3. PICK p \in Ids : p = o.head /\ p = c.head BY <2>2
  <2>4. log[p].base = None /\ \A i \in Ids : InLog(i) /\ Rests(i, p) => Depth(i) + 1 < Interval
    BY <1>3, <2>3 DEF DepthFits
  <2>5. ASSUME NEW i \in Ids, InLog(i)', Rests(i, p)' PROVE Depth(i)' + 1 < Interval
    <3>1. InLog(i) /\ Depth(i)' = Depth(i) /\ Rests(i, p) BY <1>1, <2>5
    <3>2. QED BY <2>4, <3>1
  <2>6. log'[p].base = None BY <2>2, <2>3, <2>4
  <2>7. QED BY <2>3, <2>5, <2>6
<1>4. ASSUME o.pc \in Measured \cup {"update", "compact"}, o.kind = "raw", Live(o.file)'
      PROVE  log'[o.id].base = None
  <2>1. o.id # None BY <1>4 DEF Fits, StageFits, Measured, Compacting
  <2>2. o.id \in Ids /\ InLog(o.id)' BY <1>4, <2>1 DEF Fits, CommitFits, Requests, Maybe
  <2>3. log[c.id].base = None BY <1>4 DEF DepthFits
  <2>4. QED BY <2>2, <2>3
<1>5. QED BY <1>2, <1>3, <1>4 DEF DepthFits, InLog

LEMMA CutStays ==
  ASSUME ByBase, ByBase', ChainsCut, \A i \in Ids : InLog(i)' => InLog(i) /\ log'[i] = log[i]
  PROVE  ChainsCut'
<1>1. ASSUME NEW i \in Ids, InLog(i)' PROVE Depth(i)' < Interval
  BY <1>1, RowsStay DEF ChainsCut
<1>2. QED BY <1>1 DEF ChainsCut

LEMMA QuietDepth ==
  ASSUME NEW o, o.pc \notin {"fetch", "put", "insert", "update", "compact"} \cup Measured
  PROVE  DepthFits(o)'
  BY DEF DepthFits

LEMMA ListDepth ==
  ASSUME Kept, Kept', ByBase, ByBase', NEW w \in Writers, List(w), ~Abort(w)
  PROVE  DepthFits(op[w])'
<1>1. op \in [Writers -> Requests] BY DEF Kept, OpsTyped
<1>2. PICK c \in Requests : c = op[w] /\ Fits(c) BY Request0
<1>3. PICK o : o = op'[w] OBVIOUS
<1>4. PICK h : h = c.head OBVIOUS
<1>5. PICK n, b, e : /\ op' = [op EXCEPT ![w].pc = "fetch", ![w].needs = n, ![w].blob = b, ![w].base = e]
                     /\ e # None => Depth(h) + 1 < Interval /\ e = h
  <2>1. PICK gain \in BOOLEAN :
          op' = [op EXCEPT ![w].pc = "fetch", ![w].needs = ChainBlobs(h),
                 ![w].blob = IF gain /\ Depth(h) + 1 < Interval THEN Patch(Restore(h), c.content) ELSE Full(c.content),
                 ![w].base = IF gain /\ Depth(h) + 1 < Interval THEN h ELSE None]
    BY <1>2, <1>4 DEF List
  <2>2. PICK b, e : /\ e = (IF gain /\ Depth(h) + 1 < Interval THEN h ELSE None)
                    /\ b = IF gain /\ Depth(h) + 1 < Interval THEN Patch(Restore(h), c.content) ELSE Full(c.content)
    OBVIOUS
  <2>3. QED BY <2>1, <2>2
<1>6. log' = log /\ h # None /\ InLog(h) BY <1>2, <1>4 DEF List
<1>7. o.pc = "fetch" /\ o.base = e
  BY <1>1, <1>3, <1>5 DEF Requests
<1>8. h \in Ids BY <1>4, <1>6 DEF Requests, Maybe
<1>9. InLog(h)' BY <1>6 DEF InLog
<1>10. Depth(h)' = Depth(h) BY <1>6, <1>8, <1>9, RowsStay DEF InLog
<1>11. e # None => Depth(e)' + 1 < Interval BY <1>5, <1>10
<1>12. DepthFits(o)' BY <1>7, <1>11 DEF DepthFits, Measured
<1>13. QED BY <1>3, <1>12

LEMMA CompactListDepth ==
  ASSUME Kept, Kept', ByBase, ByBase', NEW w \in Writers, DepthFits(op[w]), CompactList(w), ~Abort(w)
  PROVE  DepthFits(op[w])'
<1>1. op \in [Writers -> Requests] BY DEF Kept, OpsTyped
<1>2. PICK c \in Requests : c = op[w] /\ Fits(c) BY Request0
<1>3. PICK o, p : o = op'[w] /\ p = c.head OBVIOUS
<1>4. PICK n, b : op' = [op EXCEPT ![w].pc = "compactfetch", ![w].old = b, ![w].needs = n]
  BY DEF CompactList
<1>5. /\ c.pc = "compact" /\ UNCHANGED <<file, log>>
      /\ p # None /\ InLog(p) /\ log[p].base = None /\ DeepestDistanceTo(p) + 1 < Interval
  BY <1>2, <1>3 DEF CompactList, At, Compactable
<1>6. p \in Ids BY <1>3, <1>5 DEF Requests, Maybe
<1>7. o.pc = "compactfetch" /\ o.head = p /\ o.id = c.id /\ o.kind = c.kind /\ o.file = c.file
  BY <1>1, <1>2, <1>3, <1>4 DEF Requests
<1>8. ASSUME NEW i \in Ids, InLog(i), Rests(i, p) PROVE Depth(i) + 1 < Interval
  BY <1>5, <1>6, <1>8, DeepestAbove DEF Kept, TypeOK, LogTyped
<1>9. ASSUME NEW i \in Ids, InLog(i)', Rests(i, p)' PROVE Depth(i)' + 1 < Interval
  <2>1. \A j \in Ids : InLog(j)' => InLog(j) /\ log'[j] = log[j] BY <1>5 DEF InLog
  <2>2. InLog(i) /\ Depth(i)' = Depth(i) /\ Rests(i, p) BY <1>6, <1>9, <2>1, RowsStay
  <2>3. QED BY <1>8, <2>2
<1>10. c.kind = "raw" /\ Live(c.file) => log[c.id].base = None BY <1>2, <1>5 DEF DepthFits
<1>11. c.kind = "raw" /\ Live(c.file)' => log'[c.id].base = None BY <1>5, <1>10 DEF Live
<1>12. log'[p].base = None BY <1>5
<1>13. DepthFits(o)' BY <1>7, <1>9, <1>11, <1>12 DEF DepthFits, InLog, Live, Measured
<1>14. QED BY <1>3, <1>13

(* The other steps of a request that write no row of commits.              *)
LEMMA OtherDepth ==
  ASSUME Kept, Kept', ByBase, ByBase', NEW w \in Writers, DepthFits(op[w]), ~Abort(w),
         Fetch(w) \/ Put(w) \/ InsertFile(w) \/ UpdateFile(w) \/ CompactFetch(w) \/ PutPatch(w) \/ QueuePatch(w)
  PROVE  DepthFits(op[w])' /\ log' = log
<1>1. op \in [Writers -> Requests] BY DEF Kept, OpsTyped
<1>2. PICK c \in Requests : c = op[w] /\ Fits(c) BY Request0
<1>3. PICK o \in Requests : o = op'[w] /\ Fits(o)' BY DEF Kept, OpsTyped, OpsFit
<1>4. log' = log BY DEF Fetch, Put, InsertFile, UpdateFile, CompactFetch, PutPatch, QueuePatch
<1>5. \/ o = Idle
      \/ /\ o.kind = c.kind /\ o.file = c.file /\ o.head = c.head /\ o.base = c.base /\ o.id = c.id
         /\ o.pc \in {"fetch", "put", "insert"} => c.pc \in {"fetch", "put", "insert"} \/ c.base = None
         /\ o.pc \in Measured => c.pc \in Measured
         /\ o.pc \in {"update", "compact"} => c.pc \in {"update", "compact"}
  <2>1. CASE Fetch(w)
    <3>1. op' = [op EXCEPT ![w].pc = "put", ![w].needs = {}] /\ c.pc = "fetch" BY <1>2, <2>1 DEF Fetch, At
    <3>2. o.pc = "put" /\ o.kind = c.kind /\ o.file = c.file /\ o.head = c.head /\ o.base = c.base /\ o.id = c.id
      BY <1>1, <1>2, <1>3, <3>1 DEF Requests
    <3>3. QED BY <3>1, <3>2 DEF Measured
  <2>2. CASE Put(w)
    <3>1. PICK b, p : p = (IF c.kind = "create" THEN "insertfile" ELSE "insert")
                      /\ op' = [op EXCEPT ![w].blob = b, ![w].pc = p]
      BY <1>2, <2>2 DEF Put
    <3>2. c.pc = "put" \/ (c.pc = "putfull" /\ c.base = None) BY <1>2, <2>2 DEF Put, At, Fits, StageFits
    <3>3. o.pc = p /\ o.kind = c.kind /\ o.file = c.file /\ o.head = c.head /\ o.base = c.base /\ o.id = c.id
      BY <1>1, <1>2, <1>3, <3>1 DEF Requests
    <3>4. QED BY <3>1, <3>2, <3>3 DEF Measured
  <2>3. CASE InsertFile(w)
    <3>1. op' = [op EXCEPT ![w].pc = "insert"] /\ c.pc = "insertfile" BY <1>2, <2>3 DEF InsertFile, At, Go
    <3>2. c.kind = "create" /\ (c.base # None => c.kind = "commit") BY <1>2, <3>1 DEF Fits, StageFits, BlobFits
    <3>3. o.pc = "insert" /\ o.kind = c.kind /\ o.file = c.file /\ o.head = c.head /\ o.base = c.base /\ o.id = c.id
      BY <1>1, <1>2, <1>3, <3>1 DEF Requests
    <3>4. QED BY <3>2, <3>3 DEF Measured
  <2>4. CASE UpdateFile(w)
    <3>1. op' = [op EXCEPT ![w].pc = "compact"] \/ op' = [op EXCEPT ![w] = Idle]
      BY <2>4 DEF UpdateFile, Go, Finish
    <3>2. c.pc = "update" BY <1>2, <2>4 DEF UpdateFile, At
    <3>3. CASE op' = [op EXCEPT ![w] = Idle] BY <1>1, <1>3, <3>3
    <3>4. CASE op' = [op EXCEPT ![w].pc = "compact"]
      <4>1. o.pc = "compact" /\ o.kind = c.kind /\ o.file = c.file /\ o.head = c.head /\ o.base = c.base /\ o.id = c.id
        BY <1>1, <1>2, <1>3, <3>4 DEF Requests
      <4>2. QED BY <3>2, <4>1 DEF Measured
    <3>5. QED BY <3>1, <3>3, <3>4
  <2>5. CASE CompactFetch(w)
    <3>1. PICK b : op' = [op EXCEPT ![w].pc = "putpatch", ![w].needs = {}, ![w].blob = b]
      BY <2>5 DEF CompactFetch
    <3>2. c.pc = "compactfetch" BY <1>2, <2>5 DEF CompactFetch, At
    <3>3. o.pc = "putpatch" /\ o.kind = c.kind /\ o.file = c.file /\ o.head = c.head /\ o.base = c.base /\ o.id = c.id
      BY <1>1, <1>2, <1>3, <3>1 DEF Requests
    <3>4. QED BY <3>2, <3>3 DEF Measured
  <2>6. CASE PutPatch(w) \/ QueuePatch(w)
    <3>1. PICK p \in {"queuepatch", "reencode"} : op' = [op EXCEPT ![w].pc = p]
      BY <2>6 DEF PutPatch, QueuePatch, Go
    <3>2. c.pc \in Measured BY <1>2, <2>6 DEF PutPatch, QueuePatch, At, Measured
    <3>3. o.pc = p /\ o.kind = c.kind /\ o.file = c.file /\ o.head = c.head /\ o.base = c.base /\ o.id = c.id
      BY <1>1, <1>2, <1>3, <3>1 DEF Requests
    <3>4. QED BY <3>2, <3>3 DEF Measured
  <2>7. QED BY <2>1, <2>2, <2>3, <2>4, <2>5, <2>6
<1>6. Live(o.file)' => Live(o.file) \/ (InsertFile(w) /\ o.file = c.file)
  <2>1. PICK f : f = o.file OBVIOUS
  <2>2. Live(f)' => Live(f) \/ (InsertFile(w) /\ f = op[w].file) BY StepFiles DEF Step
  <2>3. QED BY <1>2, <2>1, <2>2 DEF Live
<1>7. CASE o = Idle
  <2>1. o.pc \notin {"fetch", "put", "insert", "update", "compact"} \cup Measured
    BY <1>7, IdleFields DEF Measured
  <2>2. DepthFits(o)' BY <2>1, QuietDepth
  <2>3. QED BY <1>3, <1>4, <2>2
<1>8. CASE o # Idle /\ ~InsertFile(w)
  <2>1. \A i \in Ids : InLog(i)' => InLog(i) /\ log'[i] = log[i] BY <1>4 DEF InLog
  <2>2. DepthFits(c) BY <1>2
  <2>3. Live(o.file)' => Live(c.file) BY <1>5, <1>6, <1>8
  <2>4. DepthFits(o)' BY <1>3, <1>5, <1>8, <2>1, <2>2, <2>3, DepthOnward
  <2>5. QED BY <1>3, <1>4, <2>4
<1>9. CASE o # Idle /\ InsertFile(w)
  <2>1. op' = [op EXCEPT ![w].pc = "insert"] /\ c.pc = "insertfile" BY <1>2, <1>9 DEF InsertFile, At, Go
  <2>2. c.kind = "create" /\ (c.base # None => c.kind = "commit") BY <1>2, <2>1 DEF Fits, StageFits, BlobFits
  <2>3. o.pc = "insert" /\ o.base = None
    BY <1>1, <1>2, <1>3, <2>1, <2>2 DEF Requests
  <2>4. DepthFits(o)' BY <2>3 DEF DepthFits, Measured
  <2>5. QED BY <1>3, <1>4, <2>4
<1>10. QED BY <1>7, <1>8, <1>9

LEMMA InsertCommitDepth ==
  ASSUME Kept, Kept', ByBase, ByBase', ChainsCut, NEW w \in Writers, DepthFits(op[w]), InsertCommit(w), ~Abort(w)
  PROVE  DepthFits(op[w])' /\ ChainsCut'
<1>1. op \in [Writers -> Requests] BY DEF Kept, OpsTyped
<1>2. PICK c \in Requests : c = op[w] /\ Fits(c) BY Request0
<1>3. PICK o \in Requests : o = op'[w] /\ Fits(o)' BY DEF Kept, OpsTyped, OpsFit
<1>4. PICK i, f : i = made + 1 /\ f = c.file OBVIOUS
<1>5. /\ log' = [log EXCEPT ![i] = [file |-> f, parent |-> c.head, blob |-> c.blob, base |-> c.base]]
      /\ op' = [op EXCEPT ![w].pc = "update", ![w].id = i]
      /\ c.pc = "insert" /\ Live(f) /\ file' = file
  BY <1>2, <1>4 DEF InsertCommit, At
<1>6. Pends(op[w]) BY <1>2, <1>5 DEF Fits, StageFits, Pends, Storing, Makers
<1>7. i \in Ids /\ ~InLog(i) BY <1>4, <1>6, NextId
<1>8. \A j \in Ids : j # i => log'[j] = log[j] BY <1>5, <1>7 DEF Kept, TypeOK
<1>9. log'[i].base = c.base BY <1>5, <1>7 DEF Kept, TypeOK
<1>10. o.pc = "update" /\ o.id = i /\ o.kind = c.kind /\ o.file = f
  BY <1>1, <1>2, <1>3, <1>4, <1>5 DEF Requests
<1>11. c.base # None => c.kind = "commit" /\ c.base = c.head BY <1>2, <1>5 DEF Fits, BlobFits
<1>12. DepthFits(o)' BY <1>9, <1>10, <1>11 DEF DepthFits, Measured
<1>13. \A j \in Ids : InLog(j) => Depth(j)' = Depth(j)
  <2>. DEFINE S == {j \in Ids : InLog(j)}
  <2>1. ASSUME NEW j \in S
        PROVE  /\ InLog(j) /\ InLog(j)' /\ log'[j].base = log[j].base
               /\ log[j].base # None => log[j].base \in S
    <3>1. j # i /\ InLog(j) /\ log'[j] = log[j] BY <1>7, <1>8
    <3>2. log[j].base # None => InLog(log[j].base) /\ log[j].base \in Ids BY DEF ByBase, Maybe
    <3>3. QED BY <3>1, <3>2 DEF InLog
  <2>2. S \in SUBSET Ids OBVIOUS
  <2>. HIDE DEF S
  <2>3. \A j \in S : Depth(j)' = Depth(j) BY <2>1, <2>2, DepthStays
  <2>4. QED BY <2>3 DEF S
<1>14. ASSUME InLog(i)' PROVE Depth(i)' < Interval
  <2>1. CASE c.base = None
    <3>1. Depth(i)' = 0 BY <1>7, <1>9, <1>14, <2>1 DEF ByBase
    <3>2. QED BY <3>1, VersioningAssumption
  <2>2. CASE c.base # None
    <3>1. PICK b \in Ids : b = c.base BY <2>2 DEF Requests, Maybe
    <3>2. InLog(b) BY <1>2, <1>4, <1>5, <1>11, <2>2, <3>1 DEF Fits, HeadFits
    <3>3. Depth(b) + 1 < Interval BY <1>2, <1>4, <1>5, <2>2, <3>1 DEF DepthFits
    <3>4. log'[i].base = b /\ b # None BY <1>9, <2>2, <3>1
    <3>5. Depth(i)' = Depth(b)' + 1 BY <1>7, <1>14, <3>4 DEF ByBase
    <3>6. QED BY <1>13, <3>2, <3>3, <3>5
  <2>3. QED BY <2>1, <2>2
<1>15. ASSUME NEW j \in Ids, InLog(j)' PROVE Depth(j)' < Interval
  <2>1. CASE j = i BY <1>14, <1>15, <2>1
  <2>2. CASE j # i
    <3>1. InLog(j) BY <1>8, <1>15, <2>2 DEF InLog
    <3>2. QED BY <1>13, <3>1 DEF ChainsCut
  <2>3. QED BY <2>1, <2>2
<1>16. ChainsCut' BY <1>15 DEF ChainsCut
<1>17. QED BY <1>3, <1>12, <1>16

LEMMA ReencodeDepth ==
  ASSUME Kept, Kept', ByBase, ByBase', ChainsCut, NEW w \in Writers, DepthFits(op[w]), Reencode(w), ~Abort(w)
  PROVE  DepthFits(op[w])' /\ ChainsCut'
<1>1. op \in [Writers -> Requests] /\ log \in [Ids -> Maybe(Commit)] BY DEF Kept, OpsTyped, TypeOK
<1>2. PICK c \in Requests : c = op[w] /\ Fits(c) BY Request0
<1>3. PICK p, q : p = c.head /\ q = c.id OBVIOUS
<1>4. /\ log' = WithStorage(p, c.blob, q) /\ op' = [op EXCEPT ![w].pc = "queueold"]
      /\ c.pc = "reencode" /\ InLog(p)
  BY <1>2, <1>3 DEF Reencode, At, Go
<1>5. p \in Ids /\ q \in Ids /\ p < q
  <2>1. p # None /\ q # None BY <1>2, <1>3, <1>4 DEF Fits, PatchFits, StageFits, Compacting
  <2>2. p \in Maybe(Ids) /\ q \in Maybe(Ids) BY <1>3 DEF Requests
  <2>3. QED BY <1>2, <1>3, <2>1, <2>2 DEF Fits, CommitFits, Maybe
<1>6. Live(c.file)
  <2>1. log[p].file = c.file BY <1>2, <1>3, <1>4, <1>5, IdsNumbers DEF Fits, HeadFits
  <2>2. QED BY <1>4, <1>5, <2>1 DEF Kept, Rooted
<1>7. /\ log[p].base = None /\ log[q].base = None
      /\ \A i \in Ids : InLog(i) /\ Rests(i, p) => Depth(i) + 1 < Interval
  <2>1. c.kind = "raw" BY <1>2, <1>4 DEF Fits, StageFits, Compacting
  <2>2. QED BY <1>2, <1>3, <1>4, <1>6, <2>1 DEF DepthFits, Measured
<1>8. InLog(q) BY <1>2, <1>3, <1>5, <1>6, IdsNumbers DEF Fits, CommitFits
<1>9. log[p] \in Commit BY <1>1, <1>4, <1>5, LogRow DEF LogTyped
<1>10. log'[p] = [log[p] EXCEPT !.blob = c.blob, !.base = q] BY <1>1, <1>4, <1>5 DEF WithStorage
<1>11. log'[p].base = q BY <1>9, <1>10 DEF Commit
<1>12. \A i \in Ids : i # p => log'[i] = log[i] BY <1>1, <1>4, <1>5 DEF WithStorage
<1>13. InLog(p)'
  <2>1. c.blob \in Blobs
    <3>1. c.kind = "raw" /\ c.id # None BY <1>2, <1>4 DEF Fits, StageFits, Compacting
    <3>2. QED BY <1>2, <3>1 DEF Fits, CommitFits
  <2>2. log'[p] \in Commit BY <1>5, <1>9, <1>10, <2>1 DEF Commit, Maybe
  <2>3. QED BY <2>2, NoneAssumption DEF InLog
<1>14. \A i \in Ids : InLog(i)' <=> InLog(i) BY <1>4, <1>12, <1>13 DEF InLog
<1>15. p # q BY <1>5, IdsNumbers
<1>16. \A i \in Ids : InLog(i) => Depth(i)' = IF Rests(i, p) THEN Depth(i) + 1 ELSE Depth(i)
  BY <1>4, <1>5, <1>7, <1>8, <1>11, <1>12, <1>14, <1>15, DepthGrows
<1>17. \A i \in Ids : InLog(i) => Depth(i)' < Interval BY <1>7, <1>16 DEF ChainsCut
<1>18. ChainsCut' BY <1>14, <1>17 DEF ChainsCut, InLog
<1>19. PICK o : o = op'[w] OBVIOUS
<1>20. o.pc = "queueold" BY <1>1, <1>4, <1>19 DEF Requests
<1>21. DepthFits(o)' BY <1>20, QuietDepth DEF Measured
<1>22. QED BY <1>18, <1>19, <1>21

LEMMA StepDepth ==
  ASSUME Kept, Kept', ByBase, ByBase', ChainsCut, NEW w \in Writers, DepthFits(op[w]), Step(w)
  PROVE  DepthFits(op[w])' /\ ChainsCut'
<1>1. op \in [Writers -> Requests] BY DEF Kept, OpsTyped
<1>2. ASSUME log' = log PROVE ChainsCut'
  BY <1>2, CutStays DEF InLog
<1>3. ASSUME op' = [op EXCEPT ![w] = Idle] \/ (Read(w) /\ ~Abort(w)) PROVE DepthFits(op[w])'
  <2>1. PICK o : o = op'[w] OBVIOUS
  <2>2. o.pc \in {"idle", "list"}
    <3>1. CASE op' = [op EXCEPT ![w] = Idle] BY <1>1, <2>1, <3>1, IdleFields
    <3>2. CASE Read(w) /\ ~Abort(w)
      <4>1. PICK h : op' = [op EXCEPT ![w].pc = "list", ![w].kind = "commit", ![w].needs = {}, ![w].head = h]
        BY <3>2 DEF Read
      <4>2. QED BY <1>1, <2>1, <4>1 DEF Requests
    <3>3. QED BY <1>3, <3>1, <3>2
  <2>3. DepthFits(o)' BY <2>2, QuietDepth DEF Measured
  <2>4. QED BY <2>1, <2>3
<1>4. CASE Abort(w) \/ QueueOld(w) \/ (Read(w) /\ ~Abort(w))
  <2>1. log' = log /\ (op' = [op EXCEPT ![w] = Idle] \/ (Read(w) /\ ~Abort(w)))
    BY <1>4 DEF Abort, Finish, QueueOld, Read
  <2>2. QED BY <1>2, <1>3, <2>1
<1>5. CASE List(w) /\ ~Abort(w)
  <2>1. log' = log BY <1>5 DEF List
  <2>2. QED BY <1>2, <1>5, <2>1, ListDepth
<1>6. CASE CompactList(w) /\ ~Abort(w)
  <2>1. log' = log BY <1>6 DEF CompactList
  <2>2. QED BY <1>2, <1>6, <2>1, CompactListDepth
<1>7. CASE ~Abort(w) /\ (Fetch(w) \/ Put(w) \/ InsertFile(w) \/ UpdateFile(w) \/ CompactFetch(w) \/ PutPatch(w)
                          \/ QueuePatch(w))
  BY <1>2, <1>7, OtherDepth
<1>8. CASE ~Abort(w) /\ (InsertCommit(w) \/ Reencode(w))
  BY <1>8, InsertCommitDepth, ReencodeDepth
<1>9. QED BY <1>4, <1>5, <1>6, <1>7, <1>8 DEF Step

LEMMA RequestDepth ==
  ASSUME Kept, NEW w \in Writers, Request(w)
  PROVE  DepthFits(op[w])' /\ UNCHANGED log
<1>1. op \in [Writers -> Requests] BY Request0 DEF Kept, OpsTyped
<1>2. ASSUME NEW f \in Files, NEW c, NEW kind, NEW where, Begin(w, kind, f, c, where),
             where # "update" \/ kind = "rename", where \in {"putfull", "list", "update"}
      PROVE  DepthFits(op[w])' /\ UNCHANGED log
  <2>1. PICK d : /\ d = [Idle EXCEPT !.pc = where, !.kind = kind, !.file = f, !.head = file[f].head, !.content = c]
                 /\ op' = [op EXCEPT ![w] = d] /\ log' = log
    BY <1>2 DEF Begin
  <2>2. d.pc = where /\ d.kind = kind BY <2>1 DEF Idle
  <2>3. op'[w] = d BY <1>1, <2>1
  <2>4. QED BY <1>2, <2>1, <2>2, <2>3 DEF DepthFits, Measured
<1>3. ASSUME NEW f \in Files, NEW i, NEW kind, Materialize(w, kind, f, i)
      PROVE  DepthFits(op[w])' /\ UNCHANGED log
  <2>1. PICK d : /\ d = [Idle EXCEPT !.pc = "read", !.kind = kind, !.file = f,
                                     !.content = Restore(i), !.needs = ChainBlobs(i)]
                 /\ op' = [op EXCEPT ![w] = d] /\ log' = log
    BY <1>3 DEF Materialize
  <2>2. d.pc = "read" BY <2>1 DEF Idle
  <2>3. op'[w] = d BY <1>1, <2>1
  <2>4. QED BY <2>1, <2>2, <2>3 DEF DepthFits, Measured
<1>4. QED
  BY <1>2, <1>3 DEF Request, BeginCreate, BeginCommit, BeginRaw, BeginRename, BeginRead, BeginRollback

LEMMA DepthNext ==
  ASSUME Alone, Kept, Kept', ByBase, ByBase', ChainsCut, \A w \in Writers : DepthFits(op[w]), [Next]_vars
  PROVE  ChainsCut' /\ \A w \in Writers : DepthFits(op[w])'
<1>1. ASSUME NEW w \in Writers, Step(w) PROVE ChainsCut' /\ \A x \in Writers : DepthFits(op[x])'
  <2>1. DepthFits(op[w])' /\ ChainsCut' BY <1>1, StepDepth
  <2>2. \A x \in Writers : x = w BY DEF Alone
  <2>3. QED BY <2>1, <2>2
<1>2. ASSUME NEW w \in Writers, Request(w) PROVE ChainsCut' /\ \A x \in Writers : DepthFits(op[x])'
  <2>1. DepthFits(op[w])' /\ log' = log BY <1>2, RequestDepth
  <2>2. ChainsCut' BY <2>1, CutStays DEF InLog
  <2>3. \A x \in Writers : x = w BY DEF Alone
  <2>4. QED BY <2>1, <2>2, <2>3
<1>3. ASSUME \/ \E f \in Files : PurgeFile(f)
             \/ Sweep \/ UNCHANGED vars
      PROVE  ChainsCut' /\ \A x \in Writers : DepthFits(op[x])'
  <2>1. op' = op /\ (\A f : Live(f)' => Live(f)) /\ \A i \in Ids : InLog(i)' => InLog(i) /\ log'[i] = log[i]
    <3>1. ASSUME NEW f \in Files, PurgeFile(f)
          PROVE  op' = op /\ (\A g : Live(g)' => Live(g)) /\ \A i \in Ids : InLog(i)' => InLog(i) /\ log'[i] = log[i]
      <4>1. op' = op /\ \A i \in Ids : InLog(i)' => InLog(i) /\ log'[i] = log[i]
        BY <3>1 DEF PurgeFile, History, InLog
      <4>2. file' = [file EXCEPT ![f] = [state |-> "purged", head |-> None]] BY <3>1 DEF PurgeFile
      <4>3. \A g \in Files : file'[g] = IF g = f THEN [state |-> "purged", head |-> None] ELSE file[g]
        BY <4>2 DEF Kept, TypeOK
      <4>4. QED BY <4>1, <4>3 DEF Live
    <3>2. ASSUME Sweep \/ UNCHANGED vars PROVE UNCHANGED <<file, log, op>>
      BY <3>2 DEF Sweep, SweepList, SweepCount, SweepDelete, SweepRemove, vars
    <3>3. QED BY <1>3, <3>1, <3>2 DEF Live, InLog
  <2>2. ChainsCut' BY <2>1, CutStays
  <2>3. ASSUME NEW x \in Writers PROVE DepthFits(op[x])'
    <3>1. PICK o \in Requests : o = op'[x] /\ Fits(o)' BY DEF Kept, OpsTyped, OpsFit
    <3>2. o = op[x] /\ DepthFits(o) BY <2>1, <3>1
    <3>3. PICK f : f = o.file OBVIOUS
    <3>4. Live(f)' => Live(f) BY <2>1
    <3>5. Live(o.file)' => Live(o.file) BY <3>3, <3>4
    <3>6. DepthFits(o)' BY <2>1, <3>1, <3>2, <3>5, DepthOnward
    <3>7. QED BY <3>1, <3>6
  <2>4. QED BY <2>2, <2>3
<1>4. ASSUME Crash PROVE ChainsCut' /\ \A x \in Writers : DepthFits(op[x])'
  <2>1. log' = log /\ \A x \in Writers : op'[x] = Idle BY <1>4 DEF Crash
  <2>2. ChainsCut' BY <2>1, CutStays DEF InLog
  <2>3. QED BY <2>1, <2>2, IdleFields DEF DepthFits, Measured
<1>5. QED BY <1>1, <1>2, <1>3, <1>4 DEF Next

(* A chain is cut before it has SNAPSHOT_INTERVAL patches, although commit *)
(* extends it at one end and try_compact_previous at the other, when one   *)
(* request works at a time: what chain_depth and deepest_distance_to have  *)
(* measured then still holds when the row is written.                      *)
THEOREM ChainsCutAlone == ASSUME Alone PROVE Spec => []ChainsCut
<1>. DEFINE Measures == \A w \in Writers : DepthFits(op[w])
<1>1. Init => ChainsCut /\ Measures
  <2>1. ASSUME Init PROVE ChainsCut /\ Measures
    <3>1. (\A i \in Ids : ~InLog(i)) /\ \A w \in Writers : op[w] = Idle BY <2>1 DEF Init, InLog
    <3>2. QED BY <3>1, IdleFields DEF ChainsCut, DepthFits, Measured
  <2>2. QED BY <2>1
<1>2. Kept /\ Kept' /\ ByBase /\ ByBase' /\ ChainsCut /\ Measures /\ [Next]_vars => ChainsCut' /\ Measures'
  BY DepthNext
<1>. HIDE DEF Measures
<1>3. QED BY <1>1, <1>2, KeptByBase, SpecKept, PTL DEF Spec
=============================================================================
