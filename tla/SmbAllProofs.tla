---------------------------- MODULE SmbAllProofs ----------------------------
(***************************************************************************)
(* Theorems about SmbAll, for any files, names, clients and programs that  *)
(* open one file at a time.                                                *)
(*                                                                         *)
(* Typed: what a request has at each of its calls (CallFits): the copy it  *)
(* has found, the body it folds, the handle it closes.                     *)
(*                                                                         *)
(* HeadInv: the copy of a row that a request has in hand is the row as it  *)
(* stands (InStep), unless two requests had it in hand at once.            *)
(*                                                                         *)
(* MetaInv: metadata is on no file, in no buffer of a file and in no       *)
(* request on its way to one; scratch has it under names of metadata only. *)
(*                                                                         *)
(* WholeInv: every content is in a history, in scratch or given up, or     *)
(* some client bears it in its buffer or in the request that closes it.    *)
(***************************************************************************)
EXTENDS SmbAll, TLAPS

(* What a call is at each of its stages.                                   *)
Maybe(S) == S \cup {None}
Stages ==
  {"idle", "byId", "byName", "byEmbedded", "found", "opening", "healing", "create", "commit", "append", "retire",
   "salvage"}
Calls ==
  [at: Stages, req: Maybe(Requests), stage: {"from", "to", "check", "fold"}, want: Maybe(Names),
   found: Maybe(Copies), target: Maybe(Copies), body: Maybe(Contents), left: SUBSET Paths, key: Maybe(Paths)]

(* A copy of a row in hand; a client has named the file, or where it is to *)
(* go; a scratch entry that is being saved; one whose file is looked for.  *)
Has(copy) == copy # None /\ copy.row # None
Named(r) == r.req.op \in {"open", "unlink", "rename"} /\ r.req.path.dir = Root /\ r.want = r.req.path.file /\ r.key = None
Onto(r) == r.stage = "to" /\ Has(r.found) /\ r.req.op = "rename" /\ r.req.to.dir = Root /\ r.key = None
Folding(r) ==
  /\ r.stage = "fold" /\ r.key # None /\ r.found = None /\ r.body # None
  /\ \/ r.req.op = "rmdir" /\ r.want = r.key.file
     \/ r.req.op = "rename" /\ r.req.to.dir = Root /\ r.want = r.req.to.file
Checking(r) ==
  /\ r.stage = "check" /\ r.req.op = "rmdir" /\ r.key # None /\ r.want = r.key.file
  /\ r.found = None /\ r.target = None /\ r.body = None

SeekFits(r) ==
  /\ r.at \in {"byId", "byName", "byEmbedded"} =>
       /\ r.want # None /\ r.target = None
       /\ \/ r.stage = "from" /\ Named(r) /\ r.body = None /\ r.found = None
          \/ Onto(r) /\ r.want = r.req.to.file
          \/ Checking(r) \/ Folding(r)
  /\ r.at \in {"byId", "byEmbedded"} => r.want.id # None
  /\ r.at = "byEmbedded" => r.stage \in {"check", "fold"}
FoundFits(r) ==
  r.at = "found" =>
    /\ r.want # None
    /\ \/ r.stage = "from" /\ Named(r) /\ r.body = None /\ r.target = None /\ (r.found = None \/ Has(r.found))
       \/ Onto(r) /\ r.want = r.req.to.file /\ (r.target = None \/ Has(r.target))
       \/ Folding(r) /\ (r.target = None \/ Has(r.target))
OpenFits(r) ==
  r.at \in {"opening", "healing"} =>
    r.req.op = "open" /\ Named(r) /\ r.want # None /\ Has(r.found) /\ r.body # None /\ r.target = None
SaveFits(r) ==
  /\ r.at \in {"create", "commit", "append"} =>
       \/ r.req.op \in {"flush", "close"} /\ r.stage = "from" /\ r.found = None /\ r.key = None /\ r.body # None
       \/ Folding(r)
       \/ Onto(r) /\ r.body # None
  /\ r.at = "create" => r.want # None /\ r.stage # "to" /\ r.req.op # "flush"
  /\ r.at \in {"commit", "append", "retire"} => r.target # None /\ (r.stage = "to" => r.target.id # r.found.id)
  /\ r.at \in {"append", "retire"} => Has(r.target)
  /\ r.at = "retire" => Onto(r)
RestFits(r) ==
  /\ r.at = "idle" => r = Resting
  /\ r.at # "idle" => r.req # None /\ r.req.op \notin {"write", "mkdir"}
  /\ r.at = "salvage" => r.req.op = "rmdir" /\ r.found = None /\ r.target = None /\ r.body = None
CallFits(r) == SeekFits(r) /\ FoundFits(r) /\ OpenFits(r) /\ SaveFits(r) /\ RestFits(r)

(* A client with a handle, or about to get one, closes it before it opens  *)
(* another; a flush commits the buffer of the handle.                      *)
Closes(s) == \A j \in DOMAIN s : s[j].op = "open" => \E k \in DOMAIN s : k < j /\ s[k].op = "close"
Doing(c, op) == call[c].at # "idle" /\ Op(c) = op
SendsWell(c) ==
  /\ todo[c] \in Seq(Requests) /\ OneOpen(todo[c])
  /\ handle[c] # None \/ Doing(c, "open") => Closes(todo[c])
HandleFits(c) ==
  /\ handle[c] \in FileHandles \cup ScratchHandles \cup {None}
  /\ handle[c] # None /\ handle[c].kind = "scratch" => InScratch(handle[c].place)
  /\ Doing(c, "open") => handle[c] = None
  /\ Doing(c, "flush") => Pending(c) /\ Existing(c) /\ handle[c].buf = call[c].body
Known(h, copy) == Has(copy) => copy.row.head \in 1..Len(h[copy.id])
CallOk(c) ==
  call[c] \in Calls /\ CallFits(call[c]) /\ Known(hist, call[c].found) /\ Known(hist, call[c].target)
ClientOk(c) == CallOk(c) /\ SendsWell(c) /\ HandleFits(c)

FilesOk ==
  /\ file \in [Ids -> Maybe(Rows)] /\ hist \in [Ids -> Seq(Contents)] /\ written \in Nat
  /\ \A i \in Ids : file[i] # None => file[i].head \in 1..Len(hist[i])
MemoryOk ==
  /\ dirs \subseteq Dirs /\ DOMAIN scratch \subseteq {p \in Paths : InScratch(p)}
  /\ scratch \in [DOMAIN scratch -> Contents]
HistoryOk ==
  /\ faults \in 0..MaxFaults /\ failed \subseteq Clients /\ missed \in BOOLEAN /\ overlapped \subseteq Ids
  /\ lost \subseteq Contents /\ sidecar \subseteq Contents
Typed ==
  /\ FilesOk /\ MemoryOk /\ HistoryOk
  /\ DOMAIN handle = Clients /\ DOMAIN call = Clients /\ DOMAIN todo = Clients
  /\ call = [c \in Clients |-> call[c]] /\ handle = [c \in Clients |-> handle[c]] /\ todo = [c \in Clients |-> todo[c]]
  /\ \A c \in Clients : ClientOk(c)

-----------------------------------------------------------------------------
(* Requests and calls.                                                     *)

LEMMA NoneOther ==
  /\ None \notin Nat /\ None \notin Ids /\ None \notin Names /\ None \notin Paths /\ None \notin Requests
  /\ None \notin Rows /\ None \notin Copies /\ None \notin ScratchHandles
  /\ None \notin [kind: {"file"}, id: Ids \cup {None}, name: Names, buf: Nat, dirty: BOOLEAN]
  BY NoneAssumption DEF Copies

LEMMA RequestTypes ==
  ASSUME NEW q \in Requests
  PROVE  /\ q.op = "open" => q.path \in Paths /\ q.intent \in Intents
         /\ q.op = "mkdir" => q.path.dir \in Dirs
         /\ q.op \in {"rmdir", "unlink", "rename"} => q.path \in Paths
         /\ q.op = "rename" => q.to \in Paths
         /\ q.op \in {"open", "write", "flush", "close", "mkdir", "rmdir", "unlink", "rename"}
  BY DEF Requests

LEMMA PathTypes ==
  ASSUME NEW p \in Paths
  PROVE  /\ p.dir \in Dirs \cup {Root} /\ p.file \in Names /\ p.file.id \in Maybe(Ids) /\ p.file.text \in Texts
         /\ p.dir # Root => InScratch(p)
         /\ ~InScratch(p) => p.dir = Root /\ ~IsMeta(p.file)
  BY DEF Paths, Names, InScratch, Maybe

LEMMA RestingFits ==
  /\ written \in Nat => Resting \in Calls
  /\ CallFits(Resting) /\ \A h : Known(h, Resting.found) /\ Known(h, Resting.target)
  BY DEF Resting, Calls, Stages, Maybe, CallFits, SeekFits, FoundFits, OpenFits, SaveFits, RestFits, Known, Has

(* What is left of a sequence of requests.                                 *)
LEMMA NothingLeft == <<>> \in Seq(Requests) /\ OneOpen(<<>>) /\ Closes(<<>>)
  BY DEF OneOpen, Closes

LEMMA RestOf ==
  ASSUME NEW s \in Seq(Requests), s # <<>>, OneOpen(s)
  PROVE  /\ Head(s) \in Requests /\ Tail(s) \in Seq(Requests) /\ OneOpen(Tail(s))
         /\ Head(s).op = "open" => ~Closes(s) /\ Closes(Tail(s))
         /\ Head(s).op # "close" /\ Closes(s) => Closes(Tail(s))
<1>1. PICK t : t = Tail(s) OBVIOUS
<1>2. PICK n \in Nat : n = Len(s) /\ n >= 1 OBVIOUS
<1>3. /\ Head(s) = s[1] /\ Head(s) \in Requests /\ t \in Seq(Requests) /\ Len(t) = n - 1
      /\ DOMAIN s = 1..n /\ DOMAIN t = 1..(n - 1)
      /\ \A k \in 1..(n - 1) : t[k] = s[k + 1]
  BY <1>1, <1>2
<1>4. \A k \in 2..n : s[k] = t[k - 1] /\ k - 1 \in 1..(n - 1)
  BY <1>2, <1>3
<1>5. OneOpen(t)
  <2>1. SUFFICES ASSUME NEW i \in DOMAIN t, NEW j \in DOMAIN t, i < j, t[i].op = "open", t[j].op = "open"
                 PROVE  \E k \in DOMAIN t : i < k /\ k < j /\ t[k].op = "close"
    BY DEF OneOpen
  <2>2. i + 1 \in DOMAIN s /\ j + 1 \in DOMAIN s /\ s[i + 1].op = "open" /\ s[j + 1].op = "open" /\ i + 1 < j + 1
    BY <1>2, <1>3, <2>1
  <2>3. PICK k \in DOMAIN s : i + 1 < k /\ k < j + 1 /\ s[k].op = "close"
    BY <2>2 DEF OneOpen
  <2>4. k \in 2..n /\ i < k - 1 /\ k - 1 < j
    BY <1>2, <1>3, <2>3
  <2>5. QED BY <1>3, <1>4, <2>3, <2>4
<1>6. ASSUME Head(s).op = "open" PROVE ~Closes(s) /\ Closes(t)
  <2>1. ~Closes(s)
    <3>1. 1 \in DOMAIN s /\ s[1].op = "open" BY <1>2, <1>3, <1>6
    <3>2. \A k \in DOMAIN s : ~(k < 1) BY <1>3
    <3>3. QED BY <3>1, <3>2 DEF Closes
  <2>2. SUFFICES ASSUME NEW j \in DOMAIN t, t[j].op = "open"
                 PROVE  \E k \in DOMAIN t : k < j /\ t[k].op = "close"
    BY <2>1 DEF Closes
  <2>3. 1 \in DOMAIN s /\ j + 1 \in DOMAIN s /\ s[1].op = "open" /\ s[j + 1].op = "open" /\ 1 < j + 1
    BY <1>2, <1>3, <1>6, <2>2
  <2>4. PICK k \in DOMAIN s : 1 < k /\ k < j + 1 /\ s[k].op = "close"
    BY <2>3 DEF OneOpen
  <2>5. k \in 2..n /\ k - 1 < j BY <1>2, <1>3, <2>4
  <2>6. QED BY <1>3, <1>4, <2>4, <2>5
<1>7. ASSUME Head(s).op # "close", Closes(s) PROVE Closes(t)
  <2>1. SUFFICES ASSUME NEW j \in DOMAIN t, t[j].op = "open"
                 PROVE  \E k \in DOMAIN t : k < j /\ t[k].op = "close"
    BY DEF Closes
  <2>2. j + 1 \in DOMAIN s /\ s[j + 1].op = "open" BY <1>2, <1>3, <2>1
  <2>3. PICK k \in DOMAIN s : k < j + 1 /\ s[k].op = "close" BY <1>7, <2>2 DEF Closes
  <2>4. k # 1 BY <1>3, <1>7, <2>3
  <2>5. k \in 2..n /\ k - 1 < j BY <1>2, <1>3, <2>3, <2>4
  <2>6. QED BY <1>3, <1>4, <2>3, <2>5
<1>8. QED BY <1>1, <1>3, <1>5, <1>6, <1>7

(* With, on calls.                                                         *)
Call(at, req, stage, want, found, target, body, left, key) ==
  [at |-> at, req |-> req, stage |-> stage, want |-> want, found |-> found, target |-> target, body |-> body,
   left |-> left, key |-> key]

LEMMA WithAt ==
  ASSUME NEW r \in Calls, NEW a
  PROVE  With(r, [at |-> a]) =
           Call(a, r.req, r.stage, r.want, r.found, r.target, r.body, r.left, r.key)
  BY DEF With, Call, Calls
LEMMA WithFound ==
  ASSUME NEW r \in Calls, NEW a, NEW f
  PROVE  With(r, [at |-> a, found |-> f]) =
           Call(a, r.req, r.stage, r.want, f, r.target, r.body, r.left, r.key)
  BY DEF With, Call, Calls
LEMMA WithTarget ==
  ASSUME NEW r \in Calls, NEW a, NEW t
  PROVE  With(r, [at |-> a, target |-> t]) =
           Call(a, r.req, r.stage, r.want, r.found, t, r.body, r.left, r.key)
  BY DEF With, Call, Calls
LEMMA WithBody ==
  ASSUME NEW r \in Calls, NEW a, NEW b
  PROVE  With(r, [at |-> a, body |-> b]) =
           Call(a, r.req, r.stage, r.want, r.found, r.target, b, r.left, r.key)
  BY DEF With, Call, Calls
LEMMA WithLeft ==
  ASSUME NEW r \in Calls, NEW a, NEW l
  PROVE  With(r, [at |-> a, left |-> l]) =
           Call(a, r.req, r.stage, r.want, r.found, r.target, r.body, l, r.key)
  BY DEF With, Call, Calls
LEMMA WithWant ==
  ASSUME NEW r \in Calls, NEW a, NEW n, NEW s
  PROVE  With(r, [at |-> a, want |-> n, stage |-> s]) =
           Call(a, r.req, s, n, r.found, r.target, r.body, r.left, r.key)
  BY DEF With, Call, Calls
LEMMA WithCommit ==
  ASSUME NEW r \in Calls, NEW a, NEW b, NEW t
  PROVE  With(r, [at |-> a, body |-> b, target |-> t]) =
           Call(a, r.req, r.stage, r.want, r.found, t, b, r.left, r.key)
  BY DEF With, Call, Calls
LEMMA WithCreate ==
  ASSUME NEW r \in Calls, NEW a, NEW b, NEW n
  PROVE  With(r, [at |-> a, body |-> b, want |-> n]) =
           Call(a, r.req, r.stage, n, r.found, r.target, b, r.left, r.key)
  BY DEF With, Call, Calls
LEMMA WithNothing ==
  ASSUME NEW r \in Calls, NEW a, NEW f, NEW t, NEW b
  PROVE  With(r, [at |-> a, found |-> f, target |-> t, body |-> b]) =
           Call(a, r.req, r.stage, r.want, f, t, b, r.left, r.key)
  BY DEF With, Call, Calls
LEMMA WithFold ==
  ASSUME NEW r \in Calls, NEW a, NEW n, NEW s, NEW k, NEW b
  PROVE  With(r, [at |-> a, want |-> n, stage |-> s, key |-> k, body |-> b]) =
           Call(a, r.req, s, n, r.found, r.target, b, r.left, k)
  BY DEF With, Call, Calls
LEMMA WithCheck ==
  ASSUME NEW r \in Calls, NEW a, NEW n, NEW s, NEW l, NEW k
  PROVE  With(r, [at |-> a, want |-> n, stage |-> s, left |-> l, key |-> k]) =
           Call(a, r.req, s, n, r.found, r.target, r.body, l, k)
  BY DEF With, Call, Calls

LEMMA WithSeek ==
  ASSUME NEW r \in Calls, NEW n, NEW s, NEW a, a = IF n.id = None THEN "byName" ELSE "byId"
  PROVE  With(r, Seek(n, s)) = Call(a, r.req, s, n, r.found, r.target, r.body, r.left, r.key)
<1>1. Seek(n, s) = [at |-> a, want |-> n, stage |-> s] BY DEF Seek
<1>2. QED BY <1>1, WithWant
LEMMA WithSeekFold ==
  ASSUME NEW r \in Calls, NEW n, NEW s, NEW a, a = IF n.id = None THEN "byName" ELSE "byId", NEW b, NEW k
  PROVE  With(r, With(Seek(n, s), [key |-> k, body |-> b])) = Call(a, r.req, s, n, r.found, r.target, b, r.left, k)
<1>1. Seek(n, s) = [at |-> a, want |-> n, stage |-> s] BY DEF Seek
<1>2. With(Seek(n, s), [key |-> k, body |-> b]) = [at |-> a, want |-> n, stage |-> s, key |-> k, body |-> b]
  BY <1>1 DEF With
<1>3. QED BY <1>2, WithFold
LEMMA WithSeekCheck ==
  ASSUME NEW r \in Calls, NEW n, NEW s, NEW a, a = IF n.id = None THEN "byName" ELSE "byId", NEW l, NEW k
  PROVE  With(r, With(Seek(n, s), [left |-> l, key |-> k])) = Call(a, r.req, s, n, r.found, r.target, r.body, l, k)
<1>1. Seek(n, s) = [at |-> a, want |-> n, stage |-> s] BY DEF Seek
<1>2. With(Seek(n, s), [left |-> l, key |-> k]) = [at |-> a, want |-> n, stage |-> s, left |-> l, key |-> k]
  BY <1>1 DEF With
<1>3. QED BY <1>2, WithCheck

-----------------------------------------------------------------------------
(* What a step of one client leaves as it was.                             *)

Only(c) ==
  /\ call' = [call EXCEPT ![c] = call'[c]]
  /\ handle' = [handle EXCEPT ![c] = handle'[c]]
  /\ todo' = [todo EXCEPT ![c] = todo'[c]]
Grows == written' \in Nat /\ written <= written' /\ \A i \in Ids : Len(hist[i]) <= Len(hist'[i])

LEMMA CallsGrow == ASSUME written \in Nat, Grows PROVE Calls \subseteq Calls' /\ Contents \subseteq Contents'
<1>1. Contents \subseteq Contents' BY DEF Grows, Contents
<1>2. Copies' = Copies BY DEF Copies, Rows
<1>3. QED BY <1>1, <1>2 DEF Calls, Maybe

LEMMA CopiesGrow ==
  ASSUME FilesOk, FilesOk', Grows, NEW copy \in Maybe(Copies), Known(hist, copy)
  PROVE  Known(hist', copy)
<1>1. SUFFICES ASSUME Has(copy) PROVE copy.row.head \in 1..Len(hist'[copy.id]) BY DEF Known
<1>2. copy.id \in Ids /\ copy.row.head \in 1..Len(hist[copy.id])
  BY <1>1 DEF Has, Maybe, Copies, Known
<1>3. hist[copy.id] \in Seq(Contents) /\ hist'[copy.id] \in Seq(Contents') BY <1>2 DEF FilesOk
<1>4. Len(hist[copy.id]) \in Nat /\ Len(hist'[copy.id]) \in Nat BY <1>3
<1>5. QED BY <1>2, <1>4 DEF Grows

LEMMA ClientStep ==
  ASSUME Typed, NEW c \in Clients, Only(c), FilesOk', MemoryOk', HistoryOk', Grows, ClientOk(c)'
  PROVE  Typed'
<1>1. written \in Nat /\ FilesOk BY DEF Typed, FilesOk
<1>2. ASSUME NEW x \in Clients \ {c} PROVE ClientOk(x)'
  <2>1. call'[x] = call[x] /\ handle'[x] = handle[x] /\ todo'[x] = todo[x] BY DEF Only, Typed
  <2>2. CallOk(x) /\ SendsWell(x) /\ HandleFits(x) BY DEF Typed, ClientOk
  <2>3. call[x] \in Calls /\ call[x] \in Calls' BY <1>1, <2>2, CallsGrow DEF CallOk
  <2>4. call[x].found \in Maybe(Copies) /\ call[x].target \in Maybe(Copies) BY <2>3 DEF Calls
  <2>5. CallOk(x)'
    <3>1. Known(hist, call[x].found) /\ Known(hist, call[x].target) BY <2>2 DEF CallOk
    <3>2. Known(hist', call[x].found) /\ Known(hist', call[x].target) BY <1>1, <2>4, <3>1, CopiesGrow
    <3>3. CallFits(call'[x]) BY <2>1, <2>2 DEF CallOk
    <3>4. QED BY <2>1, <2>3, <3>2, <3>3 DEF CallOk
  <2>6. SendsWell(x)' BY <2>1, <2>2 DEF SendsWell, Doing, Op
  <2>7. HandleFits(x)'
    <3>1. FileHandles \subseteq FileHandles' BY <1>1, CallsGrow DEF FileHandles
    <3>2. QED BY <2>1, <2>2, <3>1 DEF HandleFits, Doing, Op, Pending, Existing
  <2>8. QED BY <2>5, <2>6, <2>7 DEF ClientOk
<1>3. \A x \in Clients : ClientOk(x)' BY <1>2
<1>4. /\ DOMAIN handle' = Clients /\ DOMAIN call' = Clients /\ DOMAIN todo' = Clients
      /\ call' = [x \in Clients |-> call'[x]] /\ handle' = [x \in Clients |-> handle'[x]]
      /\ todo' = [x \in Clients |-> todo'[x]]
  BY DEF Only, Typed
<1>5. QED BY <1>3, <1>4 DEF Typed

LEMMA ClientTypes ==
  ASSUME Typed, NEW c \in Clients
  PROVE  /\ call[c] \in Calls /\ CallFits(call[c])
         /\ Known(hist, call[c].found) /\ Known(hist, call[c].target)
         /\ SendsWell(c) /\ HandleFits(c)
         /\ FilesOk /\ MemoryOk /\ HistoryOk /\ written \in Nat
  BY DEF Typed, ClientOk, CallOk, FilesOk

(* What a client has yet to send after a step.                             *)
LEMMA SendsOn ==
  ASSUME Typed, NEW c \in Clients,
         \/ todo'[c] \in {todo[c], <<>>}
         \/ todo[c] # <<>> /\ todo'[c] = Tail(todo[c]),
         handle'[c] # None \/ Doing(c, "open")' =>
           \/ handle[c] # None /\ (todo'[c] \in {todo[c], <<>>} \/ Req(c).op # "close")
           \/ Doing(c, "open") /\ todo'[c] \in {todo[c], <<>>}
           \/ todo[c] # <<>> /\ Req(c).op = "open" /\ todo'[c] \in {Tail(todo[c]), <<>>}
  PROVE  SendsWell(c)'
<1>1. SendsWell(c) BY ClientTypes
<1>2. PICK s : s = todo[c] OBVIOUS
<1>3. s \in Seq(Requests) /\ OneOpen(s) BY <1>1, <1>2 DEF SendsWell
<1>4. todo'[c] \in Seq(Requests) /\ OneOpen(todo'[c])
  BY <1>2, <1>3, RestOf, NothingLeft
<1>5. SUFFICES ASSUME handle'[c] # None \/ Doing(c, "open")' PROVE Closes(todo'[c])
  BY <1>4 DEF SendsWell
<1>6. CASE todo'[c] = <<>> BY <1>6, NothingLeft
<1>7. CASE todo[c] # <<>> /\ Req(c).op = "open" /\ todo'[c] = Tail(todo[c])
  BY <1>2, <1>3, <1>7, RestOf DEF Req
<1>8. CASE (handle[c] # None \/ Doing(c, "open")) /\ todo'[c] = todo[c]
  BY <1>1, <1>8 DEF SendsWell
<1>9. CASE handle[c] # None /\ Req(c).op # "close" /\ todo[c] # <<>> /\ todo'[c] = Tail(todo[c])
  <2>1. Closes(s) BY <1>1, <1>2, <1>9 DEF SendsWell
  <2>2. QED BY <1>2, <1>3, <1>9, <2>1, RestOf DEF Req
<1>10. QED BY <1>5, <1>6, <1>7, <1>8, <1>9

(* A request that is over, or goes on with the next file of its directory. *)
Ended(c) ==
  /\ call' = [call EXCEPT ![c] = call'[c]] /\ call'[c] \in Calls /\ CallFits(call'[c])
  /\ call'[c].found = None /\ call'[c].target = None /\ call'[c].body = None /\ call'[c].left \subseteq call[c].left
  /\ \/ call'[c] = Resting
     \/ /\ call'[c].at = "salvage" /\ call'[c].req = call[c].req /\ Op(c) = "rmdir"
        /\ call'[c].stage = call[c].stage /\ call'[c].want = call[c].want
  /\ todo' = [todo EXCEPT ![c] = todo'[c]] /\ todo'[c] \in {todo[c], <<>>}

LEMMA EndsWell ==
  ASSUME Typed, NEW c \in Clients, call[c].at # "idle",
         Finish(c) \/ Return(c) \/ Fail(c) \/ Error(c, todo[c])
  PROVE  Ended(c)
<1>1. call[c] \in Calls /\ CallFits(call[c]) /\ written \in Nat BY ClientTypes
<1>2. DOMAIN call = Clients /\ DOMAIN todo = Clients /\ todo = [x \in Clients |-> todo[x]] BY DEF Typed
<1>3. CASE call' = [call EXCEPT ![c] = Resting] /\ (UNCHANGED todo \/ todo' = [todo EXCEPT ![c] = todo[c]] \/ todo' = [todo EXCEPT ![c] = <<>>])
  <2>1. call'[c] = Resting BY <1>2, <1>3
  <2>2. todo' = [todo EXCEPT ![c] = todo'[c]] /\ todo'[c] \in {todo[c], <<>>} BY <1>2, <1>3
  <2>3. Resting \in Calls /\ CallFits(Resting) BY <1>1, RestingFits
  <2>4. Resting.found = None /\ Resting.target = None /\ Resting.body = None /\ Resting.left = {} BY DEF Resting
  <2>5. QED BY <1>3, <2>1, <2>2, <2>3, <2>4 DEF Ended
<1>4. CASE Salvaging(c) /\ Resume(c)
  <2>1. PICK r : r = call[c] OBVIOUS
  <2>2. PICK d : d = Call("salvage", r.req, r.stage, r.want, None, None, None, r.left, r.key) OBVIOUS
  <2>3. With(r, [at |-> "salvage", found |-> None, target |-> None, body |-> None]) = d
    BY <1>1, <2>1, <2>2, WithNothing
  <2>4. call' = [call EXCEPT ![c] = d] /\ call'[c] = d /\ UNCHANGED todo
    BY <1>2, <1>4, <2>1, <2>3 DEF Resume, Work
  <2>5. r.req # None /\ r.req.op = "rmdir" BY <1>1, <1>4, <2>1 DEF Salvaging, Op, CallFits, RestFits
  <2>6. d \in Calls BY <1>1, <2>1, <2>2 DEF Calls, Call, Stages, Maybe
  <2>7. d.at = "salvage" /\ d.req = r.req /\ d.found = None /\ d.target = None /\ d.body = None /\ d.left = r.left
        /\ d.stage = r.stage /\ d.want = r.want
    BY <2>2 DEF Call
  <2>8. CallFits(d) BY <2>5, <2>7 DEF CallFits, SeekFits, FoundFits, OpenFits, SaveFits, RestFits
  <2>9. todo' = [todo EXCEPT ![c] = todo'[c]] /\ todo'[c] = todo[c] BY <1>2, <2>4
  <2>10. QED BY <2>1, <2>4, <2>5, <2>6, <2>7, <2>8, <2>9 DEF Ended, Op
<1>5. QED BY <1>3, <1>4 DEF Finish, Return, Fail, Error

(* The handle a client may have after a step.                              *)
GoodHandle(c) ==
  /\ handle' = [handle EXCEPT ![c] = handle'[c]]
  /\ handle'[c] \in FileHandles' \cup ScratchHandles \cup {None}
  /\ handle'[c] # None /\ handle'[c].kind = "scratch" => InScratch(handle'[c].place)

LEMMA SameHandle ==
  ASSUME Typed, Grows, NEW c \in Clients, handle' = handle
  PROVE  GoodHandle(c)
<1>1. HandleFits(c) /\ written \in Nat BY ClientTypes
<1>2. FileHandles \subseteq FileHandles' BY <1>1, CallsGrow DEF FileHandles
<1>3. handle' = [handle EXCEPT ![c] = handle'[c]] BY DEF Typed
<1>4. QED BY <1>1, <1>2, <1>3 DEF GoodHandle, HandleFits

LEMMA EndedFits ==
  ASSUME Typed, Grows, NEW c \in Clients, call[c].at # "idle", Ended(c), GoodHandle(c),
         handle'[c] # None => handle[c] # None \/ Op(c) = "open"
  PROVE  Only(c) /\ ClientOk(c)'
<1>1. written \in Nat BY ClientTypes
<1>2. call'[c] \in Calls' BY <1>1, CallsGrow DEF Ended
<1>3. \A h : Known(h, call'[c].found) /\ Known(h, call'[c].target) BY DEF Ended, Known, Has
<1>4. CallOk(c)' BY <1>2, <1>3 DEF Ended, CallOk
<1>5. \A op \in {"open", "flush"} : ~Doing(c, op)'
  <2>1. CASE call'[c] = Resting BY <2>1 DEF Doing, Resting
  <2>2. CASE call'[c].req = call[c].req /\ Op(c) = "rmdir" BY <2>2 DEF Doing, Op
  <2>3. QED BY <2>1, <2>2 DEF Ended
<1>6. SendsWell(c)'
  <2>1. todo'[c] \in {todo[c], <<>>} BY DEF Ended
  <2>2. handle'[c] # None => handle[c] # None \/ Doing(c, "open") BY DEF Doing
  <2>3. QED BY <1>5, <2>1, <2>2, SendsOn
<1>7. HandleFits(c)' BY <1>5 DEF GoodHandle, HandleFits
<1>8. QED BY <1>4, <1>6, <1>7 DEF ClientOk, Only, Ended, GoodHandle

(* A request that goes on.                                                 *)
Worked(c) ==
  /\ call' = [call EXCEPT ![c] = call'[c]] /\ call'[c] \in Calls /\ CallFits(call'[c])
  /\ call[c].at # "idle" /\ call'[c].at # "idle" /\ call'[c].req = call[c].req
  /\ todo' = todo /\ handle' = handle
  /\ call'[c].left \subseteq call[c].left /\ (Op(c) \in {"flush", "close"} => call'[c].body = call[c].body)

LEMMA WorkedFits ==
  ASSUME Typed, Grows, NEW c \in Clients, Worked(c), Known(hist', call'[c].found), Known(hist', call'[c].target)
  PROVE  Only(c) /\ ClientOk(c)'
<1>1. written \in Nat /\ HandleFits(c) /\ SendsWell(c) BY ClientTypes
<1>2. CallOk(c)' BY <1>1, CallsGrow DEF Worked, CallOk
<1>3. \A op : Doing(c, op)' <=> Doing(c, op) BY DEF Worked, Doing, Op
<1>4. SendsWell(c)' BY <1>1, <1>3 DEF SendsWell, Worked
<1>5. HandleFits(c)'
  <2>1. GoodHandle(c) BY SameHandle DEF Worked
  <2>2. QED BY <1>1, <1>3, <2>1 DEF HandleFits, GoodHandle, Worked, Doing, Op, Pending, Existing
<1>6. Only(c) BY DEF Only, Worked, Typed
<1>7. QED BY <1>2, <1>4, <1>5, <1>6 DEF ClientOk

-----------------------------------------------------------------------------
(* Looking for a file.                                                     *)

Fetched(copy) == copy = None \/ \E i \in Ids : file[i] # None /\ copy = [id |-> i, row |-> file[i]]
Suits(n, i) == file[i] # None /\ (n.id # None \/ file[i].name = n)
(* The call goes on with what it had; starts to save an entry for which    *)
(* there is a file; or has a copy more in hand.                            *)
Same(d, r) == d.found = r.found /\ d.target = r.target /\ d.body = r.body /\ d.stage = r.stage
Starts(d, r) ==
  /\ r.stage = "check" /\ d.stage = "fold" /\ r.key \in DOMAIN scratch /\ d.body = scratch[r.key]
  /\ d.found = r.found /\ d.target = r.target
  /\ \E i \in Ids : Suits(r.want, i)
Finds(d, r) ==
  /\ d.body = r.body /\ d.stage = r.stage /\ d.at = "found"
  /\ \/ r.stage = "from" /\ d.target = r.target /\ Fetched(d.found)
     \/ r.stage # "from" /\ d.found = r.found /\ Fetched(d.target)
Looked(c) ==
  /\ Worked(c) /\ call'[c].want = call[c].want
  /\ call'[c].at \in {"byId", "byName", "byEmbedded", "found", "salvage"}
  /\ Same(call'[c], call[c]) \/ Starts(call'[c], call[c]) \/ Finds(call'[c], call[c])
  /\ UNCHANGED <<file, hist, memory, written, faults, failed, overlapped, lastOf, lost, sidecar>>
  /\ missed' \in BOOLEAN

LEMMA FetchedKnown ==
  ASSUME FilesOk, NEW copy, Fetched(copy)
  PROVE  /\ copy \in Maybe(Copies) /\ Known(hist, copy)
         /\ copy # None => Has(copy) /\ \E i \in Ids : file[i] # None /\ copy.id = i /\ copy.row = file[i]
  BY NoneOther DEF Fetched, FilesOk, Copies, Maybe, Known, Has

LEMMA FoundDoes ==
  ASSUME Typed, NEW c \in Clients, call[c].at \in {"byId", "byName", "byEmbedded"},
         NEW i \in Maybe(Ids), i # None => Suits(call[c].want, i), Found(c, i)
  PROVE  Looked(c)
<1>1. /\ call[c] \in Calls /\ CallFits(call[c]) /\ MemoryOk /\ FilesOk /\ HistoryOk /\ DOMAIN call = Clients
      /\ handle' = handle /\ todo' = todo
  BY ClientTypes DEF Typed, Found
<1>2. PICK r : r = call[c] OBVIOUS
<1>3. PICK copy : copy = IF i = None THEN None ELSE [id |-> i, row |-> file[i]] OBVIOUS
<1>4. Fetched(copy) /\ copy \in Maybe(Copies) /\ (copy = None \/ Has(copy)) /\ (copy # None => \E j \in Ids : Suits(r.want, j))
  <2>1. Fetched(copy) /\ (copy # None => \E j \in Ids : Suits(r.want, j)) BY <1>2, <1>3 DEF Fetched, Suits, Maybe
  <2>2. QED BY <1>1, <2>1, FetchedKnown
<1>5. r \in Calls /\ CallFits(r) /\ SeekFits(r) /\ RestFits(r) /\ r.want # None /\ r.req # None
  BY <1>1, <1>2 DEF CallFits, SeekFits, RestFits
<1>6. ASSUME NEW d, call' = [call EXCEPT ![c] = d],
             d \in Calls /\ d.req = r.req /\ d.want = r.want,
             d.at \in {"byId", "byName", "byEmbedded", "found", "salvage"},
             CallFits(d), Same(d, r) \/ Starts(d, r) \/ Finds(d, r),
             d.left = r.left, r.req.op \in {"flush", "close"} => d.body = r.body
      PROVE  Looked(c)
  <2>1. call'[c] = d BY <1>1, <1>6
  <2>2. call[c].at # "idle" /\ d.at # "idle" BY <1>6
  <2>3. Worked(c) BY <1>1, <1>2, <1>6, <2>1, <2>2 DEF Worked, Op
  <2>4. /\ UNCHANGED <<file, hist, memory, written, faults, failed, overlapped, lastOf, lost, sidecar>>
        /\ missed' \in BOOLEAN
    BY <1>1 DEF Found, HistoryOk
  <2>5. QED BY <1>2, <1>6, <2>1, <2>3, <2>4 DEF Looked
<1>7. CASE r.stage = "from" /\ Work(c, [at |-> "found", found |-> copy])
  <2>1. PICK d : d = Call("found", r.req, r.stage, r.want, copy, r.target, r.body, r.left, r.key) OBVIOUS
  <2>2. call' = [call EXCEPT ![c] = d] BY <1>2, <1>5, <1>7, <2>1, WithFound DEF Work
  <2>3. d \in Calls BY <1>4, <1>5, <2>1 DEF Calls, Call, Stages, Maybe
  <2>4. CallFits(d)
    <3>1. Named(r) /\ r.body = None /\ r.target = None
      BY <1>2, <1>5, <1>7 DEF SeekFits, Onto, Checking, Folding
    <3>2. QED BY <1>4, <1>5, <1>7, <2>1, <3>1
            DEF Call, CallFits, SeekFits, FoundFits, OpenFits, SaveFits, RestFits, Named
  <2>5. Finds(d, r) BY <1>4, <1>7, <2>1 DEF Finds, Call
  <2>6. QED BY <1>6, <2>1, <2>2, <2>3, <2>4, <2>5 DEF Call
<1>8. CASE r.stage \in {"to", "fold"} /\ Work(c, [at |-> "found", target |-> copy])
  <2>1. PICK d : d = Call("found", r.req, r.stage, r.want, r.found, copy, r.body, r.left, r.key) OBVIOUS
  <2>2. call' = [call EXCEPT ![c] = d] BY <1>2, <1>5, <1>8, <2>1, WithTarget DEF Work
  <2>3. d \in Calls BY <1>4, <1>5, <2>1 DEF Calls, Call, Stages, Maybe
  <2>4. CallFits(d)
    <3>1. (Onto(r) /\ r.want = r.req.to.file) \/ Folding(r)
      BY <1>2, <1>5, <1>8 DEF SeekFits, Checking
    <3>2. (Onto(d) /\ d.want = d.req.to.file) \/ Folding(d)
      BY <2>1, <3>1 DEF Call, Onto, Folding
    <3>3. QED BY <1>4, <1>5, <1>8, <2>1, <3>1, <3>2
            DEF Call, CallFits, SeekFits, FoundFits, OpenFits, SaveFits, RestFits, Onto, Folding
  <2>5. Finds(d, r) BY <1>4, <1>8, <2>1 DEF Finds, Call
  <2>6. QED BY <1>6, <2>1, <2>2, <2>3, <2>4, <2>5 DEF Call
<1>9. CASE r.stage = "check" /\ copy # None /\ r.key \in DOMAIN scratch /\ Work(c, StartFold(r.key, r.want))
  <2>1. PICK b : b = scratch[r.key] OBVIOUS
  <2>2. PICK a : a = IF r.want.id = None THEN "byName" ELSE "byId" OBVIOUS
  <2>3. PICK d : d = Call(a, r.req, "fold", r.want, r.found, r.target, b, r.left, r.key) OBVIOUS
  <2>4. With(r, StartFold(r.key, r.want)) = d
    <3>1. PICK n : n = r.want OBVIOUS
    <3>2. PICK k : k = r.key OBVIOUS
    <3>3. a = IF n.id = None THEN "byName" ELSE "byId" BY <2>2, <3>1
    <3>4. With(r, With(Seek(n, "fold"), [key |-> k, body |-> b])) =
            Call(a, r.req, "fold", n, r.found, r.target, b, r.left, k)
      BY <1>5, <3>3, WithSeekFold
    <3>5. PICK e : e = With(Seek(n, "fold"), [key |-> k, body |-> b]) OBVIOUS
    <3>6. With(r, e) = Call(a, r.req, "fold", n, r.found, r.target, b, r.left, k) BY Zenon, <3>4, <3>5
    <3>7. With(r, e) = d BY <2>3, <3>1, <3>2, <3>6
    <3>8. StartFold(r.key, r.want) = e BY <2>1, <3>1, <3>2, <3>5 DEF StartFold
    <3>9. QED BY <3>7, <3>8
  <2>5. call' = [call EXCEPT ![c] = d] BY <1>2, <1>9, <2>4 DEF Work
  <2>6. b \in Contents /\ b # None /\ a \in {"byId", "byName"}
    BY <1>1, <1>9, <2>1, <2>2, NoneOther DEF MemoryOk, FilesOk, Contents
  <2>7. d \in Calls BY <1>5, <2>3, <2>6 DEF Calls, Call, Stages, Maybe
  <2>8. Checking(r) BY <1>2, <1>5, <1>9 DEF SeekFits, Onto, Folding
  <2>9. Folding(d) BY <2>3, <2>6, <2>8 DEF Folding, Checking, Call
  <2>10. CallFits(d)
    BY <1>5, <2>2, <2>3, <2>6, <2>8, <2>9
       DEF Call, CallFits, SeekFits, FoundFits, OpenFits, SaveFits, RestFits, Checking
  <2>11. Starts(d, r) BY <1>4, <1>9, <2>1, <2>3 DEF Starts, Call
  <2>12. r.req.op = "rmdir" BY <2>8 DEF Checking
  <2>13. QED BY <1>6, <2>3, <2>5, <2>6, <2>7, <2>10, <2>11, <2>12 DEF Call
<1>10. CASE r.stage = "check" /\ Work(c, [at |-> "salvage"])
  <2>1. PICK d : d = Call("salvage", r.req, r.stage, r.want, r.found, r.target, r.body, r.left, r.key) OBVIOUS
  <2>2. call' = [call EXCEPT ![c] = d] BY <1>2, <1>5, <1>10, <2>1, WithAt DEF Work
  <2>3. d \in Calls BY <1>5, <2>1 DEF Calls, Call, Stages, Maybe
  <2>4. Checking(r) BY <1>2, <1>5, <1>10 DEF SeekFits, Onto, Folding
  <2>5. CallFits(d)
    BY <1>5, <2>1, <2>4 DEF Call, CallFits, SeekFits, FoundFits, OpenFits, SaveFits, RestFits, Checking
  <2>6. Same(d, r) BY <2>1 DEF Same, Call
  <2>7. QED BY <1>6, <2>1, <2>2, <2>3, <2>5, <2>6 DEF Call
<1>11. QED BY <1>2, <1>3, <1>7, <1>8, <1>9, <1>10 DEF Found

LEMMA LooksDoes ==
  ASSUME Typed, NEW c \in Clients, FindById(c) \/ FindByName(c) \/ FindEmbedded(c)
  PROVE  Looked(c)
<1>1. /\ call[c] \in Calls /\ CallFits(call[c]) /\ MemoryOk /\ FilesOk /\ HistoryOk /\ DOMAIN call = Clients
  BY ClientTypes DEF Typed
<1>2. PICK r : r = call[c] OBVIOUS
<1>3. r \in Calls /\ CallFits(r) /\ SeekFits(r) /\ RestFits(r) BY <1>1, <1>2 DEF CallFits
<1>4. r.at \in {"byId", "byName", "byEmbedded"} BY <1>2 DEF FindById, FindByName, FindEmbedded
<1>5. r.want \in Names /\ r.want.id \in Maybe(Ids) /\ r.req # None
  BY <1>3, <1>4 DEF SeekFits, RestFits, Calls, Maybe, Names
<1>6. ASSUME NEW a \in {"byName", "byEmbedded"}, Work(c, [at |-> a]), UNCHANGED todo, r.at # "byEmbedded",
             a = "byEmbedded" => r.stage \in {"check", "fold"} /\ r.want.id # None,
             UNCHANGED <<file, hist, memory, handle, todo, written, faults, history>>
      PROVE  Looked(c)
  <2>1. PICK d : d = Call(a, r.req, r.stage, r.want, r.found, r.target, r.body, r.left, r.key) OBVIOUS
  <2>2. call' = [call EXCEPT ![c] = d] BY <1>2, <1>3, <1>6, <2>1, WithAt DEF Work
  <2>3. d \in Calls BY <1>3, <2>1 DEF Calls, Call, Stages, Maybe
  <2>4. CallFits(d)
    BY <1>3, <1>4, <1>6, <2>1
       DEF Call, CallFits, SeekFits, FoundFits, OpenFits, SaveFits, RestFits, Checking, Folding, Onto, Named
  <2>5. Same(d, r) /\ d.at = a /\ d.req = r.req /\ d.want = r.want /\ d.left = r.left BY <2>1 DEF Same, Call
  <2>6. call'[c] = d BY <1>1, <2>2
  <2>7. Worked(c) BY <1>2, <1>4, <1>6, <2>2, <2>3, <2>4, <2>5, <2>6 DEF Worked, Same
  <2>8. missed' \in BOOLEAN BY <1>1, <1>6 DEF history, HistoryOk
  <2>9. QED BY <1>2, <1>6, <2>5, <2>6, <2>7, <2>8 DEF Looked, memory, history
<1>7. CASE FindById(c)
  <2>1. PICK i : i = r.want.id OBVIOUS
  <2>2. i # None BY <1>2, <1>3, <1>7, <2>1 DEF FindById, SeekFits
  <2>3. ASSUME IsLive(i), Found(c, i) PROVE Looked(c)
    <3>1. Suits(r.want, i) BY <2>1, <2>2, <2>3 DEF IsLive, Suits
    <3>2. QED BY <1>2, <1>4, <1>5, <2>1, <2>3, <3>1, FoundDoes
  <2>4. ASSUME Work(c, [at |-> "byName"]), UNCHANGED <<file, hist, memory, handle, todo, written, faults, history>> PROVE Looked(c)
    BY <1>2, <1>6, <1>7, <2>4 DEF FindById
  <2>5. QED BY <1>2, <1>7, <2>1, <2>3, <2>4 DEF FindById
<1>8. CASE FindByName(c)
  <2>1. ASSUME NEW i \in Ids, IsLive(i), file[i].name = r.want, Found(c, i) PROVE Looked(c)
    <3>1. Suits(r.want, i) BY <2>1 DEF IsLive, Suits
    <3>2. QED BY <1>2, <1>4, <2>1, <3>1, FoundDoes DEF Maybe
  <2>2. ASSUME Found(c, None) PROVE Looked(c)
    BY <1>2, <1>4, <2>2, FoundDoes DEF Maybe
  <2>3. ASSUME r.stage \in {"check", "fold"}, r.want.id # None, Work(c, [at |-> "byEmbedded"]),
               UNCHANGED <<file, hist, memory, handle, todo, written, faults, history>>
        PROVE  Looked(c)
    BY <1>2, <1>6, <1>8, <2>3 DEF FindByName
  <2>4. QED BY <1>2, <1>8, <2>1, <2>2, <2>3 DEF FindByName
<1>9. CASE FindEmbedded(c)
  <2>1. PICK i : i = IF file[r.want.id] = None THEN None ELSE r.want.id OBVIOUS
  <2>2. r.want.id # None BY <1>2, <1>3, <1>9 DEF FindEmbedded, SeekFits
  <2>3. i \in Maybe(Ids) /\ (i # None => Suits(r.want, i)) /\ Found(c, i)
    BY <1>2, <1>5, <1>9, <2>1, <2>2 DEF FindEmbedded, Suits, Maybe
  <2>4. QED BY <1>2, <1>4, <2>3, FoundDoes
<1>10. QED BY <1>7, <1>8, <1>9

-----------------------------------------------------------------------------
(* Files, memory and history after a step.                                 *)

LEMMA EndedStep ==
  ASSUME Typed, NEW c \in Clients, call[c].at # "idle", Ended(c), FilesOk', MemoryOk', HistoryOk', Grows,
         GoodHandle(c), handle'[c] # None => handle[c] # None \/ Op(c) = "open"
  PROVE  Typed'
  BY EndedFits, ClientStep

LEMMA WorkedStep ==
  ASSUME Typed, NEW c \in Clients, Worked(c), FilesOk', MemoryOk', HistoryOk', Grows,
         Known(hist', call'[c].found), Known(hist', call'[c].target)
  PROVE  Typed'
  BY WorkedFits, ClientStep

LEMMA ContentFits ==
  ASSUME Typed, NEW i \in Ids, file[i] # None
  PROVE  file[i] \in Rows /\ Content(i) \in Contents /\ Content(i) # None /\ Content(i) \in Nat
<1>1. file[i] \in Rows /\ file[i].head \in 1..Len(hist[i]) /\ hist[i] \in Seq(Contents) /\ written \in Nat
  BY DEF Typed, FilesOk, Maybe
<1>2. Content(i) \in Contents BY <1>1 DEF Content
<1>3. Content(i) \in Nat BY <1>1, <1>2 DEF Contents
<1>4. QED BY <1>1, <1>2, <1>3, NoneOther

LEMMA FilesKept ==
  ASSUME Typed, UNCHANGED <<file, hist, written>>
  PROVE  FilesOk' /\ Grows /\ Contents' = Contents
<1>1. FilesOk' /\ Contents' = Contents BY DEF Typed, FilesOk, Contents, Maybe, Rows
<1>2. Grows
  <2>1. written' \in Nat /\ written <= written' BY DEF Typed, FilesOk
  <2>2. ASSUME NEW i \in Ids PROVE Len(hist[i]) <= Len(hist'[i])
    <3>1. hist[i] \in Seq(Contents) BY DEF Typed, FilesOk
    <3>2. Len(hist[i]) \in Nat BY <3>1
    <3>3. QED BY <3>2
  <2>3. QED BY <2>1, <2>2 DEF Grows
<1>3. QED BY <1>1, <1>2

LEMMA RowFits ==
  ASSUME Typed, NEW c \in Clients, NEW i \in Ids, NEW row \in Rows, row.head \in 1..Len(hist[i]),
         WriteRow(c, i, row), UNCHANGED <<hist, written>>
  PROVE  FilesOk' /\ Grows /\ Contents' = Contents /\ overlapped' \subseteq Ids
<1>1. FilesOk /\ HistoryOk BY DEF Typed
<1>2. file' = [file EXCEPT ![i] = row] /\ overlapped' \in {overlapped, overlapped \cup {i}} BY DEF WriteRow
<1>3. overlapped' \subseteq Ids BY <1>1, <1>2 DEF HistoryOk
<1>4. Contents' = Contents BY DEF Contents
<1>5. FilesOk' BY <1>1, <1>2, <1>4 DEF FilesOk, Maybe, Rows
<1>6. Grows
  <2>1. ASSUME NEW j \in Ids PROVE Len(hist[j]) <= Len(hist'[j])
    <3>1. hist[j] \in Seq(Contents) BY <1>1 DEF FilesOk
    <3>2. Len(hist[j]) \in Nat BY <3>1
    <3>3. QED BY <3>2
  <2>2. QED BY <1>1, <2>1 DEF Grows, FilesOk
<1>7. QED BY <1>3, <1>4, <1>5, <1>6

(* hist[i] gets one content more, and the row to go with it.               *)
LEMMA AppendFits ==
  ASSUME Typed, NEW i \in Ids, NEW k \in Contents, NEW row \in Rows, NEW h \in Seq(Contents),
         Len(hist[i]) <= Len(h), row.head \in 1..Len(h),
         file' = [file EXCEPT ![i] = row], hist' = [hist EXCEPT ![i] = h], UNCHANGED written
  PROVE  FilesOk' /\ Grows /\ Contents' = Contents
<1>1. FilesOk BY DEF Typed
<1>2. Contents' = Contents BY DEF Contents
<1>3. FilesOk' BY <1>1, <1>2 DEF FilesOk, Maybe, Rows
<1>4. Grows
  <2>1. ASSUME NEW j \in Ids PROVE Len(hist[j]) <= Len(hist'[j])
    <3>1. hist[j] \in Seq(Contents) BY <1>1 DEF FilesOk
    <3>2. Len(hist[j]) \in Nat BY <3>1
    <3>3. CASE j = i BY <1>1, <3>3 DEF FilesOk
    <3>4. CASE j # i BY <1>1, <3>2, <3>4 DEF FilesOk
    <3>5. QED BY <3>3, <3>4
  <2>2. QED BY <1>1, <2>1 DEF Grows, FilesOk
<1>5. QED BY <1>2, <1>3, <1>4

LEMMA MemoryKept ==
  ASSUME Typed, Grows, scratch' = scratch, dirs' \subseteq Dirs
  PROVE  MemoryOk'
<1>1. Contents \subseteq Contents' BY CallsGrow DEF Typed, FilesOk
<1>2. QED BY <1>1 DEF Typed, MemoryOk

LEMMA MemoryRemoved ==
  ASSUME Typed, Grows, NEW S, scratch' = [q \in DOMAIN scratch \ S |-> scratch[q]], dirs' \subseteq Dirs
  PROVE  MemoryOk'
<1>1. Contents \subseteq Contents' BY CallsGrow DEF Typed, FilesOk
<1>2. QED BY <1>1 DEF Typed, MemoryOk

LEMMA MemoryInserted ==
  ASSUME Typed, Grows, NEW p \in Paths, InScratch(p), NEW k \in Contents', Insert(p, k), dirs' \subseteq Dirs
  PROVE  MemoryOk'
<1>1. Contents \subseteq Contents' BY CallsGrow DEF Typed, FilesOk
<1>2. DOMAIN scratch' = DOMAIN scratch \cup {p} BY DEF Insert, With
<1>3. ASSUME NEW q \in DOMAIN scratch' PROVE scratch'[q] \in Contents'
  BY <1>1, <1>3 DEF Insert, With, Typed, MemoryOk
<1>4. scratch' = [q \in DOMAIN scratch' |-> scratch'[q]] BY DEF Insert, With
<1>5. QED BY <1>2, <1>3, <1>4 DEF Typed, MemoryOk

LEMMA HeldFits ==
  ASSUME Typed, NEW p
  PROVE  Held(p) \subseteq Contents
  BY DEF Typed, MemoryOk, Held

LEMMA DroppedFits ==
  ASSUME Typed, Grows, NEW S, S \subseteq Maybe(Contents), Dropped(S)
  PROVE  lost' \subseteq Contents'
<1>1. Contents \subseteq Contents' BY CallsGrow DEF Typed, FilesOk
<1>2. QED BY <1>1 DEF Typed, HistoryOk, Dropped, Maybe

LEMMA HistoryKept ==
  ASSUME Typed, Grows, failed' \in {failed} \cup {failed \cup {c} : c \in Clients}, missed' = missed,
         overlapped' \subseteq Ids, lost' \subseteq Contents', sidecar' = sidecar, faults' \in 0..MaxFaults
  PROVE  HistoryOk'
<1>1. Contents \subseteq Contents' BY CallsGrow DEF Typed, FilesOk
<1>2. QED BY <1>1 DEF Typed, HistoryOk

LEMMA QuietFits ==
  ASSUME Typed, UNCHANGED <<file, hist, written, dirs, scratch, faults, overlapped, lost, sidecar>>,
         failed' \in {failed} \cup {failed \cup {c} : c \in Clients}, missed' \in BOOLEAN
  PROVE  FilesOk' /\ MemoryOk' /\ HistoryOk' /\ Grows /\ Contents' = Contents
<1>1. FilesOk' /\ Grows /\ Contents' = Contents BY FilesKept
<1>2. dirs' \subseteq Dirs BY DEF Typed, MemoryOk
<1>3. MemoryOk' BY <1>1, <1>2, MemoryKept
<1>4. HistoryOk' BY <1>1 DEF Typed, HistoryOk
<1>5. QED BY <1>1, <1>3, <1>4

LEMMA FailEnds ==
  ASSUME Typed, NEW c \in Clients, call[c].at # "idle", Fail(c)
  PROVE  Ended(c) /\ failed' = failed \cup {c}
<1>1. Ended(c) BY EndsWell
<1>2. failed' = failed \cup {c} BY DEF Fail, Error
<1>3. QED BY <1>1, <1>2

(* What is known of a call when it is found.                               *)
LEMMA CallTypes ==
  ASSUME Typed, NEW c \in Clients
  PROVE  /\ call[c].req \in Maybe(Requests) /\ call[c].want \in Maybe(Names) /\ call[c].found \in Maybe(Copies)
         /\ call[c].target \in Maybe(Copies) /\ call[c].body \in Maybe(Contents) /\ call[c].left \subseteq Paths
         /\ call[c].key \in Maybe(Paths) /\ (call[c].at # "idle" => call[c].req # None /\ call[c].req \in Requests)
         /\ SeekFits(call[c]) /\ FoundFits(call[c]) /\ OpenFits(call[c]) /\ SaveFits(call[c]) /\ RestFits(call[c])
<1>1. call[c] \in Calls /\ CallFits(call[c]) BY ClientTypes
<1>2. RestFits(call[c]) BY <1>1 DEF CallFits
<1>3. call[c].at # "idle" => call[c].req # None BY <1>2 DEF RestFits
<1>4. QED BY <1>1, <1>3 DEF CallFits, Calls, Maybe

LEMMA CopyTypes ==
  ASSUME NEW copy \in Copies
  PROVE  copy.id \in Ids /\ copy.row \in Maybe(Rows) /\ (Has(copy) => copy.row \in Rows)
  BY DEF Copies, Maybe, Has

(* A call that a client begins is over with what it began: a helper of all *)
(* the steps below that only change the call.                              *)
LEMMA MovesOn ==
  ASSUME Typed, NEW c \in Clients, NEW d, call' = [call EXCEPT ![c] = d], d \in Calls, CallFits(d),
         call[c].at # "idle", d.at # "idle", d.req = call[c].req, UNCHANGED <<todo, handle>>,
         d.left \subseteq call[c].left, Op(c) \in {"flush", "close"} => d.body = call[c].body
  PROVE  Worked(c) /\ call'[c] = d
<1>1. call'[c] = d BY DEF Typed
<1>2. QED BY <1>1 DEF Worked

-----------------------------------------------------------------------------
(* Opening a file.                                                         *)

LEMMA OpenNewDoes ==
  ASSUME Typed, NEW c \in Clients, OpenNew(c)
  PROVE  /\ Ended(c) /\ GoodHandle(c) /\ Grows /\ FilesOk' /\ MemoryOk' /\ HistoryOk'
         /\ handle'[c] \in {handle[c], NewFile(call[c].req.path.file)}
<1>1. /\ FilesOk' /\ MemoryOk' /\ HistoryOk' /\ Grows /\ Contents' = Contents
  <2>1. failed' \in {failed, failed \cup {c}} BY FailEnds DEF OpenNew
  <2>2. UNCHANGED <<file, hist, written, dirs, scratch, faults, overlapped, lost, sidecar>> /\ missed' \in BOOLEAN
    BY DEF OpenNew, memory, Typed, HistoryOk
  <2>3. QED BY <2>1, <2>2, QuietFits
<1>2. Ended(c) BY EndsWell DEF OpenNew
<1>3. CASE handle' = handle BY <1>1, <1>2, <1>3, SameHandle
<1>4. CASE handle' = [handle EXCEPT ![c] = NewFile(call[c].req.path.file)]
  <2>1. handle'[c] = NewFile(call[c].req.path.file) BY <1>4 DEF Typed
  <2>2. call[c].req \in Requests /\ call[c].req.op = "open" BY CallTypes DEF OpenNew, Op
  <2>3. call[c].req.path.file \in Names BY <2>2, RequestTypes, PathTypes
  <2>4. 0 \in Contents' BY <1>1 DEF Contents, Grows
  <2>5. handle'[c] \in FileHandles' /\ handle'[c].kind = "file" BY <2>1, <2>3, <2>4 DEF FileHandles, NewFile
  <2>6. GoodHandle(c) BY <1>4, <2>1, <2>5 DEF GoodHandle
  <2>7. QED BY <1>1, <1>2, <2>1, <2>6
<1>5. QED BY <1>3, <1>4 DEF OpenNew

LEMMA OpenReadDoes ==
  ASSUME Typed, NEW c \in Clients, OpenRead(c)
  PROVE  /\ Grows /\ FilesOk' /\ MemoryOk' /\ HistoryOk' /\ handle' = handle
         /\ \/ Ended(c)
            \/ /\ Worked(c) /\ file[call[c].found.id] # None /\ call[c].found.id \in Ids
               /\ call'[c].at = "opening" /\ call'[c].found = call[c].found /\ call'[c].target = None
               /\ call'[c].body = Content(call[c].found.id) /\ call'[c].stage = call[c].stage /\ call'[c].want = call[c].want
<1>1. FilesOk' /\ MemoryOk' /\ HistoryOk' /\ Grows
  <2>1. failed' \in {failed, failed \cup {c}} BY FailEnds DEF OpenRead
  <2>2. UNCHANGED <<file, hist, written, dirs, scratch, faults, overlapped, lost, sidecar>> /\ missed' \in BOOLEAN
    BY DEF OpenRead, memory, Typed, HistoryOk
  <2>3. QED BY <2>1, <2>2, QuietFits
<1>2. CASE Fail(c) BY <1>1, <1>2, FailEnds DEF OpenRead
<1>3. CASE /\ file[call[c].found.id] # None /\ Work(c, [at |-> "opening", body |-> Content(call[c].found.id)])
           /\ UNCHANGED todo
  <2>1. PICK r : r = call[c] OBVIOUS
  <2>2. PICK b : b = Content(r.found.id) OBVIOUS
  <2>3. PICK d : d = Call("opening", r.req, r.stage, r.want, r.found, r.target, b, r.left, r.key) OBVIOUS
  <2>4. r \in Calls /\ CallFits(r) /\ FoundFits(r) /\ r.at = "found" /\ r.req.op = "open" /\ r.req # None /\ r.found # None
    BY <2>1, ClientTypes, CallTypes DEF OpenRead, Op
  <2>5. Named(r) /\ r.want # None /\ r.target = None /\ Has(r.found)
    BY <2>4 DEF FoundFits, Onto, Folding
  <2>6. r.found.id \in Ids BY <2>4 DEF Calls, Copies, Maybe
  <2>7. b \in Contents /\ b # None BY <1>3, <2>1, <2>2, <2>6, ContentFits
  <2>8. d \in Calls BY <2>3, <2>4, <2>7 DEF Calls, Call, Stages, Maybe
  <2>9. CallFits(d)
    BY <2>3, <2>4, <2>5, <2>7 DEF Call, CallFits, SeekFits, FoundFits, OpenFits, SaveFits, RestFits, Named
  <2>10. call' = [call EXCEPT ![c] = d] BY <1>3, <2>1, <2>2, <2>3, <2>4, WithBody DEF Work
  <2>11. d.at = "opening" /\ d.req = r.req /\ d.found = r.found /\ d.target = r.target /\ d.body = b /\ d.stage = r.stage /\ d.want = r.want
        /\ d.left = r.left
    BY <2>3 DEF Call
  <2>12. Worked(c) /\ call'[c] = d
    BY <1>3, <2>1, <2>4, <2>8, <2>9, <2>10, <2>11, MovesOn DEF OpenRead, Op
  <2>13. QED BY <1>1, <1>3, <2>1, <2>2, <2>5, <2>6, <2>11, <2>12 DEF OpenRead
<1>4. QED BY <1>2, <1>3 DEF OpenRead

OpenedAs(r) ==
  [kind |-> "file", id |-> r.found.id, name |-> r.want, buf |-> IF Wipes(r.req.intent) THEN 0 ELSE r.body,
   dirty |-> Wipes(r.req.intent)]

LEMMA OpenedFits ==
  ASSUME Typed, NEW c \in Clients, call[c].at \in {"opening", "healing"}, Opened(c), Grows
  PROVE  Ended(c) /\ GoodHandle(c) /\ handle'[c] = OpenedAs(call[c]) /\ Op(c) = "open"
<1>1. PICK r : r = call[c] OBVIOUS
<1>2. /\ r.req.op = "open" /\ r.want \in Names /\ r.found \in Copies /\ r.body \in Contents
      /\ written \in Nat /\ written' \in Nat
  BY <1>1, CallTypes DEF OpenFits, Has, Maybe, Typed, FilesOk, Grows
<1>3. handle'[c] = OpenedAs(r) /\ handle' = [handle EXCEPT ![c] = OpenedAs(r)] BY <1>1 DEF Opened, OpenedAs, Typed
<1>4. r.found.id \in Ids BY <1>2, CopyTypes
<1>5. OpenedAs(r) \in FileHandles' /\ OpenedAs(r).kind = "file"
  <2>1. r.body \in Contents' /\ 0 \in Contents' BY <1>2, CallsGrow DEF Contents
  <2>2. QED BY <1>2, <1>4, <2>1 DEF OpenedAs, FileHandles, Wipes
<1>6. GoodHandle(c) BY <1>3, <1>5 DEF GoodHandle
<1>7. Ended(c) BY EndsWell DEF Opened
<1>8. QED BY <1>1, <1>2, <1>3, <1>6, <1>7 DEF Op

LEMMA OpenMetaDoes ==
  ASSUME Typed, NEW c \in Clients, OpenMeta(c)
  PROVE  /\ Grows /\ FilesOk' /\ MemoryOk' /\ HistoryOk' /\ Op(c) = "open"
         /\ UNCHANGED <<file, hist, written, memory, faults, failed, missed, overlapped, lastOf, lost, sidecar>>
         /\ \/ Ended(c) /\ GoodHandle(c) /\ handle'[c] = OpenedAs(call[c])
            \/ /\ Worked(c) /\ file[call[c].found.id] # None /\ call[c].found.id \in Ids
               /\ Known(hist', call'[c].found)
               /\ call'[c].found = [id |-> call[c].found.id, row |-> [file[call[c].found.id] EXCEPT !.size = call[c].body]]
               /\ call'[c].at = "healing" /\ call'[c].target = None
               /\ call'[c].body = call[c].body /\ call'[c].stage = call[c].stage /\ call'[c].want = call[c].want
<1>1. UNCHANGED <<file, hist, written, memory, faults, failed, missed, overlapped, lastOf, lost, sidecar>>
  BY DEF OpenMeta, history
<1>2. FilesOk' /\ MemoryOk' /\ HistoryOk' /\ Grows
  BY <1>1, QuietFits DEF memory, Typed, HistoryOk
<1>3. PICK r : r = call[c] OBVIOUS
<1>4. r \in Calls /\ CallFits(r) /\ OpenFits(r) /\ r.at = "opening"
  BY <1>3, ClientTypes, CallTypes DEF OpenMeta
<1>5. r.req.op = "open" /\ Named(r) /\ r.want # None /\ Has(r.found) /\ r.body # None /\ r.target = None /\ r.req # None
  BY <1>4 DEF OpenFits, CallFits, RestFits
<1>6. r.found \in Copies /\ r.found.id \in Ids /\ r.body \in Contents
  <2>1. r.found \in Copies /\ r.body \in Contents BY <1>4, <1>5 DEF Calls, Maybe, Has
  <2>2. QED BY <2>1, CopyTypes
<1>7. PICK row : row = file[r.found.id] OBVIOUS
<1>8. CASE Opened(c) BY <1>1, <1>2, <1>3, <1>4, <1>8, OpenedFits
<1>9. CASE /\ row # None /\ UNCHANGED <<handle, todo>>
           /\ Work(c, [at |-> "healing", found |-> [id |-> r.found.id, row |-> [row EXCEPT !.size = r.body]]])
  <2>1. PICK f : f = [id |-> r.found.id, row |-> [row EXCEPT !.size = r.body]] OBVIOUS
  <2>2. PICK d : d = Call("healing", r.req, r.stage, r.want, f, r.target, r.body, r.left, r.key) OBVIOUS
  <2>3. row \in Rows /\ row.head \in 1..Len(hist[r.found.id]) /\ r.body \in Nat
    BY <1>6, <1>7, <1>9 DEF Typed, FilesOk, Maybe, Contents
  <2>4. f.row \in Rows /\ f.id = r.found.id /\ f.row.head = row.head /\ f \in Copies
    BY <1>6, <2>1, <2>3 DEF Rows, Copies
  <2>5. Has(f) /\ Known(hist, f) BY <2>3, <2>4, NoneOther DEF Has, Known
  <2>6. d \in Calls BY <1>4, <2>2, <2>4 DEF Calls, Call, Stages, Maybe
  <2>7. d.at = "healing" /\ d.req = r.req /\ d.found = f /\ d.target = r.target /\ d.body = r.body /\ d.stage = r.stage
        /\ d.want = r.want /\ d.key = r.key /\ d.left = r.left
    BY <2>2 DEF Call
  <2>8. CallFits(d)
    BY <1>5, <2>5, <2>7 DEF CallFits, SeekFits, FoundFits, OpenFits, SaveFits, RestFits, Named
  <2>9. call' = [call EXCEPT ![c] = d] BY <1>3, <1>4, <1>9, <2>1, <2>2, WithFound DEF Work
  <2>10. Worked(c) /\ call'[c] = d BY <1>3, <1>4, <1>5, <1>9, <2>6, <2>7, <2>8, <2>9, MovesOn DEF Op
  <2>11. Known(hist', call'[c].found) BY <1>1, <2>5, <2>7, <2>10
  <2>12. QED BY <1>1, <1>2, <1>3, <1>5, <1>6, <1>7, <1>9, <2>1, <2>7, <2>10, <2>11 DEF Op
<1>10. Op(c) = "open" BY <1>3, <1>5 DEF Op
<1>11. QED BY <1>3, <1>7, <1>8, <1>9 DEF OpenMeta

LEMMA OpenHealDoes ==
  ASSUME Typed, NEW c \in Clients, OpenHeal(c)
  PROVE  /\ Grows /\ FilesOk' /\ MemoryOk' /\ HistoryOk'
         /\ Ended(c) /\ GoodHandle(c) /\ handle'[c] = OpenedAs(call[c]) /\ Op(c) = "open"
         /\ call[c].found.id \in Ids /\ Has(call[c].found) /\ call[c].found.row \in Rows
<1>1. PICK r : r = call[c] OBVIOUS
<1>2. r.at = "healing" /\ Has(r.found) /\ r.found \in Maybe(Copies) /\ Known(hist, r.found)
  BY <1>1, CallTypes, ClientTypes DEF OpenHeal, OpenFits
<1>3. r.found \in Copies /\ r.found.id \in Ids /\ r.found.row \in Rows /\ r.found.row.head \in 1..Len(hist[r.found.id])
  BY <1>2, CopyTypes DEF Maybe, Has, Known
<1>4. UNCHANGED <<hist, dirs, scratch, written, faults, failed, lost, sidecar, missed>> BY DEF OpenHeal, memory
<1>5. CASE UNCHANGED <<file, overlapped>>
  <2>1. FilesOk' /\ MemoryOk' /\ HistoryOk' /\ Grows BY <1>4, <1>5, QuietFits DEF Typed, HistoryOk
  <2>2. QED BY <1>1, <1>2, <1>3, <2>1, OpenedFits DEF OpenHeal
<1>6. CASE WriteRow(c, r.found.id, r.found.row)
  <2>1. FilesOk' /\ Grows /\ Contents' = Contents /\ overlapped' \subseteq Ids BY <1>3, <1>4, <1>6, RowFits
  <2>2. MemoryOk' BY <1>4, <2>1, MemoryKept DEF Typed, MemoryOk
  <2>3. HistoryOk' BY <1>4, <2>1 DEF Typed, HistoryOk
  <2>4. QED BY <1>1, <1>2, <1>3, <2>1, <2>2, <2>3, OpenedFits DEF OpenHeal
<1>7. QED BY <1>1, <1>5, <1>6 DEF OpenHeal

-----------------------------------------------------------------------------
(* Saving a content.                                                       *)

LEMMA UnscratchFits ==
  ASSUME Typed, Grows, NEW c \in Clients, Unscratch(c), dirs' = dirs
  PROVE  MemoryOk' /\ lost' \subseteq Contents'
<1>1. dirs' \subseteq Dirs /\ Contents \subseteq Contents' BY CallsGrow DEF Typed, MemoryOk, FilesOk
<1>2. CASE UNCHANGED <<scratch, lost>>
  BY <1>1, <1>2, MemoryKept DEF Typed, HistoryOk
<1>3. CASE Remove(call[c].key) /\ Dropped(Held(call[c].key) \ {call[c].body})
  <2>1. MemoryOk' BY <1>1, <1>3, MemoryRemoved DEF Remove
  <2>2. Held(call[c].key) \ {call[c].body} \subseteq Maybe(Contents) BY HeldFits DEF Maybe
  <2>3. QED BY <1>3, <2>1, <2>2, DroppedFits
<1>4. QED BY <1>2, <1>3 DEF Unscratch

NewRow(r) ==
  [name |-> IF r.req.op = "close" THEN r.want ELSE DisplayPart(r.want), deleted |-> FALSE, head |-> 1, size |-> r.body]

LEMMA DisplayFits == ASSUME NEW n \in Names PROVE DisplayPart(n) \in Names /\ Plain(n.text) \in Names
  BY DEF DisplayPart, Plain, Names

LEMMA CreateDoes ==
  ASSUME Typed, NEW c \in Clients, Create(c)
  PROVE  /\ Grows /\ FilesOk' /\ MemoryOk' /\ HistoryOk' /\ Ended(c) /\ handle' = handle
         /\ call[c].body \in Contents /\ call[c].body # None /\ call[c].want \in Names /\ Op(c) # "flush"
         /\ NewRow(call[c]) \in Rows
         /\ \E i \in Free : file' = [file EXCEPT ![i] = NewRow(call[c])] /\ hist' = [hist EXCEPT ![i] = <<call[c].body>>]
<1>1. PICK r : r = call[c] OBVIOUS
<1>2. r.at = "create" /\ r.body \in Contents /\ r.want \in Names /\ r.req # None /\ r.req.op # "flush"
      /\ r.body # None /\ r.body \in Nat
  <2>1. r.at = "create" /\ SaveFits(r) /\ r.body \in Maybe(Contents) /\ r.want \in Maybe(Names) /\ r.req # None
        /\ written \in Nat
    BY <1>1, CallTypes DEF Create, Typed, FilesOk
  <2>2. r.body # None /\ r.want # None /\ r.req.op # "flush" BY <2>1 DEF SaveFits, Folding
  <2>3. r.body \in Contents BY <2>1, <2>2 DEF Maybe
  <2>4. QED BY <2>1, <2>2, <2>3 DEF Maybe, Contents
<1>3. NewRow(r) \in Rows BY <1>2, DisplayFits DEF NewRow, Rows
<1>4. PICK i \in Free : file' = [file EXCEPT ![i] = NewRow(r)] /\ hist' = [hist EXCEPT ![i] = <<r.body>>]
  BY <1>1 DEF Create, NewRow, Op
<1>5. i \in Ids /\ hist[i] = <<>> BY <1>4 DEF Free
<1>6. FilesOk' /\ Grows /\ Contents' = Contents
  <2>1. PICK h : h = <<r.body>> OBVIOUS
  <2>2. h \in Seq(Contents) /\ Len(h) = 1 /\ Len(hist[i]) = 0 BY <1>2, <1>5, <2>1
  <2>3. NewRow(r).head = 1 BY DEF NewRow
  <2>4. NewRow(r).head \in 1..Len(h) /\ Len(hist[i]) <= Len(h) /\ written' = written BY <2>2, <2>3 DEF Create
  <2>5. QED BY <1>2, <1>3, <1>4, <1>5, <2>1, <2>2, <2>4, AppendFits
<1>7. MemoryOk' /\ lost' \subseteq Contents' BY <1>6, UnscratchFits DEF Create
<1>8. HistoryOk' BY <1>6, <1>7 DEF Create, Typed, HistoryOk
<1>9. Ended(c) /\ handle' = handle BY <1>1, <1>2, EndsWell DEF Create
<1>10. QED BY <1>1, <1>2, <1>3, <1>4, <1>6, <1>7, <1>8, <1>9 DEF Op

(* A request that fails, with what is lost with it.                        *)
LEMMA FailFits ==
  ASSUME Typed, NEW c \in Clients, call[c].at # "idle", Fail(c), NEW S, S \subseteq Maybe(Contents), Dropped(S),
         UNCHANGED <<file, hist, written, overlapped, sidecar, missed>>, faults' \in 0..MaxFaults,
         NEW p, dirs' = dirs /\ (scratch' = scratch \/ Remove(p))
  PROVE  Grows /\ FilesOk' /\ MemoryOk' /\ HistoryOk' /\ Ended(c)
<1>1. FilesOk' /\ Grows /\ Contents' = Contents BY FilesKept
<1>2. dirs' \subseteq Dirs BY DEF Typed, MemoryOk
<1>3. MemoryOk' BY <1>1, <1>2, MemoryKept, MemoryRemoved DEF Remove
<1>4. lost' \subseteq Contents' BY <1>1, DroppedFits
<1>5. Ended(c) /\ failed' = failed \cup {c} BY FailEnds
<1>6. HistoryOk' BY <1>1, <1>4, <1>5 DEF Typed, HistoryOk
<1>7. QED BY <1>1, <1>3, <1>5, <1>6

LEMMA BodyFits ==
  ASSUME Typed, NEW c \in Clients
  PROVE  (IF Op(c) = "close" THEN {call[c].body} ELSE {}) \subseteq Maybe(Contents)
  BY CallTypes

LEMMA CommitReadDoes ==
  ASSUME Typed, NEW c \in Clients, CommitRead(c)
  PROVE  /\ Grows /\ FilesOk' /\ MemoryOk' /\ HistoryOk' /\ handle' = handle
         /\ \/ Ended(c) /\ Dropped(IF Op(c) = "close" THEN {call[c].body} ELSE {})
            \/ /\ Worked(c) /\ call[c].target.id \in Ids /\ file[call[c].target.id] # None /\ Known(hist', call'[c].target)
               /\ call'[c].target = [id |-> call[c].target.id, row |-> file[call[c].target.id]]
               /\ call'[c].at = "append" /\ call'[c].found = call[c].found /\ call'[c].body = call[c].body
               /\ call'[c].stage = call[c].stage /\ call'[c].want = call[c].want /\ UNCHANGED lost
<1>1. PICK r : r = call[c] OBVIOUS
<1>2. r.at = "commit" /\ r \in Calls /\ SaveFits(r) /\ r.req # None /\ RestFits(r)
  BY <1>1, CallTypes, ClientTypes DEF CommitRead
<1>3. r.target # None /\ r.target \in Copies /\ r.target.id \in Ids
  <2>1. r.target # None BY <1>2 DEF SaveFits
  <2>2. r.target \in Copies BY <1>2, <2>1 DEF Calls, Maybe
  <2>3. QED BY <2>1, <2>2, CopyTypes
<1>4. UNCHANGED <<file, hist, dirs, scratch, handle, written, faults, overlapped, lastOf, sidecar, missed>>
      /\ faults' \in 0..MaxFaults
  BY DEF CommitRead, memory, Typed, HistoryOk
<1>5. CASE Fail(c) /\ Dropped(IF Op(c) = "close" THEN {call[c].body} ELSE {})
  BY <1>1, <1>2, <1>4, <1>5, FailFits, BodyFits
<1>6. CASE /\ file[r.target.id] # None /\ UNCHANGED <<todo, failed, lost>>
           /\ Work(c, [at |-> "append", target |-> [id |-> r.target.id, row |-> file[r.target.id]]])
  <2>1. PICK f : f = [id |-> r.target.id, row |-> file[r.target.id]] OBVIOUS
  <2>2. PICK d : d = Call("append", r.req, r.stage, r.want, r.found, f, r.body, r.left, r.key) OBVIOUS
  <2>3. Fetched(f) /\ f # None /\ FilesOk BY <1>3, <1>6, <2>1, NoneOther DEF Fetched, Typed, Copies, FilesOk, Maybe
  <2>4. f \in Maybe(Copies) /\ Known(hist, f) /\ Has(f) BY <2>3, FetchedKnown
  <2>5. d \in Calls BY <1>2, <2>2, <2>4 DEF Calls, Call, Stages, Maybe
  <2>6. d.at = "append" /\ d.req = r.req /\ d.found = r.found /\ d.target = f /\ d.body = r.body /\ d.stage = r.stage
        /\ d.want = r.want /\ d.key = r.key /\ d.left = r.left /\ f.id = r.target.id
    BY <2>1, <2>2 DEF Call
  <2>7. CallFits(d)
    <3>1. Onto(r) => Onto(d) BY <2>6 DEF Onto, Has
    <3>2. Folding(r) => Folding(d) BY <2>6 DEF Folding
    <3>3. SaveFits(d) BY <1>2, <2>3, <2>4, <2>6, <3>1, <3>2 DEF SaveFits
    <3>4. RestFits(d) BY <1>2, <2>6 DEF RestFits
    <3>5. QED BY <2>6, <3>3, <3>4 DEF CallFits, SeekFits, FoundFits, OpenFits
  <2>8. call' = [call EXCEPT ![c] = d] BY <1>1, <1>2, <1>6, <2>1, <2>2, WithTarget DEF Work
  <2>9. Worked(c) /\ call'[c] = d BY <1>1, <1>2, <1>4, <1>6, <2>5, <2>6, <2>7, <2>8, MovesOn
  <2>10. FilesOk' /\ MemoryOk' /\ HistoryOk' /\ Grows BY <1>4, <1>6, QuietFits DEF Typed, HistoryOk
  <2>11. Known(hist', call'[c].target) BY <1>4, <2>4, <2>6, <2>9
  <2>12. QED BY <1>1, <1>3, <1>4, <1>6, <2>1, <2>6, <2>9, <2>10, <2>11
<1>7. QED BY <1>1, <1>2, <1>5, <1>6 DEF CommitRead

Longer(r) == Append(hist[r.target.id], r.body)
HeadRow(r) == [r.target.row EXCEPT !.head = Len(Longer(r)), !.size = r.body]

LEMMA AppendTypes ==
  ASSUME Typed, NEW c \in Clients, call[c].at = "append"
  PROVE  /\ call[c].target \in Copies /\ call[c].target.id \in Ids /\ Has(call[c].target) /\ call[c].target.row \in Rows
         /\ call[c].body \in Contents /\ call[c].body # None /\ call[c].body \in Nat
         /\ Longer(call[c]) \in Seq(Contents) /\ Len(Longer(call[c])) = Len(hist[call[c].target.id]) + 1
         /\ Len(hist[call[c].target.id]) \in Nat
         /\ HeadRow(call[c]) \in Rows /\ HeadRow(call[c]).head = Len(Longer(call[c]))
         /\ HeadRow(call[c]).size = call[c].body /\ HeadRow(call[c]).name = call[c].target.row.name
<1>1. PICK r : r = call[c] OBVIOUS
<1>2. r.at = "append" /\ SaveFits(r) /\ r.body \in Maybe(Contents) /\ r.target \in Maybe(Copies) /\ written \in Nat
  BY <1>1, CallTypes DEF Typed, FilesOk
<1>3. r.target # None /\ Has(r.target) /\ r.body # None BY <1>2 DEF SaveFits, Folding
<1>4. r.target \in Copies /\ r.body \in Contents BY <1>2, <1>3 DEF Maybe
<1>5. r.target.id \in Ids /\ r.target.row \in Rows /\ r.body \in Nat BY <1>2, <1>3, <1>4, CopyTypes DEF Contents
<1>6. hist[r.target.id] \in Seq(Contents) BY <1>5 DEF Typed, FilesOk
<1>7. PICK s : s = hist[r.target.id] OBVIOUS
<1>8. PICK h : h = Append(s, r.body) OBVIOUS
<1>9. h \in Seq(Contents) /\ Len(h) = Len(s) + 1 /\ Len(h) \in Nat /\ Len(s) \in Nat BY <1>4, <1>6, <1>7, <1>8
<1>10. Longer(r) = h BY <1>7, <1>8 DEF Longer
<1>11. HeadRow(r) = [r.target.row EXCEPT !.head = Len(h), !.size = r.body] BY <1>10 DEF HeadRow
<1>12. /\ HeadRow(r) \in Rows /\ HeadRow(r).head = Len(h) /\ HeadRow(r).size = r.body
       /\ HeadRow(r).name = r.target.row.name
  BY <1>5, <1>9, <1>11 DEF Rows
<1>13. QED BY <1>1, <1>3, <1>4, <1>5, <1>7, <1>9, <1>10, <1>12

LEMMA CommitWriteDoes ==
  ASSUME Typed, NEW c \in Clients, CommitWrite(c)
  PROVE  /\ Grows /\ FilesOk' /\ MemoryOk' /\ HistoryOk' /\ call[c].at = "append"
         /\ \/ Fail(c) /\ Ended(c) /\ UNCHANGED <<file, hist, scratch, handle, overlapped>>
               /\ Dropped(IF Op(c) = "close" THEN {call[c].body} ELSE {})
            \/ /\ WriteRow(c, call[c].target.id, HeadRow(call[c])) /\ Unscratch(c) /\ file[call[c].target.id] # None
               /\ hist' = [hist EXCEPT ![call[c].target.id] = Longer(call[c])]
               /\ handle' = IF Op(c) = "flush" THEN [handle EXCEPT ![c].dirty = FALSE] ELSE handle
               /\ \/ Ended(c) /\ GoodHandle(c) /\ (handle'[c] # None => handle[c] # None)
                  \/ /\ Worked(c) /\ call'[c].at = "retire" /\ call'[c].found = call[c].found
                     /\ call'[c].target = call[c].target /\ call'[c].body = call[c].body /\ call[c].stage = "to"
                     /\ call'[c].stage = "to" /\ call'[c].want = call[c].want
<1>1. PICK r : r = call[c] OBVIOUS
<1>2. r.at = "append" /\ r \in Calls /\ SaveFits(r) /\ r.req # None /\ RestFits(r) /\ HandleFits(c)
  BY <1>1, CallTypes, ClientTypes DEF CommitWrite
<1>3. UNCHANGED <<dirs, written, faults, lastOf, sidecar, missed>> /\ faults' \in 0..MaxFaults
  BY DEF CommitWrite, Typed, HistoryOk
<1>4. CASE /\ Fail(c) /\ Dropped(IF Op(c) = "close" THEN {call[c].body} ELSE {})
           /\ UNCHANGED <<file, hist, scratch, handle, overlapped>>
  <2>1. Grows /\ FilesOk' /\ MemoryOk' /\ HistoryOk' /\ Ended(c) BY <1>1, <1>2, <1>3, <1>4, FailFits, BodyFits
  <2>2. QED BY <1>1, <1>2, <1>4, <2>1
<1>5. CASE /\ hist' = [hist EXCEPT ![r.target.id] = Longer(r)] /\ WriteRow(c, r.target.id, HeadRow(r))
           /\ handle' = (IF Op(c) = "flush" THEN [handle EXCEPT ![c].dirty = FALSE] ELSE handle)
           /\ Unscratch(c) /\ UNCHANGED failed /\ file[r.target.id] # None
           /\ IF Op(c) = "rename" /\ r.stage = "to" THEN Work(c, [at |-> "retire"]) /\ UNCHANGED todo ELSE Return(c)
  <2>1. PICK h : h = Longer(r) OBVIOUS
  <2>2. PICK row : row = HeadRow(r) OBVIOUS
  <2>3. /\ r.target.id \in Ids /\ r.body \in Contents /\ row \in Rows /\ h \in Seq(Contents) /\ row.head = Len(h)
        /\ Len(h) = Len(hist[r.target.id]) + 1 /\ Len(hist[r.target.id]) \in Nat
    BY <1>1, <1>2, <2>1, <2>2, AppendTypes
  <2>4. row.head \in 1..Len(h) /\ Len(hist[r.target.id]) <= Len(h) BY <2>3
  <2>5. FilesOk' /\ Grows /\ Contents' = Contents
    BY <1>3, <1>5, <2>1, <2>2, <2>3, <2>4, AppendFits DEF WriteRow
  <2>6. overlapped' \subseteq Ids BY <1>5, <2>3 DEF WriteRow, Typed, HistoryOk
  <2>7. MemoryOk' /\ lost' \subseteq Contents' BY <1>3, <1>5, <2>5, UnscratchFits
  <2>8. HistoryOk' BY <1>3, <1>5, <2>5, <2>6, <2>7 DEF Typed, HistoryOk
  <2>9. CASE Return(c)
    <3>1. Ended(c) BY <1>1, <1>2, <2>9, EndsWell
    <3>2. CASE Op(c) = "flush"
      <4>1. handle[c] \in FileHandles
        <5>1. handle[c] # None /\ handle[c].kind = "file"
          BY <1>1, <1>2, <3>2 DEF HandleFits, Doing, Pending
        <5>2. QED BY <1>2, <5>1 DEF HandleFits, ScratchHandles
      <4>2. handle' = [handle EXCEPT ![c].dirty = FALSE] /\ handle'[c] = [handle[c] EXCEPT !.dirty = FALSE]
        BY <1>5, <3>2 DEF Typed
      <4>3. handle'[c] \in FileHandles' /\ handle'[c].kind = "file"
        <5>1. FileHandles' = FileHandles BY <2>5 DEF FileHandles
        <5>2. PICK g : g = handle[c] OBVIOUS
        <5>3. [g EXCEPT !.dirty = FALSE] \in FileHandles /\ [g EXCEPT !.dirty = FALSE].kind = "file"
          BY <4>1, <5>2 DEF FileHandles
        <5>4. QED BY <4>2, <5>1, <5>2, <5>3
      <4>4. handle' = [handle EXCEPT ![c] = handle'[c]] BY <4>2
      <4>5. handle[c] # None BY <4>1, NoneOther, NoneAssumption DEF FileHandles, Contents, Typed, FilesOk
      <4>6. GoodHandle(c) BY <4>3, <4>4 DEF GoodHandle
      <4>7. QED BY <1>1, <1>2, <1>5, <2>5, <2>7, <2>8, <3>1, <4>5, <4>6
    <3>3. CASE Op(c) # "flush"
      <4>1. handle' = handle BY <1>5, <3>3
      <4>2. GoodHandle(c) BY <2>5, <4>1, SameHandle
      <4>3. QED BY <1>1, <1>2, <1>5, <2>5, <2>7, <2>8, <3>1, <4>1, <4>2
    <3>4. QED BY <3>2, <3>3
  <2>10. CASE Op(c) = "rename" /\ r.stage = "to" /\ Work(c, [at |-> "retire"]) /\ UNCHANGED todo
    <3>1. PICK d : d = Call("retire", r.req, r.stage, r.want, r.found, r.target, r.body, r.left, r.key) OBVIOUS
    <3>2. d \in Calls BY <1>2, <3>1 DEF Calls, Call, Stages, Maybe
    <3>3. d.at = "retire" /\ d.req = r.req /\ d.found = r.found /\ d.target = r.target /\ d.body = r.body
          /\ d.stage = r.stage /\ d.want = r.want /\ d.key = r.key /\ d.left = r.left
      BY <3>1 DEF Call
    <3>4. CallFits(d)
      <4>1. Onto(r) BY <1>1, <1>2, <2>10 DEF SaveFits, Folding, Op
      <4>2. Onto(d) BY <3>3, <4>1 DEF Onto, Has
      <4>3. SaveFits(d) BY <1>2, <2>10, <3>3, <4>2 DEF SaveFits
      <4>4. RestFits(d) BY <1>2, <3>3 DEF RestFits
      <4>5. QED BY <3>3, <4>3, <4>4 DEF CallFits, SeekFits, FoundFits, OpenFits
    <3>5. call' = [call EXCEPT ![c] = d] BY <1>1, <1>2, <2>10, <3>1, WithAt DEF Work
    <3>6. handle' = handle BY <1>5, <2>10
    <3>7. Worked(c) /\ call'[c] = d BY <1>1, <1>2, <2>10, <3>2, <3>3, <3>4, <3>5, <3>6, MovesOn
    <3>8. QED BY <1>1, <1>2, <1>5, <2>5, <2>7, <2>8, <2>10, <3>3, <3>7
  <2>11. QED BY <1>5, <2>9, <2>10
<1>6. QED BY <1>1, <1>4, <1>5 DEF CommitWrite, Longer, HeadRow

-----------------------------------------------------------------------------
(* Directories, and rows written back.                                     *)

LEMMA SalvageNextDoes ==
  ASSUME Typed, NEW c \in Clients, SalvageNext(c)
  PROVE  /\ Grows /\ FilesOk' /\ MemoryOk' /\ HistoryOk' /\ Worked(c)
         /\ call'[c].found = None /\ call'[c].target = None /\ call'[c].body = None /\ call'[c].stage = "check"
         /\ call'[c].at \in {"byId", "byName"}
         /\ \E p \in call[c].left : p \in Paths /\ call'[c].want = p.file
<1>1. PICK r : r = call[c] OBVIOUS
<1>2. r \in Calls /\ RestFits(r) /\ r.at = "salvage" /\ r.left \subseteq Paths
  BY <1>1, CallTypes, ClientTypes DEF SalvageNext
<1>3. r.req.op = "rmdir" /\ r.req # None /\ r.found = None /\ r.target = None /\ r.body = None BY <1>2 DEF RestFits
<1>4. PICK p \in r.left : Work(c, With(Seek(p.file, "check"), [left |-> r.left \ {p}, key |-> p]))
  BY <1>1 DEF SalvageNext
<1>5. p \in Paths /\ p.file \in Names /\ p # None /\ p.file # None BY <1>2, <1>4, PathTypes, NoneOther
<1>6. PICK n : n = p.file OBVIOUS
<1>7. PICK l : l = r.left \ {p} OBVIOUS
<1>8. PICK a : a = IF n.id = None THEN "byName" ELSE "byId" OBVIOUS
<1>9. PICK d : d = Call(a, r.req, "check", n, r.found, r.target, r.body, l, p) OBVIOUS
<1>10. With(r, With(Seek(n, "check"), [left |-> l, key |-> p])) = d BY <1>2, <1>8, <1>9, WithSeekCheck
<1>11. call' = [call EXCEPT ![c] = d]
  <2>1. PICK e : e = With(Seek(n, "check"), [left |-> l, key |-> p]) OBVIOUS
  <2>2. With(r, e) = d BY <1>10, <2>1
  <2>3. Work(c, e) BY <1>4, <1>6, <1>7, <2>1
  <2>4. QED BY <1>1, <2>2, <2>3 DEF Work
<1>12. d.at = a /\ d.req = r.req /\ d.stage = "check" /\ d.want = n /\ d.found = None /\ d.target = None /\ d.body = None
       /\ d.left = l /\ d.key = p
  BY <1>3, <1>9 DEF Call
<1>13. a \in {"byName", "byId"} /\ (a = "byId" => n.id # None) BY <1>8
<1>14. d \in Calls BY <1>2, <1>5, <1>6, <1>7, <1>9, <1>13 DEF Calls, Call, Stages, Maybe
<1>15. CallFits(d)
  <2>1. Checking(d) BY <1>3, <1>5, <1>6, <1>12 DEF Checking
  <2>2. SeekFits(d) BY <1>5, <1>6, <1>12, <1>13, <2>1 DEF SeekFits
  <2>3. RestFits(d) BY <1>3, <1>12, <1>13 DEF RestFits
  <2>4. QED BY <1>12, <1>13, <2>2, <2>3 DEF CallFits, FoundFits, OpenFits, SaveFits
<1>16. UNCHANGED <<file, hist, dirs, scratch, handle, todo, written, faults, failed, missed, overlapped, lost, sidecar>>
  BY DEF SalvageNext, memory, history
<1>17. Worked(c) /\ call'[c] = d BY <1>1, <1>2, <1>3, <1>7, <1>11, <1>12, <1>13, <1>14, <1>15, <1>16, MovesOn DEF Op
<1>18. FilesOk' /\ MemoryOk' /\ HistoryOk' /\ Grows BY <1>16, QuietFits DEF Typed, HistoryOk
<1>19. QED BY <1>1, <1>4, <1>5, <1>6, <1>12, <1>13, <1>17, <1>18

LEMMA SalvageEndDoes ==
  ASSUME Typed, NEW c \in Clients, SalvageEnd(c)
  PROVE  Grows /\ FilesOk' /\ MemoryOk' /\ HistoryOk' /\ Ended(c) /\ handle' = handle
<1>1. PICK S : S = InDir(call[c].req.path.dir) OBVIOUS
<1>2. /\ UNCHANGED <<file, hist, written, handle, faults, failed, overlapped, sidecar, missed>>
      /\ dirs' \subseteq Dirs /\ scratch' = [p \in DOMAIN scratch \ S |-> scratch[p]]
      /\ Dropped(UNION {Held(p) : p \in S})
  BY <1>1 DEF SalvageEnd, Typed, MemoryOk
<1>3. FilesOk' /\ Grows /\ Contents' = Contents BY <1>2, FilesKept
<1>4. MemoryOk' BY <1>2, <1>3, MemoryRemoved
<1>5. UNION {Held(p) : p \in S} \subseteq Maybe(Contents) BY HeldFits DEF Maybe
<1>6. lost' \subseteq Contents' BY <1>2, <1>3, <1>5, DroppedFits
<1>7. HistoryOk' BY <1>2, <1>3, <1>6 DEF Typed, HistoryOk
<1>8. Ended(c) BY EndsWell DEF SalvageEnd
<1>9. QED BY <1>2, <1>3, <1>4, <1>7, <1>8

LEMMA BackFits ==
  ASSUME Typed, NEW c \in Clients, NEW m \in Maybe(Copies), Has(m), Known(hist, m), NEW row \in Rows,
         row.head = m.row.head, UNCHANGED <<hist, dirs, scratch, written, faults, lost, sidecar, missed>>,
         \/ UNCHANGED <<file, overlapped>> /\ failed' \in {failed, failed \cup {c}}
         \/ WriteRow(c, m.id, row) /\ UNCHANGED failed
  PROVE  Grows /\ FilesOk' /\ MemoryOk' /\ HistoryOk'
<1>1. m.id \in Ids /\ row.head \in 1..Len(hist[m.id]) BY CopyTypes DEF Maybe, Has, Known
<1>2. CASE UNCHANGED <<file, overlapped>> /\ failed' \in {failed, failed \cup {c}}
  BY <1>2, QuietFits DEF Typed, HistoryOk
<1>3. CASE WriteRow(c, m.id, row) /\ UNCHANGED failed
  <2>1. FilesOk' /\ Grows /\ Contents' = Contents /\ overlapped' \subseteq Ids BY <1>1, <1>3, RowFits
  <2>2. MemoryOk' BY <2>1, MemoryKept DEF Typed, MemoryOk
  <2>3. HistoryOk' BY <1>3, <2>1 DEF Typed, HistoryOk
  <2>4. QED BY <2>1, <2>2, <2>3
<1>4. QED BY <1>2, <1>3

(* A row written back ends the request, with the row or without.           *)
BackDone(c, m, row) ==
  /\ Ended(c) /\ Has(m) /\ row \in Rows /\ row.head = m.row.head /\ row.size = m.row.size
  /\ \/ file[m.id] = None /\ UNCHANGED <<file, overlapped>>
     \/ file[m.id] # None /\ WriteRow(c, m.id, row)

LEMMA WritesBack ==
  ASSUME Typed, NEW c \in Clients, call[c].at # "idle",
         NEW m \in Maybe(Copies), Has(m), Known(hist, m), NEW row \in Rows,
         row.head = m.row.head, row.size = m.row.size,
         UNCHANGED <<hist, dirs, scratch, written, faults, lost, sidecar, missed>>,
         WriteBack(c, m.id, row, Finish(c))
  PROVE  Grows /\ FilesOk' /\ MemoryOk' /\ HistoryOk' /\ BackDone(c, m, row)
<1>1. CASE file[m.id] = None /\ Fail(c) /\ UNCHANGED <<file, overlapped>>
  <2>1. Ended(c) /\ failed' = failed \cup {c} BY <1>1, FailEnds
  <2>2. QED BY <1>1, <2>1, BackFits DEF BackDone
<1>2. CASE file[m.id] # None /\ WriteRow(c, m.id, row) /\ Finish(c) /\ UNCHANGED failed
  <2>1. Ended(c) BY <1>2, EndsWell
  <2>2. QED BY <1>2, <2>1, BackFits DEF BackDone
<1>3. QED BY <1>1, <1>2 DEF WriteBack

LEMMA RowForms ==
  ASSUME NEW row \in Rows
  PROVE  /\ [row EXCEPT !.deleted = TRUE] \in Rows /\ [row EXCEPT !.deleted = TRUE].head = row.head
         /\ [row EXCEPT !.deleted = TRUE].size = row.size /\ [row EXCEPT !.deleted = TRUE].name = row.name
         /\ \A n \in Names :
              /\ [row EXCEPT !.name = n] \in Rows /\ [row EXCEPT !.name = n].head = row.head
              /\ [row EXCEPT !.name = n].size = row.size /\ [row EXCEPT !.name = n].name = n
              /\ [row EXCEPT !.deleted = FALSE, !.name = n] \in Rows
              /\ [row EXCEPT !.deleted = FALSE, !.name = n].head = row.head
              /\ [row EXCEPT !.deleted = FALSE, !.name = n].size = row.size
              /\ [row EXCEPT !.deleted = FALSE, !.name = n].name = n
  BY DEF Rows

LEMMA UnlinkDoes ==
  ASSUME Typed, NEW c \in Clients, Unlink(c)
  PROVE  /\ Grows /\ FilesOk' /\ MemoryOk' /\ HistoryOk' /\ handle' = handle
         /\ \/ Ended(c) /\ UNCHANGED <<file, overlapped>>
            \/ BackDone(c, call[c].found, [call[c].found.row EXCEPT !.deleted = TRUE])
<1>1. PICK m : m = call[c].found OBVIOUS
<1>2. /\ UNCHANGED <<hist, dirs, scratch, handle, written, faults, lost, sidecar, missed>>
      /\ call[c].at = "found" /\ call[c].req.op = "unlink"
  BY DEF Unlink, memory, Op
<1>3. CASE m = None /\ Finish(c) /\ UNCHANGED <<file, overlapped, failed>>
  <2>1. Ended(c) BY <1>2, <1>3, EndsWell
  <2>2. FilesOk' /\ MemoryOk' /\ HistoryOk' /\ Grows BY <1>2, <1>3, QuietFits DEF Typed, HistoryOk
  <2>3. QED BY <1>2, <1>3, <2>1, <2>2
<1>4. CASE m # None /\ WriteBack(c, m.id, [m.row EXCEPT !.deleted = TRUE], Finish(c))
  <2>1. m \in Maybe(Copies) /\ FoundFits(call[c]) /\ Known(hist, m) BY <1>1, CallTypes, ClientTypes
  <2>2. Has(m) BY <1>1, <1>2, <1>4, <2>1 DEF FoundFits, Onto, Folding
  <2>3. m.row \in Rows BY <2>1, <2>2, CopyTypes DEF Maybe, Has
  <2>4. PICK row : row = [m.row EXCEPT !.deleted = TRUE] OBVIOUS
  <2>5. row \in Rows /\ row.head = m.row.head /\ row.size = m.row.size BY <2>3, <2>4, RowForms
  <2>6. WriteBack(c, m.id, row, Finish(c)) BY <1>4, <2>4
  <2>7. Grows /\ FilesOk' /\ MemoryOk' /\ HistoryOk' /\ BackDone(c, m, row)
    BY <1>2, <2>1, <2>2, <2>5, <2>6, WritesBack
  <2>8. QED BY <1>1, <1>2, <2>4, <2>7
<1>5. QED BY <1>1, <1>3, <1>4 DEF Unlink

-----------------------------------------------------------------------------
(* Renaming.                                                               *)

LEMMA FoldTargetDoes ==
  ASSUME Typed, NEW c \in Clients, FoldTarget(c)
  PROVE  /\ Grows /\ FilesOk' /\ MemoryOk' /\ HistoryOk' /\ handle' = handle /\ call[c].stage = "fold"
         /\ \/ /\ Ended(c) /\ UNCHANGED <<file, overlapped>> /\ Remove(call[c].key) /\ Dropped(Held(call[c].key))
            \/ /\ Worked(c) /\ call'[c].found = None /\ call[c].found = None /\ call'[c].target = call[c].target
               /\ call'[c].body = call[c].body /\ call'[c].stage = "fold" /\ call'[c].want = call[c].want
               /\ UNCHANGED <<scratch, lost>>
               /\ \/ call'[c].at = "create" /\ UNCHANGED <<file, overlapped>>
                  \/ call'[c].at = "commit" /\ UNCHANGED <<file, overlapped>>
                  \/ /\ call'[c].at = "commit" /\ Has(call[c].target) /\ call[c].target.row \in Rows /\ call[c].target.id \in Ids
                     /\ call[c].want \in Names /\ file[call[c].target.id] # None
                     /\ WriteRow(c, call[c].target.id,
                                 [call[c].target.row EXCEPT !.deleted = FALSE, !.name = DisplayPart(call[c].want)])
<1>1. PICK r : r = call[c] OBVIOUS
<1>2. /\ UNCHANGED <<hist, dirs, handle, written, faults, sidecar, missed>> /\ faults' \in 0..MaxFaults
      /\ r.at = "found" /\ r.stage = "fold"
  BY <1>1 DEF FoldTarget, Typed, HistoryOk
<1>3. r \in Calls /\ FoundFits(r) /\ RestFits(r) /\ r.target \in Maybe(Copies) /\ r.want \in Maybe(Names) /\ r.req # None
      /\ Known(hist, r.target)
  BY <1>1, <1>2, CallTypes, ClientTypes
<1>4. Folding(r) /\ (r.target = None \/ Has(r.target)) /\ r.want \in Names
  BY <1>2, <1>3 DEF FoundFits, Onto, Maybe
<1>5. ASSUME NEW a \in {"create", "commit"}, Work(c, [at |-> a]), UNCHANGED todo, a = "commit" => Has(r.target)
      PROVE  /\ Worked(c) /\ call'[c].found = None /\ r.found = None /\ call'[c].target = r.target /\ call'[c].at = a
             /\ call'[c].body = r.body /\ call'[c].stage = "fold" /\ call'[c].want = r.want
  <2>1. PICK d : d = Call(a, r.req, r.stage, r.want, r.found, r.target, r.body, r.left, r.key) OBVIOUS
  <2>2. d \in Calls BY <1>3, <2>1 DEF Calls, Call, Stages, Maybe
  <2>3. d.at = a /\ d.req = r.req /\ d.found = r.found /\ d.target = r.target /\ d.body = r.body
        /\ d.stage = r.stage /\ d.want = r.want /\ d.key = r.key /\ d.left = r.left
    BY <2>1 DEF Call
  <2>4. CallFits(d)
    <3>1. Folding(d) BY <1>4, <2>3 DEF Folding
    <3>2. d.req.op # "flush" BY <3>1 DEF Folding
    <3>3. SaveFits(d) BY <1>2, <1>4, <1>5, <2>3, <3>1, <3>2, NoneOther DEF SaveFits, Has
    <3>4. RestFits(d) BY <1>2, <1>3, <2>3 DEF RestFits
    <3>5. QED BY <2>3, <3>3, <3>4 DEF CallFits, SeekFits, FoundFits, OpenFits
  <2>5. call' = [call EXCEPT ![c] = d] BY <1>1, <1>3, <1>5, <2>1, WithAt DEF Work
  <2>6. Worked(c) /\ call'[c] = d BY <1>1, <1>2, <1>5, <2>2, <2>3, <2>4, <2>5, MovesOn
  <2>7. QED BY <1>2, <1>4, <2>3, <2>6 DEF Folding
<1>6. ASSUME UNCHANGED <<scratch, lost, file, overlapped, failed>>
      PROVE  Grows /\ FilesOk' /\ MemoryOk' /\ HistoryOk'
  BY <1>2, <1>6, QuietFits DEF Typed, HistoryOk
<1>7. CASE r.target = None /\ Work(c, [at |-> "create"]) /\ UNCHANGED <<file, scratch, todo, failed, overlapped, lost>>
  BY <1>1, <1>2, <1>5, <1>6, <1>7
<1>8. CASE /\ r.target # None /\ Work(c, [at |-> "commit"])
           /\ UNCHANGED <<file, scratch, todo, failed, overlapped, lost>>
  BY <1>1, <1>2, <1>4, <1>5, <1>6, <1>8
<1>9. CASE r.target # None /\ file[r.target.id] = None /\ Fail(c) /\ UNCHANGED <<file, overlapped>>
           /\ Remove(r.key) /\ Dropped(Held(r.key))
  <2>1. Held(r.key) \subseteq Maybe(Contents) BY HeldFits DEF Maybe
  <2>2. Grows /\ FilesOk' /\ MemoryOk' /\ HistoryOk' /\ Ended(c)
    BY <1>1, <1>2, <1>9, <2>1, FailFits
  <2>3. QED BY <1>1, <1>2, <1>9, <2>2
<1>10. CASE /\ r.target # None /\ file[r.target.id] # None /\ Work(c, [at |-> "commit"]) /\ UNCHANGED <<todo, failed, scratch, lost>>
            /\ WriteRow(c, r.target.id, [r.target.row EXCEPT !.deleted = FALSE, !.name = DisplayPart(r.want)])
  <2>1. r.target \in Copies /\ Has(r.target) /\ r.target.row \in Rows /\ r.target.id \in Ids
    BY <1>3, <1>4, <1>10, CopyTypes DEF Maybe
  <2>2. PICK row : row = [r.target.row EXCEPT !.deleted = FALSE, !.name = DisplayPart(r.want)] OBVIOUS
  <2>3. row \in Rows /\ row.head = r.target.row.head BY <1>4, <2>1, <2>2, RowForms, DisplayFits
  <2>4. WriteRow(c, r.target.id, row) BY <1>10, <2>2
  <2>5. Grows /\ FilesOk' /\ MemoryOk' /\ HistoryOk' BY <1>2, <1>3, <1>10, <2>1, <2>3, <2>4, BackFits
  <2>6. QED BY <1>1, <1>2, <1>4, <1>5, <1>10, <2>1, <2>5
<1>11. QED BY <1>1, <1>7, <1>8, <1>9, <1>10 DEF FoldTarget, WriteBack

LEMMA BackupDoes ==
  ASSUME Typed, NEW c \in Clients, Backup(c)
  PROVE  /\ Grows /\ FilesOk' /\ MemoryOk' /\ HistoryOk' /\ handle' = handle /\ Ended(c)
         /\ \/ UNCHANGED <<scratch, lost>>
            \/ /\ call[c].found.id \in Ids /\ file[call[c].found.id] # None /\ RenameTo(c) \in Paths
               /\ Insert(RenameTo(c), Content(call[c].found.id)) /\ Dropped(Held(RenameTo(c)))
<1>1. PICK r : r = call[c] OBVIOUS
<1>2. /\ UNCHANGED <<file, hist, handle, written, faults, overlapped, sidecar, missed>> /\ faults' \in 0..MaxFaults
      /\ r.at = "found" /\ r.req.op = "rename" /\ RenameTo(c).dir # Root
  BY <1>1 DEF Backup, Typed, HistoryOk, Op
<1>3. r.req \in Requests /\ r.found \in Maybe(Copies) BY <1>1, <1>2, CallTypes
<1>4. FilesOk' /\ Grows /\ Contents' = Contents BY <1>2, FilesKept
<1>5. CASE Fail(c) /\ UNCHANGED <<memory, lost>>
  <2>1. UNCHANGED <<dirs, scratch, lost>> BY <1>5 DEF memory
  <2>2. Ended(c) /\ failed' = failed \cup {c} BY <1>1, <1>2, <1>5, FailEnds
  <2>3. FilesOk' /\ MemoryOk' /\ HistoryOk' /\ Grows BY <1>2, <2>1, <2>2, QuietFits DEF Typed, HistoryOk
  <2>4. QED BY <1>2, <2>1, <2>2, <2>3
<1>6. CASE /\ r.found # None /\ file[r.found.id] # None /\ Insert(RenameTo(c), Content(r.found.id))
           /\ dirs' = dirs \cup {RenameTo(c).dir} /\ Dropped(Held(RenameTo(c))) /\ Finish(c) /\ UNCHANGED failed
  <2>1. r.found.id \in Ids BY <1>3, <1>6, CopyTypes DEF Maybe
  <2>2. PICK k : k = Content(r.found.id) OBVIOUS
  <2>3. PICK p : p = RenameTo(c) OBVIOUS
  <2>4. k \in Contents' BY <1>4, <1>6, <2>1, <2>2, ContentFits
  <2>5. p \in Paths /\ InScratch(p) /\ p.dir \in Dirs
    BY <1>1, <1>2, <1>3, <2>3, RequestTypes, PathTypes DEF RenameTo
  <2>6. dirs' \subseteq Dirs BY <1>6, <2>3, <2>5 DEF Typed, MemoryOk
  <2>7. Insert(p, k) BY <1>6, <2>2, <2>3
  <2>8. MemoryOk' BY <1>4, <2>4, <2>5, <2>6, <2>7, MemoryInserted
  <2>9. Held(p) \subseteq Maybe(Contents) BY HeldFits DEF Maybe
  <2>10. Dropped(Held(p)) BY <1>6, <2>3
  <2>11. lost' \subseteq Contents' BY <1>4, <2>9, <2>10, DroppedFits
  <2>12. HistoryOk' BY <1>2, <1>4, <1>6, <2>11 DEF Typed, HistoryOk
  <2>13. Ended(c) BY <1>1, <1>2, <1>6, EndsWell
  <2>14. QED BY <1>1, <1>2, <1>4, <1>6, <2>1, <2>3, <2>5, <2>8, <2>12, <2>13
<1>7. QED BY <1>1, <1>5, <1>6 DEF Backup, Gone

LEMMA RenameFromDoes ==
  ASSUME Typed, NEW c \in Clients, RenameFrom(c)
  PROVE  /\ Grows /\ FilesOk' /\ MemoryOk' /\ HistoryOk' /\ handle' = handle
         /\ \/ Ended(c)
            \/ /\ Worked(c) /\ call'[c].found = call[c].found /\ call'[c].target = None /\ call'[c].body = None
               /\ call'[c].stage = "to" /\ call'[c].want = RenameTo(c).file /\ call'[c].at \in {"byId", "byName"}
<1>1. PICK r : r = call[c] OBVIOUS
<1>2. /\ UNCHANGED <<file, hist, dirs, scratch, handle, written, faults, overlapped, lost, sidecar, missed>>
      /\ r.at = "found" /\ r.req.op = "rename" /\ r.stage = "from" /\ r.req.to.dir = Root
  BY <1>1 DEF RenameFrom, memory, Op, RenameTo
<1>3. r \in Calls /\ FoundFits(r) /\ RestFits(r) /\ r.req \in Requests /\ r.req # None
  BY <1>1, <1>2, CallTypes, ClientTypes
<1>4. Named(r) /\ r.body = None /\ r.target = None /\ (r.found = None \/ Has(r.found))
  BY <1>2, <1>3 DEF FoundFits, Onto, Folding
<1>5. CASE (Finish(c) /\ UNCHANGED failed) \/ Fail(c)
  <2>1. Ended(c) BY <1>1, <1>2, <1>5, EndsWell
  <2>2. failed' \in {failed, failed \cup {c}} BY <1>1, <1>2, <1>5, FailEnds
  <2>3. FilesOk' /\ MemoryOk' /\ HistoryOk' /\ Grows BY <1>2, <2>2, QuietFits DEF Typed, HistoryOk
  <2>4. QED BY <1>2, <2>1, <2>3
<1>6. CASE r.found # None /\ Work(c, Seek(RenameTo(c).file, "to")) /\ UNCHANGED <<todo, failed>>
  <2>1. PICK n : n = r.req.to.file OBVIOUS
  <2>2. PICK a : a = IF n.id = None THEN "byName" ELSE "byId" OBVIOUS
  <2>3. PICK d : d = Call(a, r.req, "to", n, r.found, r.target, r.body, r.left, r.key) OBVIOUS
  <2>4. n \in Names /\ n # None BY <1>2, <1>3, <2>1, RequestTypes, PathTypes, NoneOther
  <2>5. a \in {"byId", "byName"} /\ (a = "byId" => n.id # None) BY <2>2
  <2>6. d \in Calls BY <1>3, <2>3, <2>4, <2>5 DEF Calls, Call, Stages, Maybe
  <2>7. d.at = a /\ d.req = r.req /\ d.found = r.found /\ d.target = None /\ d.body = None
        /\ d.stage = "to" /\ d.want = n /\ d.key = r.key /\ d.left = r.left
    BY <1>4, <2>3 DEF Call
  <2>8. CallFits(d)
    <3>1. Onto(d) BY <1>2, <1>4, <1>6, <2>7 DEF Onto, Named
    <3>2. SeekFits(d) BY <2>1, <2>4, <2>5, <2>7, <3>1 DEF SeekFits
    <3>3. RestFits(d) BY <1>2, <1>3, <2>5, <2>7 DEF RestFits
    <3>4. QED BY <2>5, <2>7, <3>2, <3>3 DEF CallFits, FoundFits, OpenFits, SaveFits
  <2>9. call' = [call EXCEPT ![c] = d]
    <3>1. With(r, Seek(n, "to")) = d BY <1>3, <2>2, <2>3, WithSeek
    <3>2. RenameTo(c).file = n BY <1>1, <2>1 DEF RenameTo
    <3>3. PICK e : e = Seek(n, "to") OBVIOUS
    <3>4. Work(c, e) /\ With(r, e) = d BY <1>6, <3>1, <3>2, <3>3
    <3>5. QED BY <1>1, <3>4 DEF Work
  <2>10. Worked(c) /\ call'[c] = d BY <1>1, <1>2, <1>6, <2>5, <2>6, <2>7, <2>8, <2>9, MovesOn DEF Op
  <2>11. FilesOk' /\ MemoryOk' /\ HistoryOk' /\ Grows BY <1>2, <1>6, QuietFits DEF Typed, HistoryOk
  <2>12. QED BY <1>1, <1>2, <2>1, <2>5, <2>7, <2>10, <2>11 DEF RenameTo
<1>7. QED BY <1>1, <1>5, <1>6 DEF RenameFrom

LEMMA RenameOverDoes ==
  ASSUME Typed, NEW c \in Clients, RenameOver(c)
  PROVE  /\ Grows /\ FilesOk' /\ MemoryOk' /\ HistoryOk' /\ handle' = handle
         /\ \/ Ended(c)
            \/ /\ Worked(c) /\ file[call[c].found.id] # None /\ call[c].found.id \in Ids
               /\ call'[c].at = "commit" /\ call'[c].found = call[c].found /\ call'[c].target = call[c].target
               /\ call'[c].body = Content(call[c].found.id) /\ call'[c].stage = "to" /\ call'[c].want = call[c].want
<1>1. PICK r : r = call[c] OBVIOUS
<1>2. /\ UNCHANGED <<file, hist, dirs, scratch, handle, written, faults, overlapped, lost, sidecar, missed>>
      /\ r.at = "found" /\ r.req.op = "rename" /\ r.stage = "to" /\ r.target # None /\ r.target.id # r.found.id
  BY <1>1 DEF RenameOver, memory, Op, Renames
<1>3. r \in Calls /\ FoundFits(r) /\ RestFits(r) /\ r.req # None BY <1>1, <1>2, CallTypes, ClientTypes
<1>4. Onto(r) /\ Has(r.found) /\ r.found.id \in Ids
  <2>1. Onto(r) BY <1>2, <1>3 DEF FoundFits, Folding
  <2>2. r.found \in Copies BY <1>3, <2>1 DEF Onto, Has, Calls, Maybe
  <2>3. QED BY <2>1, <2>2, CopyTypes DEF Onto
<1>5. CASE Fail(c)
  <2>1. Ended(c) /\ failed' = failed \cup {c} BY <1>1, <1>2, <1>5, FailEnds
  <2>2. FilesOk' /\ MemoryOk' /\ HistoryOk' /\ Grows BY <1>2, <2>1, QuietFits DEF Typed, HistoryOk
  <2>3. QED BY <1>2, <2>1, <2>2
<1>6. CASE file[r.found.id] # None /\ Work(c, [at |-> "commit", body |-> Content(r.found.id)]) /\ UNCHANGED <<todo, failed>>
  <2>1. PICK b : b = Content(r.found.id) OBVIOUS
  <2>2. b \in Contents /\ b # None BY <1>4, <1>6, <2>1, ContentFits
  <2>3. PICK d : d = Call("commit", r.req, r.stage, r.want, r.found, r.target, b, r.left, r.key) OBVIOUS
  <2>4. d \in Calls BY <1>3, <2>2, <2>3 DEF Calls, Call, Stages, Maybe
  <2>5. d.at = "commit" /\ d.req = r.req /\ d.found = r.found /\ d.target = r.target /\ d.body = b
        /\ d.stage = "to" /\ d.want = r.want /\ d.key = r.key /\ d.left = r.left
    BY <1>2, <2>3 DEF Call
  <2>6. CallFits(d)
    <3>1. Onto(d) BY <1>4, <2>5 DEF Onto
    <3>2. SaveFits(d) BY <1>2, <2>2, <2>5, <3>1 DEF SaveFits
    <3>3. RestFits(d) BY <1>2, <1>3, <2>5 DEF RestFits
    <3>4. QED BY <2>5, <3>2, <3>3 DEF CallFits, SeekFits, FoundFits, OpenFits
  <2>7. call' = [call EXCEPT ![c] = d] BY <1>1, <1>3, <1>6, <2>1, <2>3, WithBody DEF Work
  <2>8. Worked(c) /\ call'[c] = d BY <1>1, <1>2, <1>6, <2>4, <2>5, <2>6, <2>7, MovesOn DEF Op
  <2>9. FilesOk' /\ MemoryOk' /\ HistoryOk' /\ Grows BY <1>2, <1>6, QuietFits DEF Typed, HistoryOk
  <2>10. QED BY <1>1, <1>2, <1>4, <1>6, <2>1, <2>5, <2>8, <2>9
<1>7. QED BY <1>1, <1>5, <1>6 DEF RenameOver

LEMMA RenameRowDoes ==
  ASSUME Typed, NEW c \in Clients, RenameRow(c)
  PROVE  /\ Grows /\ FilesOk' /\ MemoryOk' /\ HistoryOk' /\ handle' = handle /\ call[c].stage = "to"
         /\ RenameTo(c).file \in Names /\ call[c].want = RenameTo(c).file
         /\ BackDone(c, call[c].found, [call[c].found.row EXCEPT !.name = DisplayPart(RenameTo(c).file)])
<1>1. PICK m : m = call[c].found OBVIOUS
<1>2. /\ UNCHANGED <<hist, dirs, scratch, handle, written, faults, lost, sidecar, missed>>
      /\ call[c].at = "found" /\ call[c].req.op = "rename" /\ call[c].stage = "to"
      /\ WriteBack(c, m.id, [m.row EXCEPT !.name = DisplayPart(RenameTo(c).file)], Finish(c))
  BY <1>1 DEF RenameRow, memory, Op
<1>3. m \in Maybe(Copies) /\ FoundFits(call[c]) /\ Known(hist, m) /\ call[c].req \in Requests
  BY <1>1, <1>2, CallTypes, ClientTypes
<1>4. Has(m) /\ call[c].want = RenameTo(c).file BY <1>1, <1>2, <1>3 DEF FoundFits, Onto, Folding, RenameTo
<1>5. m.row \in Rows BY <1>3, <1>4, CopyTypes DEF Maybe, Has
<1>6. PICK n : n = RenameTo(c).file OBVIOUS
<1>7. n \in Names BY <1>2, <1>3, <1>6, RequestTypes, PathTypes DEF RenameTo
<1>8. PICK row : row = [m.row EXCEPT !.name = DisplayPart(n)] OBVIOUS
<1>9. row \in Rows /\ row.head = m.row.head /\ row.size = m.row.size BY <1>5, <1>7, <1>8, DisplayFits, RowForms
<1>10. WriteBack(c, m.id, row, Finish(c)) BY <1>2, <1>6, <1>8
<1>11. Grows /\ FilesOk' /\ MemoryOk' /\ HistoryOk' /\ BackDone(c, m, row)
  BY <1>2, <1>3, <1>4, <1>9, <1>10, WritesBack
<1>12. QED BY <1>1, <1>2, <1>4, <1>6, <1>7, <1>8, <1>11

LEMMA RetireDoes ==
  ASSUME Typed, NEW c \in Clients, Retire(c)
  PROVE  /\ Grows /\ FilesOk' /\ MemoryOk' /\ HistoryOk' /\ handle' = handle
         /\ BackDone(c, call[c].found, [call[c].found.row EXCEPT !.deleted = TRUE])
<1>1. PICK m : m = call[c].found OBVIOUS
<1>2. /\ UNCHANGED <<hist, dirs, scratch, handle, written, faults, lost, sidecar, missed>>
      /\ call[c].at = "retire" /\ WriteBack(c, m.id, [m.row EXCEPT !.deleted = TRUE], Finish(c))
  BY <1>1 DEF Retire, memory
<1>3. m \in Maybe(Copies) /\ SaveFits(call[c]) /\ Known(hist, m) BY <1>1, CallTypes, ClientTypes
<1>4. Has(m) BY <1>1, <1>2, <1>3 DEF SaveFits, Onto
<1>5. m.row \in Rows BY <1>3, <1>4, CopyTypes DEF Maybe, Has
<1>6. PICK row : row = [m.row EXCEPT !.deleted = TRUE] OBVIOUS
<1>7. row \in Rows /\ row.head = m.row.head /\ row.size = m.row.size BY <1>5, <1>6, RowForms
<1>8. WriteBack(c, m.id, row, Finish(c)) BY <1>2, <1>6
<1>9. Grows /\ FilesOk' /\ MemoryOk' /\ HistoryOk' /\ BackDone(c, m, row)
  BY <1>2, <1>3, <1>4, <1>7, <1>8, WritesBack
<1>10. QED BY <1>1, <1>2, <1>6, <1>9

LEMMA RefuseDoes ==
  ASSUME Typed, NEW c \in Clients, Refuse(c)
  PROVE  /\ Grows /\ FilesOk' /\ MemoryOk' /\ HistoryOk' /\ handle' = handle /\ Ended(c)
         /\ \/ Dropped(IF Op(c) = "close" THEN {call[c].body} ELSE {}) /\ UNCHANGED scratch
            \/ Remove(call[c].key) /\ Dropped(Held(call[c].key)) /\ call[c].stage = "fold" /\ call[c].at = "found"
<1>1. /\ UNCHANGED <<file, hist, dirs, handle, written, overlapped, sidecar, missed>>
      /\ call[c].at # "idle" /\ (Fail(c) \/ Error(c, todo[c]))
  BY DEF Refuse
<1>2. faults' \in 0..MaxFaults
  <2>1. faults \in Nat /\ MaxFaults \in Nat BY SmbAllAssumption DEF Typed, HistoryOk
  <2>2. QED BY <2>1 DEF Refuse, Fault
<1>3. FilesOk' /\ Grows /\ Contents' = Contents BY <1>1, FilesKept
<1>4. Ended(c) BY <1>1, EndsWell
<1>5. failed' = failed \cup {c} BY <1>1 DEF Fail, Error
<1>6. dirs' \subseteq Dirs BY <1>1 DEF Typed, MemoryOk
<1>7. MemoryOk' /\ lost' \subseteq Contents'
  <2>1. CASE Dropped(IF Op(c) = "close" THEN {call[c].body} ELSE {}) /\ UNCHANGED scratch
    BY <1>3, <1>6, <2>1, MemoryKept, BodyFits, DroppedFits
  <2>2. CASE Remove(call[c].key) /\ Dropped(Held(call[c].key))
    <3>1. MemoryOk' BY <1>3, <1>6, <2>2, MemoryRemoved DEF Remove
    <3>2. Held(call[c].key) \subseteq Maybe(Contents) BY HeldFits DEF Maybe
    <3>3. QED BY <1>3, <2>2, <3>1, <3>2, DroppedFits
  <2>3. QED BY <2>1, <2>2 DEF Refuse
<1>8. HistoryOk' BY <1>1, <1>2, <1>3, <1>5, <1>7 DEF Typed, HistoryOk
<1>9. QED BY <1>1, <1>3, <1>4, <1>7, <1>8 DEF Refuse, Reviving

(* The copies a call carries along are of rows with a head in the history. *)
LEMMA CarriesOn ==
  ASSUME Typed, NEW c \in Clients, FilesOk', Grows, NEW d, d \in {None, call[c].found, call[c].target}
  PROVE  Known(hist', d)
<1>1. CASE d = None BY <1>1 DEF Known, Has
<1>2. CASE d \in {call[c].found, call[c].target}
  <2>1. d \in Maybe(Copies) /\ Known(hist, d) /\ FilesOk BY <1>2, CallTypes, ClientTypes
  <2>2. QED BY <2>1, CopiesGrow
<1>3. QED BY <1>1, <1>2

LEMMA LookedTyped ==
  ASSUME Typed, NEW c \in Clients, Looked(c)
  PROVE  Typed'
<1>1. FilesOk' /\ MemoryOk' /\ HistoryOk' /\ Grows
  <2>1. /\ UNCHANGED <<file, hist, written, dirs, scratch, faults, overlapped, lost, sidecar>>
        /\ failed' = failed /\ missed' \in BOOLEAN
    BY DEF Looked, memory
  <2>2. QED BY <2>1, QuietFits
<1>2. PICK d : d = call'[c] OBVIOUS
<1>3. Known(hist', d.found) /\ Known(hist', d.target)
  <2>1. hist' = hist /\ FilesOk BY DEF Looked, Typed
  <2>2. \A f : Fetched(f) => Known(hist', f) BY <2>1, FetchedKnown
  <2>3. (d.found \in {None, call[c].found} \/ Fetched(d.found)) /\ (d.target \in {None, call[c].target} \/ Fetched(d.target))
    BY <1>2 DEF Looked, Same, Starts, Finds
  <2>4. QED BY <1>1, <2>2, <2>3, CarriesOn
<1>4. QED BY <1>1, <1>2, <1>3, WorkedStep DEF Looked

LEMMA ServeTyped ==
  ASSUME Typed, NEW c \in Clients, Serve(c) \/ Refuse(c)
  PROVE  Typed'
<1>1. ASSUME call[c].at # "idle", Ended(c), handle' = handle, Grows, FilesOk', MemoryOk', HistoryOk' PROVE Typed'
  BY <1>1, EndedStep, SameHandle
<1>2. ASSUME Worked(c), Grows, FilesOk', MemoryOk', HistoryOk', Known(hist', call'[c].target),
             call'[c].found \in {None, call[c].found}
      PROVE  Typed'
  BY <1>2, CarriesOn, WorkedStep
<1>3. ASSUME Worked(c), Grows, FilesOk', MemoryOk', HistoryOk', Known(hist', call'[c].found),
             call'[c].target \in {None, call[c].target}
      PROVE  Typed'
  BY <1>3, CarriesOn, WorkedStep
<1>4. ASSUME Worked(c), Grows, FilesOk', MemoryOk', HistoryOk', call'[c].found \in {None, call[c].found},
             call'[c].target \in {None, call[c].target}
      PROVE  Typed'
  BY <1>4, CarriesOn, WorkedStep
<1>5. CASE FindById(c) \/ FindByName(c) \/ FindEmbedded(c) BY <1>5, LooksDoes, LookedTyped
<1>6. CASE OpenNew(c) BY <1>6, OpenNewDoes, EndedStep DEF OpenNew
<1>7. CASE OpenRead(c) BY <1>1, <1>4, <1>7, OpenReadDoes DEF OpenRead
<1>8. CASE OpenMeta(c) BY <1>3, <1>8, OpenMetaDoes, EndedStep DEF OpenMeta
<1>9. CASE OpenHeal(c) BY <1>9, OpenHealDoes, EndedStep DEF OpenHeal
<1>10. CASE Create(c) BY <1>1, <1>10, CreateDoes DEF Create
<1>11. CASE CommitRead(c) BY <1>1, <1>2, <1>11, CommitReadDoes DEF CommitRead
<1>12. CASE CommitWrite(c)
  <2>1. PICK t : t = call[c] OBVIOUS
  <2>2. /\ Grows /\ FilesOk' /\ MemoryOk' /\ HistoryOk' /\ t.at = "append"
        /\ \/ Ended(c) /\ handle' = handle
           \/ Ended(c) /\ GoodHandle(c) /\ (handle'[c] # None => handle[c] # None)
           \/ Worked(c) /\ call'[c].found = t.found /\ call'[c].target = t.target
    BY <1>12, <2>1, CommitWriteDoes
  <2>3. QED BY <1>1, <1>4, <2>1, <2>2, EndedStep
<1>13. CASE SalvageNext(c) BY <1>4, <1>13, SalvageNextDoes
<1>14. CASE SalvageEnd(c) BY <1>1, <1>14, SalvageEndDoes DEF SalvageEnd
<1>15. CASE Unlink(c) BY <1>1, <1>15, UnlinkDoes DEF Unlink, BackDone
<1>16. CASE FoldTarget(c) BY <1>1, <1>4, <1>16, FoldTargetDoes DEF FoldTarget
<1>17. CASE Backup(c) BY <1>1, <1>17, BackupDoes DEF Backup
<1>18. CASE RenameFrom(c) BY <1>1, <1>4, <1>18, RenameFromDoes DEF RenameFrom
<1>19. CASE RenameOver(c) BY <1>1, <1>4, <1>19, RenameOverDoes DEF RenameOver
<1>20. CASE RenameRow(c) BY <1>1, <1>20, RenameRowDoes DEF RenameRow, BackDone
<1>21. CASE Retire(c) BY <1>1, <1>21, RetireDoes DEF Retire, BackDone
<1>22. CASE Refuse(c) BY <1>1, <1>22, RefuseDoes DEF Refuse
<1>23. QED
  BY <1>5, <1>6, <1>7, <1>8, <1>9, <1>10, <1>11, <1>12, <1>13, <1>14, <1>15, <1>16, <1>17, <1>18, <1>19, <1>20, <1>21, <1>22
     DEF Serve

-----------------------------------------------------------------------------
(* Requests taken up.                                                      *)

(* A request that is answered at once.                                     *)
Answered(c) ==
  /\ call[c].at = "idle" /\ todo[c] # <<>>
  /\ call' = [call EXCEPT ![c] = call'[c]] /\ call'[c] = Resting
  /\ todo' = [todo EXCEPT ![c] = todo'[c]] /\ todo'[c] \in {Tail(todo[c]), <<>>}

LEMMA SentWell ==
  ASSUME Typed, NEW c \in Clients, NEW op, Ready(c, op), (Sent(c) /\ UNCHANGED call) \/ Reject(c)
  PROVE  Answered(c)
<1>1. /\ DOMAIN call = Clients /\ DOMAIN todo = Clients /\ todo = [x \in Clients |-> todo[x]]
      /\ call = [x \in Clients |-> call[x]]
  BY DEF Typed
<1>2. call[c] = Resting /\ call[c].at = "idle" /\ todo[c] # <<>> BY CallTypes DEF Ready, RestFits
<1>3. CASE Sent(c) /\ UNCHANGED call BY <1>1, <1>2, <1>3 DEF Sent, Answered
<1>4. CASE Reject(c) BY <1>1, <1>2, <1>4 DEF Reject, Error, Answered
<1>5. QED BY <1>3, <1>4

LEMMA AnsweredStep ==
  ASSUME Typed, NEW c \in Clients, Answered(c), FilesOk', MemoryOk', HistoryOk', Grows, GoodHandle(c),
         handle'[c] # None => (handle[c] # None /\ Req(c).op # "close") \/ Req(c).op = "open"
  PROVE  Typed'
<1>1. Resting \in Calls' BY RestingFits, CallsGrow DEF Typed, FilesOk
<1>2. Resting.at = "idle" BY DEF Resting
<1>3. CallOk(c)' BY <1>1, RestingFits DEF Answered, CallOk
<1>4. ~Doing(c, "open")' /\ ~Doing(c, "flush")' BY <1>2 DEF Answered, Doing
<1>5. SendsWell(c)' BY <1>4, SendsOn DEF Answered
<1>6. HandleFits(c)' BY <1>4 DEF HandleFits, GoodHandle
<1>7. Only(c) BY DEF Only, Answered, GoodHandle
<1>8. QED BY <1>3, <1>5, <1>6, <1>7, ClientStep DEF ClientOk

(* A request that goes to work.                                            *)
Asked(q) == [Resting EXCEPT !.req = q]

LEMMA AskedIs ==
  ASSUME Typed, NEW q \in Requests
  PROVE  /\ Asked(q) \in Calls
         /\ Asked(q).req = q /\ Asked(q).stage = "from" /\ Asked(q).want = None /\ Asked(q).found = None
         /\ Asked(q).target = None /\ Asked(q).body = None /\ Asked(q).left = {} /\ Asked(q).key = None
<1>1. Resting \in Calls BY RestingFits DEF Typed, FilesOk
<1>2. QED BY <1>1 DEF Asked, Resting, Calls, Maybe

LEMMA ReadyIs ==
  ASSUME Typed, NEW c \in Clients, NEW op, Ready(c, op)
  PROVE  /\ Req(c) \in Requests /\ Req(c).op = op /\ call[c] = Resting /\ call[c].at = "idle" /\ todo[c] # <<>>
         /\ Req(c) # None /\ (op = "open" => handle[c] = None)
<1>1. SendsWell(c) /\ call[c] = Resting /\ todo[c] # <<>> /\ call[c].at = "idle"
  BY ClientTypes, CallTypes DEF Ready, RestFits
<1>2. Req(c) \in Requests /\ (Req(c).op = "open" => ~Closes(todo[c])) BY <1>1, RestOf DEF SendsWell, Req
<1>3. QED BY <1>1, <1>2, NoneOther DEF Ready, SendsWell

LEMMA BegunStep ==
  ASSUME Typed, NEW c \in Clients, NEW op, Ready(c, op), NEW d, call' = [call EXCEPT ![c] = d], d \in Calls,
         CallFits(d), d.req = Req(c), d.at # "idle", ~Has(d.found), ~Has(d.target), Sent(c), GoodHandle(c),
         op = "open" => handle'[c] = None,
         op = "flush" => Pending(c) /\ Existing(c) /\ handle[c].buf = d.body /\ handle' = handle,
         handle'[c] # None => handle[c] # None /\ op # "close",
         FilesOk', MemoryOk', HistoryOk', Grows
  PROVE  Typed' /\ call'[c] = d
<1>1. call'[c] = d /\ todo'[c] = Tail(todo[c]) /\ todo' = [todo EXCEPT ![c] = todo'[c]] BY DEF Typed, Sent
<1>2. Req(c).op = op /\ todo[c] # <<>> BY ReadyIs
<1>3. CallOk(c)'
  <2>1. d \in Calls' BY CallsGrow DEF Typed, FilesOk
  <2>2. QED BY <1>1, <2>1 DEF CallOk, Known
<1>4. \A o : Doing(c, o)' <=> o = op BY <1>1, <1>2 DEF Doing, Op
<1>5. SendsWell(c)' BY <1>1, <1>2, <1>4, SendsOn
<1>6. HandleFits(c)' BY <1>1, <1>4 DEF HandleFits, GoodHandle, Pending, Existing
<1>7. Only(c) BY <1>1 DEF Only, GoodHandle
<1>8. QED BY <1>1, <1>3, <1>5, <1>6, <1>7, ClientStep DEF ClientOk

LEMMA SendsOff ==
  ASSUME NEW c \in Clients, Reject(c)
  PROVE  failed' = failed \cup {c} /\ UNCHANGED <<overlapped, lastOf, lost, sidecar, missed>>
  BY DEF Reject, Error

LEMMA OpenScratchTyped ==
  ASSUME Typed, NEW c \in Clients, OpenScratch(c)
  PROVE  Typed'
<1>1. PICK p : p = Req(c).path OBVIOUS
<1>2. Ready(c, "open") /\ InScratch(p) /\ UNCHANGED <<file, hist, written, faults>> BY <1>1 DEF OpenScratch
<1>3. Req(c) \in Requests /\ Req(c).op = "open" /\ p \in Paths BY <1>1, <1>2, ReadyIs, RequestTypes
<1>4. FilesOk' /\ Grows /\ Contents' = Contents BY <1>2, FilesKept
<1>5. CASE Reject(c) /\ UNCHANGED <<memory, handle>>
  <2>1. FilesOk' /\ MemoryOk' /\ HistoryOk' BY <1>2, <1>5, QuietFits, SendsOff DEF memory, Typed, HistoryOk
  <2>2. QED BY <1>2, <1>3, <1>4, <1>5, <2>1, SentWell, SameHandle, AnsweredStep
<1>6. CASE /\ dirs' = dirs \cup ({p.dir} \ {Root}) /\ handle' = [handle EXCEPT ![c] = [kind |-> "scratch", place |-> p]]
           /\ Sent(c) /\ UNCHANGED <<call, failed, overlapped, lastOf, sidecar, missed>>
           /\ (Insert(p, 0) /\ Dropped(Held(p))) \/ UNCHANGED <<scratch, lost>>
  <2>1. dirs' \subseteq Dirs BY <1>3, <1>6, PathTypes DEF Typed, MemoryOk
  <2>2. MemoryOk' /\ lost' \subseteq Contents'
    <3>1. CASE Insert(p, 0) /\ Dropped(Held(p))
      <4>1. 0 \in Contents' BY <1>4 DEF Contents, Grows
      <4>2. Held(p) \subseteq Maybe(Contents) BY HeldFits DEF Maybe
      <4>3. QED BY <1>2, <1>3, <1>4, <2>1, <3>1, <4>1, <4>2, MemoryInserted, DroppedFits
    <3>2. CASE UNCHANGED <<scratch, lost>> BY <1>4, <2>1, <3>2, MemoryKept DEF Typed, HistoryOk
    <3>3. QED BY <1>6, <3>1, <3>2
  <2>3. HistoryOk' BY <1>2, <1>4, <1>6, <2>2 DEF Typed, HistoryOk
  <2>4. GoodHandle(c)
    <3>1. handle'[c] = [kind |-> "scratch", place |-> p] BY <1>6 DEF Typed
    <3>2. handle'[c] \in ScratchHandles /\ handle'[c].place = p BY <1>3, <3>1 DEF ScratchHandles
    <3>3. QED BY <1>2, <1>6, <3>1, <3>2 DEF GoodHandle
  <2>5. QED BY <1>2, <1>3, <1>4, <1>6, <2>2, <2>3, <2>4, SentWell, AnsweredStep
<1>7. QED BY <1>1, <1>5, <1>6 DEF OpenScratch

LEMMA NoHandleTyped ==
  ASSUME Typed, NEW c \in Clients, NoHandle(c)
  PROVE  Typed'
<1>1. PICK op : Ready(c, op) BY DEF NoHandle
<1>2. /\ handle[c] = None /\ Reject(c)
      /\ UNCHANGED <<file, hist, dirs, scratch, handle, written, faults, overlapped, lost, sidecar, missed>>
  BY SendsOff DEF NoHandle, memory
<1>3. FilesOk' /\ MemoryOk' /\ HistoryOk' /\ Grows BY <1>2, QuietFits, SendsOff DEF Typed, HistoryOk
<1>4. Answered(c) /\ GoodHandle(c) BY <1>1, <1>2, <1>3, SentWell, SameHandle
<1>5. QED BY <1>2, <1>3, <1>4, AnsweredStep

(* Another content is written.                                             *)
LEMMA WritingFits ==
  ASSUME Typed, NEW c \in Clients, Writing(c)
  PROVE  /\ FilesOk' /\ Grows /\ Contents' = Contents \cup {Fresh} /\ Fresh \in Nat /\ sidecar' \subseteq Contents'
         /\ Answered(c) /\ handle[c] # None /\ Req(c).op = "write" /\ handle[c] \in FileHandles \cup ScratchHandles
         /\ sidecar' = (IF IsMeta(Target(handle[c])) THEN sidecar \cup {Fresh} ELSE sidecar)
<1>1. Ready(c, "write") /\ Sent(c) /\ UNCHANGED call /\ handle[c] # None /\ UNCHANGED <<file, hist>> /\ written' = Fresh
  BY DEF Writing
<1>2. written \in Nat /\ FilesOk /\ sidecar \subseteq Contents BY DEF Typed, FilesOk, HistoryOk
<1>3. Contents' = Contents \cup {Fresh} /\ Fresh \in Nat BY <1>1, <1>2 DEF Contents, Fresh
<1>4. Grows
  <2>1. ASSUME NEW i \in Ids PROVE Len(hist[i]) <= Len(hist'[i])
    <3>1. hist[i] \in Seq(Contents) BY <1>2 DEF FilesOk
    <3>2. Len(hist[i]) \in Nat BY <3>1
    <3>3. QED BY <1>1, <3>2
  <2>2. QED BY <1>1, <1>2, <2>1 DEF Grows, Fresh
<1>5. FilesOk'
  <2>1. Contents \subseteq Contents' BY <1>3
  <2>2. hist \in [Ids -> Seq(Contents')] BY <1>2, <2>1 DEF FilesOk
  <2>3. QED BY <1>1, <1>2, <1>3, <2>2 DEF FilesOk, Maybe, Rows
<1>6. sidecar' = (IF IsMeta(Target(handle[c])) THEN sidecar \cup {Fresh} ELSE sidecar) BY DEF Writing
<1>7. sidecar' \subseteq Contents' BY <1>2, <1>3, <1>6
<1>8. Answered(c) /\ Req(c).op = "write" BY <1>1, SentWell, ReadyIs
<1>9. handle[c] \in FileHandles \cup ScratchHandles BY <1>1, ClientTypes DEF HandleFits
<1>10. QED BY <1>1, <1>3, <1>4, <1>5, <1>6, <1>7, <1>8, <1>9

LEMMA WriteTyped ==
  ASSUME Typed, NEW c \in Clients, Write(c)
  PROVE  Typed'
<1>1. /\ FilesOk' /\ Grows /\ Contents' = Contents \cup {Fresh} /\ Fresh \in Nat /\ sidecar' \subseteq Contents'
      /\ Answered(c) /\ handle[c] # None /\ Req(c).op = "write" /\ handle[c] \in FileHandles \cup ScratchHandles
  BY WritingFits DEF Write
<1>2. /\ handle[c].kind = "file" /\ handle' = [handle EXCEPT ![c].buf = Fresh, ![c].dirty = TRUE] /\ UNCHANGED scratch
      /\ Dropped(IF handle[c].dirty THEN {handle[c].buf} ELSE {}) /\ UNCHANGED <<dirs, faults, failed, missed, overlapped>>
  BY DEF Write, Writing
<1>3. PICK g : g = handle[c] OBVIOUS
<1>4. g \in FileHandles BY <1>1, <1>2, <1>3 DEF ScratchHandles
<1>5. PICK n : n = [g EXCEPT !.buf = Fresh, !.dirty = TRUE] OBVIOUS
<1>6. handle' = [handle EXCEPT ![c] = n] /\ handle'[c] = n BY <1>2, <1>3, <1>5 DEF Typed
<1>7. n \in FileHandles' /\ n.kind = "file" /\ g.buf \in Contents BY <1>1, <1>4, <1>5 DEF FileHandles
<1>8. GoodHandle(c) BY <1>6, <1>7 DEF GoodHandle
<1>9. MemoryOk' BY <1>1, <1>2, MemoryKept DEF Typed, MemoryOk
<1>10. lost' \subseteq Contents' BY <1>1, <1>2, <1>3, <1>7, DroppedFits DEF Maybe
<1>11. HistoryOk' BY <1>1, <1>2, <1>10 DEF Typed, HistoryOk
<1>12. QED BY <1>1, <1>8, <1>9, <1>11, AnsweredStep

LEMMA WriteScratchTyped ==
  ASSUME Typed, NEW c \in Clients, WriteScratch(c)
  PROVE  Typed' /\ handle[c].place \in Paths /\ InScratch(handle[c].place)
<1>1. /\ FilesOk' /\ Grows /\ Contents' = Contents \cup {Fresh} /\ Fresh \in Nat /\ sidecar' \subseteq Contents'
      /\ Answered(c) /\ handle[c] # None /\ Req(c).op = "write" /\ handle[c] \in FileHandles \cup ScratchHandles
  BY WritingFits DEF WriteScratch
<1>2. /\ handle[c].kind = "scratch" /\ Insert(handle[c].place, Fresh) /\ Dropped(Held(handle[c].place))
      /\ UNCHANGED <<handle, dirs, faults, failed, missed, overlapped>>
  BY DEF WriteScratch, Writing
<1>3. handle[c].place \in Paths /\ InScratch(handle[c].place)
  BY <1>1, <1>2, ClientTypes DEF ScratchHandles, FileHandles, HandleFits
<1>4. dirs' \subseteq Dirs BY <1>2 DEF Typed, MemoryOk
<1>5. PICK p : p = handle[c].place OBVIOUS
<1>6. PICK k : k = Fresh OBVIOUS
<1>7. p \in Paths /\ InScratch(p) /\ k \in Contents' /\ Insert(p, k) BY <1>1, <1>2, <1>3, <1>5, <1>6
<1>8. MemoryOk' BY <1>1, <1>4, <1>7, MemoryInserted
<1>9. Held(p) \subseteq Maybe(Contents) BY HeldFits DEF Maybe
<1>10. Dropped(Held(p)) BY <1>2, <1>5
<1>11. lost' \subseteq Contents' BY <1>1, <1>9, <1>10, DroppedFits
<1>12. HistoryOk' BY <1>1, <1>2, <1>11 DEF Typed, HistoryOk
<1>13. GoodHandle(c) BY <1>1, <1>2, SameHandle
<1>14. QED BY <1>1, <1>3, <1>8, <1>12, <1>13, AnsweredStep

LEMMA FlushNothingTyped ==
  ASSUME Typed, NEW c \in Clients, FlushNothing(c)
  PROVE  Typed'
<1>1. /\ Ready(c, "flush") /\ handle[c] # None /\ Sent(c)
      /\ UNCHANGED <<file, hist, dirs, scratch, handle, call, written, faults, failed, overlapped, lost, sidecar, missed>>
  BY DEF FlushNothing, memory, history
<1>2. FilesOk' /\ MemoryOk' /\ HistoryOk' /\ Grows BY <1>1, QuietFits DEF Typed, HistoryOk
<1>3. Answered(c) /\ GoodHandle(c) /\ Req(c).op = "flush" BY <1>1, <1>2, SentWell, SameHandle, ReadyIs
<1>4. QED BY <1>1, <1>2, <1>3, AnsweredStep

LEMMA MkDirTyped ==
  ASSUME Typed, NEW c \in Clients, MkDir(c)
  PROVE  Typed'
<1>1. /\ Ready(c, "mkdir") /\ Sent(c) /\ dirs' = dirs \cup {Req(c).path.dir}
      /\ UNCHANGED <<file, hist, scratch, handle, call, written, faults, failed, overlapped, lost, sidecar, missed>>
  BY DEF MkDir, history
<1>2. Req(c) \in Requests /\ Req(c).op = "mkdir" BY <1>1, ReadyIs
<1>3. Req(c).path.dir \in Dirs BY <1>2, RequestTypes
<1>4. FilesOk' /\ Grows /\ Contents' = Contents BY <1>1, FilesKept
<1>5. dirs' \subseteq Dirs BY <1>1, <1>3 DEF Typed, MemoryOk
<1>6. MemoryOk' BY <1>1, <1>4, <1>5, MemoryKept
<1>7. HistoryOk' BY <1>1, <1>4 DEF Typed, HistoryOk
<1>8. Answered(c) /\ GoodHandle(c) BY <1>1, <1>4, SentWell, SameHandle
<1>9. QED BY <1>1, <1>2, <1>4, <1>6, <1>7, <1>8, AnsweredStep

LEMMA UnlinkScratchTyped ==
  ASSUME Typed, NEW c \in Clients, UnlinkScratch(c)
  PROVE  Typed'
<1>1. PICK p : p = Req(c).path OBVIOUS
<1>2. /\ Ready(c, "unlink") /\ Sent(c) /\ Remove(p) /\ Dropped(Held(p))
      /\ UNCHANGED <<file, hist, dirs, handle, call, written, faults, failed, overlapped, sidecar, missed>>
  BY <1>1 DEF UnlinkScratch
<1>3. Req(c).op = "unlink" BY <1>2, ReadyIs
<1>4. FilesOk' /\ Grows /\ Contents' = Contents BY <1>2, FilesKept
<1>5. MemoryOk' BY <1>2, <1>4, MemoryRemoved DEF Remove, Typed, MemoryOk
<1>6. Held(p) \subseteq Maybe(Contents) BY HeldFits DEF Maybe
<1>7. lost' \subseteq Contents' BY <1>2, <1>4, <1>6, DroppedFits
<1>8. HistoryOk' BY <1>2, <1>4, <1>7 DEF Typed, HistoryOk
<1>9. Answered(c) /\ GoodHandle(c) BY <1>2, <1>4, SentWell, SameHandle
<1>10. QED BY <1>2, <1>3, <1>4, <1>5, <1>8, <1>9, AnsweredStep

Moved(p, q, moves) ==
  [x \in (DOMAIN scratch \ {p}) \cup {y \in {q} : moves} |-> IF x = q /\ moves THEN scratch[p] ELSE scratch[x]]
Forgone(p, q, moves) == IF ~moves THEN Held(p) ELSE IF p # q THEN Held(q) ELSE {}

LEMMA RenameScratchDoes ==
  ASSUME Typed, NEW c \in Clients, RenameScratch(c)
  PROVE  /\ Grows /\ FilesOk' /\ MemoryOk' /\ HistoryOk' /\ handle' = handle /\ Answered(c) /\ Req(c).op = "rename"
         /\ From(c) \in Paths /\ To(c) \in Paths
         /\ UNCHANGED <<file, hist, written, overlapped, sidecar>>
         /\ \/ UNCHANGED <<scratch, lost>>
            \/ \E moves \in BOOLEAN :
                 /\ moves => From(c) \in DOMAIN scratch
                 /\ scratch' = Moved(From(c), To(c), moves) /\ Dropped(Forgone(From(c), To(c), moves))
<1>1. PICK p : p = From(c) OBVIOUS
<1>2. PICK q : q = To(c) OBVIOUS
<1>3. Ready(c, "rename") /\ UNCHANGED <<file, hist, handle, written, faults>> BY DEF RenameScratch
<1>4. Req(c) \in Requests /\ Req(c).op = "rename" /\ p \in Paths /\ q \in Paths
  BY <1>1, <1>2, <1>3, ReadyIs, RequestTypes DEF From, To
<1>5. FilesOk' /\ Grows /\ Contents' = Contents BY <1>3, FilesKept
<1>6. CASE Reject(c) /\ UNCHANGED memory
  <2>1. FilesOk' /\ MemoryOk' /\ HistoryOk' BY <1>3, <1>6, QuietFits, SendsOff DEF memory, Typed, HistoryOk
  <2>2. Answered(c) BY <1>3, <1>6, SentWell
  <2>3. QED BY <1>1, <1>2, <1>3, <1>4, <1>5, <1>6, <2>1, <2>2, SendsOff DEF memory
<1>7. ASSUME NEW meta \in BOOLEAN, meta <=> (p.dir = Root /\ IsMeta(p.file)),
             NEW here \in BOOLEAN, here <=> (q.dir = Root /\ IsMeta(q.file)),
             NEW moves \in BOOLEAN, moves <=> (p \in DOMAIN scratch /\ (here \/ ~meta)),
             meta \/ (p.dir # Root /\ (here \/ q.dir # Root)),
             scratch' = Moved(p, q, moves), Dropped(Forgone(p, q, moves)),
             dirs' = IF meta THEN dirs ELSE dirs \cup ({q.dir} \ {Root}),
             Sent(c), UNCHANGED <<call, failed, overlapped, lastOf, sidecar, missed>>
      PROVE  Grows /\ FilesOk' /\ MemoryOk' /\ HistoryOk' /\ Answered(c)
  <2>1. dirs' \subseteq Dirs BY <1>4, <1>7, PathTypes DEF Typed, MemoryOk
  <2>2. moves => InScratch(q) BY <1>7 DEF InScratch
  <2>3. MemoryOk'
    <3>1. DOMAIN scratch' = (DOMAIN scratch \ {p}) \cup {y \in {q} : moves} BY <1>7 DEF Moved
    <3>2. DOMAIN scratch' \subseteq {x \in Paths : InScratch(x)} BY <1>4, <2>2, <3>1 DEF Typed, MemoryOk
    <3>3. ASSUME NEW x \in DOMAIN scratch' PROVE scratch'[x] \in Contents'
      BY <1>5, <1>7, <3>1, <3>3 DEF Moved, Typed, MemoryOk
    <3>4. scratch' = [x \in DOMAIN scratch' |-> scratch'[x]] BY <1>7 DEF Moved
    <3>5. QED BY <2>1, <3>2, <3>3, <3>4 DEF MemoryOk
  <2>4. Forgone(p, q, moves) \subseteq Maybe(Contents) BY HeldFits DEF Maybe, Forgone
  <2>5. lost' \subseteq Contents' BY <1>5, <1>7, <2>4, DroppedFits
  <2>6. HistoryOk' BY <1>3, <1>5, <1>7, <2>5 DEF Typed, HistoryOk
  <2>7. Answered(c) BY <1>3, <1>7, SentWell
  <2>8. QED BY <1>5, <2>3, <2>6, <2>7
<1>8. CASE ~(Reject(c) /\ UNCHANGED memory)
  <2>1. PICK meta \in BOOLEAN : meta <=> (p.dir = Root /\ IsMeta(p.file)) OBVIOUS
  <2>2. PICK here \in BOOLEAN : here <=> (q.dir = Root /\ IsMeta(q.file)) OBVIOUS
  <2>3. PICK moves \in BOOLEAN : moves <=> (p \in DOMAIN scratch /\ (here \/ ~meta)) OBVIOUS
  <2>4. /\ meta \/ (p.dir # Root /\ (here \/ q.dir # Root))
        /\ scratch' = Moved(p, q, moves) /\ Dropped(Forgone(p, q, moves))
        /\ dirs' = (IF meta THEN dirs ELSE dirs \cup ({q.dir} \ {Root}))
        /\ Sent(c) /\ UNCHANGED <<call, failed, overlapped, lastOf, sidecar, missed>>
    BY <1>1, <1>2, <1>8, <2>1, <2>2, <2>3 DEF RenameScratch, Moved, Forgone
  <2>5. Grows /\ FilesOk' /\ MemoryOk' /\ HistoryOk' /\ Answered(c) BY <1>7, <2>1, <2>2, <2>3, <2>4
  <2>6. QED BY <1>1, <1>2, <1>3, <1>4, <2>3, <2>4, <2>5
<1>9. QED BY <1>6, <1>8

LEMMA RenameScratchTyped ==
  ASSUME Typed, NEW c \in Clients, RenameScratch(c)
  PROVE  Typed'
  BY RenameScratchDoes, SameHandle, AnsweredStep

BegunAt(c, d, at, stage, want, found, target, body) ==
  /\ call'[c] = d /\ d.at \in at /\ d.req = Req(c) /\ d.stage = stage /\ d.want = want /\ d.found = found /\ d.target = target
  /\ d.body = body /\ d.left \subseteq DOMAIN scratch

LEMMA SeekBegun ==
  ASSUME Typed, NEW c \in Clients, NEW op \in {"open", "unlink", "rename"}, Ready(c, op), Req(c).path.dir = Root,
         Begin(c, Seek(Req(c).path.file, "from")), FilesOk', MemoryOk', HistoryOk', Grows, UNCHANGED handle
  PROVE  /\ Typed' /\ \E d : BegunAt(c, d, {"byId", "byName"}, "from", Req(c).path.file, None, None, None)
         /\ Req(c).path.file \in Names /\ Req(c) \in Requests
<1>1. PICK q : q = Req(c) OBVIOUS
<1>2. PICK n : n = q.path.file OBVIOUS
<1>3. q \in Requests /\ q.op = op /\ call[c] = Resting /\ call[c].at = "idle" /\ q # None
      /\ (op = "open" => handle[c] = None)
  BY <1>1, ReadyIs
<1>4. n \in Names /\ n # None BY <1>2, <1>3, RequestTypes, PathTypes, NoneOther
<1>5. PICK a : a = IF n.id = None THEN "byName" ELSE "byId" OBVIOUS
<1>6. PICK d : d = Call(a, q, "from", n, None, None, None, {}, None) OBVIOUS
<1>7. With(Asked(q), Seek(n, "from")) = d
  <2>1. PICK r : r = Asked(q) OBVIOUS
  <2>2. r \in Calls /\ r.req = q /\ r.found = None /\ r.target = None /\ r.body = None /\ r.left = {} /\ r.key = None
    BY <1>3, <2>1, AskedIs
  <2>3. With(r, Seek(n, "from")) = Call(a, r.req, "from", n, r.found, r.target, r.body, r.left, r.key)
    BY <1>5, <2>2, WithSeek
  <2>4. QED BY <1>6, <2>1, <2>2, <2>3
<1>8. call' = [call EXCEPT ![c] = d]
  <2>1. PICK e : e = Seek(n, "from") OBVIOUS
  <2>2. Begin(c, e) /\ With(Asked(q), e) = d BY <1>1, <1>2, <1>7, <2>1
  <2>3. QED BY <1>1, <1>3, <2>2 DEF Begin, Asked
<1>9. a \in {"byId", "byName"} /\ (a = "byId" => n.id # None) BY <1>5
<1>10. d.at = a /\ d.req = q /\ d.stage = "from" /\ d.want = n /\ d.found = None /\ d.target = None /\ d.body = None
       /\ d.key = None /\ d.left = {}
  BY <1>6 DEF Call
<1>11. d \in Calls BY <1>3, <1>4, <1>6, <1>9 DEF Calls, Call, Stages, Maybe
<1>12. CallFits(d)
  <2>1. Named(d) BY <1>1, <1>2, <1>3, <1>10 DEF Named
  <2>2. SeekFits(d) BY <1>4, <1>9, <1>10, <2>1 DEF SeekFits
  <2>3. RestFits(d) BY <1>3, <1>9, <1>10 DEF RestFits
  <2>4. QED BY <1>9, <1>10, <2>2, <2>3 DEF CallFits, FoundFits, OpenFits, SaveFits
<1>13. ~Has(d.found) /\ ~Has(d.target) /\ d.at # "idle" BY <1>9, <1>10 DEF Has
<1>14. Sent(c) /\ GoodHandle(c) BY SameHandle DEF Begin
<1>15. Typed' /\ call'[c] = d
  <2>1. d.req = Req(c) /\ (op = "open" => handle'[c] = None) /\ (handle'[c] # None => handle[c] # None /\ op # "close")
        /\ op # "flush"
    BY <1>1, <1>3, <1>10
  <2>2. QED BY <1>8, <1>11, <1>12, <1>13, <1>14, <2>1, BegunStep
<1>16. BegunAt(c, d, {"byId", "byName"}, "from", n, None, None, None) BY <1>1, <1>9, <1>10, <1>15 DEF BegunAt
<1>17. QED BY <1>1, <1>2, <1>3, <1>4, <1>15, <1>16

Unread(id) == [id |-> id, row |-> None]

LEMMA CommitBegun ==
  ASSUME Typed, NEW c \in Clients, NEW op \in {"flush", "close"}, Ready(c, op), Pending(c), Existing(c), CommitBuffer(c),
         FilesOk', MemoryOk', HistoryOk', Grows, op = "flush" => UNCHANGED handle,
         op = "close" => handle' = [handle EXCEPT ![c] = None]
  PROVE  Typed' /\ \E d : BegunAt(c, d, {"commit"}, "from", None, None, Unread(handle[c].id), handle[c].buf)
<1>1. PICK q : q = Req(c) OBVIOUS
<1>2. PICK g : g = handle[c] OBVIOUS
<1>3. q \in Requests /\ q.op = op /\ call[c] = Resting /\ call[c].at = "idle" /\ q # None BY <1>1, ReadyIs
<1>4. g \in FileHandles /\ g.id # None /\ g # None
  BY <1>2, ClientTypes DEF HandleFits, Pending, Existing, ScratchHandles
<1>5. g.id \in Ids /\ g.buf \in Contents /\ g.buf # None
  <2>1. g.id \in Ids /\ g.buf \in Contents BY <1>4 DEF FileHandles
  <2>2. QED BY <2>1, NoneOther DEF Contents, Typed, FilesOk
<1>6. PICK t : t = Unread(g.id) OBVIOUS
<1>7. t \in Copies /\ t # None /\ ~Has(t) /\ t.id = g.id BY <1>5, <1>6, NoneOther DEF Unread, Copies, Has
<1>8. PICK d : d = Call("commit", q, "from", None, None, t, g.buf, {}, None) OBVIOUS
<1>9. call' = [call EXCEPT ![c] = d]
  <2>1. PICK r : r = Asked(q) OBVIOUS
  <2>2. r \in Calls /\ r.req = q /\ r.found = None /\ r.want = None /\ r.left = {} /\ r.key = None /\ r.stage = "from"
    BY <1>3, <2>1, AskedIs
  <2>3. PICK e : e = [at |-> "commit", body |-> g.buf, target |-> t] OBVIOUS
  <2>4. With(r, e) = Call("commit", r.req, r.stage, r.want, r.found, t, g.buf, r.left, r.key)
    BY <2>2, <2>3, WithCommit
  <2>5. Begin(c, e) BY <1>2, <1>6, <2>3 DEF CommitBuffer, Unread
  <2>6. With(Asked(q), e) = d BY <1>8, <2>1, <2>2, <2>4
  <2>7. QED BY <1>1, <1>3, <2>5, <2>6 DEF Begin, Asked
<1>10. d.at = "commit" /\ d.req = q /\ d.stage = "from" /\ d.want = None /\ d.found = None /\ d.target = t /\ d.body = g.buf
       /\ d.key = None /\ d.left = {}
  BY <1>8 DEF Call
<1>11. d \in Calls BY <1>3, <1>5, <1>7, <1>8 DEF Calls, Call, Stages, Maybe
<1>12. CallFits(d)
  <2>1. SaveFits(d) BY <1>3, <1>5, <1>7, <1>10 DEF SaveFits
  <2>2. RestFits(d) BY <1>3, <1>10 DEF RestFits
  <2>3. QED BY <1>10, <2>1, <2>2 DEF CallFits, SeekFits, FoundFits, OpenFits
<1>13. ~Has(d.found) /\ ~Has(d.target) BY <1>7, <1>10 DEF Has
<1>14. GoodHandle(c) /\ (op = "close" => handle'[c] = None)
  <2>1. CASE op = "flush" BY <2>1, SameHandle
  <2>2. CASE op = "close"
    <3>1. handle' = [handle EXCEPT ![c] = None] /\ handle'[c] = None BY <2>2 DEF Typed
    <3>2. QED BY <3>1 DEF GoodHandle
  <2>3. QED BY <2>1, <2>2
<1>15. Sent(c) BY DEF CommitBuffer, Begin
<1>16. handle[c].buf = d.body BY <1>2, <1>10
<1>17. handle'[c] # None => handle[c] # None /\ op # "close" BY <1>2, <1>4, <1>14
<1>18. Typed' /\ call'[c] = d
  <2>1. d.req = Req(c) /\ d.at # "idle" /\ op # "open" BY <1>1, <1>10
  <2>2. QED BY <1>9, <1>11, <1>12, <1>13, <1>14, <1>15, <1>16, <1>17, <2>1, BegunStep
<1>19. BegunAt(c, d, {"commit"}, "from", None, None, Unread(g.id), g.buf) BY <1>1, <1>6, <1>10, <1>18 DEF BegunAt
<1>20. QED BY <1>2, <1>18, <1>19

LEMMA BeginOpenDoes ==
  ASSUME Typed, NEW c \in Clients, BeginOpen(c) \/ BeginRename(c)
  PROVE  /\ Typed' /\ \E d : BegunAt(c, d, {"byId", "byName"}, "from", Req(c).path.file, None, None, None)
         /\ Req(c).path.file \in Names /\ Req(c) \in Requests
<1>1. PICK op \in {"open", "rename"} : Ready(c, op) /\ ((op = "open" /\ ~InScratch(Req(c).path)) \/ Req(c).path.dir = Root)
  BY DEF BeginOpen, BeginRename, From
<1>2. Begin(c, Seek(Req(c).path.file, "from"))
      /\ UNCHANGED <<file, hist, dirs, scratch, handle, written, faults, failed, overlapped, lost, sidecar, missed>>
  BY DEF BeginOpen, BeginRename, From, memory, history
<1>3. Req(c) \in Requests /\ Req(c).op = op BY <1>1, ReadyIs
<1>4. Req(c).path.dir = Root BY <1>1, <1>3, RequestTypes, PathTypes
<1>5. FilesOk' /\ MemoryOk' /\ HistoryOk' /\ Grows BY <1>2, QuietFits DEF Typed, HistoryOk
<1>6. QED BY <1>1, <1>2, <1>4, <1>5, SeekBegun

LEMMA BeginUnlinkDoes ==
  ASSUME Typed, NEW c \in Clients, BeginUnlink(c)
  PROVE  /\ Typed' /\ \E d : BegunAt(c, d, {"byId", "byName"}, "from", Req(c).path.file, None, None, None)
         /\ Req(c).path.file \in Names /\ Req(c) \in Requests
<1>1. PICK p : p = Req(c).path OBVIOUS
<1>2. /\ Ready(c, "unlink") /\ p.dir = Root /\ Begin(c, Seek(p.file, "from"))
      /\ UNCHANGED <<file, hist, dirs, handle, written, faults, failed, overlapped, sidecar, missed>>
      /\ (Remove(p) /\ Dropped(Held(p))) \/ UNCHANGED <<scratch, lost>>
  BY <1>1 DEF BeginUnlink
<1>3. FilesOk' /\ Grows /\ Contents' = Contents BY <1>2, FilesKept
<1>4. dirs' \subseteq Dirs BY <1>2 DEF Typed, MemoryOk
<1>5. MemoryOk' /\ lost' \subseteq Contents'
  <2>1. CASE Remove(p) /\ Dropped(Held(p))
    <3>1. Held(p) \subseteq Maybe(Contents) BY HeldFits DEF Maybe
    <3>2. QED BY <1>3, <1>4, <2>1, <3>1, MemoryRemoved, DroppedFits DEF Remove
  <2>2. CASE UNCHANGED <<scratch, lost>> BY <1>3, <1>4, <2>2, MemoryKept DEF Typed, HistoryOk
  <2>3. QED BY <1>2, <2>1, <2>2
<1>6. HistoryOk' BY <1>2, <1>3, <1>5 DEF Typed, HistoryOk
<1>7. QED BY <1>1, <1>2, <1>3, <1>5, <1>6, SeekBegun

LEMMA BeginFlushDoes ==
  ASSUME Typed, NEW c \in Clients, BeginFlush(c)
  PROVE  Typed' /\ \E d : BegunAt(c, d, {"commit"}, "from", None, None, Unread(handle[c].id), handle[c].buf)
<1>1. /\ Ready(c, "flush") /\ Pending(c) /\ Existing(c) /\ CommitBuffer(c)
      /\ UNCHANGED <<file, hist, dirs, scratch, handle, written, faults, failed, overlapped, lost, sidecar, missed>>
  BY DEF BeginFlush, memory, history
<1>2. FilesOk' /\ MemoryOk' /\ HistoryOk' /\ Grows BY <1>1, QuietFits DEF Typed, HistoryOk
<1>3. QED BY <1>1, <1>2, CommitBegun

LEMMA BeginCloseDoes ==
  ASSUME Typed, NEW c \in Clients, BeginClose(c)
  PROVE  /\ Typed' /\ handle'[c] = None /\ handle[c] # None /\ Req(c).op = "close"
         /\ \/ ~Pending(c) /\ Answered(c)
            \/ Pending(c) /\ \E d : BegunAt(c, d, {"commit"}, "from", None, None, Unread(handle[c].id), handle[c].buf)
            \/ Pending(c) /\ \E d : BegunAt(c, d, {"create"}, "from", handle[c].name, None, None, handle[c].buf)
<1>1. /\ Ready(c, "close") /\ handle[c] # None /\ handle' = [handle EXCEPT ![c] = None]
      /\ UNCHANGED <<file, hist, dirs, scratch, written, faults, failed, overlapped, lost, sidecar, missed>>
  BY DEF BeginClose, memory, history
<1>2. FilesOk' /\ MemoryOk' /\ HistoryOk' /\ Grows BY <1>1, QuietFits DEF Typed, HistoryOk
<1>3. PICK q : q = Req(c) OBVIOUS
<1>4. q \in Requests /\ q.op = "close" /\ call[c] = Resting /\ call[c].at = "idle" /\ q # None BY <1>1, <1>3, ReadyIs
<1>5. handle'[c] = None BY <1>1 DEF Typed
<1>6. GoodHandle(c) BY <1>1, <1>5 DEF GoodHandle
<1>7. CASE ~Pending(c) /\ Sent(c) /\ UNCHANGED call
  <2>1. Answered(c) BY <1>1, <1>7, SentWell
  <2>2. QED BY <1>1, <1>2, <1>3, <1>4, <1>5, <1>6, <1>7, <2>1, AnsweredStep
<1>8. CASE Pending(c) /\ Existing(c) /\ CommitBuffer(c)
  BY <1>1, <1>2, <1>3, <1>4, <1>5, <1>8, CommitBegun
<1>9. CASE Pending(c) /\ Begin(c, [at |-> "create", body |-> handle[c].buf, want |-> handle[c].name])
  <2>1. PICK g : g = handle[c] OBVIOUS
  <2>2. g \in FileHandles BY <1>9, <2>1, ClientTypes DEF HandleFits, Pending, ScratchHandles
  <2>3. g.name \in Names /\ g.buf \in Contents /\ g.name # None /\ g.buf # None
    <3>1. g.name \in Names /\ g.buf \in Contents BY <2>2 DEF FileHandles
    <3>2. QED BY <3>1, NoneOther DEF Contents, Typed, FilesOk
  <2>4. PICK d : d = Call("create", q, "from", g.name, None, None, g.buf, {}, None) OBVIOUS
  <2>5. call' = [call EXCEPT ![c] = d]
    <3>1. PICK r : r = Asked(q) OBVIOUS
    <3>2. /\ r \in Calls /\ r.req = q /\ r.found = None /\ r.target = None /\ r.left = {} /\ r.key = None
          /\ r.stage = "from"
      BY <1>4, <3>1, AskedIs
    <3>3. PICK e : e = [at |-> "create", body |-> g.buf, want |-> g.name] OBVIOUS
    <3>4. With(r, e) = Call("create", r.req, r.stage, g.name, r.found, r.target, g.buf, r.left, r.key)
      BY <3>2, <3>3, WithCreate
    <3>5. Begin(c, e) BY <1>9, <2>1, <3>3
    <3>6. With(Asked(q), e) = d BY <2>4, <3>1, <3>2, <3>4
    <3>7. QED BY <1>3, <1>4, <3>5, <3>6 DEF Begin, Asked
  <2>6. d.at = "create" /\ d.req = q /\ d.stage = "from" /\ d.want = g.name /\ d.found = None /\ d.target = None
        /\ d.body = g.buf /\ d.key = None /\ d.left = {}
    BY <2>4 DEF Call
  <2>7. d \in Calls BY <1>4, <2>3, <2>4 DEF Calls, Call, Stages, Maybe
  <2>8. CallFits(d)
    <3>1. SaveFits(d) BY <1>4, <2>3, <2>6 DEF SaveFits
    <3>2. RestFits(d) BY <1>4, <2>6 DEF RestFits
    <3>3. QED BY <2>6, <3>1, <3>2 DEF CallFits, SeekFits, FoundFits, OpenFits
  <2>9. ~Has(d.found) /\ ~Has(d.target) BY <2>6 DEF Has
  <2>10. Sent(c) /\ d.req = Req(c) /\ d.at # "idle" BY <1>3, <1>9, <2>6 DEF Begin
  <2>11. Typed' /\ call'[c] = d
    <3>1. PICK op : op = "close" OBVIOUS
    <3>2. Ready(c, op) /\ op # "open" /\ op # "flush" BY <1>1, <3>1
    <3>3. QED BY <1>2, <1>5, <1>6, <2>5, <2>7, <2>8, <2>9, <2>10, <3>2, BegunStep
  <2>12. BegunAt(c, d, {"create"}, "from", g.name, None, None, g.buf) BY <2>6, <2>10, <2>11 DEF BegunAt
  <2>13. QED BY <1>1, <1>3, <1>4, <1>5, <1>9, <2>1, <2>11, <2>12
<1>10. QED BY <1>7, <1>8, <1>9 DEF BeginClose

LEMMA BeginRmDirDoes ==
  ASSUME Typed, NEW c \in Clients, BeginRmDir(c)
  PROVE  /\ Typed' /\ Req(c) \in Requests
         /\ \/ Answered(c)
            \/ \E d : BegunAt(c, d, {"salvage"}, "from", None, None, None, None)
<1>1. /\ Ready(c, "rmdir")
      /\ UNCHANGED <<file, hist, dirs, scratch, handle, written, faults, failed, overlapped, lost, sidecar, missed>>
  BY DEF BeginRmDir, memory, history
<1>2. FilesOk' /\ MemoryOk' /\ HistoryOk' /\ Grows BY <1>1, QuietFits DEF Typed, HistoryOk
<1>3. PICK q : q = Req(c) OBVIOUS
<1>4. q \in Requests /\ q.op = "rmdir" /\ call[c] = Resting /\ call[c].at = "idle" /\ q # None BY <1>1, <1>3, ReadyIs
<1>5. GoodHandle(c) BY <1>1, <1>2, SameHandle
<1>6. CASE Sent(c) /\ UNCHANGED call
  <2>1. Answered(c) BY <1>1, <1>6, SentWell
  <2>2. QED BY <1>1, <1>2, <1>3, <1>4, <1>5, <2>1, AnsweredStep
<1>7. CASE Begin(c, [at |-> "salvage", left |-> InDir(q.path.dir)])
  <2>1. PICK l : l = InDir(q.path.dir) OBVIOUS
  <2>2. l \subseteq DOMAIN scratch /\ l \subseteq Paths BY <2>1 DEF InDir, Typed, MemoryOk
  <2>3. PICK d : d = Call("salvage", q, "from", None, None, None, None, l, None) OBVIOUS
  <2>4. call' = [call EXCEPT ![c] = d]
    <3>1. PICK r : r = Asked(q) OBVIOUS
    <3>2. /\ r \in Calls /\ r.req = q /\ r.found = None /\ r.target = None /\ r.body = None /\ r.want = None
          /\ r.key = None /\ r.stage = "from"
      BY <1>4, <3>1, AskedIs
    <3>3. PICK e : e = [at |-> "salvage", left |-> l] OBVIOUS
    <3>4. With(r, e) = Call("salvage", r.req, r.stage, r.want, r.found, r.target, r.body, l, r.key)
      BY <3>2, <3>3, WithLeft
    <3>5. Begin(c, e) BY <1>7, <2>1, <3>3
    <3>6. With(Asked(q), e) = d BY <2>3, <3>1, <3>2, <3>4
    <3>7. QED BY <1>3, <1>4, <3>5, <3>6 DEF Begin, Asked
  <2>5. d.at = "salvage" /\ d.req = q /\ d.stage = "from" /\ d.want = None /\ d.found = None /\ d.target = None
        /\ d.body = None /\ d.key = None /\ d.left = l
    BY <2>3 DEF Call
  <2>6. d \in Calls BY <1>4, <2>2, <2>3 DEF Calls, Call, Stages, Maybe
  <2>7. CallFits(d) BY <1>4, <2>5 DEF CallFits, SeekFits, FoundFits, OpenFits, SaveFits, RestFits
  <2>8. ~Has(d.found) /\ ~Has(d.target) BY <2>5 DEF Has
  <2>9. Sent(c) /\ d.req = Req(c) /\ d.at # "idle" /\ (handle'[c] # None => handle[c] # None)
    BY <1>1, <1>3, <1>7, <2>5 DEF Begin
  <2>10. Typed' /\ call'[c] = d
    <3>1. PICK op : op = "rmdir" OBVIOUS
    <3>2. Ready(c, op) /\ op # "open" /\ op # "flush" /\ op # "close" BY <1>1, <3>1
    <3>3. QED BY <1>2, <1>5, <2>4, <2>6, <2>7, <2>8, <2>9, <3>2, BegunStep
  <2>11. BegunAt(c, d, {"salvage"}, "from", None, None, None, None) BY <2>2, <2>5, <2>9, <2>10 DEF BegunAt
  <2>12. QED BY <1>3, <1>4, <2>10, <2>11
<1>8. QED BY <1>3, <1>6, <1>7 DEF BeginRmDir

LEMMA BeginFoldDoes ==
  ASSUME Typed, NEW c \in Clients, BeginFold(c)
  PROVE  /\ Typed' /\ Req(c) \in Requests /\ UNCHANGED <<file, hist, memory, handle, written, overlapped, lost, sidecar>>
         /\ ~IsMeta(To(c).file) /\ To(c).file \in Names /\ From(c).dir # Root
         /\ \/ Answered(c)
            \/ /\ From(c) \in DOMAIN scratch
               /\ \E d : BegunAt(c, d, {"byId", "byName"}, "fold", To(c).file, None, None, scratch[From(c)])
<1>1. /\ Ready(c, "rename") /\ From(c).dir # Root /\ To(c).dir = Root /\ ~IsMeta(To(c).file)
      /\ UNCHANGED <<file, hist, dirs, scratch, handle, written, faults>>
  BY DEF BeginFold, memory
<1>2. UNCHANGED <<overlapped, lost, sidecar, missed>> /\ failed' \in {failed, failed \cup {c}}
  BY SendsOff DEF BeginFold, history
<1>3. FilesOk' /\ MemoryOk' /\ HistoryOk' /\ Grows BY <1>1, <1>2, QuietFits DEF Typed, HistoryOk
<1>4. PICK q : q = Req(c) OBVIOUS
<1>5. PICK p : p = q.path OBVIOUS
<1>6. PICK n : n = q.to.file OBVIOUS
<1>7. q \in Requests /\ q.op = "rename" /\ call[c] = Resting /\ call[c].at = "idle" /\ q # None BY <1>1, <1>4, ReadyIs
<1>8. p \in Paths /\ p # None /\ n \in Names /\ n # None
  BY <1>5, <1>6, <1>7, RequestTypes, PathTypes, NoneOther
<1>9. From(c) = p /\ To(c).file = n /\ To(c) = q.to BY <1>4, <1>5, <1>6 DEF From, To
<1>10. GoodHandle(c) BY <1>1, <1>3, SameHandle
<1>11. CASE Reject(c)
  <2>1. Answered(c) BY <1>1, <1>11, SentWell
  <2>2. QED BY <1>1, <1>2, <1>3, <1>4, <1>7, <1>8, <1>9, <1>10, <2>1, AnsweredStep DEF memory
<1>12. CASE p \in DOMAIN scratch /\ Begin(c, StartFold(p, n))
  <2>1. PICK b : b = scratch[p] OBVIOUS
  <2>2. b \in Contents /\ b # None BY <1>12, <2>1, NoneOther DEF Typed, MemoryOk, FilesOk, Contents
  <2>3. PICK a : a = IF n.id = None THEN "byName" ELSE "byId" OBVIOUS
  <2>4. a \in {"byId", "byName"} /\ (a = "byId" => n.id # None) BY <2>3
  <2>5. PICK d : d = Call(a, q, "fold", n, None, None, b, {}, p) OBVIOUS
  <2>6. call' = [call EXCEPT ![c] = d]
    <3>1. PICK r : r = Asked(q) OBVIOUS
    <3>2. r \in Calls /\ r.req = q /\ r.found = None /\ r.target = None /\ r.left = {}
      BY <1>7, <3>1, AskedIs
    <3>3. With(r, With(Seek(n, "fold"), [key |-> p, body |-> b])) =
            Call(a, r.req, "fold", n, r.found, r.target, b, r.left, p)
      <4>1. r \in Calls BY <3>2
      <4>2. QED BY <2>3, <4>1, WithSeekFold
    <3>4. PICK e : e = With(Seek(n, "fold"), [key |-> p, body |-> b]) OBVIOUS
    <3>5. With(r, e) = d BY <2>5, <3>2, <3>3, <3>4
    <3>6. StartFold(p, n) = e BY <2>1, <3>4 DEF StartFold
    <3>7. Begin(c, e) BY <1>12, <3>6
    <3>8. With(Asked(q), e) = d BY <3>1, <3>5
    <3>9. QED BY <1>4, <1>7, <3>7, <3>8 DEF Begin, Asked
  <2>7. d.at = a /\ d.req = q /\ d.stage = "fold" /\ d.want = n /\ d.found = None /\ d.target = None
        /\ d.body = b /\ d.key = p /\ d.left = {}
    BY <2>5 DEF Call
  <2>8. d \in Calls BY <1>7, <1>8, <2>2, <2>4, <2>5 DEF Calls, Call, Stages, Maybe
  <2>9. CallFits(d)
    <3>1. Folding(d) BY <1>1, <1>6, <1>7, <1>8, <1>9, <2>2, <2>7 DEF Folding
    <3>2. SeekFits(d) BY <1>8, <2>4, <2>7, <3>1 DEF SeekFits
    <3>3. RestFits(d) BY <1>7, <2>4, <2>7 DEF RestFits
    <3>4. QED BY <2>4, <2>7, <3>2, <3>3 DEF CallFits, FoundFits, OpenFits, SaveFits
  <2>10. ~Has(d.found) /\ ~Has(d.target) BY <2>7 DEF Has
  <2>11. Sent(c) /\ d.req = Req(c) /\ d.at # "idle" /\ (handle'[c] # None => handle[c] # None)
    BY <1>1, <1>4, <1>12, <2>4, <2>7 DEF Begin
  <2>12. Typed' /\ call'[c] = d
    <3>1. PICK op : op = "rename" OBVIOUS
    <3>2. Ready(c, op) /\ op # "open" /\ op # "flush" /\ op # "close" BY <1>1, <3>1
    <3>3. QED BY <1>3, <1>10, <2>6, <2>8, <2>9, <2>10, <2>11, <3>2, BegunStep
  <2>13. BegunAt(c, d, {"byId", "byName"}, "fold", n, None, None, b) BY <2>4, <2>7, <2>11, <2>12 DEF BegunAt
  <2>14. QED BY <1>1, <1>2, <1>4, <1>7, <1>8, <1>9, <1>12, <2>1, <2>12, <2>13 DEF memory
<1>13. QED BY <1>9, <1>11, <1>12 DEF BeginFold

LEMMA TakeTyped ==
  ASSUME Typed, NEW c \in Clients, Take(c)
  PROVE  Typed'
  BY OpenScratchTyped, BeginOpenDoes, NoHandleTyped, WriteTyped, WriteScratchTyped, FlushNothingTyped, BeginFlushDoes,
     BeginCloseDoes, MkDirTyped, BeginRmDirDoes, UnlinkScratchTyped, BeginUnlinkDoes, RenameScratchTyped, BeginFoldDoes
  DEF Take

-----------------------------------------------------------------------------
(* Faults, and the whole.                                                  *)

LEMMA OneMore == ASSUME Typed, Fault PROVE faults' \in 0..MaxFaults
<1>1. faults \in Nat /\ MaxFaults \in Nat BY SmbAllAssumption DEF Typed, HistoryOk
<1>2. QED BY <1>1 DEF Fault

LEMMA Closing ==
  ASSUME NEW s, s = <<[op |-> "close"]>>
  PROVE  s \in Seq(Requests) /\ OneOpen(s) /\ Closes(s)
<1>1. PICK q : q = [op |-> "close"] OBVIOUS
<1>2. q \in Requests /\ q.op = "close" BY <1>1 DEF Requests
<1>3. s = <<q>> BY <1>1
<1>4. s \in Seq(Requests) /\ DOMAIN s = {1} /\ s[1] = q BY <1>2, <1>3
<1>5. \A j \in DOMAIN s : s[j].op # "open" BY <1>2, <1>4
<1>6. QED BY <1>4, <1>5 DEF OneOpen, Closes

LEMMA DisconnectTyped ==
  ASSUME Typed, NEW c \in Clients, Disconnect(c)
  PROVE  Typed'
<1>1. /\ UNCHANGED <<file, hist, dirs, scratch, handle, call, written, overlapped, lost, sidecar, missed>>
      /\ failed' = failed \cup {c} /\ call[c].at = "idle"
      /\ todo' = [todo EXCEPT ![c] = IF handle[c] = None THEN <<>> ELSE <<[op |-> "close"]>>]
  BY DEF Disconnect, memory
<1>2. faults' \in 0..MaxFaults BY OneMore DEF Disconnect
<1>3. FilesOk' /\ Grows /\ Contents' = Contents BY <1>1, FilesKept
<1>4. MemoryOk' BY <1>1, <1>3, MemoryKept DEF Typed, MemoryOk
<1>5. HistoryOk' BY <1>1, <1>2, <1>3 DEF Typed, HistoryOk
<1>6. todo'[c] \in {<<>>, <<[op |-> "close"]>>} /\ todo' = [todo EXCEPT ![c] = todo'[c]] BY <1>1 DEF Typed
<1>7. todo'[c] \in Seq(Requests) /\ OneOpen(todo'[c]) /\ Closes(todo'[c]) BY <1>6, Closing, NothingLeft
<1>8. SendsWell(c)' BY <1>7 DEF SendsWell
<1>9. GoodHandle(c) BY <1>1, <1>3, SameHandle
<1>10. HandleFits(c)' BY <1>1, <1>9 DEF HandleFits, GoodHandle, Doing
<1>11. CallOk(c)'
  <2>1. CallOk(c) BY DEF Typed, ClientOk
  <2>2. call[c] \in Calls' BY <1>3, <2>1, CallsGrow DEF Typed, FilesOk, CallOk
  <2>3. QED BY <1>1, <2>1, <2>2 DEF CallOk
<1>12. Only(c) BY <1>1, <1>6, <1>9 DEF Only, GoodHandle, Typed
<1>13. QED BY <1>3, <1>4, <1>5, <1>8, <1>10, <1>11, <1>12, ClientStep DEF ClientOk

LEMMA InMemoryFits == ASSUME Typed PROVE InMemory \subseteq Maybe(Contents)
<1>1. ASSUME NEW c \in Clients PROVE Buffered(c) \cup {call[c].body} \subseteq Maybe(Contents)
  <2>1. Buffered(c) \subseteq Contents
    <3>1. SUFFICES ASSUME Pending(c) PROVE handle[c].buf \in Contents BY DEF Buffered
    <3>2. handle[c] \in FileHandles BY <3>1, ClientTypes DEF HandleFits, Pending, ScratchHandles
    <3>3. QED BY <3>2 DEF FileHandles
  <2>2. QED BY <2>1, CallTypes DEF Maybe
<1>2. {scratch[p] : p \in DOMAIN scratch} \subseteq Contents BY DEF Typed, MemoryOk
<1>3. UNION {Buffered(c) \cup {call[c].body} : c \in Clients} \subseteq Maybe(Contents) BY <1>1
<1>4. Contents \subseteq Maybe(Contents) BY DEF Maybe
<1>5. QED BY <1>2, <1>3, <1>4 DEF InMemory

LEMMA CrashTyped ==
  ASSUME Typed, Crash
  PROVE  Typed'
<1>1. /\ UNCHANGED <<file, hist, written, overlapped, sidecar, missed>> /\ dirs' = {} /\ scratch' = <<>>
      /\ handle' = [c \in Clients |-> None] /\ call' = [c \in Clients |-> Resting] /\ todo' = [c \in Clients |-> <<>>]
      /\ failed' = Clients /\ Dropped(InMemory)
  BY DEF Crash
<1>2. faults' \in 0..MaxFaults BY OneMore DEF Crash
<1>3. FilesOk' /\ Grows /\ Contents' = Contents BY <1>1, FilesKept
<1>4. MemoryOk'
  <2>1. DOMAIN scratch' = {} BY <1>1
  <2>2. scratch' = [x \in DOMAIN scratch' |-> scratch'[x]] BY <1>1
  <2>3. QED BY <1>1, <2>1, <2>2 DEF MemoryOk
<1>5. lost' \subseteq Contents' BY <1>1, <1>3, InMemoryFits, DroppedFits
<1>6. HistoryOk' BY <1>1, <1>2, <1>3, <1>5 DEF Typed, HistoryOk
<1>7. ASSUME NEW c \in Clients PROVE ClientOk(c)'
  <2>1. call'[c] = Resting /\ handle'[c] = None /\ todo'[c] = <<>> BY <1>1
  <2>2. Resting.at = "idle" BY DEF Resting
  <2>3. CallOk(c)'
    <3>1. Resting \in Calls' BY <1>3, RestingFits, CallsGrow DEF Typed, FilesOk
    <3>2. QED BY <2>1, <3>1, RestingFits DEF CallOk
  <2>4. SendsWell(c)' BY <2>1, NothingLeft DEF SendsWell
  <2>5. HandleFits(c)' BY <2>1, <2>2 DEF HandleFits, Doing
  <2>6. QED BY <2>3, <2>4, <2>5 DEF ClientOk
<1>8. QED BY <1>1, <1>3, <1>4, <1>6, <1>7 DEF Typed

LEMMA PurgeTyped ==
  ASSUME Typed, NEW i \in Ids, Purge(i)
  PROVE  Typed'
<1>1. /\ UNCHANGED <<hist, dirs, scratch, handle, call, todo, written, failed, overlapped, sidecar, missed>>
      /\ file' = [file EXCEPT ![i] = None] /\ Dropped({hist[i][k] : k \in 1..Len(hist[i])})
  BY DEF Purge, memory
<1>2. faults' \in 0..MaxFaults BY OneMore DEF Purge
<1>3. Contents' = Contents BY <1>1 DEF Contents
<1>4. FilesOk' BY <1>1, <1>3 DEF Typed, FilesOk, Maybe, Rows
<1>5. Grows
  <2>1. ASSUME NEW j \in Ids PROVE Len(hist[j]) <= Len(hist'[j])
    <3>1. hist[j] \in Seq(Contents) BY DEF Typed, FilesOk
    <3>2. Len(hist[j]) \in Nat BY <3>1
    <3>3. QED BY <1>1, <3>2
  <2>2. QED BY <1>1, <2>1 DEF Grows, Typed, FilesOk
<1>6. MemoryOk' BY <1>1, <1>5, MemoryKept DEF Typed, MemoryOk
<1>7. HistoryOk'
  <2>1. hist[i] \in Seq(Contents) BY DEF Typed, FilesOk
  <2>2. {hist[i][k] : k \in 1..Len(hist[i])} \subseteq Maybe(Contents) BY <2>1 DEF Maybe
  <2>3. lost' \subseteq Contents' BY <1>1, <1>5, <2>2, DroppedFits
  <2>4. QED BY <1>1, <1>2, <1>3, <2>3 DEF Typed, HistoryOk
<1>8. ASSUME NEW c \in Clients PROVE ClientOk(c)'
  <2>1. CallOk(c) /\ SendsWell(c) /\ HandleFits(c) BY <1>8 DEF Typed, ClientOk
  <2>2. call'[c] = call[c] /\ handle'[c] = handle[c] /\ todo'[c] = todo[c] /\ hist' = hist BY <1>1
  <2>3. CallOk(c)'
    <3>1. call[c] \in Calls' BY <1>5, <2>1, CallsGrow DEF Typed, FilesOk, CallOk
    <3>2. QED BY <2>1, <2>2, <3>1 DEF CallOk
  <2>4. SendsWell(c)' BY <2>1, <2>2 DEF SendsWell, Doing, Op
  <2>5. HandleFits(c)'
    <3>1. FileHandles' = FileHandles BY <1>3 DEF FileHandles
    <3>2. QED BY <2>1, <2>2, <3>1 DEF HandleFits, Doing, Op, Pending, Existing
  <2>6. QED BY <2>3, <2>4, <2>5 DEF ClientOk
<1>9. QED BY <1>1, <1>4, <1>6, <1>7, <1>8 DEF Typed

LEMMA InitTyped == Init => Typed
<1>1. SUFFICES ASSUME Init PROVE Typed OBVIOUS
<1>2. PICK row : row = [name |-> Plain(FirstText), deleted |-> FALSE, head |-> 1, size |-> 0] OBVIOUS
<1>3. /\ FirstId \in Ids /\ FirstText \in Texts /\ MaxFaults \in Nat BY SmbAllAssumption
<1>4. row \in Rows /\ row.head = 1 BY <1>2, <1>3 DEF Rows, Names, Plain
<1>5. FilesOk
  <2>1. written = 1 /\ file = [i \in Ids |-> IF i = FirstId THEN row ELSE None]
        /\ hist = [i \in Ids |-> IF i = FirstId THEN <<1>> ELSE <<>>]
    BY <1>1, <1>2 DEF Init
  <2>2. <<1>> \in Seq(Contents) /\ <<>> \in Seq(Contents) BY <2>1 DEF Contents
  <2>3. \A i \in Ids : file[i] # None => file[i] = row /\ hist[i] = <<1>> BY <2>1
  <2>4. row.head \in 1..Len(<<1>>) BY <1>4
  <2>5. QED BY <1>4, <2>1, <2>2, <2>3, <2>4 DEF FilesOk, Maybe
<1>6. MemoryOk
  <2>1. dirs = {} /\ scratch = <<>> /\ DOMAIN scratch = {} BY <1>1 DEF Init
  <2>2. scratch = [x \in DOMAIN scratch |-> scratch[x]] BY <2>1
  <2>3. QED BY <2>1, <2>2 DEF MemoryOk
<1>7. HistoryOk
  <2>1. faults \in 0..MaxFaults BY <1>1, <1>3 DEF Init
  <2>2. failed = {} /\ missed = FALSE /\ overlapped = {} /\ lost = {} /\ sidecar = {} BY <1>1 DEF Init
  <2>3. QED BY <2>1, <2>2 DEF HistoryOk
<1>8. /\ handle = [c \in Clients |-> None] /\ call = [c \in Clients |-> Resting] /\ DOMAIN todo = Clients
      /\ todo = [c \in Clients |-> todo[c]]
  BY <1>1 DEF Init
<1>9. ASSUME NEW c \in Clients PROVE ClientOk(c)
  <2>1. call[c] = Resting /\ handle[c] = None /\ Resting.at = "idle" BY <1>8 DEF Resting
  <2>2. CallOk(c) BY <1>5, <2>1, RestingFits DEF CallOk, FilesOk
  <2>3. todo[c] \in Seq(Requests) /\ OneOpen(todo[c]) BY <1>1, ProgramsAssumption DEF Init
  <2>4. SendsWell(c) BY <2>1, <2>3 DEF SendsWell, Doing
  <2>5. HandleFits(c) BY <2>1 DEF HandleFits, Doing
  <2>6. QED BY <2>2, <2>4, <2>5 DEF ClientOk
<1>10. QED BY <1>5, <1>6, <1>7, <1>8, <1>9 DEF Typed

LEMMA StillTyped == Typed /\ UNCHANGED vars => Typed'
<1>1. SUFFICES ASSUME Typed, UNCHANGED vars PROVE Typed' OBVIOUS
<1>2. UNCHANGED <<file, hist, dirs, scratch, handle, call, todo, written, faults, failed, missed, overlapped, lost, sidecar>>
  BY <1>1 DEF vars, memory, history
<1>3. Contents' = Contents BY <1>2 DEF Contents
<1>4. FilesOk' /\ MemoryOk' /\ HistoryOk'
  BY <1>1, <1>2, <1>3 DEF Typed, FilesOk, MemoryOk, HistoryOk
<1>5. ASSUME NEW c \in Clients PROVE ClientOk(c)'
  <2>1. Calls' = Calls /\ FileHandles' = FileHandles BY <1>3 DEF Calls, FileHandles, Copies, Rows
  <2>2. CallOk(c) /\ SendsWell(c) /\ HandleFits(c) BY <1>1, <1>5 DEF Typed, ClientOk
  <2>3. CallOk(c)' BY <1>2, <2>1, <2>2 DEF CallOk
  <2>4. SendsWell(c)' BY <1>2, <2>2 DEF SendsWell, Doing, Op
  <2>5. HandleFits(c)' BY <1>2, <2>1, <2>2 DEF HandleFits, Doing, Op, Pending, Existing
  <2>6. QED BY <2>3, <2>4, <2>5 DEF ClientOk
<1>6. QED BY <1>1, <1>2, <1>4, <1>5 DEF Typed

LEMMA NextTyped == Typed /\ [Next]_vars => Typed'
<1>1. SUFFICES ASSUME Typed, [Next]_vars PROVE Typed' OBVIOUS
<1>2. CASE UNCHANGED vars BY <1>1, <1>2, StillTyped
<1>3. CASE Next
  <2>1. ASSUME NEW c \in Clients, Take(c) \/ Serve(c) \/ Refuse(c) \/ Disconnect(c) PROVE Typed'
    BY <1>1, <2>1, TakeTyped, ServeTyped, DisconnectTyped
  <2>2. QED BY <1>1, <1>3, <2>1, CrashTyped, PurgeTyped DEF Next
<1>4. QED BY <1>1, <1>2, <1>3

LEMMA TypedMeansTypeOK == Typed => TypeOK
<1>1. SUFFICES ASSUME Typed PROVE TypeOK OBVIOUS
<1>2. /\ file \in [Ids -> Rows \cup {None}] /\ hist \in [Ids -> Seq(Contents)]
      /\ \A i \in Ids : file[i] # None => file[i].head \in 1..Len(hist[i])
  BY <1>1 DEF Typed, FilesOk, Maybe
<1>3. /\ dirs \subseteq Dirs /\ DOMAIN scratch \subseteq {p \in Paths : InScratch(p)}
      /\ \A p \in DOMAIN scratch : scratch[p] \in Contents
  BY <1>1 DEF Typed, MemoryOk
<1>4. handle \in [Clients -> FileHandles \cup ScratchHandles \cup {None}]
  <2>1. \A c \in Clients : handle[c] \in FileHandles \cup ScratchHandles \cup {None}
    BY <1>1, ClientTypes DEF HandleFits
  <2>2. handle = [c \in Clients |-> handle[c]] BY <1>1 DEF Typed
  <2>3. QED BY <2>1, <2>2
<1>5. \A c \in Clients :
       /\ call[c].stage \in {"from", "to", "check", "fold"}
       /\ call[c].found \in Copies \cup {None} /\ call[c].target \in Copies \cup {None}
       /\ call[c].body \in Contents \cup {None} /\ call[c].left \subseteq Paths
       /\ call[c].want \in Names \cup {None} /\ call[c].key \in Paths \cup {None}
  BY <1>1, ClientTypes DEF Calls, Maybe
<1>6. /\ faults \in 0..MaxFaults /\ failed \subseteq Clients /\ missed \in BOOLEAN /\ overlapped \subseteq Ids
      /\ lost \subseteq Contents /\ sidecar \subseteq Contents
  BY <1>1 DEF Typed, HistoryOk
<1>7. QED BY <1>2, <1>3, <1>4, <1>5, <1>6 DEF TypeOK

(* Every request is worked off on copies and contents that there are, and  *)
(* scratch entries are under scratch directories or names of metadata.     *)
THEOREM AllTyped == Spec => []TypeOK
<1>1. Init => Typed BY InitTyped
<1>2. Typed /\ [Next]_vars => Typed' BY NextTyped
<1>3. Typed => TypeOK BY TypedMeansTypeOK
<1>4. QED BY <1>1, <1>2, <1>3, PTL DEF Spec

-----------------------------------------------------------------------------
(* Rows and copies of them.  As long as nobody has overlapped, a copy in   *)
(* hand is the row, but for the size that is about to be put right, for a  *)
(* target that will be read again, and for one that has just been written. *)

Current(i) == file[i] # None /\ i \notin overlapped
InStep(r) ==
  /\ Has(r.found) /\ Current(r.found.id) /\ r.at # "healing" => r.found.row = file[r.found.id]
  /\ Has(r.found) /\ Current(r.found.id) /\ r.at = "healing" =>
       r.found.row = [file[r.found.id] EXCEPT !.size = r.body]
  /\ Has(r.target) /\ Current(r.target.id) /\ r.at \notin {"commit", "retire"} => r.target.row = file[r.target.id]
  /\ r.at \in {"opening", "healing"} /\ Current(r.found.id) => r.body = Content(r.found.id)
HeadInv == Typed /\ HeadIsLatest /\ \A c \in Clients : InStep(call[c])

LEMMA BareInStep ==
  ASSUME NEW r, ~Has(r.found), ~Has(r.target), r.at \notin {"opening", "healing"}
  PROVE  InStep(r) /\ InStep(r)'
  BY DEF InStep, Has

LEMMA EndedInStep ==
  ASSUME NEW c \in Clients, Ended(c)
  PROVE  InStep(call[c])'
<1>1. PICK d : d = call'[c] OBVIOUS
<1>2. ~Has(d.found) /\ ~Has(d.target) /\ d.at \notin {"opening", "healing"} BY <1>1 DEF Ended, Has, Resting
<1>3. InStep(d)' BY <1>2, BareInStep
<1>4. QED BY <1>1, <1>3 DEF InStep, Current, Content

LEMMA QuietInStep ==
  ASSUME HeadInv, NEW c \in Clients, Only(c), UNCHANGED <<file, hist, overlapped>>, InStep(call[c])', Typed'
  PROVE  HeadInv'
<1>1. ASSUME NEW x \in Clients PROVE InStep(call[x])'
  <2>1. CASE x = c BY <2>1
  <2>2. CASE x # c
    <3>1. call'[x] = call[x] BY <2>2 DEF Only, HeadInv, Typed
    <3>2. InStep(call[x]) BY DEF HeadInv
    <3>3. QED BY <3>1, <3>2 DEF InStep, Current, Content
  <2>3. QED BY <2>1, <2>2
<1>2. HeadIsLatest' BY DEF HeadInv, HeadIsLatest, Content
<1>3. QED BY <1>1, <1>2 DEF HeadInv

(* One row is written and one history may grow: whoever else holds the row *)
(* makes the file one of the overlapped.                                   *)
LEMMA WriteInStep ==
  ASSUME HeadInv, NEW c \in Clients, Only(c), NEW i \in Ids, NEW row, row # None, WriteRow(c, i, row),
         \A j \in Ids \ {i} : hist'[j] = hist[j],
         i \notin overlapped' => row.head = Len(hist'[i]) /\ row.size \in {hist'[i][row.head], 0},
         InStep(call[c])', Typed'
  PROVE  HeadInv'
<1>1. /\ file'[i] = row /\ \A j \in Ids \ {i} : file'[j] = file[j]
      /\ overlapped \subseteq overlapped' /\ \A j \in Ids \ {i} : j \in overlapped' => j \in overlapped
      /\ (\E x \in Clients \ {c} : Holds(x, i)) => i \in overlapped'
  BY DEF WriteRow, HeadInv, Typed, FilesOk
<1>2. \A j \in Ids \ {i} : (Current(j)' <=> Current(j)) /\ Content(j)' = Content(j)
  BY <1>1 DEF Current, Content
<1>3. ASSUME NEW x \in Clients PROVE InStep(call[x])'
  <2>1. CASE x = c BY <2>1
  <2>2. CASE x # c
    <3>1. PICK r : r = call[x] OBVIOUS
    <3>2. call'[x] = r BY <2>2, <3>1 DEF Only, HeadInv, Typed
    <3>3. InStep(r) BY <3>1 DEF HeadInv
    <3>4. OpenFits(r) /\ r.found \in Maybe(Copies) /\ r.target \in Maybe(Copies)
      BY <3>1, CallTypes DEF HeadInv
    <3>5. (Has(r.found) /\ r.found.id = i) \/ (Has(r.target) /\ r.target.id = i) => Holds(x, i)
      BY <3>1 DEF Has, Holds
    <3>6. (Has(r.found) /\ r.found.id = i) \/ (Has(r.target) /\ r.target.id = i) => ~Current(i)'
      BY <1>1, <2>2, <3>5 DEF Current
    <3>7. r.at \in {"opening", "healing"} => Has(r.found) BY <3>4 DEF OpenFits
    <3>8. (Has(r.found) => r.found.id \in Ids) /\ (Has(r.target) => r.target.id \in Ids)
      BY <3>4, CopyTypes DEF Maybe, Has
    <3>9. Has(r.found) /\ Current(r.found.id)' =>
            file'[r.found.id] = file[r.found.id] /\ Current(r.found.id) /\ Content(r.found.id)' = Content(r.found.id)
      BY <1>1, <1>2, <3>6, <3>8
    <3>10. Has(r.target) /\ Current(r.target.id)' => file'[r.target.id] = file[r.target.id] /\ Current(r.target.id)
      BY <1>1, <1>2, <3>6, <3>8
    <3>11. InStep(r)' BY <3>3, <3>7, <3>9, <3>10 DEF InStep
    <3>12. QED BY <3>2, <3>11 DEF InStep, Current, Content
  <2>3. QED BY <2>1, <2>2
<1>4. HeadIsLatest'
  <2>1. SUFFICES ASSUME NEW j \in Ids, Current(j)'
                 PROVE  file'[j].head = Len(hist'[j]) /\ file'[j].size \in {hist'[j][file'[j].head], 0}
    BY DEF HeadIsLatest, Current, Content
  <2>2. CASE j = i BY <1>1, <2>1, <2>2 DEF Current
  <2>3. CASE j # i
    <3>1. Current(j) /\ file'[j] = file[j] /\ hist'[j] = hist[j] BY <1>1, <1>2, <2>1, <2>3
    <3>2. QED BY <3>1 DEF HeadInv, HeadIsLatest, Current, Content
  <2>4. QED BY <2>2, <2>3
<1>5. QED BY <1>3, <1>4 DEF HeadInv

LEMMA OnlyOne ==
  ASSUME Typed, NEW c \in Clients,
         ((Ended(c) \/ Answered(c)) /\ (handle' = handle \/ GoodHandle(c))) \/ Worked(c)
  PROVE  Only(c)
  BY DEF Only, Ended, Answered, GoodHandle, Worked, Typed

LEMMA LooksInStep ==
  ASSUME HeadInv, NEW c \in Clients, FindById(c) \/ FindByName(c) \/ FindEmbedded(c), Typed'
  PROVE  HeadInv'
<1>1. Typed /\ InStep(call[c]) BY DEF HeadInv
<1>2. Looked(c) BY <1>1, LooksDoes
<1>3. PICK r : r = call[c] OBVIOUS
<1>4. PICK d : d = call'[c] OBVIOUS
<1>5. /\ r.at \in {"byId", "byName", "byEmbedded"} /\ d.at \in {"byId", "byName", "byEmbedded", "found", "salvage"}
      /\ Same(d, r) \/ Starts(d, r) \/ Finds(d, r)
  BY <1>2, <1>3, <1>4 DEF Looked, FindById, FindByName, FindEmbedded
<1>6. \A f : Fetched(f) /\ Has(f) => f.row = file[f.id] BY DEF Fetched, Has
<1>7. d.found = r.found \/ Fetched(d.found) BY <1>5 DEF Same, Starts, Finds
<1>8. d.target = r.target \/ Fetched(d.target) BY <1>5 DEF Same, Starts, Finds
<1>9. UNCHANGED <<file, hist, overlapped>> BY <1>2 DEF Looked
<1>10. InStep(d) BY <1>1, <1>3, <1>5, <1>6, <1>7, <1>8 DEF InStep
<1>11. InStep(call[c])' BY <1>4, <1>9, <1>10 DEF InStep, Current, Content
<1>12. Only(c) BY <1>1, <1>2, OnlyOne DEF Looked
<1>13. QED BY <1>9, <1>11, <1>12, QuietInStep

(* A request that ends, or goes on with what it had, and no row is written.*)
LEMMA EndsInStep ==
  ASSUME HeadInv, NEW c \in Clients, Ended(c), handle' = handle \/ GoodHandle(c), UNCHANGED <<file, hist, overlapped>>, Typed'
  PROVE  HeadInv'
<1>1. InStep(call[c])' BY EndedInStep
<1>2. Only(c) BY OnlyOne DEF HeadInv
<1>3. QED BY <1>1, <1>2, QuietInStep

LEMMA WorksInStep ==
  ASSUME HeadInv, NEW c \in Clients, Worked(c), UNCHANGED <<file, hist, overlapped>>, Typed', InStep(call'[c])
  PROVE  HeadInv'
<1>1. InStep(call[c])' BY DEF InStep, Current, Content
<1>2. Only(c) BY OnlyOne DEF HeadInv
<1>3. QED BY <1>1, <1>2, QuietInStep

(* A row written back is the row as it was, but for its name and its trash.*)
LEMMA BackInStep ==
  ASSUME HeadInv, NEW c \in Clients, NEW m, NEW row, BackDone(c, m, row), handle' = handle, UNCHANGED hist,
         m = call[c].found, call[c].at # "healing", Typed'
  PROVE  HeadInv'
<1>1. Typed /\ HeadIsLatest /\ InStep(call[c]) /\ Ended(c) /\ row.head = m.row.head /\ row.size = m.row.size /\ Has(m)
      /\ row \in Rows
  BY DEF HeadInv, BackDone
<1>2. CASE UNCHANGED <<file, overlapped>> BY <1>1, <1>2, EndsInStep
<1>3. CASE file[m.id] # None /\ WriteRow(c, m.id, row)
  <2>1. m.id \in Ids /\ row # None BY <1>1, CallTypes, CopyTypes, NoneOther DEF Maybe, Has
  <2>2. PICK i \in Ids : i = m.id BY <2>1
  <2>3. overlapped \subseteq overlapped' BY <1>3 DEF WriteRow
  <2>4. i \notin overlapped' => m.row = file[i] /\ file[i].head = Len(hist[i]) /\ file[i].size \in {Content(i), 0}
    BY <1>1, <1>3, <2>2, <2>3 DEF InStep, Current, HeadIsLatest
  <2>5. i \notin overlapped' => row.head = Len(hist'[i]) /\ row.size \in {hist'[i][row.head], 0}
    BY <1>1, <2>4 DEF Content
  <2>6. InStep(call[c])' /\ Only(c) BY <1>1, EndedInStep, OnlyOne
  <2>7. WriteRow(c, i, row) BY <1>3, <2>2
  <2>8. QED BY <2>1, <2>5, <2>6, <2>7, WriteInStep
<1>4. QED BY <1>2, <1>3 DEF BackDone

LEMMA OpensInStep ==
  ASSUME HeadInv, NEW c \in Clients, OpenRead(c) \/ OpenMeta(c) \/ OpenHeal(c), Typed'
  PROVE  HeadInv'
<1>1. Typed /\ HeadIsLatest /\ InStep(call[c]) BY DEF HeadInv
<1>2. PICK r : r = call[c] OBVIOUS
<1>3. PICK d : d = call'[c] OBVIOUS
<1>4. InStep(r) BY <1>1, <1>2
<1>5. CASE OpenRead(c)
  <2>1. UNCHANGED <<file, hist, overlapped>> /\ r.at = "found" BY <1>2, <1>5 DEF OpenRead
  <2>2. CASE Ended(c) BY <1>1, <1>5, <2>1, <2>2, OpenReadDoes, EndsInStep
  <2>3. CASE Worked(c) /\ d.at = "opening" /\ d.found = r.found /\ d.target = None /\ d.body = Content(r.found.id)
    <3>1. InStep(d) BY <1>4, <2>1, <2>3 DEF InStep, Has
    <3>2. QED BY <1>3, <2>1, <2>3, <3>1, WorksInStep
  <2>4. QED BY <1>1, <1>2, <1>3, <1>5, <2>2, <2>3, OpenReadDoes
<1>6. CASE OpenMeta(c)
  <2>1. UNCHANGED <<file, hist, overlapped>> /\ r.at = "opening" BY <1>2, <1>6 DEF OpenMeta, history
  <2>2. CASE Ended(c) /\ GoodHandle(c) BY <2>1, <2>2, EndsInStep
  <2>3. CASE /\ Worked(c) /\ d.at = "healing" /\ d.target = None /\ d.body = r.body
             /\ d.found = [id |-> r.found.id, row |-> [file[r.found.id] EXCEPT !.size = r.body]]
    <3>1. d.found.id = r.found.id /\ d.found.row = [file[r.found.id] EXCEPT !.size = r.body] BY <2>3
    <3>2. InStep(d) BY <1>4, <2>1, <2>3, <3>1 DEF InStep, Has
    <3>3. QED BY <1>3, <2>1, <2>3, <3>2, WorksInStep
  <2>4. QED BY <1>1, <1>2, <1>3, <1>6, <2>2, <2>3, OpenMetaDoes
<1>7. CASE OpenHeal(c)
  <2>1. r.at = "healing" /\ UNCHANGED hist /\ Ended(c) /\ GoodHandle(c) /\ r.found.id \in Ids /\ Has(r.found) /\ r.found.row \in Rows
    BY <1>1, <1>2, <1>7, OpenHealDoes DEF OpenHeal
  <2>2. CASE UNCHANGED <<file, overlapped>> BY <2>1, <2>2, EndsInStep
  <2>3. CASE file[r.found.id] # None /\ WriteRow(c, r.found.id, r.found.row)
    <3>1. PICK i \in Ids : i = r.found.id BY <2>1
    <3>2. PICK row \in Rows : row = r.found.row BY <2>1
    <3>3. overlapped \subseteq overlapped' BY <2>3 DEF WriteRow
    <3>4. i \notin overlapped' =>
            row = [file[i] EXCEPT !.size = r.body] /\ r.body = Content(i) /\ file[i].head = Len(hist[i])
      BY <1>1, <1>4, <2>1, <2>3, <3>1, <3>2, <3>3 DEF InStep, Current, HeadIsLatest
    <3>5. file[i] \in Rows BY <1>1, <2>3, <3>1, ContentFits
    <3>6. i \notin overlapped' => row.head = Len(hist'[i]) /\ row.size \in {hist'[i][row.head], 0}
      BY <2>1, <3>4, <3>5 DEF Content, Rows
    <3>7. InStep(call[c])' /\ Only(c) BY <1>1, <2>1, EndedInStep, OnlyOne
    <3>8. WriteRow(c, i, row) /\ row # None BY <2>3, <3>1, <3>2, NoneOther
    <3>9. QED BY <2>1, <3>6, <3>7, <3>8, WriteInStep
  <2>4. QED BY <1>2, <1>7, <2>2, <2>3 DEF OpenHeal
<1>8. QED BY <1>5, <1>6, <1>7

LEMMA CreateInStep ==
  ASSUME HeadInv, NEW c \in Clients, Create(c), Typed'
  PROVE  HeadInv'
<1>1. Typed /\ HeadIsLatest BY DEF HeadInv
<1>2. Ended(c) /\ handle' = handle /\ NewRow(call[c]) \in Rows BY <1>1, CreateDoes
<1>3. PICK i \in Free : file' = [file EXCEPT ![i] = NewRow(call[c])] /\ hist' = [hist EXCEPT ![i] = <<call[c].body>>]
  BY <1>1, CreateDoes
<1>4. i \in Ids /\ hist[i] = <<>> /\ UNCHANGED overlapped BY <1>3 DEF Free, Create
<1>5. /\ file'[i] = NewRow(call[c]) /\ hist'[i] = <<call[c].body>>
      /\ \A j \in Ids \ {i} : file'[j] = file[j] /\ hist'[j] = hist[j]
  BY <1>1, <1>3, <1>4 DEF Typed, FilesOk
<1>6. \A j \in Ids \ {i} : (Current(j)' <=> Current(j)) /\ Content(j)' = Content(j)
  BY <1>4, <1>5 DEF Current, Content
<1>7. \A x \in Clients : (Has(call[x].found) => call[x].found.id # i) /\ (Has(call[x].target) => call[x].target.id # i)
  BY <1>1, <1>4, ClientTypes DEF Known
<1>8. InStep(call[c])' /\ Only(c) BY <1>1, <1>2, EndedInStep, OnlyOne
<1>9. ASSUME NEW x \in Clients PROVE InStep(call[x])'
  <2>1. CASE x = c BY <1>8, <2>1
  <2>2. CASE x # c
    <3>1. PICK r : r = call[x] OBVIOUS
    <3>2. call'[x] = r BY <1>1, <1>8, <2>2, <3>1 DEF Only, Typed
    <3>3. InStep(r) BY <3>1 DEF HeadInv
    <3>4. OpenFits(r) /\ r.found \in Maybe(Copies) /\ r.target \in Maybe(Copies) BY <1>1, <3>1, CallTypes
    <3>5. (Has(r.found) => r.found.id \in Ids \ {i}) /\ (Has(r.target) => r.target.id \in Ids \ {i})
      BY <1>7, <3>1, <3>4, CopyTypes DEF Maybe, Has
    <3>6. r.at \in {"opening", "healing"} => Has(r.found) BY <3>4 DEF OpenFits
    <3>7. InStep(r)' BY <1>5, <1>6, <3>3, <3>5, <3>6 DEF InStep
    <3>8. QED BY <3>2, <3>7 DEF InStep, Current, Content
  <2>3. QED BY <2>1, <2>2
<1>10. HeadIsLatest'
  <2>1. SUFFICES ASSUME NEW j \in Ids, Current(j)'
                 PROVE  file'[j].head = Len(hist'[j]) /\ file'[j].size \in {hist'[j][file'[j].head], 0}
    BY DEF HeadIsLatest, Current, Content
  <2>2. CASE j = i
    <3>1. NewRow(call[c]).head = 1 /\ NewRow(call[c]).size = call[c].body BY DEF NewRow
    <3>2. PICK s : s = <<call[c].body>> OBVIOUS
    <3>3. Len(s) = 1 /\ s[1] = call[c].body BY <3>2
    <3>4. QED BY <1>5, <2>2, <3>1, <3>2, <3>3
  <2>3. CASE j # i BY <1>1, <1>5, <1>6, <2>1, <2>3 DEF HeadIsLatest, Current, Content
  <2>4. QED BY <2>2, <2>3
<1>11. QED BY <1>9, <1>10 DEF HeadInv

LEMMA CommitsInStep ==
  ASSUME HeadInv, NEW c \in Clients, CommitRead(c) \/ CommitWrite(c), Typed'
  PROVE  HeadInv'
<1>1. Typed /\ HeadIsLatest /\ InStep(call[c]) BY DEF HeadInv
<1>2. PICK r : r = call[c] OBVIOUS
<1>3. PICK d : d = call'[c] OBVIOUS
<1>4. InStep(r) BY <1>1, <1>2
<1>5. CASE CommitRead(c)
  <2>1. UNCHANGED <<file, hist, overlapped>> /\ r.at = "commit" /\ handle' = handle
    BY <1>1, <1>2, <1>5, CommitReadDoes DEF CommitRead
  <2>2. CASE Ended(c) BY <2>1, <2>2, EndsInStep
  <2>3. CASE /\ Worked(c) /\ d.at = "append" /\ d.found = r.found /\ d.body = r.body
             /\ d.target = [id |-> r.target.id, row |-> file[r.target.id]]
    <3>1. d.target.row = file[d.target.id] BY <2>3
    <3>2. InStep(d) BY <1>4, <2>1, <2>3, <3>1 DEF InStep
    <3>3. QED BY <1>3, <2>1, <2>3, <3>2, WorksInStep
  <2>4. QED BY <1>1, <1>2, <1>3, <1>5, <2>2, <2>3, CommitReadDoes
<1>6. CASE CommitWrite(c)
  <2>1. r.at = "append" BY <1>2, <1>6 DEF CommitWrite
  <2>2. CASE Ended(c) /\ UNCHANGED <<file, hist, handle, overlapped>> BY <2>2, EndsInStep
  <2>3. CASE /\ WriteRow(c, r.target.id, HeadRow(r)) /\ hist' = [hist EXCEPT ![r.target.id] = Longer(r)]
             /\ (Ended(c) /\ GoodHandle(c)) \/ (Worked(c) /\ d.at = "retire" /\ d.found = r.found /\ r.stage = "to")
    <3>1. /\ r.target \in Copies /\ r.target.id \in Ids /\ Has(r.target) /\ r.body \in Contents
          /\ HeadRow(r) \in Rows /\ HeadRow(r).head = Len(Longer(r)) /\ HeadRow(r).size = r.body
          /\ Len(Longer(r)) = Len(hist[r.target.id]) + 1
      BY <1>1, <1>2, <2>1, AppendTypes
    <3>2. PICK i \in Ids : i = r.target.id BY <3>1
    <3>3. PICK row \in Rows : row = HeadRow(r) BY <3>1
    <3>4. WriteRow(c, i, row) /\ row # None BY <2>3, <3>2, <3>3, NoneOther
    <3>5. hist'[i] = Longer(r) /\ \A j \in Ids \ {i} : hist'[j] = hist[j]
      BY <1>1, <2>3, <3>2 DEF Typed, FilesOk
    <3>6. row.head = Len(hist'[i]) /\ row.size \in {hist'[i][row.head], 0}
      <4>1. hist[i] \in Seq(Contents) BY <1>1 DEF Typed, FilesOk
      <4>2. Longer(r) = Append(hist[i], r.body) BY <3>2 DEF Longer
      <4>3. Longer(r)[Len(hist[i]) + 1] = r.body BY <3>1, <4>1, <4>2
      <4>4. QED BY <3>1, <3>2, <3>3, <3>5, <4>3
    <3>7. InStep(call[c])'
      <4>1. CASE Ended(c) BY <4>1, EndedInStep
      <4>2. CASE Worked(c) /\ d.at = "retire" /\ d.found = r.found /\ r.stage = "to"
        <5>1. SaveFits(r) BY <1>1, <1>2, CallTypes
        <5>2. Onto(r) /\ r.found.id # i BY <2>1, <3>2, <4>2, <5>1 DEF SaveFits, Folding
        <5>3. r.found \in Maybe(Copies) /\ Has(r.found) BY <1>1, <1>2, <5>2, CallTypes DEF Onto
        <5>4. r.found.id \in Ids BY <5>3, CopyTypes DEF Maybe, Has
        <5>5. file'[r.found.id] = file[r.found.id] /\ overlapped \subseteq overlapped'
          BY <3>4, <5>2, <5>4 DEF WriteRow, HeadInv, Typed, FilesOk
        <5>6. Current(r.found.id)' => Current(r.found.id) BY <5>5 DEF Current
        <5>7. InStep(d)' BY <1>4, <2>1, <4>2, <5>5, <5>6 DEF InStep
        <5>8. QED BY <1>3, <5>7 DEF InStep, Current, Content
      <4>3. QED BY <2>3, <4>1, <4>2
    <3>8. Only(c) BY <1>1, <2>3, OnlyOne
    <3>9. QED BY <3>4, <3>5, <3>6, <3>7, <3>8, WriteInStep
  <2>4. QED BY <1>1, <1>2, <1>3, <1>6, <2>2, <2>3, CommitWriteDoes
<1>7. QED BY <1>5, <1>6

LEMMA FoldsInStep ==
  ASSUME HeadInv, NEW c \in Clients, FoldTarget(c), Typed'
  PROVE  HeadInv'
<1>1. Typed /\ HeadIsLatest /\ InStep(call[c]) BY DEF HeadInv
<1>2. PICK r : r = call[c] OBVIOUS
<1>3. PICK d : d = call'[c] OBVIOUS
<1>4. InStep(r) /\ r.at = "found" /\ UNCHANGED <<hist, handle>> BY <1>1, <1>2 DEF FoldTarget
<1>5. CASE Ended(c) /\ UNCHANGED <<file, overlapped>> BY <1>4, <1>5, EndsInStep
<1>6. CASE Worked(c) /\ d.at \in {"create", "commit"} /\ d.found = None /\ d.target = r.target /\ UNCHANGED <<file, overlapped>>
  <2>1. InStep(d) BY <1>4, <1>6 DEF InStep, Has
  <2>2. QED BY <1>3, <1>4, <1>6, <2>1, WorksInStep
<1>7. ASSUME Worked(c), d.at = "commit", d.found = None, Has(r.target), r.target.row \in Rows, r.target.id \in Ids,
             file[r.target.id] # None, r.want \in Names,
             WriteRow(c, r.target.id, [r.target.row EXCEPT !.deleted = FALSE, !.name = DisplayPart(r.want)])
      PROVE  HeadInv'
  <2>1. PICK i \in Ids : i = r.target.id BY <1>7
  <2>2. PICK row : row = [r.target.row EXCEPT !.deleted = FALSE, !.name = DisplayPart(r.want)] OBVIOUS
  <2>3. row \in Rows /\ row.head = r.target.row.head /\ row.size = r.target.row.size
    BY <1>7, <2>2, RowForms, DisplayFits
  <2>4. WriteRow(c, i, row) /\ row # None BY <1>7, <2>1, <2>2, <2>3, NoneOther
  <2>5. overlapped \subseteq overlapped' BY <2>4 DEF WriteRow
  <2>6. i \notin overlapped' => r.target.row = file[i] /\ file[i].head = Len(hist[i]) /\ file[i].size \in {Content(i), 0}
    BY <1>1, <1>4, <1>7, <2>1, <2>5 DEF InStep, Current, HeadIsLatest
  <2>7. i \notin overlapped' => row.head = Len(hist'[i]) /\ row.size \in {hist'[i][row.head], 0}
    BY <1>4, <2>3, <2>6 DEF Content
  <2>8. InStep(d)' BY <1>7 DEF InStep, Has
  <2>9. InStep(call[c])' BY <1>3, <2>8 DEF InStep, Current, Content
  <2>10. Only(c) BY <1>1, <1>7, OnlyOne
  <2>11. QED BY <1>4, <2>4, <2>7, <2>9, <2>10, WriteInStep
<1>8. QED BY <1>1, <1>2, <1>3, <1>5, <1>6, <1>7, FoldTargetDoes

LEMMA RenamesInStep ==
  ASSUME HeadInv, NEW c \in Clients, Unlink(c) \/ Backup(c) \/ RenameFrom(c) \/ RenameOver(c) \/ RenameRow(c) \/ Retire(c),
         Typed'
  PROVE  HeadInv'
<1>1. Typed /\ InStep(call[c]) BY DEF HeadInv
<1>2. PICK r : r = call[c] OBVIOUS
<1>3. PICK d : d = call'[c] OBVIOUS
<1>4. InStep(r) BY <1>1, <1>2
<1>5. CASE Unlink(c)
  <2>1. UNCHANGED hist /\ r.at = "found" /\ handle' = handle BY <1>1, <1>2, <1>5, UnlinkDoes DEF Unlink
  <2>2. CASE Ended(c) /\ UNCHANGED <<file, overlapped>> BY <2>1, <2>2, EndsInStep
  <2>3. CASE BackDone(c, r.found, [r.found.row EXCEPT !.deleted = TRUE])
    <3>1. PICK row : row = [r.found.row EXCEPT !.deleted = TRUE] OBVIOUS
    <3>2. PICK m : m = r.found OBVIOUS
    <3>3. BackDone(c, m, row) BY <2>3, <3>1, <3>2
    <3>4. QED BY <1>2, <2>1, <3>2, <3>3, BackInStep
  <2>4. QED BY <1>1, <1>2, <1>5, <2>2, <2>3, UnlinkDoes
<1>6. CASE Backup(c)
  <2>1. UNCHANGED <<file, hist, overlapped, handle>> BY <1>6 DEF Backup
  <2>2. QED BY <1>1, <1>6, <2>1, BackupDoes, EndsInStep
<1>7. CASE RenameFrom(c)
  <2>1. UNCHANGED <<file, hist, overlapped, handle>> /\ r.at = "found" BY <1>2, <1>7 DEF RenameFrom
  <2>2. CASE Ended(c) BY <2>1, <2>2, EndsInStep
  <2>3. CASE Worked(c) /\ d.found = r.found /\ d.target = None /\ d.at \in {"byId", "byName"}
    <3>1. InStep(d) BY <1>4, <2>1, <2>3 DEF InStep, Has
    <3>2. QED BY <1>3, <2>1, <2>3, <3>1, WorksInStep
  <2>4. QED BY <1>1, <1>2, <1>3, <1>7, <2>2, <2>3, RenameFromDoes
<1>8. CASE RenameOver(c)
  <2>1. UNCHANGED <<file, hist, overlapped, handle>> /\ r.at = "found" BY <1>2, <1>8 DEF RenameOver
  <2>2. CASE Ended(c) BY <2>1, <2>2, EndsInStep
  <2>3. CASE Worked(c) /\ d.found = r.found /\ d.at = "commit"
    <3>1. InStep(d) BY <1>4, <2>1, <2>3 DEF InStep, Has
    <3>2. QED BY <1>3, <2>1, <2>3, <3>1, WorksInStep
  <2>4. QED BY <1>1, <1>2, <1>3, <1>8, <2>2, <2>3, RenameOverDoes
<1>9. CASE RenameRow(c)
  <2>1. UNCHANGED hist /\ r.at = "found" /\ handle' = handle BY <1>1, <1>2, <1>9, RenameRowDoes DEF RenameRow
  <2>2. PICK row : row = [r.found.row EXCEPT !.name = DisplayPart(RenameTo(c).file)] OBVIOUS
  <2>3. PICK m : m = r.found OBVIOUS
  <2>4. BackDone(c, m, row) BY <1>1, <1>2, <1>9, <2>2, <2>3, RenameRowDoes
  <2>5. QED BY <1>2, <2>1, <2>3, <2>4, BackInStep
<1>10. CASE Retire(c)
  <2>1. UNCHANGED hist /\ r.at = "retire" /\ handle' = handle BY <1>1, <1>2, <1>10, RetireDoes DEF Retire
  <2>2. PICK row : row = [r.found.row EXCEPT !.deleted = TRUE] OBVIOUS
  <2>3. PICK m : m = r.found OBVIOUS
  <2>4. BackDone(c, m, row) BY <1>1, <1>2, <1>10, <2>2, <2>3, RetireDoes
  <2>5. QED BY <1>2, <2>1, <2>3, <2>4, BackInStep
<1>11. QED BY <1>5, <1>6, <1>7, <1>8, <1>9, <1>10

LEMMA ServesInStep ==
  ASSUME HeadInv, NEW c \in Clients, Serve(c) \/ Refuse(c), Typed'
  PROVE  HeadInv'
<1>1. Typed BY DEF HeadInv
<1>2. CASE OpenNew(c)
  <2>1. UNCHANGED <<file, hist, overlapped>> BY <1>2 DEF OpenNew
  <2>2. QED BY <1>1, <1>2, <2>1, OpenNewDoes, EndsInStep
<1>3. CASE SalvageNext(c)
  <2>1. UNCHANGED <<file, hist, overlapped>> BY <1>3 DEF SalvageNext, history
  <2>2. PICK d : d = call'[c] OBVIOUS
  <2>3. Worked(c) /\ ~Has(d.found) /\ ~Has(d.target) /\ d.at \in {"byId", "byName"}
    BY <1>1, <1>3, <2>2, SalvageNextDoes DEF Has
  <2>4. InStep(d) BY <2>3, BareInStep
  <2>5. QED BY <2>1, <2>2, <2>3, <2>4, WorksInStep
<1>4. CASE SalvageEnd(c)
  <2>1. UNCHANGED <<file, hist, overlapped>> BY <1>4 DEF SalvageEnd
  <2>2. QED BY <1>1, <1>4, <2>1, SalvageEndDoes, EndsInStep
<1>5. CASE Refuse(c)
  <2>1. UNCHANGED <<file, hist, overlapped>> BY <1>5 DEF Refuse
  <2>2. QED BY <1>1, <1>5, <2>1, RefuseDoes, EndsInStep
<1>6. QED
  BY <1>2, <1>3, <1>4, <1>5, LooksInStep, OpensInStep, CreateInStep, CommitsInStep, FoldsInStep, RenamesInStep DEF Serve

(* A client that sends a request, or is cut off, changes nobody else's.    *)
LEMMA TakesAlone ==
  ASSUME Typed, NEW c \in Clients, Take(c) \/ Disconnect(c)
  PROVE  Only(c)
<1>1. call' = [call EXCEPT ![c] = call'[c]]
  BY DEF Typed, Take, Disconnect, OpenScratch, BeginOpen, NoHandle, Write, WriteScratch, Writing, FlushNothing,
     BeginFlush, BeginClose, MkDir, BeginRmDir, UnlinkScratch, BeginUnlink, RenameScratch, BeginFold, BeginRename,
     Begin, CommitBuffer, Reject, Error
<1>2. handle' = [handle EXCEPT ![c] = handle'[c]]
  BY DEF Typed, Take, Disconnect, OpenScratch, BeginOpen, NoHandle, Write, WriteScratch, Writing, FlushNothing,
     BeginFlush, BeginClose, MkDir, BeginRmDir, UnlinkScratch, BeginUnlink, RenameScratch, BeginFold, BeginRename
<1>3. todo' = [todo EXCEPT ![c] = todo'[c]]
  BY DEF Typed, Take, Disconnect, OpenScratch, BeginOpen, NoHandle, Write, WriteScratch, Writing, FlushNothing,
     BeginFlush, BeginClose, MkDir, BeginRmDir, UnlinkScratch, BeginUnlink, RenameScratch, BeginFold, BeginRename,
     Begin, CommitBuffer, Reject, Error, Sent
<1>4. QED BY <1>1, <1>2, <1>3 DEF Only

LEMMA TakesInStep ==
  ASSUME HeadInv, NEW c \in Clients, Take(c) \/ Disconnect(c), Typed'
  PROVE  HeadInv'
<1>1. Typed BY DEF HeadInv
<1>2. UNCHANGED <<file, hist, overlapped>>
  BY SendsOff DEF Take, Disconnect, OpenScratch, BeginOpen, NoHandle, Write, WriteScratch, Writing, FlushNothing, BeginFlush,
     BeginClose, MkDir, BeginRmDir, UnlinkScratch, BeginUnlink, RenameScratch, BeginFold, BeginRename, history
<1>3. Only(c) BY <1>1, TakesAlone
<1>4. PICK d : d = call'[c] OBVIOUS
<1>5. call[c].at = "idle" => call[c] = Resting BY <1>1, CallTypes DEF RestFits
<1>6. ~Has(d.found) /\ ~Has(d.target) /\ d.at \notin {"opening", "healing"}
  <2>1. CASE d = Resting BY <2>1 DEF Resting, Has
  <2>2. ASSUME NEW a, NEW s, NEW w, NEW k, NEW b, a \in {{"byId", "byName"}, {"commit"}, {"create"}, {"salvage"}},
               k = None \/ \E i : k = Unread(i), \E e : BegunAt(c, e, a, s, w, None, k, b)
        PROVE  ~Has(d.found) /\ ~Has(d.target) /\ d.at \notin {"opening", "healing"}
    BY <1>4, <2>2 DEF BegunAt, Unread, Has
  <2>3. CASE BeginOpen(c) \/ BeginRename(c) BY <1>1, <2>2, <2>3, BeginOpenDoes
  <2>4. CASE BeginUnlink(c) BY <1>1, <2>2, <2>4, BeginUnlinkDoes
  <2>5. CASE BeginFlush(c) BY <1>1, <2>2, <2>5, BeginFlushDoes
  <2>6. CASE BeginClose(c)
    <3>1. CASE Answered(c) BY <1>4, <2>1, <3>1 DEF Answered
    <3>2. CASE \E e : BegunAt(c, e, {"commit"}, "from", None, None, Unread(handle[c].id), handle[c].buf)
      BY <1>4, <3>2 DEF BegunAt, Unread, Has
    <3>3. CASE \E e : BegunAt(c, e, {"create"}, "from", handle[c].name, None, None, handle[c].buf)
      BY <1>4, <3>3 DEF BegunAt, Has
    <3>4. QED BY <1>1, <2>6, <3>1, <3>2, <3>3, BeginCloseDoes
  <2>7. CASE BeginRmDir(c)
    <3>1. CASE Answered(c) BY <1>4, <2>1, <3>1 DEF Answered
    <3>2. CASE \E e : BegunAt(c, e, {"salvage"}, "from", None, None, None, None) BY <1>4, <3>2 DEF BegunAt, Has
    <3>3. QED BY <1>1, <2>7, <3>1, <3>2, BeginRmDirDoes
  <2>8. CASE BeginFold(c)
    <3>1. CASE Answered(c) BY <1>4, <2>1, <3>1 DEF Answered
    <3>2. CASE \E e : BegunAt(c, e, {"byId", "byName"}, "fold", To(c).file, None, None, scratch[From(c)])
      BY <1>4, <3>2 DEF BegunAt, Has
    <3>3. QED BY <1>1, <2>8, <3>1, <3>2, BeginFoldDoes
  <2>9. CASE RenameScratch(c) BY <1>1, <1>4, <2>1, <2>9, RenameScratchDoes DEF Answered
  <2>10. CASE OpenScratch(c) \/ NoHandle(c)
    <3>1. PICK op : Ready(c, op) BY <2>10 DEF OpenScratch, NoHandle
    <3>2. (Sent(c) /\ UNCHANGED call) \/ Reject(c) BY <2>10 DEF OpenScratch, NoHandle
    <3>3. QED BY <1>1, <1>4, <2>1, <3>1, <3>2, SentWell DEF Answered
  <2>11. CASE Write(c) \/ WriteScratch(c) \/ FlushNothing(c) \/ MkDir(c) \/ UnlinkScratch(c) \/ Disconnect(c)
    <3>1. call[c].at = "idle" /\ UNCHANGED call
      BY <2>11 DEF Write, WriteScratch, Writing, FlushNothing, MkDir, UnlinkScratch, Disconnect, Ready
    <3>2. QED BY <1>4, <1>5, <2>1, <3>1
  <2>12. QED BY <2>3, <2>4, <2>5, <2>6, <2>7, <2>8, <2>9, <2>10, <2>11 DEF Take
<1>7. InStep(d)' BY <1>6, BareInStep
<1>8. InStep(call[c])' BY <1>4, <1>7 DEF InStep, Current, Content
<1>9. QED BY <1>2, <1>3, <1>8, QuietInStep

LEMMA CrashInStep ==
  ASSUME HeadInv, Crash, Typed'
  PROVE  HeadInv'
<1>1. UNCHANGED <<file, hist, overlapped>> /\ \A c \in Clients : call'[c] = Resting BY DEF Crash
<1>2. ~Has(Resting.found) /\ ~Has(Resting.target) /\ Resting.at = "idle" BY DEF Has, Resting
<1>3. ASSUME NEW c \in Clients PROVE InStep(call[c])'
  <2>1. PICK d : d = Resting OBVIOUS
  <2>2. InStep(d)' BY <1>2, <2>1, BareInStep
  <2>3. call'[c] = d BY <1>1, <2>1
  <2>4. QED BY <2>2, <2>3 DEF InStep, Current, Content
<1>4. HeadIsLatest' BY <1>1 DEF HeadInv, HeadIsLatest, Content
<1>5. QED BY <1>3, <1>4 DEF HeadInv

LEMMA PurgeInStep ==
  ASSUME HeadInv, NEW i \in Ids, Purge(i), Typed'
  PROVE  HeadInv'
<1>1. UNCHANGED <<hist, overlapped, call>> /\ file' = [file EXCEPT ![i] = None] BY DEF Purge
<1>2. /\ ~Current(i)'
      /\ \A j \in Ids : Current(j)' => Current(j) /\ file'[j] = file[j] /\ Content(j)' = Content(j)
  BY <1>1 DEF Current, Content, HeadInv, Typed, FilesOk
<1>3. ASSUME NEW c \in Clients PROVE InStep(call[c])'
  <2>1. PICK r : r = call[c] OBVIOUS
  <2>2. InStep(r) BY <2>1 DEF HeadInv
  <2>3. OpenFits(r) /\ r.found \in Maybe(Copies) /\ r.target \in Maybe(Copies) BY <2>1, CallTypes DEF HeadInv
  <2>4. (Has(r.found) => r.found.id \in Ids) /\ (Has(r.target) => r.target.id \in Ids)
        /\ (r.at \in {"opening", "healing"} => Has(r.found))
    BY <2>3, CopyTypes DEF Maybe, Has, OpenFits
  <2>5. InStep(r)' BY <1>2, <2>2, <2>4 DEF InStep
  <2>6. QED BY <1>1, <2>1, <2>5 DEF InStep, Current, Content
<1>4. HeadIsLatest' BY <1>1, <1>2 DEF HeadInv, HeadIsLatest, Current, Content
<1>5. QED BY <1>3, <1>4 DEF HeadInv

LEMMA InitInStep == Init => HeadInv
<1>1. SUFFICES ASSUME Init PROVE HeadInv OBVIOUS
<1>2. Typed BY <1>1, InitTyped
<1>3. \A c \in Clients : call[c] = Resting BY <1>1 DEF Init
<1>4. ~Has(Resting.found) /\ ~Has(Resting.target) /\ Resting.at = "idle" BY DEF Has, Resting
<1>5. \A c \in Clients : InStep(call[c]) BY <1>3, <1>4, BareInStep
<1>6. HeadIsLatest
  <2>1. SUFFICES ASSUME NEW i \in Ids, file[i] # None
                 PROVE  file[i].head = Len(hist[i]) /\ file[i].size \in {Content(i), 0}
    BY DEF HeadIsLatest
  <2>2. file[i].head = 1 /\ file[i].size = 0 /\ hist[i] = <<1>> BY <1>1, <2>1 DEF Init
  <2>3. QED BY <2>2
<1>7. QED BY <1>2, <1>5, <1>6 DEF HeadInv

LEMMA NextInStep == HeadInv /\ [Next]_vars => HeadInv'
<1>1. SUFFICES ASSUME HeadInv, [Next]_vars PROVE HeadInv' OBVIOUS
<1>2. Typed' BY <1>1, NextTyped DEF HeadInv
<1>3. CASE UNCHANGED vars
  <2>1. UNCHANGED <<file, hist, overlapped, call>> BY <1>3 DEF vars, history
  <2>2. HeadIsLatest' BY <1>1, <2>1 DEF HeadInv, HeadIsLatest, Content
  <2>3. \A c \in Clients : InStep(call[c])' BY <1>1, <2>1 DEF HeadInv, InStep, Current, Content
  <2>4. QED BY <1>2, <2>2, <2>3 DEF HeadInv
<1>4. CASE Next
  <2>1. ASSUME NEW c \in Clients, Take(c) \/ Serve(c) \/ Refuse(c) \/ Disconnect(c) PROVE HeadInv'
    BY <1>1, <1>2, <2>1, TakesInStep, ServesInStep
  <2>2. QED BY <1>1, <1>2, <1>4, <2>1, CrashInStep, PurgeInStep DEF Next
<1>5. QED BY <1>1, <1>3, <1>4

(* Rows are written whole, from copies that may be old; a file that no two *)
(* requests held at once shows the last content of its history all the same.*)
THEOREM HeadsAreLatest == Spec => []HeadIsLatest
<1>1. Init => HeadInv BY InitInStep
<1>2. HeadInv /\ [Next]_vars => HeadInv' BY NextInStep
<1>3. HeadInv => HeadIsLatest BY DEF HeadInv
<1>4. QED BY <1>1, <1>2, <1>3, PTL DEF Spec

-----------------------------------------------------------------------------
(* What is written under the name of metadata stays in memory.             *)

Plainly(copy) == Has(copy) => ~IsMeta(copy.row.name)
(* No request carries metadata towards a file, nor names a file like it.   *)
Clean(r) ==
  /\ r.body \notin sidecar /\ Plainly(r.found) /\ Plainly(r.target)
  /\ r.want # None => NamedWell(r.want)
  /\ r.stage \in {"to", "fold"} \/ r.at = "create" => ~IsMeta(r.want)
  /\ r.at # "idle" => TreatsWell(r.req) /\ (r.req.op \in {"open", "rename"} => ~IsMeta(r.req.path.file))
  /\ \A p \in r.left : NamedWell(p.file)
CleanHandle(h) ==
  h # None => IF h.kind = "file" THEN NamedWell(h.name) /\ ~IsMeta(h.name) /\ h.buf \notin sidecar ELSE NamedWell(h.place.file)
CleanTodo(s) == \A k \in DOMAIN s : TreatsWell(s[k])
CleanFiles == \A i \in Ids : (file[i] # None => ~IsMeta(file[i].name)) /\ Committed(i) \cap sidecar = {}
CleanScratch == \A p \in DOMAIN scratch : NamedWell(p.file) /\ (scratch[p] \in sidecar => IsMeta(p.file))
MetaInv ==
  /\ Typed /\ 0 \notin sidecar /\ CleanFiles /\ CleanScratch
  /\ \A c \in Clients : Clean(call[c]) /\ CleanHandle(handle[c]) /\ CleanTodo(todo[c])

LEMMA PlainText ==
  ASSUME NEW n, NamedWell(n), ~IsMeta(n)
  PROVE  n.text \notin Metas /\ ~IsMeta(DisplayPart(n))
  BY DEF NamedWell, IsMeta, DisplayPart, Plain

LEMMA NoneUnmarked == ASSUME Typed PROVE None \notin sidecar
  BY NoneOther DEF Typed, HistoryOk, FilesOk, Contents

LEMMA CleanRest ==
  ASSUME NEW s \in Seq(Requests), CleanTodo(s), NEW t, t \in {s, <<>>} \/ (s # <<>> /\ t = Tail(s))
  PROVE  CleanTodo(t)
<1>1. CASE t = s BY <1>1
<1>2. CASE t = <<>> BY <1>2 DEF CleanTodo
<1>3. CASE s # <<>> /\ t = Tail(s)
  <2>1. PICK n \in Nat : n = Len(s) /\ n >= 1 BY <1>3
  <2>2. DOMAIN s = 1..n /\ DOMAIN t = 1..(n - 1) /\ \A k \in 1..(n - 1) : t[k] = s[k + 1] BY <1>3, <2>1
  <2>3. \A k \in 1..(n - 1) : k + 1 \in 1..n BY <2>1
  <2>4. QED BY <2>2, <2>3 DEF CleanTodo
<1>4. QED BY <1>1, <1>2, <1>3

LEMMA RestingClean == ASSUME Typed PROVE Clean(Resting)
<1>1. /\ Resting.body = None /\ Resting.found = None /\ Resting.target = None /\ Resting.want = None
      /\ Resting.stage = "from" /\ Resting.at = "idle" /\ Resting.left = {}
  BY DEF Resting
<1>2. QED BY <1>1, NoneUnmarked DEF Clean, Plainly, Has

LEMMA MetaStep ==
  ASSUME MetaInv, NEW c \in Clients, Only(c), Typed', UNCHANGED sidecar, CleanFiles', CleanScratch',
         Clean(call'[c]), CleanHandle(handle'[c]),
         todo'[c] \in {todo[c], <<>>} \/ (todo[c] # <<>> /\ todo'[c] = Tail(todo[c]))
  PROVE  MetaInv'
<1>1. CleanTodo(todo'[c])
  <2>1. todo[c] \in Seq(Requests) /\ CleanTodo(todo[c]) BY ClientTypes DEF MetaInv, SendsWell
  <2>2. QED BY <2>1, CleanRest
<1>2. ASSUME NEW d \in Clients PROVE Clean(call'[d]) /\ CleanHandle(handle'[d]) /\ CleanTodo(todo'[d])
  <2>1. CASE d = c BY <1>1, <2>1
  <2>2. CASE d # c BY <2>2 DEF Only, Typed, MetaInv
  <2>3. QED BY <2>1, <2>2
<1>3. \A d \in Clients : (Clean(call[d]) /\ CleanHandle(handle[d]) /\ CleanTodo(todo[d]))'
  BY <1>2 DEF Clean, CleanHandle, CleanTodo
<1>4. (0 \notin sidecar)' BY DEF MetaInv
<1>5. QED BY <1>3, <1>4 DEF MetaInv

LEMMA SameFilesClean == ASSUME CleanFiles, UNCHANGED <<file, hist, sidecar>> PROVE CleanFiles'
  BY DEF CleanFiles, Committed
LEMMA SameScratchClean == ASSUME CleanScratch, UNCHANGED <<scratch, sidecar>> PROVE CleanScratch'
  BY DEF CleanScratch

LEMMA RowClean ==
  ASSUME MetaInv, UNCHANGED sidecar, NEW i \in Ids, NEW row, ~IsMeta(row.name),
         file' = file \/ file' = [file EXCEPT ![i] = row],
         \A j \in Ids \ {i} : hist'[j] = hist[j], \A k \in 1..Len(hist'[i]) : hist'[i][k] \notin sidecar
  PROVE  CleanFiles'
<1>1. SUFFICES ASSUME NEW j \in Ids
               PROVE  (file'[j] # None => ~IsMeta(file'[j].name)) /\ \A k \in 1..Len(hist'[j]) : hist'[j][k] \notin sidecar
  BY DEF CleanFiles, Committed
<1>2. CASE j = i BY <1>2 DEF MetaInv, Typed, FilesOk, CleanFiles
<1>3. CASE j # i BY <1>3 DEF MetaInv, Typed, FilesOk, CleanFiles, Committed
<1>4. QED BY <1>2, <1>3

LEMMA CommittedClean ==
  ASSUME MetaInv, NEW i \in Ids
  PROVE  \A k \in 1..Len(hist[i]) : hist[i][k] \notin sidecar
  BY DEF MetaInv, CleanFiles, Committed

LEMMA ContentClean ==
  ASSUME MetaInv, NEW i \in Ids, file[i] # None
  PROVE  Content(i) \notin sidecar /\ ~IsMeta(file[i].name)
<1>1. file[i].head \in 1..Len(hist[i]) BY DEF MetaInv, Typed, FilesOk
<1>2. QED BY <1>1, CommittedClean DEF Content, MetaInv, CleanFiles

LEMMA RowWritten ==
  ASSUME MetaInv, NEW c \in Clients, UNCHANGED <<sidecar, hist>>, NEW i \in Ids, NEW row, ~IsMeta(row.name),
         WriteRow(c, i, row)
  PROVE  CleanFiles'
<1>1. file' = [file EXCEPT ![i] = row] BY DEF WriteRow
<1>2. \A k \in 1..Len(hist'[i]) : hist'[i][k] \notin sidecar BY CommittedClean
<1>3. QED BY <1>1, <1>2, RowClean

LEMMA ScratchShrinks ==
  ASSUME MetaInv, UNCHANGED sidecar, NEW S, scratch' = [q \in DOMAIN scratch \ S |-> scratch[q]]
  PROVE  CleanScratch'
  BY DEF MetaInv, CleanScratch

LEMMA ScratchGrows ==
  ASSUME MetaInv, NEW p, NEW k, Insert(p, k), NamedWell(p.file), k \in sidecar' => IsMeta(p.file),
         sidecar' \cap Contents \subseteq sidecar
  PROVE  CleanScratch'
<1>1. SUFFICES ASSUME NEW q \in DOMAIN scratch' PROVE NamedWell(q.file) /\ (scratch'[q] \in sidecar' => IsMeta(q.file))
  BY DEF CleanScratch
<1>2. CASE q = p BY <1>2 DEF Insert, With
<1>3. CASE q # p
  <2>1. q \in DOMAIN scratch /\ scratch'[q] = scratch[q] BY <1>1, <1>3 DEF Insert, With
  <2>2. scratch[q] \in Contents BY <2>1 DEF MetaInv, Typed, MemoryOk
  <2>3. QED BY <2>1, <2>2 DEF MetaInv, CleanScratch
<1>4. QED BY <1>2, <1>3

LEMMA UnscratchClean ==
  ASSUME MetaInv, UNCHANGED sidecar, NEW c \in Clients, Unscratch(c)
  PROVE  CleanScratch'
<1>1. CASE UNCHANGED scratch BY <1>1, SameScratchClean DEF MetaInv
<1>2. CASE Remove(call[c].key)
  <2>1. PICK S : S = {call[c].key} OBVIOUS
  <2>2. scratch' = [q \in DOMAIN scratch \ S |-> scratch[q]] BY <1>2, <2>1 DEF Remove
  <2>3. QED BY <2>2, ScratchShrinks
<1>3. QED BY <1>1, <1>2 DEF Unscratch

(* The call and the handle after a step.                                   *)
LEMMA EndsClean ==
  ASSUME MetaInv, NEW c \in Clients, Ended(c)
  PROVE  Clean(call'[c]) /\ (todo'[c] \in {todo[c], <<>>})
<1>1. CASE call'[c] = Resting BY <1>1, RestingClean DEF MetaInv, Ended
<1>2. CASE /\ call'[c].at = "salvage" /\ call'[c].req = call[c].req /\ Op(c) = "rmdir"
           /\ call'[c].stage = call[c].stage /\ call'[c].want = call[c].want
  <2>1. PICK r : r = call[c] OBVIOUS
  <2>2. PICK d : d = call'[c] OBVIOUS
  <2>3. /\ d.at = "salvage" /\ d.req = r.req /\ r.req.op = "rmdir" /\ d.stage = r.stage /\ d.want = r.want
        /\ d.found = None /\ d.target = None /\ d.body = None /\ d.left \subseteq r.left
    BY <1>2, <2>1, <2>2 DEF Ended, Op
  <2>4. Clean(r) /\ r.at # "idle"
    <3>1. r.at = "idle" => r = Resting BY <2>1, CallTypes DEF MetaInv, RestFits
    <3>2. r.at # "idle"
      <4>1. r.req # None BY <2>3, <1>2, <2>2, CallTypes DEF Ended, CallFits, RestFits
      <4>2. QED BY <3>1, <4>1 DEF Resting
    <3>3. QED BY <2>1, <3>2 DEF MetaInv
  <2>5. None \notin sidecar BY NoneUnmarked DEF MetaInv
  <2>6. Clean(d) BY <2>3, <2>4, <2>5 DEF Clean, Plainly, Has
  <2>7. QED BY <2>2, <2>6 DEF Ended
<1>3. QED BY <1>1, <1>2 DEF Ended

LEMMA WorksClean ==
  ASSUME MetaInv, NEW c \in Clients, Worked(c), NEW d, d = call'[c], d.body \notin sidecar, Plainly(d.found), Plainly(d.target),
         d.want # None => NamedWell(d.want), d.stage \in {"to", "fold"} \/ d.at = "create" => ~IsMeta(d.want)
  PROVE  Clean(call'[c]) /\ (todo'[c] \in {todo[c], <<>>})
<1>1. Clean(call[c]) BY DEF MetaInv
<1>2. QED BY <1>1 DEF Clean, Worked

LEMMA EndStepClean ==
  ASSUME MetaInv, NEW c \in Clients, Ended(c), UNCHANGED sidecar, CleanFiles', CleanScratch', Typed',
         handle' = handle \/ (GoodHandle(c) /\ CleanHandle(handle'[c]))
  PROVE  MetaInv'
<1>1. Clean(call'[c]) /\ todo'[c] \in {todo[c], <<>>} BY EndsClean
<1>2. CleanHandle(handle'[c]) BY DEF MetaInv
<1>3. Only(c) BY OnlyOne DEF MetaInv
<1>4. QED BY <1>1, <1>2, <1>3, MetaStep

LEMMA WorkStepClean ==
  ASSUME MetaInv, NEW c \in Clients, Worked(c), UNCHANGED sidecar, CleanFiles', CleanScratch', Typed', Clean(call'[c])
  PROVE  MetaInv'
<1>1. todo' = todo /\ handle' = handle BY DEF Worked
<1>2. CleanHandle(handle'[c]) BY <1>1 DEF MetaInv
<1>3. Only(c) BY OnlyOne DEF MetaInv
<1>4. QED BY <1>1, <1>2, <1>3, MetaStep

LEMMA LooksClean ==
  ASSUME MetaInv, NEW c \in Clients, FindById(c) \/ FindByName(c) \/ FindEmbedded(c), Typed'
  PROVE  MetaInv'
<1>1. Typed BY DEF MetaInv
<1>2. Looked(c) BY <1>1, LooksDoes
<1>3. UNCHANGED <<file, hist, scratch, sidecar>> BY <1>2 DEF Looked, memory
<1>4. PICK r : r = call[c] OBVIOUS
<1>5. PICK d : d = call'[c] OBVIOUS
<1>6. r.at \in {"byId", "byName", "byEmbedded"} BY <1>4 DEF FindById, FindByName, FindEmbedded
<1>7. Clean(r) /\ SeekFits(r) /\ Worked(c) /\ d.want = r.want BY <1>1, <1>2, <1>4, <1>5, CallTypes DEF MetaInv, Looked
<1>8. d.at # "create" BY <1>2, <1>5 DEF Looked
<1>9. ASSUME d.body \notin sidecar, Plainly(d.found), Plainly(d.target), d.stage = r.stage \/ ~IsMeta(r.want)
      PROVE  MetaInv'
  <2>1. d.want # None => NamedWell(d.want) BY <1>7 DEF Clean
  <2>2. d.stage \in {"to", "fold"} \/ d.at = "create" => ~IsMeta(d.want) BY <1>7, <1>8, <1>9 DEF Clean
  <2>3. Clean(call'[c]) BY <1>5, <1>7, <1>9, <2>1, <2>2, WorksClean
  <2>4. QED BY <1>3, <1>7, <2>3, WorkStepClean, SameFilesClean, SameScratchClean DEF MetaInv
<1>10. CASE Same(d, r)
  <2>1. d.body \notin sidecar /\ Plainly(d.found) /\ Plainly(d.target) BY <1>7, <1>10 DEF Clean, Same
  <2>2. QED BY <1>9, <1>10, <2>1 DEF Same
<1>11. CASE Starts(d, r)
  <2>1. Checking(r) BY <1>6, <1>7, <1>11 DEF SeekFits, Starts, Onto, Folding
  <2>2. PICK i \in Ids : Suits(r.want, i) BY <1>11 DEF Starts
  <2>3. ~IsMeta(r.want)
    <3>1. ~IsMeta(file[i].name) BY <2>2 DEF MetaInv, CleanFiles, Suits
    <3>2. QED BY <2>2, <3>1 DEF Suits, IsMeta
  <2>4. d.body \notin sidecar BY <1>11, <2>1, <2>3 DEF Starts, Checking, MetaInv, CleanScratch
  <2>5. Plainly(d.found) /\ Plainly(d.target) BY <1>7, <1>11 DEF Starts, Clean
  <2>6. QED BY <1>9, <2>3, <2>4, <2>5
<1>12. CASE Finds(d, r)
  <2>1. \A copy : Fetched(copy) => Plainly(copy) BY DEF Fetched, Plainly, Has, MetaInv, CleanFiles
  <2>2. Plainly(d.found) /\ Plainly(d.target) BY <1>7, <1>12, <2>1 DEF Finds, Clean
  <2>3. d.body \notin sidecar /\ d.stage = r.stage BY <1>7, <1>12 DEF Finds, Clean
  <2>4. QED BY <1>9, <2>2, <2>3
<1>13. Same(d, r) \/ Starts(d, r) \/ Finds(d, r) BY <1>2, <1>4, <1>5 DEF Looked
<1>14. QED BY <1>10, <1>11, <1>12, <1>13

LEMMA OpensClean ==
  ASSUME MetaInv, NEW c \in Clients, OpenNew(c) \/ OpenRead(c) \/ OpenMeta(c) \/ OpenHeal(c), Typed'
  PROVE  MetaInv'
<1>1. Typed BY DEF MetaInv
<1>2. UNCHANGED <<hist, scratch, sidecar>>
  BY DEF OpenNew, OpenRead, OpenMeta, OpenHeal, memory, history
<1>3. CleanScratch' BY <1>2, SameScratchClean DEF MetaInv
<1>4. PICK r : r = call[c] OBVIOUS
<1>5. PICK d : d = call'[c] OBVIOUS
<1>6. Clean(r) /\ r.at # "idle" BY <1>4 DEF MetaInv, OpenNew, OpenRead, OpenMeta, OpenHeal
<1>7. ASSUME r.at \in {"opening", "healing"}, handle'[c] = OpenedAs(r) PROVE CleanHandle(handle'[c])
  <2>1. r.req.op = "open" /\ r.want = r.req.path.file BY <1>1, <1>4, <1>7, CallTypes DEF OpenFits, Named
  <2>2. NamedWell(r.want) /\ ~IsMeta(r.want) /\ r.body \notin sidecar BY <1>6, <2>1 DEF Clean, TreatsWell
  <2>3. 0 \notin sidecar BY DEF MetaInv
  <2>4. OpenedAs(r).kind = "file" /\ OpenedAs(r).name = r.want /\ OpenedAs(r).buf \in {0, r.body} BY DEF OpenedAs
  <2>5. QED BY <1>7, <2>2, <2>3, <2>4 DEF CleanHandle
<1>8. CASE OpenNew(c)
  <2>1. CleanFiles' BY <1>2, <1>8, SameFilesClean DEF OpenNew, MetaInv
  <2>2. Ended(c) /\ GoodHandle(c) /\ handle'[c] \in {handle[c], NewFile(r.req.path.file)} BY <1>1, <1>4, <1>8, OpenNewDoes
  <2>3. CleanHandle(handle'[c])
    <3>1. CASE handle'[c] = handle[c] BY <3>1 DEF MetaInv
    <3>2. CASE handle'[c] = NewFile(r.req.path.file)
      <4>1. NamedWell(r.req.path.file) /\ ~IsMeta(r.req.path.file) BY <1>4, <1>6, <1>8 DEF Clean, OpenNew, Op, TreatsWell
      <4>2. PICK n : n = r.req.path.file OBVIOUS
      <4>3. NewFile(n).kind = "file" /\ NewFile(n).name = n /\ NewFile(n).buf = 0 BY DEF NewFile
      <4>4. QED BY <3>2, <4>1, <4>2, <4>3 DEF CleanHandle, MetaInv
    <3>3. QED BY <2>2, <3>1, <3>2
  <2>4. QED BY <1>2, <1>3, <2>1, <2>2, <2>3, EndStepClean
<1>9. CASE OpenRead(c)
  <2>1. CleanFiles' BY <1>2, <1>9, SameFilesClean DEF OpenRead, MetaInv
  <2>2. CASE Ended(c) BY <1>1, <1>2, <1>3, <1>9, <2>1, <2>2, OpenReadDoes, EndStepClean
  <2>3. CASE /\ Worked(c) /\ file[r.found.id] # None /\ r.found.id \in Ids /\ d.at = "opening" /\ d.found = r.found
             /\ d.target = None /\ d.body = Content(r.found.id) /\ d.stage = r.stage /\ d.want = r.want
    <3>1. d.body \notin sidecar BY <2>3, ContentClean
    <3>2. Plainly(d.found) /\ Plainly(d.target) BY <1>6, <2>3 DEF Clean, Plainly, Has
    <3>3. Clean(call'[c]) BY <1>5, <1>6, <2>3, <3>1, <3>2, WorksClean DEF Clean
    <3>4. QED BY <1>2, <1>3, <2>1, <2>3, <3>3, WorkStepClean
  <2>4. QED BY <1>1, <1>4, <1>5, <1>9, <2>2, <2>3, OpenReadDoes
<1>10. CASE OpenMeta(c)
  <2>1. CleanFiles' /\ r.at = "opening" BY <1>2, <1>4, <1>10, SameFilesClean DEF OpenMeta, MetaInv
  <2>2. CASE Ended(c) /\ GoodHandle(c) /\ handle'[c] = OpenedAs(r) BY <1>2, <1>3, <1>7, <2>1, <2>2, EndStepClean
  <2>3. CASE /\ Worked(c) /\ file[r.found.id] # None /\ r.found.id \in Ids
             /\ d.found = [id |-> r.found.id, row |-> [file[r.found.id] EXCEPT !.size = r.body]]
             /\ d.at = "healing" /\ d.target = None /\ d.body = r.body /\ d.stage = r.stage /\ d.want = r.want
    <3>1. PICK row \in Rows : row = file[r.found.id] BY <1>1, <2>3, ContentFits
    <3>2. ~IsMeta(row.name) BY <2>3, <3>1, ContentClean
    <3>3. [row EXCEPT !.size = r.body].name = row.name BY DEF Rows
    <3>4. Plainly(d.found) /\ Plainly(d.target)
      <4>1. d.found.row = [row EXCEPT !.size = r.body] BY <2>3, <3>1
      <4>2. QED BY <2>3, <3>2, <3>3, <4>1 DEF Plainly, Has
    <3>5. d.body \notin sidecar BY <1>6, <2>3 DEF Clean
    <3>6. Clean(call'[c]) BY <1>5, <1>6, <2>3, <3>4, <3>5, WorksClean DEF Clean
    <3>7. QED BY <1>2, <1>3, <2>1, <2>3, <3>6, WorkStepClean
  <2>4. QED BY <1>1, <1>4, <1>5, <1>10, <2>2, <2>3, OpenMetaDoes
<1>11. CASE OpenHeal(c)
  <2>1. /\ Ended(c) /\ GoodHandle(c) /\ handle'[c] = OpenedAs(r) /\ r.found.id \in Ids /\ Has(r.found) /\ r.at = "healing"
    BY <1>1, <1>4, <1>11, OpenHealDoes DEF OpenHeal
  <2>2. CleanHandle(handle'[c]) BY <1>7, <2>1
  <2>3. ~IsMeta(r.found.row.name) BY <1>6, <2>1 DEF Clean, Plainly
  <2>4. CASE UNCHANGED file BY <1>2, <1>3, <2>1, <2>2, <2>4, EndStepClean, SameFilesClean DEF MetaInv
  <2>5. CASE WriteRow(c, r.found.id, r.found.row)
    <3>1. CleanFiles' BY <1>2, <2>1, <2>3, <2>5, RowWritten
    <3>2. QED BY <1>2, <1>3, <2>1, <2>2, <3>1, EndStepClean
  <2>6. QED BY <1>4, <1>11, <2>4, <2>5 DEF OpenHeal
<1>12. QED BY <1>8, <1>9, <1>10, <1>11

LEMMA CreateClean ==
  ASSUME MetaInv, NEW c \in Clients, Create(c), Typed'
  PROVE  MetaInv'
<1>1. Typed BY DEF MetaInv
<1>2. PICK r : r = call[c] OBVIOUS
<1>3. UNCHANGED sidecar /\ Unscratch(c) /\ r.at = "create" BY <1>2 DEF Create
<1>4. Clean(r) BY <1>2 DEF MetaInv
<1>5. Ended(c) /\ handle' = handle /\ r.want \in Names BY <1>1, <1>2, CreateDoes
<1>6. ~IsMeta(r.want) /\ NamedWell(r.want) /\ r.body \notin sidecar BY <1>3, <1>4, <1>5, NoneOther DEF Clean
<1>7. ~IsMeta(NewRow(r).name)
  <2>1. PICK n : n = r.want OBVIOUS
  <2>2. ~IsMeta(n) /\ ~IsMeta(DisplayPart(n)) BY <1>6, <2>1, PlainText
  <2>3. NewRow(r).name \in {n, DisplayPart(n)} BY <2>1 DEF NewRow
  <2>4. QED BY <2>2, <2>3
<1>8. PICK i \in Ids : file' = [file EXCEPT ![i] = NewRow(r)] /\ hist' = [hist EXCEPT ![i] = <<r.body>>]
  BY <1>1, <1>2, CreateDoes DEF Free
<1>9. CleanFiles'
  <2>1. hist'[i] = <<r.body>> /\ \A j \in Ids \ {i} : hist'[j] = hist[j] BY <1>1, <1>8 DEF Typed, FilesOk
  <2>2. \A k \in 1..Len(hist'[i]) : hist'[i][k] \notin sidecar BY <1>6, <2>1
  <2>3. QED BY <1>3, <1>7, <1>8, <2>1, <2>2, RowClean
<1>10. QED BY <1>3, <1>5, <1>9, EndStepClean, UnscratchClean

LEMMA CommitsClean ==
  ASSUME MetaInv, NEW c \in Clients, CommitRead(c) \/ CommitWrite(c), Typed'
  PROVE  MetaInv'
<1>1. Typed BY DEF MetaInv
<1>2. PICK r : r = call[c] OBVIOUS
<1>3. PICK d : d = call'[c] OBVIOUS
<1>4. Clean(r) /\ UNCHANGED sidecar BY <1>2 DEF MetaInv, CommitRead, CommitWrite
<1>5. CASE CommitRead(c)
  <2>1. CleanFiles' /\ CleanScratch' /\ handle' = handle
    BY <1>5, SameFilesClean, SameScratchClean DEF CommitRead, MetaInv, memory
  <2>2. CASE Ended(c) BY <1>4, <2>1, <2>2, EndStepClean
  <2>3. CASE /\ Worked(c) /\ r.target.id \in Ids /\ file[r.target.id] # None
             /\ d.target = [id |-> r.target.id, row |-> file[r.target.id]]
             /\ d.at = "append" /\ d.found = r.found /\ d.body = r.body /\ d.stage = r.stage /\ d.want = r.want
    <3>1. Plainly(d.target) BY <2>3, ContentClean DEF Plainly
    <3>2. Clean(call'[c]) BY <1>3, <1>4, <2>3, <3>1, WorksClean DEF Clean
    <3>3. QED BY <1>4, <2>1, <2>3, <3>2, WorkStepClean
  <2>4. QED BY <1>1, <1>2, <1>3, <1>5, <2>2, <2>3, CommitReadDoes
<1>6. CASE CommitWrite(c)
  <2>1. r.at = "append" BY <1>2, <1>6 DEF CommitWrite
  <2>2. CASE Ended(c) /\ UNCHANGED <<file, hist, scratch, handle>>
    BY <1>4, <2>2, SameFilesClean, SameScratchClean, EndStepClean DEF MetaInv
  <2>3. CASE /\ WriteRow(c, r.target.id, HeadRow(r)) /\ Unscratch(c)
             /\ hist' = [hist EXCEPT ![r.target.id] = Longer(r)]
             /\ handle' = IF Op(c) = "flush" THEN [handle EXCEPT ![c].dirty = FALSE] ELSE handle
             /\ \/ Ended(c) /\ GoodHandle(c) /\ (handle'[c] # None => handle[c] # None)
                \/ /\ Worked(c) /\ d.at = "retire" /\ d.found = r.found /\ d.target = r.target /\ d.body = r.body
                   /\ r.stage = "to" /\ d.stage = "to" /\ d.want = r.want
    <3>1. /\ r.target.id \in Ids /\ Has(r.target) /\ HeadRow(r).name = r.target.row.name
          /\ hist[r.target.id] \in Seq(Contents) /\ r.body \in Contents
      BY <1>1, <1>2, <2>1, AppendTypes DEF Typed, FilesOk
    <3>2. PICK i \in Ids : i = r.target.id BY <3>1
    <3>3. PICK row : row = HeadRow(r) OBVIOUS
    <3>4. ~IsMeta(row.name) BY <1>4, <3>1, <3>3 DEF Clean, Plainly
    <3>5. file' = [file EXCEPT ![i] = row] BY <2>3, <3>2, <3>3 DEF WriteRow
    <3>6. hist'[i] = Append(hist[i], r.body) /\ \A j \in Ids \ {i} : hist'[j] = hist[j]
      BY <1>1, <2>3, <3>2 DEF Longer, Typed, FilesOk
    <3>7. \A k \in 1..Len(hist'[i]) : hist'[i][k] \notin sidecar
      <4>1. PICK h \in Seq(Contents) : h = hist[i] BY <3>1, <3>2
      <4>2. r.body \notin sidecar /\ \A k \in 1..Len(h) : h[k] \notin sidecar BY <1>4, <4>1, CommittedClean DEF Clean
      <4>3. \A k \in 1..Len(Append(h, r.body)) : Append(h, r.body)[k] = IF k = Len(h) + 1 THEN r.body ELSE h[k]
        BY <3>1, <4>1
      <4>4. \A k \in 1..Len(Append(h, r.body)) : k = Len(h) + 1 \/ k \in 1..Len(h) BY <3>1, <4>1
      <4>5. QED BY <3>6, <4>1, <4>2, <4>3, <4>4
    <3>8. CleanFiles' BY <1>4, <3>4, <3>5, <3>6, <3>7, RowClean
    <3>9. CleanScratch' BY <1>4, <2>3, UnscratchClean
    <3>10. CASE Ended(c) /\ GoodHandle(c) /\ (handle'[c] # None => handle[c] # None)
      <4>1. CleanHandle(handle[c]) BY DEF MetaInv
      <4>2. CASE Op(c) # "flush" BY <1>4, <2>3, <3>8, <3>9, <3>10, <4>2, EndStepClean
      <4>3. CASE Op(c) = "flush"
        <5>1. handle' = [handle EXCEPT ![c].dirty = FALSE] BY <2>3, <4>3
        <5>2. PICK g : g = handle[c] OBVIOUS
        <5>3. g \in FileHandles /\ g # None
          <6>1. Doing(c, "flush") BY <1>2, <2>1, <4>3 DEF Doing
          <6>2. QED BY <1>1, <5>2, <6>1, ClientTypes DEF HandleFits, Pending, ScratchHandles
        <5>4. handle'[c] = [g EXCEPT !.dirty = FALSE] BY <1>1, <5>1, <5>2 DEF Typed
        <5>5. [g EXCEPT !.dirty = FALSE].kind = "file" /\ [g EXCEPT !.dirty = FALSE].name = g.name
              /\ [g EXCEPT !.dirty = FALSE].buf = g.buf /\ g.kind = "file"
          BY <5>3 DEF FileHandles
        <5>6. CleanHandle(handle'[c]) BY <4>1, <5>2, <5>3, <5>4, <5>5 DEF CleanHandle
        <5>7. QED BY <1>4, <3>8, <3>9, <3>10, <5>6, EndStepClean
      <4>4. QED BY <4>2, <4>3
    <3>11. CASE Worked(c) /\ d.at = "retire" /\ d.found = r.found /\ d.target = r.target /\ d.body = r.body
                /\ r.stage = "to" /\ d.stage = "to" /\ d.want = r.want
      <4>1. Clean(call'[c]) BY <1>3, <1>4, <3>11, WorksClean DEF Clean
      <4>2. QED BY <1>4, <3>8, <3>9, <3>11, <4>1, WorkStepClean
    <3>12. QED BY <2>3, <3>10, <3>11
  <2>4. QED BY <1>1, <1>2, <1>3, <1>6, <2>2, <2>3, CommitWriteDoes
<1>7. QED BY <1>5, <1>6

LEMMA FoldsClean ==
  ASSUME MetaInv, NEW c \in Clients, FoldTarget(c), Typed'
  PROVE  MetaInv'
<1>1. Typed BY DEF MetaInv
<1>2. PICK r : r = call[c] OBVIOUS
<1>3. PICK d : d = call'[c] OBVIOUS
<1>4. UNCHANGED <<hist, sidecar>> /\ r.stage = "fold" /\ r.at = "found" BY <1>2 DEF FoldTarget
<1>5. Clean(r) BY <1>2 DEF MetaInv
<1>6. ~IsMeta(r.want) BY <1>4, <1>5 DEF Clean
<1>7. CASE Ended(c) /\ UNCHANGED <<file, overlapped>> /\ Remove(r.key)
  <2>1. handle' = handle BY <1>1, FoldTargetDoes
  <2>2. PICK S : S = {r.key} OBVIOUS
  <2>3. CleanScratch' BY <1>4, <1>7, <2>2, ScratchShrinks DEF Remove
  <2>4. CleanFiles' BY <1>4, <1>7, SameFilesClean DEF MetaInv
  <2>5. QED BY <1>4, <1>7, <2>1, <2>3, <2>4, EndStepClean
<1>8. ASSUME Worked(c), d.found = None, d.target = r.target, d.body = r.body, d.stage = "fold", d.want = r.want,
             UNCHANGED scratch, CleanFiles'
      PROVE  MetaInv'
  <2>1. Plainly(d.found) /\ Plainly(d.target) /\ d.body \notin sidecar /\ (d.want # None => NamedWell(d.want)) /\ ~IsMeta(d.want)
    BY <1>5, <1>6, <1>8 DEF Clean, Plainly, Has
  <2>2. Clean(call'[c]) BY <1>3, <1>8, <2>1, WorksClean
  <2>3. QED BY <1>4, <1>8, <2>2, WorkStepClean, SameScratchClean DEF MetaInv
<1>9. CASE /\ Worked(c) /\ d.found = None /\ d.target = r.target /\ d.body = r.body /\ d.stage = "fold" /\ d.want = r.want
           /\ UNCHANGED <<scratch, file>>
  BY <1>4, <1>8, <1>9, SameFilesClean DEF MetaInv
<1>10. CASE /\ Worked(c) /\ d.found = None /\ d.target = r.target /\ d.body = r.body /\ d.stage = "fold" /\ d.want = r.want
            /\ UNCHANGED scratch /\ Has(r.target) /\ r.target.row \in Rows /\ r.target.id \in Ids /\ r.want \in Names
            /\ WriteRow(c, r.target.id, [r.target.row EXCEPT !.deleted = FALSE, !.name = DisplayPart(r.want)])
  <2>1. PICK n \in Names : n = r.want BY <1>10
  <2>2. ~IsMeta(DisplayPart(n)) BY <1>5, <1>6, <1>10, <2>1, PlainText, NoneOther DEF Clean
  <2>3. PICK m \in Names : m = DisplayPart(n) BY DisplayFits
  <2>4. PICK row : row = [r.target.row EXCEPT !.deleted = FALSE, !.name = m] OBVIOUS
  <2>5. row.name = m BY <1>10, <2>4, RowForms
  <2>6. PICK i \in Ids : i = r.target.id BY <1>10
  <2>7. WriteRow(c, i, row) /\ ~IsMeta(row.name) BY <1>10, <2>1, <2>2, <2>3, <2>4, <2>5, <2>6
  <2>8. CleanFiles' BY <1>4, <2>7, RowWritten
  <2>9. QED BY <1>8, <1>10, <2>8
<1>11. QED BY <1>1, <1>2, <1>3, <1>7, <1>9, <1>10, FoldTargetDoes

LEMMA BackClean ==
  ASSUME MetaInv, NEW c \in Clients, NEW m, NEW row, BackDone(c, m, row), handle' = handle,
         UNCHANGED <<hist, scratch, sidecar>>, m \in Copies, ~IsMeta(row.name), Typed'
  PROVE  MetaInv'
<1>1. Ended(c) BY DEF BackDone
<1>2. CleanScratch' BY SameScratchClean DEF MetaInv
<1>3. CASE UNCHANGED file BY <1>1, <1>2, <1>3, SameFilesClean, EndStepClean DEF MetaInv
<1>4. CASE WriteRow(c, m.id, row)
  <2>1. PICK i \in Ids : i = m.id BY CopyTypes
  <2>2. CleanFiles' BY <1>4, <2>1, RowWritten
  <2>3. QED BY <1>1, <1>2, <2>2, EndStepClean
<1>5. QED BY <1>3, <1>4 DEF BackDone

LEMMA RenamesClean ==
  ASSUME MetaInv, NEW c \in Clients, Unlink(c) \/ Backup(c) \/ RenameFrom(c) \/ RenameOver(c) \/ RenameRow(c) \/ Retire(c),
         Typed'
  PROVE  MetaInv'
<1>1. Typed BY DEF MetaInv
<1>2. PICK r : r = call[c] OBVIOUS
<1>3. PICK d : d = call'[c] OBVIOUS
<1>4. Clean(r) /\ r.at # "idle" /\ UNCHANGED <<hist, sidecar>> /\ r.found \in Maybe(Copies)
  BY <1>1, <1>2, CallTypes DEF MetaInv, Unlink, Backup, RenameFrom, RenameOver, RenameRow, Retire
<1>5. handle' = handle BY <1>1, UnlinkDoes, BackupDoes, RenameFromDoes, RenameOverDoes, RenameRowDoes, RetireDoes
<1>6. ASSUME NEW row, row.name = r.found.row.name \/ ~IsMeta(row.name), BackDone(c, r.found, row), UNCHANGED scratch
      PROVE  MetaInv'
  <2>1. r.found \in Copies BY <1>4, <1>6 DEF BackDone, Has, Maybe
  <2>2. ~IsMeta(r.found.row.name) BY <1>4, <1>6 DEF Clean, Plainly, BackDone
  <2>3. ~IsMeta(row.name)
    <3>1. CASE row.name = r.found.row.name BY <2>2, <3>1
    <3>2. QED BY <1>6, <3>1
  <2>4. PICK m : m = r.found OBVIOUS
  <2>5. QED BY <1>4, <1>5, <1>6, <2>1, <2>3, <2>4, BackClean
<1>7. ASSUME NEW row, row = [r.found.row EXCEPT !.deleted = TRUE], BackDone(c, r.found, row), UNCHANGED scratch
      PROVE  MetaInv'
  <2>1. r.found \in Copies /\ Has(r.found) BY <1>4, <1>7 DEF BackDone, Has, Maybe
  <2>2. PICK old \in Rows : old = r.found.row BY <2>1, CopyTypes
  <2>3. row.name = r.found.row.name BY <1>7, <2>2, RowForms
  <2>4. QED BY <1>6, <1>7, <2>3
<1>8. ASSUME UNCHANGED <<file, scratch>>, Ended(c) PROVE MetaInv'
  BY <1>4, <1>5, <1>8, SameFilesClean, SameScratchClean, EndStepClean DEF MetaInv
<1>9. CASE Unlink(c)
  <2>1. UNCHANGED scratch BY <1>9 DEF Unlink, memory
  <2>2. PICK row : row = [r.found.row EXCEPT !.deleted = TRUE] OBVIOUS
  <2>3. (Ended(c) /\ UNCHANGED file) \/ BackDone(c, r.found, row) BY <1>1, <1>2, <1>9, <2>2, UnlinkDoes
  <2>4. QED BY <1>7, <1>8, <2>1, <2>2, <2>3
<1>10. CASE Retire(c)
  <2>1. UNCHANGED scratch BY <1>10 DEF Retire, memory
  <2>2. PICK row : row = [r.found.row EXCEPT !.deleted = TRUE] OBVIOUS
  <2>3. BackDone(c, r.found, row) BY <1>1, <1>2, <1>10, <2>2, RetireDoes
  <2>4. QED BY <1>7, <2>1, <2>2, <2>3
<1>11. CASE RenameRow(c)
  <2>1. UNCHANGED scratch /\ r.stage = "to" BY <1>2, <1>11 DEF RenameRow, memory
  <2>2. RenameTo(c).file \in Names /\ r.want = RenameTo(c).file BY <1>1, <1>2, <1>11, RenameRowDoes
  <2>3. PICK n \in Names : n = RenameTo(c).file BY <2>2
  <2>4. ~IsMeta(DisplayPart(n)) BY <1>4, <2>1, <2>2, <2>3, PlainText, NoneOther DEF Clean
  <2>5. PICK m \in Names : m = DisplayPart(n) BY DisplayFits
  <2>6. PICK row : row = [r.found.row EXCEPT !.name = m] OBVIOUS
  <2>7. BackDone(c, r.found, row) BY <1>1, <1>2, <1>11, <2>3, <2>5, <2>6, RenameRowDoes
  <2>8. r.found \in Copies /\ Has(r.found) BY <1>4, <2>7 DEF BackDone, Has, Maybe
  <2>9. row.name = m BY <2>6, <2>8, CopyTypes, RowForms
  <2>10. QED BY <1>6, <2>1, <2>4, <2>5, <2>7, <2>9
<1>12. CASE Backup(c)
  <2>1. UNCHANGED file /\ Ended(c) BY <1>1, <1>12, BackupDoes DEF Backup
  <2>2. CASE UNCHANGED scratch BY <1>8, <2>1, <2>2
  <2>3. CASE r.found.id \in Ids /\ file[r.found.id] # None /\ Insert(RenameTo(c), Content(r.found.id))
    <3>1. PICK p : p = RenameTo(c) OBVIOUS
    <3>2. PICK k : k = Content(r.found.id) OBVIOUS
    <3>3. k \notin sidecar BY <2>3, <3>2, ContentClean
    <3>4. r.req.op = "rename" BY <1>2, <1>12 DEF Backup, Op
    <3>5. NamedWell(p.file) BY <1>2, <1>4, <3>1, <3>4 DEF Clean, TreatsWell, RenameTo
    <3>6. CleanScratch' BY <1>4, <2>3, <3>1, <3>2, <3>3, <3>5, ScratchGrows
    <3>7. CleanFiles' BY <1>4, <2>1, SameFilesClean DEF MetaInv
    <3>8. QED BY <1>4, <1>5, <2>1, <3>6, <3>7, EndStepClean
  <2>4. QED BY <1>1, <1>2, <1>12, <2>2, <2>3, BackupDoes
<1>13. CASE RenameFrom(c)
  <2>1. UNCHANGED <<file, scratch>> /\ r.req.op = "rename" BY <1>2, <1>13 DEF RenameFrom, memory, Op
  <2>2. CASE Ended(c) BY <1>8, <2>1, <2>2
  <2>3. CASE /\ Worked(c) /\ d.found = r.found /\ d.target = None /\ d.body = None /\ d.stage = "to" /\ d.want = RenameTo(c).file
    <3>1. NamedWell(d.want) /\ ~IsMeta(d.want) BY <1>2, <1>4, <2>1, <2>3 DEF Clean, TreatsWell, RenameTo
    <3>2. Plainly(d.found) /\ Plainly(d.target) /\ d.body \notin sidecar
      BY <1>1, <1>4, <2>3, NoneUnmarked DEF Clean, Plainly, Has
    <3>3. Clean(call'[c]) BY <1>3, <2>3, <3>1, <3>2, WorksClean
    <3>4. QED BY <1>4, <2>1, <2>3, <3>3, WorkStepClean, SameFilesClean, SameScratchClean DEF MetaInv
  <2>4. QED BY <1>1, <1>2, <1>3, <1>13, <2>2, <2>3, RenameFromDoes
<1>14. CASE RenameOver(c)
  <2>1. UNCHANGED <<file, scratch>> /\ r.stage = "to" BY <1>2, <1>14 DEF RenameOver, memory
  <2>2. CASE Ended(c) BY <1>8, <2>1, <2>2
  <2>3. CASE /\ Worked(c) /\ file[r.found.id] # None /\ r.found.id \in Ids /\ d.found = r.found /\ d.target = r.target
             /\ d.body = Content(r.found.id) /\ d.want = r.want
    <3>1. d.body \notin sidecar BY <2>3, ContentClean
    <3>2. (d.want # None => NamedWell(d.want)) /\ ~IsMeta(d.want) /\ Plainly(d.found) /\ Plainly(d.target)
      BY <1>4, <2>1, <2>3 DEF Clean
    <3>3. Clean(call'[c]) BY <1>3, <2>3, <3>1, <3>2, WorksClean
    <3>4. QED BY <1>4, <2>1, <2>3, <3>3, WorkStepClean, SameFilesClean, SameScratchClean DEF MetaInv
  <2>4. QED BY <1>1, <1>2, <1>3, <1>14, <2>2, <2>3, RenameOverDoes
<1>15. QED BY <1>9, <1>10, <1>11, <1>12, <1>13, <1>14

LEMMA ServesClean ==
  ASSUME MetaInv, NEW c \in Clients, Serve(c) \/ Refuse(c), Typed'
  PROVE  MetaInv'
<1>1. Typed BY DEF MetaInv
<1>2. CASE SalvageNext(c)
  <2>1. UNCHANGED <<file, hist, scratch, sidecar>> BY <1>2 DEF SalvageNext, memory, history
  <2>2. PICK d : d = call'[c] OBVIOUS
  <2>3. Worked(c) /\ d.found = None /\ d.target = None /\ d.body = None /\ d.stage = "check" /\ d.at \in {"byId", "byName"}
    BY <1>1, <1>2, <2>2, SalvageNextDoes
  <2>4. PICK p \in call[c].left : d.want = p.file BY <1>1, <1>2, <2>2, SalvageNextDoes
  <2>5. NamedWell(d.want) BY <2>4 DEF MetaInv, Clean
  <2>6. Plainly(d.found) /\ Plainly(d.target) /\ d.body \notin sidecar BY <1>1, <2>3, NoneUnmarked DEF Plainly, Has
  <2>7. Clean(call'[c]) BY <2>2, <2>3, <2>5, <2>6, WorksClean
  <2>8. QED BY <2>1, <2>3, <2>7, WorkStepClean, SameFilesClean, SameScratchClean DEF MetaInv
<1>3. CASE SalvageEnd(c)
  <2>1. UNCHANGED <<file, hist, sidecar>> BY <1>3 DEF SalvageEnd
  <2>2. Ended(c) /\ handle' = handle BY <1>1, <1>3, SalvageEndDoes
  <2>3. PICK S : S = InDir(call[c].req.path.dir) OBVIOUS
  <2>4. CleanScratch' BY <1>3, <2>1, <2>3, ScratchShrinks DEF SalvageEnd
  <2>5. QED BY <2>1, <2>2, <2>4, SameFilesClean, EndStepClean DEF MetaInv
<1>4. CASE Refuse(c)
  <2>1. UNCHANGED <<file, hist, sidecar>> BY <1>4 DEF Refuse
  <2>2. Ended(c) /\ handle' = handle BY <1>1, <1>4, RefuseDoes
  <2>3. PICK S : S = {call[c].key} OBVIOUS
  <2>4. CleanScratch'
    <3>1. UNCHANGED scratch \/ Remove(call[c].key) BY <1>4 DEF Refuse
    <3>2. CASE Remove(call[c].key) BY <2>1, <2>3, <3>2, ScratchShrinks DEF Remove
    <3>3. QED BY <2>1, <3>1, <3>2, SameScratchClean DEF MetaInv
  <2>5. QED BY <2>1, <2>2, <2>4, SameFilesClean, EndStepClean DEF MetaInv
<1>5. QED BY <1>2, <1>3, <1>4, LooksClean, OpensClean, CreateClean, CommitsClean, FoldsClean, RenamesClean DEF Serve

LEMMA HeadClean ==
  ASSUME MetaInv, NEW c \in Clients, todo[c] # <<>>
  PROVE  TreatsWell(Req(c))
<1>1. todo[c] \in Seq(Requests) BY ClientTypes DEF MetaInv, SendsWell
<1>2. 1 \in DOMAIN todo[c] /\ Req(c) = todo[c][1] BY <1>1 DEF Req
<1>3. QED BY <1>2 DEF MetaInv, CleanTodo

LEMMA AnswerStepClean ==
  ASSUME MetaInv, NEW c \in Clients, Answered(c), UNCHANGED sidecar, CleanFiles', CleanScratch', Typed',
         handle' = [handle EXCEPT ![c] = handle'[c]], CleanHandle(handle'[c])
  PROVE  MetaInv'
<1>1. Clean(call'[c]) BY RestingClean DEF Answered, MetaInv
<1>2. Only(c) /\ (todo'[c] \in {todo[c], <<>>} \/ (todo[c] # <<>> /\ todo'[c] = Tail(todo[c])))
  BY DEF Only, Answered
<1>3. QED BY <1>1, <1>2, MetaStep

LEMMA BegunClean ==
  ASSUME MetaInv, NEW c \in Clients, todo[c] # <<>>, Sent(c), call' = [call EXCEPT ![c] = call'[c]],
         NEW d, d = call'[c], d.req = Req(c), d.left \subseteq DOMAIN scratch, ~Has(d.found), ~Has(d.target),
         d.req.op \in {"open", "rename"} => ~IsMeta(d.req.path.file),
         d.body \notin sidecar, d.want # None => NamedWell(d.want),
         d.stage \in {"to", "fold"} \/ d.at = "create" => ~IsMeta(d.want),
         UNCHANGED sidecar, CleanFiles', CleanScratch', Typed',
         handle' = [handle EXCEPT ![c] = handle'[c]], CleanHandle(handle'[c])
  PROVE  MetaInv'
<1>1. Clean(call'[c])
  <2>1. TreatsWell(d.req) BY HeadClean
  <2>2. \A p \in d.left : NamedWell(p.file) BY DEF MetaInv, CleanScratch
  <2>3. QED BY <2>1, <2>2 DEF Clean, Plainly
<1>2. todo'[c] = Tail(todo[c]) /\ todo' = [todo EXCEPT ![c] = todo'[c]] BY DEF Sent, MetaInv, Typed
<1>3. QED BY <1>1, <1>2, MetaStep DEF Only

LEMMA ScratchTakesClean ==
  ASSUME MetaInv, NEW c \in Clients, OpenScratch(c) \/ UnlinkScratch(c) \/ MkDir(c) \/ RenameScratch(c) \/ FlushNothing(c) \/ NoHandle(c),
         Typed'
  PROVE  MetaInv'
<1>1. Typed BY DEF MetaInv
<1>2. PICK op : Ready(c, op) /\ (OpenScratch(c) => op = "open") /\ (RenameScratch(c) => op = "rename")
  <2>1. (\E op : OpenScratch(c) /\ Ready(c, op)) \/ (\E op : UnlinkScratch(c) /\ Ready(c, op)) \/ (\E op : MkDir(c) /\ Ready(c, op))
        \/ (\E op : RenameScratch(c) /\ Ready(c, op)) \/ (\E op : FlushNothing(c) /\ Ready(c, op)) \/ (\E op : NoHandle(c) /\ Ready(c, op))
    BY DEF OpenScratch, UnlinkScratch, MkDir, RenameScratch, FlushNothing, NoHandle
  <2>2. PICK op : Ready(c, op) BY <2>1
  <2>3. Req(c).op = op BY <1>1, <2>2, ReadyIs
  <2>4. QED BY <2>2, <2>3 DEF OpenScratch, RenameScratch, Ready
<1>3. UNCHANGED <<file, hist, sidecar>> /\ CleanFiles'
  <2>1. UNCHANGED <<file, hist, sidecar>>
    BY SendsOff DEF OpenScratch, UnlinkScratch, MkDir, RenameScratch, FlushNothing, NoHandle, history
  <2>2. QED BY <2>1, SameFilesClean DEF MetaInv
<1>4. Req(c) \in Requests /\ Req(c).op = op /\ TreatsWell(Req(c)) BY <1>1, <1>2, ReadyIs, HeadClean
<1>5. Answered(c)
  <2>1. (Sent(c) /\ UNCHANGED call) \/ Reject(c)
    BY DEF OpenScratch, UnlinkScratch, MkDir, RenameScratch, FlushNothing, NoHandle, history
  <2>2. QED BY <1>1, <1>2, <2>1, SentWell
<1>6. CleanHandle(handle[c]) BY DEF MetaInv
<1>7. ASSUME handle' = handle, CleanScratch' PROVE MetaInv'
  <2>1. handle' = [handle EXCEPT ![c] = handle'[c]] BY <1>1, <1>7 DEF Typed
  <2>2. QED BY <1>3, <1>5, <1>6, <1>7, <2>1, AnswerStepClean
<1>8. CASE OpenScratch(c)
  <2>1. PICK p : p = Req(c).path OBVIOUS
  <2>2. NamedWell(p.file) BY <1>2, <1>4, <1>8, <2>1 DEF TreatsWell
  <2>3. CASE UNCHANGED <<memory, handle>> BY <1>3, <1>7, <2>3, SameScratchClean DEF MetaInv, memory
  <2>4. CASE /\ Insert(p, 0) \/ UNCHANGED scratch
             /\ handle' = [handle EXCEPT ![c] = [kind |-> "scratch", place |-> p]]
    <3>1. PICK k : k = 0 OBVIOUS
    <3>2. CleanScratch'
      <4>1. k \notin sidecar BY <3>1 DEF MetaInv
      <4>2. CASE UNCHANGED scratch BY <1>3, <4>2, SameScratchClean DEF MetaInv
      <4>3. CASE Insert(p, k) BY <1>3, <2>2, <4>1, <4>3, ScratchGrows
      <4>4. QED BY <2>4, <3>1, <4>2, <4>3
    <3>3. handle'[c] = [kind |-> "scratch", place |-> p] BY <1>1, <2>4 DEF Typed
    <3>4. CleanHandle(handle'[c]) BY <2>2, <3>3 DEF CleanHandle
    <3>5. handle' = [handle EXCEPT ![c] = handle'[c]] BY <2>4, <3>3
    <3>6. QED BY <1>3, <1>5, <3>2, <3>4, <3>5, AnswerStepClean
  <2>5. QED BY <1>8, <2>1, <2>3, <2>4 DEF OpenScratch
<1>9. CASE UnlinkScratch(c)
  <2>1. PICK S : S = {Req(c).path} OBVIOUS
  <2>2. CleanScratch' BY <1>3, <1>9, <2>1, ScratchShrinks DEF UnlinkScratch, Remove
  <2>3. QED BY <1>7, <1>9, <2>2 DEF UnlinkScratch
<1>10. CASE MkDir(c) \/ FlushNothing(c) \/ NoHandle(c)
  <2>1. UNCHANGED <<scratch, handle>> BY <1>10 DEF MkDir, FlushNothing, NoHandle, memory
  <2>2. QED BY <1>3, <1>7, <2>1, SameScratchClean DEF MetaInv
<1>11. CASE RenameScratch(c)
  <2>1. PICK p : p = From(c) OBVIOUS
  <2>2. PICK q : q = To(c) OBVIOUS
  <2>3. NamedWell(q.file) /\ (IsMeta(p.file) <=> IsMeta(q.file)) BY <1>2, <1>4, <1>11, <2>1, <2>2 DEF TreatsWell, From, To
  <2>4. handle' = handle BY <1>1, <1>11, RenameScratchDoes
  <2>5. CASE UNCHANGED scratch BY <1>3, <1>7, <2>4, <2>5, SameScratchClean DEF MetaInv
  <2>6. ASSUME NEW moves \in BOOLEAN, moves => p \in DOMAIN scratch, scratch' = Moved(p, q, moves) PROVE MetaInv'
    <3>1. ASSUME NEW x \in DOMAIN scratch' PROVE NamedWell(x.file) /\ (scratch'[x] \in sidecar => IsMeta(x.file))
      <4>1. CASE x = q /\ moves BY <2>3, <2>6, <4>1 DEF Moved, MetaInv, CleanScratch
      <4>2. CASE ~(x = q /\ moves) BY <2>6, <3>1, <4>2 DEF Moved, MetaInv, CleanScratch
      <4>3. QED BY <4>1, <4>2
    <3>2. CleanScratch' BY <1>3, <3>1 DEF CleanScratch
    <3>3. QED BY <1>7, <2>4, <3>2
  <2>7. QED BY <1>1, <1>11, <2>1, <2>2, <2>5, <2>6, RenameScratchDoes
<1>12. QED BY <1>8, <1>9, <1>10, <1>11

LEMMA BeginsClean ==
  ASSUME MetaInv, NEW c \in Clients, BeginOpen(c) \/ BeginRename(c) \/ BeginUnlink(c) \/ BeginFlush(c) \/ BeginClose(c)
                                     \/ BeginRmDir(c) \/ BeginFold(c),
         Typed'
  PROVE  MetaInv'
<1>1. Typed BY DEF MetaInv
<1>2. PICK d : d = call'[c] OBVIOUS
<1>3. PICK op : /\ Ready(c, op) /\ (BeginUnlink(c) => op = "unlink") /\ (BeginRmDir(c) => op = "rmdir") /\ (BeginFold(c) => op = "rename")
                /\ (BeginFlush(c) => op = "flush") /\ (BeginClose(c) => op = "close")
                /\ (BeginRename(c) => op = "rename") /\ (BeginOpen(c) => op = "open")
  <2>1. (\E op \in {"open"} : BeginOpen(c) /\ Ready(c, op)) \/ (\E op \in {"rename"} : (BeginRename(c) \/ BeginFold(c)) /\ Ready(c, op))
        \/ (\E op \in {"unlink"} : BeginUnlink(c) /\ Ready(c, op)) \/ (\E op \in {"flush"} : BeginFlush(c) /\ Ready(c, op))
        \/ (\E op \in {"close"} : BeginClose(c) /\ Ready(c, op)) \/ (\E op \in {"rmdir"} : BeginRmDir(c) /\ Ready(c, op))
    BY DEF BeginOpen, BeginRename, BeginFold, BeginUnlink, BeginFlush, BeginClose, BeginRmDir
  <2>2. PICK op : Ready(c, op) BY <2>1
  <2>3. Req(c).op = op BY <1>1, <2>2, ReadyIs
  <2>4. QED BY <2>2, <2>3 DEF BeginOpen, BeginRename, BeginFold, BeginUnlink, BeginFlush, BeginClose, BeginRmDir, Ready
<1>4. Req(c).op = op /\ TreatsWell(Req(c)) /\ todo[c] # <<>> BY <1>1, <1>3, ReadyIs, HeadClean
<1>5. UNCHANGED <<file, hist, sidecar>> /\ CleanFiles'
  <2>1. UNCHANGED <<file, hist, sidecar>>
    BY SendsOff DEF BeginOpen, BeginRename, BeginFold, BeginUnlink, BeginFlush, BeginClose, BeginRmDir, history
  <2>2. QED BY <2>1, SameFilesClean DEF MetaInv
<1>6. CleanScratch'
  <2>1. CASE UNCHANGED scratch BY <1>5, <2>1, SameScratchClean DEF MetaInv
  <2>2. CASE Remove(Req(c).path)
    <3>1. PICK S : S = {Req(c).path} OBVIOUS
    <3>2. QED BY <1>5, <2>2, <3>1, ScratchShrinks DEF Remove
  <2>3. QED BY <2>1, <2>2 DEF BeginOpen, BeginRename, BeginFold, BeginUnlink, BeginFlush, BeginClose, BeginRmDir, memory
<1>7. CleanHandle(handle[c]) BY DEF MetaInv
<1>8. handle' = [handle EXCEPT ![c] = handle'[c]] /\ CleanHandle(handle'[c])
  <2>1. CASE BeginClose(c)
    <3>1. handle'[c] = None /\ handle' = [handle EXCEPT ![c] = None] BY <1>1, <2>1 DEF BeginClose, Typed
    <3>2. QED BY <3>1 DEF CleanHandle
  <2>2. CASE handle' = handle BY <1>1, <1>7, <2>2 DEF Typed
  <2>3. QED BY <2>1, <2>2 DEF BeginOpen, BeginRename, BeginFold, BeginUnlink, BeginFlush, BeginRmDir
<1>9. CASE Answered(c) BY <1>5, <1>6, <1>8, <1>9, AnswerStepClean
<1>10. (Sent(c) /\ call' = [call EXCEPT ![c] = call'[c]]) \/ Answered(c)
  <2>1. CASE Reject(c) \/ (Sent(c) /\ UNCHANGED call) BY <1>1, <1>3, <2>1, SentWell
  <2>2. CASE \E e : Begin(c, e) BY <1>1, <2>2 DEF Begin, Typed
  <2>3. QED
    BY <2>1, <2>2 DEF BeginOpen, BeginRename, BeginFold, BeginUnlink, BeginFlush, BeginClose, BeginRmDir, CommitBuffer
<1>11. ASSUME d.req = Req(c), d.left \subseteq DOMAIN scratch, ~Has(d.found), ~Has(d.target), ~Answered(c),
              op \in {"open", "rename"} => ~IsMeta(Req(c).path.file),
              d.body \notin sidecar, d.want # None => NamedWell(d.want),
              d.stage \in {"to", "fold"} \/ d.at = "create" => ~IsMeta(d.want)
       PROVE  MetaInv'
  BY <1>2, <1>4, <1>5, <1>6, <1>8, <1>10, <1>11, BegunClean
<1>12. None \notin sidecar BY <1>1, NoneUnmarked
<1>13. CASE BeginOpen(c) \/ BeginRename(c) \/ BeginUnlink(c)
  <2>1. \E e : BegunAt(c, e, {"byId", "byName"}, "from", Req(c).path.file, None, None, None)
    BY <1>1, <1>13, BeginOpenDoes, BeginUnlinkDoes
  <2>2. /\ d.req = Req(c) /\ d.left \subseteq DOMAIN scratch /\ d.found = None /\ d.target = None /\ d.body = None
        /\ d.want = Req(c).path.file /\ d.stage = "from" /\ d.at # "create"
    BY <1>2, <2>1 DEF BegunAt
  <2>3. NamedWell(Req(c).path.file)
    BY <1>3, <1>4, <1>13 DEF TreatsWell
  <2>4. op \in {"open", "rename"} => ~IsMeta(Req(c).path.file)
    BY <1>3, <1>4, <1>13 DEF BeginOpen, BeginRename, BeginUnlink, InScratch, From, Ready
  <2>5. QED BY <1>9, <1>11, <1>12, <2>2, <2>3, <2>4 DEF Has
<1>14. ASSUME BeginFlush(c) \/ BeginClose(c), ~Answered(c) PROVE MetaInv'
  <2>1. PICK g : g = handle[c] OBVIOUS
  <2>2. g # None /\ g.kind = "file" BY <1>1, <1>14, <2>1, BeginCloseDoes DEF BeginFlush, Pending
  <2>3. g.buf \notin sidecar /\ ~IsMeta(g.name) /\ NamedWell(g.name) BY <1>7, <2>1, <2>2 DEF CleanHandle
  <2>4. CASE \E e : BegunAt(c, e, {"commit"}, "from", None, None, Unread(handle[c].id), handle[c].buf)
    <3>1. /\ d.req = Req(c) /\ d.left \subseteq DOMAIN scratch /\ d.found = None /\ d.target.row = None /\ d.body = g.buf
          /\ d.want = None /\ d.stage = "from" /\ d.at # "create"
      BY <1>2, <2>1, <2>4 DEF BegunAt, Unread
    <3>2. QED BY <1>3, <1>4, <1>11, <1>14, <2>3, <3>1 DEF Has
  <2>5. CASE \E e : BegunAt(c, e, {"create"}, "from", handle[c].name, None, None, handle[c].buf)
    <3>1. /\ d.req = Req(c) /\ d.left \subseteq DOMAIN scratch /\ d.found = None /\ d.target = None /\ d.body = g.buf
          /\ d.want = g.name /\ d.stage = "from"
      BY <1>2, <2>1, <2>5 DEF BegunAt
    <3>2. NamedWell(d.want) BY <2>3, <3>1
    <3>3. QED BY <1>3, <1>4, <1>11, <1>14, <2>3, <3>1, <3>2 DEF Has
  <2>6. QED BY <1>1, <1>14, <2>4, <2>5, BeginFlushDoes, BeginCloseDoes
<1>15. ASSUME BeginRmDir(c), ~Answered(c) PROVE MetaInv'
  <2>1. \E e : BegunAt(c, e, {"salvage"}, "from", None, None, None, None) BY <1>1, <1>15, BeginRmDirDoes
  <2>2. /\ d.req = Req(c) /\ d.left \subseteq DOMAIN scratch /\ d.found = None /\ d.target = None /\ d.body = None
        /\ d.want = None /\ d.stage = "from" /\ d.at # "create"
    BY <1>2, <2>1 DEF BegunAt
  <2>3. QED BY <1>3, <1>4, <1>11, <1>12, <1>15, <2>2 DEF Has
<1>16. ASSUME BeginFold(c), ~Answered(c) PROVE MetaInv'
  <2>1. /\ From(c) \in DOMAIN scratch /\ ~IsMeta(To(c).file)
        /\ \E e : BegunAt(c, e, {"byId", "byName"}, "fold", To(c).file, None, None, scratch[From(c)])
    BY <1>1, <1>16, BeginFoldDoes
  <2>2. /\ d.req = Req(c) /\ d.left \subseteq DOMAIN scratch /\ d.found = None /\ d.target = None /\ d.body = scratch[From(c)]
        /\ d.want = To(c).file /\ d.stage = "fold"
    BY <1>2, <2>1 DEF BegunAt
  <2>3. NamedWell(To(c).file) /\ ~IsMeta(From(c).file) BY <1>3, <1>4, <1>16, <2>1 DEF TreatsWell, From, To
  <2>4. scratch[From(c)] \notin sidecar BY <2>1, <2>3 DEF MetaInv, CleanScratch
  <2>5. QED BY <1>11, <1>16, <2>1, <2>2, <2>3, <2>4 DEF Has, From
<1>17. QED BY <1>9, <1>13, <1>14, <1>15, <1>16

(* A write makes a content that is nowhere yet.                            *)
LEMMA FreshIsNew ==
  ASSUME Typed
  PROVE  Fresh \notin Contents /\ Fresh \notin sidecar /\ Fresh # 0 /\ Fresh # None
<1>1. written \in Nat /\ sidecar \subseteq Contents BY DEF Typed, FilesOk, HistoryOk
<1>2. Fresh \in Nat /\ Fresh > written BY <1>1 DEF Fresh
<1>3. QED BY <1>1, <1>2, NoneOther DEF Contents

LEMMA WriteClean ==
  ASSUME MetaInv, NEW c \in Clients, Write(c), Typed'
  PROVE  MetaInv'
<1>1. Typed BY DEF MetaInv
<1>2. /\ Writing(c) /\ handle[c].kind = "file" /\ UNCHANGED <<file, hist, scratch>>
      /\ handle' = [handle EXCEPT ![c].buf = Fresh, ![c].dirty = TRUE]
  BY DEF Write, Writing
<1>3. PICK g : g = handle[c] OBVIOUS
<1>4. g \in FileHandles /\ g # None /\ Answered(c) BY <1>1, <1>2, <1>3, WritingFits DEF ScratchHandles
<1>5. NamedWell(g.name) /\ ~IsMeta(g.name) BY <1>2, <1>3, <1>4 DEF MetaInv, CleanHandle
<1>6. UNCHANGED sidecar BY <1>2, <1>3, <1>5 DEF Writing, Target
<1>7. PICK n : n = [g EXCEPT !.buf = Fresh, !.dirty = TRUE] OBVIOUS
<1>8. handle' = [handle EXCEPT ![c] = n] /\ handle'[c] = n BY <1>1, <1>2, <1>3, <1>7 DEF Typed
<1>9. n.kind = "file" /\ n.name = g.name /\ n.buf = Fresh BY <1>4, <1>7 DEF FileHandles
<1>10. CleanHandle(handle'[c]) BY <1>1, <1>5, <1>8, <1>9, FreshIsNew DEF CleanHandle
<1>11. CleanFiles' /\ CleanScratch' BY <1>2, <1>6, SameFilesClean, SameScratchClean DEF MetaInv
<1>12. handle' = [handle EXCEPT ![c] = handle'[c]] BY <1>8
<1>13. QED BY <1>4, <1>6, <1>10, <1>11, <1>12, AnswerStepClean

LEMMA WriteScratchClean ==
  ASSUME MetaInv, NEW c \in Clients, WriteScratch(c), Typed'
  PROVE  MetaInv'
<1>1. Typed BY DEF MetaInv
<1>2. Writing(c) /\ handle[c].kind = "scratch" /\ UNCHANGED <<file, hist, handle>>
  BY DEF WriteScratch, Writing
<1>3. PICK p : p = handle[c].place OBVIOUS
<1>4. PICK k : k = Fresh OBVIOUS
<1>5. /\ Answered(c) /\ handle[c] # None /\ Only(c)
      /\ sidecar' = (IF IsMeta(p.file) THEN sidecar \cup {k} ELSE sidecar)
  <2>1. /\ Answered(c) /\ handle[c] # None
        /\ sidecar' = (IF IsMeta(Target(handle[c])) THEN sidecar \cup {Fresh} ELSE sidecar)
    BY <1>1, <1>2, WritingFits
  <2>2. Target(handle[c]) = p.file BY <1>2, <1>3 DEF Target
  <2>3. handle' = [handle EXCEPT ![c] = handle'[c]] BY <1>1, <1>2 DEF Typed
  <2>4. QED BY <1>4, <2>1, <2>2, <2>3 DEF Only, Answered
<1>6. k \notin Contents /\ k \notin sidecar /\ k # 0 /\ k # None BY <1>1, <1>4, FreshIsNew
<1>7. /\ sidecar' \subseteq sidecar \cup {k} /\ sidecar' \cap Contents \subseteq sidecar
      /\ \A x : x \in Contents \/ x = None \/ x = 0 => (x \in sidecar' => x \in sidecar)
  BY <1>5, <1>6
<1>8. NamedWell(p.file) BY <1>2, <1>3, <1>5 DEF MetaInv, CleanHandle
<1>9. CleanScratch'
  <2>1. Insert(p, k) BY <1>3, <1>4 DEF WriteScratch
  <2>2. k \in sidecar' => IsMeta(p.file) BY <1>5, <1>6
  <2>3. QED BY <1>7, <1>8, <2>1, <2>2, ScratchGrows
<1>10. CleanFiles'
  <2>1. SUFFICES ASSUME NEW i \in Ids
                 PROVE  (file[i] # None => ~IsMeta(file[i].name)) /\ \A n \in 1..Len(hist[i]) : hist[i][n] \notin sidecar'
    BY <1>2 DEF CleanFiles, Committed
  <2>2. \A n \in 1..Len(hist[i]) : hist[i][n] \notin sidecar BY CommittedClean
  <2>3. \A n \in 1..Len(hist[i]) : hist[i][n] \in Contents BY <1>1 DEF Typed, FilesOk
  <2>4. QED BY <1>7, <2>2, <2>3 DEF MetaInv, CleanFiles
<1>11. ASSUME NEW d \in Clients PROVE (Clean(call[d]) /\ CleanHandle(handle[d]) /\ CleanTodo(todo[d]))'
  <2>1. Clean(call[d]) /\ CleanHandle(handle[d]) /\ CleanTodo(todo[d]) BY DEF MetaInv
  <2>2. call'[d] = call[d] /\ handle'[d] = handle[d] BY <1>1, <1>2 DEF Writing, Typed
  <2>3. call[d].body \in Contents \/ call[d].body = None BY <1>1, CallTypes DEF Maybe
  <2>4. handle[d] # None /\ handle[d].kind = "file" => handle[d].buf \in Contents
    BY <1>1, ClientTypes DEF HandleFits, FileHandles, ScratchHandles
  <2>5. Clean(call[d])' BY <1>7, <2>1, <2>2, <2>3 DEF Clean, Plainly
  <2>6. CleanHandle(handle[d])' BY <1>7, <2>1, <2>2, <2>4 DEF CleanHandle
  <2>7. CleanTodo(todo[d])'
    <3>1. CASE d = c
      <4>1. todo[c] \in Seq(Requests) BY <1>1, ClientTypes DEF SendsWell
      <4>2. PICK t : t = todo'[c] OBVIOUS
      <4>3. t \in {todo[c], <<>>} \/ (todo[c] # <<>> /\ t = Tail(todo[c])) BY <1>5, <4>2 DEF Answered
      <4>4. CleanTodo(t) BY <2>1, <3>1, <4>1, <4>3, CleanRest
      <4>5. QED BY <3>1, <4>2, <4>4
    <3>2. CASE d # c BY <1>1, <1>5, <2>1, <3>2 DEF Only, Typed
    <3>3. QED BY <3>1, <3>2
  <2>8. QED BY <2>5, <2>6, <2>7
<1>12. 0 \notin sidecar' BY <1>7 DEF MetaInv
<1>13. QED BY <1>9, <1>10, <1>11, <1>12 DEF MetaInv

LEMMA DisconnectClean ==
  ASSUME MetaInv, NEW c \in Clients, Disconnect(c), Typed'
  PROVE  MetaInv'
<1>1. /\ UNCHANGED <<file, hist, scratch, handle, call, sidecar>>
      /\ todo' = [todo EXCEPT ![c] = IF handle[c] = None THEN <<>> ELSE <<[op |-> "close"]>>]
  BY DEF Disconnect, memory
<1>2. CleanFiles' /\ CleanScratch' BY <1>1, SameFilesClean, SameScratchClean DEF MetaInv
<1>3. ASSUME NEW d \in Clients PROVE CleanTodo(todo'[d])
  <2>1. CASE d # c BY <1>1, <2>1 DEF MetaInv, Typed
  <2>2. CASE d = c
    <3>1. PICK q : q = [op |-> "close"] OBVIOUS
    <3>2. q.op = "close" BY <3>1
    <3>3. TreatsWell(q) BY <3>2 DEF TreatsWell
    <3>4. todo'[c] = <<>> \/ todo'[c] = <<q>> BY <1>1, <3>1 DEF MetaInv, Typed
    <3>5. CleanTodo(<<>>) /\ CleanTodo(<<q>>) BY <3>3 DEF CleanTodo
    <3>6. QED BY <2>2, <3>4, <3>5
  <2>3. QED BY <2>1, <2>2
<1>4. \A d \in Clients : (Clean(call[d]) /\ CleanHandle(handle[d]) /\ CleanTodo(todo[d]))'
  BY <1>1, <1>3 DEF MetaInv, Clean, CleanHandle, CleanTodo
<1>5. QED BY <1>1, <1>2, <1>4 DEF MetaInv

LEMMA CrashClean ==
  ASSUME MetaInv, Crash, Typed'
  PROVE  MetaInv'
<1>1. /\ UNCHANGED <<file, hist, sidecar>> /\ scratch' = <<>>
      /\ \A c \in Clients : handle'[c] = None /\ call'[c] = Resting /\ todo'[c] = <<>>
  BY DEF Crash
<1>2. CleanFiles' BY <1>1, SameFilesClean DEF MetaInv
<1>3. CleanScratch' BY <1>1 DEF CleanScratch
<1>4. \A c \in Clients : Clean(call'[c]) BY <1>1, RestingClean DEF MetaInv
<1>5. \A c \in Clients : CleanHandle(handle'[c]) /\ CleanTodo(todo'[c]) BY <1>1 DEF CleanHandle, CleanTodo
<1>6. \A d \in Clients : (Clean(call[d]) /\ CleanHandle(handle[d]) /\ CleanTodo(todo[d]))'
  BY <1>1, <1>4, <1>5 DEF Clean, CleanHandle, CleanTodo
<1>7. QED BY <1>1, <1>2, <1>3, <1>6 DEF MetaInv

LEMMA PurgeClean ==
  ASSUME MetaInv, NEW i \in Ids, Purge(i), Typed'
  PROVE  MetaInv'
<1>1. UNCHANGED <<hist, scratch, handle, call, todo, sidecar>> /\ file' = [file EXCEPT ![i] = None] BY DEF Purge, memory
<1>2. CleanFiles' BY <1>1 DEF MetaInv, CleanFiles, Committed, Typed, FilesOk
<1>3. CleanScratch' BY <1>1, SameScratchClean DEF MetaInv
<1>4. \A d \in Clients : (Clean(call[d]) /\ CleanHandle(handle[d]) /\ CleanTodo(todo[d]))'
  BY <1>1 DEF MetaInv, Clean, CleanHandle, CleanTodo
<1>5. QED BY <1>1, <1>2, <1>3, <1>4 DEF MetaInv

LEMMA InitClean == Init => MetaInv
<1>1. SUFFICES ASSUME Init PROVE MetaInv OBVIOUS
<1>2. Typed BY <1>1, InitTyped
<1>3. sidecar = {} /\ scratch = <<>> /\ \A c \in Clients : handle[c] = None /\ call[c] = Resting BY <1>1 DEF Init
<1>4. CleanFiles
  <2>1. \A i \in Ids : file[i] # None => file[i].name = Plain(FirstText) BY <1>1 DEF Init
  <2>2. ~IsMeta(Plain(FirstText)) BY MetadataAssumption DEF IsMeta, Plain
  <2>3. QED BY <1>3, <2>1, <2>2 DEF CleanFiles
<1>5. CleanScratch BY <1>3 DEF CleanScratch
<1>6. \A c \in Clients : Clean(call[c]) BY <1>2, <1>3, RestingClean
<1>7. \A c \in Clients : CleanHandle(handle[c]) BY <1>3 DEF CleanHandle
<1>8. \A c \in Clients : CleanTodo(todo[c]) BY <1>1, MetadataAssumption DEF Init, CleanTodo
<1>9. QED BY <1>2, <1>3, <1>4, <1>5, <1>6, <1>7, <1>8 DEF MetaInv

LEMMA NextClean == MetaInv /\ [Next]_vars => MetaInv'
<1>1. SUFFICES ASSUME MetaInv, [Next]_vars PROVE MetaInv' OBVIOUS
<1>2. Typed' BY <1>1, NextTyped DEF MetaInv
<1>3. CASE UNCHANGED vars
  <2>1. UNCHANGED <<file, hist, scratch, handle, call, todo, sidecar>> BY <1>3 DEF vars, memory, history
  <2>2. CleanFiles' /\ CleanScratch' BY <1>1, <2>1, SameFilesClean, SameScratchClean DEF MetaInv
  <2>3. \A d \in Clients : (Clean(call[d]) /\ CleanHandle(handle[d]) /\ CleanTodo(todo[d]))'
    BY <1>1, <2>1 DEF MetaInv, Clean, CleanHandle, CleanTodo
  <2>4. QED BY <1>1, <1>2, <2>1, <2>2, <2>3 DEF MetaInv
<1>4. CASE Next
  <2>1. ASSUME NEW c \in Clients, Take(c) PROVE MetaInv'
    BY <1>1, <1>2, <2>1, ScratchTakesClean, BeginsClean, WriteClean, WriteScratchClean DEF Take
  <2>2. ASSUME NEW c \in Clients, Serve(c) \/ Refuse(c) PROVE MetaInv' BY <1>1, <1>2, <2>2, ServesClean
  <2>3. ASSUME NEW c \in Clients, Disconnect(c) PROVE MetaInv' BY <1>1, <1>2, <2>3, DisconnectClean
  <2>4. QED BY <1>1, <1>2, <1>4, <2>1, <2>2, <2>3, CrashClean, PurgeClean DEF Next
<1>5. QED BY <1>1, <1>3, <1>4

(* What a client writes under the name of metadata is in no history: no    *)
(* handle, no request on its way and no move between places in memory ever *)
(* takes it to a file.                                                     *)
THEOREM MetadataStaysInMemory == Spec => []MetadataNotStored
<1>1. Init => MetaInv BY InitClean
<1>2. MetaInv /\ [Next]_vars => MetaInv' BY NextClean
<1>3. MetaInv => MetadataNotStored BY DEF MetaInv, CleanFiles, MetadataNotStored
<1>4. QED BY <1>1, <1>2, <1>3, PTL DEF Spec

-----------------------------------------------------------------------------
(* Every content written is in a history, in scratch, in a buffer, or was  *)
(* given up; a closed handle's is in the hands of the request that commits *)
(* it.                                                                     *)

Stored(k) == \E i \in Ids : file[i] # None /\ k \in Committed(i)
Laid(k) == \E p \in DOMAIN scratch : scratch[p] = k
Safe(k) == Stored(k) \/ Laid(k) \/ k \in lost
Borne(c, k) == (Pending(c) /\ handle[c].buf = k) \/ (Doing(c, "close") /\ call[c].body = k)
Whole == \A k \in 2..written : Safe(k) \/ \E c \in Clients : Borne(c, k)
WholeInv == Typed /\ Whole

(* What a step does to what is safe.                                       *)
FilesStay == \A i \in Ids : file[i] # None => file'[i] # None /\ Committed(i) \subseteq Committed(i)'
LaidStays == lost \subseteq lost' /\ \A k \in Contents : Laid(k) => Safe(k)'
StaysSafe == \A k \in Contents : Safe(k) => Safe(k)'

LEMMA Stays == ASSUME FilesStay, LaidStays PROVE StaysSafe
<1>1. SUFFICES ASSUME NEW k \in Contents, Safe(k) PROVE Safe(k)' BY DEF StaysSafe
<1>2. CASE Stored(k) BY <1>2 DEF Stored, FilesStay, Safe
<1>3. CASE Laid(k) BY <1>3 DEF LaidStays
<1>4. CASE k \in lost BY <1>4 DEF LaidStays, Safe
<1>5. QED BY <1>1, <1>2, <1>3, <1>4 DEF Safe

LEMMA SameFilesStay == ASSUME UNCHANGED <<file, hist>> PROVE FilesStay BY DEF FilesStay, Committed
LEMMA SameLaidStays ==
  ASSUME UNCHANGED scratch, lost \subseteq lost'
  PROVE  LaidStays
  BY DEF LaidStays, Laid, Safe

LEMMA RowStays ==
  ASSUME Typed, NEW i \in Ids, NEW row, row # None, file' = [file EXCEPT ![i] = row], UNCHANGED hist
  PROVE  FilesStay
  BY DEF FilesStay, Committed, Typed, FilesOk

LEMMA LostGrows == ASSUME NEW S, Dropped(S) PROVE lost \subseteq lost' /\ \A k \in S : k # None => k \in lost'
  BY DEF Dropped

LEMMA ContentsNumbers == ASSUME Typed PROVE None \notin Contents /\ 2..written \subseteq Contents /\ written \in Nat
<1>1. written \in Nat BY DEF Typed, FilesOk
<1>2. QED BY <1>1, NoneOther DEF Contents

(* Entries taken out of scratch, or overwritten there, are given up.       *)
LEMMA RemovedStays ==
  ASSUME Typed, NEW p, Remove(p), Dropped(Held(p))
  PROVE  LaidStays
<1>1. lost \subseteq lost' /\ \A k \in Held(p) : k # None => k \in lost' BY LostGrows
<1>2. SUFFICES ASSUME NEW k \in Contents, Laid(k) PROVE Safe(k)' BY <1>1 DEF LaidStays
<1>3. PICK q \in DOMAIN scratch : scratch[q] = k BY <1>2 DEF Laid
<1>4. CASE q = p BY <1>1, <1>2, <1>3, <1>4, ContentsNumbers DEF Held, Safe
<1>5. CASE q # p
  <2>1. q \in DOMAIN scratch' /\ scratch'[q] = k BY <1>3, <1>5 DEF Remove
  <2>2. QED BY <2>1 DEF Safe, Laid
<1>6. QED BY <1>4, <1>5

LEMMA InsertedStays ==
  ASSUME Typed, NEW p, NEW n, Insert(p, n), Dropped(Held(p))
  PROVE  LaidStays
<1>1. lost \subseteq lost' /\ \A k \in Held(p) : k # None => k \in lost' BY LostGrows
<1>2. SUFFICES ASSUME NEW k \in Contents, Laid(k) PROVE Safe(k)' BY <1>1 DEF LaidStays
<1>3. PICK q \in DOMAIN scratch : scratch[q] = k BY <1>2 DEF Laid
<1>4. CASE q = p BY <1>1, <1>2, <1>3, <1>4, ContentsNumbers DEF Held, Safe
<1>5. CASE q # p
  <2>1. q \in DOMAIN scratch' /\ scratch'[q] = k BY <1>3, <1>5 DEF Insert, With
  <2>2. QED BY <2>1 DEF Safe, Laid
<1>6. QED BY <1>4, <1>5

LEMMA UnscratchStays ==
  ASSUME Typed, NEW c \in Clients, Unscratch(c), NEW b, b = call[c].body, Safe(b)'
  PROVE  LaidStays
<1>1. CASE UNCHANGED <<scratch, lost>> BY <1>1, SameLaidStays
<1>2. CASE Remove(call[c].key) /\ Dropped(Held(call[c].key) \ {b})
  <2>1. PICK p : p = call[c].key OBVIOUS
  <2>2. lost \subseteq lost' /\ \A k \in Held(p) \ {b} : k # None => k \in lost' BY <1>2, <2>1, LostGrows
  <2>3. SUFFICES ASSUME NEW k \in Contents, Laid(k) PROVE Safe(k)' BY <2>2 DEF LaidStays
  <2>4. PICK q \in DOMAIN scratch : scratch[q] = k BY <2>3 DEF Laid
  <2>5. CASE q = p /\ k # b BY <2>2, <2>3, <2>4, <2>5, ContentsNumbers DEF Held, Safe
  <2>6. CASE k = b BY <2>6
  <2>7. CASE q # p
    <3>1. q \in DOMAIN scratch' /\ scratch'[q] = k BY <1>2, <2>1, <2>4, <2>7 DEF Remove
    <3>2. QED BY <3>1 DEF Safe, Laid
  <2>8. QED BY <2>5, <2>6, <2>7
<1>3. QED BY <1>1, <1>2 DEF Unscratch

(* The whole after a step of one client.                                   *)
LEMMA StepWhole ==
  ASSUME WholeInv, NEW c \in Clients, Only(c), Typed', StaysSafe,
         \A k \in 2..written' : k \in 2..written \/ Borne(c, k)' \/ Safe(k)',
         \A k \in 2..written : Borne(c, k) => Safe(k)' \/ Borne(c, k)'
  PROVE  WholeInv'
<1>1. SUFFICES ASSUME NEW k \in 2..written, ~Safe(k)' PROVE \E d \in Clients : Borne(d, k)'
  BY DEF WholeInv, Whole
<1>2. ~Safe(k) BY <1>1, ContentsNumbers DEF StaysSafe, WholeInv
<1>3. PICK d \in Clients : Borne(d, k) BY <1>1, <1>2 DEF WholeInv, Whole
<1>4. CASE d = c BY <1>1, <1>3, <1>4
<1>5. CASE d # c
  <2>1. handle'[d] = handle[d] /\ call'[d] = call[d] BY <1>5 DEF Only, WholeInv, Typed
  <2>2. Borne(d, k)' BY <1>3, <2>1 DEF Borne, Pending, Doing, Op
  <2>3. QED BY <2>2
<1>6. QED BY <1>4, <1>5

LEMMA WorkWhole ==
  ASSUME WholeInv, NEW c \in Clients, Worked(c), Typed', StaysSafe, UNCHANGED written
  PROVE  WholeInv'
<1>1. Only(c) BY OnlyOne DEF WholeInv
<1>2. \A k \in 2..written : Borne(c, k) => Borne(c, k)' BY DEF Worked, Borne, Pending, Doing, Op
<1>3. QED BY <1>1, <1>2, StepWhole

LEMMA EndWhole ==
  ASSUME WholeInv, NEW c \in Clients, Ended(c) \/ Answered(c), Typed', StaysSafe, UNCHANGED written,
         handle' = handle \/ GoodHandle(c),
         handle'[c] = handle[c] \/ ~Pending(c) \/ \A k : k = handle[c].buf => Safe(k)',
         Doing(c, "close") => \A k \in Contents : k = call[c].body => Safe(k)'
  PROVE  WholeInv'
<1>1. Only(c) BY OnlyOne DEF WholeInv
<1>2. ASSUME NEW k \in 2..written, Borne(c, k) PROVE Safe(k)' \/ Borne(c, k)'
  <2>1. k \in Contents BY <1>2, ContentsNumbers DEF WholeInv
  <2>2. CASE Pending(c) /\ handle[c].buf = k BY <2>2 DEF Borne, Pending
  <2>3. CASE Doing(c, "close") /\ call[c].body = k BY <2>1, <2>3
  <2>4. QED BY <1>2, <2>2, <2>3 DEF Borne
<1>3. QED BY <1>1, <1>2, StepWhole

LEMMA LooksWhole ==
  ASSUME WholeInv, NEW c \in Clients, FindById(c) \/ FindByName(c) \/ FindEmbedded(c), Typed'
  PROVE  WholeInv'
<1>1. Looked(c) BY LooksDoes DEF WholeInv
<1>2. Worked(c) /\ UNCHANGED <<file, hist, scratch, lost, written>> BY <1>1 DEF Looked, memory
<1>3. QED BY <1>2, SameFilesStay, SameLaidStays, Stays, WorkWhole

LEMMA OpensWhole ==
  ASSUME WholeInv, NEW c \in Clients, OpenNew(c) \/ OpenRead(c) \/ OpenMeta(c) \/ OpenHeal(c), Typed'
  PROVE  WholeInv'
<1>1. Typed BY DEF WholeInv
<1>2. UNCHANGED <<hist, scratch, written, lost>> BY DEF OpenNew, OpenRead, OpenMeta, OpenHeal, memory, history
<1>3. Doing(c, "open")
  <2>1. call[c].at # "idle" BY DEF OpenNew, OpenRead, OpenMeta, OpenHeal
  <2>2. Op(c) = "open" BY <1>1, OpenMetaDoes, OpenHealDoes DEF OpenNew, OpenRead
  <2>3. QED BY <2>1, <2>2 DEF Doing
<1>4. ~Doing(c, "close") BY <1>3 DEF Doing
<1>5. ~Pending(c) BY <1>1, <1>3, ClientTypes DEF HandleFits, Pending
<1>6. FilesStay
  <2>1. CASE UNCHANGED file BY <1>2, <2>1, SameFilesStay
  <2>2. CASE WriteRow(c, call[c].found.id, call[c].found.row) /\ OpenHeal(c)
    <3>1. PICK i \in Ids : i = call[c].found.id BY <1>1, <2>2, OpenHealDoes
    <3>2. PICK row \in Rows : row = call[c].found.row BY <1>1, <2>2, OpenHealDoes
    <3>3. QED BY <1>1, <1>2, <2>2, <3>1, <3>2, RowStays, NoneOther DEF WriteRow
  <2>3. QED BY <2>1, <2>2 DEF OpenNew, OpenRead, OpenMeta, OpenHeal
<1>7. StaysSafe BY <1>2, <1>6, SameLaidStays, Stays
<1>8. Worked(c) \/ (Ended(c) /\ (handle' = handle \/ GoodHandle(c)))
  BY <1>1, OpenNewDoes, OpenReadDoes, OpenMetaDoes, OpenHealDoes
<1>9. QED BY <1>2, <1>4, <1>5, <1>7, <1>8, WorkWhole, EndWhole

LEMMA CreateWhole ==
  ASSUME WholeInv, NEW c \in Clients, Create(c), Typed'
  PROVE  WholeInv'
<1>1. Typed BY DEF WholeInv
<1>2. PICK b : b = call[c].body OBVIOUS
<1>3. Ended(c) /\ handle' = handle /\ UNCHANGED written /\ Unscratch(c) BY <1>1, CreateDoes DEF Create
<1>4. PICK row \in Rows : row = NewRow(call[c]) BY <1>1, CreateDoes
<1>5. PICK i \in Free : file' = [file EXCEPT ![i] = row] /\ hist' = [hist EXCEPT ![i] = <<b>>]
  BY <1>1, <1>2, <1>4, CreateDoes
<1>6. i \in Ids /\ file[i] = None BY <1>5 DEF Free
<1>7. FilesStay BY <1>1, <1>5, <1>6 DEF FilesStay, Committed, Typed, FilesOk
<1>8. Safe(b)'
  <2>1. file'[i] = row /\ row # None /\ hist'[i] = <<b>> BY <1>1, <1>5, <1>6, NoneOther DEF Typed, FilesOk
  <2>2. 1 \in 1..Len(hist'[i]) /\ hist'[i][1] = b BY <2>1
  <2>3. QED BY <1>6, <2>1, <2>2 DEF Safe, Stored, Committed
<1>9. StaysSafe BY <1>1, <1>2, <1>3, <1>7, <1>8, UnscratchStays, Stays
<1>10. \A k \in Contents : k = call[c].body => Safe(k)' BY <1>2, <1>8
<1>11. QED BY <1>3, <1>9, <1>10, EndWhole

(* A commit that cannot be made drops what a close would have saved.       *)
LEMMA DropsBody ==
  ASSUME Typed, NEW c \in Clients, Dropped(IF Op(c) = "close" THEN {call[c].body} ELSE {})
  PROVE  lost \subseteq lost' /\ (Doing(c, "close") => \A k \in Contents : k = call[c].body => Safe(k)')
<1>1. PICK S : S = IF Op(c) = "close" THEN {call[c].body} ELSE {} OBVIOUS
<1>2. lost \subseteq lost' /\ \A k \in S : k # None => k \in lost' BY <1>1, LostGrows
<1>3. Doing(c, "close") => S = {call[c].body} BY <1>1 DEF Doing
<1>4. QED BY <1>2, <1>3, ContentsNumbers DEF Safe

LEMMA CommitsWhole ==
  ASSUME WholeInv, NEW c \in Clients, CommitRead(c) \/ CommitWrite(c), Typed'
  PROVE  WholeInv'
<1>1. Typed BY DEF WholeInv
<1>2. UNCHANGED written BY DEF CommitRead, CommitWrite
<1>3. ASSUME Ended(c), UNCHANGED <<file, hist, scratch, handle>>, Dropped(IF Op(c) = "close" THEN {call[c].body} ELSE {})
      PROVE  WholeInv'
  <2>1. lost \subseteq lost' /\ (Doing(c, "close") => \A k \in Contents : k = call[c].body => Safe(k)')
    BY <1>1, <1>3, DropsBody
  <2>2. StaysSafe BY <1>3, <2>1, SameFilesStay, SameLaidStays, Stays
  <2>3. QED BY <1>2, <1>3, <2>1, <2>2, EndWhole
<1>4. CASE CommitRead(c)
  <2>1. UNCHANGED <<file, hist, scratch, handle>> BY <1>4 DEF CommitRead, memory
  <2>2. CASE Worked(c) /\ UNCHANGED lost BY <1>2, <2>1, <2>2, SameFilesStay, SameLaidStays, Stays, WorkWhole
  <2>3. QED BY <1>1, <1>3, <1>4, <2>1, <2>2, CommitReadDoes
<1>5. CASE CommitWrite(c)
  <2>1. PICK r : r = call[c] OBVIOUS
  <2>2. r.at = "append" BY <1>5, <2>1 DEF CommitWrite
  <2>3. CASE /\ WriteRow(c, r.target.id, HeadRow(r)) /\ Unscratch(c) /\ file[r.target.id] # None
             /\ hist' = [hist EXCEPT ![r.target.id] = Longer(r)]
             /\ handle' = IF Op(c) = "flush" THEN [handle EXCEPT ![c].dirty = FALSE] ELSE handle
             /\ (Ended(c) /\ GoodHandle(c)) \/ Worked(c)
    <3>1. PICK i \in Ids : i = r.target.id BY <1>1, <2>1, <2>2, AppendTypes
    <3>2. PICK row \in Rows : row = HeadRow(r) BY <1>1, <2>1, <2>2, AppendTypes
    <3>3. PICK h \in Seq(Contents) : h = hist[i] BY <1>1 DEF Typed, FilesOk
    <3>4. PICK b \in Contents : b = r.body BY <1>1, <2>1, <2>2, AppendTypes
    <3>5. file' = [file EXCEPT ![i] = row] /\ hist' = [hist EXCEPT ![i] = Append(h, b)] /\ row # None
      BY <2>3, <3>1, <3>2, <3>3, <3>4, NoneOther DEF WriteRow, Longer
    <3>6. file'[i] # None /\ hist'[i] = Append(h, b)
          /\ \A j \in Ids \ {i} : file'[j] = file[j] /\ hist'[j] = hist[j]
      BY <1>1, <3>5 DEF Typed, FilesOk
    <3>7. Len(h) \in Nat /\ Len(Append(h, b)) = Len(h) + 1 /\ Append(h, b)[Len(h) + 1] = b
          /\ \A n \in 1..Len(h) : Append(h, b)[n] = h[n] /\ n \in 1..(Len(h) + 1)
      OBVIOUS
    <3>8. FilesStay
      <4>1. SUFFICES ASSUME NEW j \in Ids, file[j] # None
                     PROVE  file'[j] # None /\ \A n \in 1..Len(hist[j]) : \E m \in 1..Len(hist'[j]) : hist'[j][m] = hist[j][n]
        BY DEF FilesStay, Committed
      <4>2. CASE j = i BY <3>3, <3>6, <3>7, <4>2
      <4>3. CASE j # i BY <3>6, <4>1, <4>3
      <4>4. QED BY <4>2, <4>3
    <3>9. Safe(b)'
      <4>1. Len(h) + 1 \in 1..Len(hist'[i]) /\ hist'[i][Len(h) + 1] = b BY <3>6, <3>7
      <4>2. QED BY <3>6, <4>1 DEF Safe, Stored, Committed
    <3>10. StaysSafe BY <1>1, <2>1, <2>3, <3>4, <3>8, <3>9, UnscratchStays, Stays
    <3>11. CASE Worked(c) BY <1>2, <3>10, <3>11, WorkWhole
    <3>12. CASE Ended(c) /\ GoodHandle(c)
      <4>1. \A k \in Contents : k = call[c].body => Safe(k)' BY <2>1, <3>4, <3>9
      <4>2. handle'[c] = handle[c] \/ ~Pending(c) \/ \A k : k = handle[c].buf => Safe(k)'
        <5>1. CASE Op(c) # "flush" BY <2>3, <5>1
        <5>2. CASE Op(c) = "flush"
          <6>1. Doing(c, "flush") BY <2>1, <2>2, <5>2 DEF Doing
          <6>2. handle[c].buf = b BY <1>1, <2>1, <3>4, <6>1, ClientTypes DEF HandleFits
          <6>3. QED BY <3>9, <6>2
        <5>3. QED BY <5>1, <5>2
      <4>3. QED BY <1>2, <3>10, <3>12, <4>1, <4>2, EndWhole
    <3>13. QED BY <2>3, <3>11, <3>12
  <2>4. QED BY <1>1, <1>3, <1>5, <2>1, <2>3, CommitWriteDoes
<1>6. QED BY <1>4, <1>5

LEMMA BackWhole ==
  ASSUME WholeInv, NEW c \in Clients, NEW m, NEW row, BackDone(c, m, row), m.id \in Ids, UNCHANGED <<hist, scratch, written, lost, handle>>,
         ~Doing(c, "close"), Typed'
  PROVE  WholeInv'
<1>1. Ended(c) /\ row # None BY NoneOther DEF BackDone
<1>2. PICK i \in Ids : i = m.id OBVIOUS
<1>3. UNCHANGED file \/ file' = [file EXCEPT ![i] = row] BY <1>2 DEF BackDone, WriteRow
<1>4. FilesStay BY <1>1, <1>3, SameFilesStay, RowStays DEF WholeInv
<1>5. QED BY <1>1, <1>4, SameLaidStays, Stays, EndWhole

LEMMA RenamesWhole ==
  ASSUME WholeInv, NEW c \in Clients, Unlink(c) \/ Backup(c) \/ RenameFrom(c) \/ RenameOver(c) \/ RenameRow(c) \/ Retire(c),
         Typed'
  PROVE  WholeInv'
<1>1. Typed BY DEF WholeInv
<1>2. UNCHANGED <<hist, written>> BY DEF Unlink, Backup, RenameFrom, RenameOver, RenameRow, Retire
<1>3. handle' = handle BY <1>1, UnlinkDoes, BackupDoes, RenameFromDoes, RenameOverDoes, RenameRowDoes, RetireDoes
<1>4. ~Doing(c, "close")
  <2>1. CASE Retire(c) BY <1>1, <2>1, CallTypes DEF Retire, SaveFits, Onto, Doing, Op
  <2>2. QED BY <2>1 DEF Unlink, Backup, RenameFrom, RenameOver, RenameRow, Doing
<1>5. ASSUME Ended(c) \/ Worked(c), UNCHANGED <<file, scratch, lost>> PROVE WholeInv'
  <2>1. StaysSafe BY <1>2, <1>5, SameFilesStay, SameLaidStays, Stays
  <2>2. QED BY <1>2, <1>3, <1>4, <1>5, <2>1, EndWhole, WorkWhole
<1>6. ASSUME NEW row, BackDone(c, call[c].found, row), UNCHANGED <<scratch, lost>> PROVE WholeInv'
  <2>1. call[c].found.id \in Ids BY <1>1, <1>6, CallTypes, CopyTypes DEF BackDone, Has, Maybe
  <2>2. PICK m : m = call[c].found OBVIOUS
  <2>3. QED BY <1>2, <1>3, <1>4, <1>6, <2>1, <2>2, BackWhole
<1>7. CASE Unlink(c)
  <2>1. UNCHANGED <<scratch, lost>> BY <1>7 DEF Unlink, memory
  <2>2. PICK row : row = [call[c].found.row EXCEPT !.deleted = TRUE] OBVIOUS
  <2>3. (Ended(c) /\ UNCHANGED file) \/ BackDone(c, call[c].found, row) BY <1>1, <1>7, <2>2, UnlinkDoes
  <2>4. QED BY <1>5, <1>6, <2>1, <2>3
<1>8. CASE Retire(c)
  <2>1. UNCHANGED <<scratch, lost>> BY <1>8 DEF Retire, memory
  <2>2. PICK row : row = [call[c].found.row EXCEPT !.deleted = TRUE] OBVIOUS
  <2>3. BackDone(c, call[c].found, row) BY <1>1, <1>8, <2>2, RetireDoes
  <2>4. QED BY <1>6, <2>1, <2>3
<1>9. CASE RenameRow(c)
  <2>1. UNCHANGED <<scratch, lost>> BY <1>9 DEF RenameRow, memory
  <2>2. PICK row : row = [call[c].found.row EXCEPT !.name = DisplayPart(RenameTo(c).file)] OBVIOUS
  <2>3. BackDone(c, call[c].found, row) BY <1>1, <1>9, <2>2, RenameRowDoes
  <2>4. QED BY <1>6, <2>1, <2>3
<1>10. CASE Backup(c)
  <2>1. UNCHANGED file /\ Ended(c) BY <1>1, <1>10, BackupDoes DEF Backup
  <2>2. CASE UNCHANGED <<scratch, lost>> BY <1>5, <2>1, <2>2
  <2>3. CASE Insert(RenameTo(c), Content(call[c].found.id)) /\ Dropped(Held(RenameTo(c)))
    <3>1. PICK p : p = RenameTo(c) OBVIOUS
    <3>2. PICK k : k = Content(call[c].found.id) OBVIOUS
    <3>3. LaidStays BY <1>1, <2>3, <3>1, <3>2, InsertedStays
    <3>4. StaysSafe BY <1>2, <2>1, <3>3, SameFilesStay, Stays
    <3>5. QED BY <1>2, <1>3, <1>4, <2>1, <3>4, EndWhole
  <2>4. QED BY <1>1, <1>10, <2>2, <2>3, BackupDoes
<1>11. CASE RenameFrom(c)
  <2>1. UNCHANGED <<file, scratch, lost>> BY <1>11 DEF RenameFrom, memory
  <2>2. QED BY <1>1, <1>5, <1>11, <2>1, RenameFromDoes
<1>12. CASE RenameOver(c)
  <2>1. UNCHANGED <<file, scratch, lost>> BY <1>12 DEF RenameOver, memory
  <2>2. QED BY <1>1, <1>5, <1>12, <2>1, RenameOverDoes
<1>13. QED BY <1>7, <1>8, <1>9, <1>10, <1>11, <1>12

LEMMA FoldsWhole ==
  ASSUME WholeInv, NEW c \in Clients, FoldTarget(c), Typed'
  PROVE  WholeInv'
<1>1. Typed BY DEF WholeInv
<1>2. UNCHANGED <<hist, written>> /\ handle' = handle BY <1>1, FoldTargetDoes DEF FoldTarget
<1>3. ~Doing(c, "close")
  <2>1. Folding(call[c]) BY <1>1, CallTypes DEF FoldTarget, FoundFits, Onto
  <2>2. QED BY <2>1 DEF Folding, Doing, Op
<1>4. CASE Ended(c) /\ UNCHANGED file /\ Remove(call[c].key) /\ Dropped(Held(call[c].key))
  <2>1. PICK p : p = call[c].key OBVIOUS
  <2>2. StaysSafe BY <1>1, <1>2, <1>4, <2>1, RemovedStays, SameFilesStay, Stays
  <2>3. QED BY <1>2, <1>3, <1>4, <2>2, EndWhole
<1>5. ASSUME Worked(c), UNCHANGED <<scratch, lost>>, FilesStay PROVE WholeInv'
  BY <1>2, <1>5, SameLaidStays, Stays, WorkWhole
<1>6. CASE Worked(c) /\ UNCHANGED <<scratch, lost, file>> BY <1>2, <1>5, <1>6, SameFilesStay
<1>7. CASE /\ Worked(c) /\ UNCHANGED <<scratch, lost>> /\ Has(call[c].target) /\ call[c].target.row \in Rows
           /\ call[c].target.id \in Ids /\ call[c].want \in Names
           /\ WriteRow(c, call[c].target.id,
                       [call[c].target.row EXCEPT !.deleted = FALSE, !.name = DisplayPart(call[c].want)])
  <2>1. PICK i \in Ids : i = call[c].target.id BY <1>7
  <2>2. PICK old \in Rows : old = call[c].target.row BY <1>7
  <2>3. PICK n \in Names : n = DisplayPart(call[c].want) BY <1>7, DisplayFits
  <2>4. PICK row \in Rows : row = [old EXCEPT !.deleted = FALSE, !.name = n] BY RowForms
  <2>5. file' = [file EXCEPT ![i] = row] /\ row # None BY <1>7, <2>1, <2>2, <2>3, <2>4, NoneOther DEF WriteRow
  <2>6. FilesStay BY <1>1, <1>2, <2>5, RowStays
  <2>7. QED BY <1>5, <1>7, <2>6
<1>8. QED BY <1>1, <1>4, <1>6, <1>7, FoldTargetDoes

LEMMA ServesWhole ==
  ASSUME WholeInv, NEW c \in Clients, Serve(c) \/ Refuse(c), Typed'
  PROVE  WholeInv'
<1>1. Typed BY DEF WholeInv
<1>2. CASE SalvageNext(c)
  <2>1. UNCHANGED <<file, hist, scratch, written, lost>> BY <1>2 DEF SalvageNext, memory, history
  <2>2. QED BY <1>1, <1>2, <2>1, SalvageNextDoes, SameFilesStay, SameLaidStays, Stays, WorkWhole
<1>3. CASE SalvageEnd(c)
  <2>1. UNCHANGED <<file, hist, written>> BY <1>3 DEF SalvageEnd
  <2>2. Ended(c) /\ handle' = handle BY <1>1, <1>3, SalvageEndDoes
  <2>3. ~Doing(c, "close") BY <1>1, <1>3, CallTypes DEF SalvageEnd, RestFits, Doing, Op
  <2>4. PICK S : S = InDir(call[c].req.path.dir) OBVIOUS
  <2>5. PICK T : T = UNION {Held(p) : p \in S} OBVIOUS
  <2>6. scratch' = [p \in DOMAIN scratch \ S |-> scratch[p]] /\ Dropped(T) BY <1>3, <2>4, <2>5 DEF SalvageEnd
  <2>7. lost \subseteq lost' /\ \A k \in T : k # None => k \in lost' BY <2>6, LostGrows
  <2>8. LaidStays
    <3>1. SUFFICES ASSUME NEW k \in Contents, Laid(k) PROVE Safe(k)' BY <2>7 DEF LaidStays
    <3>2. PICK q \in DOMAIN scratch : scratch[q] = k BY <3>1 DEF Laid
    <3>3. CASE q \in S
      <4>1. k \in Held(q) BY <3>2 DEF Held
      <4>2. k \in T BY <2>5, <3>3, <4>1
      <4>3. QED BY <1>1, <2>7, <3>1, <4>2, ContentsNumbers DEF Safe
    <3>4. CASE q \notin S
      <4>1. q \in DOMAIN scratch' /\ scratch'[q] = k BY <2>6, <3>2, <3>4
      <4>2. QED BY <4>1 DEF Safe, Laid
    <3>5. QED BY <3>3, <3>4
  <2>9. QED BY <2>1, <2>2, <2>3, <2>8, SameFilesStay, Stays, EndWhole
<1>4. CASE Refuse(c)
  <2>1. UNCHANGED <<file, hist, written>> BY <1>4 DEF Refuse
  <2>2. Ended(c) /\ handle' = handle BY <1>1, <1>4, RefuseDoes
  <2>3. CASE Dropped(IF Op(c) = "close" THEN {call[c].body} ELSE {}) /\ UNCHANGED scratch
    <3>1. lost \subseteq lost' /\ (Doing(c, "close") => \A k \in Contents : k = call[c].body => Safe(k)')
      BY <1>1, <2>3, DropsBody
    <3>2. StaysSafe BY <2>1, <2>3, <3>1, SameFilesStay, SameLaidStays, Stays
    <3>3. QED BY <2>1, <2>2, <3>1, <3>2, EndWhole
  <2>4. CASE Remove(call[c].key) /\ Dropped(Held(call[c].key)) /\ call[c].stage = "fold" /\ call[c].at = "found"
    <3>1. PICK p : p = call[c].key OBVIOUS
    <3>2. StaysSafe BY <1>1, <2>1, <2>4, <3>1, RemovedStays, SameFilesStay, Stays
    <3>3. Folding(call[c]) BY <1>1, <2>4, CallTypes DEF FoundFits, Onto
    <3>4. ~Doing(c, "close") BY <3>3 DEF Folding, Doing, Op
    <3>5. QED BY <2>1, <2>2, <3>2, <3>4, EndWhole
  <2>5. QED BY <1>1, <1>4, <2>3, <2>4, RefuseDoes
<1>5. QED BY <1>2, <1>3, <1>4, LooksWhole, OpensWhole, CreateWhole, CommitsWhole, FoldsWhole, RenamesWhole DEF Serve

LEMMA QuietTake ==
  ASSUME WholeInv, NEW c \in Clients, Take(c) \/ Disconnect(c), Typed', StaysSafe, UNCHANGED written,
         \/ handle'[c] = handle[c] \/ ~Pending(c)
         \/ Doing(c, "close")' /\ call'[c].body = handle[c].buf
  PROVE  WholeInv'
<1>1. Only(c) BY TakesAlone DEF WholeInv
<1>2. call[c].at = "idle"
  BY DEF Ready, Take, Disconnect, OpenScratch, BeginOpen, NoHandle, Write, WriteScratch, Writing, FlushNothing,
     BeginFlush, BeginClose, MkDir, BeginRmDir, UnlinkScratch, BeginUnlink, RenameScratch, BeginFold, BeginRename
<1>3. \A k \in 2..written : Borne(c, k) => Borne(c, k)' BY <1>2 DEF Borne, Pending, Doing
<1>4. QED BY <1>1, <1>3, StepWhole

LEMMA MovedStays ==
  ASSUME Typed, NEW p, NEW q, NEW moves \in BOOLEAN, moves => p \in DOMAIN scratch,
         scratch' = Moved(p, q, moves), Dropped(Forgone(p, q, moves))
  PROVE  LaidStays
<1>1. lost \subseteq lost' /\ \A k \in Forgone(p, q, moves) : k # None => k \in lost' BY LostGrows
<1>2. SUFFICES ASSUME NEW k \in Contents, Laid(k) PROVE Safe(k)' BY <1>1 DEF LaidStays
<1>3. PICK x \in DOMAIN scratch : scratch[x] = k BY <1>2 DEF Laid
<1>4. k # None BY ContentsNumbers
<1>5. CASE k \in Forgone(p, q, moves) BY <1>1, <1>4, <1>5 DEF Safe
<1>6. ASSUME NEW y \in DOMAIN scratch', scratch'[y] = k PROVE Safe(k)' BY <1>6 DEF Safe, Laid
<1>7. CASE x = p /\ moves
  <2>1. q \in DOMAIN scratch' /\ scratch'[q] = k BY <1>3, <1>7 DEF Moved
  <2>2. QED BY <1>6, <2>1
<1>8. CASE x = p /\ ~moves BY <1>3, <1>5, <1>8 DEF Forgone, Held
<1>9. CASE x # p /\ x = q /\ moves BY <1>3, <1>5, <1>9 DEF Forgone, Held
<1>10. CASE x # p /\ (x # q \/ ~moves)
  <2>1. x \in DOMAIN scratch' /\ scratch'[x] = k BY <1>3, <1>10 DEF Moved
  <2>2. QED BY <1>6, <2>1
<1>11. QED BY <1>7, <1>8, <1>9, <1>10

LEMMA WritesWhole ==
  ASSUME WholeInv, NEW c \in Clients, Write(c) \/ WriteScratch(c), Typed'
  PROVE  WholeInv'
<1>1. Typed BY DEF WholeInv
<1>2. /\ Writing(c) /\ UNCHANGED <<file, hist>> /\ Only(c) /\ call[c].at = "idle" /\ written' = written + 1
  BY <1>1, TakesAlone DEF Write, WriteScratch, Writing, Ready, Take, Fresh
<1>3. \A k \in 2..written' : k \in 2..written \/ k = Fresh BY <1>2, ContentsNumbers, <1>1 DEF Fresh
<1>4. handle[c] # None /\ handle[c] \in FileHandles \cup ScratchHandles BY <1>1, <1>2, WritingFits
<1>5. CASE Write(c)
  <2>1. PICK g : g = handle[c] OBVIOUS
  <2>2. /\ g.kind = "file" /\ handle' = [handle EXCEPT ![c].buf = Fresh, ![c].dirty = TRUE] /\ UNCHANGED scratch
        /\ Dropped(IF g.dirty THEN {g.buf} ELSE {})
    BY <1>5, <2>1 DEF Write
  <2>3. g \in FileHandles BY <1>4, <2>1, <2>2 DEF ScratchHandles
  <2>4. PICK S : S = IF g.dirty THEN {g.buf} ELSE {} OBVIOUS
  <2>5. lost \subseteq lost' /\ \A k \in S : k # None => k \in lost' BY <2>2, <2>4, LostGrows
  <2>6. PICK n : n = [g EXCEPT !.buf = Fresh, !.dirty = TRUE] OBVIOUS
  <2>7. handle'[c] = n BY <1>1, <2>1, <2>2, <2>6 DEF Typed
  <2>8. n \in FileHandles' /\ n.kind = "file" /\ n.buf = Fresh /\ n.dirty = TRUE
    BY <1>1, <1>2, <2>3, <2>6, WritingFits DEF FileHandles
  <2>9. n # None
    <3>1. FileHandles' \subseteq [kind: {"file"}, id: Ids \cup {None}, name: Names, buf: Nat, dirty: BOOLEAN]
      BY <1>1, <1>2, ContentsNumbers DEF FileHandles, Contents
    <3>2. QED BY <2>8, <3>1, NoneOther
  <2>10. PICK b : b = Fresh OBVIOUS
  <2>11. Borne(c, b)' BY <2>7, <2>8, <2>9, <2>10 DEF Borne, Pending
  <2>12. \A k \in 2..written' : k \in 2..written \/ Borne(c, k)' BY <1>3, <2>10, <2>11
  <2>13. ASSUME NEW k \in 2..written, Borne(c, k) PROVE Safe(k)'
    <3>1. k # None BY <1>1, ContentsNumbers
    <3>2. k \in S BY <1>2, <2>1, <2>4, <2>13 DEF Borne, Pending, Doing
    <3>3. QED BY <2>5, <3>1, <3>2 DEF Safe
  <2>14. StaysSafe BY <1>2, <2>2, <2>5, SameFilesStay, SameLaidStays, Stays
  <2>15. QED BY <1>2, <2>12, <2>13, <2>14, StepWhole
<1>6. CASE WriteScratch(c)
  <2>1. PICK p : p = handle[c].place OBVIOUS
  <2>2. PICK n : n = Fresh OBVIOUS
  <2>3. Insert(p, n) /\ Dropped(Held(p)) /\ UNCHANGED handle BY <1>6, <2>1, <2>2 DEF WriteScratch
  <2>4. LaidStays BY <1>1, <2>3, InsertedStays
  <2>5. StaysSafe BY <1>2, <2>4, SameFilesStay, Stays
  <2>6. Safe(n)'
    <3>1. p \in DOMAIN scratch' /\ scratch'[p] = n BY <2>3 DEF Insert, With
    <3>2. QED BY <3>1 DEF Safe, Laid
  <2>7. \A k \in 2..written' : k \in 2..written \/ Safe(k)' BY <1>3, <2>2, <2>6
  <2>8. \A k \in 2..written : Borne(c, k) => Borne(c, k)' BY <1>2, <2>3 DEF Borne, Pending, Doing
  <2>9. QED BY <1>2, <2>5, <2>7, <2>8, StepWhole
<1>7. QED BY <1>5, <1>6

LEMMA TakesWhole ==
  ASSUME WholeInv, NEW c \in Clients, Take(c) \/ Disconnect(c), Typed'
  PROVE  WholeInv'
<1>1. Typed BY DEF WholeInv
<1>2. CASE Write(c) \/ WriteScratch(c) BY <1>2, WritesWhole
<1>3. ASSUME ~Write(c), ~WriteScratch(c) PROVE UNCHANGED <<file, hist, written>>
  BY <1>3 DEF Take, Disconnect, OpenScratch, BeginOpen, NoHandle, FlushNothing, BeginFlush,
     BeginClose, MkDir, BeginRmDir, UnlinkScratch, BeginUnlink, RenameScratch, BeginFold, BeginRename
<1>4. ASSUME LaidStays, UNCHANGED <<file, hist, written>>,
             \/ handle'[c] = handle[c] \/ ~Pending(c)
             \/ Doing(c, "close")' /\ call'[c].body = handle[c].buf
      PROVE  WholeInv'
  BY <1>4, SameFilesStay, Stays, QuietTake
<1>5. CASE OpenScratch(c)
  <2>1. handle[c] = None BY <1>1, <1>5, ReadyIs DEF OpenScratch
  <2>2. PICK p : p = Req(c).path OBVIOUS
  <2>3. PICK n : n = 0 OBVIOUS
  <2>4. UNCHANGED <<scratch, lost>> \/ (Insert(p, n) /\ Dropped(Held(p)))
    BY <1>5, <2>2, <2>3, SendsOff DEF OpenScratch, memory
  <2>5. LaidStays BY <1>1, <2>4, SameLaidStays, InsertedStays
  <2>6. UNCHANGED <<file, hist, written>> BY <1>5 DEF OpenScratch
  <2>7. QED BY <1>4, <2>1, <2>5, <2>6 DEF Pending
<1>6. CASE UnlinkScratch(c) \/ BeginUnlink(c)
  <2>1. PICK p : p = Req(c).path OBVIOUS
  <2>2. UNCHANGED <<scratch, lost>> \/ (Remove(p) /\ Dropped(Held(p))) BY <1>6, <2>1 DEF UnlinkScratch, BeginUnlink
  <2>3. LaidStays BY <1>1, <2>2, SameLaidStays, RemovedStays
  <2>4. UNCHANGED <<file, hist, written, handle>> BY <1>6 DEF UnlinkScratch, BeginUnlink
  <2>5. QED BY <1>4, <2>3, <2>4
<1>7. CASE RenameScratch(c)
  <2>1. PICK p : p = From(c) OBVIOUS
  <2>2. PICK q : q = To(c) OBVIOUS
  <2>3. UNCHANGED <<file, hist, written, handle>> BY <1>1, <1>7, RenameScratchDoes
  <2>4. CASE UNCHANGED <<scratch, lost>> BY <1>4, <2>3, <2>4, SameLaidStays
  <2>5. CASE \E moves \in BOOLEAN : /\ moves => p \in DOMAIN scratch
                                    /\ scratch' = Moved(p, q, moves) /\ Dropped(Forgone(p, q, moves))
    BY <1>1, <1>4, <2>3, <2>5, MovedStays
  <2>6. QED BY <1>1, <1>7, <2>1, <2>2, <2>4, <2>5, RenameScratchDoes
<1>8. CASE BeginClose(c)
  <2>1. UNCHANGED <<file, hist, written, scratch, lost>> BY <1>8 DEF BeginClose, memory, history
  <2>2. LaidStays BY <2>1, SameLaidStays
  <2>3. CASE ~Pending(c) BY <1>4, <2>1, <2>2, <2>3
  <2>4. ASSUME call'[c].at # "idle", call'[c].req = Req(c), call'[c].body = handle[c].buf PROVE WholeInv'
    <3>1. Req(c).op = "close" BY <1>1, <1>8, BeginCloseDoes
    <3>2. Doing(c, "close")' BY <2>4, <3>1 DEF Doing, Op
    <3>3. QED BY <1>4, <2>1, <2>2, <2>4, <3>2
  <2>5. CASE \E d : BegunAt(c, d, {"commit"}, "from", None, None, Unread(handle[c].id), handle[c].buf)
    BY <2>4, <2>5 DEF BegunAt
  <2>6. CASE \E d : BegunAt(c, d, {"create"}, "from", handle[c].name, None, None, handle[c].buf)
    BY <2>4, <2>6 DEF BegunAt
  <2>7. QED BY <1>1, <1>8, <2>3, <2>5, <2>6, BeginCloseDoes
<1>9. CASE \/ BeginOpen(c) \/ NoHandle(c) \/ FlushNothing(c) \/ BeginFlush(c) \/ MkDir(c) \/ BeginRmDir(c)
           \/ BeginFold(c) \/ BeginRename(c) \/ Disconnect(c)
  <2>1. UNCHANGED <<file, hist, written, scratch, lost, handle>>
    BY <1>9, SendsOff DEF BeginOpen, NoHandle, FlushNothing, BeginFlush, MkDir, BeginRmDir, BeginFold, BeginRename,
       Disconnect, memory, history
  <2>2. LaidStays BY <2>1, SameLaidStays
  <2>3. QED BY <1>4, <2>1, <2>2
<1>10. QED BY <1>2, <1>5, <1>6, <1>7, <1>8, <1>9 DEF Take

(* What is held in memory only is lost with it.                            *)
LEMMA CrashWhole ==
  ASSUME WholeInv, Crash, Typed'
  PROVE  WholeInv'
<1>1. UNCHANGED <<file, hist, written>> /\ Dropped(InMemory) BY DEF Crash
<1>2. PICK S : S = InMemory OBVIOUS
<1>3. lost \subseteq lost' /\ \A k \in S : k # None => k \in lost' BY <1>1, <1>2, LostGrows
<1>4. ASSUME NEW k \in 2..written PROVE Safe(k)'
  <2>1. k # None BY ContentsNumbers DEF WholeInv
  <2>2. CASE Stored(k) BY <1>1, <2>2 DEF Stored, Committed, Safe
  <2>3. CASE k \in lost BY <1>3, <2>3 DEF Safe
  <2>4. CASE Laid(k)
    <3>1. k \in {scratch[p] : p \in DOMAIN scratch} BY <2>4 DEF Laid
    <3>2. k \in S BY <1>2, <3>1 DEF InMemory
    <3>3. QED BY <1>3, <2>1, <3>2 DEF Safe
  <2>5. ASSUME NEW c \in Clients, Borne(c, k) PROVE Safe(k)'
    <3>1. k \in Buffered(c) \cup {call[c].body} BY <2>5 DEF Borne, Buffered
    <3>2. k \in S BY <1>2, <3>1 DEF InMemory
    <3>3. QED BY <1>3, <2>1, <3>2 DEF Safe
  <2>6. QED BY <2>2, <2>3, <2>4, <2>5 DEF WholeInv, Whole, Safe
<1>5. QED BY <1>1, <1>4 DEF WholeInv, Whole

LEMMA PurgeWhole ==
  ASSUME WholeInv, NEW i \in Ids, Purge(i), Typed'
  PROVE  WholeInv'
<1>1. /\ UNCHANGED <<hist, scratch, handle, call, written>> /\ file' = [file EXCEPT ![i] = None]
      /\ Dropped(Committed(i))
  BY DEF Purge, memory, Committed
<1>2. PICK S : S = Committed(i) OBVIOUS
<1>3. lost \subseteq lost' /\ \A k \in S : k # None => k \in lost' BY <1>1, <1>2, LostGrows
<1>4. ASSUME NEW k \in 2..written, Safe(k) PROVE Safe(k)'
  <2>1. k # None BY ContentsNumbers DEF WholeInv
  <2>2. CASE Stored(k)
    <3>1. PICK j \in Ids : file[j] # None /\ k \in Committed(j) BY <2>2 DEF Stored
    <3>2. CASE j = i BY <1>2, <1>3, <2>1, <3>1, <3>2 DEF Safe
    <3>3. CASE j # i
      <4>1. file'[j] # None /\ k \in Committed(j)' BY <1>1, <3>1, <3>3 DEF WholeInv, Typed, FilesOk, Committed
      <4>2. QED BY <4>1 DEF Safe, Stored
    <3>4. QED BY <3>2, <3>3
  <2>3. CASE Laid(k) BY <1>1, <2>3 DEF Laid, Safe
  <2>4. CASE k \in lost BY <1>3, <2>4 DEF Safe
  <2>5. QED BY <1>4, <2>2, <2>3, <2>4 DEF Safe
<1>5. ASSUME NEW k \in 2..written, NEW c \in Clients, Borne(c, k) PROVE Borne(c, k)'
  BY <1>1, <1>5 DEF Borne, Pending, Doing, Op
<1>6. QED BY <1>1, <1>4, <1>5 DEF WholeInv, Whole

LEMMA NextWhole == WholeInv /\ [Next]_vars => WholeInv'
<1>1. SUFFICES ASSUME WholeInv, [Next]_vars PROVE WholeInv' OBVIOUS
<1>2. Typed' BY <1>1, NextTyped DEF WholeInv
<1>3. CASE UNCHANGED vars
  <2>1. UNCHANGED <<file, hist, scratch, handle, call, written, lost>> BY <1>3 DEF vars, memory, history
  <2>2. \A k \in 2..written : Safe(k) => Safe(k)' BY <2>1 DEF Safe, Stored, Laid, Committed
  <2>3. \A k \in 2..written, c \in Clients : Borne(c, k) => Borne(c, k)' BY <2>1 DEF Borne, Pending, Doing, Op
  <2>4. QED BY <1>1, <1>2, <2>1, <2>2, <2>3 DEF WholeInv, Whole
<1>4. CASE Next
  <2>1. ASSUME NEW c \in Clients, Take(c) \/ Serve(c) \/ Refuse(c) \/ Disconnect(c) PROVE WholeInv'
    BY <1>1, <1>2, <2>1, TakesWhole, ServesWhole
  <2>2. QED BY <1>1, <1>2, <1>4, <2>1, CrashWhole, PurgeWhole DEF Next
<1>5. QED BY <1>1, <1>3, <1>4

LEMMA WholeMeansAll == WholeInv => NothingVanishes
<1>1. SUFFICES ASSUME WholeInv, NEW k \in 2..written PROVE k \in Kept \cup lost BY DEF NothingVanishes
<1>2. CASE Stored(k)
  <2>1. PICK i \in {j \in Ids : file[j] # None} : k \in Committed(i) BY <1>2 DEF Stored
  <2>2. QED BY <2>1 DEF Kept
<1>3. CASE Laid(k)
  <2>1. k \in {scratch[p] : p \in DOMAIN scratch} BY <1>3 DEF Laid
  <2>2. k \in InMemory BY <2>1 DEF InMemory
  <2>3. QED BY <2>2 DEF Kept
<1>4. ASSUME NEW c \in Clients, Borne(c, k) PROVE k \in Kept
  <2>1. k \in Buffered(c) \cup {call[c].body} BY <1>4 DEF Borne, Buffered
  <2>2. k \in InMemory BY <2>1 DEF InMemory
  <2>3. QED BY <2>2 DEF Kept
<1>5. QED BY <1>1, <1>2, <1>3, <1>4 DEF WholeInv, Whole, Safe

(* No interleaving of saves, folds, renames and closes, and no refusal on  *)
(* their way, makes a written content disappear: it is committed, in a     *)
(* buffer or in scratch, or it was given up at a client's wish or with a   *)
(* fault.                                                                  *)
THEOREM NoWriteVanishes == Spec => []NothingVanishes
<1>1. Init => WholeInv
  <2>1. SUFFICES ASSUME Init PROVE WholeInv OBVIOUS
  <2>2. Typed /\ written = 1 BY <2>1, InitTyped DEF Init
  <2>3. QED BY <2>2 DEF WholeInv, Whole
<1>2. WholeInv /\ [Next]_vars => WholeInv' BY NextWhole
<1>3. WholeInv => NothingVanishes BY WholeMeansAll
<1>4. QED BY <1>1, <1>2, <1>3, PTL DEF Spec
=============================================================================
