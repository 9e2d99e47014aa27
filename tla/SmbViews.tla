------------------------------ MODULE SmbViews ------------------------------
(***************************************************************************)
(* The views by tag and by series: TagsBackend and SeriesBackend of        *)
(* yozist-smb backends.rs with the handles of new files they give out      *)
(* (handle.rs, close), beside the REST calls on the same tables (file_tags,*)
(* series, series_members, the owner's rule of a file).  A file made in a  *)
(* view is a file, then its tags, then its series, then its owner's rule;  *)
(* a move is a removal, then an addition; a new order is one call for each *)
(* file.  Between two calls tags and series may go and other requests may  *)
(* be at the same series.                                                  *)
(*                                                                         *)
(* As in Library each request is a sequence of database calls (Steps).     *)
(* Paths are seen as what their lookup found, so a request starts with ids *)
(* that exist; ids are never used again.  Orders are numbers in place of   *)
(* floats.  Left out: contents (SmbAll), system tags and search (Library), *)
(* upsert_tag, which makes the directories of tags (AiTags), descriptions  *)
(* and names.                                                              *)
(***************************************************************************)
EXTENDS Naturals, Sequences, FiniteSets, FiniteSetsExt

CONSTANTS
  Requests,
  Files,
  Tags, Series,
  Before,      \* the order files were made in
  FirstFiles, FirstTags, FirstSeries, FirstLinks, FirstMembers,   \* what there is to begin with
  Arrivals,    \* the kinds of request that come
  Orders,      \* the positions clients ask for
  MaxRequests, \* bound on the requests ever started
  MaxFaults,   \* bound on crashes and failing calls
  None

ASSUME SmbViewsAssumption ==
  /\ IsFiniteSet(Files) /\ IsFiniteSet(Tags) /\ Before \in [Files -> Nat] /\ Orders \subseteq Nat
  /\ FirstFiles \subseteq Files /\ FirstTags \subseteq Tags /\ FirstSeries \subseteq Series
  /\ FirstLinks \in [Files -> SUBSET FirstTags]
  /\ FirstMembers \in [Series -> [Files -> Nat]]
  /\ \A f \in Files : f \notin FirstFiles => FirstLinks[f] = {}
  /\ \A s \in Series : \A f \in Files :
       FirstMembers[s][f] # 0 =>
         s \in FirstSeries /\ f \in FirstFiles /\ \A g \in Files \ {f} : FirstMembers[s][g] # FirstMembers[s][f]
  /\ MaxRequests \in Nat /\ MaxFaults \in Nat

VARIABLES
  files,    \* file -> "new", "there" or "gone"
  tags,     \* tag -> the same
  series,   \* series -> the same
  links,    \* file_tags
  order,    \* series_members: series -> file -> order_index, 0 for no member
  sort,     \* series.sort_order
  owned,    \* files with the rule that gives their owner everything
  call,     \* the request each process works on
  started, faults,
  asked,      \* history: for each series, files in the order the last undisturbed requests asked for
  arranged,   \* history: series whose order was last set by a reorder of its members
  kept,       \* history: files put into a series that nobody took out, nor a fault or the end of a series
  tagged,     \* history: files given a tag, in the same way
  deserted    \* history: files whose creation ended early because a tag or a series was gone, or by a fault

tables == <<files, tags, series, links, order, sort, owned>>
history == <<asked, arranged, kept, tagged, deserted>>
vars == <<tables, call, started, faults, history>>

-----------------------------------------------------------------------------
(* The handlers, as the database calls they make.  A definition named      *)
(* after another with a word added is a slip that the properties must      *)
(* notice; nothing uses it.                                                *)
UploadSteps == <<"create", "owner">>
DropInTagSteps == <<"create", "attach", "owner">>
DropInSeriesStepsNoOwner == <<"last", "create", "join">>
DropInSeriesSteps == <<"last", "create", "join", "owner">>
RetagSteps == <<"detach", "attach">>
UntagSteps == <<"detach">>
AddSteps == <<"last", "join">>
NumberSteps == <<"join">>
RemoveSteps == <<"leave">>
MoveStepsSwapped == <<"join", "leave">>
MoveSteps == <<"leave", "join">>
ReorderSteps == <<"members", "renumber", "manual">>
SortSteps == <<"sort">>

Steps == [upload |-> UploadSteps, dropInTag |-> DropInTagSteps, dropInSeries |-> DropInSeriesSteps,
          retag |-> RetagSteps, untag |-> UntagSteps, add |-> AddSteps, number |-> NumberSteps,
          remove |-> RemoveSteps, move |-> MoveSteps, reorder |-> ReorderSteps, sort |-> SortSteps]
Ops == DOMAIN Steps
Creates == {"upload", "dropInTag", "dropInSeries"}
Sorts == {"created", "manual"}
States == {"new", "there", "gone"}
There(x) == {i \in DOMAIN x : x[i] = "there"}
Members(s) == {f \in Files : order[s][f] # 0}

ASSUME NoneAssumption ==
  /\ Arrivals \subseteq Ops /\ None \notin Files \cup Tags \cup Series \cup Ops
  /\ \A op \in Ops : \A i \in DOMAIN Steps[op] : Steps[op][i] # None

Idle == [op |-> None, at |-> 0, file |-> None, from |-> None, to |-> None, todo |-> <<>>,
         place |-> 0, found |-> {}, alone |-> TRUE]

TypeOK ==
  /\ files \in [Files -> States] /\ tags \in [Tags -> States] /\ series \in [Series -> States]
  /\ links \in [Files -> SUBSET There(tags)] /\ owned \subseteq Files
  /\ order \in [Series -> [Files -> Nat]] /\ sort \in [Series -> Sorts]
  /\ \A f \in Files : files[f] # "there" => links[f] = {} /\ \A s \in Series : order[s][f] = 0
  /\ \A s \in Series : series[s] # "there" => Members(s) = {}
  /\ \A p \in Requests : call[p] # Idle => call[p].at \in DOMAIN Steps[call[p].op]
  /\ asked \in [Series -> Seq(Files)] /\ arranged \subseteq Series /\ kept \subseteq Files /\ tagged \subseteq Files /\ deserted \subseteq Files
  /\ started \in 0..MaxRequests /\ faults \in 0..MaxFaults

State(S, all) == [i \in all |-> IF i \in S THEN "there" ELSE "new"]
InOrder(S, key) == CHOOSE q \in [1..Cardinality(S) -> S] :
  \A i, j \in DOMAIN q : i < j => q[i] # q[j] /\ key[q[i]] <= key[q[j]]

Init ==
  /\ files = State(FirstFiles, Files) /\ tags = State(FirstTags, Tags) /\ series = State(FirstSeries, Series)
  /\ links = FirstLinks /\ order = FirstMembers /\ owned = FirstFiles
  /\ sort = [s \in Series |-> "created"]
  /\ call = [p \in Requests |-> Idle]
  /\ started = 0 /\ faults = 0
  /\ asked = [s \in Series |-> InOrder(Members(s), order[s])]
  /\ arranged = {}
  /\ kept = {f \in Files : \E s \in Series : f \in Members(s)}
  /\ tagged = {f \in Files : links[f] # {}} /\ deserted = {}

-----------------------------------------------------------------------------
(* Requests.                                                               *)

Step(p) == IF call[p].op = None THEN None ELSE Steps[call[p].op][call[p].at]
OnSeries(c) == ({c.to} \cup {c.from}) \cap Series
Meets(p, s) == {q \in Requests \ {p} : s \in OnSeries(call[q])}

(* Anything done to the order of a series disturbs whoever else is at it.  *)
Disturb(p, S, c) ==
  LET met == UNION {Meets(p, s) : s \in S}
  IN call' = [q \in Requests |-> IF q = p THEN [c EXCEPT !.alone = @ /\ met = {}]
                                 ELSE IF q \in met THEN [call[q] EXCEPT !.alone = FALSE] ELSE call[q]]

Goes(p, c) ==
  call' = [call EXCEPT ![p] = IF c.at < Len(Steps[c.op]) THEN [c EXCEPT !.at = @ + 1] ELSE Idle]
Stop(p) == call' = [call EXCEPT ![p] = Idle]

Perms(S) == {q \in [1..Cardinality(S) -> S] : \A i, j \in DOMAIN q : q[i] = q[j] => i = j}
Places == Orders \cup {0}

(* What a client may ask for: ids that a lookup finds, the members of a    *)
(* series or some of them and files that are not in it, a path of tags.    *)
New(op, F, A, B, Q, N) ==
  {[Idle EXCEPT !.op = op, !.at = 1, !.file = c.file, !.from = c.from, !.to = c.to, !.todo = c.todo, !.place = c.place] :
     c \in [file: F, from: A, to: B, todo: Q, place: N]}

Asks(op) ==
  LET F == There(files)  T == There(tags)  S == There(series)  no == {None}  nil == {<<>>}
      Paths == UNION {Perms(U) : U \in SUBSET T} \ nil
  IN CASE op = "upload" -> New(op, no, no, no, nil, {0})
       [] op = "dropInTag" -> New(op, no, no, no, Paths, {0})
       [] op = "dropInSeries" -> New(op, no, no, S, nil, {0})
       [] op = "retag" -> UNION {New(op, {f}, links[f], no, Paths \cup nil, {0}) : f \in F}
       [] op = "untag" -> UNION {New(op, {f}, links[f], no, nil, {0}) : f \in F}
       [] op = "add" -> New(op, F, no, S, nil, {0})
       [] op = "number" -> New(op, F, no, S, nil, Orders)
       [] op = "remove" -> UNION {New(op, Members(s), {s}, no, nil, {0}) : s \in S}
       [] op = "move" -> UNION {New(op, Members(s), {s}, S \ {s}, nil, Places) : s \in S}
       [] op = "reorder" -> New(op, no, no, S, UNION {Perms(U) : U \in SUBSET F}, {0})
       [] op = "sort" -> New(op, no, no, S, nil, {0})

Start(p, op) ==
  /\ call[p].op = None /\ started < MaxRequests /\ started' = started + 1
  /\ \E c \in Asks(op) : Disturb(p, OnSeries(c), c)
  /\ UNCHANGED <<tables, faults, history>>

-----------------------------------------------------------------------------
(* New files.                                                              *)

(* engine.create_file, with an id of its own.                              *)
Create(p) ==
  /\ Step(p) = "create"
  /\ \E f \in Files :
       /\ files[f] = "new" /\ \A g \in Files : Before[g] < Before[f] => files[g] # "new"
       /\ files' = [files EXCEPT ![f] = "there"]
       /\ Goes(p, [call[p] EXCEPT !.file = f])
  /\ UNCHANGED <<tags, series, links, order, sort, owned, started, faults, history>>

(* The rule for the owner.  It does not refer to the row of the file.      *)
AddOwner(p) ==
  /\ Step(p) = "owner"
  /\ owned' = owned \cup {call[p].file}
  /\ Goes(p, call[p])
  /\ UNCHANGED <<files, tags, series, links, order, sort, started, faults, history>>

(* The call fails because a row it refers to is gone: the request returns  *)
(* the error there.                                                        *)
Vanished(p) ==
  /\ Stop(p)
  /\ deserted' = IF call[p].op \in Creates THEN deserted \cup {call[p].file} ELSE deserted

-----------------------------------------------------------------------------
(* Tags.                                                                   *)

(* close: every pending tag; rename: every tag of the new path.            *)
Attach(p) ==
  LET c == call[p]  f == c.file
  IN /\ Step(p) = "attach"
     /\ \/ /\ c.todo = <<>>
           /\ Goes(p, c) /\ UNCHANGED <<links, tagged, deserted>>
        \/ /\ c.todo # <<>> /\ files[f] = "there" /\ tags[Head(c.todo)] = "there"
           /\ links' = [links EXCEPT ![f] = @ \cup {Head(c.todo)}]
           /\ tagged' = tagged \cup {f}
           /\ call' = [call EXCEPT ![p].todo = Tail(@)]
           /\ UNCHANGED deserted
        \/ /\ c.todo # <<>> /\ (files[f] # "there" \/ tags[Head(c.todo)] # "there")
           /\ Vanished(p) /\ tagged' = tagged \ {f} /\ UNCHANGED links
     /\ UNCHANGED <<files, tags, series, order, sort, owned, started, faults, asked, kept, arranged>>

(* unlink and rename in the view of tags: the last tag of the path.  A     *)
(* rename to the root takes it off for good.                               *)
Detach(p) ==
  LET c == call[p]  f == c.file
  IN /\ Step(p) = "detach"
     /\ links' = [links EXCEPT ![f] = @ \ {c.from}]
     /\ tagged' = IF c.todo = <<>> THEN tagged \ {f} ELSE tagged
     /\ Goes(p, c)
     /\ UNCHANGED <<files, tags, series, order, sort, owned, started, faults, asked, kept, deserted, arranged>>

DeleteTagAlone(t) ==
  /\ tags[t] = "there" /\ started < MaxRequests /\ started' = started + 1
  /\ tags' = [tags EXCEPT ![t] = "gone"]
  /\ UNCHANGED <<files, links, series, order, sort, owned, call, faults, history>>

(* delete_tag: the links go with the tag.                                  *)
DeleteTag(t) ==
  /\ tags[t] = "there" /\ started < MaxRequests /\ started' = started + 1
  /\ tags' = [tags EXCEPT ![t] = "gone"]
  /\ links' = [f \in Files |-> links[f] \ {t}]
  /\ tagged' = {f \in tagged : t \notin links[f]}
  /\ UNCHANGED <<files, series, order, sort, owned, call, faults, asked, kept, deserted, arranged>>

MergeTags(t, target) ==
  /\ tags[t] = "there" /\ tags[target] = "there" /\ t # target
  /\ started < MaxRequests /\ started' = started + 1
  /\ tags' = [tags EXCEPT ![t] = "gone"]
  /\ links' = [f \in Files |-> IF t \in links[f] THEN (links[f] \ {t}) \cup {target} ELSE links[f]]
  /\ UNCHANGED <<files, series, order, sort, owned, call, faults, history>>

-----------------------------------------------------------------------------
(* Series.                                                                 *)

HighestCounted(s) == 10 * Cardinality(Members(s))
Highest(s) == Max({order[s][f] : f \in Members(s)})

(* A position at the end: the REST call takes the next number, the SMB     *)
(* view leaves room.                                                       *)
Gap(op) == IF op = "add" THEN 1 ELSE 10
FindLast(p) ==
  LET c == call[p]
  IN /\ Step(p) = "last"
     /\ Goes(p, [c EXCEPT !.place = IF Members(c.to) = {} THEN 10 ELSE Highest(c.to) + Gap(c.op)])
     /\ UNCHANGED <<tables, started, faults, history>>

(* add_to_series: a new member, or a new place for one.  A move to a name  *)
(* without a number goes to 10.                                            *)
Place(c) == IF c.place = 0 THEN 10 ELSE c.place
Without(q, f) ==
  IF \A i \in DOMAIN q : q[i] # f THEN q
  ELSE LET k == CHOOSE i \in DOMAIN q : q[i] = f
       IN [i \in 1..(Len(q) - 1) |-> IF i < k THEN q[i] ELSE q[i + 1]]
Appended(p, f, s) ==
  IF call[p].alone /\ call[p].op \in {"add", "dropInSeries"} THEN Append(Without(asked[s], f), f) ELSE <<>>

JoinSeries(p) ==
  LET c == call[p]  f == c.file  s == c.to
  IN /\ Step(p) = "join"
     /\ \/ /\ files[f] = "there" /\ series[s] = "there"
           /\ order' = [order EXCEPT ![s][f] = Place(c)]
           /\ kept' = kept \cup {f}
           /\ asked' = [asked EXCEPT ![s] = Appended(p, f, s)]
           /\ Goes(p, c) /\ UNCHANGED deserted
        \/ /\ ~(files[f] = "there" /\ series[s] = "there")
           /\ Vanished(p) /\ kept' = kept \ {f} /\ UNCHANGED <<order, asked>>
     /\ UNCHANGED <<files, tags, series, links, sort, owned, started, faults, tagged, arranged>>

(* remove_from_series; a move gives the file a place elsewhere.            *)
LeaveSeries(p) ==
  LET c == call[p]  f == c.file  s == c.from
  IN /\ Step(p) = "leave"
     /\ order' = [order EXCEPT ![s][f] = 0]
     /\ asked' = [asked EXCEPT ![s] = Without(@, f)]
     /\ kept' = IF c.op = "remove" THEN kept \ {f} ELSE kept
     /\ Goes(p, c)
     /\ UNCHANGED <<files, tags, series, links, sort, owned, started, faults, tagged, deserted, arranged>>

(* reorder_series_members: the members there are, then one call for each   *)
(* file asked for that was one of them, then the sort order.               *)
ListMembers(p) ==
  LET c == call[p]
  IN /\ Step(p) = "members"
     /\ Goes(p, [c EXCEPT !.found = Members(c.to), !.place = 10])
     /\ UNCHANGED <<tables, started, faults, history>>

WantedAll(c) == DOMAIN c.todo
Wanted(c) == {i \in DOMAIN c.todo : c.todo[i] \in c.found}

NextPlace(p, i) ==
  LET c == call[p]  s == c.to  f == c.todo[i]
  IN \/ /\ files[f] = "there" /\ series[s] = "there"
        /\ order' = [order EXCEPT ![s][f] = c.place]
        /\ kept' = kept \cup {f}
        /\ call' = [call EXCEPT ![p].todo = SubSeq(c.todo, i + 1, Len(c.todo)), ![p].place = @ + 10]
        /\ asked' = [asked EXCEPT ![s] =
             IF ~c.alone THEN <<>> ELSE IF c.place = 10 THEN <<f>> ELSE Append(@, f)]
     \/ /\ ~(files[f] = "there" /\ series[s] = "there")
        /\ Stop(p) /\ UNCHANGED <<order, kept, asked>>

Renumber(p) ==
  LET c == call[p]
  IN /\ Step(p) = "renumber"
     /\ \/ Wanted(c) = {} /\ Goes(p, c) /\ UNCHANGED <<order, asked, kept>>
        \/ \E i \in Wanted(c) : (\A j \in Wanted(c) : i <= j) /\ NextPlace(p, i)
     /\ UNCHANGED <<files, tags, series, links, sort, owned, started, faults, tagged, deserted, arranged>>

SetSort(p) ==
  LET c == call[p]
  IN /\ Step(p) \in {"manual", "sort"}
     /\ \E how \in IF Step(p) = "manual" THEN {"manual"} ELSE Sorts :
          sort' = IF series[c.to] = "there" THEN [sort EXCEPT ![c.to] = how] ELSE sort
     /\ arranged' = IF Step(p) = "sort" THEN arranged \ {c.to}
                    ELSE IF c.alone THEN arranged \cup {c.to} ELSE arranged
     /\ Goes(p, c)
     /\ UNCHANGED <<files, tags, series, links, order, owned, started, faults, asked, kept, tagged, deserted>>

DeleteSeries(s) ==
  /\ series[s] = "there" /\ started < MaxRequests /\ started' = started + 1
  /\ series' = [series EXCEPT ![s] = "gone"]
  /\ order' = [order EXCEPT ![s] = [f \in Files |-> 0]]
  /\ kept' = kept \ Members(s)
  /\ asked' = [asked EXCEPT ![s] = <<>>]
  /\ arranged' = arranged \ {s}
  /\ UNCHANGED <<files, tags, links, sort, owned, call, faults, tagged, deserted>>

(* list_series_members_named: what the pages of a series show.             *)
Listing(s) == InOrder(Members(s), IF sort[s] = "manual" THEN order[s] ELSE Before)

-----------------------------------------------------------------------------
(* Purges and faults.                                                      *)

Purge(f) ==
  /\ files[f] = "there" /\ started < MaxRequests /\ started' = started + 1
  /\ files' = [files EXCEPT ![f] = "gone"]
  /\ links' = [links EXCEPT ![f] = {}]
  /\ order' = [s \in Series |-> [order[s] EXCEPT ![f] = 0]]
  /\ asked' = [s \in Series |-> Without(asked[s], f)]
  /\ kept' = kept \ {f} /\ tagged' = tagged \ {f}
  /\ UNCHANGED <<tags, series, sort, owned, call, faults, deserted, arranged>>

Cut(P) ==
  LET F == {call[p].file : p \in {q \in P : call[q].op # None}} \ {None}
  IN /\ faults < MaxFaults /\ faults' = faults + 1
     /\ call' = [p \in Requests |-> IF p \in P THEN Idle ELSE call[p]]
     /\ kept' = kept \ F /\ tagged' = tagged \ F
     /\ deserted' = deserted \cup (F \cap {call[p].file : p \in {q \in P : call[q].op \in Creates}})
     /\ UNCHANGED <<tables, started, asked, arranged>>

Fails(p) == call[p].op # None /\ Cut({p})
Crash == (\E p \in Requests : call[p].op # None) /\ Cut(Requests)

-----------------------------------------------------------------------------
Next ==
  \/ \E p \in Requests :
       \/ \E op \in Arrivals : Start(p, op)
       \/ Create(p) \/ AddOwner(p) \/ Attach(p) \/ Detach(p)
       \/ FindLast(p) \/ JoinSeries(p) \/ LeaveSeries(p)
       \/ ListMembers(p) \/ Renumber(p) \/ SetSort(p)
       \/ Fails(p)
  \/ \E t \in Tags : DeleteTag(t) \/ (\E u \in Tags : MergeTags(t, u))
  \/ \E s \in Series : DeleteSeries(s)
  \/ \E f \in Files : Purge(f)
  \/ Crash

Spec == Init /\ [][Next]_vars

-----------------------------------------------------------------------------
(* Properties.                                                             *)

Quiet(f) == \A p \in Requests : call[p].file # f

(* Moves keep a file in the series: however moves, reorders and additions  *)
(* of a file run beside each other (rename in SeriesBackend, reorder_      *)
(* series_members), once they have ended it is in one, unless somebody     *)
(* took it out, the series went or a call failed between the two halves.   *)
MovesKeepMember ==
  \A f \in kept : Quiet(f) => \E s \in Series : f \in Members(s)

(* The same for tags (rename in TagsBackend): the tag that a path gives up *)
(* comes off before the tags of the new path go on, so a file that only    *)
(* changed its place has a tag, merges of tags beside it or not.           *)
RetagsKeepTag == \A f \in tagged : Quiet(f) => links[f] # {}

(* So a file that is moved, in either view, is somewhere in it.            *)
PlacesKept == MovesKeepMember /\ RetagsKeepTag

(* Whoever made a file has every right to it (close in handle.rs, create_  *)
(* file in yozist-api lib.rs), or the file is one whose making ended with  *)
(* an error, because a tag or series of its path went while it was open.   *)
OwnerUnlessDeserted ==
  \A f \in Files :
    files[f] = "there" => f \in owned \cup deserted \/ \E p \in Requests : call[p].file = f

(* A file added at the end comes after all others, and files reordered     *)
(* stand as asked, as long as nobody else was at the order of the series   *)
(* (add_series_member, open in SeriesBackend, reorder_series_members).     *)
OrderAsAsked ==
  \A s \in Series : \A i, j \in DOMAIN asked[s] :
    i < j => order[s][asked[s][i]] < order[s][asked[s][j]]

(* What was reordered is shown in that order: by the end of the request    *)
(* the series is sorted by hand (list_series_members_named).               *)
ReorderIsShown ==
  \A s \in arranged : \A i, j \in DOMAIN asked[s] : \A k, l \in DOMAIN Listing(s) :
    i < j /\ Listing(s)[k] = asked[s][i] /\ Listing(s)[l] = asked[s][j] => k < l

(* The order of a series is the one asked for, stored and shown.           *)
OrderKept == OrderAsAsked /\ ReorderIsShown

(* A reorder makes nobody a member, unless another request was at the      *)
(* series since it listed the members (reorder_series_members).            *)
ReorderAddsNobody ==
  [][\A p \in Requests : Step(p) = "renumber" /\ call[p].alone /\ call'[p] # call[p]
       => \A f \in Files : order'[call[p].to][f] # 0 => order[call[p].to][f] # 0]_vars
=============================================================================
