----------------------------- MODULE Versioning -----------------------------
(***************************************************************************)
(* The versioning engine (yozist-versioning/src/lib.rs) over the metadata  *)
(* tables `files`, `commits` and `blob_orphans` (yozist-db/src/sqlite.rs)  *)
(* and a content-addressed blob store.                                     *)
(*                                                                         *)
(* Each await on the database or on the blob store is a step of its own,   *)
(* so that concurrent requests, the orphan sweeper and crashes interleave  *)
(* between them.  A blob is named by what it holds: a full content, or the *)
(* patch that turns one content into another.                              *)
(***************************************************************************)
EXTENDS Naturals, FiniteSets

CONSTANTS
  Files, Contents,
  Writers,     \* requests in progress at the same time
  MaxCommits,  \* bound on the commits ever inserted
  Interval,    \* delta::SNAPSHOT_INTERVAL
  MaxCrashes,  \* bound on process crashes
  Ops,         \* the operations the requests use
  Recurring,   \* may a content be stored again after it was stored once?
  Overlap,     \* may requests run beside a purge or the settling of a candidate?
  NoContent, None

ASSUME VersioningAssumption ==
  /\ MaxCommits \in Nat /\ Interval \in Nat \ {0} /\ MaxCrashes \in Nat
  /\ Ops \subseteq {"create", "commit", "raw", "rollback", "rename", "read", "purge"}
  /\ Recurring \in BOOLEAN /\ Overlap \in BOOLEAN
  /\ IsFiniteSet(Writers)
  /\ NoContent \notin Contents

VARIABLES
  file,    \* files: is the row there, and its current_commit
  log,     \* commits: file, parent, blob and delta_base of each row
  truth,   \* the content each commit was made with
  made,    \* how many commit ids have been drawn
  blobs,   \* the blobs on disk
  queue,   \* blob_orphans: candidate -> the requests in flight when it was added
  op,      \* the request each writer is working on
  gc,      \* the sweeper
  contested, \* has a compaction overwritten a row that was no snapshot any more?
  crashes

vars == <<file, log, truth, made, blobs, queue, op, gc, contested, crashes>>

Ids == 1..MaxCommits
Blobs == [patch: BOOLEAN, from: Contents, to: Contents]
Full(c) == [patch |-> FALSE, from |-> c, to |-> c]
Patch(c, d) == [patch |-> TRUE, from |-> c, to |-> d]
Commit == [file: Files, parent: Ids \cup {None}, blob: Blobs, base: Ids \cup {None}]
InLog(i) == log[i] # None

ASSUME NoneAssumption ==
  /\ None \notin Nat \cup Files \cup Blobs \cup Commit
  /\ \A ws \in SUBSET Writers : ws # None

Idle == [pc |-> "idle", kind |-> "none", file |-> None, head |-> None,
         content |-> NoContent, needs |-> {}, blob |-> None, base |-> None,
         id |-> None, old |-> None]

Init ==
  /\ file = [f \in Files |-> [state |-> "absent", head |-> None]]
  /\ log = [i \in Ids |-> None]
  /\ truth = [i \in Ids |-> NoContent]
  /\ made = 0
  /\ blobs = {}
  /\ queue = [b \in Blobs |-> None]
  /\ op = [w \in Writers |-> Idle]
  /\ gc = [pc |-> "idle", todo |-> {}, cur |-> None]
  /\ contested = FALSE
  /\ crashes = 0

\* list_commits
History(f) == {i \in Ids : InLog(i) /\ log[i].file = f}

-----------------------------------------------------------------------------
(* Delta chains.                                                           *)

\* Link(i)[n] is the n-th commit below i on its chain of delta bases.
Link(i) ==
  LET L[n \in 0..MaxCommits] ==
        IF n = 0 THEN i
        ELSE IF L[n-1] = None \/ ~InLog(L[n-1]) THEN None ELSE log[L[n-1]].base
  IN L

\* chain_depth: a cycle counts as deeper than every log.
Depth(i) == Cardinality({n \in 1..MaxCommits : Link(i)[n] # None})

\* deepest_distance_to: how far above i the farthest commit that rests on it is.
Distance(c, i) == CHOOSE n \in 0..MaxCommits : Link(c)[n] = i
DeepestDistanceTo(i) ==
  LET above == {c \in Ids : InLog(c) /\ \E n \in 0..MaxCommits : Link(c)[n] = i}
  IN  CHOOSE d \in 0..MaxCommits :
        /\ \E c \in above : Distance(c, i) = d
        /\ \A c \in above : Distance(c, i) <= d

\* zstd with a dictionary: a patch applied to another base is no content.
Apply(b, c) == IF ~b.patch THEN b.to ELSE IF b.from = c THEN b.to ELSE NoContent

\* materialize_from: from the snapshot at the bottom of the chain upwards.
Restore(i) ==
  LET L == Link(i)
      d == Depth(i)
      R[k \in 0..d] == IF k = 0 THEN Apply(log[L[d]].blob, NoContent)
                       ELSE Apply(log[L[d-k]].blob, R[k-1])
  IN  IF d = MaxCommits THEN NoContent ELSE R[d]
ChainBlobs(i) == {log[Link(i)[n]].blob : n \in 0..Depth(i)}

-----------------------------------------------------------------------------
(* Requests.  A request that fails or returns is over: Finish.             *)

\* The sweeper is between its reference count and the end of a candidate.
Settling == gc.pc \in {"delete", "remove"}
\* A writer holds a blob that it has put but not yet recorded in a row.
Unrecorded == {"insertfile", "insert", "queuepatch", "reencode"}
InFlight == {w \in Writers : op[w] # Idle}
Live(f) == f \in Files /\ file[f].state = "live"

At(w, where) == op[w].pc = where /\ (Overlap \/ ~Settling)
Go(w, where) == op' = [op EXCEPT ![w].pc = where]
Without(q, ws) == [b \in Blobs |-> IF q[b] = None THEN None ELSE q[b] \ ws]
Finish(w) == op' = [op EXCEPT ![w] = Idle] /\ queue' = Without(queue, {w})
Abort(w) == Finish(w) /\ UNCHANGED <<file, log, truth, made, blobs, gc, contested, crashes>>

\* insert_blob_orphan: a candidate that is already queued keeps its date.
Enlist(q, bs) == [b \in Blobs |-> IF b \in bs /\ q[b] = None THEN InFlight ELSE q[b]]

\* Nothing is left of a content: no blob, no candidate, no commit, no request.
Candidates == {b \in Blobs : queue[b] # None}
Unused(c) ==
  /\ \A b \in blobs \cup Candidates : c \notin {b.from, b.to}
  /\ \A i \in Ids : truth[i] # c
  /\ \A w \in Writers : op[w].content # c /\ (op[w].old # None => op[w].old.to # c)
MayStore(c) == Recurring \/ Unused(c)

\* Room for the commit of every request that is going to make one.
Room ==
  made + Cardinality({w \in Writers : op[w].kind \in {"create", "commit", "raw", "rollback"}
                                      /\ op[w].id = None}) < MaxCommits

Begin(w, kind, f, c, where) ==
  /\ kind \in Ops
  /\ kind = "rename" \/ Room
  /\ op[w] = Idle
  /\ op' = [op EXCEPT ![w] = [Idle EXCEPT !.pc = where, !.kind = kind, !.file = f,
                                          !.head = file[f].head, !.content = c]]
  /\ UNCHANGED <<file, log, truth, made, blobs, queue, gc, contested, crashes>>

\* create_file and create_file_streaming store the content first.
BeginCreate(w, f, c) ==
  /\ file[f].state = "absent" /\ MayStore(c)
  /\ \A x \in Writers : op[x].file # f
  /\ Begin(w, "create", f, c, "putfull")

\* commit, commit_raw, commit_streaming and replace_streaming all start from
\* the row of the file and keep it until they write it back.
BeginCommit(w, f, c) ==
  /\ Live(f) /\ MayStore(c)
  /\ Begin(w, "commit", f, c, IF file[f].head = None THEN "putfull" ELSE "list")
BeginRaw(w, f, c) == Live(f) /\ MayStore(c) /\ Begin(w, "raw", f, c, "putfull")

\* So do rename_file and every other change of a column: the row goes back
\* whole, current_commit included.
BeginRename(w, f) == Live(f) /\ Begin(w, "rename", f, NoContent, "update")

\* materialize: the list of commits fixes which blobs will be read.
Materialize(w, kind, f, i) ==
  /\ kind \in Ops
  /\ Live(f) /\ i \in History(f)
  /\ op[w] = Idle
  /\ op' = [op EXCEPT ![w] = [Idle EXCEPT !.pc = "read", !.kind = kind, !.file = f,
                                          !.content = Restore(i), !.needs = ChainBlobs(i)]]
  /\ UNCHANGED <<file, log, truth, made, blobs, queue, gc, contested, crashes>>

\* read_at_commit, and read_current on the head.
BeginRead(w, f, i) == Materialize(w, "read", f, i)

\* The rollback route: rollback_to reads the content at the commit first.
BeginRollback(w, f, i) == Room /\ Materialize(w, "rollback", f, i)

\* A blob that is gone is an error; rollback_to goes on as a commit.
Read(w) ==
  /\ At(w, "read")
  /\ IF op[w].kind = "rollback" /\ op[w].needs \subseteq blobs /\ Live(op[w].file)
     THEN /\ op' = [op EXCEPT ![w].pc = "list", ![w].kind = "commit", ![w].needs = {},
                              ![w].head = file[op[w].file].head]
          /\ UNCHANGED <<file, log, truth, made, blobs, queue, gc, contested, crashes>>
     ELSE Abort(w)

\* Mutant: the dictionary and the content of a forward delta are swapped.
ListSwapped(w) ==
  /\ At(w, "list")
  /\ LET h == op[w].head
         c == op[w].content
     IN  IF h = None \/ ~InLog(h) THEN Abort(w)
         ELSE /\ op' = [op EXCEPT ![w].pc = "fetch", ![w].needs = ChainBlobs(h),
                     ![w].blob = IF Depth(h) + 1 < Interval
                                 THEN Patch(c, Restore(h)) ELSE Full(c),
                     ![w].base = IF Depth(h) + 1 < Interval THEN h ELSE None]
              /\ UNCHANGED <<file, log, truth, made, blobs, queue, gc, contested, crashes>>

\* commit: one list_commits for the previous content and for its depth, then
\* a delta if the chain is short enough and the patch is worth it.
List(w) ==
  /\ At(w, "list")
  /\ LET h == op[w].head
         c == op[w].content
     IN  IF h = None \/ ~InLog(h) THEN Abort(w)
         ELSE \E gain \in BOOLEAN :
                /\ op' = [op EXCEPT ![w].pc = "fetch", ![w].needs = ChainBlobs(h),
                     ![w].blob = IF gain /\ Depth(h) + 1 < Interval
                                 THEN Patch(Restore(h), c) ELSE Full(c),
                     ![w].base = IF gain /\ Depth(h) + 1 < Interval THEN h ELSE None]
                /\ UNCHANGED <<file, log, truth, made, blobs, queue, gc, contested, crashes>>

Fetch(w) ==
  /\ At(w, "fetch")
  /\ IF op[w].needs \subseteq blobs
     THEN /\ op' = [op EXCEPT ![w].pc = "put", ![w].needs = {}]
          /\ UNCHANGED <<file, log, truth, made, blobs, queue, gc, contested, crashes>>
     ELSE Abort(w)

\* A put of a blob that exists is a success and writes nothing.
Put(w) ==
  /\ At(w, "put") \/ At(w, "putfull")
  /\ LET b == IF op[w].pc = "put" THEN op[w].blob ELSE Full(op[w].content)
     IN  /\ blobs' = blobs \cup {b}
         /\ op' = [op EXCEPT ![w].blob = b,
                     ![w].pc = IF op[w].kind = "create" THEN "insertfile" ELSE "insert"]
  /\ UNCHANGED <<file, log, truth, made, queue, gc, contested, crashes>>

InsertFile(w) ==
  /\ At(w, "insertfile")
  /\ file' = [file EXCEPT ![op[w].file] = [state |-> "live", head |-> None]]
  /\ Go(w, "insert")
  /\ UNCHANGED <<log, truth, made, blobs, queue, gc, contested, crashes>>

\* Mutant: the parent is left out.
InsertCommitWithoutParent(w) ==
  /\ At(w, "insert")
  /\ IF ~Live(op[w].file) THEN Abort(w)
     ELSE LET i == made + 1 IN
          /\ made' = i
          /\ log' = [log EXCEPT ![i] = [file |-> op[w].file, parent |-> None,
                                        blob |-> op[w].blob, base |-> op[w].base]]
          /\ truth' = [truth EXCEPT ![i] = op[w].content]
          /\ op' = [op EXCEPT ![w].pc = "update", ![w].id = i]
          /\ UNCHANGED <<file, blobs, queue, gc, contested, crashes>>

\* The foreign key of commits refuses the row of a purged file.
InsertCommit(w) ==
  /\ At(w, "insert")
  /\ IF ~Live(op[w].file) THEN Abort(w)
     ELSE LET i == made + 1 IN
          /\ made' = i
          /\ log' = [log EXCEPT ![i] = [file |-> op[w].file, parent |-> op[w].head,
                                        blob |-> op[w].blob, base |-> op[w].base]]
          /\ truth' = [truth EXCEPT ![i] = op[w].content]
          /\ op' = [op EXCEPT ![w].pc = "update", ![w].id = i]
          /\ UNCHANGED <<file, blobs, queue, gc, contested, crashes>>

\* Mutant: a purged row comes back.
UpdateFileOrInsert(w) ==
  /\ At(w, "update")
  /\ file' = [file EXCEPT ![op[w].file].head = IF op[w].kind = "rename" THEN op[w].head ELSE op[w].id]
  /\ IF op[w].kind = "raw"
     THEN Go(w, "compact") /\ UNCHANGED queue
     ELSE Finish(w)
  /\ UNCHANGED <<log, truth, made, blobs, gc, contested, crashes>>

\* update_file writes the whole row by id: nothing looks at the version.
Written(w) == IF op[w].kind = "rename" THEN op[w].head ELSE op[w].id
UpdateFile(w) ==
  /\ At(w, "update")
  /\ IF ~Live(op[w].file) THEN Abort(w)
     ELSE /\ file' = [file EXCEPT ![op[w].file].head = Written(w)]
          /\ IF op[w].kind = "raw"
             THEN Go(w, "compact") /\ UNCHANGED queue
             ELSE Finish(w)
          /\ UNCHANGED <<log, truth, made, blobs, gc, contested, crashes>>

-----------------------------------------------------------------------------
(* compact_previous: the parent becomes a reverse delta on the new commit. *)

\* Mutant: the chain above the parent is not measured.
CompactableAtAnyDepth(w, p) ==
  /\ p # None /\ InLog(p)
  /\ log[p].base = None
  /\ log[p].blob # op[w].blob

Compactable(w, p) ==
  /\ p # None /\ InLog(p)
  /\ log[p].base = None
  /\ log[p].blob # op[w].blob
  /\ DeepestDistanceTo(p) + 1 < Interval

\* One list_commits.  A content too large or too small for a patch to be worth
\* it ends the compaction here (Abort), as does a row of another shape.
CompactList(w) ==
  /\ At(w, "compact")
  /\ LET p == op[w].head IN
     \/ /\ p # None /\ Compactable(w, p)
        /\ op' = [op EXCEPT ![w].pc = "compactfetch", ![w].old = log[p].blob,
                            ![w].needs = {log[p].blob, op[w].blob}]
        /\ UNCHANGED <<file, log, truth, made, blobs, queue, gc, contested, crashes>>
     \/ Abort(w)

\* Both full contents are read and the patch is made; it may be no gain.
CompactFetch(w) ==
  /\ At(w, "compactfetch")
  /\ \/ /\ op[w].needs \subseteq blobs
        /\ op' = [op EXCEPT ![w].pc = "putpatch", ![w].needs = {},
                            ![w].blob = Patch(op[w].content, op[w].old.to)]
        /\ UNCHANGED <<file, log, truth, made, blobs, queue, gc, contested, crashes>>
     \/ Abort(w)

PutPatch(w) ==
  /\ At(w, "putpatch")
  /\ blobs' = blobs \cup {op[w].blob}
  /\ Go(w, "queuepatch")
  /\ UNCHANGED <<file, log, truth, made, queue, gc, contested, crashes>>

QueuePatch(w) ==
  /\ At(w, "queuepatch")
  /\ queue' = Enlist(queue, {op[w].blob})
  /\ Go(w, "reencode")
  /\ UNCHANGED <<file, log, truth, made, blobs, gc, contested, crashes>>

\* update_commit_storage: blob and delta_base, whatever they are by now.
WithStorage(i, blob, base) == [log EXCEPT ![i].blob = blob, ![i].base = base]

\* By id: the row may have changed since it was read.
Reencode(w) ==
  /\ At(w, "reencode")
  /\ IF ~InLog(op[w].head) THEN Abort(w)
     ELSE /\ log' = WithStorage(op[w].head, op[w].blob, op[w].id)
          /\ contested' = (contested \/ log[op[w].head].base # None)
          /\ Go(w, "queueold")
          /\ UNCHANGED <<file, truth, made, blobs, queue, gc, crashes>>

\* Mutant: the replaced blob is not queued.
QueueOldForgotten(w) == At(w, "queueold") /\ Abort(w)

QueueOld(w) ==
  /\ At(w, "queueold")
  /\ op' = [op EXCEPT ![w] = Idle]
  /\ queue' = Without(Enlist(queue, {op[w].old}), {w})
  /\ UNCHANGED <<file, log, truth, made, blobs, gc, contested, crashes>>

-----------------------------------------------------------------------------
(* Purge, sweeper, crash.                                                  *)

\* purge_file: one transaction queues the blobs and deletes file and commits.
PurgeFile(f) ==
  /\ "purge" \in Ops
  /\ Live(f)
  /\ Overlap \/ (InFlight = {} /\ ~Settling)
  /\ queue' = Enlist(queue, {log[i].blob : i \in History(f)})
  /\ log' = [i \in Ids |-> IF i \in History(f) THEN None ELSE log[i]]
  /\ truth' = [i \in Ids |-> IF i \in History(f) THEN NoContent ELSE truth[i]]
  /\ file' = [file EXCEPT ![f] = [state |-> "purged", head |-> None]]
  /\ UNCHANGED <<made, blobs, op, gc, contested, crashes>>

\* Mutant: no grace period.
DueAtOnce == {b \in Blobs : queue[b] # None}

\* The grace period outlives every request: a candidate is due once all the
\* requests that were in flight when it was queued are over.
Due == {b \in Blobs : queue[b] = {}}
References(b) == {i \in Ids : InLog(i) /\ log[i].blob = b}

SweepList ==
  /\ gc.pc = "idle" /\ Due # {}
  /\ gc' = [pc |-> "count", todo |-> Due, cur |-> None]
  /\ UNCHANGED <<file, log, truth, made, blobs, queue, op, contested, crashes>>

\* Mutant: the references are not counted.
SweepCountBlindly(b) ==
  /\ gc.pc = "count" /\ b \in gc.todo
  /\ Overlap \/ \A w \in Writers : op[w].pc \in Unrecorded => op[w].blob # b
  /\ gc' = [gc EXCEPT !.pc = "delete", !.cur = b]
  /\ UNCHANGED <<file, log, truth, made, blobs, queue, op, contested, crashes>>

SweepCount(b) ==
  /\ gc.pc = "count" /\ b \in gc.todo
  /\ Overlap \/ \A w \in Writers : op[w].pc \in Unrecorded => op[w].blob # b
  /\ gc' = [gc EXCEPT !.pc = IF References(b) = {} THEN "delete" ELSE "remove", !.cur = b]
  /\ UNCHANGED <<file, log, truth, made, blobs, queue, op, contested, crashes>>

SweepDelete ==
  /\ gc.pc = "delete"
  /\ blobs' = blobs \ {gc.cur}
  /\ gc' = [gc EXCEPT !.pc = "remove"]
  /\ UNCHANGED <<file, log, truth, made, queue, op, contested, crashes>>

SweepRemove ==
  /\ gc.pc = "remove"
  /\ queue' = [queue EXCEPT ![gc.cur] = None]
  /\ gc' = [pc |-> IF gc.todo = {gc.cur} THEN "idle" ELSE "count",
            todo |-> gc.todo \ {gc.cur}, cur |-> None]
  /\ UNCHANGED <<file, log, truth, made, blobs, op, contested, crashes>>

Crash ==
  /\ crashes < MaxCrashes
  /\ crashes' = crashes + 1
  /\ op' = [w \in Writers |-> Idle]
  /\ gc' = [pc |-> "idle", todo |-> {}, cur |-> None]
  /\ queue' = Without(queue, Writers)
  /\ UNCHANGED <<file, log, truth, made, blobs, contested>>

-----------------------------------------------------------------------------
Step(w) ==
  \/ Read(w) \/ List(w) \/ Fetch(w) \/ Put(w) \/ InsertFile(w) \/ InsertCommit(w)
  \/ UpdateFile(w) \/ CompactList(w) \/ CompactFetch(w) \/ PutPatch(w)
  \/ QueuePatch(w) \/ Reencode(w) \/ QueueOld(w)

Request(w) ==
  \E f \in Files :
    \/ \E c \in Contents : BeginCreate(w, f, c) \/ BeginCommit(w, f, c) \/ BeginRaw(w, f, c)
    \/ \E i \in Ids : BeginRead(w, f, i) \/ BeginRollback(w, f, i)
    \/ BeginRename(w, f)

Sweep == SweepList \/ SweepDelete \/ SweepRemove \/ \E b \in Blobs : SweepCount(b)

Next ==
  \/ \E w \in Writers : Request(w) \/ Step(w)
  \/ \E f \in Files : PurgeFile(f)
  \/ Sweep
  \/ Crash

Spec == Init /\ [][Next]_vars

-----------------------------------------------------------------------------
(* Properties.                                                             *)

Maybe(S) == S \cup {None}
TypeOK ==
  /\ file \in [Files -> [state: {"absent", "live", "purged"}, head: Maybe(Ids)]]
  /\ \A f \in Files : file[f].state # "live" => file[f].head = None
  /\ log \in [Ids -> Maybe(Commit)]
  /\ truth \in [Ids -> Contents \cup {NoContent}]
  /\ made \in 0..MaxCommits
  /\ blobs \subseteq Blobs
  /\ queue \in [Blobs -> Maybe(SUBSET Writers)]
  /\ gc.todo \subseteq Blobs
  /\ contested \in BOOLEAN
  /\ crashes \in 0..MaxCrashes

\* The history of a file is restorable as far as its rows go: following the
\* delta bases of any commit ends at a snapshot, and applying the patches on
\* the way back gives what was committed, although forward deltas, reverse
\* deltas and rows that several compactions overwrite meet in one chain.
HistoryIntact == \A i \in Ids : InLog(i) => Restore(i) = truth[i]

\* Every blob a commit refers to is on disk: the sweeper deletes a blob only
\* after it has confirmed that no commit refers to it (lib.rs, module doc).
NoBlobLost == \A i \in Ids : InLog(i) => log[i].blob \in blobs

\* A request that has listed the commits of a file finds all their blobs when
\* it comes to read them, unless the file was purged in between: this is what
\* the grace period of the sweeper is for (main.rs).  It takes that no two
\* compactions overwrote the same row: the patch of the first was queued when
\* it was made, so its grace does not start when it is replaced.
ReadersFindBlobs ==
  ~contested => \A w \in Writers : (op[w] # Idle /\ Live(op[w].file)) => op[w].needs \subseteq blobs

\* A chain is cut before it has SNAPSHOT_INTERVAL patches.
ChainsCut == \A i \in Ids : InLog(i) => Depth(i) < Interval

\* The current commit of a file is in its log; a file has none only between
\* the two inserts of its creation.
HeadInLog ==
  \A f \in Files : file[f].head # None => InLog(file[f].head) /\ log[file[f].head].file = f

\* Every version of a file can be had back, the current one among them: its
\* row leads to what was committed, over blobs that are there.
Restorable == HistoryIntact /\ NoBlobLost /\ HeadInLog

\* An unreferenced blob is a candidate, or a request or the sweeper is about
\* to deal with it: otherwise nothing ever deletes it.
NoLeak ==
  \A b \in blobs :
    \/ References(b) # {}
    \/ queue[b] # None
    \/ \E w \in Writers : op[w].pc \in Unrecorded \cup {"queueold"} /\ b \in {op[w].blob, op[w].old}

\* The ancestors of i, itself among them.
Before(commits, i) ==
  LET P[n \in 0..MaxCommits] ==
        IF n = 0 THEN i
        ELSE IF P[n-1] = None \/ commits[P[n-1]] = None THEN None ELSE commits[P[n-1]].parent
  IN  {P[n] : n \in 0..MaxCommits}

\* Has the head moved since the request read the row it is going to write back?
Stale(w) == op[w].head # file[op[w].file].head

\* Every commit that becomes current descends from the one it replaces, so that
\* no acknowledged commit drops out of the history of the head, but where a
\* request writes back a row whose head another one has moved since it was
\* read (update_file looks at no version).  Compactions, purges, sweeps and
\* crashes, and requests that overlap without moving the head, lose nothing.
HeadAdvances ==
  [][\A f \in Files :
       (Live(f) /\ Live(f)' /\ file[f].head # None)
         => \/ file'[f].head = file[f].head
            \/ file[f].head \in Before(log', file'[f].head)
            \/ \E w \in Writers : op[w].pc = "update" /\ op[w].file = f /\ Stale(w) /\ op'[w] # op[w]]_vars

=============================================================================
