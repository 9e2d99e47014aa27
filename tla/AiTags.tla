------------------------------- MODULE AiTags -------------------------------
(***************************************************************************)
(* Tags of files, by hand and by the AI: the tables tags, file_tags,       *)
(* ai_file_tags and ai_tag_runs (yozist-db sqlite.rs), the job handler     *)
(* that proposes tags for an image (yozist-ai job.rs), the service that    *)
(* asks for it (service.rs) and the REST and SMB calls on tags.            *)
(*                                                                         *)
(* A row of tags is an id with a name and a kind; an id that nobody holds  *)
(* any more may stand for a new uuid.  The job queue is seen through what  *)
(* JobQueue shows of it, without expired leases of live workers.  Files    *)
(* are not in the trash and keep their mime, there is one model, and the   *)
(* names the AI proposes are not those of system tags.  The search index   *)
(* and the audit log are left out.                                         *)
(***************************************************************************)
EXTENDS Naturals, FiniteSets

CONSTANTS
  Files, Names, Workers,
  Images,       \* the files whose mime is image/...: the others get no AI tags
  TagIds,       \* bound on the tag ids alive or held
  MaxCommits,   \* bound on the commits of a file
  MaxAttempts,  \* tries of a job before its failure is permanent
  MaxEdits,     \* bound on the user's calls on tags
  MaxFaults,    \* bound on crashes and cleanups beside live workers
  FirstTags,    \* the tags there are to begin with, all made by users
  HandKinds,    \* the kinds users give to the tags they make
  None

ASSUME AiTagsAssumption ==
  /\ Images \subseteq Files /\ TagIds \subseteq Nat
  /\ None \notin Nat /\ None \notin Names /\ None \notin {"ai", "manual"}
  /\ MaxCommits \in Nat \ {0} /\ MaxAttempts \in Nat \ {0}
  /\ MaxEdits \in Nat /\ MaxFaults \in Nat
  /\ HandKinds \subseteq {"ai", "manual"}
  /\ FirstTags \in [TagIds -> [name: Names, kind: {"manual"}] \cup {[name |-> None, kind |-> None]}]

VARIABLES
  current,   \* files.current_commit, None once the file is purged
  tags,      \* tag id -> name and kind, NoTag if there is no such row
  fileTags,  \* file_tags
  aiTags,    \* ai_file_tags: the attachments the AI owns
  runs,      \* ai_tag_runs
  jobs,      \* the live job of each dedup key
  work,      \* the handler each worker runs
  asks,      \* calls of AiTagService::enqueue under way
  making,    \* the user's upsert_tag between its SELECT and its write
  letting,   \* the user's detach_tag between its check and its DELETE
  edits, faults,
  byHand,    \* history: attachments the user made and did not undo
  wasAi,     \* history: attachments the AI has owned
  handMade,  \* history: tags the user made manual and did not remove
  shown,     \* history: the commit each file's AI tags were proposed for
  crossed,   \* history: files two workers had in hand at once
  dropped    \* history: jobs a crash took, with the queue or before their failure was recorded

rows == <<current, tags, fileTags, aiTags, runs>>
tasks == <<jobs, work, asks, making, letting>>
bounds == <<edits, faults>>
history == <<byHand, wasAi, handMade, shown, crossed, dropped>>
vars == <<rows, tasks, bounds, history>>

Commits == 1..MaxCommits
Keys == Images \X Commits
Maybe(S) == S \cup {None}
NoTag == [name |-> None, kind |-> None]
NoRun == [commit |-> None, status |-> "none"]
NoJob == [state |-> "none", tries |-> 0]
Resting == [pc |-> "idle", key |-> None, todo |-> {}, seen |-> None, ids |-> {}]

Kinds == {"ai", "manual"}
Pairs == Files \X TagIds
Found == [name: Names, id: TagIds, kind: Kinds] \cup [name: Names, id: {None}, kind: {None}]
HandlerAt == {"generate", "resolve", "replace", "record", "done", "rejected", "faulted", "report"}

TagsType == tags \in [TagIds -> [name: Names, kind: Kinds] \cup {NoTag}]
RunsType ==
  runs \in [Images -> [commit: Maybe(Commits), status: {"none", "pending", "ready", "failed"}]]
JobsType == jobs \in [Keys -> [state: {"none", "queued", "held"}, tries: 0..MaxAttempts]]
Handlers == [pc: {"idle"} \cup HandlerAt, key: Maybe(Keys), todo: SUBSET Names,
             seen: Maybe(Found), ids: SUBSET TagIds]
WorkType ==
  /\ work \in [Workers -> Handlers]
  /\ \A w \in Workers : work[w].pc # "idle" => work[w].key \in Keys
CallsType ==
  /\ asks \in [Keys -> {"none", "enqueue", "pend"}]
  /\ making \in Maybe([as: Kinds, seen: Found])
  /\ letting \in Maybe(Pairs)

TypeOK ==
  /\ current \in [Files -> Maybe(Commits)]
  /\ TagsType /\ RunsType /\ JobsType /\ WorkType /\ CallsType
  /\ fileTags \subseteq Pairs /\ aiTags \subseteq Pairs
  /\ edits \in 0..MaxEdits /\ faults \in 0..MaxFaults
  /\ byHand \subseteq Pairs /\ wasAi \subseteq Pairs /\ handMade \subseteq TagIds
  /\ shown \in [Images -> Maybe(Commits)] /\ crossed \subseteq Images /\ dropped \subseteq Keys

Init ==
  /\ current = [f \in Files |-> 1]
  /\ tags = FirstTags
  /\ fileTags = {} /\ aiTags = {}
  /\ runs = [f \in Images |-> NoRun]
  /\ jobs = [k \in Keys |-> NoJob]
  /\ work = [w \in Workers |-> Resting]
  /\ asks = [k \in Keys |-> IF k[2] = 1 THEN "enqueue" ELSE "none"]
  /\ making = None /\ letting = None
  /\ edits = 0 /\ faults = 0
  /\ byHand = {} /\ wasAi = {} /\ handMade = {t \in TagIds : FirstTags[t] # NoTag}
  /\ shown = [f \in Images |-> None] /\ crossed = {} /\ dropped = {}

-----------------------------------------------------------------------------
(* Rows of tags.                                                           *)

Alive(t) == tags[t] # NoTag
On(t) == Files \X {t}
Of(f) == {f} \X TagIds

\* A new row takes an id that nothing refers to.
Referred ==
  (UNION {work[w].ids : w \in Workers})
    \cup {work[w].seen.id : w \in {v \in Workers : work[v].seen # None}}
    \cup (IF making = None THEN {} ELSE {making.seen.id})
    \cup (IF letting = None THEN {} ELSE {letting[2]})
    \cup {p[2] : p \in byHand} \cup handMade
FreshIds == {t \in TagIds : ~Alive(t)} \ Referred

Named(n) == {t \in TagIds : tags[t].name = n}

\* The SELECT of upsert_tag.
Select(n) ==
  [name |-> n,
   id |-> IF Named(n) = {} THEN None ELSE CHOOSE t \in Named(n) : TRUE,
   kind |-> IF Named(n) = {} THEN None ELSE tags[CHOOSE t \in Named(n) : TRUE].kind]

Priority(kind) == CASE kind = "manual" -> 3 [] kind = "ai" -> 2

\* The UPDATE of upsert_tag: what it decides from is the row it selected.
Upgrade(seen, kind, t) ==
  IF Alive(t) /\ Priority(kind) > Priority(seen.kind)
  THEN [tags EXCEPT ![t].kind = kind] ELSE tags

\* The write of upsert_tag returns id t: the row selected, or a new one.
Upserted(seen, kind, t) ==
  \/ seen.id # None /\ t = seen.id /\ tags' = Upgrade(seen, kind, t)
  \/ /\ seen.id = None /\ Named(seen.name) = {}
     /\ FreshIds # {} /\ t = CHOOSE i \in FreshIds : TRUE
     /\ tags' = [tags EXCEPT ![t] = [name |-> seen.name, kind |-> kind]]

\* tags.name is UNIQUE: somebody has inserted the name since.
Collides(seen) == seen.id = None /\ Named(seen.name) # {}

\* DELETE FROM tags, with its cascades.
DropTags(T, attached, owned) ==
  /\ tags' = [t \in TagIds |-> IF t \in T THEN NoTag ELSE tags[t]]
  /\ fileTags' = {p \in attached : p[2] \notin T}
  /\ aiTags' = {p \in owned : p[2] \notin T}

-----------------------------------------------------------------------------
(* Files.                                                                  *)

\* commit_file asks for tags of the new head; a rollback and SMB do not.
Recommit(f, asking) ==
  /\ current[f] # None /\ current[f] < MaxCommits
  /\ current' = [current EXCEPT ![f] = @ + 1]
  /\ asks' = IF asking /\ f \in Images THEN [asks EXCEPT ![<<f, current[f] + 1>>] = "enqueue"] ELSE asks
  /\ UNCHANGED <<tags, fileTags, aiTags, runs, jobs, work, making, letting, bounds, history>>

\* The rows of the file go with it.
Purge(f) ==
  /\ current[f] # None
  /\ current' = [current EXCEPT ![f] = None]
  /\ fileTags' = fileTags \ Of(f) /\ aiTags' = aiTags \ Of(f)
  /\ runs' = [i \in Images |-> IF i = f THEN NoRun ELSE runs[i]]
  /\ byHand' = byHand \ Of(f) /\ wasAi' = wasAi \ Of(f)
  /\ UNCHANGED <<tags, tasks, bounds, handMade, shown, crossed, dropped>>

-----------------------------------------------------------------------------
(* The user's calls on tags.                                               *)

Edit == edits < MaxEdits /\ edits' = edits + 1 /\ UNCHANGED faults

UpsertSelect(n, kind) ==
  /\ making = None /\ Edit
  /\ making' = [as |-> kind, seen |-> Select(n)]
  /\ UNCHANGED <<rows, jobs, work, asks, letting, history>>

UpsertWrite ==
  /\ making # None /\ making' = None
  /\ \/ \E t \in TagIds :
          /\ Upserted(making.seen, making.as, t)
          /\ handMade' = IF tags'[t] = [name |-> tags'[t].name, kind |-> "manual"]
                         THEN handMade \cup {t} ELSE handMade
     \/ Collides(making.seen) /\ UNCHANGED <<tags, handMade>>
  /\ UNCHANGED <<current, fileTags, aiTags, runs, jobs, work, asks, letting, bounds,
                 byHand, wasAi, shown, crossed, dropped>>

AttachTag(f, t) ==
  /\ current[f] # None /\ Alive(t) /\ Edit
  /\ fileTags' = fileTags \cup {<<f, t>>}
  /\ byHand' = byHand \cup {<<f, t>>}
  /\ wasAi' = (wasAi \ {<<f, t>>}) \cup (aiTags \cap {<<f, t>>})
  /\ UNCHANGED <<current, tags, aiTags, runs, tasks, handMade, shown, crossed, dropped>>

Detached(p) ==
  /\ fileTags' = fileTags \ {p}
  /\ byHand' = byHand \ {p} /\ wasAi' = wasAi \ {p}
  /\ UNCHANGED <<current, tags, aiTags, runs, handMade, shown, crossed, dropped>>

\* The REST call refuses what the AI owns, then detaches.
DetachCheck(p) ==
  /\ letting = None /\ p \in fileTags \ aiTags /\ Edit
  /\ letting' = p
  /\ UNCHANGED <<rows, jobs, work, asks, making, history>>

Detach ==
  /\ letting # None /\ letting' = None
  /\ Detached(letting)
  /\ UNCHANGED <<jobs, work, asks, making, bounds>>

\* Deleting a file from a tag's folder over SMB detaches the tag.
SmbDetach(p) ==
  /\ p \in fileTags /\ Edit
  /\ Detached(p)
  /\ UNCHANGED tasks

\* require_editable_tag: no step takes the kind manual from a tag, so that
\* the check and the statement after it are one.
Editable(t) == tags[t].kind = "manual"

DeleteTag(t) ==
  /\ Editable(t) /\ Edit
  /\ DropTags({t}, fileTags, aiTags)
  /\ byHand' = byHand \ On(t) /\ wasAi' = wasAi \ On(t)
  /\ handMade' = handMade \ {t}
  /\ UNCHANGED <<current, runs, tasks, shown, crossed, dropped>>

\* The pairs a merge of the tags gives the files of S.
Moved(S, source, target) == {<<f, target>> : f \in {g \in Files : <<g, source>> \in S}}

MergeTags(source, target) ==
  /\ source # target /\ Editable(source) /\ Editable(target) /\ Edit
  /\ DropTags({source}, fileTags \cup Moved(fileTags, source, target), aiTags)
  /\ LET moved == Moved(byHand \cap fileTags, source, target) IN
     /\ byHand' = (byHand \ On(source)) \cup moved
     /\ wasAi' = (wasAi \ On(source)) \cup (moved \cap aiTags)
  /\ handMade' = handMade \ {source}
  /\ UNCHANGED <<current, runs, tasks, shown, crossed, dropped>>

RenameTag(t, n) ==
  /\ Editable(t) /\ Named(n) = {} /\ Edit
  /\ tags' = [tags EXCEPT ![t].name = n]
  /\ UNCHANGED <<current, fileTags, aiTags, runs, tasks, history>>

-----------------------------------------------------------------------------
(* Asking for tags.                                                        *)

\* What asks for tags asks for the head it has read.
Ask(f) ==
  /\ current[f] # None /\ asks[<<f, current[f]>>] = "none"
  /\ asks' = [asks EXCEPT ![<<f, current[f]>>] = "enqueue"]
  /\ UNCHANGED <<rows, jobs, work, making, letting, history>>

\* regenerate_ai_tags, and --scope all.
Regenerate(f) == Ask(f) /\ Edit

\* The files of --scope stale: never done, failed, pending for longer than
\* AI_TAG_PENDING_LEASE (at any time here), or done for another commit.
StaleTarget(f) == runs[f].status # "ready" \/ runs[f].commit # current[f]

\* ai-tag-generate --scope stale.
AskStale(f) == StaleTarget(f) /\ Ask(f) /\ UNCHANGED bounds

Enqueue(k) ==
  /\ asks[k] = "enqueue"
  /\ jobs' = [jobs EXCEPT ![k] = IF @.state = "none" THEN [NoJob EXCEPT !.state = "queued"] ELSE @]
  /\ asks' = [asks EXCEPT ![k] = "pend"]
  /\ UNCHANGED <<rows, work, making, letting, bounds, history>>

\* upsert_ai_tag_run; a purged file has no row to refer to.
Mark(k, status) ==
  runs' = IF current[k[1]] = None THEN runs
          ELSE [runs EXCEPT ![k[1]] = [commit |-> k[2], status |-> status]]

\* mark_ai_tag_pending comes after the job is in the queue.
MarkPending(k) ==
  /\ asks[k] = "pend"
  /\ Mark(k, "pending")
  /\ asks' = [asks EXCEPT ![k] = "none"]
  /\ UNCHANGED <<current, tags, fileTags, aiTags, jobs, work, making, letting, bounds, history>>

-----------------------------------------------------------------------------
(* The job handler.                                                        *)

Go(w, where) == work' = [work EXCEPT ![w].pc = where]
FileOf(w) == work[w].key[1]

Take(w, k) ==
  /\ work[w] = Resting /\ jobs[k].state = "queued"
  /\ jobs' = [jobs EXCEPT ![k] =
                [state |-> "held", tries |-> IF @.tries < MaxAttempts THEN @.tries + 1 ELSE @.tries]]
  /\ work' = [work EXCEPT ![w] = [Resting EXCEPT !.pc = "generate", !.key = k]]
  /\ crossed' = IF \E v \in Workers : work[v] # Resting /\ FileOf(v) = k[1]
                THEN crossed \cup {k[1]} ELSE crossed
  /\ UNCHANGED <<rows, asks, making, letting, bounds, byHand, wasAi, handMade, shown, dropped>>

\* Mutant: the commit of the job is not compared with the head.
GenerateUnchecked(w) ==
  /\ work[w].pc = "generate"
  /\ IF current[FileOf(w)] = None THEN Go(w, "rejected")
     ELSE \/ \E N \in SUBSET Names : work' = [work EXCEPT ![w] = [work[w] EXCEPT !.pc = "resolve", !.todo = N]]
          \/ Go(w, "rejected") \/ Go(w, "faulted")
  /\ UNCHANGED <<rows, jobs, asks, making, letting, bounds, history>>

\* The file is gone, or has another commit by now; or the image of this
\* commit is read, the model proposes names and the normaliser maps them; or
\* one of these calls fails.
Generate(w) ==
  /\ work[w].pc = "generate"
  /\ CASE current[FileOf(w)] = None -> Go(w, "rejected")
       [] current[FileOf(w)] \in Commits \ {work[w].key[2]} -> Go(w, "done")
       [] OTHER -> \/ \E N \in SUBSET Names :
                        work' = [work EXCEPT ![w] = [work[w] EXCEPT !.pc = "resolve", !.todo = N]]
                   \/ Go(w, "rejected") \/ Go(w, "faulted")
  /\ UNCHANGED <<rows, jobs, asks, making, letting, bounds, history>>

\* upsert_tag for each name, in its two statements.
ResolveSelect(w) ==
  /\ work[w].pc = "resolve" /\ work[w].seen = None
  /\ IF work[w].todo = {} THEN Go(w, "replace")
     ELSE \E n \in work[w].todo :
            work' = [work EXCEPT ![w] = [work[w] EXCEPT !.todo = @ \ {n}, !.seen = Select(n)]]
  /\ UNCHANGED <<rows, jobs, asks, making, letting, bounds, history>>

ResolveWrite(w) ==
  /\ work[w].pc = "resolve" /\ work[w].seen # None
  /\ \/ \E t \in TagIds :
          /\ Upserted(work[w].seen, "ai", t)
          /\ work' = [work EXCEPT ![w] = [work[w] EXCEPT !.seen = None, !.ids = @ \cup {t}]]
     \/ Collides(work[w].seen) /\ Go(w, "faulted") /\ UNCHANGED tags
  /\ UNCHANGED <<current, fileTags, aiTags, runs, jobs, asks, making, letting, bounds, history>>

Owned(f) == {t \in TagIds : <<f, t>> \in aiTags}

\* What the sweeps of unused tags take.
Theirs(T, attached) == {t \in T : tags[t].kind = "ai" /\ attached \cap On(t) = {}}

\* Mutant: the file's tags are replaced, whoever attached them.
ReplaceAll(w) ==
  /\ work[w].pc = "replace"
  /\ LET f == FileOf(w)
         mine == {f} \X work[w].ids
         attached == (fileTags \ Of(f)) \cup mine
     IN  IF current[f] = None \/ \E t \in work[w].ids : ~Alive(t)
         THEN Go(w, "faulted") /\ UNCHANGED <<tags, fileTags, aiTags, wasAi, shown>>
         ELSE /\ DropTags(Theirs(Owned(f), attached), attached, (aiTags \ Of(f)) \cup mine)
              /\ wasAi' = wasAi \cup (mine \cap byHand)
              /\ shown' = [shown EXCEPT ![f] = work[w].key[2]]
              /\ Go(w, "record")
  /\ UNCHANGED <<current, runs, jobs, asks, making, letting, bounds, byHand, handMade, crossed, dropped>>

\* replace_ai_file_tags, one transaction: what the AI owned is detached, what
\* it proposes now is attached and owned, and tags of its own that no file
\* has any more are dropped.  A file or a tag that is gone fails it.
Replace(w) ==
  /\ work[w].pc = "replace"
  /\ LET f == FileOf(w)
         mine == {f} \X work[w].ids
         attached == (fileTags \ (aiTags \cap Of(f))) \cup mine
     IN  IF current[f] = None \/ \E t \in work[w].ids : ~Alive(t)
         THEN Go(w, "faulted") /\ UNCHANGED <<tags, fileTags, aiTags, wasAi, shown>>
         ELSE /\ DropTags(Theirs(Owned(f), attached), attached, (aiTags \ Of(f)) \cup mine)
              /\ wasAi' = wasAi \cup (mine \cap byHand)
              /\ shown' = [shown EXCEPT ![f] = work[w].key[2]]
              /\ Go(w, "record")
  /\ UNCHANGED <<current, runs, jobs, asks, making, letting, bounds, byHand, handMade, crossed, dropped>>

\* mark_ai_tag_ready, for the commit of the job.
MarkReady(w) ==
  /\ work[w].pc = "record"
  /\ Mark(work[w].key, "ready")
  /\ Go(w, IF current[FileOf(w)] = None THEN "faulted" ELSE "done")
  /\ UNCHANGED <<current, tags, fileTags, aiTags, jobs, asks, making, letting, bounds, history>>

\* The outcome in the queue: done, tried again, or failed and reported.
Settle(w) ==
  /\ work[w].pc \in {"done", "rejected", "faulted"}
  /\ LET k == work[w].key
         again == work[w].pc = "faulted" /\ jobs[k].tries < MaxAttempts
     IN  /\ jobs' = [jobs EXCEPT ![k] = IF again THEN [@ EXCEPT !.state = "queued"] ELSE NoJob]
         /\ work' = [work EXCEPT ![w] =
                       IF work[w].pc = "done" \/ again THEN Resting
                       ELSE [Resting EXCEPT !.pc = "report", !.key = k]]
  /\ UNCHANGED <<rows, asks, making, letting, bounds, history>>

\* Mutant: a permanent failure is not recorded.
MarkFailedNowhere(w) ==
  /\ work[w].pc = "report"
  /\ work' = [work EXCEPT ![w] = Resting]
  /\ UNCHANGED <<rows, jobs, asks, making, letting, bounds, history>>

\* on_permanent_failure: mark_ai_tag_failed, whatever the row says.
MarkFailed(w) ==
  /\ work[w].pc = "report"
  /\ Mark(work[w].key, "failed")
  /\ work' = [work EXCEPT ![w] = Resting]
  /\ UNCHANGED <<current, tags, fileTags, aiTags, jobs, asks, making, letting, bounds, history>>

-----------------------------------------------------------------------------
(* Processes.                                                              *)

Fault == faults < MaxFaults /\ faults' = faults + 1 /\ UNCHANGED edits

\* delete_orphaned_ai_tags.
Orphans == Theirs({t \in TagIds : Alive(t)}, fileTags)
SweepOrphans == DropTags(Orphans, fileTags, aiTags)

\* Every ai-tag-generate command sweeps when it starts, whatever a server
\* beside it is doing.
Cleanup ==
  /\ Fault
  /\ Orphans # {}
  /\ SweepOrphans
  /\ UNCHANGED <<current, runs, tasks, history>>

\* The process dies, perhaps with its queue, and starts with a cleanup.
Crash(lost) ==
  /\ Fault
  /\ SweepOrphans
  /\ jobs' = IF lost THEN [k \in Keys |-> NoJob] ELSE jobs
  /\ work' = [w \in Workers |-> Resting]
  /\ asks' = [k \in Keys |-> "none"]
  /\ making' = None /\ letting' = None
  /\ dropped' = dropped \cup {k \in Keys : \/ lost /\ jobs[k].state # "none"
                                         \/ \E w \in Workers : work[w].pc = "report" /\ work[w].key = k}
  /\ UNCHANGED <<current, runs, byHand, wasAi, handMade, shown, crossed>>

\* A job nobody runs any more is handed out again.
HandOutAgain(k) ==
  /\ jobs[k].state = "held" /\ \A w \in Workers : work[w].key # k
  /\ jobs' = [jobs EXCEPT ![k].state = "queued"]
  /\ UNCHANGED <<rows, work, asks, making, letting, bounds, history>>

-----------------------------------------------------------------------------
Handle(w) ==
  \/ \E k \in Keys : Take(w, k)
  \/ Generate(w) \/ ResolveSelect(w) \/ ResolveWrite(w) \/ Replace(w)
  \/ MarkReady(w) \/ Settle(w) \/ MarkFailed(w)

UserStarts ==
  \/ \E n \in Names, kind \in HandKinds : UpsertSelect(n, kind)
  \/ \E f \in Files, t \in TagIds : AttachTag(f, t)
  \/ \E p \in fileTags : DetachCheck(p) \/ SmbDetach(p)
  \/ \E t \in TagIds : DeleteTag(t)
  \/ \E s, t \in TagIds : MergeTags(s, t)
  \/ \E t \in TagIds, n \in Names : RenameTag(t, n)

Next ==
  \/ \E f \in Files : Purge(f)
  \/ \E f \in Images : Regenerate(f) \/ AskStale(f)
  \/ \E f \in Files, asking \in BOOLEAN : Recommit(f, asking)
  \/ UserStarts \/ UpsertWrite \/ Detach
  \/ \E k \in Keys : Enqueue(k) \/ MarkPending(k) \/ HandOutAgain(k)
  \/ \E w \in Workers : Handle(w)
  \/ Cleanup
  \/ \E lost \in BOOLEAN : Crash(lost)

Spec == Init /\ [][Next]_vars

\* What has begun goes on, and the queue hands its jobs out.
Fairness ==
  /\ \A w \in Workers : WF_vars(Handle(w))
  /\ \A k \in Keys : WF_vars(Enqueue(k)) /\ WF_vars(MarkPending(k)) /\ WF_vars(HandOutAgain(k))
FairSpec == Spec /\ Fairness

-----------------------------------------------------------------------------
(* Properties.                                                             *)

\* A tag the user attached stays on the file until the user takes it off,
\* whatever the AI generates for this file and the others, tags are merged
\* and renamed, and orphans are swept (replace_ai_file_tags, which has only
\* ai_file_tags to tell the two apart) -- unless the AI has proposed it too.
HandTagsOfOthersStay == byHand \ wasAi \subseteq fileTags

\* A tag the user has made manual is there, and manual, until the user
\* removes it: neither a worker that selected it before, nor a sweep of
\* orphans, takes it or its kind (upsert_tag's priorities, and the kind
\* filter of the sweeps).
ManualTagsStay == \A t \in handMade : tags[t].kind = "manual"

\* What the user attached and made, nobody else takes.
HandWorkStays == HandTagsOfOthersStay /\ ManualTagsStay

\* A run that calls itself ready for the head goes with tags proposed for
\* the head, after any commits, retries and crashes -- as long as no two
\* workers had the file in hand at once: MarkReady then records one's commit
\* over the other's tags, and --scope stale passes the file by.
ReadyShowsHead ==
  \A f \in Images \ crossed :
    runs[f].status = "ready" /\ runs[f].commit = current[f] => shown[f] = current[f]

\* A commit whose job is in the queue gets its answer, ready or failed,
\* unless the head moves on or a crash takes the job: with the queue in the
\* cache directory, or between its permanent failure and the record of it.
AskedIsAnswered ==
  \A k \in Keys :
    jobs[k].state = "queued" ~>
      \/ runs[k[1]].commit = k[2] /\ runs[k[1]].status \in {"ready", "failed"}
      \/ current[k[1]] # k[2]
      \/ k \in dropped
=============================================================================
