---------------------------- MODULE PreviewCache ----------------------------
(***************************************************************************)
(* The preview cache of yozist-cache: the `preview_cache` table            *)
(* (sqlite.rs), the generated files beside it, the job handler that makes  *)
(* them (job_handler.rs), the requests and commands that ask for them      *)
(* (yozist-api lib.rs, main.rs) and the sweeper of stale rows (main.rs).   *)
(*                                                                         *)
(* The job queue is seen through what JobQueue shows of it: one live job   *)
(* per dedup key, a job left by a crash or an expired lease is handed out  *)
(* again, tries are counted, and a permanent failure is reported.  The job *)
(* rows of one key are seen as one: a late outcome settles the job the key *)
(* has by then.  There is one variant, files are images and not in the     *)
(* trash, requests carry no If-None-Match, and a preview path is a key and *)
(* an extension.                                                           *)
(***************************************************************************)
EXTENDS Naturals, FiniteSets

CONSTANTS
  Files, Workers, Clients,
  MaxCommits,   \* bound on the commits of a file
  Watched,      \* the commits whose previews are followed
  Exts,         \* output extensions
  Format,       \* the extension a worker's process is configured to produce
  MaxAttempts,  \* tries of a job before its failure is permanent
  MaxFaults,    \* bound on crashes, expired leases, failed writes and removals
  None

ASSUME PreviewAssumption ==
  /\ MaxCommits \in Nat \ {0} /\ Watched \subseteq 1..MaxCommits /\ MaxAttempts \in Nat \ {0}
  /\ MaxFaults \in Nat
  /\ None \notin Exts /\ None \notin Nat
  /\ Format \in [Workers -> Exts]

VARIABLES
  current,  \* files.current_commit, None once the file is purged
  row,      \* preview_cache: status and the extension of rel_path
  disk,     \* path -> the commit its bytes were generated from, None if absent
  jobs,     \* the live job of each dedup key
  work,     \* the handler each worker runs
  req,      \* the request or command of each client
  sweep,    \* the sweeper
  faults,
  strays    \* history: the paths lost in one of the four known ways

vars == <<current, row, disk, jobs, work, req, sweep, faults, strays>>

Commits == 1..MaxCommits
Keys == Files \X Watched
Maybe(S) == S \cup {None}
Missing == [status |-> "missing", ext |-> None]
NoJob == [state |-> "none", tries |-> 0]
Resting == [pc |-> "idle", key |-> None, src |-> None, ext |-> None]
Away == [pc |-> "idle", key |-> None, ext |-> None]
NoSweep == [pc |-> "idle", todo |-> {}, seen |-> None, paths |-> {}]

HandlerAt == {"check", "read", "generate", "record", "unlink", "done", "rejected", "faulted", "report"}
RequestAt == {"lookup", "serve", "reset", "enqueue", "pend"}

RowType ==
  /\ row \in [Keys -> [status: {"missing", "pending", "ready", "failed"}, ext: Maybe(Exts)]]
  /\ \A k \in Keys : row[k].status = "ready" => row[k].ext \in Exts
DiskType == disk \in [Keys \X Exts -> Maybe(Commits)]
JobsType == jobs \in [Keys -> [state: {"none", "queued", "held"}, tries: 0..MaxAttempts]]
WorkType ==
  /\ work \in [Workers -> [pc: {"idle"} \cup HandlerAt, key: Maybe(Keys),
                           src: Maybe(Commits), ext: Maybe(Exts)]]
  /\ \A w \in Workers :
       /\ work[w].pc # "idle" => work[w].key \in Keys
       /\ work[w].pc \in {"record", "unlink"} => work[w].ext \in Exts
ReqType ==
  /\ req \in [Clients -> [pc: {"idle"} \cup RequestAt, key: Maybe(Keys), ext: Maybe(Exts)]]
  /\ \A r \in Clients : req[r].pc # "idle" => req[r].key \in Keys
SweepType ==
  sweep \in [pc: {"idle", "select", "delete", "unlink"}, todo: SUBSET Files,
             seen: Maybe([Files -> Maybe(Commits)]), paths: SUBSET (Keys \X Exts)]

TypeOK ==
  /\ current \in [Files -> Maybe(Commits)]
  /\ RowType /\ DiskType /\ JobsType /\ WorkType /\ ReqType /\ SweepType
  /\ faults \in 0..MaxFaults /\ strays \subseteq Keys \X Exts

Init ==
  /\ current = [f \in Files |-> 1]
  /\ row = [k \in Keys |-> Missing]
  /\ disk = [p \in Keys \X Exts |-> None]
  /\ jobs = [k \in Keys |-> NoJob]
  /\ work = [w \in Workers |-> Resting]
  /\ req = [r \in Clients |-> Away]
  /\ sweep = NoSweep
  /\ faults = 0 /\ strays = {}

\* Each fault counts towards their bound.
Spend == faults < MaxFaults /\ faults' = faults + 1

-----------------------------------------------------------------------------
(* Files.                                                                  *)

Recommit(f) ==
  /\ current[f] # None /\ current[f] < MaxCommits
  /\ current' = [current EXCEPT ![f] = @ + 1]
  /\ UNCHANGED <<row, disk, jobs, work, req, sweep, faults, strays>>

Purge(f) ==
  /\ current[f] # None
  /\ current' = [current EXCEPT ![f] = None]
  /\ UNCHANGED <<row, disk, jobs, work, req, sweep, faults, strays>>

-----------------------------------------------------------------------------
(* Requests (get_preview) and commands: each await is a step.              *)

Want(r, where, key, ext) == req' = [req EXCEPT ![r] = [pc |-> where, key |-> key, ext |-> ext]]
Ask(r, where) == Want(r, where, req[r].key, None)
Answer(r) == req' = [req EXCEPT ![r] = Away]

\* The commit is read once, with the file.
BeginRequest(r, f) ==
  /\ req[r] = Away /\ current[f] \in Watched
  /\ Want(r, "lookup", <<f, current[f]>>, None)
  /\ UNCHANGED <<current, row, disk, jobs, work, sweep, faults, strays>>

Look(r) ==
  /\ req[r].pc = "lookup"
  /\ LET seen == row[req[r].key] IN
     CASE seen.status = "ready" -> Want(r, "serve", req[r].key, seen.ext)
       [] seen.status = "failed" -> Answer(r)
       [] OTHER -> Ask(r, "enqueue")
  /\ UNCHANGED <<current, row, disk, jobs, work, sweep, faults, strays>>

\* The path of the row that was looked up; a file that cannot be read is
\* asked for again.
Serve(r) ==
  /\ req[r].pc = "serve"
  /\ IF disk[<<req[r].key, req[r].ext>>] # None THEN Answer(r) ELSE Ask(r, "enqueue")
  /\ UNCHANGED <<current, row, disk, jobs, work, sweep, faults, strays>>

\* cache-warm asks for what is not ready, cache-regenerate for everything.
BeginCommand(r, f) ==
  /\ req[r] = Away /\ current[f] \in Watched
  /\ LET k == <<f, current[f]>> IN
     \/ row[k].status # "ready" /\ Want(r, "enqueue", k, None)
     \/ Want(r, "reset", k, None)
  /\ UNCHANGED <<current, row, disk, jobs, work, sweep, faults, strays>>

ResetToPending(r) ==
  /\ req[r].pc = "reset"
  /\ row' = [row EXCEPT ![req[r].key].status = "pending"]
  /\ Ask(r, "enqueue")
  /\ UNCHANGED <<current, disk, jobs, work, sweep, faults, strays>>

Enqueue(r) ==
  /\ req[r].pc = "enqueue"
  /\ jobs' = [jobs EXCEPT ![req[r].key] =
                IF @.state = "none" THEN [state |-> "queued", tries |-> 0] ELSE @]
  /\ Ask(r, "pend")
  /\ UNCHANGED <<current, row, disk, work, sweep, faults, strays>>

\* mark_pending comes after the job is in the queue, and spares ready rows.
MarkPending(r) ==
  /\ req[r].pc = "pend"
  /\ row' = [row EXCEPT ![req[r].key].status = IF @ = "ready" THEN @ ELSE "pending"]
  /\ Answer(r)
  /\ UNCHANGED <<current, disk, jobs, work, sweep, faults, strays>>

-----------------------------------------------------------------------------
(* The job handler.                                                        *)

\* The handler goes on to its next step with the locals that step needs.
Hold(w, where, src, ext) ==
  work' = [work EXCEPT ![w] = [pc |-> where, key |-> work[w].key, src |-> src, ext |-> ext]]
Go(w, where) == Hold(w, where, None, None)

Take(w, k) ==
  /\ work[w] = Resting /\ jobs[k].state = "queued"
  /\ jobs' = [jobs EXCEPT ![k] =
                [state |-> "held", tries |-> IF @.tries < MaxAttempts THEN @.tries + 1 ELSE @.tries]]
  /\ work' = [work EXCEPT ![w] = [Resting EXCEPT !.pc = "check", !.key = k]]
  /\ UNCHANGED <<current, row, disk, req, sweep, faults, strays>>

\* The file is gone, or has another commit by now, or has this one still.
Check(w) ==
  /\ work[w].pc = "check"
  /\ LET c == current[work[w].key[1]] IN
     Go(w, IF c = None THEN "rejected" ELSE IF c # work[w].key[2] THEN "done" ELSE "read")
  /\ UNCHANGED <<current, row, disk, jobs, req, sweep, faults, strays>>

\* Mutant: read_current, which reads the head again.
ReadCurrent(w) ==
  /\ work[w].pc = "read"
  /\ LET c == current[work[w].key[1]] IN
     IF c = None THEN Go(w, "faulted") ELSE Hold(w, "generate", c, None)
  /\ UNCHANGED <<current, row, disk, jobs, req, sweep, faults, strays>>

\* read_at_commit, for the commit that was checked.
Read(w) ==
  /\ work[w].pc = "read"
  /\ IF current[work[w].key[1]] = None
     THEN Go(w, "faulted") ELSE Hold(w, "generate", work[w].key[2], None)
  /\ UNCHANGED <<current, row, disk, jobs, req, sweep, faults, strays>>

\* The result is renamed to its place, or the image is no good, or I/O fails.
Generate(w) ==
  /\ work[w].pc = "generate"
  /\ \/ /\ disk' = [disk EXCEPT ![<<work[w].key, Format[w]>>] = work[w].src]
        /\ Hold(w, "record", None, Format[w])
     \/ \E where \in {"rejected", "faulted"} : Go(w, where) /\ UNCHANGED disk
  /\ UNCHANGED <<current, row, jobs, req, sweep, faults, strays>>

\* The file under the sweeper's hand and its rows: delete_stale for a file
\* that is there, delete_by_file for one that is not.
Swept == CHOOSE f \in sweep.todo : TRUE
Stale(f) == {k \in Keys : k[1] = f /\ k[2] # sweep.seen[f]}

\* The file a handler is to record or to remove.
Path(w) == <<work[w].key, work[w].ext>>
Handling(w) == work[w].pc \in {"record", "unlink"}

\* mark_ready, one transaction, returns the path it replaces.
MarkReady(w) ==
  /\ work[w].pc = "record"
  /\ LET k == work[w].key
         old == row[k].ext
     IN  /\ row' = [row EXCEPT ![k] = [status |-> "ready", ext |-> work[w].ext]]
         /\ IF old \in {None, work[w].ext} THEN Go(w, "done")
            ELSE Hold(w, "unlink", None, old)
         /\ strays' = IF sweep.pc = "delete" /\ k \in Stale(Swept) /\ Path(w) \notin sweep.paths
                      THEN strays \cup {Path(w)} ELSE strays \ {Path(w)}
  /\ UNCHANGED <<current, disk, jobs, req, sweep, faults>>

\* Mutant: the replaced file is kept.
KeepSuperseded(w) ==
  /\ work[w].pc = "unlink"
  /\ Go(w, "done")
  /\ UNCHANGED <<current, row, disk, jobs, req, sweep, faults, strays>>

\* remove_file; its failure is logged, and no row names the file any more.
Remove(p) ==
  \/ disk' = [disk EXCEPT ![p] = None] /\ UNCHANGED <<faults, strays>>
  \/ Spend /\ strays' = strays \cup {p} /\ UNCHANGED disk

RemoveSuperseded(w) ==
  /\ work[w].pc = "unlink"
  /\ Remove(Path(w))
  /\ Go(w, "done")
  /\ UNCHANGED <<current, row, jobs, req, sweep>>

\* The outcome in the queue: done, tried again, or failed and reported.
Settle(w) ==
  /\ work[w].pc \in {"done", "rejected", "faulted"}
  /\ LET k == work[w].key
         again == work[w].pc = "faulted" /\ jobs[k].tries < MaxAttempts
     IN  /\ jobs' = [jobs EXCEPT ![k] = IF again THEN [@ EXCEPT !.state = "queued"] ELSE NoJob]
         /\ IF work[w].pc = "done" \/ again
            THEN work' = [work EXCEPT ![w] = Resting] ELSE Go(w, "report")
  /\ UNCHANGED <<current, row, disk, req, sweep, faults, strays>>

\* Mutant: a permanent failure is not recorded in the cache.
MarkFailedNowhere(w) ==
  /\ work[w].pc = "report"
  /\ work' = [work EXCEPT ![w] = Resting]
  /\ UNCHANGED <<current, row, disk, jobs, req, sweep, faults, strays>>

\* on_permanent_failure: mark_failed, whatever the row says.
MarkFailed(w) ==
  /\ work[w].pc = "report"
  /\ row' = [row EXCEPT ![work[w].key].status = "failed"]
  /\ work' = [work EXCEPT ![w] = Resting]
  /\ UNCHANGED <<current, disk, jobs, req, sweep, faults, strays>>

-----------------------------------------------------------------------------
(* The sweeper, file by file: SELECT, DELETE, then the files.              *)

SweepStart ==
  /\ sweep = NoSweep
  /\ LET listed == {f \in Files : \E c \in Watched : row[<<f, c>>].status # "missing"} IN
     /\ listed # {}
     /\ sweep' = [sweep EXCEPT !.pc = "select", !.todo = listed, !.seen = current]
  /\ UNCHANGED <<current, row, disk, jobs, work, req, faults, strays>>

SweepSelect ==
  /\ sweep.pc = "select"
  /\ sweep' = [sweep EXCEPT !.pc = "delete",
                 !.paths = {<<k, row[k].ext>> : k \in {s \in Stale(Swept) : row[s].ext # None}}]
  /\ UNCHANGED <<current, row, disk, jobs, work, req, faults, strays>>

SweepDelete ==
  /\ sweep.pc = "delete"
  /\ row' = [k \in Keys |-> IF k \in Stale(Swept) THEN Missing ELSE row[k]]
  /\ sweep' = [sweep EXCEPT !.pc = "unlink"]
  /\ UNCHANGED <<current, disk, jobs, work, req, faults, strays>>

SweepUnlink ==
  /\ sweep.pc = "unlink"
  /\ IF sweep.paths # {}
     THEN \E p \in sweep.paths : Remove(p) /\ sweep' = [sweep EXCEPT !.paths = @ \ {p}]
     ELSE /\ UNCHANGED <<disk, faults, strays>>
          /\ sweep' = IF sweep.todo = {Swept} THEN NoSweep
                      ELSE [sweep EXCEPT !.pc = "select", !.todo = @ \ {Swept}]
  /\ UNCHANGED <<current, row, jobs, work, req>>

-----------------------------------------------------------------------------
(* Faults.                                                                 *)

Crash ==
  /\ Spend
  /\ strays' = strays \cup {Path(w) : w \in {v \in Workers : Handling(v)}}
                     \cup (IF sweep.pc = "unlink" THEN sweep.paths ELSE {})
  /\ work' = [w \in Workers |-> Resting]
  /\ req' = [r \in Clients |-> Away]
  /\ sweep' = NoSweep
  /\ UNCHANGED <<current, row, disk, jobs>>

\* A read or write of a handler fails: the try is a retryable failure.  The
\* file of a write that fails is there already.
HandlerFault(w) ==
  /\ work[w].pc \in {"check", "record"}
  /\ Spend
  /\ strays' = IF work[w].pc = "record" THEN strays \cup {Path(w)} ELSE strays
  /\ Go(w, "faulted")
  /\ UNCHANGED <<current, row, disk, jobs, req, sweep>>

\* A write of a request fails: it is logged, and the request goes on.
RequestFault(r) ==
  /\ req[r].pc \in {"enqueue", "pend"}
  /\ Spend
  /\ IF req[r].pc = "enqueue" THEN Ask(r, "pend") ELSE Answer(r)
  /\ UNCHANGED <<current, row, disk, jobs, work, sweep, strays>>

\* A job nobody runs any more is handed out again, and one that still runs
\* when its lease is over.
HandOutAgain(k) ==
  /\ jobs[k].state = "held" /\ \A w \in Workers : work[w].key # k
  /\ jobs' = [jobs EXCEPT ![k].state = "queued"]
  /\ UNCHANGED <<current, row, disk, work, req, sweep, faults, strays>>

LeaseExpires(k) ==
  /\ jobs[k].state = "held" /\ \E w \in Workers : work[w].key = k
  /\ Spend
  /\ jobs' = [jobs EXCEPT ![k].state = "queued"]
  /\ UNCHANGED <<current, row, disk, work, req, sweep, strays>>

-----------------------------------------------------------------------------
Handle(w) ==
  \/ \E k \in Keys : Take(w, k)
  \/ Check(w) \/ Read(w) \/ Generate(w) \/ MarkReady(w) \/ RemoveSuperseded(w)
  \/ Settle(w) \/ MarkFailed(w)

Respond(r) ==
  \/ Look(r) \/ Serve(r)
  \/ ResetToPending(r) \/ Enqueue(r) \/ MarkPending(r)

Sweep == SweepStart \/ SweepSelect \/ SweepDelete \/ SweepUnlink

Next ==
  \/ \E f \in Files : Recommit(f) \/ Purge(f)
  \/ \E r \in Clients, f \in Files : BeginRequest(r, f) \/ BeginCommand(r, f)
  \/ \E r \in Clients : Respond(r)
  \/ \E w \in Workers : Handle(w)
  \/ Sweep
  \/ Crash
  \/ \E w \in Workers : HandlerFault(w)
  \/ \E r \in Clients : RequestFault(r)
  \/ \E k \in Keys : HandOutAgain(k) \/ LeaseExpires(k)

Spec == Init /\ [][Next]_vars

\* The tasks that have begun go on, and the queue hands its jobs out.  Nobody
\* has to ask, to commit or to sweep.
Fairness ==
  /\ \A w \in Workers : WF_vars(Handle(w))
  /\ \A r \in Clients : WF_vars(Respond(r))
  /\ \A k \in Keys : WF_vars(HandOutAgain(k))
FairSpec == Spec /\ Fairness

-----------------------------------------------------------------------------
(* Properties.                                                             *)

\* A file under a preview path holds a preview of the commit the path names,
\* never of a later one: the handler checks the head, and reads after an
\* await (job_handler.rs, read_at_commit).
PreviewOfItsCommit == \A p \in Keys \X Exts : disk[p] \in {None, p[1][2]}

Referenced(p) ==
  \/ row[p[1]].ext = p[2]
  \/ sweep.pc = "unlink" /\ p \in sweep.paths
  \/ \E w \in Workers : Handling(w) /\ p = Path(w)

\* No preview file is forgotten: it is the file of its row, or of a task that
\* will record or remove it -- whatever the order of generations in two
\* formats, expired leases, regenerations, failures and sweeps -- but for the
\* paths lost in one of four ways, until a mark_ready names them again: a crash
\* before that task, a failed mark_ready, a mark_ready between the SELECT and
\* the DELETE of a sweep, and a remove_file that fails when the path has left
\* its row (job_handler.rs and main.rs log it and go on).
NoOrphan == \A p \in (Keys \X Exts) \ strays : disk[p] # None => Referenced(p)

Settled(k) ==
  \/ row[k].status = "failed"
  \/ row[k].status = "ready" /\ disk[<<k, row[k].ext>>] # None

Alone(k) == \A v, w \in Workers : work[v].key = k /\ work[w].key = k => v = w

\* A preview of the commit that stays the head, asked for again and again, is
\* again and again settled: served from its file, or failed.  No crash,
\* sweep or race leaves it pending, or ready without a file, for good -- once
\* no two processes generate it at the same time: two of them, in different
\* formats, can remove each other's file for ever (remove_file after
\* mark_ready, in job_handler.rs, is not ordered with the other's rename).
Heals ==
  \A k \in Keys :
    ( /\ <>[](current[k[1]] = k[2] /\ Alone(k))
      /\ []<>(\E r \in Clients : req[r].pc = "lookup" /\ req[r].key = k) )
    => []<>Settled(k)
=============================================================================
