------------------------------ MODULE JobQueue ------------------------------
(***************************************************************************)
(* The background job queue of yozist-jobs: the `jobs` table (store.rs)    *)
(* and the workers that poll it (lib.rs), over several processes that      *)
(* share the table: servers, whose workers loop forever, and command-line  *)
(* drains, whose workers leave when nothing is left.                       *)
(*                                                                         *)
(* Time is kept as timers instead of timestamps.  delay[j] is run_after    *)
(* minus now (so a smaller value means an older run_after); age[j] is now  *)
(* minus updated_at.  A timer runs only while the status reads it, and     *)
(* saturates where the code no longer tells its values apart.              *)
(***************************************************************************)
EXTENDS Integers, Sequences, FiniteSets

CONSTANTS
  Jobs,           \* ids of the rows that may ever be inserted
  Kinds,          \* job kinds ("preview.generate", "ai.tag")
  Keys, NoKey,    \* dedup keys, and NULL
  Row,            \* Row[j]: the kind and dedup_key of row j
  Workers,        \* worker tasks of every process
  Procs,          \* processes that open the store
  Servers,        \* those that run spawn_workers; the others run drain_with
  ProcOf,         \* the process of a worker
  Leads,          \* worker 0 of each process
  Handles,        \* Handles[p]: the kinds registered in process p
  MaxAttempts,    \* DEFAULT_MAX_ATTEMPTS
  Backoff,        \* RETRY_BACKOFF_SECS, in ticks
  Lease,          \* STALLED_LEASE, in ticks
  Retention,      \* FINISHED_RETENTION, in ticks
  Horizon,        \* run_after values older than this are not ordered
  MaxCrashes,     \* bound on process crashes
  MaxStalls,      \* bound on leases that expire under a living worker
  MaxStoreErrors, \* bound on result writes that fail
  NoJob

ASSUME RowAssumption ==
  /\ Row \in [Jobs -> [kind: Kinds, key: Keys \cup {NoKey}]]
  /\ NoKey \notin Keys
  /\ NoJob \notin Jobs
ASSUME WorkerAssumption ==
  /\ ProcOf \in [Workers -> Procs]
  /\ Leads \subseteq Workers
  /\ Servers \subseteq Procs
  /\ Handles \in [Procs -> SUBSET Kinds]
ASSUME NumberAssumption ==
  /\ MaxAttempts \in Nat \ {0}
  /\ Backoff \in Seq(Nat) /\ Len(Backoff) > 0
  /\ Lease \in Nat /\ Retention \in Nat /\ Horizon \in Nat
  /\ MaxCrashes \in Nat /\ MaxStalls \in Nat /\ MaxStoreErrors \in Nat

VARIABLES
  status,    \* jobs.status, "absent" before the insert, "purged" after the delete
  attempts,  \* jobs.attempts
  delay,     \* run_after - now, of a pending row
  age,       \* now - updated_at, of a running, done or failed row
  pc,        \* where each worker is
  job,       \* the JobRecord each worker holds
  seen,      \* the attempts mark_failed_retry has read
  notified,  \* rows whose handler has had on_permanent_failure
  faults     \* how many faults of each sort have happened

rowVars == <<status, attempts, delay, age>>
vars == <<status, attempts, delay, age, pc, job, seen, notified, faults>>

Status == {"absent", "pending", "running", "done", "failed", "purged"}
Live == {"pending", "running"}
Terminal == {"done", "failed"}
\* A worker is busy from its claim until the outcome is written.
BusyAt == {"handling", "succeeded", "rejected", "faulted", "exhausted", "backingoff"}
RestAt == {"down", "held", "boot", "idle", "exited"}
PCs == BusyAt \cup RestAt \cup {"notifying"}

Busy(w) == pc[w] \in BusyAt
Lower(a, b) == IF a < b THEN a ELSE b
AgeCap == (IF Lease < Retention THEN Retention ELSE Lease) + 1

TypeOK ==
  /\ status \in [Jobs -> Status]
  /\ attempts \in [Jobs -> Nat]
  /\ delay \in [Jobs -> Int]
  /\ age \in [Jobs -> Nat]
  /\ pc \in [Workers -> PCs]
  /\ job \in [Workers -> Jobs \cup {NoJob}]
  /\ \A w \in Workers : (Busy(w) \/ pc[w] = "notifying") => job[w] \in Jobs
  /\ seen \in [Workers -> Nat]
  /\ notified \subseteq Jobs
  /\ faults \in [crash: Nat, stall: Nat, store: Nat]

\* No process is up before the first Start, and the table is empty.
Init ==
  /\ status = [j \in Jobs |-> "absent"]
  /\ attempts = [j \in Jobs |-> 0]
  /\ delay = [j \in Jobs |-> 0]
  /\ age = [j \in Jobs |-> 0]
  /\ pc = [w \in Workers |-> "down"]
  /\ job = [w \in Workers |-> NoJob]
  /\ seen = [w \in Workers |-> 0]
  /\ notified = {}
  /\ faults = [crash |-> 0, stall |-> 0, store |-> 0]

-----------------------------------------------------------------------------
(* The table.                                                              *)

\* Mutant: an index over pending rows only.
IndexAdmitsPendingOnly(j) ==
  \/ Row[j].key = NoKey
  \/ \A k \in Jobs \ {j} : Row[k] = Row[j] => status[k] # "pending"

\* idx_jobs_dedup, a unique index over the live rows that have a dedup_key,
\* lets row j become (or stay) live.
IndexAdmits(j) ==
  \/ Row[j].key = NoKey
  \/ \A k \in Jobs \ {j} : Row[k] = Row[j] => status[k] \notin Live

\* An insert that meets the index does nothing (ON CONFLICT DO NOTHING).
Enqueue(j) ==
  /\ status[j] = "absent"
  /\ IndexAdmits(j)
  /\ status' = [status EXCEPT ![j] = "pending"]
  /\ delay' = [delay EXCEPT ![j] = 0]
  /\ UNCHANGED <<attempts, age, pc, job, seen, notified, faults>>

\* Mutants: a reclaim that takes every running row, whatever its
\* lease, and one that leaves rows without an attempt for good.
StalledAnyRunning == {j \in Jobs : status[j] = "running"}
StalledWithAttemptsLeft ==
  {j \in Jobs : status[j] = "running" /\ age[j] > Lease /\ attempts[j] < MaxAttempts}

Stalled == {j \in Jobs : status[j] = "running" /\ age[j] > Lease}

ReclaimStalled ==
  /\ status' = [j \in Jobs |-> IF j \in Stalled THEN "pending" ELSE status[j]]
  /\ delay' = [j \in Jobs |-> IF j \in Stalled THEN 0 ELSE delay[j]]
  /\ age' = [j \in Jobs |-> IF j \in Stalled THEN 0 ELSE age[j]]

Expired == {j \in Jobs : status[j] \in Terminal /\ age[j] > Retention}

\* An UPDATE by id: a row that has been deleted is not there to change.
SetRow(j, s, d) ==
  IF status[j] = "purged"
  THEN UNCHANGED <<status, delay, age>>
  ELSE /\ status' = [status EXCEPT ![j] = s]
       /\ delay' = [delay EXCEPT ![j] = d]
       /\ age' = [age EXCEPT ![j] = 0]

BackoffAfter(a) ==
  Backoff[Lower(IF a < 1 THEN 1 ELSE a, Len(Backoff))]

Eligible(w) ==
  {j \in Jobs : /\ status[j] = "pending"
                /\ delay[j] <= 0
                /\ Row[j].kind \in Handles[ProcOf[w]]}

\* Mutant: the count does not look at the kind.
IncompleteOfAnyKind(w) == {j \in Jobs : status[j] \in Live}

\* count_incomplete for the kinds of worker w.
Incomplete(w) ==
  {j \in Jobs : status[j] \in Live /\ Row[j].kind \in Handles[ProcOf[w]]}

-----------------------------------------------------------------------------
(* The workers.                                                            *)

GoTo(w, where) == pc' = [pc EXCEPT ![w] = where]
\* run_one returns: the worker forgets its record and polls again.
Rest(w) == GoTo(w, "idle") /\ job' = [job EXCEPT ![w] = NoJob]

\* spawn_workers starts every worker at once and worker 0 reclaims first;
\* drain_with reclaims once, before it starts any of its workers.
Start(p) ==
  /\ \A w \in Workers : ProcOf[w] = p => pc[w] = "down"
  /\ pc' = [w \in Workers |->
              IF ProcOf[w] # p THEN pc[w]
              ELSE IF w \in Leads THEN "boot"
              ELSE IF p \in Servers THEN "idle" ELSE "held"]
  /\ UNCHANGED <<rowVars, job, seen, notified, faults>>

BootReclaim(w) ==
  /\ pc[w] = "boot"
  /\ ReclaimStalled
  /\ pc' = [x \in Workers |->
              IF x = w \/ (ProcOf[x] = ProcOf[w] /\ pc[x] = "held")
              THEN "idle" ELSE pc[x]]
  /\ UNCHANGED <<attempts, job, seen, notified, faults>>

\* Worker 0 of a server does the maintenance, between two jobs of its own.
Maintains(w) == w \in Leads /\ ProcOf[w] \in Servers /\ pc[w] = "idle"

PeriodicReclaim(w) ==
  /\ Maintains(w)
  /\ Stalled # {}
  /\ ReclaimStalled
  /\ UNCHANGED <<attempts, pc, job, seen, notified, faults>>

PurgeFinished(w) ==
  /\ Maintains(w)
  /\ Expired # {}
  /\ status' = [j \in Jobs |-> IF j \in Expired THEN "purged" ELSE status[j]]
  /\ age' = [j \in Jobs |-> IF j \in Expired THEN 0 ELSE age[j]]
  /\ UNCHANGED <<attempts, delay, pc, job, seen, notified, faults>>

\* One immediate transaction: the oldest due row of a registered kind.
ClaimNext(w, j) ==
  /\ pc[w] = "idle"
  /\ j \in Eligible(w)
  /\ \A k \in Eligible(w) : delay[j] <= delay[k]
  /\ status' = [status EXCEPT ![j] = "running"]
  /\ attempts' = [attempts EXCEPT ![j] = @ + 1]
  /\ delay' = [delay EXCEPT ![j] = 0]
  /\ age' = [age EXCEPT ![j] = 0]
  /\ GoTo(w, "handling")
  /\ job' = [job EXCEPT ![w] = j]
  /\ UNCHANGED <<seen, notified, faults>>

\* handle() returns Ok, Permanent or Retryable; a panic counts as Retryable.
HandlerReturns(w) ==
  /\ pc[w] = "handling"
  /\ \E outcome \in {"succeeded", "rejected", "faulted"} : GoTo(w, outcome)
  /\ UNCHANGED <<rowVars, job, seen, notified, faults>>

MarkDone(w) ==
  /\ pc[w] = "succeeded"
  /\ SetRow(job[w], "done", 0)
  /\ Rest(w)
  /\ UNCHANGED <<attempts, seen, notified, faults>>

\* Mutant: only Permanent is reported.
MarkFailedSilentlyWhenExhausted(w) ==
  /\ pc[w] \in {"rejected", "exhausted"}
  /\ SetRow(job[w], "failed", 0)
  /\ IF pc[w] = "rejected" THEN GoTo(w, "notifying") /\ UNCHANGED job ELSE Rest(w)
  /\ UNCHANGED <<attempts, seen, notified, faults>>

\* mark_failed_permanent, after Permanent or when no attempt is left.
MarkFailedPermanent(w) ==
  /\ pc[w] \in {"rejected", "exhausted"}
  /\ SetRow(job[w], "failed", 0)
  /\ GoTo(w, "notifying")
  /\ UNCHANGED <<attempts, job, seen, notified, faults>>

\* Mutant: one attempt more than max_attempts.
ReadAttemptsOffByOne(w) ==
  /\ pc[w] = "faulted"
  /\ seen' = [seen EXCEPT ![w] = attempts[job[w]]]
  /\ IF status[job[w]] = "purged"
     THEN Rest(w)
     ELSE /\ GoTo(w, IF attempts[job[w]] > MaxAttempts THEN "exhausted" ELSE "backingoff")
          /\ UNCHANGED job
  /\ UNCHANGED <<rowVars, notified, faults>>

\* mark_failed_retry is two statements; this is the SELECT.
ReadAttempts(w) ==
  /\ pc[w] = "faulted"
  /\ seen' = [seen EXCEPT ![w] = attempts[job[w]]]
  /\ IF status[job[w]] = "purged"
     THEN Rest(w)
     ELSE /\ GoTo(w, IF attempts[job[w]] >= MaxAttempts THEN "exhausted" ELSE "backingoff")
          /\ UNCHANGED job
  /\ UNCHANGED <<rowVars, notified, faults>>

\* ... and this the UPDATE, which the index refuses while another row of the
\* same key is live.
MarkFailedRetry(w) ==
  /\ pc[w] = "backingoff"
  /\ IF IndexAdmits(job[w])
     THEN SetRow(job[w], "pending", BackoffAfter(seen[w]))
     ELSE UNCHANGED <<status, delay, age>>
  /\ Rest(w)
  /\ UNCHANGED <<attempts, seen, notified, faults>>

OnPermanentFailure(w) ==
  /\ pc[w] = "notifying"
  /\ notified' = notified \cup {job[w]}
  /\ Rest(w)
  /\ UNCHANGED <<rowVars, seen, faults>>

\* drain_loop: nothing to claim, and count_incomplete says zero.
DrainReturns(w) ==
  /\ pc[w] = "idle"
  /\ ProcOf[w] \notin Servers
  /\ Incomplete(w) = {}
  /\ GoTo(w, "exited")
  /\ UNCHANGED <<rowVars, job, seen, notified, faults>>

-----------------------------------------------------------------------------
(* Faults and time.                                                        *)

\* A statement that records an outcome fails: the row stays as it is, and
\* only the Permanent branch goes on to on_permanent_failure.
StoreError(w) ==
  /\ faults.store < MaxStoreErrors
  /\ Busy(w) /\ pc[w] # "handling"
  /\ faults' = [faults EXCEPT !.store = @ + 1]
  /\ IF pc[w] = "rejected"
     THEN GoTo(w, "notifying") /\ UNCHANGED job
     ELSE Rest(w)
  /\ UNCHANGED <<rowVars, seen, notified>>

Crash(p) ==
  /\ faults.crash < MaxCrashes
  /\ \E w \in Workers : ProcOf[w] = p /\ pc[w] \notin {"down", "exited"}
  /\ faults' = [faults EXCEPT !.crash = @ + 1]
  /\ pc' = [w \in Workers |-> IF ProcOf[w] = p THEN "down" ELSE pc[w]]
  /\ job' = [w \in Workers |-> IF ProcOf[w] = p THEN NoJob ELSE job[w]]
  /\ UNCHANGED <<rowVars, seen, notified>>

\* Rows whose lease the next tick lets expire although a worker has them.
Overrun ==
  {j \in Jobs : /\ status[j] = "running" /\ age[j] = Lease
                /\ \E w \in Workers : Busy(w) /\ job[w] = j}

Tick ==
  /\ \/ Overrun = {} /\ UNCHANGED faults
     \/ /\ Overrun # {} /\ faults.stall < MaxStalls
        /\ faults' = [faults EXCEPT !.stall = @ + 1]
  /\ delay' = [j \in Jobs |->
                 IF status[j] = "pending" /\ delay[j] > -Horizon
                 THEN delay[j] - 1 ELSE delay[j]]
  /\ age' = [j \in Jobs |->
                 IF status[j] \in Terminal \cup {"running"}
                 THEN Lower(age[j] + 1, AgeCap) ELSE age[j]]
  /\ UNCHANGED <<status, attempts, pc, job, seen, notified>>

-----------------------------------------------------------------------------
WorkerStep(w) ==
  \/ BootReclaim(w)
  \/ PeriodicReclaim(w)
  \/ \E j \in Jobs : ClaimNext(w, j)
  \/ HandlerReturns(w)
  \/ MarkDone(w)
  \/ MarkFailedPermanent(w)
  \/ ReadAttempts(w)
  \/ MarkFailedRetry(w)
  \/ OnPermanentFailure(w)
  \/ DrainReturns(w)

Next ==
  \/ \E j \in Jobs : Enqueue(j)
  \/ \E p \in Procs : Start(p) \/ Crash(p)
  \/ \E w \in Workers : WorkerStep(w) \/ PurgeFinished(w) \/ StoreError(w)
  \/ Tick

Spec == Init /\ [][Next]_vars

\* Workers run whenever they can and time passes.  Nobody has to enqueue,
\* restart a crashed process or write a faulty row.
FairSpec ==
  /\ Spec
  /\ WF_vars(Tick)
  /\ \A w \in Workers : WF_vars(WorkerStep(w))

-----------------------------------------------------------------------------
(* Safety.                                                                 *)

\* Two live rows never share a kind and a dedup key, although a row can be
\* put back to pending by its own worker, by a worker that lost it, or by the
\* reclaim: enqueue's ON CONFLICT alone would not be enough.
OneLivePerKey ==
  \A j, k \in Jobs :
    (j # k /\ Row[j] = Row[k] /\ Row[j].key # NoKey)
      => ~(status[j] \in Live /\ status[k] \in Live)

\* As long as no handler outlives its lease, a row is in the hands of at most
\* one worker, and the row says so: crashes, failed writes, the reclaim and
\* purges never make two workers run the same job at once.
SoleRunner ==
  faults.stall = 0 =>
    \A w \in Workers : Busy(w) =>
      /\ status[job[w]] = "running"
      /\ age[job[w]] <= Lease
      /\ \A x \in Workers \ {w} : Busy(x) => job[x] # job[w]

\* on_permanent_failure is called for a job that will never run again
\* (lib.rs, JobHandler): no notified row is waiting, running, or done.
NotifiedIsFinal ==
  faults.stall + faults.store = 0 =>
    \A j \in notified : status[j] \in {"failed", "purged"}

\* A row recorded as failed has been reported to the domain, or is about to
\* be: otherwise the domain stays "generating" for ever (lib.rs, JobHandler).
\* Only a crash between the two steps of run_one can break this.
FailureIsReported ==
  faults.crash = 0 =>
    \A j \in Jobs : status[j] = "failed" =>
      \/ j \in notified
      \/ \E w \in Workers : pc[w] = "notifying" /\ job[w] = j

\* What the domain is told is true: of every permanent failure, of nothing else.
ReportsTrue == NotifiedIsFinal /\ FailureIsReported

\* A job is run at most max_attempts times, plus once for every crash and
\* every lost write that made the reclaim hand it out again.
AttemptsBounded ==
  faults.stall = 0 =>
    \A j \in Jobs : attempts[j] <= MaxAttempts + faults.crash + faults.store

\* A row that has reached done or failed only ever leaves it by the purge,
\* unless a lease expired under a living worker.
TerminalIsFinal ==
  [][faults.stall = 0 =>
       \A j \in Jobs : status[j] \in Terminal => status'[j] \in {status[j], "purged"}]_vars

-----------------------------------------------------------------------------
(* The abstract queue: a row as it is, in the hands of those who are busy  *)
(* with it.                                                                *)
Holders == [j \in Jobs |-> {w \in Workers : Busy(w) /\ job[w] = j}]
SameKey(j, k) == Row[j].key # NoKey /\ Row[j] = Row[k]
Queue == INSTANCE QueuePromise WITH Rivals <- SameKey, state <- status, runners <- Holders

\* While no lease expires under a living worker, the table and its workers do
\* what QueuePromise says: a row is taken by one worker at a time, only that
\* worker settles it, and the reclaim hands out only rows nobody has.
ImplementsPromise ==
  /\ Queue!Init
  /\ [][faults'.stall = 0 => [Queue!Next]_<<status, Holders>>]_vars

\* Where no lease is ever overrun this is the abstract specification itself.
KeepsPromise == Queue!Spec

-----------------------------------------------------------------------------
(* Liveness.                                                               *)

ServersDown == \A w \in Workers : ProcOf[w] \in Servers => pc[w] = "down"

\* Every job that is enqueued while a server stays up comes to an end: none is
\* live for ever, though workers crash with jobs in hand, writes fail and jobs
\* are retried.
EveryJobSettles == \A j \in Jobs : []<>(status[j] \notin Live \/ ServersDown)

\* A drain returns once nothing is left for it, unless a crash or a lost write
\* has left a row running and no server is up whose reclaim would find it.
DrainEnds ==
  \A w \in {v \in Workers : ProcOf[v] \notin Servers} :
    []<>(pc[w] \in {"exited", "down"} \/ (faults.crash + faults.store > 0 /\ ServersDown))

=============================================================================
