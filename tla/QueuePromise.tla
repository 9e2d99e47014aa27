---------------------------- MODULE QueuePromise ----------------------------
(***************************************************************************)
(* What the job queue promises to the parts that use it, without table,    *)
(* timers or polling: a job is submitted, taken by one worker at a time,   *)
(* settled by the worker that took it, and handed out again only when its  *)
(* worker has let go of it without an outcome.  JobQueue implements it.    *)
(***************************************************************************)
EXTENDS FiniteSets

CONSTANTS Jobs, Workers, Rivals(_, _)

VARIABLES
  state,   \* job -> where it is
  runners  \* job -> the workers that have it

promiseVars == <<state, runners>>

Waiting == "pending"
Over == {"done", "failed"}

Init ==
  /\ state = [j \in Jobs |-> "absent"]
  /\ runners = [j \in Jobs |-> {}]

\* A job is accepted unless a rival of it, of the same key, is not over yet.
Submit(j) ==
  /\ state[j] = "absent"
  /\ \A k \in Jobs \ {j} : Rivals(j, k) => state[k] \notin {Waiting, "running"}
  /\ state' = [state EXCEPT ![j] = Waiting]
  /\ UNCHANGED runners

Take(w, j) ==
  /\ state[j] = Waiting /\ runners[j] = {}
  /\ state' = [state EXCEPT ![j] = "running"]
  /\ runners' = [runners EXCEPT ![j] = {w}]

\* The worker's outcome: done, failed for good, or to be tried again.
Settle(w, j) ==
  /\ state[j] = "running" /\ runners[j] = {w}
  /\ \E s \in Over \cup {Waiting} : state' = [state EXCEPT ![j] = s]
  /\ runners' = [runners EXCEPT ![j] = {}]

\* Workers die, or lose the outcome: their jobs stay running without them.
LetGo(W) ==
  /\ runners' = [j \in Jobs |-> runners[j] \ W]
  /\ UNCHANGED state

\* Such jobs are handed out again, and none that a worker has.
Recover(J) ==
  /\ \A j \in J : state[j] = "running" /\ runners[j] = {}
  /\ state' = [j \in Jobs |-> IF j \in J THEN Waiting ELSE state[j]]
  /\ UNCHANGED runners

Forget(J) ==
  /\ \A j \in J : state[j] \in Over
  /\ state' = [j \in Jobs |-> IF j \in J THEN "purged" ELSE state[j]]
  /\ UNCHANGED runners

Next ==
  \/ \E j \in Jobs : Submit(j)
  \/ \E w \in Workers, j \in Jobs : Take(w, j) \/ Settle(w, j)
  \/ \E W \in SUBSET Workers : LetGo(W)
  \/ \E J \in SUBSET Jobs : Recover(J) \/ Forget(J)

Spec == Init /\ [][Next]_promiseVars
=============================================================================
