--------------------------- MODULE JobQueueProofs ---------------------------
(***************************************************************************)
(* Proofs about JobQueue, for every set of rows, workers and processes and *)
(* every bound: type correctness, the uniqueness of live dedup keys, and   *)
(* what holds while no lease expires under a living worker.                *)
(***************************************************************************)
EXTENDS JobQueue, TLAPS

LEMMA BackoffType == ASSUME NEW a \in Nat PROVE BackoffAfter(a) \in Nat
  <1>1. (IF a < 1 THEN 1 ELSE a) \in Nat \ {0}
    OBVIOUS
  <1>2. Lower(IF a < 1 THEN 1 ELSE a, Len(Backoff)) \in 1..Len(Backoff)
    BY <1>1, NumberAssumption DEF Lower
  <1>3. QED
    BY <1>2, NumberAssumption DEF BackoffAfter

\* The columns and the workers' records keep their types.
THEOREM TypeCorrect == Spec => []TypeOK
  <1> USE DEF TypeOK, Status, PCs, BusyAt, RestAt, Busy
  <1>1. Init => TypeOK
    BY DEF Init
  <1>2. TypeOK /\ [Next]_vars => TypeOK'
    <2> SUFFICES ASSUME TypeOK, [Next]_vars PROVE TypeOK'
      OBVIOUS
    <2>1. ASSUME NEW j \in Jobs, Enqueue(j) PROVE TypeOK'
      BY <2>1 DEF Enqueue
    <2>2. ASSUME NEW p \in Procs, Start(p) PROVE TypeOK'
      BY <2>2 DEF Start, rowVars
    <2>3. ASSUME NEW p \in Procs, Crash(p) PROVE TypeOK'
      BY <2>3 DEF Crash, rowVars
    <2>4. ASSUME NEW w \in Workers, BootReclaim(w) PROVE TypeOK'
      BY <2>4 DEF BootReclaim, ReclaimStalled
    <2>5. ASSUME NEW w \in Workers, PeriodicReclaim(w) PROVE TypeOK'
      BY <2>5 DEF PeriodicReclaim, ReclaimStalled
    <2>6. ASSUME NEW w \in Workers, NEW j \in Jobs, ClaimNext(w, j) PROVE TypeOK'
      BY <2>6 DEF ClaimNext, GoTo
    <2>7. ASSUME NEW w \in Workers, HandlerReturns(w) PROVE TypeOK'
      BY <2>7 DEF HandlerReturns, GoTo, rowVars
    <2>8. ASSUME NEW w \in Workers, MarkDone(w) PROVE TypeOK'
      BY <2>8 DEF MarkDone, SetRow, Rest, GoTo
    <2>9. ASSUME NEW w \in Workers, MarkFailedPermanent(w) PROVE TypeOK'
      BY <2>9 DEF MarkFailedPermanent, SetRow, GoTo
    <2>10. ASSUME NEW w \in Workers, ReadAttempts(w) PROVE TypeOK'
      BY <2>10 DEF ReadAttempts, Rest, GoTo, rowVars
    <2>11. ASSUME NEW w \in Workers, MarkFailedRetry(w) PROVE TypeOK'
      <3>1. BackoffAfter(seen[w]) \in Nat
        BY BackoffType
      <3>2. QED
        BY <2>11, <3>1 DEF MarkFailedRetry, SetRow, Rest, GoTo
    <2>12. ASSUME NEW w \in Workers, OnPermanentFailure(w) PROVE TypeOK'
      BY <2>12 DEF OnPermanentFailure, Rest, GoTo, rowVars
    <2>13. ASSUME NEW w \in Workers, DrainReturns(w) PROVE TypeOK'
      BY <2>13 DEF DrainReturns, GoTo, rowVars
    <2>14. ASSUME NEW w \in Workers, PurgeFinished(w) PROVE TypeOK'
      BY <2>14 DEF PurgeFinished
    <2>15. ASSUME NEW w \in Workers, StoreError(w) PROVE TypeOK'
      BY <2>15 DEF StoreError, Rest, GoTo, rowVars
    <2>16. ASSUME Tick PROVE TypeOK'
      <3>1. faults' \in [crash: Nat, stall: Nat, store: Nat]
        BY <2>16 DEF Tick
      <3>2. delay' \in [Jobs -> Int]
        BY <2>16 DEF Tick
      <3>3. AgeCap \in Nat
        BY NumberAssumption DEF AgeCap
      <3>4. age' \in [Jobs -> Nat]
        BY <2>16, <3>3 DEF Tick, Lower
      <3>5. QED
        BY <2>16, <3>1, <3>2, <3>4 DEF Tick
    <2>17. CASE UNCHANGED vars
      BY <2>17 DEF vars
    <2>18. QED
      BY <2>1, <2>2, <2>3, <2>4, <2>5, <2>6, <2>7, <2>8, <2>9, <2>10, <2>11,
         <2>12, <2>13, <2>14, <2>15, <2>16, <2>17 DEF Next, WorkerStep
  <1>3. QED
    BY <1>1, <1>2, PTL DEF Spec

-----------------------------------------------------------------------------
\* No two live rows share a kind and a dedup key: the index is consulted by
\* both statements that make a row live, and nothing else does.
THEOREM DedupHolds == Spec => []OneLivePerKey
  <1> USE DEF OneLivePerKey, Live
  <1>1. Init => OneLivePerKey
    BY DEF Init
  <1>2. TypeOK /\ OneLivePerKey /\ [Next]_vars => OneLivePerKey'
    <2> SUFFICES ASSUME TypeOK, OneLivePerKey, [Next]_vars PROVE OneLivePerKey'
      OBVIOUS
    <2> USE DEF TypeOK, rowVars, Busy, BusyAt
    <2>1. ASSUME NEW j \in Jobs, Enqueue(j) PROVE OneLivePerKey'
      BY <2>1 DEF Enqueue, IndexAdmits
    <2>2. ASSUME NEW p \in Procs, Start(p) PROVE OneLivePerKey'
      BY <2>2 DEF Start
    <2>3. ASSUME NEW p \in Procs, Crash(p) PROVE OneLivePerKey'
      BY <2>3 DEF Crash
    <2>4. ASSUME NEW w \in Workers, BootReclaim(w) PROVE OneLivePerKey'
      BY <2>4 DEF BootReclaim, ReclaimStalled, Stalled
    <2>5. ASSUME NEW w \in Workers, PeriodicReclaim(w) PROVE OneLivePerKey'
      BY <2>5 DEF PeriodicReclaim, ReclaimStalled, Stalled
    <2>6. ASSUME NEW w \in Workers, NEW j \in Jobs, ClaimNext(w, j) PROVE OneLivePerKey'
      BY <2>6 DEF ClaimNext, Eligible, GoTo
    <2>7. ASSUME NEW w \in Workers, HandlerReturns(w) PROVE OneLivePerKey'
      BY <2>7 DEF HandlerReturns, GoTo
    <2>8. ASSUME NEW w \in Workers, MarkDone(w) PROVE OneLivePerKey'
      BY <2>8 DEF MarkDone, SetRow, Rest, GoTo
    <2>9. ASSUME NEW w \in Workers, MarkFailedPermanent(w) PROVE OneLivePerKey'
      BY <2>9 DEF MarkFailedPermanent, SetRow, GoTo
    <2>10. ASSUME NEW w \in Workers, ReadAttempts(w) PROVE OneLivePerKey'
      BY <2>10 DEF ReadAttempts, Rest, GoTo
    <2>11. ASSUME NEW w \in Workers, MarkFailedRetry(w) PROVE OneLivePerKey'
      BY <2>11 DEF MarkFailedRetry, IndexAdmits, SetRow
    <2>12. ASSUME NEW w \in Workers, OnPermanentFailure(w) PROVE OneLivePerKey'
      BY <2>12 DEF OnPermanentFailure, Rest, GoTo
    <2>13. ASSUME NEW w \in Workers, DrainReturns(w) PROVE OneLivePerKey'
      BY <2>13 DEF DrainReturns, GoTo
    <2>14. ASSUME NEW w \in Workers, PurgeFinished(w) PROVE OneLivePerKey'
      BY <2>14 DEF PurgeFinished
    <2>15. ASSUME NEW w \in Workers, StoreError(w) PROVE OneLivePerKey'
      BY <2>15 DEF StoreError, Rest, GoTo
    <2>16. ASSUME Tick PROVE OneLivePerKey'
      BY <2>16 DEF Tick
    <2>17. CASE UNCHANGED vars
      BY <2>17 DEF vars
    <2>18. QED
      BY <2>1, <2>2, <2>3, <2>4, <2>5, <2>6, <2>7, <2>8, <2>9,
         <2>10, <2>11, <2>12, <2>13, <2>14, <2>15, <2>16, <2>17 DEF Next, WorkerStep
  <1>3. QED
    BY <1>1, <1>2, TypeCorrect, PTL DEF Spec

\* While no lease expires under a living worker, a job is in the hands of at
\* most one worker, whatever crashes and whatever writes fail.
THEOREM OneRunner == Spec => []SoleRunner
  <1> USE DEF SoleRunner, Busy, BusyAt
  <1>1. Init => SoleRunner
    BY DEF Init
  <1>2. TypeOK /\ SoleRunner /\ [Next]_vars => SoleRunner'
    <2> SUFFICES ASSUME TypeOK, SoleRunner, [Next]_vars, faults'.stall = 0
                 PROVE (\A w \in Workers : Busy(w) =>
                         /\ status[job[w]] = "running"
                         /\ age[job[w]] <= Lease
                         /\ \A x \in Workers \ {w} : Busy(x) => job[x] # job[w])'
      OBVIOUS
    <2> DEFINE Sole == \A w \in Workers : Busy(w) =>
                         /\ status[job[w]] = "running"
                         /\ age[job[w]] <= Lease
                         /\ \A x \in Workers \ {w} : Busy(x) => job[x] # job[w]
    <2> SUFFICES Sole'
      OBVIOUS
    <2> USE DEF TypeOK, rowVars
    <2> USE NumberAssumption
    <2>1. ASSUME NEW j \in Jobs, Enqueue(j) PROVE Sole'
      BY <2>1 DEF Enqueue
    <2>2. ASSUME NEW p \in Procs, Start(p) PROVE Sole'
      BY <2>2 DEF Start
    <2>3. ASSUME NEW p \in Procs, Crash(p) PROVE Sole'
      BY <2>3 DEF Crash
    <2>4. ASSUME NEW w \in Workers, BootReclaim(w) PROVE Sole'
      BY <2>4 DEF BootReclaim, ReclaimStalled, Stalled
    <2>5. ASSUME NEW w \in Workers, PeriodicReclaim(w) PROVE Sole'
      BY <2>5 DEF PeriodicReclaim, ReclaimStalled, Stalled
    <2>6. ASSUME NEW w \in Workers, NEW j \in Jobs, ClaimNext(w, j) PROVE Sole'
      BY <2>6 DEF ClaimNext, Eligible, GoTo
    <2>7. ASSUME NEW w \in Workers, HandlerReturns(w) PROVE Sole'
      BY <2>7 DEF HandlerReturns, GoTo
    <2>8. ASSUME NEW w \in Workers, MarkDone(w) PROVE Sole'
      BY <2>8 DEF MarkDone, SetRow, Rest, GoTo
    <2>9. ASSUME NEW w \in Workers, MarkFailedPermanent(w) PROVE Sole'
      BY <2>9 DEF MarkFailedPermanent, SetRow, GoTo
    <2>10. ASSUME NEW w \in Workers, ReadAttempts(w) PROVE Sole'
      BY <2>10 DEF ReadAttempts, Rest, GoTo
    <2>11. ASSUME NEW w \in Workers, MarkFailedRetry(w) PROVE Sole'
      BY <2>11 DEF MarkFailedRetry, SetRow, Rest, GoTo
    <2>12. ASSUME NEW w \in Workers, OnPermanentFailure(w) PROVE Sole'
      BY <2>12 DEF OnPermanentFailure, Rest, GoTo
    <2>13. ASSUME NEW w \in Workers, DrainReturns(w) PROVE Sole'
      BY <2>13 DEF DrainReturns, GoTo
    <2>14. ASSUME NEW w \in Workers, PurgeFinished(w) PROVE Sole'
      BY <2>14 DEF PurgeFinished, Expired, Terminal
    <2>15. ASSUME NEW w \in Workers, StoreError(w) PROVE Sole'
      <3>1. faults.stall = 0
        BY <2>15 DEF StoreError
      <3>2. Sole
        BY <3>1
      <3>3. UNCHANGED <<status, age>> /\ ~Busy(w)'
        BY <2>15 DEF StoreError, Rest, GoTo
      <3>4. \A x \in Workers \ {w} : pc'[x] = pc[x] /\ job'[x] = job[x]
        BY <2>15 DEF StoreError, Rest, GoTo
      <3>5. ASSUME NEW x \in Workers, Busy(x)' PROVE x # w /\ Busy(x) /\ job'[x] = job[x]
        BY <3>3, <3>4, <3>5
      <3>6. QED
        BY <3>2, <3>3, <3>5
    <2>16. ASSUME Tick PROVE Sole'
      <3>1. faults.stall = 0 /\ Overrun = {}
        BY <2>16 DEF Tick
      <3>2. \A w \in Workers : Busy(w) => age[job[w]] < Lease
        BY <3>1 DEF Overrun
      <3>3. ASSUME NEW j \in Jobs, age[j] < Lease PROVE age'[j] <= Lease
        <4>1. AgeCap \in Nat /\ Lease < AgeCap
          BY DEF AgeCap
        <4>2. age'[j] = age[j] \/ age'[j] = Lower(age[j] + 1, AgeCap)
          BY <2>16 DEF Tick
        <4>3. QED
          BY <3>3, <4>1, <4>2 DEF Lower
      <3>4. UNCHANGED <<status, pc, job>>
        BY <2>16 DEF Tick
      <3>5. QED
        BY <3>1, <3>2, <3>3, <3>4
    <2>17. CASE UNCHANGED vars
      BY <2>17 DEF vars
    <2>18. QED
      BY <2>1, <2>2, <2>3, <2>4, <2>5, <2>6, <2>7, <2>8, <2>9,
         <2>10, <2>11, <2>12, <2>13, <2>14, <2>15, <2>16, <2>17 DEF Next, WorkerStep
  <1>3. QED
    BY <1>1, <1>2, TypeCorrect, PTL DEF Spec

\* A fault that has happened is never forgotten.
LEMMA FaultsGrow ==
  ASSUME TypeOK, [Next]_vars
  PROVE  /\ faults' \in [crash: Nat, stall: Nat, store: Nat]
         /\ faults.crash <= faults'.crash
         /\ faults.stall <= faults'.stall
         /\ faults.store <= faults'.store
  <1> USE DEF TypeOK
  <1>1. CASE UNCHANGED faults
    BY <1>1
  <1>2. ASSUME NEW p \in Procs, Crash(p)
        PROVE  faults' = [faults EXCEPT !.crash = @ + 1]
    BY <1>2 DEF Crash
  <1>3. ASSUME NEW w \in Workers, StoreError(w)
        PROVE  faults' = [faults EXCEPT !.store = @ + 1]
    BY <1>3 DEF StoreError
  <1>4. ASSUME Tick
        PROVE  faults' = [faults EXCEPT !.stall = @ + 1] \/ UNCHANGED faults
    BY <1>4 DEF Tick
  <1>5. \/ UNCHANGED faults
        \/ faults' = [faults EXCEPT !.crash = @ + 1]
        \/ faults' = [faults EXCEPT !.store = @ + 1]
        \/ faults' = [faults EXCEPT !.stall = @ + 1]
    BY <1>2, <1>3, <1>4
       DEF Next, WorkerStep, vars, Enqueue, Start, BootReclaim, PeriodicReclaim,
           ClaimNext, HandlerReturns, MarkDone, MarkFailedPermanent, ReadAttempts,
           MarkFailedRetry, OnPermanentFailure, DrainReturns, PurgeFinished
  <1>6. QED
    BY <1>1, <1>5

-----------------------------------------------------------------------------
\* What NotifyInv adds to NotifiedIsFinal to be inductive: a worker that is
\* about to call on_permanent_failure has seen its row recorded as failed.
Settled(j) == status[j] \in {"failed", "purged"}
NotifyInv ==
  faults.stall + faults.store = 0 =>
    /\ \A j \in notified : Settled(j)
    /\ \A w \in Workers : pc[w] = "notifying" => Settled(job[w])

\* A notified job is never run again while leases hold and writes succeed.
THEOREM NotifiedJobsRest == Spec => []NotifiedIsFinal
  <1> USE DEF Settled
  <1>1. Init => NotifyInv
    BY DEF Init, NotifyInv
  <1>2. TypeOK /\ SoleRunner /\ NotifyInv /\ [Next]_vars => NotifyInv'
    <2> SUFFICES ASSUME TypeOK, SoleRunner, NotifyInv, [Next]_vars,
                        faults'.stall + faults'.store = 0
                 PROVE (/\ \A j \in notified : Settled(j)
                        /\ \A w \in Workers : pc[w] = "notifying" => Settled(job[w]))'
      BY DEF NotifyInv
    <2> DEFINE Quiet == /\ \A j \in notified : Settled(j)
                        /\ \A w \in Workers : pc[w] = "notifying" => Settled(job[w])
    <2> SUFFICES Quiet'
      OBVIOUS
    <2>a. faults.stall = 0 /\ faults.store = 0
      <3>1. faults.stall \in Nat /\ faults.store \in Nat
            /\ faults'.stall \in Nat /\ faults'.store \in Nat
        BY FaultsGrow DEF TypeOK
      <3>2. QED
        BY <3>1, FaultsGrow
    <2>b. Quiet
      BY <2>a DEF NotifyInv
    <2>c. \A w \in Workers : Busy(w) => status[job[w]] = "running"
      BY <2>a DEF SoleRunner
    <2> USE <2>b, <2>c DEF TypeOK, rowVars, Busy, BusyAt
    <2>1. ASSUME NEW j \in Jobs, Enqueue(j) PROVE Quiet'
      BY <2>1 DEF Enqueue
    <2>2. ASSUME NEW p \in Procs, Start(p) PROVE Quiet'
      BY <2>2 DEF Start
    <2>3. ASSUME NEW p \in Procs, Crash(p) PROVE Quiet'
      BY <2>3 DEF Crash
    <2>4. ASSUME NEW w \in Workers, BootReclaim(w) PROVE Quiet'
      BY <2>4 DEF BootReclaim, ReclaimStalled, Stalled
    <2>5. ASSUME NEW w \in Workers, PeriodicReclaim(w) PROVE Quiet'
      BY <2>5 DEF PeriodicReclaim, ReclaimStalled, Stalled
    <2>6. ASSUME NEW w \in Workers, NEW j \in Jobs, ClaimNext(w, j) PROVE Quiet'
      BY <2>6 DEF ClaimNext, Eligible, GoTo
    <2>7. ASSUME NEW w \in Workers, HandlerReturns(w) PROVE Quiet'
      BY <2>7 DEF HandlerReturns, GoTo
    <2>8. ASSUME NEW w \in Workers, MarkDone(w) PROVE Quiet'
      BY <2>8 DEF MarkDone, SetRow, Rest, GoTo
    <2>9. ASSUME NEW w \in Workers, MarkFailedPermanent(w) PROVE Quiet'
      BY <2>9 DEF MarkFailedPermanent, SetRow, GoTo
    <2>10. ASSUME NEW w \in Workers, ReadAttempts(w) PROVE Quiet'
      BY <2>10 DEF ReadAttempts, Rest, GoTo
    <2>11. ASSUME NEW w \in Workers, MarkFailedRetry(w) PROVE Quiet'
      BY <2>11 DEF MarkFailedRetry, SetRow, Rest, GoTo
    <2>12. ASSUME NEW w \in Workers, OnPermanentFailure(w) PROVE Quiet'
      BY <2>12 DEF OnPermanentFailure, Rest, GoTo
    <2>13. ASSUME NEW w \in Workers, DrainReturns(w) PROVE Quiet'
      BY <2>13 DEF DrainReturns, GoTo
    <2>14. ASSUME NEW w \in Workers, PurgeFinished(w) PROVE Quiet'
      BY <2>14 DEF PurgeFinished, Expired, Terminal
    <2>15. ASSUME NEW w \in Workers, StoreError(w) PROVE Quiet'
      BY <2>15 DEF StoreError, Rest, GoTo
    <2>16. ASSUME Tick PROVE Quiet'
      BY <2>16 DEF Tick
    <2>17. CASE UNCHANGED vars
      BY <2>17 DEF vars
    <2>18. QED
      BY <2>1, <2>2, <2>3, <2>4, <2>5, <2>6, <2>7, <2>8, <2>9,
         <2>10, <2>11, <2>12, <2>13, <2>14, <2>15, <2>16, <2>17 DEF Next, WorkerStep
  <1>3. NotifyInv => NotifiedIsFinal
    BY DEF NotifyInv, NotifiedIsFinal
  <1>4. QED
    BY <1>1, <1>2, <1>3, TypeCorrect, OneRunner, PTL DEF Spec

\* While no lease expires under a living worker, what is done stays done and
\* what has failed stays failed, until the purge.
THEOREM TerminalRowsStay == Spec => TerminalIsFinal
  <1> DEFINE Kept == faults.stall = 0 =>
               \A j \in Jobs : status[j] \in Terminal => status'[j] \in {status[j], "purged"}
  <1>1. TypeOK /\ SoleRunner /\ [Next]_vars => Kept
    <2> SUFFICES ASSUME TypeOK, SoleRunner, [Next]_vars, faults.stall = 0
                 PROVE Kept
      OBVIOUS
    <2>a. \A w \in Workers : Busy(w) => status[job[w]] = "running"
      BY DEF SoleRunner
    <2> USE <2>a DEF TypeOK, rowVars, Busy, BusyAt, Terminal
    <2>1. ASSUME NEW j \in Jobs, Enqueue(j) PROVE Kept
      BY <2>1 DEF Enqueue
    <2>2. ASSUME NEW p \in Procs, Start(p) PROVE Kept
      BY <2>2 DEF Start
    <2>3. ASSUME NEW p \in Procs, Crash(p) PROVE Kept
      BY <2>3 DEF Crash
    <2>4. ASSUME NEW w \in Workers, BootReclaim(w) PROVE Kept
      BY <2>4 DEF BootReclaim, ReclaimStalled, Stalled
    <2>5. ASSUME NEW w \in Workers, PeriodicReclaim(w) PROVE Kept
      BY <2>5 DEF PeriodicReclaim, ReclaimStalled, Stalled
    <2>6. ASSUME NEW w \in Workers, NEW j \in Jobs, ClaimNext(w, j) PROVE Kept
      BY <2>6 DEF ClaimNext, Eligible, GoTo
    <2>7. ASSUME NEW w \in Workers, HandlerReturns(w) PROVE Kept
      BY <2>7 DEF HandlerReturns, GoTo
    <2>8. ASSUME NEW w \in Workers, MarkDone(w) PROVE Kept
      BY <2>8 DEF MarkDone, SetRow, Rest, GoTo
    <2>9. ASSUME NEW w \in Workers, MarkFailedPermanent(w) PROVE Kept
      BY <2>9 DEF MarkFailedPermanent, SetRow, GoTo
    <2>10. ASSUME NEW w \in Workers, ReadAttempts(w) PROVE Kept
      BY <2>10 DEF ReadAttempts, Rest, GoTo
    <2>11. ASSUME NEW w \in Workers, MarkFailedRetry(w) PROVE Kept
      BY <2>11 DEF MarkFailedRetry, SetRow, Rest, GoTo
    <2>12. ASSUME NEW w \in Workers, OnPermanentFailure(w) PROVE Kept
      BY <2>12 DEF OnPermanentFailure, Rest, GoTo
    <2>13. ASSUME NEW w \in Workers, DrainReturns(w) PROVE Kept
      BY <2>13 DEF DrainReturns, GoTo
    <2>14. ASSUME NEW w \in Workers, PurgeFinished(w) PROVE Kept
      BY <2>14 DEF PurgeFinished, Expired, Terminal
    <2>15. ASSUME NEW w \in Workers, StoreError(w) PROVE Kept
      BY <2>15 DEF StoreError, Rest, GoTo
    <2>16. ASSUME Tick PROVE Kept
      BY <2>16 DEF Tick
    <2>17. CASE UNCHANGED vars
      BY <2>17 DEF vars
    <2>18. QED
      BY <2>1, <2>2, <2>3, <2>4, <2>5, <2>6, <2>7, <2>8, <2>9,
         <2>10, <2>11, <2>12, <2>13, <2>14, <2>15, <2>16, <2>17 DEF Next, WorkerStep
  <1>2. TypeOK /\ SoleRunner /\ [Next]_vars => [Kept]_vars
    BY <1>1
  <1>3. QED
    BY <1>2, TypeCorrect, OneRunner, PTL DEF Spec, TerminalIsFinal

\* Without a crash, every recorded failure reaches the domain or is on its way.
THEOREM FailuresAreReported == Spec => []FailureIsReported
  <1>1. Init => FailureIsReported
    BY DEF Init, FailureIsReported
  <1>2. TypeOK /\ FailureIsReported /\ [Next]_vars => FailureIsReported'
    <2> SUFFICES ASSUME TypeOK, FailureIsReported, [Next]_vars
                 PROVE FailureIsReported'
      OBVIOUS
    <2> USE DEF FailureIsReported, TypeOK, rowVars
    <2>1. ASSUME NEW j \in Jobs, Enqueue(j) PROVE FailureIsReported'
      BY <2>1 DEF Enqueue
    <2>2. ASSUME NEW p \in Procs, Start(p) PROVE FailureIsReported'
      BY <2>2 DEF Start
    <2>3. ASSUME NEW p \in Procs, Crash(p) PROVE FailureIsReported'
      BY <2>3 DEF Crash
    <2>4. ASSUME NEW w \in Workers, BootReclaim(w) PROVE FailureIsReported'
      BY <2>4 DEF BootReclaim, ReclaimStalled, Stalled
    <2>5. ASSUME NEW w \in Workers, PeriodicReclaim(w) PROVE FailureIsReported'
      BY <2>5 DEF PeriodicReclaim, ReclaimStalled, Stalled
    <2>6. ASSUME NEW w \in Workers, NEW j \in Jobs, ClaimNext(w, j) PROVE FailureIsReported'
      BY <2>6 DEF ClaimNext, Eligible, GoTo
    <2>7. ASSUME NEW w \in Workers, HandlerReturns(w) PROVE FailureIsReported'
      BY <2>7 DEF HandlerReturns, GoTo
    <2>8. ASSUME NEW w \in Workers, MarkDone(w) PROVE FailureIsReported'
      BY <2>8 DEF MarkDone, SetRow, Rest, GoTo
    <2>9. ASSUME NEW w \in Workers, MarkFailedPermanent(w) PROVE FailureIsReported'
      BY <2>9 DEF MarkFailedPermanent, SetRow, GoTo
    <2>10. ASSUME NEW w \in Workers, ReadAttempts(w) PROVE FailureIsReported'
      BY <2>10 DEF ReadAttempts, Rest, GoTo
    <2>11. ASSUME NEW w \in Workers, MarkFailedRetry(w) PROVE FailureIsReported'
      BY <2>11 DEF MarkFailedRetry, SetRow, Rest, GoTo
    <2>12. ASSUME NEW w \in Workers, OnPermanentFailure(w) PROVE FailureIsReported'
      BY <2>12 DEF OnPermanentFailure, Rest, GoTo
    <2>13. ASSUME NEW w \in Workers, DrainReturns(w) PROVE FailureIsReported'
      BY <2>13 DEF DrainReturns, GoTo
    <2>14. ASSUME NEW w \in Workers, PurgeFinished(w) PROVE FailureIsReported'
      BY <2>14 DEF PurgeFinished, Expired, Terminal
    <2>15. ASSUME NEW w \in Workers, StoreError(w) PROVE FailureIsReported'
      <3>1. UNCHANGED <<status, notified>> /\ faults'.crash = faults.crash
        BY <2>15 DEF StoreError
      <3>2. \A x \in Workers : pc[x] = "notifying" => pc'[x] = "notifying" /\ job'[x] = job[x]
        BY <2>15 DEF StoreError, Rest, GoTo, Busy, BusyAt
      <3>3. QED
        BY <3>1, <3>2
    <2>16. ASSUME Tick PROVE FailureIsReported'
      BY <2>16 DEF Tick
    <2>17. CASE UNCHANGED vars
      BY <2>17 DEF vars
    <2>18. QED
      BY <2>1, <2>2, <2>3, <2>4, <2>5, <2>6, <2>7, <2>8, <2>9,
         <2>10, <2>11, <2>12, <2>13, <2>14, <2>15, <2>16, <2>17 DEF Next, WorkerStep
  <1>3. QED
    BY <1>1, <1>2, TypeCorrect, PTL DEF Spec


-----------------------------------------------------------------------------
\* What AttemptsInv adds to AttemptsBounded to be inductive: whatever may be
\* claimed again has an attempt left, or a fault to show for it.
Allowance == MaxAttempts + faults.crash + faults.store
Spare(j) == attempts[j] < Allowance
InHand(j) == \E w \in Workers : Busy(w) /\ job[w] = j
AttemptsInv ==
  faults.stall = 0 =>
    /\ \A j \in Jobs : attempts[j] <= Allowance
    /\ \A j \in Jobs : status[j] = "absent" => attempts[j] = 0
    /\ \A j \in Jobs : status[j] = "pending" => Spare(j)
    /\ \A j \in Jobs : status[j] = "running" => Spare(j) \/ InHand(j)
    /\ \A w \in Workers : pc[w] = "backingoff" => Spare(job[w])

\* No job is run more often than max_attempts and the faults that hit it allow.
THEOREM AttemptsAreBounded == Spec => []AttemptsBounded
  <1>1. Init => AttemptsInv
    BY NumberAssumption DEF Init, AttemptsInv, Allowance, Spare
  <1>2. TypeOK /\ SoleRunner /\ AttemptsInv /\ [Next]_vars => AttemptsInv'
    <2> SUFFICES ASSUME TypeOK, SoleRunner, AttemptsInv, [Next]_vars, faults'.stall = 0
                 PROVE (/\ \A j \in Jobs : attempts[j] <= Allowance
                        /\ \A j \in Jobs : status[j] = "absent" => attempts[j] = 0
                        /\ \A j \in Jobs : status[j] = "pending" => Spare(j)
                        /\ \A j \in Jobs : status[j] = "running" => Spare(j) \/ InHand(j)
                        /\ \A w \in Workers : pc[w] = "backingoff" => Spare(job[w]))'
      BY DEF AttemptsInv
    <2> DEFINE Bounded ==
                 /\ \A j \in Jobs : attempts[j] <= Allowance
                 /\ \A j \in Jobs : status[j] = "absent" => attempts[j] = 0
                 /\ \A j \in Jobs : status[j] = "pending" => Spare(j)
                 /\ \A j \in Jobs : status[j] = "running" => Spare(j) \/ InHand(j)
                 /\ \A w \in Workers : pc[w] = "backingoff" => Spare(job[w])
    <2> SUFFICES Bounded'
      OBVIOUS
    <2>a. faults.stall = 0
      <3>1. faults.stall \in Nat /\ faults'.stall \in Nat
        BY FaultsGrow DEF TypeOK
      <3>2. QED
        BY <3>1, FaultsGrow
    <2>b. Bounded
      BY <2>a DEF AttemptsInv
    <2>c. \A w \in Workers : Busy(w) =>
            /\ status[job[w]] = "running" /\ age[job[w]] <= Lease
            /\ \A x \in Workers \ {w} : Busy(x) => job[x] # job[w]
      BY <2>a DEF SoleRunner
    <2>d. Allowance \in Nat /\ Allowance' \in Nat /\ Allowance <= Allowance'
      <3>1. MaxAttempts \in Nat
        BY NumberAssumption
      <3>2. /\ faults.crash \in Nat /\ faults.store \in Nat
            /\ faults'.crash \in Nat /\ faults'.store \in Nat
            /\ faults.crash <= faults'.crash /\ faults.store <= faults'.store
        BY FaultsGrow DEF TypeOK
      <3>3. QED
        BY <3>1, <3>2 DEF Allowance
    <2>e. \A j \in Jobs : attempts[j] \in Nat
      BY DEF TypeOK
    \* A step that leaves the table alone and lets go of nothing.
    <2>k. ASSUME UNCHANGED <<status, attempts>>, \A j \in Jobs : InHand(j) => InHand(j)',
                 \A w \in Workers : pc'[w] = "backingoff" => pc[w] = "backingoff" /\ job'[w] = job[w]
          PROVE Bounded'
      <3>1. \A j \in Jobs : Spare(j) => Spare(j)'
        BY <2>d, <2>e, <2>k DEF Spare
      <3>2. \A w \in Workers : pc[w] = "backingoff" => job[w] \in Jobs
        BY DEF TypeOK, Busy, BusyAt
      <3>3. QED
        BY <2>b, <2>d, <2>e, <2>k, <3>1, <3>2
    \* A fault: the allowance grows by one, and every job has some to spare.
    <2>f. ASSUME UNCHANGED <<status, attempts>>, Allowance' = Allowance + 1,
                 \A w \in Workers : pc'[w] = "backingoff" => job'[w] \in Jobs
          PROVE Bounded'
      <3>1. \A j \in Jobs : Spare(j)'
        BY <2>b, <2>d, <2>e, <2>f DEF Spare
      <3>2. QED
        BY <2>b, <2>d, <2>e, <2>f, <3>1
    \* A row is taken from its worker, or out of the queue, with some to spare
    \* if it may run again.
    <2>s. ASSUME UNCHANGED attempts, UNCHANGED faults,
                 NEW w \in Workers, NEW s \in {"pending", "done", "failed"}, NEW d, Busy(w),
                 s = "pending" => Spare(job[w]),
                 SetRow(job[w], s, d), pc'[w] # "backingoff",
                 \A x \in Workers \ {w} : pc'[x] = pc[x] /\ job'[x] = job[x]
          PROVE Bounded'
      <3>1. job[w] \in Jobs /\ status' = [status EXCEPT ![job[w]] = s]
        BY <2>c, <2>s DEF SetRow, TypeOK
      <3>2. Allowance' = Allowance /\ \A j \in Jobs : Spare(j)' <=> Spare(j)
        BY <2>s DEF Allowance, Spare
      <3>3. \A j \in Jobs \ {job[w]} : InHand(j) => InHand(j)'
        BY <2>s DEF InHand, Busy
      <3>4. \A x \in Workers : pc[x] = "backingoff" => job[x] \in Jobs
        BY DEF TypeOK, Busy, BusyAt
      <3>5. status \in [Jobs -> Status]
        BY DEF TypeOK
      <3>6. \A x \in Workers : pc'[x] = "backingoff" => Spare(job[x])'
        <4> SUFFICES ASSUME NEW x \in Workers, pc'[x] = "backingoff"
                     PROVE Spare(job[x])'
          OBVIOUS
        <4>1. x # w /\ pc[x] = "backingoff" /\ job'[x] = job[x] /\ job[x] \in Jobs
          BY <2>s, <3>4
        <4>2. QED
          BY <2>b, <3>2, <4>1
      <3>7. QED
        BY <2>b, <2>s, <3>1, <3>2, <3>3, <3>5, <3>6
    <2>1. ASSUME NEW j \in Jobs, Enqueue(j) PROVE Bounded'
      <3>1. UNCHANGED <<attempts, Allowance, pc, job>> /\ status' = [status EXCEPT ![j] = "pending"]
            /\ status[j] = "absent"
        BY <2>1 DEF Enqueue, Allowance
      <3>2. Spare(j) /\ \A k \in Jobs : (Spare(k)' <=> Spare(k)) /\ (InHand(k)' <=> InHand(k))
        BY <2>b, <2>d, <3>1, NumberAssumption DEF Spare, InHand, Busy, Allowance, TypeOK
      <3>3. \A x \in Workers : pc[x] = "backingoff" => job[x] \in Jobs
        BY DEF TypeOK, Busy, BusyAt
      <3>4. QED
        BY <2>b, <3>1, <3>2, <3>3 DEF TypeOK
    <2>2. ASSUME NEW p \in Procs, Start(p) PROVE Bounded'
      BY <2>2, <2>k DEF Start, rowVars, InHand, Busy, BusyAt, TypeOK
    <2>3. ASSUME NEW p \in Procs, Crash(p) PROVE Bounded'
      <3>1. UNCHANGED <<status, attempts>> /\ Allowance' = Allowance + 1
        BY <2>3, NumberAssumption DEF Crash, rowVars, Allowance, TypeOK
      <3>2. \A w \in Workers : pc'[w] = "backingoff" => job'[w] \in Jobs
        BY <2>3 DEF Crash, TypeOK, Busy, BusyAt
      <3>3. QED
        BY <2>f, <3>1, <3>2
    <2>r. ASSUME ReclaimStalled, UNCHANGED <<attempts, faults, job>>,
                 \A w \in Workers : (pc'[w] = pc[w]) \/ (pc[w] \notin BusyAt /\ pc'[w] = "idle")
          PROVE Bounded'
      <3>1. \A j \in Stalled : ~InHand(j)
        BY <2>c, NumberAssumption DEF Stalled, InHand, TypeOK
      <3>2. Allowance' = Allowance /\ \A j \in Jobs : Spare(j)' <=> Spare(j)
        BY <2>r DEF Allowance, Spare
      <3>3. \A j \in Stalled : status[j] = "running" /\ Spare(j)
        BY <2>b, <3>1 DEF Stalled
      <3>4. \A j \in Jobs : InHand(j) => InHand(j)'
        BY <2>r DEF InHand, Busy, BusyAt
      <3>5. \A x \in Workers : pc'[x] = "backingoff" => pc[x] = "backingoff" /\ job[x] \in Jobs
        BY <2>r DEF TypeOK, Busy, BusyAt
      <3>6. QED
        BY <2>b, <2>r, <3>2, <3>3, <3>4, <3>5 DEF ReclaimStalled
    <2>4. ASSUME NEW w \in Workers, BootReclaim(w) PROVE Bounded'
      BY <2>4, <2>r DEF BootReclaim, BusyAt, TypeOK
    <2>5. ASSUME NEW w \in Workers, PeriodicReclaim(w) PROVE Bounded'
      BY <2>5, <2>r DEF PeriodicReclaim
    <2>6. ASSUME NEW w \in Workers, NEW j \in Jobs, ClaimNext(w, j) PROVE Bounded'
      <3>1. status[j] = "pending" /\ status' = [status EXCEPT ![j] = "running"]
            /\ attempts' = [attempts EXCEPT ![j] = @ + 1] /\ Allowance' = Allowance
            /\ pc' = [pc EXCEPT ![w] = "handling"] /\ job' = [job EXCEPT ![w] = j]
            /\ pc[w] = "idle"
        BY <2>6 DEF ClaimNext, Eligible, GoTo, Allowance
      <3>2. InHand(j)' /\ \A k \in Jobs \ {j} : InHand(k) => InHand(k)'
        BY <3>1 DEF InHand, Busy, BusyAt, TypeOK
      <3>3. attempts'[j] <= Allowance /\ \A k \in Jobs \ {j} : Spare(k)' <=> Spare(k)
        BY <2>b, <2>d, <2>e, <3>1 DEF Spare, TypeOK
      <3>4. \A x \in Workers : pc'[x] = "backingoff" =>
              /\ pc[x] = "backingoff" /\ job'[x] = job[x]
              /\ job[x] \in Jobs \ {j}
        BY <2>c, <3>1 DEF TypeOK, Busy, BusyAt
      <3>5. QED
        BY <2>b, <2>d, <2>e, <3>1, <3>2, <3>3, <3>4 DEF TypeOK
    <2>7. ASSUME NEW w \in Workers, HandlerReturns(w) PROVE Bounded'
      BY <2>7, <2>k DEF HandlerReturns, GoTo, rowVars, InHand, Busy, BusyAt, TypeOK
    <2>8. ASSUME NEW w \in Workers, MarkDone(w) PROVE Bounded'
      BY <2>8, <2>s DEF MarkDone, Rest, GoTo, Busy, BusyAt, TypeOK
    <2>9. ASSUME NEW w \in Workers, MarkFailedPermanent(w) PROVE Bounded'
      BY <2>9, <2>s DEF MarkFailedPermanent, GoTo, Busy, BusyAt, TypeOK
    <2>10. ASSUME NEW w \in Workers, ReadAttempts(w) PROVE Bounded'
      <3>1. status[job[w]] = "running" /\ job[w] \in Jobs
        BY <2>10, <2>c DEF ReadAttempts, Busy, BusyAt, TypeOK
      <3>2. /\ UNCHANGED <<status, attempts, job, Allowance>>
            /\ \A x \in Workers \ {w} : pc'[x] = pc[x]
            /\ pc'[w] \in BusyAt
            /\ pc'[w] = "backingoff" => attempts[job[w]] < MaxAttempts
        BY <2>10, <2>e, <3>1, NumberAssumption
           DEF ReadAttempts, GoTo, rowVars, BusyAt, TypeOK, Allowance
      <3>3. \A k \in Jobs : (InHand(k) => InHand(k)') /\ (Spare(k)' <=> Spare(k))
        <4>1. \A x \in Workers : Busy(x) => Busy(x)' /\ job'[x] = job[x]
          BY <3>2 DEF Busy
        <4>2. \A k \in Jobs : InHand(k) => InHand(k)'
          BY <4>1 DEF InHand
        <4>3. QED
          BY <3>2, <4>2 DEF Spare
      <3>4. pc'[w] = "backingoff" => Spare(job[w])
        <4>1. MaxAttempts \in Nat /\ MaxAttempts <= Allowance
          BY NumberAssumption DEF Allowance, TypeOK
        <4>2. attempts[job[w]] \in Nat
          BY <2>e, <3>1
        <4>3. QED
          BY <2>d, <3>2, <4>1, <4>2 DEF Spare
      <3>5. \A x \in Workers : pc'[x] = "backingoff" => Spare(job[x])'
        <4> SUFFICES ASSUME NEW x \in Workers, pc'[x] = "backingoff"
                     PROVE Spare(job[x])'
          OBVIOUS
        <4>1. job[x] \in Jobs /\ Spare(job[x])
          <5>1. CASE x = w
            BY <3>1, <3>4, <5>1
          <5>2. CASE x # w
            BY <2>b, <3>2, <5>2 DEF TypeOK, Busy, BusyAt
          <5>3. QED
            BY <5>1, <5>2
        <4>2. QED
          BY <3>2, <3>3, <4>1
      <3>6. QED
        BY <2>b, <3>2, <3>3, <3>5
    <2>11. ASSUME NEW w \in Workers, MarkFailedRetry(w) PROVE Bounded'
      <3>1. pc[w] = "backingoff" /\ Busy(w) /\ Spare(job[w])
        BY <2>11, <2>b DEF MarkFailedRetry, Busy, BusyAt
      <3>2. /\ pc'[w] = "idle" /\ UNCHANGED attempts /\ UNCHANGED faults
            /\ \A x \in Workers \ {w} : pc'[x] = pc[x] /\ job'[x] = job[x]
        BY <2>11 DEF MarkFailedRetry, Rest, GoTo, TypeOK
      <3>3. CASE IndexAdmits(job[w])
        BY <2>11, <2>s, <3>1, <3>2, <3>3 DEF MarkFailedRetry
      <3>4. CASE ~IndexAdmits(job[w])
        <4>1. UNCHANGED <<status, attempts, Allowance>>
          BY <2>11, <3>4 DEF MarkFailedRetry, Allowance
        <4>2. \A k \in Jobs : Spare(k)' <=> Spare(k)
          BY <4>1 DEF Spare
        <4>3. \A k \in Jobs \ {job[w]} : InHand(k) => InHand(k)'
          BY <3>2 DEF InHand, Busy
        <4>4. \A x \in Workers : pc'[x] = "backingoff" =>
                pc[x] = "backingoff" /\ job'[x] = job[x] /\ job[x] \in Jobs
          BY <3>2 DEF TypeOK, Busy, BusyAt
        <4>5. QED
          BY <2>b, <3>1, <4>1, <4>2, <4>3, <4>4
      <3>5. QED
        BY <3>3, <3>4
    <2>12. ASSUME NEW w \in Workers, OnPermanentFailure(w) PROVE Bounded'
      BY <2>12, <2>k DEF OnPermanentFailure, Rest, GoTo, rowVars, InHand, Busy, BusyAt, TypeOK
    <2>13. ASSUME NEW w \in Workers, DrainReturns(w) PROVE Bounded'
      BY <2>13, <2>k DEF DrainReturns, GoTo, rowVars, InHand, Busy, BusyAt, TypeOK
    <2>14. ASSUME NEW w \in Workers, PurgeFinished(w) PROVE Bounded'
      <3>1. UNCHANGED <<attempts, Allowance, pc, job>>
            /\ \A j \in Jobs : status'[j] \in {status[j], "purged"}
        BY <2>14 DEF PurgeFinished, Allowance
      <3>2. \A k \in Jobs : (InHand(k)' <=> InHand(k)) /\ (Spare(k)' <=> Spare(k))
        BY <3>1 DEF InHand, Busy, Spare
      <3>3. \A x \in Workers : pc[x] = "backingoff" => job[x] \in Jobs
        BY DEF TypeOK, Busy, BusyAt
      <3>4. QED
        BY <2>b, <3>1, <3>2, <3>3
    <2>15. ASSUME NEW w \in Workers, StoreError(w) PROVE Bounded'
      <3>1. UNCHANGED <<status, attempts>> /\ Allowance' = Allowance + 1
        BY <2>15, NumberAssumption DEF StoreError, rowVars, Allowance, TypeOK
      <3>2. \A x \in Workers : pc'[x] = "backingoff" => job'[x] \in Jobs
        BY <2>15 DEF StoreError, Rest, GoTo, TypeOK, Busy, BusyAt
      <3>3. QED
        BY <2>f, <3>1, <3>2
    <2>16. ASSUME Tick PROVE Bounded'
      BY <2>16, <2>k DEF Tick, InHand, Busy
    <2>17. CASE UNCHANGED vars
      BY <2>17, <2>k DEF vars, InHand, Busy
    <2>18. QED
      BY <2>1, <2>2, <2>3, <2>4, <2>5, <2>6, <2>7, <2>8, <2>9,
         <2>10, <2>11, <2>12, <2>13, <2>14, <2>15, <2>16, <2>17 DEF Next, WorkerStep
  <1>3. AttemptsInv => AttemptsBounded
    BY DEF AttemptsInv, AttemptsBounded, Allowance
  <1>4. QED
    BY <1>1, <1>2, <1>3, TypeCorrect, OneRunner, PTL DEF Spec

-----------------------------------------------------------------------------
\* Who is busy with what changes only as the workers' places and records do.
LEMMA HoldersKept ==
  ASSUME \A w \in Workers : (Busy(w)' <=> Busy(w)) /\ (Busy(w) => job'[w] = job[w])
  PROVE  Holders' = Holders
  BY DEF Holders

\* A step of the table and its workers is a step of the abstract queue, or
\* none, while no lease expires under a living worker.
LEMMA StepKeepsPromise ==
  ASSUME TypeOK, SoleRunner, [Next]_vars, faults'.stall = 0
  PROVE  [Queue!Next]_<<status, Holders>>
  <1> DEFINE Same == UNCHANGED <<status, Holders>>
             Goal == Queue!Next \/ Same
  <1> SUFFICES Goal
    OBVIOUS
  <1>a. faults.stall = 0
    <2>1. faults.stall \in Nat /\ faults'.stall \in Nat
      BY FaultsGrow DEF TypeOK
    <2>2. QED
      BY <2>1, FaultsGrow
  <1>b. \A w \in Workers : Busy(w) =>
          /\ status[job[w]] = "running" /\ age[job[w]] <= Lease
          /\ \A x \in Workers \ {w} : Busy(x) => job[x] # job[w]
    BY <1>a DEF SoleRunner
  <1>c. \A w \in Workers : Busy(w) => job[w] \in Jobs /\ Holders[job[w]] = {w}
    BY <1>b DEF Holders, TypeOK
  <1> USE DEF Busy, BusyAt
  <1>1. ASSUME NEW j \in Jobs, Enqueue(j) PROVE Goal
    <2>1. Holders' = Holders
      BY <1>1, HoldersKept DEF Enqueue
    <2>2. \A k \in Jobs \ {j} : SameKey(j, k) => status[k] \notin {"pending", "running"}
      BY <1>1 DEF Enqueue, IndexAdmits, SameKey, Live
    <2>3. Queue!Submit(j)
      BY <1>1, <2>1, <2>2 DEF Enqueue, Queue!Submit, Queue!Waiting
    <2>4. QED
      BY <2>3 DEF Queue!Next
  <1>2. ASSUME NEW p \in Procs, Start(p) PROVE Goal
    <2>1. \A w \in Workers : (Busy(w)' <=> Busy(w)) /\ job'[w] = job[w]
      BY <1>2 DEF Start, TypeOK
    <2>2. QED
      BY <1>2, <2>1, HoldersKept DEF Start, rowVars
  <1>3. ASSUME NEW p \in Procs, Crash(p) PROVE Goal
    <2> DEFINE W == {w \in Workers : ProcOf[w] = p}
    <2>1. \A w \in Workers \ W : (Busy(w)' <=> Busy(w)) /\ job'[w] = job[w]
      BY <1>3 DEF Crash, TypeOK
    <2>2. \A w \in W : ~Busy(w)'
      BY <1>3 DEF Crash, TypeOK
    <2>3. Holders' = [j \in Jobs |-> Holders[j] \ W]
      BY <2>1, <2>2 DEF Holders
    <2>4. Queue!LetGo(W)
      BY <1>3, <2>3 DEF Queue!LetGo, Crash, rowVars
    <2>5. QED
      BY <2>4 DEF Queue!Next
  <1>r. ASSUME ReclaimStalled, Holders' = Holders PROVE Goal
    <2>1. \A j \in Stalled : status[j] = "running" /\ Holders[j] = {}
      <3>1. ASSUME NEW j \in Stalled, NEW w \in Workers, Busy(w), job[w] = j PROVE FALSE
        BY <1>b, <3>1, NumberAssumption DEF Stalled, TypeOK
      <3>2. QED
        BY <3>1 DEF Stalled, Holders
    <2>2. Stalled \in SUBSET Jobs
      BY DEF Stalled
    <2>3. Queue!Recover(Stalled)
      BY <1>r, <2>1 DEF Queue!Recover, Queue!Waiting, ReclaimStalled
    <2>4. QED
      BY <2>2, <2>3 DEF Queue!Next
  <1>4. ASSUME NEW w \in Workers, BootReclaim(w) PROVE Goal
    <2>1. \A x \in Workers : (Busy(x)' <=> Busy(x)) /\ job'[x] = job[x]
      BY <1>4 DEF BootReclaim, TypeOK
    <2>2. QED
      BY <1>4, <1>r, <2>1, HoldersKept DEF BootReclaim
  <1>5. ASSUME NEW w \in Workers, PeriodicReclaim(w) PROVE Goal
    BY <1>5, <1>r, HoldersKept DEF PeriodicReclaim
  <1>6. ASSUME NEW w \in Workers, NEW j \in Jobs, ClaimNext(w, j) PROVE Goal
    <2>1. status[j] = "pending"
      BY <1>6 DEF ClaimNext, Eligible
    <2>2. Holders[j] = {}
      BY <1>b, <2>1 DEF Holders
    <2>3. \A x \in Workers \ {w} : (Busy(x)' <=> Busy(x)) /\ job'[x] = job[x]
      BY <1>6 DEF ClaimNext, GoTo, TypeOK
    <2>4. ~Busy(w) /\ Busy(w)' /\ job'[w] = j
      BY <1>6 DEF ClaimNext, GoTo, TypeOK
    <2>5. Holders' = [Holders EXCEPT ![j] = {w}]
      <3>1. \A x \in Workers, k \in Jobs :
              (Busy(x)' /\ job'[x] = k) <=> (IF k = j THEN x = w ELSE Busy(x) /\ job[x] = k)
        <4>1. \A x \in Workers : Busy(x) => job[x] # j
          BY <2>2 DEF Holders
        <4>2. QED
          BY <2>3, <2>4, <4>1
      <3>2. \A k \in Jobs : {x \in Workers : Busy(x)' /\ job'[x] = k}
                               = IF k = j THEN {w} ELSE Holders[k]
        BY <3>1 DEF Holders
      <3>3. QED
        BY <3>2 DEF Holders
    <2>6. Queue!Take(w, j)
      BY <1>6, <2>1, <2>2, <2>5 DEF Queue!Take, Queue!Waiting, ClaimNext
    <2>7. QED
      BY <2>6 DEF Queue!Next
  <1>7. ASSUME NEW w \in Workers, HandlerReturns(w) PROVE Goal
    <2>1. \A x \in Workers : (Busy(x)' <=> Busy(x)) /\ job'[x] = job[x]
      BY <1>7 DEF HandlerReturns, GoTo, TypeOK
    <2>2. QED
      BY <1>7, <2>1, HoldersKept DEF HandlerReturns, rowVars
  <1>s. ASSUME NEW w \in Workers, NEW s \in {"pending", "done", "failed"}, NEW d, Busy(w),
               SetRow(job[w], s, d), ~Busy(w)',
               \A x \in Workers \ {w} : (Busy(x)' <=> Busy(x)) /\ job'[x] = job[x]
        PROVE  Goal
    <2>1. status[job[w]] = "running" /\ job[w] \in Jobs /\ Holders[job[w]] = {w}
      BY <1>b, <1>c, <1>s
    <2>2. status' = [status EXCEPT ![job[w]] = s]
      BY <1>s, <2>1 DEF SetRow
    <2>3. Holders' = [Holders EXCEPT ![job[w]] = {}]
      <3>1. \A x \in Workers, k \in Jobs :
              (Busy(x)' /\ job'[x] = k) <=> (k # job[w] /\ Busy(x) /\ job[x] = k)
        BY <1>b, <1>s
      <3>2. \A k \in Jobs : {x \in Workers : Busy(x)' /\ job'[x] = k}
                               = IF k = job[w] THEN {} ELSE Holders[k]
        BY <3>1 DEF Holders
      <3>3. QED
        BY <2>1, <3>2 DEF Holders
    <2>4. Queue!Settle(w, job[w])
      BY <2>1, <2>2, <2>3 DEF Queue!Settle, Queue!Over, Queue!Waiting
    <2>5. QED
      BY <2>1, <2>4 DEF Queue!Next
  <1>l. ASSUME NEW w \in Workers, UNCHANGED status, ~Busy(w)',
               \A x \in Workers \ {w} : (Busy(x)' <=> Busy(x)) /\ job'[x] = job[x]
        PROVE  Goal
    <2>1. Holders' = [j \in Jobs |-> Holders[j] \ {w}]
      BY <1>l DEF Holders
    <2>2. Queue!LetGo({w})
      BY <1>l, <2>1 DEF Queue!LetGo
    <2>3. QED
      BY <2>2 DEF Queue!Next
  <1>8. ASSUME NEW w \in Workers, MarkDone(w) PROVE Goal
    <2>1. ~Busy(w)' /\ \A x \in Workers \ {w} : (Busy(x)' <=> Busy(x)) /\ job'[x] = job[x]
      BY <1>8 DEF MarkDone, Rest, GoTo, TypeOK
    <2>2. QED
      BY <1>8, <1>s, <2>1 DEF MarkDone
  <1>9. ASSUME NEW w \in Workers, MarkFailedPermanent(w) PROVE Goal
    <2>1. ~Busy(w)' /\ \A x \in Workers \ {w} : (Busy(x)' <=> Busy(x)) /\ job'[x] = job[x]
      BY <1>9 DEF MarkFailedPermanent, GoTo, TypeOK
    <2>2. QED
      BY <1>9, <1>s, <2>1 DEF MarkFailedPermanent
  <1>10. ASSUME NEW w \in Workers, ReadAttempts(w) PROVE Goal
    <2>1. status[job[w]] = "running"
      BY <1>10, <1>b DEF ReadAttempts
    <2>2. \A x \in Workers : (Busy(x)' <=> Busy(x)) /\ job'[x] = job[x]
      BY <1>10, <2>1 DEF ReadAttempts, GoTo, TypeOK
    <2>3. QED
      BY <1>10, <2>2, HoldersKept DEF ReadAttempts, rowVars
  <1>11. ASSUME NEW w \in Workers, MarkFailedRetry(w) PROVE Goal
    <2>1. ~Busy(w)' /\ \A x \in Workers \ {w} : (Busy(x)' <=> Busy(x)) /\ job'[x] = job[x]
      BY <1>11 DEF MarkFailedRetry, Rest, GoTo, TypeOK
    <2>2. CASE IndexAdmits(job[w])
      BY <1>11, <1>s, <2>1, <2>2 DEF MarkFailedRetry
    <2>3. CASE ~IndexAdmits(job[w])
      BY <1>11, <1>l, <2>1, <2>3 DEF MarkFailedRetry
    <2>4. QED
      BY <2>2, <2>3
  <1>12. ASSUME NEW w \in Workers, OnPermanentFailure(w) PROVE Goal
    <2>1. \A x \in Workers : (Busy(x)' <=> Busy(x)) /\ (Busy(x) => job'[x] = job[x])
      BY <1>12 DEF OnPermanentFailure, Rest, GoTo, TypeOK
    <2>2. QED
      BY <1>12, <2>1, HoldersKept DEF OnPermanentFailure, rowVars
  <1>13. ASSUME NEW w \in Workers, DrainReturns(w) PROVE Goal
    <2>1. \A x \in Workers : (Busy(x)' <=> Busy(x)) /\ job'[x] = job[x]
      BY <1>13 DEF DrainReturns, GoTo, TypeOK
    <2>2. QED
      BY <1>13, <2>1, HoldersKept DEF DrainReturns, rowVars
  <1>14. ASSUME NEW w \in Workers, PurgeFinished(w) PROVE Goal
    <2>1. Holders' = Holders
      BY <1>14, HoldersKept DEF PurgeFinished
    <2>2. Queue!Forget(Expired)
      BY <1>14, <2>1 DEF Queue!Forget, Queue!Over, PurgeFinished, Expired, Terminal
    <2>3. Expired \in SUBSET Jobs
      BY DEF Expired
    <2>4. QED
      BY <2>2, <2>3 DEF Queue!Next
  <1>15. ASSUME NEW w \in Workers, StoreError(w) PROVE Goal
    <2>1. ~Busy(w)' /\ \A x \in Workers \ {w} : (Busy(x)' <=> Busy(x)) /\ job'[x] = job[x]
      BY <1>15 DEF StoreError, Rest, GoTo, TypeOK
    <2>2. QED
      BY <1>15, <1>l, <2>1 DEF StoreError, rowVars
  <1>16. ASSUME Tick PROVE Goal
    BY <1>16, HoldersKept DEF Tick
  <1>17. CASE UNCHANGED vars
    BY <1>17, HoldersKept DEF vars
  <1>18. QED
    BY <1>1, <1>2, <1>3, <1>4, <1>5, <1>6, <1>7, <1>8, <1>9, <1>10, <1>11,
       <1>12, <1>13, <1>14, <1>15, <1>16, <1>17 DEF Next, WorkerStep

LEMMA StartsEmpty == Init => Queue!Init
  BY DEF Init, Queue!Init, Holders, Busy, BusyAt

\* The table and its workers implement the abstract queue, step by step.
THEOREM PromiseImplemented == Spec => ImplementsPromise
  <1>1. TypeOK /\ SoleRunner /\ [Next]_vars
          => [faults'.stall = 0 => [Queue!Next]_<<status, Holders>>]_vars
    BY StepKeepsPromise
  <1>2. QED
    BY <1>1, StartsEmpty, TypeCorrect, OneRunner, PTL DEF Spec, ImplementsPromise

\* Where no lease is ever overrun, it is the abstract specification itself.
THEOREM PromiseKept == MaxStalls = 0 => (Spec => KeepsPromise)
  <1> SUFFICES ASSUME MaxStalls = 0 PROVE Spec => KeepsPromise
    OBVIOUS
  <1> DEFINE Quiet == faults.stall = 0
  <1>1. Init => Quiet
    BY DEF Init
  <1>2. TypeOK /\ Quiet /\ [Next]_vars => Quiet'
    <2> SUFFICES ASSUME TypeOK, Quiet, [Next]_vars PROVE Quiet'
      OBVIOUS
    <2>1. CASE Tick
      BY <2>1 DEF Tick, TypeOK
    <2>2. ASSUME NEW p \in Procs, Crash(p) PROVE Quiet'
      BY <2>2 DEF Crash, TypeOK
    <2>3. ASSUME NEW w \in Workers, StoreError(w) PROVE Quiet'
      BY <2>3 DEF StoreError, TypeOK
    <2>4. CASE UNCHANGED faults
      BY <2>4
    <2>5. QED
      BY <2>1, <2>2, <2>3, <2>4
         DEF Next, WorkerStep, vars, Enqueue, Start, BootReclaim, PeriodicReclaim,
             ClaimNext, HandlerReturns, MarkDone, MarkFailedPermanent, ReadAttempts,
             MarkFailedRetry, OnPermanentFailure, DrainReturns, PurgeFinished
  <1>3. TypeOK /\ SoleRunner /\ [Next]_vars /\ Quiet'
          => [Queue!Next]_(Queue!promiseVars)
    BY StepKeepsPromise DEF Queue!promiseVars
  <1>4. QED
    BY <1>1, <1>2, <1>3, StartsEmpty, TypeCorrect, OneRunner,
       PTL DEF Spec, KeepsPromise, Queue!Spec


-----------------------------------------------------------------------------
\* The domain is told of every permanent failure and of nothing else.
THEOREM ReportsAreTrue == Spec => []ReportsTrue
  <1>1. NotifiedIsFinal /\ FailureIsReported => ReportsTrue
    BY DEF ReportsTrue
  <1>2. QED
    BY <1>1, NotifiedJobsRest, FailuresAreReported, PTL
=============================================================================
