----------------------------- MODULE DiskProofs -----------------------------
(***************************************************************************)
(* Theorems about the two components that keep files on disk.              *)
(*                                                                         *)
(* PreviewCache: its rows and previews, for any files, workers, clients.   *)
(*                                                                         *)
(* BlobStore: type correctness, that without faults every published blob   *)
(* becomes whole, and that faults never publish half a file, for any       *)
(* numbers of contents, tasks and chunks.                                  *)
(***************************************************************************)
EXTENDS PreviewCache, BlobStore, TLAPS

USE DEF Maybe

LEMMA KeyParts == \A k \in Keys : k[1] \in Files /\ k[2] \in Commits
  BY PreviewAssumption DEF Keys, Commits

-----------------------------------------------------------------------------
LEMMA TypedInit == Init => TypeOK
  <1> SUFFICES ASSUME Init PROVE TypeOK
    OBVIOUS
  <1> USE PreviewAssumption DEF Init
  <1>1. current \in [Files -> Maybe(Commits)] /\ faults \in 0..MaxFaults
    BY DEF Commits
  <1>2. RowType /\ DiskType /\ JobsType
    BY DEF RowType, DiskType, JobsType, Missing, NoJob
  <1>3. WorkType /\ ReqType
    BY DEF WorkType, ReqType, Resting, Away
  <1>4. SweepType
    BY DEF SweepType, NoSweep
  <1> QED
    BY <1>1, <1>2, <1>3, <1>4 DEF TypeOK

\* What a handler and a request may come to hold.
LEMMA Holding ==
  ASSUME WorkType, NEW w \in Workers, work[w].pc # "idle", NEW where \in HandlerAt,
         NEW src \in Maybe(Commits), NEW ext \in Maybe(Exts),
         where \in {"record", "unlink"} => ext \in Exts, Hold(w, where, src, ext)
  PROVE  WorkType'
  BY DEF WorkType, Hold

LEMMA Going ==
  ASSUME WorkType, NEW w \in Workers, work[w].pc # "idle",
         NEW where \in HandlerAt \ {"record", "unlink"}, Go(w, where)
  PROVE  WorkType'
  BY Holding DEF Go

LEMMA BackToRest ==
  ASSUME WorkType, NEW w \in Workers, work' = [work EXCEPT ![w] = Resting] PROVE WorkType'
  BY DEF WorkType, Resting

LEMMA Wanting ==
  ASSUME ReqType, NEW r \in Clients, NEW where \in RequestAt, NEW key \in Keys,
         NEW ext \in Maybe(Exts), Want(r, where, key, ext)
  PROVE  ReqType'
  BY DEF ReqType, Want

LEMMA Asking ==
  ASSUME ReqType, NEW r \in Clients, req[r].pc # "idle", NEW where \in RequestAt, Ask(r, where)
  PROVE  ReqType'
  <1>1. req[r].key \in Keys
    BY DEF ReqType
  <1> QED
    BY <1>1, Wanting DEF Ask

LEMMA Answering ==
  ASSUME ReqType, NEW r \in Clients, Answer(r) PROVE ReqType'
  BY DEF ReqType, Answer, Away

\* The file a handler holds is a preview path, and removing one types well.
LEMMA PathTyped ==
  ASSUME WorkType, NEW w \in Workers, Handling(w) PROVE Path(w) \in Keys \X Exts
  BY DEF WorkType, Handling, Path

LEMMA Removing ==
  ASSUME TypeOK, NEW p \in Keys \X Exts, Remove(p)
  PROVE  /\ DiskType' /\ faults' \in 0..MaxFaults /\ strays' \subseteq Keys \X Exts
         /\ \A q \in Keys \X Exts : disk'[q] \in {None, disk[q]}
  BY PreviewAssumption DEF Remove, Spend, TypeOK, DiskType

LEMMA TypedStep == TypeOK /\ [Next]_vars => TypeOK'
  <1> SUFFICES ASSUME TypeOK, [Next]_vars PROVE TypeOK'
    OBVIOUS
  <1> USE PreviewAssumption, KeyParts DEF TypeOK
  <1>0. /\ UNCHANGED row => RowType'
        /\ UNCHANGED disk => DiskType'
        /\ UNCHANGED jobs => JobsType'
        /\ UNCHANGED work => WorkType'
        /\ UNCHANGED req => ReqType'
        /\ UNCHANGED sweep => SweepType'
    BY DEF RowType, DiskType, JobsType, WorkType, ReqType, SweepType
  <1>1. ASSUME NEW f \in Files, Recommit(f) PROVE TypeOK'
    <2>1. current' \in [Files -> Maybe(Commits)]
      BY <1>1 DEF Recommit, Commits
    <2> QED
      BY <1>1, <1>0, <2>1 DEF Recommit
  <1>2. ASSUME NEW f \in Files, Purge(f) PROVE TypeOK'
    <2>1. current' \in [Files -> Maybe(Commits)]
      BY <1>2 DEF Purge
    <2> QED
      BY <1>2, <1>0, <2>1 DEF Purge
  <1>3. ASSUME NEW r \in Clients, NEW f \in Files, BeginRequest(r, f) PROVE TypeOK'
    <2>1. ReqType'
      BY <1>3, Wanting DEF BeginRequest, RequestAt, Keys
    <2> QED
      BY <1>3, <1>0, <2>1 DEF BeginRequest
  <1>4. ASSUME NEW r \in Clients, NEW f \in Files, BeginCommand(r, f) PROVE TypeOK'
    <2>1. ReqType'
      <3>1. <<f, current[f]>> \in Keys
        BY <1>4 DEF BeginCommand, Keys
      <3> QED
        BY <1>4, <3>1, Wanting DEF BeginCommand, RequestAt
    <2> QED
      BY <1>4, <1>0, <2>1 DEF BeginCommand
  <1>5. ASSUME NEW r \in Clients, Look(r) PROVE TypeOK'
    <2>1. ReqType'
      <3>1. req[r].key \in Keys
        BY <1>5 DEF Look, ReqType
      <3>2. CASE row[req[r].key].status = "ready"
        <4>1. row[req[r].key].ext \in Exts
          BY <3>1, <3>2 DEF RowType
        <4> QED
          BY <1>5, <3>1, <3>2, <4>1, Wanting DEF Look, RequestAt
      <3> QED
        BY <1>5, <3>2, Asking, Answering DEF Look, RequestAt
    <2> QED
      BY <1>5, <1>0, <2>1 DEF Look
  <1>6. ASSUME NEW r \in Clients, Serve(r) PROVE TypeOK'
    <2>1. ReqType'
      BY <1>6, Asking, Answering DEF Serve, RequestAt
    <2> QED
      BY <1>6, <1>0, <2>1 DEF Serve
  <1>7. ASSUME NEW r \in Clients, ResetToPending(r) PROVE TypeOK'
    <2>1. ReqType'
      BY <1>7, Asking DEF ResetToPending, RequestAt
    <2>2. RowType'
      BY <1>7 DEF ResetToPending, RowType, ReqType, RequestAt
    <2> QED
      BY <1>7, <1>0, <2>1, <2>2 DEF ResetToPending
  <1>8. ASSUME NEW r \in Clients, Enqueue(r) PROVE TypeOK'
    <2>1. ReqType'
      BY <1>8, Asking DEF Enqueue, RequestAt
    <2>2. JobsType'
      BY <1>8 DEF Enqueue, JobsType, ReqType, RequestAt
    <2> QED
      BY <1>8, <1>0, <2>1, <2>2 DEF Enqueue
  <1>9. ASSUME NEW r \in Clients, MarkPending(r) PROVE TypeOK'
    <2>1. ReqType'
      BY <1>9, Answering DEF MarkPending
    <2>2. RowType'
      BY <1>9 DEF MarkPending, RowType, ReqType, RequestAt
    <2> QED
      BY <1>9, <1>0, <2>1, <2>2 DEF MarkPending
  <1>10. ASSUME NEW w \in Workers, NEW k \in Keys, Take(w, k) PROVE TypeOK'
    <2>1. WorkType'
      BY <1>10 DEF Take, WorkType, HandlerAt, Resting
    <2>2. JobsType'
      BY <1>10 DEF Take, JobsType
    <2> QED
      BY <1>10, <1>0, <2>1, <2>2 DEF Take
  <1>11. ASSUME NEW w \in Workers, Check(w) PROVE TypeOK'
    <2>1. WorkType'
      BY <1>11, Going DEF Check, HandlerAt
    <2> QED
      BY <1>11, <1>0, <2>1 DEF Check
  <1>12. ASSUME NEW w \in Workers, Read(w) PROVE TypeOK'
    <2>1. WorkType'
      <3>1. work[w].key \in Keys
        BY <1>12 DEF Read, WorkType
      <3> QED
        BY <1>12, <3>1, Going, Holding DEF Read, HandlerAt
    <2> QED
      BY <1>12, <1>0, <2>1 DEF Read
  <1>13. ASSUME NEW w \in Workers, Generate(w) PROVE TypeOK'
    <2>1. WorkType'
      BY <1>13, Going, Holding DEF Generate, HandlerAt
    <2>2. DiskType'
      BY <1>13 DEF Generate, DiskType, WorkType, HandlerAt
    <2> QED
      BY <1>13, <1>0, <2>1, <2>2 DEF Generate
  <1>14. ASSUME NEW w \in Workers, MarkReady(w) PROVE TypeOK'
    <2>1. WorkType'
      <3> DEFINE old == row[work[w].key].ext
      <3>1. work[w].key \in Keys
        BY <1>14 DEF MarkReady, WorkType
      <3>2. CASE old \in {None, work[w].ext}
        BY <1>14, <3>2, Going DEF MarkReady, HandlerAt
      <3>3. CASE old \notin {None, work[w].ext}
        <4>1. old \in Exts
          BY <3>1, <3>3 DEF RowType
        <4> QED
          BY <1>14, <3>3, <4>1, Holding DEF MarkReady, HandlerAt
      <3> QED
        BY <3>2, <3>3
    <2>2. RowType'
      BY <1>14 DEF MarkReady, RowType, WorkType, HandlerAt
    <2>3. strays' \subseteq Keys \X Exts
      BY <1>14, PathTyped DEF MarkReady, Handling
    <2> QED
      BY <1>14, <1>0, <2>1, <2>2, <2>3 DEF MarkReady
  <1>15. ASSUME NEW w \in Workers, RemoveSuperseded(w) PROVE TypeOK'
    <2>1. WorkType'
      BY <1>15, Going DEF RemoveSuperseded, HandlerAt
    <2>2. DiskType' /\ faults' \in 0..MaxFaults /\ strays' \subseteq Keys \X Exts
      BY <1>15, PathTyped, Removing DEF RemoveSuperseded, Handling
    <2> QED
      BY <1>15, <1>0, <2>1, <2>2 DEF RemoveSuperseded
  <1>16. ASSUME NEW w \in Workers, Settle(w) PROVE TypeOK'
    <2>1. WorkType'
      BY <1>16, Going, BackToRest DEF Settle, HandlerAt
    <2>2. JobsType'
      BY <1>16 DEF Settle, JobsType, NoJob, WorkType, HandlerAt
    <2> QED
      BY <1>16, <1>0, <2>1, <2>2 DEF Settle
  <1>17. ASSUME NEW w \in Workers, MarkFailed(w) PROVE TypeOK'
    <2>1. WorkType'
      BY <1>17, BackToRest DEF MarkFailed
    <2>2. RowType'
      BY <1>17 DEF MarkFailed, RowType, WorkType, HandlerAt
    <2> QED
      BY <1>17, <1>0, <2>1, <2>2 DEF MarkFailed
  <1>18. CASE SweepStart
    <2>1. SweepType'
      BY <1>18 DEF SweepStart, SweepType, NoSweep
    <2> QED
      BY <1>18, <1>0, <2>1 DEF SweepStart
  <1>19. CASE SweepSelect
    <2>1. SweepType'
      <3> DEFINE paths == {<<k, row[k].ext>> : k \in {s \in Stale(Swept) : row[s].ext # None}}
      <3>1. paths \subseteq Keys \X Exts
        BY DEF Stale, RowType
      <3>2. sweep' = [sweep EXCEPT !.pc = "delete", !.paths = paths]
        BY <1>19 DEF SweepSelect
      <3> HIDE DEF paths
      <3> QED
        BY <3>1, <3>2 DEF SweepType
    <2> QED
      BY <1>19, <1>0, <2>1 DEF SweepSelect
  <1>20. CASE SweepDelete
    <2>1. SweepType'
      BY <1>20 DEF SweepDelete, SweepType
    <2>2. RowType'
      BY <1>20 DEF SweepDelete, RowType, Missing
    <2> QED
      BY <1>20, <1>0, <2>1, <2>2 DEF SweepDelete
  <1>21. CASE SweepUnlink
    <2>1. SweepType'
      <3>1. ASSUME NEW p, sweep' = [sweep EXCEPT !.paths = @ \ {p}] PROVE SweepType'
        BY <3>1 DEF SweepType
      <3>2. CASE sweep' = NoSweep
        BY <3>2 DEF SweepType, NoSweep
      <3>3. CASE sweep' = [sweep EXCEPT !.pc = "select", !.todo = @ \ {Swept}]
        BY <3>3 DEF SweepType
      <3> QED
        BY <1>21, <3>1, <3>2, <3>3 DEF SweepUnlink
    <2>2. DiskType' /\ faults' \in 0..MaxFaults /\ strays' \subseteq Keys \X Exts
      <3>1. CASE sweep.paths # {}
        <4>1. PICK p \in sweep.paths : Remove(p)
          BY <1>21, <3>1 DEF SweepUnlink
        <4>2. p \in Keys \X Exts
          BY DEF SweepType
        <4> QED
          BY <4>1, <4>2, Removing
      <3>2. CASE sweep.paths = {}
        BY <1>21, <3>2, <1>0 DEF SweepUnlink
      <3> QED
        BY <3>1, <3>2
    <2> QED
      BY <1>21, <1>0, <2>1, <2>2 DEF SweepUnlink
  <1>22. CASE Crash
    <2>1. WorkType'
      BY <1>22 DEF Crash, WorkType, HandlerAt, Resting
    <2>2. ReqType'
      BY <1>22 DEF Crash, ReqType, RequestAt, Away
    <2>3. SweepType'
      BY <1>22 DEF Crash, SweepType, NoSweep
    <2>4. faults' \in 0..MaxFaults
      BY <1>22 DEF Crash, Spend
    <2>5. strays' \subseteq Keys \X Exts
      BY <1>22, PathTyped DEF Crash, SweepType
    <2> QED
      BY <1>22, <1>0, <2>1, <2>2, <2>3, <2>4, <2>5 DEF Crash
  <1>23. ASSUME NEW w \in Workers, HandlerFault(w) PROVE TypeOK'
    <2>1. WorkType'
      BY <1>23, Going DEF HandlerFault, HandlerAt
    <2>2. faults' \in 0..MaxFaults
      BY <1>23 DEF HandlerFault, Spend
    <2>3. strays' \subseteq Keys \X Exts
      BY <1>23, PathTyped DEF HandlerFault, Handling
    <2> QED
      BY <1>23, <1>0, <2>1, <2>2, <2>3 DEF HandlerFault
  <1>24. ASSUME NEW r \in Clients, RequestFault(r) PROVE TypeOK'
    <2>1. ReqType'
      BY <1>24, Asking, Answering DEF RequestFault, RequestAt
    <2>2. faults' \in 0..MaxFaults
      BY <1>24 DEF RequestFault, Spend
    <2> QED
      BY <1>24, <1>0, <2>1, <2>2 DEF RequestFault
  <1>25. ASSUME NEW k \in Keys, HandOutAgain(k) PROVE TypeOK'
    <2>1. JobsType'
      BY <1>25 DEF HandOutAgain, JobsType
    <2> QED
      BY <1>25, <1>0, <2>1 DEF HandOutAgain
  <1>26. ASSUME NEW k \in Keys, LeaseExpires(k) PROVE TypeOK'
    <2>1. JobsType'
      BY <1>26 DEF LeaseExpires, JobsType
    <2>2. faults' \in 0..MaxFaults
      BY <1>26 DEF LeaseExpires, Spend
    <2> QED
      BY <1>26, <1>0, <2>1, <2>2 DEF LeaseExpires
  <1>27. CASE UNCHANGED vars
    BY <1>27, <1>0 DEF vars
  <1> QED
    BY <1>1, <1>2, <1>3, <1>4, <1>5, <1>6, <1>7, <1>8, <1>9, <1>10, <1>11, <1>12,
       <1>13, <1>14, <1>15, <1>16, <1>17, <1>18, <1>19, <1>20, <1>21, <1>22, <1>23,
       <1>24, <1>25, <1>26, <1>27
    DEF Next, Respond, Handle, Sweep

\* Every reachable state is well typed, a busy handler or request has a key, a
\* ready row has a path and the sweeper only ever unlinks preview paths.
THEOREM PreviewsTyped == Spec => []TypeOK
  <1> QED
    BY TypedInit, TypedStep, PTL DEF Spec
-----------------------------------------------------------------------------
\* PreviewOfItsCommit is not inductive by itself: the bytes a handler is about
\* to render are those of the commit of its job.
Honest ==
  /\ PreviewOfItsCommit
  /\ \A w \in Workers : work[w].pc = "generate" => work[w].src = work[w].key[2]

LEMMA HonestStep == TypeOK /\ Honest /\ [Next]_vars => Honest'
  <1> SUFFICES ASSUME TypeOK, Honest, [Next]_vars PROVE Honest'
    OBVIOUS
  <1> USE DEF Honest, PreviewOfItsCommit
  <1>1. ASSUME NEW w \in Workers, Read(w) PROVE Honest'
    BY <1>1 DEF Read, Go, Hold, TypeOK, WorkType
  <1>2. ASSUME NEW w \in Workers, Generate(w) PROVE Honest'
    <2>1. work[w].key \in Keys /\ work[w].src = work[w].key[2]
      BY <1>2 DEF Generate, TypeOK, WorkType
    <2>2. PreviewOfItsCommit'
      BY <1>2, <2>1 DEF Generate, TypeOK, DiskType
    <2>3. \A v \in Workers : work'[v].pc = "generate" => work'[v] = work[v]
      BY <1>2 DEF Generate, Go, Hold, TypeOK, WorkType
    <2> QED
      BY <2>2, <2>3
  <1>3. ASSUME UNCHANGED disk,
               \A v \in Workers : work'[v].pc = "generate" => work'[v] = work[v]
        PROVE  Honest'
    BY <1>3
  <1>4. ASSUME NEW w \in Workers,
               \/ \E k \in Keys : Take(w, k)
               \/ Check(w) \/ MarkReady(w) \/ Settle(w) \/ MarkFailed(w) \/ HandlerFault(w)
        PROVE  Honest'
    <2>1. \A v \in Workers : work'[v].pc = "generate" => work'[v] = work[v]
      <3>1. CASE \E k \in Keys : Take(w, k)
        BY <3>1 DEF Take, Resting, TypeOK, WorkType
      <3>2. CASE Check(w)
        BY <3>2 DEF Check, Go, Hold, TypeOK, WorkType
      <3>3. CASE MarkReady(w)
        BY <3>3 DEF MarkReady, Go, Hold, TypeOK, WorkType
      <3>4. CASE Settle(w)
        BY <3>4 DEF Settle, Go, Hold, Resting, TypeOK, WorkType
      <3>5. CASE MarkFailed(w)
        BY <3>5 DEF MarkFailed, Resting, TypeOK, WorkType
      <3>6. CASE HandlerFault(w)
        BY <3>6 DEF HandlerFault, Go, Hold, TypeOK, WorkType
      <3> QED
        BY <1>4, <3>1, <3>2, <3>3, <3>4, <3>5, <3>6
    <2>2. UNCHANGED disk
      BY <1>4 DEF Take, Check, MarkReady, Settle, MarkFailed, HandlerFault
    <2> QED
      BY <2>1, <2>2, <1>3
  <1>5. ASSUME NEW w \in Workers, RemoveSuperseded(w) PROVE Honest'
    <2>1. \A v \in Workers : work'[v].pc = "generate" => work'[v] = work[v]
      BY <1>5 DEF RemoveSuperseded, Go, Hold, TypeOK, WorkType
    <2>2. PreviewOfItsCommit'
      BY <1>5, PathTyped, Removing DEF RemoveSuperseded, Handling, TypeOK
    <2> QED
      BY <2>1, <2>2
  <1>6. CASE SweepUnlink
    <2>1. PreviewOfItsCommit'
      <3>1. CASE sweep.paths # {}
        <4>1. PICK p \in sweep.paths : Remove(p)
          BY <1>6, <3>1 DEF SweepUnlink
        <4>2. p \in Keys \X Exts
          BY DEF TypeOK, SweepType
        <4> QED
          BY <4>1, <4>2, Removing
      <3>2. CASE sweep.paths = {}
        BY <1>6, <3>2 DEF SweepUnlink
      <3> QED
        BY <3>1, <3>2
    <2> QED
      BY <1>6, <2>1 DEF SweepUnlink
  <1>7. CASE Crash
    BY <1>7, <1>3 DEF Crash, Resting
  <1>8. ASSUME NEW r \in Clients, NEW f \in Files, BeginRequest(r, f) \/ BeginCommand(r, f)
        PROVE  Honest'
    BY <1>8, <1>3 DEF BeginRequest, BeginCommand
  <1>9. ASSUME NEW r \in Clients, Respond(r) \/ RequestFault(r) PROVE Honest'
    BY <1>9, <1>3 DEF Respond, Look, Serve, ResetToPending, Enqueue, MarkPending, RequestFault
  <1>10. ASSUME NEW f \in Files, Recommit(f) \/ Purge(f) PROVE Honest'
    BY <1>10, <1>3 DEF Recommit, Purge
  <1>11. ASSUME NEW k \in Keys, HandOutAgain(k) \/ LeaseExpires(k) PROVE Honest'
    BY <1>11, <1>3 DEF HandOutAgain, LeaseExpires
  <1>12. CASE SweepStart \/ SweepSelect \/ SweepDelete
    BY <1>12, <1>3 DEF SweepStart, SweepSelect, SweepDelete
  <1>13. CASE UNCHANGED vars
    BY <1>13, <1>3 DEF vars
  <1> QED
    BY <1>1, <1>2, <1>4, <1>5, <1>6, <1>7, <1>8, <1>9, <1>10, <1>11, <1>12, <1>13
    DEF Next, Handle, Sweep

\* A preview file holds the commit its path names: what the handler checked is
\* what it reads, however commits, purges and other handlers interleave.
THEOREM PreviewsHonest == Spec => []PreviewOfItsCommit
  <1>1. Init => Honest
    BY PreviewAssumption DEF Init, Honest, PreviewOfItsCommit, Resting
  <1>2. Honest => PreviewOfItsCommit
    BY DEF Honest
  <1> QED
    BY <1>1, <1>2, HonestStep, PreviewsTyped, PTL DEF Spec

-----------------------------------------------------------------------------
(* No file is forgotten.  What the sweeper is going to delete from the     *)
(* table it will delete from the disk: its paths are those of the rows it  *)
(* has selected, and empty outside of a file's turn.                       *)
SweepKnows ==
  /\ sweep.pc \in {"idle", "select"} => sweep.paths = {}
  /\ sweep.pc = "delete" =>
       \A k \in Stale(Swept) :
         row[k].ext # None => <<k, row[k].ext>> \in sweep.paths \cup strays

Kept == NoOrphan /\ SweepKnows

\* Whatever a step does to requests, jobs and heads, a path stays referenced
\* if neither the paths in rows nor the handlers that hold one change.
LEMMA KeptFrame ==
  ASSUME TypeOK, Kept, UNCHANGED <<disk, sweep, strays>>,
         \A k \in Keys : row'[k].ext = row[k].ext,
         \A w \in Workers : work[w].pc \in {"record", "unlink"} => work'[w] = work[w]
  PROVE  Kept'
  <1>1. \A p \in Keys \X Exts : Referenced(p) => Referenced(p)'
    BY DEF Referenced, Handling, Path
  <1>2. Stale(Swept) \subseteq Keys /\ Stale(Swept)' = Stale(Swept)
    BY DEF Stale, Swept
  <1> QED
    BY <1>1, <1>2 DEF Kept, NoOrphan, SweepKnows

LEMMA KeptMarkReady == ASSUME TypeOK, Kept, NEW w \in Workers, MarkReady(w) PROVE Kept'
  <1> DEFINE k == work[w].key
  <1> DEFINE old == row[k].ext
  <1>1. k \in Keys /\ work[w].ext \in Exts /\ work[w].pc = "record"
    BY DEF MarkReady, TypeOK, WorkType
  <1>2. row' = [row EXCEPT ![k] = [status |-> "ready", ext |-> work[w].ext]]
    BY DEF MarkReady
  <1>3. \A v \in Workers \ {w} : work'[v] = work[v]
    BY DEF MarkReady, Go, Hold, TypeOK, WorkType
  <1>4. /\ UNCHANGED <<disk, sweep>>
        /\ strays' = IF sweep.pc = "delete" /\ k \in Stale(Swept) /\ Path(w) \notin sweep.paths
                     THEN strays \cup {Path(w)} ELSE strays \ {Path(w)}
    BY DEF MarkReady
  <1>5. ASSUME NEW p \in Keys \X Exts, Referenced(p) \/ p = Path(w) PROVE Referenced(p)'
    <2>1. CASE \E v \in Workers \ {w} : Handling(v) /\ p = Path(v)
      BY <2>1, <1>3 DEF Referenced, Handling, Path
    <2>2. CASE p = Path(w)
      BY <2>2, <1>1, <1>2 DEF Referenced, Path, TypeOK, RowType
    <2>3. CASE sweep.pc = "unlink" /\ p \in sweep.paths
      BY <2>3, <1>4 DEF Referenced
    <2>4. CASE row[p[1]].ext = p[2] /\ p[1] # k
      BY <2>4, <1>2 DEF Referenced, TypeOK, RowType
    <2>5. CASE row[p[1]].ext = p[2] /\ p[1] = k /\ p[2] # work[w].ext
      <3>1. old \notin {None, work[w].ext} /\ p = <<k, old>>
        BY <2>5, PreviewAssumption
      <3>2. Hold(w, "unlink", None, old)
        BY <3>1 DEF MarkReady
      <3>3. work'[w].pc = "unlink" /\ work'[w].key = k /\ work'[w].ext = old
        BY <3>2 DEF Hold, TypeOK, WorkType
      <3> QED
        BY <3>1, <3>3 DEF Referenced, Handling, Path
    <2>6. row[p[1]].ext = p[2] /\ p[1] = k /\ p[2] = work[w].ext => p = Path(w)
      BY DEF Path
    <2> QED
      BY <1>5, <2>1, <2>2, <2>3, <2>4, <2>5, <2>6 DEF Referenced
  <1>6. SweepKnows'
    <2>1. Stale(Swept) \subseteq Keys /\ Stale(Swept)' = Stale(Swept)
      BY <1>4 DEF Stale, Swept
    <2>2. ASSUME sweep.pc = "delete", NEW s \in Stale(Swept), row'[s].ext # None
          PROVE  <<s, row'[s].ext>> \in sweep.paths \cup strays'
      <3>1. CASE s = k
        <4>1. <<s, row'[s].ext>> = Path(w)
          BY <1>1, <1>2, <3>1 DEF Path, TypeOK, RowType
        <4> QED BY <1>4, <2>2, <3>1, <4>1
      <3>2. CASE s # k
        <4>1. row'[s] = row[s] /\ <<s, row[s].ext>> # Path(w)
          BY <1>2, <2>1, <3>2 DEF Path, TypeOK, RowType
        <4> QED BY <1>4, <2>2, <4>1 DEF Kept, SweepKnows
      <3> QED BY <3>1, <3>2
    <2> QED
      BY <1>4, <2>1, <2>2 DEF Kept, SweepKnows
  <1> QED
    BY <1>4, <1>5, <1>6 DEF Kept, NoOrphan

LEMMA KeptStep == TypeOK /\ Kept /\ [Next]_vars => Kept'
  <1> SUFFICES ASSUME TypeOK, Kept, [Next]_vars PROVE Kept'
    OBVIOUS
  <1>1. ASSUME NEW w \in Workers, MarkReady(w) PROVE Kept'
    BY <1>1, KeptMarkReady
  <1>2. ASSUME NEW w \in Workers,
               \/ \E k \in Keys : Take(w, k)
               \/ Check(w) \/ Read(w) \/ Settle(w)
        PROVE  Kept'
    <2>1. \A v \in Workers : work[v].pc \in {"record", "unlink"} => work'[v] = work[v]
      <3>1. CASE \E k \in Keys : Take(w, k)
        BY <3>1 DEF Take, Resting, TypeOK, WorkType
      <3>2. CASE Check(w)
        BY <3>2 DEF Check, Go, Hold, TypeOK, WorkType
      <3>3. CASE Read(w)
        BY <3>3 DEF Read, Go, Hold, TypeOK, WorkType
      <3>4. CASE Settle(w)
        BY <3>4 DEF Settle, Go, Hold, Resting, TypeOK, WorkType
      <3> QED
        BY <1>2, <3>1, <3>2, <3>3, <3>4
    <2> QED
      BY <1>2, <2>1, KeptFrame DEF Take, Check, Read, Settle
  <1>3. ASSUME NEW w \in Workers, MarkFailed(w) PROVE Kept'
    <2>1. \A v \in Workers : work[v].pc \in {"record", "unlink"} => work'[v] = work[v]
      BY <1>3 DEF MarkFailed, TypeOK, WorkType
    <2>2. \A k \in Keys : row'[k].ext = row[k].ext
      BY <1>3 DEF MarkFailed, TypeOK, RowType
    <2> QED
      BY <1>3, <2>1, <2>2, KeptFrame DEF MarkFailed
  <1>4. ASSUME NEW w \in Workers, Generate(w) PROVE Kept'
    <2>1. \A v \in Workers : work[v].pc \in {"record", "unlink"} => work'[v] = work[v]
      BY <1>4 DEF Generate, Go, Hold, TypeOK, WorkType
    <2>2. CASE UNCHANGED disk
      BY <1>4, <2>1, <2>2, KeptFrame DEF Generate
    <2>3. CASE /\ disk' = [disk EXCEPT ![<<work[w].key, Format[w]>>] = work[w].src]
               /\ Hold(w, "record", None, Format[w])
      <3>1. work'[w].pc = "record" /\ work'[w].key = work[w].key /\ work'[w].ext = Format[w]
        BY <2>3 DEF Hold, TypeOK, WorkType
      <3>2. UNCHANGED <<row, sweep, strays>>
        BY <1>4 DEF Generate
      <3>3. ASSUME NEW p \in Keys \X Exts, Referenced(p) PROVE Referenced(p)'
        BY <2>1, <3>2, <3>3 DEF Referenced, Handling, Path
      <3>4. \A p \in Keys \X Exts : p = <<work[w].key, Format[w]>> \/ disk'[p] = disk[p]
        BY <2>3 DEF TypeOK, DiskType
      <3>5. ASSUME NEW p \in (Keys \X Exts) \ strays, disk'[p] # None PROVE Referenced(p)'
        <4>1. CASE p = <<work[w].key, Format[w]>>
          BY <3>1, <4>1 DEF Referenced, Handling, Path
        <4>2. CASE disk'[p] = disk[p]
          BY <3>3, <3>5, <4>2 DEF Kept, NoOrphan
        <4> QED
          BY <3>4, <4>1, <4>2
      <3>6. SweepKnows'
        BY <3>2 DEF Kept, SweepKnows, Stale, Swept
      <3> QED
        BY <3>2, <3>5, <3>6 DEF Kept, NoOrphan
    <2> QED
      BY <1>4, <2>2, <2>3 DEF Generate
  <1>5. ASSUME NEW w \in Workers, RemoveSuperseded(w) PROVE Kept'
    <2>1. UNCHANGED <<row, sweep>> /\ Remove(Path(w))
      BY <1>5 DEF RemoveSuperseded
    <2>2. \A v \in Workers \ {w} : work'[v] = work[v]
      BY <1>5 DEF RemoveSuperseded, Go, Hold, TypeOK, WorkType
    <2>3. /\ strays \subseteq strays'
          /\ \A p \in (Keys \X Exts) \ strays' : disk'[p] # None => p # Path(w) /\ disk[p] # None
      BY <2>1 DEF Remove, TypeOK, DiskType
    <2>4. ASSUME NEW p \in Keys \X Exts, Referenced(p), p # Path(w) PROVE Referenced(p)'
      BY <2>1, <2>2, <2>4 DEF Referenced, Handling, Path
    <2>5. NoOrphan'
      BY <2>3, <2>4 DEF Kept, NoOrphan
    <2>6. SweepKnows'
      BY <2>1, <2>3 DEF Kept, SweepKnows, Stale, Swept
    <2> QED
      BY <2>5, <2>6 DEF Kept
  <1>6. CASE SweepStart
    <2>1. sweep.paths = {} /\ sweep'.paths = {} /\ sweep'.pc = "select"
      BY <1>6 DEF SweepStart, NoSweep
    <2>2. UNCHANGED <<row, disk, work, strays>>
      BY <1>6 DEF SweepStart
    <2>3. \A p \in Keys \X Exts : Referenced(p) => Referenced(p)'
      BY <2>1, <2>2 DEF Referenced, Handling, Path
    <2> QED
      BY <2>1, <2>2, <2>3 DEF Kept, NoOrphan, SweepKnows
  <1>7. CASE SweepSelect
    <2>1. sweep.paths = {} /\ sweep'.pc = "delete" /\ UNCHANGED <<row, disk, work, strays>>
      BY <1>7 DEF SweepSelect, Kept, SweepKnows, TypeOK, SweepType
    <2>2. sweep'.paths = {<<k, row[k].ext>> : k \in {s \in Stale(Swept) : row[s].ext # None}}
      BY <1>7 DEF SweepSelect, TypeOK, SweepType
    <2>3. Stale(Swept)' = Stale(Swept)
      BY <1>7 DEF SweepSelect, Stale, Swept, TypeOK, SweepType
    <2>4. SweepKnows'
      BY <2>1, <2>2, <2>3 DEF SweepKnows
    <2>5. \A p \in Keys \X Exts : Referenced(p) => Referenced(p)'
      BY <2>1 DEF Referenced, Handling, Path
    <2> QED
      BY <2>1, <2>4, <2>5 DEF Kept, NoOrphan
  <1>8. CASE SweepDelete
    <2>1. sweep.pc = "delete" /\ sweep'.pc = "unlink" /\ sweep'.paths = sweep.paths
      BY <1>8 DEF SweepDelete, TypeOK, SweepType
    <2>2. UNCHANGED <<disk, work, strays>>
      BY <1>8 DEF SweepDelete
    <2>3. ASSUME NEW p \in (Keys \X Exts) \ strays, Referenced(p) PROVE Referenced(p)'
      <3>1. CASE row[p[1]].ext = p[2] /\ p[1] \in Stale(Swept)
        <4>1. p = <<p[1], row[p[1]].ext>> /\ row[p[1]].ext # None
          BY <3>1, PreviewAssumption
        <4> QED
          BY <2>1, <2>3, <3>1, <4>1 DEF Referenced, Kept, SweepKnows
      <3>2. CASE row[p[1]].ext = p[2] /\ p[1] \notin Stale(Swept)
        BY <1>8, <3>2 DEF Referenced, SweepDelete
      <3> QED
        BY <2>1, <2>2, <2>3, <3>1, <3>2 DEF Referenced, Handling, Path
    <2> QED
      BY <2>1, <2>2, <2>3 DEF Kept, NoOrphan, SweepKnows
  <1>9. CASE SweepUnlink
    <2>1. UNCHANGED <<row, work>>
      BY <1>9 DEF SweepUnlink
    <2>2. CASE sweep.paths # {}
      <3>1. PICK p \in sweep.paths : Remove(p) /\ sweep' = [sweep EXCEPT !.paths = @ \ {p}]
        BY <1>9, <2>2 DEF SweepUnlink
      <3>2. sweep'.paths = sweep.paths \ {p} /\ sweep'.pc = "unlink"
        BY <1>9, <3>1 DEF SweepUnlink, TypeOK, SweepType
      <3>3. /\ strays \subseteq strays'
            /\ \A q \in (Keys \X Exts) \ strays' : disk'[q] # None => q # p /\ disk[q] # None
        BY <3>1 DEF Remove, TypeOK, DiskType
      <3>4. \A q \in Keys \X Exts : Referenced(q) /\ q # p => Referenced(q)'
        BY <2>1, <3>2 DEF Referenced, Handling, Path
      <3> QED
        BY <3>2, <3>3, <3>4 DEF Kept, NoOrphan, SweepKnows
    <2>3. CASE sweep.paths = {}
      <3>1. UNCHANGED <<disk, strays>> /\ sweep'.paths = {} /\ sweep'.pc \in {"idle", "select"}
        <4>1. CASE sweep' = NoSweep
          BY <1>9, <2>3, <4>1 DEF SweepUnlink, NoSweep
        <4>2. CASE sweep' = [sweep EXCEPT !.pc = "select", !.todo = @ \ {Swept}]
          BY <1>9, <2>3, <4>2 DEF SweepUnlink, TypeOK, SweepType
        <4> QED
          BY <1>9, <2>3, <4>1, <4>2 DEF SweepUnlink
      <3>2. \A q \in Keys \X Exts : Referenced(q) => Referenced(q)'
        BY <2>1, <2>3, <3>1 DEF Referenced, Handling, Path
      <3> QED
        BY <2>1, <3>1, <3>2 DEF Kept, NoOrphan, SweepKnows
    <2> QED
      BY <2>2, <2>3
  <1>10. CASE Crash
    <2>1. sweep'.paths = {} /\ sweep'.pc = "idle" /\ UNCHANGED <<row, disk>>
      BY <1>10 DEF Crash, NoSweep
    <2>2. /\ strays \subseteq strays' /\ \A w \in Workers : Handling(w) => Path(w) \in strays'
          /\ sweep.pc = "unlink" => sweep.paths \subseteq strays'
      BY <1>10 DEF Crash
    <2>3. ASSUME NEW p \in (Keys \X Exts) \ strays', Referenced(p) PROVE Referenced(p)'
      BY <2>1, <2>2, <2>3 DEF Referenced
    <2> QED
      BY <2>1, <2>2, <2>3 DEF Kept, NoOrphan, SweepKnows
  <1>11. ASSUME NEW w \in Workers, HandlerFault(w) PROVE Kept'
    <2>1. UNCHANGED <<row, disk, sweep>> /\ strays \subseteq strays'
      BY <1>11 DEF HandlerFault
    <2>2. SweepKnows'
      BY <2>1 DEF Kept, SweepKnows, Stale, Swept
    <2>3. CASE work[w].pc = "record"
      <3>1. Path(w) \in strays' /\ \A v \in Workers \ {w} : work'[v] = work[v]
        BY <1>11, <2>3 DEF HandlerFault, Go, Hold, TypeOK, WorkType
      <3>2. ASSUME NEW p \in (Keys \X Exts) \ strays', Referenced(p) PROVE Referenced(p)'
        BY <2>1, <3>1, <3>2 DEF Referenced, Handling, Path
      <3> QED
        BY <2>1, <2>2, <3>2 DEF Kept, NoOrphan
    <2>4. CASE work[w].pc = "check"
      <3>1. \A v \in Workers : work[v].pc \in {"record", "unlink"} => work'[v] = work[v]
        BY <1>11, <2>4 DEF HandlerFault, Go, Hold, TypeOK, WorkType
      <3>2. UNCHANGED strays
        BY <1>11, <2>4 DEF HandlerFault
      <3> QED
        BY <2>1, <3>1, <3>2, KeptFrame
    <2> QED
      BY <1>11, <2>3, <2>4 DEF HandlerFault
  <1>12. ASSUME NEW r \in Clients, MarkPending(r) \/ ResetToPending(r) PROVE Kept'
    <2>1. \A k \in Keys : row'[k].ext = row[k].ext
      BY <1>12 DEF MarkPending, ResetToPending, TypeOK, RowType
    <2> QED
      BY <1>12, <2>1, KeptFrame DEF MarkPending, ResetToPending
  <1>13. ASSUME NEW r \in Clients, Look(r) \/ Serve(r) \/ Enqueue(r) \/ RequestFault(r) PROVE Kept'
    BY <1>13, KeptFrame DEF Look, Serve, Enqueue, RequestFault
  <1>14. ASSUME NEW r \in Clients, NEW f \in Files, BeginRequest(r, f) \/ BeginCommand(r, f)
         PROVE  Kept'
    BY <1>14, KeptFrame DEF BeginRequest, BeginCommand
  <1>15. ASSUME NEW f \in Files, Recommit(f) \/ Purge(f) PROVE Kept'
    BY <1>15, KeptFrame DEF Recommit, Purge
  <1>16. ASSUME NEW k \in Keys, HandOutAgain(k) \/ LeaseExpires(k) PROVE Kept'
    BY <1>16, KeptFrame DEF HandOutAgain, LeaseExpires
  <1>17. CASE UNCHANGED vars
    BY <1>17, KeptFrame DEF vars
  <1> QED
    BY <1>1, <1>2, <1>3, <1>4, <1>5, <1>6, <1>7, <1>8, <1>9, <1>10, <1>11, <1>12, <1>13,
       <1>14, <1>15, <1>16, <1>17
    DEF Next, Handle, Respond, Sweep

\* No preview file is forgotten, short of the four ways to be lost that
\* NoOrphan names, for any files, workers, formats and faults.
THEOREM NoFileForgotten == Spec => []NoOrphan
  <1>1. Init => Kept
    BY PreviewAssumption DEF Init, Kept, NoOrphan, SweepKnows, NoSweep
  <1>2. Kept => NoOrphan
    BY DEF Kept
  <1> QED
    BY <1>1, <1>2, KeptStep, PreviewsTyped, PTL DEF Spec

-----------------------------------------------------------------------------
(* The blob store.                                                         *)

USE DEF InodeOrNone, Steps

LEMMA FirstZero == ASSUME NEW c PROVE First(c, 0) = {}
  BY DEF First

LEMMA FirstNext ==
  ASSUME NEW c, NEW n \in Nat
  PROVE  First(c, n) \cup {<<c, n + 1>>} = First(c, n + 1)
  BY DEF First

LEMMA FirstInWhole ==
  ASSUME NEW c, NEW n \in Nat, n < Chunks
  PROVE  <<c, n + 1>> \in Whole(c)
  BY BlobAssumption DEF First, Whole

LEMMA NewInodeFree == ASSUME Free # {} PROVE NewInode \in Free
  BY DEF NewInode

-----------------------------------------------------------------------------
(* Type correctness.                                                       *)

LEMMA TypeInit == BlobInit => BlobTypeOK
  BY BlobAssumption DEF BlobInit, BlobTypeOK

LEMMA TypeStep == BlobTypeOK /\ [BlobNext]_blobVars => BlobTypeOK'
<1> SUFFICES ASSUME BlobTypeOK, [BlobNext]_blobVars PROVE BlobTypeOK'
  OBVIOUS
<1> USE BlobAssumption DEF BlobTypeOK
<1>1. ASSUME NEW w \in Tasks, NEW c \in Contents, BeginPut(w, c) PROVE BlobTypeOK'
  BY <1>1 DEF BeginPut, dir
<1>2. ASSUME NEW w \in Tasks, NEW c \in Contents, BeginStream(w, c) PROVE BlobTypeOK'
  BY <1>2, NewInodeFree DEF BeginStream, Open, Free
<1>3. ASSUME NEW w \in Tasks, CreateTmp(w) PROVE BlobTypeOK'
  <2>1. want[w] \in Contents
    BY <1>3 DEF CreateTmp
  <2> QED
    BY <1>3, <2>1, NewInodeFree DEF CreateTmp, Open, Free
<1>4. ASSUME NEW w \in Tasks, Write(w) PROVE BlobTypeOK'
  <2>1. want[w] \in Contents /\ ino[w] \in Inodes /\ done[w] \in 0..Chunks /\ done[w] < Chunks
    BY <1>4 DEF Write
  <2>2. <<want[w], done[w] + 1>> \in Chunk
    BY <2>1 DEF Chunk
  <2>3. data' \in [Inodes -> SUBSET Chunk]
    BY <1>4, <2>2 DEF Write
  <2>4. done' \in [Tasks -> 0..Chunks]
    BY <1>4, <2>1 DEF Write
  <2> QED
    BY <1>4, <2>1, <2>3, <2>4 DEF Write, dir
<1>5. ASSUME NEW w \in Tasks, Rename(w) PROVE BlobTypeOK'
  <2>1. want[w] \in Contents
    BY <1>5 DEF Rename
  <2> QED
    BY <1>5, <2>1 DEF Rename, Return
<1>6. ASSUME NEW w \in Tasks, CheckExists(w) PROVE BlobTypeOK'
  BY <1>6 DEF CheckExists, Return
<1>7. ASSUME NEW w \in Tasks, Publish(w) PROVE BlobTypeOK'
  <2>1. want[w] \in Contents
    BY <1>7 DEF Publish
  <2> QED
    BY <1>7, <2>1 DEF Publish, Return
<1>8. ASSUME NEW w \in Tasks, Fail(w) PROVE BlobTypeOK'
  BY <1>8 DEF Fail, Return
<1>9. ASSUME NEW c \in Contents, DeleteBlob(c) PROVE BlobTypeOK'
  BY <1>9 DEF DeleteBlob
<1>10. CASE UNCHANGED blobVars
  BY <1>10 DEF blobVars
<1> QED
  BY <1>1, <1>2, <1>3, <1>4, <1>5, <1>6, <1>7, <1>8, <1>9, <1>10 DEF BlobNext, Task

\* Every reachable state is well typed (the shapes of the directory, the
\* inodes and the tasks of FsBlobStore).
THEOREM BlobsTyped == BlobSpec => []BlobTypeOK
  BY TypeInit, TypeStep, PTL DEF BlobSpec

-----------------------------------------------------------------------------
(* Whose file is whose: an inode has one name at most, a put_stream shares *)
(* its file with nobody, and all that write into one inode write the same  *)
(* content.                                                                *)
Streaming == {"stream", "check", "publish"}
Filling == {"write", "rename"}

Links ==
  /\ \A c, d \in Contents : blob[c] # NoInode => blob[c] # tmp[d]
  /\ \A c, d \in Contents : c # d /\ blob[c] # NoInode => blob[c] # blob[d]
  /\ \A c, d \in Contents : c # d /\ tmp[c] # NoInode => tmp[c] # tmp[d]
  /\ \A w \in Tasks, c \in Contents :
       pc[w] \in Streaming => ino[w] # blob[c] /\ ino[w] # tmp[c]

Holders ==
  /\ \A w \in Tasks : pc[w] \in {"idle", "create"} => ino[w] = NoInode
  /\ \A w \in Tasks : pc[w] \in Filling \cup Streaming => ino[w] \in Inodes
  /\ \A w \in Tasks : own[w] = IF pc[w] \in Streaming THEN ino[w] ELSE NoInode
  /\ \A w, x \in Tasks : w # x /\ pc[w] \in Streaming => ino[w] # ino[x]
  /\ \A w \in Tasks, c \in Contents :
       pc[w] \in Filling /\ ino[w] \in {blob[c], tmp[c]} => want[w] = c
  /\ \A w, x \in Tasks :
       pc[w] \in Filling /\ pc[x] \in Filling /\ ino[w] = ino[x] => want[w] = want[x]

Ownership == BlobTypeOK /\ Links /\ Holders

LEMMA OwnershipStep == Ownership /\ [BlobNext]_blobVars => Ownership'
<1> SUFFICES ASSUME Ownership, [BlobNext]_blobVars PROVE Links' /\ Holders'
  BY TypeStep DEF Ownership
<1> USE BlobAssumption DEF Ownership, BlobTypeOK, Streaming, Filling
<1>1. ASSUME NEW w \in Tasks, NEW c \in Contents, BeginPut(w, c) PROVE Links' /\ Holders'
  BY <1>1 DEF BeginPut, dir, Links, Holders
<1>2. ASSUME NEW w \in Tasks, NEW c \in Contents, BeginStream(w, c) PROVE Links' /\ Holders'
  <2>1. NewInode \in Free
    BY <1>2, NewInodeFree DEF BeginStream
  <2>2. Links'
    BY <1>2, <2>1 DEF BeginStream, Open, Free, Links
  <2>3. Holders'
    BY <1>2, <2>1 DEF BeginStream, Open, Free, Holders
  <2> QED BY <2>2, <2>3
<1>3. ASSUME NEW w \in Tasks, CreateTmp(w) PROVE Links' /\ Holders'
  <2>0. want[w] \in Contents /\ pc[w] = "create" /\ UNCHANGED <<blob, own, want>>
    BY <1>3 DEF CreateTmp
  <2>1. CASE tmp[want[w]] # NoInode /\ Open(w, tmp[want[w]], "write") /\ UNCHANGED tmp
    <3>1. Links'
      BY <2>0, <2>1 DEF Open, Links
    <3>2. Holders'
      BY <2>0, <2>1 DEF Open, Links, Holders
    <3> QED BY <3>1, <3>2
  <2>2. CASE /\ tmp[want[w]] = NoInode /\ Free # {}
             /\ Open(w, NewInode, "write") /\ tmp' = [tmp EXCEPT ![want[w]] = NewInode]
    <3>0. NewInode \in Free
      BY <2>2, NewInodeFree
    <3>1. Links'
      BY <2>0, <2>2, <3>0 DEF Open, Free, Links
    <3>2. Holders'
      BY <2>0, <2>2, <3>0 DEF Open, Free, Holders
    <3> QED BY <3>1, <3>2
  <2> QED BY <1>3, <2>1, <2>2 DEF CreateTmp
<1>4. ASSUME NEW w \in Tasks, Write(w) PROVE Links' /\ Holders'
  BY <1>4 DEF Write, dir, Links, Holders
<1>5. ASSUME NEW w \in Tasks, Rename(w) PROVE Links' /\ Holders'
  <2>0. want[w] \in Contents
    BY <1>5 DEF Rename
  <2>1. Links'
    <3>1. CASE tmp[want[w]] = NoInode
      BY <1>5, <2>0, <3>1 DEF Rename, Return, Links
    <3>2. CASE tmp[want[w]] # NoInode
      <4>1. /\ blob' = [blob EXCEPT ![want[w]] = tmp[want[w]]]
            /\ tmp' = [tmp EXCEPT ![want[w]] = NoInode]
        BY <1>5, <3>2 DEF Rename
      <4>2. \A x \in Tasks : pc'[x] \in Streaming => pc[x] \in Streaming /\ ino'[x] = ino[x]
        BY <1>5 DEF Rename, Return
      <4>3. \A x \in Tasks : pc[x] \in Streaming => ino[x] # NoInode
        BY DEF Holders
      <4>4. \A x \in Tasks, c \in Contents :
              pc'[x] \in Streaming => ino'[x] # blob'[c] /\ ino'[x] # tmp'[c]
        BY <2>0, <4>1, <4>2, <4>3 DEF Links
      <4>5. \A c, d \in Contents :
              /\ blob'[c] # NoInode => blob'[c] # tmp'[d]
              /\ c # d /\ blob'[c] # NoInode => blob'[c] # blob'[d]
              /\ c # d /\ tmp'[c] # NoInode => tmp'[c] # tmp'[d]
        BY <2>0, <4>1 DEF Links
      <4> QED BY <4>4, <4>5 DEF Links
    <3> QED BY <3>1, <3>2
  <2>2. Holders'
    BY <1>5, <2>0 DEF Rename, Return, Holders
  <2> QED BY <2>1, <2>2
<1>6. ASSUME NEW w \in Tasks, CheckExists(w) PROVE Links' /\ Holders'
  <2>1. Links'
    BY <1>6 DEF CheckExists, Return, Links
  <2>2. Holders'
    BY <1>6 DEF CheckExists, Return, Holders
  <2> QED BY <2>1, <2>2
<1>7. ASSUME NEW w \in Tasks, Publish(w) PROVE Links' /\ Holders'
  <2>0. want[w] \in Contents /\ own[w] = ino[w]
    BY <1>7 DEF Publish, Holders
  <2>1. Links'
    BY <1>7, <2>0 DEF Publish, Return, Links, Holders
  <2>2. Holders'
    BY <1>7, <2>0 DEF Publish, Return, Links, Holders
  <2> QED BY <2>1, <2>2
<1>8. ASSUME NEW w \in Tasks, Fail(w) PROVE Links' /\ Holders'
  <2>1. Links'
    BY <1>8 DEF Fail, Return, Links
  <2>2. Holders'
    BY <1>8 DEF Fail, Return, Holders
  <2> QED BY <2>1, <2>2
<1>9. ASSUME NEW c \in Contents, DeleteBlob(c) PROVE Links' /\ Holders'
  BY <1>9 DEF DeleteBlob, Links, Holders
<1>10. CASE UNCHANGED blobVars
  BY <1>10 DEF blobVars, Links, Holders
<1> QED
  BY <1>1, <1>2, <1>3, <1>4, <1>5, <1>6, <1>7, <1>8, <1>9, <1>10 DEF BlobNext, Task

-----------------------------------------------------------------------------
(* What is in the files.                                                   *)

\* The chunks of c that are in inode i are all of them, or a put that has the
\* file open has written the first ones since it was last truncated.
Good(i, c) ==
  /\ data[i] \subseteq Whole(c)
  /\ \/ data[i] = Whole(c)
     \/ \E w \in Tasks : /\ pc[w] = "write" /\ ino[w] = i /\ want[w] = c
                         /\ First(c, done[w]) \subseteq data[i]

Streamed ==
  \A w \in Tasks :
    /\ pc[w] = "stream" => data[ino[w]] = First(want[w], done[w])
    /\ pc[w] \in {"check", "publish"} => data[ino[w]] = Whole(want[w])

Filled ==
  breaks = 0 =>
    \A c \in Contents :
      /\ blob[c] # NoInode => Good(blob[c], c)
      /\ tmp[c] # NoInode => Good(tmp[c], c)

SettleInv == Ownership /\ Streamed /\ Filled

LEMMA SettleInit == BlobInit => SettleInv
  BY TypeInit, BlobAssumption
  DEF BlobInit, SettleInv, Ownership, Links, Holders, Streamed, Filled, Streaming, Filling

LEMMA StreamedStep == Ownership /\ Streamed /\ [BlobNext]_blobVars => Streamed'
<1> SUFFICES ASSUME Ownership, Streamed, [BlobNext]_blobVars PROVE Streamed'
  OBVIOUS
<1> USE BlobAssumption DEF Ownership, BlobTypeOK, Streamed, Streaming, Filling
<1>1. ASSUME NEW w \in Tasks, NEW c \in Contents, BeginPut(w, c) PROVE Streamed'
  BY <1>1 DEF BeginPut, dir
<1>2. ASSUME NEW w \in Tasks, NEW c \in Contents, BeginStream(w, c) PROVE Streamed'
  BY <1>2, NewInodeFree, FirstZero DEF BeginStream, Open, Free
<1>3. ASSUME NEW w \in Tasks, CreateTmp(w) PROVE Streamed'
  <2>0. want[w] \in Contents /\ pc[w] = "create" /\ UNCHANGED want
    BY <1>3 DEF CreateTmp
  <2>1. \E i \in Inodes : Open(w, i, "write") /\ (i = tmp[want[w]] \/ i \in Free)
    BY <1>3, <2>0, NewInodeFree DEF CreateTmp, Free
  <2>2. PICK i \in Inodes : Open(w, i, "write") /\ (i = tmp[want[w]] \/ i \in Free)
    BY <2>1
  <2>3. \A x \in Tasks : pc[x] \in Streaming => x # w /\ ino[x] # i
    BY <2>0, <2>2 DEF Links, Free
  <2> QED
    BY <2>0, <2>2, <2>3 DEF Open, Holders
<1>4. ASSUME NEW w \in Tasks, Write(w) PROVE Streamed'
  <2>0. /\ want[w] \in Contents /\ ino[w] \in Inodes /\ done[w] \in Nat /\ done[w] < Chunks
        /\ UNCHANGED <<want, ino>>
    BY <1>4 DEF Write
  <2>1. \A x \in Tasks : x # w /\ pc[x] \in Streaming =>
          data'[ino[x]] = data[ino[x]] /\ done'[x] = done[x] /\ pc'[x] = pc[x]
    BY <1>4 DEF Write, Holders
  <2>2. \A x \in Tasks : x # w => pc'[x] = pc[x]
    BY <1>4 DEF Write
  <2>3. pc'[w] \in Streaming => pc[w] = "stream"
    BY <1>4 DEF Write
  <2>4. CASE pc[w] = "stream"
    <3>1. data'[ino[w]] = First(want[w], done[w] + 1) /\ done'[w] = done[w] + 1
      BY <1>4, <2>0, <2>4, FirstNext DEF Write
    <3>2. pc'[w] = IF done[w] + 1 < Chunks THEN "stream" ELSE "check"
      BY <1>4, <2>4 DEF Write
    <3>3. pc'[w] = "check" => done[w] + 1 = Chunks
      BY <2>0, <3>2
    <3> QED
      BY <2>0, <2>1, <2>2, <3>1, <3>2, <3>3 DEF Whole
  <2> QED
    BY <2>0, <2>1, <2>2, <2>3, <2>4
<1>5. ASSUME NEW w \in Tasks, Rename(w) PROVE Streamed'
  BY <1>5 DEF Rename, Return
<1>6. ASSUME NEW w \in Tasks, CheckExists(w) PROVE Streamed'
  BY <1>6 DEF CheckExists, Return
<1>7. ASSUME NEW w \in Tasks, Publish(w) PROVE Streamed'
  BY <1>7 DEF Publish, Return
<1>8. ASSUME NEW w \in Tasks, Fail(w) PROVE Streamed'
  BY <1>8 DEF Fail, Return
<1>9. ASSUME NEW c \in Contents, DeleteBlob(c) PROVE Streamed'
  BY <1>9 DEF DeleteBlob
<1>10. CASE UNCHANGED blobVars
  BY <1>10 DEF blobVars
<1> QED
  BY <1>1, <1>2, <1>3, <1>4, <1>5, <1>6, <1>7, <1>8, <1>9, <1>10 DEF BlobNext, Task

\* A step that leaves an inode and its writers alone leaves it good.
LEMMA GoodStays ==
  ASSUME NEW i, NEW c, Good(i, c), data'[i] = data[i],
         \A w \in Tasks : pc[w] = "write" =>
            pc'[w] = "write" /\ ino'[w] = ino[w] /\ want'[w] = want[w] /\ done'[w] = done[w]
  PROVE  Good(i, c)'
  BY DEF Good

LEMMA FilledStep == SettleInv /\ [BlobNext]_blobVars => Filled'
<1> SUFFICES ASSUME SettleInv, [BlobNext]_blobVars, breaks' = 0
             PROVE  \A c \in Contents : /\ blob'[c] # NoInode => Good(blob[c], c)'
                                        /\ tmp'[c] # NoInode => Good(tmp[c], c)'
  BY DEF Filled
<1> USE BlobAssumption DEF SettleInv, Ownership, BlobTypeOK, Streaming, Filling
<1>0. breaks = 0
  BY DEF BlobNext, Task, BeginPut, BeginStream, CreateTmp, Write, Rename, CheckExists, Publish,
         Fail, DeleteBlob, blobVars
<1> DEFINE Goal == \A c \in Contents : /\ blob'[c] # NoInode => Good(blob[c], c)'
                                       /\ tmp'[c] # NoInode => Good(tmp[c], c)'
<1>a. \A c \in Contents : /\ blob[c] # NoInode => Good(blob[c], c)
                          /\ tmp[c] # NoInode => Good(tmp[c], c)
  BY <1>0 DEF Filled
<1>1. ASSUME NEW w \in Tasks, NEW c \in Contents, BeginPut(w, c) PROVE Goal
  BY <1>1, <1>a DEF BeginPut, dir, Good
<1>2. ASSUME NEW w \in Tasks, NEW c \in Contents, BeginStream(w, c) PROVE Goal
  <2>1. NewInode \in Free /\ pc[w] = "idle" /\ UNCHANGED <<blob, tmp>>
    BY <1>2, NewInodeFree DEF BeginStream
  <2>2. \A i \in Inodes : i # NewInode => data'[i] = data[i]
    BY <1>2 DEF BeginStream, Open
  <2>3. \A x \in Tasks : pc[x] = "write" =>
          pc'[x] = "write" /\ ino'[x] = ino[x] /\ want'[x] = want[x] /\ done'[x] = done[x]
    BY <1>2, <2>1 DEF BeginStream, Open
  <2>4. \A d \in Contents : blob[d] # NewInode /\ tmp[d] # NewInode
    BY <2>1 DEF Free
  <2> QED
    BY <1>a, <2>1, <2>2, <2>3, <2>4, GoodStays DEF Good
<1>3. ASSUME NEW w \in Tasks, CreateTmp(w) PROVE Goal
  <2>0. want[w] \in Contents /\ pc[w] = "create" /\ UNCHANGED <<blob, want>>
    BY <1>3 DEF CreateTmp
  <2>1. tmp'[want[w]] \in Inodes /\ Open(w, tmp'[want[w]], "write")
        /\ \A d \in Contents : d # want[w] => tmp'[d] = tmp[d]
    BY <1>3, <2>0, NewInodeFree DEF CreateTmp, Free
  <2>2. \A d \in Contents : /\ blob[d] # NoInode => blob[d] # tmp'[want[w]]
                            /\ d # want[w] /\ tmp[d] # NoInode => tmp[d] # tmp'[want[w]]
    BY <1>3, <2>0, NewInodeFree DEF CreateTmp, Free, Links
  <2>3. \A x \in Tasks : pc[x] = "write" =>
          pc'[x] = "write" /\ ino'[x] = ino[x] /\ want'[x] = want[x] /\ done'[x] = done[x]
    BY <2>0, <2>1 DEF Open
  <2>4. \A i \in Inodes : i # tmp'[want[w]] => data'[i] = data[i]
    BY <2>1 DEF Open
  <2>5. Good(tmp[want[w]], want[w])'
    <3>1. data'[tmp'[want[w]]] = {} /\ pc'[w] = "write" /\ ino'[w] = tmp'[want[w]] /\ done'[w] = 0
      BY <2>1 DEF Open
    <3> QED BY <2>0, <3>1, FirstZero DEF Good
  <2>6. ASSUME NEW d \in Contents, blob[d] # NoInode PROVE Good(blob[d], d)'
    BY <1>a, <2>0, <2>2, <2>3, <2>4, <2>6, GoodStays
  <2>7. ASSUME NEW d \in Contents, d # want[w], tmp[d] # NoInode PROVE Good(tmp[d], d)'
    <3>1. Good(tmp[d], d) /\ data'[tmp[d]] = data[tmp[d]] /\ tmp'[d] = tmp[d]
      BY <1>a, <2>1, <2>2, <2>4, <2>7
    <3> QED BY <2>3, <3>1 DEF Good
  <2> QED
    BY <2>0, <2>1, <2>5, <2>6, <2>7
<1>4. ASSUME NEW w \in Tasks, Write(w) PROVE Goal
  <2>0. /\ want[w] \in Contents /\ ino[w] \in Inodes /\ done[w] \in Nat /\ done[w] < Chunks
        /\ UNCHANGED <<blob, tmp, want, ino>>
    BY <1>4 DEF Write, dir
  <2>1. /\ data'[ino[w]] = data[ino[w]] \cup {<<want[w], done[w] + 1>>}
        /\ \A i \in Inodes : i # ino[w] => data'[i] = data[i]
    BY <1>4, <2>0 DEF Write
  <2>2. \A x \in Tasks : x # w => pc'[x] = pc[x] /\ done'[x] = done[x]
    BY <1>4 DEF Write
  <2>3. ASSUME NEW d \in Contents, NEW i \in Inodes, i \in {blob[d], tmp[d]}, Good(i, d)
        PROVE  /\ data'[i] \subseteq Whole(d)
               /\ \/ data'[i] = Whole(d)
                  \/ \E x \in Tasks : /\ pc'[x] = "write" /\ ino[x] = i /\ want[x] = d
                                      /\ First(d, done'[x]) \subseteq data'[i]
    <3>1. CASE i # ino[w]
      BY <2>1, <2>2, <2>3, <3>1 DEF Good
    <3>2. CASE i = ino[w]
      <4>1. pc[w] = "write" /\ want[w] = d
        BY <1>4, <2>3, <3>2 DEF Write, Links, Holders
      <4>2. data'[i] \subseteq Whole(d) /\ data[i] \subseteq data'[i]
        BY <2>0, <2>1, <2>3, <3>2, <4>1, FirstInWhole DEF Good
      <4>3. CASE data[i] = Whole(d)
        BY <4>2, <4>3
      <4>4. ASSUME NEW x \in Tasks, x # w, pc[x] = "write", ino[x] = i, want[x] = d,
                   First(d, done[x]) \subseteq data[i]
            PROVE  pc'[x] = "write" /\ First(d, done'[x]) \subseteq data'[i]
        BY <2>2, <4>2, <4>4
      <4>5. CASE First(d, done[w]) \subseteq data[i]
        <5>1. First(d, done[w] + 1) \subseteq data'[i]
          BY <2>0, <2>1, <3>2, <4>1, <4>2, <4>5, FirstNext
        <5>2. CASE done[w] + 1 < Chunks
          <6>1. pc'[w] = "write" /\ done'[w] = done[w] + 1
            BY <1>4, <4>1, <5>2 DEF Write
          <6> QED BY <3>2, <4>1, <4>2, <5>1, <6>1
        <5>3. CASE done[w] + 1 = Chunks
          BY <4>2, <5>1, <5>3 DEF Whole
        <5> QED BY <2>0, <5>2, <5>3
      <4> QED
        BY <2>3, <4>2, <4>3, <4>4, <4>5 DEF Good
    <3> QED BY <3>1, <3>2
  <2>4. ASSUME NEW d \in Contents
        PROVE  /\ blob[d] # NoInode => Good(blob[d], d)'
               /\ tmp[d] # NoInode => Good(tmp[d], d)'
    BY <1>a, <2>0, <2>3 DEF Good
  <2> QED
    BY <2>0, <2>4
<1>5. ASSUME NEW w \in Tasks, Rename(w) PROVE Goal
  <2>0. want[w] \in Contents /\ pc[w] = "rename" /\ UNCHANGED data
    BY <1>5 DEF Rename
  <2>1. \A x \in Tasks : pc[x] = "write" =>
          pc'[x] = "write" /\ ino'[x] = ino[x] /\ want'[x] = want[x] /\ done'[x] = done[x]
    BY <1>5, <2>0 DEF Rename, Return
  <2>2. \A d \in Contents : /\ blob'[d] # NoInode => blob'[d] = blob[d] \/ blob'[d] = tmp[d]
                            /\ tmp'[d] # NoInode => tmp'[d] = tmp[d]
    BY <1>5, <2>0 DEF Rename
  <2> QED
    BY <1>a, <2>0, <2>1, <2>2 DEF Good
<1>6. ASSUME NEW w \in Tasks, CheckExists(w) PROVE Goal
  BY <1>6, <1>a DEF CheckExists, Return, Good
<1>7. ASSUME NEW w \in Tasks, Publish(w) PROVE Goal
  <2>0. want[w] \in Contents /\ pc[w] = "publish" /\ own[w] = ino[w] /\ UNCHANGED <<data, tmp>>
    BY <1>7 DEF Publish, Holders
  <2>1. data[own[w]] = Whole(want[w])
    BY <2>0 DEF Streamed
  <2>2. \A x \in Tasks : pc[x] = "write" =>
          pc'[x] = "write" /\ ino'[x] = ino[x] /\ want'[x] = want[x] /\ done'[x] = done[x]
    BY <1>7, <2>0 DEF Publish, Return
  <2>3. \A d \in Contents : blob'[d] = IF d = want[w] THEN own[w] ELSE blob[d]
    BY <1>7, <2>0 DEF Publish
  <2> QED
    BY <1>a, <2>0, <2>1, <2>2, <2>3 DEF Good
<1>8. ASSUME NEW w \in Tasks, Fail(w) PROVE Goal
  BY <1>8, <1>0 DEF Fail
<1>9. ASSUME NEW c \in Contents, DeleteBlob(c) PROVE Goal
  BY <1>9, <1>a DEF DeleteBlob, Good
<1>10. CASE UNCHANGED blobVars
  BY <1>10, <1>a DEF blobVars, Good
<1> QED
  BY <1>1, <1>2, <1>3, <1>4, <1>5, <1>6, <1>7, <1>8, <1>9, <1>10 DEF BlobNext, Task

\* Without faults a published blob is whole or a put is still filling it,
\* however the puts of fs.rs share and rename their temporary file.
THEOREM BlobsSettle == BlobSpec => []SettledComplete
<1>1. SettleInv /\ [BlobNext]_blobVars => SettleInv'
  BY OwnershipStep, StreamedStep, FilledStep DEF SettleInv
<1>2. SettleInv => SettledComplete
  BY DEF SettleInv, Filled, Good, SettledComplete, Complete
<1> QED
  BY <1>1, <1>2, SettleInit, PTL DEF BlobSpec

-----------------------------------------------------------------------------
(* What faults cannot break.                                               *)

\* A content whose puts never overlapped: its put is alone, works in the
\* temporary file of the content, and what it has written is what is there.
PutAlone ==
  \A c \in Contents \ shared :
    /\ blob[c] # NoInode => data[blob[c]] = Whole(c)
    /\ \A w \in Putting(c) :
         /\ tmp[c] = ino[w]
         /\ pc[w] = "write" => data[ino[w]] = First(c, done[w])
         /\ pc[w] = "rename" => data[ino[w]] = Whole(c)
         /\ \A x \in Putting(c) : x = w

HalfInv == Ownership /\ Streamed /\ PutAlone /\ NoTempLeft

\* A step that leaves the entries of a content, its puts and their files
\* alone leaves it as it is.
LEMMA AloneStays ==
  ASSUME HalfInv, NEW c \in Contents \ shared,
         blob'[c] = blob[c], tmp'[c] = tmp[c],
         blob[c] # NoInode => data'[blob[c]] = data[blob[c]],
         tmp[c] # NoInode => data'[tmp[c]] = data[tmp[c]],
         \A w \in Tasks : want'[w] = c /\ pc'[w] \in Filling =>
            /\ want[w] = c /\ pc'[w] = pc[w] /\ ino'[w] = ino[w] /\ done'[w] = done[w]
  PROVE  /\ blob'[c] # NoInode => data'[blob'[c]] = Whole(c)
         /\ \A w \in Putting(c)' :
              /\ tmp'[c] = ino'[w]
              /\ pc'[w] = "write" => data'[ino'[w]] = First(c, done'[w])
              /\ pc'[w] = "rename" => data'[ino'[w]] = Whole(c)
              /\ \A x \in Putting(c)' : x = w
<1>1. Putting(c)' \subseteq Putting(c)
  BY DEF Putting, Filling
<1>2. \A w \in Putting(c) : ino[w] \in Inodes /\ ino[w] # NoInode
  BY BlobAssumption DEF Putting, HalfInv, Ownership, Holders, Filling
<1> QED
  BY <1>1, <1>2 DEF HalfInv, PutAlone, Putting, Filling

LEMMA PutAloneStep == HalfInv /\ [BlobNext]_blobVars => PutAlone'
<1> SUFFICES ASSUME HalfInv, [BlobNext]_blobVars PROVE PutAlone'
  OBVIOUS
<1> USE BlobAssumption DEF Ownership, BlobTypeOK, Streaming, Filling
<1>1. ASSUME NEW w \in Tasks, NEW c \in Contents, BeginPut(w, c) PROVE PutAlone'
  <2>1. UNCHANGED <<blob, tmp, data, ino, done, shared>>
    BY <1>1 DEF BeginPut, dir
  <2>2. \A x \in Tasks : pc'[x] \in Filling => pc'[x] = pc[x] /\ want'[x] = want[x]
    BY <1>1 DEF BeginPut, HalfInv
  <2> QED BY <2>1, <2>2, AloneStays DEF PutAlone
<1>2. ASSUME NEW w \in Tasks, NEW c \in Contents, BeginStream(w, c) PROVE PutAlone'
  <2>1. NewInode \in Free /\ pc[w] = "idle" /\ UNCHANGED <<blob, tmp, shared>>
    BY <1>2, NewInodeFree DEF BeginStream
  <2>2. \A i : i # NewInode => data'[i] = data[i]
    BY <1>2 DEF BeginStream, Open, HalfInv
  <2>3. \A x \in Tasks : pc'[x] \in Filling =>
          pc'[x] = pc[x] /\ want'[x] = want[x] /\ ino'[x] = ino[x] /\ done'[x] = done[x]
    BY <1>2 DEF BeginStream, Open, HalfInv
  <2>4. \A d \in Contents : blob[d] # NewInode /\ tmp[d] # NewInode
    BY <2>1 DEF Free
  <2> QED BY <2>1, <2>2, <2>3, <2>4, AloneStays DEF PutAlone
<1>3. ASSUME NEW w \in Tasks, CreateTmp(w) PROVE PutAlone'
  <2>0. want[w] \in Contents /\ pc[w] = "create" /\ UNCHANGED <<blob, want>>
    BY <1>3 DEF CreateTmp, HalfInv
  <2>1. tmp'[want[w]] \in Inodes /\ Open(w, tmp'[want[w]], "write")
        /\ \A d \in Contents : d # want[w] => tmp'[d] = tmp[d]
    BY <1>3, <2>0, NewInodeFree DEF CreateTmp, Free, HalfInv
  <2>2. \A d \in Contents : /\ blob[d] # NoInode => blob[d] # tmp'[want[w]]
                            /\ d # want[w] /\ tmp[d] # NoInode => tmp[d] # tmp'[want[w]]
    BY <1>3, <2>0, NewInodeFree DEF CreateTmp, Free, Links, HalfInv
  <2>3. \A i : i # tmp'[want[w]] => data'[i] = data[i]
    BY <2>1 DEF Open, HalfInv
  <2>4. \A x \in Tasks : x # w =>
          pc'[x] = pc[x] /\ want'[x] = want[x] /\ ino'[x] = ino[x] /\ done'[x] = done[x]
    BY <2>0, <2>1 DEF Open, HalfInv
  <2>5. shared' = IF Putting(want[w]) = {} THEN shared ELSE shared \cup {want[w]}
    BY <1>3 DEF CreateTmp
  <2>6. ASSUME NEW d \in Contents \ shared', d # want[w]
        PROVE  /\ blob'[d] # NoInode => data'[blob'[d]] = Whole(d)
               /\ \A x \in Putting(d)' :
                    /\ tmp'[d] = ino'[x]
                    /\ pc'[x] = "write" => data'[ino'[x]] = First(d, done'[x])
                    /\ pc'[x] = "rename" => data'[ino'[x]] = Whole(d)
                    /\ \A y \in Putting(d)' : y = x
    <3>1. d \in Contents \ shared /\ blob'[d] = blob[d] /\ tmp'[d] = tmp[d]
      BY <2>0, <2>1, <2>5, <2>6
    <3>2. /\ blob[d] # NoInode => data'[blob[d]] = data[blob[d]]
          /\ tmp[d] # NoInode => data'[tmp[d]] = data[tmp[d]]
      BY <2>2, <2>3, <2>6
    <3>3. \A x \in Tasks : want'[x] = d /\ pc'[x] \in Filling =>
            /\ want[x] = d /\ pc'[x] = pc[x] /\ ino'[x] = ino[x] /\ done'[x] = done[x]
      BY <2>0, <2>4, <2>6
    <3> QED BY <3>1, <3>2, <3>3, AloneStays
  <2>7. ASSUME want[w] \notin shared'
        PROVE  LET d == want[w] IN
               /\ blob'[d] # NoInode => data'[blob'[d]] = Whole(d)
               /\ \A x \in Putting(d)' :
                    /\ tmp'[d] = ino'[x]
                    /\ pc'[x] = "write" => data'[ino'[x]] = First(d, done'[x])
                    /\ pc'[x] = "rename" => data'[ino'[x]] = Whole(d)
                    /\ \A y \in Putting(d)' : y = x
    <3>1. Putting(want[w]) = {} /\ want[w] \notin shared
      BY <2>5, <2>7
    <3>2. Putting(want[w])' \subseteq {w}
      BY <2>0, <2>4, <3>1 DEF Putting
    <3>3. /\ pc'[w] = "write" /\ ino'[w] = tmp'[want[w]] /\ done'[w] = 0
          /\ data'[tmp'[want[w]]] = {}
      BY <2>1 DEF Open, HalfInv
    <3>4. blob'[want[w]] # NoInode => data'[blob'[want[w]]] = Whole(want[w])
      BY <2>0, <2>2, <2>3, <3>1 DEF HalfInv, PutAlone
    <3> QED BY <3>2, <3>3, <3>4, FirstZero
  <2> QED BY <2>0, <2>6, <2>7 DEF PutAlone
<1>4. ASSUME NEW w \in Tasks, Write(w) PROVE PutAlone'
  <2>0. /\ want[w] \in Contents /\ ino[w] \in Inodes /\ done[w] \in Nat /\ done[w] < Chunks
        /\ pc[w] \in {"write", "stream"} /\ UNCHANGED <<blob, tmp, want, ino, shared>>
    BY <1>4 DEF Write, dir, HalfInv
  <2>1. /\ data'[ino[w]] = data[ino[w]] \cup {<<want[w], done[w] + 1>>}
        /\ \A i : i # ino[w] => data'[i] = data[i]
    BY <1>4, <2>0 DEF Write, HalfInv
  <2>2. /\ \A x \in Tasks : x # w => pc'[x] = pc[x] /\ done'[x] = done[x]
        /\ done'[w] = done[w] + 1
    BY <1>4 DEF Write, HalfInv
  <2>3. pc[w] = "write" => pc'[w] = IF done[w] + 1 < Chunks THEN "write" ELSE "rename"
    BY <1>4 DEF Write, HalfInv
  <2>3a. pc[w] = "stream" => pc'[w] \in {"stream", "check"}
    BY <1>4 DEF Write, HalfInv
  <2>4. ASSUME NEW d \in Contents \ shared', ~ (pc[w] = "write" /\ want[w] = d)
        PROVE  /\ blob'[d] # NoInode => data'[blob'[d]] = Whole(d)
               /\ \A x \in Putting(d)' :
                    /\ tmp'[d] = ino'[x]
                    /\ pc'[x] = "write" => data'[ino'[x]] = First(d, done'[x])
                    /\ pc'[x] = "rename" => data'[ino'[x]] = Whole(d)
                    /\ \A y \in Putting(d)' : y = x
    <3>1. ino[w] # blob[d] /\ ino[w] # tmp[d]
      BY <2>0, <2>4 DEF HalfInv, Links, Holders
    <3>2. \A x \in Tasks : want'[x] = d /\ pc'[x] \in Filling =>
            /\ want[x] = d /\ pc'[x] = pc[x] /\ ino'[x] = ino[x] /\ done'[x] = done[x]
      BY <2>0, <2>2, <2>3a, <2>4
    <3> QED BY <2>0, <2>1, <3>1, <3>2, AloneStays
  <2>5. ASSUME pc[w] = "write", want[w] \notin shared'
        PROVE  LET d == want[w] IN
               /\ blob'[d] # NoInode => data'[blob'[d]] = Whole(d)
               /\ \A x \in Putting(d)' :
                    /\ tmp'[d] = ino'[x]
                    /\ pc'[x] = "write" => data'[ino'[x]] = First(d, done'[x])
                    /\ pc'[x] = "rename" => data'[ino'[x]] = Whole(d)
                    /\ \A y \in Putting(d)' : y = x
    <3>1. /\ w \in Putting(want[w]) /\ tmp[want[w]] = ino[w]
          /\ data[ino[w]] = First(want[w], done[w])
          /\ \A x \in Putting(want[w]) : x = w
      BY <2>0, <2>5 DEF HalfInv, PutAlone, Putting
    <3>2. Putting(want[w])' \subseteq {w}
      BY <2>0, <2>2, <3>1 DEF Putting
    <3>3. data'[ino[w]] = First(want[w], done'[w])
      BY <2>0, <2>1, <2>2, <3>1, FirstNext
    <3>4. pc'[w] = "rename" => done'[w] = Chunks
      BY <2>0, <2>2, <2>3, <2>5
    <3>5. blob'[want[w]] # NoInode => data'[blob'[want[w]]] = Whole(want[w])
      BY <2>0, <2>1, <2>5, <3>1 DEF HalfInv, PutAlone, Links
    <3> QED BY <2>0, <3>1, <3>2, <3>3, <3>4, <3>5 DEF Whole
  <2> QED BY <2>0, <2>4, <2>5 DEF PutAlone
<1>5. ASSUME NEW w \in Tasks, Rename(w) PROVE PutAlone'
  <2>0. want[w] \in Contents /\ pc[w] = "rename" /\ UNCHANGED <<data, shared>>
    BY <1>5 DEF Rename, HalfInv
  <2>1. /\ pc'[w] = "idle"
        /\ \A x \in Tasks : x # w =>
             pc'[x] = pc[x] /\ want'[x] = want[x] /\ ino'[x] = ino[x] /\ done'[x] = done[x]
    BY <1>5 DEF Rename, Return, HalfInv
  <2>2. \A d \in Contents : d # want[w] => blob'[d] = blob[d] /\ tmp'[d] = tmp[d]
    BY <1>5, <2>0 DEF Rename, HalfInv
  <2>3. ASSUME NEW d \in Contents \ shared', d # want[w]
        PROVE  /\ blob'[d] # NoInode => data'[blob'[d]] = Whole(d)
               /\ \A x \in Putting(d)' :
                    /\ tmp'[d] = ino'[x]
                    /\ pc'[x] = "write" => data'[ino'[x]] = First(d, done'[x])
                    /\ pc'[x] = "rename" => data'[ino'[x]] = Whole(d)
                    /\ \A y \in Putting(d)' : y = x
    BY <2>0, <2>1, <2>2, <2>3, AloneStays
  <2>4. ASSUME NEW d \in Contents \ shared', d = want[w]
        PROVE  /\ blob'[d] # NoInode => data'[blob'[d]] = Whole(d)
               /\ Putting(d)' = {}
    <3>1. /\ tmp[d] = ino[w] /\ data[ino[w]] = Whole(d)
          /\ \A x \in Putting(d) : x = w
      BY <2>0, <2>4 DEF HalfInv, PutAlone, Putting
    <3>2. blob'[d] = ino[w]
      <4>1. tmp[d] # NoInode
        BY <2>0, <3>1 DEF HalfInv, Holders
      <4> QED BY <1>5, <2>0, <2>4, <3>1, <4>1 DEF Rename, HalfInv
    <3>3. Putting(d)' = {}
      BY <2>1, <3>1 DEF Putting
    <3> QED BY <2>0, <3>1, <3>2, <3>3
  <2> QED BY <2>0, <2>3, <2>4 DEF PutAlone
<1>6. ASSUME NEW w \in Tasks, CheckExists(w) PROVE PutAlone'
  <2>1. UNCHANGED <<blob, tmp, data, shared>>
    BY <1>6 DEF CheckExists
  <2>2. \A x \in Tasks : pc'[x] \in Filling =>
          pc'[x] = pc[x] /\ want'[x] = want[x] /\ ino'[x] = ino[x] /\ done'[x] = done[x]
    BY <1>6 DEF CheckExists, Return, HalfInv
  <2> QED BY <2>1, <2>2, AloneStays DEF PutAlone
<1>7. ASSUME NEW w \in Tasks, Publish(w) PROVE PutAlone'
  <2>0. /\ want[w] \in Contents /\ pc[w] = "publish" /\ own[w] = ino[w]
        /\ UNCHANGED <<data, tmp, shared>>
    BY <1>7 DEF Publish, Holders, HalfInv
  <2>1. data[own[w]] = Whole(want[w])
    BY <2>0 DEF HalfInv, Streamed
  <2>2. \A x \in Tasks : pc'[x] \in Filling =>
          pc'[x] = pc[x] /\ want'[x] = want[x] /\ ino'[x] = ino[x] /\ done'[x] = done[x]
    BY <1>7, <2>0 DEF Publish, Return, HalfInv
  <2>3. \A d \in Contents : blob'[d] = IF d = want[w] THEN own[w] ELSE blob[d]
    BY <1>7, <2>0 DEF Publish, HalfInv
  <2>4. ASSUME NEW d \in Contents \ shared'
        PROVE  \A x \in Putting(d)' :
                 /\ tmp'[d] = ino'[x]
                 /\ pc'[x] = "write" => data'[ino'[x]] = First(d, done'[x])
                 /\ pc'[x] = "rename" => data'[ino'[x]] = Whole(d)
                 /\ \A y \in Putting(d)' : y = x
    <3>1. Putting(d)' \subseteq Putting(d)
      BY <2>2 DEF Putting
    <3> QED BY <2>0, <2>2, <3>1 DEF HalfInv, PutAlone, Putting
  <2>5. ASSUME NEW d \in Contents \ shared'
        PROVE  blob'[d] # NoInode => data'[blob'[d]] = Whole(d)
    BY <2>0, <2>1, <2>3 DEF HalfInv, PutAlone
  <2> QED BY <2>4, <2>5 DEF PutAlone
<1>8. ASSUME NEW w \in Tasks, Fail(w) PROVE PutAlone'
  <2>1. UNCHANGED <<blob, tmp, data, shared>>
    BY <1>8 DEF Fail
  <2>2. \A x \in Tasks : pc'[x] \in Filling =>
          pc'[x] = pc[x] /\ want'[x] = want[x] /\ ino'[x] = ino[x] /\ done'[x] = done[x]
    BY <1>8 DEF Fail, Return, HalfInv
  <2> QED BY <2>1, <2>2, AloneStays DEF PutAlone
<1>9. ASSUME NEW c \in Contents, DeleteBlob(c) PROVE PutAlone'
  BY <1>9 DEF DeleteBlob, HalfInv, PutAlone, Putting
<1>10. CASE UNCHANGED blobVars
  BY <1>10 DEF blobVars, HalfInv, PutAlone, Putting
<1> QED
  BY <1>1, <1>2, <1>3, <1>4, <1>5, <1>6, <1>7, <1>8, <1>9, <1>10 DEF BlobNext, Task

LEMMA NoTempLeftStep == HalfInv /\ [BlobNext]_blobVars => NoTempLeft'
<1> SUFFICES ASSUME HalfInv, [BlobNext]_blobVars, breaks' = 0,
                    NEW c \in Contents, tmp'[c] # NoInode
             PROVE  \E w \in Tasks : want'[w] = c /\ pc'[w] \in Filling
  BY DEF NoTempLeft, Putting, Filling
<1> USE BlobAssumption DEF Ownership, BlobTypeOK, Streaming, Filling
<1>0. breaks = 0
  BY DEF BlobNext, Task, BeginPut, BeginStream, CreateTmp, Write, Rename, CheckExists, Publish,
         Fail, DeleteBlob, blobVars, HalfInv
<1>a. tmp[c] # NoInode => \E w \in Tasks : want[w] = c /\ pc[w] \in Filling
  BY <1>0 DEF HalfInv, NoTempLeft, Putting
<1> DEFINE Goal == \E w \in Tasks : want'[w] = c /\ pc'[w] \in Filling
<1>1. ASSUME NEW w \in Tasks, NEW d \in Contents, BeginPut(w, d) PROVE Goal
  BY <1>1, <1>a DEF BeginPut, dir, HalfInv
<1>2. ASSUME NEW w \in Tasks, NEW d \in Contents, BeginStream(w, d) PROVE Goal
  BY <1>2, <1>a DEF BeginStream, Open, HalfInv
<1>3. ASSUME NEW w \in Tasks, CreateTmp(w) PROVE Goal
  <2>0. want[w] \in Contents /\ pc[w] = "create" /\ UNCHANGED want
    BY <1>3 DEF CreateTmp, HalfInv
  <2>1. /\ pc'[w] = "write" /\ \A x \in Tasks : x # w => pc'[x] = pc[x]
        /\ c # want[w] => tmp'[c] = tmp[c]
    BY <1>3, <2>0 DEF CreateTmp, Open, HalfInv
  <2> QED BY <1>a, <2>0, <2>1
<1>4. ASSUME NEW w \in Tasks, Write(w) PROVE Goal
  BY <1>4, <1>a DEF Write, dir, HalfInv
<1>5. ASSUME NEW w \in Tasks, Rename(w) PROVE Goal
  <2>1. c # want[w] /\ tmp'[c] = tmp[c]
    BY <1>5 DEF Rename, HalfInv
  <2>2. \A x \in Tasks : x # w => pc'[x] = pc[x] /\ want'[x] = want[x]
    BY <1>5 DEF Rename, Return, HalfInv
  <2> QED BY <1>a, <2>1, <2>2
<1>6. ASSUME NEW w \in Tasks, CheckExists(w) PROVE Goal
  BY <1>6, <1>a DEF CheckExists, Return, HalfInv
<1>7. ASSUME NEW w \in Tasks, Publish(w) PROVE Goal
  BY <1>7, <1>a DEF Publish, Return, HalfInv
<1>8. ASSUME NEW w \in Tasks, Fail(w) PROVE Goal
  BY <1>8, <1>0 DEF Fail
<1>9. ASSUME NEW d \in Contents, DeleteBlob(d) PROVE Goal
  BY <1>9, <1>a DEF DeleteBlob, HalfInv
<1>10. CASE UNCHANGED blobVars
  BY <1>10, <1>a DEF blobVars
<1> QED
  BY <1>1, <1>2, <1>3, <1>4, <1>5, <1>6, <1>7, <1>8, <1>9, <1>10 DEF BlobNext, Task

\* Whatever writes fail and tasks are dropped, put and put_stream never
\* publish half a file, and without faults no temporary file stays behind.
THEOREM BlobsNeverHalf == BlobSpec => []NothingHalf
<1>1. BlobInit => HalfInv
  BY SettleInit DEF HalfInv, SettleInv, BlobInit, PutAlone, NoTempLeft, Putting
<1>2. HalfInv /\ [BlobNext]_blobVars => HalfInv'
  BY OwnershipStep, StreamedStep, PutAloneStep, NoTempLeftStep DEF HalfInv
<1>3. HalfInv => NothingHalf
  BY DEF HalfInv, PutAlone, NothingHalf, PublishedWhole, Complete
<1> QED
  BY <1>1, <1>2, <1>3, PTL DEF BlobSpec
=============================================================================
