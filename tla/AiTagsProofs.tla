---------------------------- MODULE AiTagsProofs ----------------------------
(***************************************************************************)
(* Type correctness of AiTags, and that what the user attaches and makes   *)
(* stays, for any files, names, workers, edits and faults.                 *)
(***************************************************************************)
EXTENDS AiTags, TLAPS

USE DEF Maybe, Kinds, Pairs, Handlers

-----------------------------------------------------------------------------
(* What the operators on rows of tags return.                              *)

LEMMA SelectFound ==
  ASSUME TagsType, NEW n \in Names
  PROVE  Select(n) \in Found
<1> USE AiTagsAssumption
<1>1. CASE Named(n) = {}
  BY <1>1 DEF Select, Found
<1>2. CASE Named(n) # {}
  <2> DEFINE t == CHOOSE t \in Named(n) : TRUE
  <2>1. t \in Named(n)
    BY <1>2
  <2>2. t \in TagIds /\ tags[t].name = n
    BY <2>1 DEF Named
  <2>3. tags[t].kind \in Kinds
    <3>1. tags[t] \in [name: Names, kind: Kinds] \cup {NoTag}
      BY <2>2 DEF TagsType
    <3>2. tags[t] # NoTag
      BY <2>2 DEF NoTag
    <3> QED
      BY <3>1, <3>2
  <2>4. Select(n) = [name |-> n, id |-> t, kind |-> tags[t].kind]
    BY <1>2 DEF Select
  <2> QED
    BY <2>2, <2>3, <2>4 DEF Found
<1> QED
  BY <1>1, <1>2

LEMMA FreshIsDead ==
  ASSUME FreshIds # {}
  PROVE  LET t == CHOOSE i \in FreshIds : TRUE
         IN  t \in TagIds /\ ~Alive(t) /\ t \notin handMade
<1> DEFINE t == CHOOSE i \in FreshIds : TRUE
<1>1. t \in FreshIds
  OBVIOUS
<1>2. FreshIds \subseteq {i \in TagIds : ~Alive(i)} \ handMade
  BY DEF FreshIds, Referred
<1>3. t \in TagIds /\ ~Alive(t) /\ t \notin handMade
  BY <1>1, <1>2
<1> QED
  BY <1>3

LEMMA UpgradeTyped ==
  ASSUME TagsType, NEW seen \in Found, NEW kind \in Kinds, NEW t \in TagIds
  PROVE  Upgrade(seen, kind, t) \in [TagIds -> [name: Names, kind: Kinds] \cup {NoTag}]
  BY DEF TagsType, Upgrade, Alive

LEMMA UpsertedTyped ==
  ASSUME TagsType, NEW seen \in Found, NEW kind \in Kinds, NEW t \in TagIds, Upserted(seen, kind, t)
  PROVE  TagsType'
<1>1. CASE seen.id # None
  BY <1>1, UpgradeTyped DEF Upserted, TagsType, NoTag
<1>2. CASE seen.id = None
  <2>1. seen.name \in Names
    BY DEF Found
  <2> QED
    BY <1>2, <2>1 DEF Upserted, TagsType, NoTag
<1> QED
  BY <1>1, <1>2

LEMMA DropTagsTyped ==
  ASSUME TagsType, NEW T, NEW attached \in SUBSET Pairs, NEW owned \in SUBSET Pairs,
         DropTags(T, attached, owned)
  PROVE  TagsType' /\ fileTags' \subseteq Pairs /\ aiTags' \subseteq Pairs
  BY DEF DropTags, TagsType, NoTag

-----------------------------------------------------------------------------
(* Type correctness.                                                       *)

\* A handler's step that only moves its worker on.
LEMMA GoTyped ==
  ASSUME WorkType, NEW w \in Workers, work[w].pc # "idle", NEW where \in HandlerAt, Go(w, where)
  PROVE  WorkType'
  BY DEF WorkType, Go, HandlerAt

\* A step that gives its worker another record.
LEMMA WorkedTyped ==
  ASSUME WorkType, NEW w \in Workers, NEW r \in Handlers, r.pc # "idle" => r.key \in Keys,
         work' = [work EXCEPT ![w] = r]
  PROVE  WorkType'
  BY DEF WorkType

LEMMA MarkTyped ==
  ASSUME RunsType, NEW k \in Keys, NEW status \in {"pending", "ready", "failed"}, Mark(k, status)
  PROVE  RunsType'
  BY DEF RunsType, Mark, Keys

\* The initial state is typed.
LEMMA TypeInit ==
  ASSUME Init
  PROVE  TypeOK
<1> USE AiTagsAssumption DEF Init
<1>1. 1 \in Commits
  BY DEF Commits
<1>2. TagsType /\ RunsType /\ JobsType /\ CallsType
  BY <1>1 DEF TagsType, RunsType, JobsType, CallsType, NoTag, NoRun, NoJob, Keys
<1>3. WorkType
  BY DEF WorkType, Resting
<1> QED
  BY <1>1, <1>2, <1>3 DEF TypeOK

LEMMA MovedTyped ==
  ASSUME NEW S, NEW s \in TagIds, NEW t \in TagIds
  PROVE  Moved(S, s, t) \subseteq Pairs
<1>1. ASSUME NEW p \in Moved(S, s, t) PROVE p \in Pairs
  <2>1. PICK f \in Files : p = <<f, t>>
    BY <1>1 DEF Moved
  <2> QED
    BY <2>1
<1> QED
  BY <1>1

\* The user's calls and the life of files.
LEMMA UserTyped ==
  ASSUME TypeOK,
         \/ \E f \in Files : Purge(f)
         \/ \E f \in Files, asking \in BOOLEAN : Recommit(f, asking)
         \/ UserStarts \/ UpsertWrite \/ Detach
  PROVE  TypeOK'
<1> USE AiTagsAssumption DEF TypeOK, rows, tasks, bounds, history
<1>1. ASSUME NEW f \in Files, Purge(f) PROVE TypeOK'
  <2>1. RunsType'
    BY <1>1 DEF Purge, RunsType, NoRun
  <2>2. TagsType' /\ JobsType' /\ WorkType' /\ CallsType'
    BY <1>1 DEF Purge, TagsType, JobsType, WorkType, CallsType
  <2> QED
    BY <1>1, <2>1, <2>2 DEF Purge
<1>2. ASSUME NEW f \in Files, NEW asking \in BOOLEAN, Recommit(f, asking) PROVE TypeOK'
  <2>1. current' \in [Files -> Commits \cup {None}]
    BY <1>2 DEF Recommit, Commits
  <2>2. CallsType'
    BY <1>2 DEF Recommit, CallsType
  <2>3. TagsType' /\ RunsType' /\ JobsType' /\ WorkType'
    BY <1>2 DEF Recommit, TagsType, RunsType, JobsType, WorkType
  <2> QED
    BY <1>2, <2>1, <2>2, <2>3 DEF Recommit
<1>3. ASSUME Edit PROVE edits' \in 0..MaxEdits /\ faults' \in 0..MaxFaults
  BY <1>3 DEF Edit
<1>4. ASSUME NEW n \in Names, NEW kind \in HandKinds, UpsertSelect(n, kind) PROVE TypeOK'
  <2>1. making' \in [as: Kinds, seen: Found]
    BY <1>4, SelectFound DEF UpsertSelect
  <2>2. CallsType'
    BY <1>4, <2>1 DEF UpsertSelect, CallsType
  <2>3. TagsType' /\ RunsType' /\ JobsType' /\ WorkType'
    BY <1>4 DEF UpsertSelect, TagsType, RunsType, JobsType, WorkType
  <2> QED
    BY <1>3, <1>4, <2>2, <2>3 DEF UpsertSelect
<1>5. ASSUME NEW f \in Files, NEW t \in TagIds, AttachTag(f, t) PROVE TypeOK'
  <2>1. TagsType' /\ RunsType' /\ JobsType' /\ WorkType' /\ CallsType'
    BY <1>5 DEF AttachTag, TagsType, RunsType, JobsType, WorkType, CallsType
  <2> QED
    BY <1>3, <1>5, <2>1 DEF AttachTag
<1>6. ASSUME NEW p \in fileTags, DetachCheck(p) PROVE TypeOK'
  <2>1. TagsType' /\ RunsType' /\ JobsType' /\ WorkType' /\ CallsType'
    BY <1>6 DEF DetachCheck, TagsType, RunsType, JobsType, WorkType, CallsType
  <2> QED
    BY <1>3, <1>6, <2>1 DEF DetachCheck
<1>7. ASSUME NEW p \in fileTags, SmbDetach(p) PROVE TypeOK'
  <2>1. TagsType' /\ RunsType' /\ JobsType' /\ WorkType' /\ CallsType'
    BY <1>7 DEF SmbDetach, Detached, TagsType, RunsType, JobsType, WorkType, CallsType
  <2> QED
    BY <1>3, <1>7, <2>1 DEF SmbDetach, Detached
<1>8. ASSUME NEW t \in TagIds, DeleteTag(t) PROVE TypeOK'
  <2>1. TagsType' /\ fileTags' \subseteq Pairs /\ aiTags' \subseteq Pairs
    BY <1>8, DropTagsTyped DEF DeleteTag
  <2>2. RunsType' /\ JobsType' /\ WorkType' /\ CallsType'
    BY <1>8 DEF DeleteTag, RunsType, JobsType, WorkType, CallsType
  <2> QED
    BY <1>3, <1>8, <2>1, <2>2 DEF DeleteTag
<1>9. ASSUME NEW s \in TagIds, NEW t \in TagIds, MergeTags(s, t) PROVE TypeOK'
  <2>1. TagsType' /\ fileTags' \subseteq Pairs /\ aiTags' \subseteq Pairs
    BY <1>9, DropTagsTyped, MovedTyped DEF MergeTags
  <2>2. RunsType' /\ JobsType' /\ WorkType' /\ CallsType'
    BY <1>9 DEF MergeTags, RunsType, JobsType, WorkType, CallsType
  <2>3. byHand' \subseteq Pairs /\ wasAi' \subseteq Pairs
    BY <1>9, MovedTyped DEF MergeTags
  <2> QED
    BY <1>3, <1>9, <2>1, <2>2, <2>3 DEF MergeTags
<1>10. ASSUME NEW t \in TagIds, NEW n \in Names, RenameTag(t, n) PROVE TypeOK'
  <2>1. tags[t] # NoTag
    BY <1>10 DEF RenameTag, Editable, NoTag
  <2>2. TagsType'
    BY <1>10, <2>1 DEF RenameTag, TagsType
  <2>3. RunsType' /\ JobsType' /\ WorkType' /\ CallsType'
    BY <1>10 DEF RenameTag, RunsType, JobsType, WorkType, CallsType
  <2> QED
    BY <1>3, <1>10, <2>2, <2>3 DEF RenameTag
<1>11. CASE UpsertWrite
  <2>1. making \in [as: Kinds, seen: Found]
    BY <1>11 DEF UpsertWrite, CallsType
  <2>2. TagsType' /\ handMade' \subseteq TagIds
    <3>1. CASE UNCHANGED <<tags, handMade>>
      BY <3>1 DEF TagsType
    <3>2. ASSUME NEW t \in TagIds, Upserted(making.seen, making.as, t),
                 handMade' \subseteq handMade \cup {t}
          PROVE  TagsType' /\ handMade' \subseteq TagIds
      BY <2>1, <3>2, UpsertedTyped
    <3> QED
      BY <1>11, <3>1, <3>2 DEF UpsertWrite
  <2>3. RunsType' /\ JobsType' /\ WorkType' /\ CallsType'
    BY <1>11 DEF UpsertWrite, RunsType, JobsType, WorkType, CallsType
  <2> QED
    BY <1>11, <2>2, <2>3 DEF UpsertWrite
<1>12. CASE Detach
  <2>1. TagsType' /\ RunsType' /\ JobsType' /\ WorkType' /\ CallsType'
    BY <1>12 DEF Detach, Detached, TagsType, RunsType, JobsType, WorkType, CallsType
  <2> QED
    BY <1>12, <2>1 DEF Detach, Detached
<1> QED
  BY <1>1, <1>2, <1>4, <1>5, <1>6, <1>7, <1>8, <1>9, <1>10, <1>11, <1>12 DEF UserStarts

\* Asking, and what happens to processes.
LEMMA AskTyped ==
  ASSUME TypeOK,
         \/ \E f \in Images : Regenerate(f) \/ AskStale(f)
         \/ \E k \in Keys : Enqueue(k) \/ MarkPending(k) \/ HandOutAgain(k)
         \/ Cleanup
         \/ \E lost \in BOOLEAN : Crash(lost)
  PROVE  TypeOK'
<1> USE AiTagsAssumption DEF TypeOK, rows, tasks, bounds, history
<1>1. ASSUME NEW f \in Images, Ask(f), bounds' \in (0..MaxEdits) \X (0..MaxFaults) PROVE TypeOK'
  <2>1. CallsType'
    BY <1>1 DEF Ask, CallsType
  <2>2. TagsType' /\ RunsType' /\ JobsType' /\ WorkType'
    BY <1>1 DEF Ask, TagsType, RunsType, JobsType, WorkType
  <2> QED
    BY <1>1, <2>1, <2>2 DEF Ask
<1>2. ASSUME NEW f \in Images, Regenerate(f) \/ AskStale(f) PROVE TypeOK'
  <2>1. bounds' \in (0..MaxEdits) \X (0..MaxFaults)
    BY <1>2 DEF Regenerate, AskStale, Edit
  <2> QED
    BY <1>1, <1>2, <2>1 DEF Regenerate, AskStale
<1>3. ASSUME NEW k \in Keys, Enqueue(k) PROVE TypeOK'
  <2>1. JobsType' /\ CallsType'
    BY <1>3 DEF Enqueue, JobsType, CallsType, NoJob
  <2>2. TagsType' /\ RunsType' /\ WorkType'
    BY <1>3 DEF Enqueue, TagsType, RunsType, WorkType
  <2> QED
    BY <1>3, <2>1, <2>2 DEF Enqueue
<1>4. ASSUME NEW k \in Keys, MarkPending(k) PROVE TypeOK'
  <2>1. RunsType'
    BY <1>4, MarkTyped DEF MarkPending
  <2>2. CallsType'
    BY <1>4 DEF MarkPending, CallsType
  <2>3. TagsType' /\ JobsType' /\ WorkType'
    BY <1>4 DEF MarkPending, TagsType, JobsType, WorkType
  <2> QED
    BY <1>4, <2>1, <2>2, <2>3 DEF MarkPending
<1>5. ASSUME NEW k \in Keys, HandOutAgain(k) PROVE TypeOK'
  <2>1. JobsType'
    BY <1>5 DEF HandOutAgain, JobsType
  <2>2. TagsType' /\ RunsType' /\ WorkType' /\ CallsType'
    BY <1>5 DEF HandOutAgain, TagsType, RunsType, WorkType, CallsType
  <2> QED
    BY <1>5, <2>1, <2>2 DEF HandOutAgain
<1>6. ASSUME Fault PROVE edits' \in 0..MaxEdits /\ faults' \in 0..MaxFaults
  BY <1>6 DEF Fault
<1>7. CASE Cleanup
  <2>1. TagsType' /\ fileTags' \subseteq Pairs /\ aiTags' \subseteq Pairs
    BY <1>7, DropTagsTyped DEF Cleanup, SweepOrphans
  <2>2. RunsType' /\ JobsType' /\ WorkType' /\ CallsType'
    BY <1>7 DEF Cleanup, RunsType, JobsType, WorkType, CallsType
  <2> QED
    BY <1>6, <1>7, <2>1, <2>2 DEF Cleanup
<1>8. ASSUME NEW lost \in BOOLEAN, Crash(lost) PROVE TypeOK'
  <2>1. TagsType' /\ fileTags' \subseteq Pairs /\ aiTags' \subseteq Pairs
    BY <1>8, DropTagsTyped DEF Crash, SweepOrphans
  <2>2. JobsType' /\ CallsType'
    BY <1>8 DEF Crash, JobsType, CallsType, NoJob
  <2>3. RunsType' /\ WorkType'
    BY <1>8 DEF Crash, RunsType, WorkType, Resting
  <2> QED
    BY <1>6, <1>8, <2>1, <2>2, <2>3 DEF Crash
<1> QED
  BY <1>2, <1>3, <1>4, <1>5, <1>7, <1>8

\* The steps of a job handler.
LEMMA HandleTyped ==
  ASSUME TypeOK, NEW w \in Workers, Handle(w)
  PROVE  TypeOK'
<1> USE AiTagsAssumption DEF TypeOK, rows, tasks, bounds, history
<1>1. ASSUME NEW k \in Keys, Take(w, k) PROVE TypeOK'
  <2>1. JobsType'
    BY <1>1 DEF Take, JobsType
  <2>2. WorkType'
    BY <1>1 DEF Take, WorkType, Resting, HandlerAt
  <2>3. crossed' \subseteq Images
    BY <1>1 DEF Take, Keys
  <2>4. TagsType' /\ RunsType' /\ CallsType'
    BY <1>1 DEF Take, TagsType, RunsType, CallsType
  <2> QED
    BY <1>1, <2>1, <2>2, <2>3, <2>4 DEF Take
<1>2. CASE Generate(w)
  <2>1. WorkType'
    <3>1. ASSUME NEW N \in SUBSET Names,
                 work' = [work EXCEPT ![w] = [work[w] EXCEPT !.pc = "resolve", !.todo = N]]
          PROVE  WorkType'
      <4> DEFINE r == [work[w] EXCEPT !.pc = "resolve", !.todo = N]
      <4>1. work[w] \in Handlers /\ work[w].key \in Keys
        BY <1>2 DEF Generate, WorkType
      <4>2. r \in Handlers /\ r.key \in Keys
        BY ONLY <3>1, <4>1 DEF HandlerAt
      <4>3. work' = [work EXCEPT ![w] = r]
        BY ONLY <3>1
      <4> HIDE DEF r
      <4> QED
        BY <4>2, <4>3, WorkedTyped
    <3> QED
      BY <1>2, <3>1, GoTyped DEF Generate, HandlerAt
  <2>2. TagsType' /\ RunsType' /\ JobsType' /\ CallsType'
    BY <1>2 DEF Generate, TagsType, RunsType, JobsType, CallsType
  <2> QED
    BY <1>2, <2>1, <2>2 DEF Generate
<1>3. CASE ResolveSelect(w)
  <2>1. WorkType'
    <3>1. ASSUME NEW n \in work[w].todo,
                 work' = [work EXCEPT ![w] = [work[w] EXCEPT !.todo = @ \ {n}, !.seen = Select(n)]]
          PROVE  WorkType'
      <4> DEFINE r == [work[w] EXCEPT !.todo = @ \ {n}, !.seen = Select(n)]
      <4>1. work[w] \in Handlers /\ work[w].key \in Keys /\ n \in Names
        BY <1>3 DEF ResolveSelect, WorkType
      <4>2. Select(n) \in Found
        BY <4>1, SelectFound
      <4>3. r \in Handlers /\ r.key \in Keys
        BY ONLY <4>1, <4>2
      <4>4. work' = [work EXCEPT ![w] = r]
        BY ONLY <3>1
      <4> HIDE DEF r
      <4> QED
        BY <4>3, <4>4, WorkedTyped
    <3> QED
      BY <1>3, <3>1, GoTyped DEF ResolveSelect, HandlerAt
  <2>2. TagsType' /\ RunsType' /\ JobsType' /\ CallsType'
    BY <1>3 DEF ResolveSelect, TagsType, RunsType, JobsType, CallsType
  <2> QED
    BY <1>3, <2>1, <2>2 DEF ResolveSelect
<1>4. CASE ResolveWrite(w)
  <2>1. work[w].seen \in Found
    BY <1>4 DEF ResolveWrite, WorkType
  <2>2. TagsType' /\ WorkType'
    <3>1. ASSUME NEW t \in TagIds, Upserted(work[w].seen, "ai", t),
                 work' = [work EXCEPT ![w] = [work[w] EXCEPT !.seen = None, !.ids = @ \cup {t}]]
          PROVE  TagsType' /\ WorkType'
      <4> DEFINE r == [work[w] EXCEPT !.seen = None, !.ids = @ \cup {t}]
      <4>1. TagsType'
        BY <2>1, <3>1, UpsertedTyped
      <4>2. work[w] \in Handlers /\ work[w].key \in Keys
        BY <1>4 DEF ResolveWrite, WorkType
      <4>3. r \in Handlers /\ r.key \in Keys
        BY ONLY <4>2, t \in TagIds
      <4>4. work' = [work EXCEPT ![w] = r]
        BY ONLY <3>1
      <4> HIDE DEF r
      <4>5. WorkType'
        BY <4>3, <4>4, WorkedTyped
      <4> QED
        BY <4>1, <4>5
    <3>2. ASSUME Go(w, "faulted"), UNCHANGED tags PROVE TagsType' /\ WorkType'
      BY <1>4, <3>2, GoTyped DEF ResolveWrite, HandlerAt, TagsType
    <3> QED
      BY <1>4, <3>1, <3>2 DEF ResolveWrite
  <2>3. RunsType' /\ JobsType' /\ CallsType'
    BY <1>4 DEF ResolveWrite, RunsType, JobsType, CallsType
  <2> QED
    BY <1>4, <2>2, <2>3 DEF ResolveWrite
<1>5. CASE Replace(w)
  <2> DEFINE f == FileOf(w)
             mine == {f} \X work[w].ids
             attached == (fileTags \ (aiTags \cap Of(f))) \cup mine
  <2>1. f \in Images /\ work[w].key[2] \in Commits
    BY <1>5 DEF Replace, WorkType, FileOf, Keys
  <2>2. mine \subseteq Pairs /\ attached \subseteq Pairs /\ (aiTags \ Of(f)) \cup mine \subseteq Pairs
    BY <2>1 DEF WorkType
  <2>3. /\ TagsType' /\ fileTags' \subseteq Pairs /\ aiTags' \subseteq Pairs
        /\ wasAi' \subseteq Pairs /\ shown' \in [Images -> Maybe(Commits)]
        /\ WorkType'
    <3>1. CASE Go(w, "faulted") /\ UNCHANGED <<tags, fileTags, aiTags, wasAi, shown>>
      BY <1>5, <3>1, GoTyped DEF Replace, HandlerAt, TagsType
    <3>2. CASE /\ DropTags(Theirs(Owned(f), attached), attached, (aiTags \ Of(f)) \cup mine)
               /\ wasAi' = wasAi \cup (mine \cap byHand)
               /\ shown' = [shown EXCEPT ![f] = work[w].key[2]]
               /\ Go(w, "record")
      <4>1. TagsType' /\ fileTags' \subseteq Pairs /\ aiTags' \subseteq Pairs
        BY ONLY <2>2, <3>2, DropTagsTyped, TypeOK DEF TypeOK
      <4>2. WorkType'
        BY <1>5, <3>2, GoTyped DEF Replace, HandlerAt
      <4> QED
        BY <2>1, <2>2, <3>2, <4>1, <4>2
    <3>3. \/ Go(w, "faulted") /\ UNCHANGED <<tags, fileTags, aiTags, wasAi, shown>>
          \/ /\ DropTags(Theirs(Owned(f), attached), attached, (aiTags \ Of(f)) \cup mine)
             /\ wasAi' = wasAi \cup (mine \cap byHand)
             /\ shown' = [shown EXCEPT ![f] = work[w].key[2]]
             /\ Go(w, "record")
      BY ONLY <1>5 DEF Replace
    <3> QED
      BY ONLY <3>1, <3>2, <3>3
  <2>4. RunsType' /\ JobsType' /\ CallsType'
    BY <1>5 DEF Replace, RunsType, JobsType, CallsType
  <2> QED
    BY <1>5, <2>3, <2>4 DEF Replace
<1>6. CASE MarkReady(w)
  <2>1. RunsType'
    BY <1>6, MarkTyped DEF MarkReady, WorkType
  <2>2. WorkType'
    BY <1>6, GoTyped DEF MarkReady, HandlerAt
  <2>3. TagsType' /\ JobsType' /\ CallsType'
    BY <1>6 DEF MarkReady, TagsType, JobsType, CallsType
  <2> QED
    BY <1>6, <2>1, <2>2, <2>3 DEF MarkReady
<1>7. CASE Settle(w)
  <2>1. work[w].key \in Keys
    BY <1>7 DEF Settle, WorkType
  <2>2. JobsType'
    BY <1>7, <2>1 DEF Settle, JobsType, NoJob
  <2>3. WorkType'
    <3>1. Resting \in Handlers /\ Resting.pc = "idle"
      BY DEF Resting
    <3>2. CASE work' = [work EXCEPT ![w] = Resting]
      BY <3>1, <3>2, WorkedTyped
    <3>3. ASSUME work' = [work EXCEPT ![w] = [Resting EXCEPT !.pc = "report", !.key = work[w].key]]
          PROVE  WorkType'
      <4> DEFINE r == [Resting EXCEPT !.pc = "report", !.key = work[w].key]
      <4>1. r \in Handlers /\ r.key \in Keys
        BY <2>1 DEF Resting, HandlerAt
      <4>2. work' = [work EXCEPT ![w] = r]
        BY ONLY <3>3
      <4> HIDE DEF r
      <4> QED
        BY <4>1, <4>2, WorkedTyped
    <3> QED
      BY <1>7, <3>2, <3>3 DEF Settle
  <2>4. TagsType' /\ RunsType' /\ CallsType'
    BY <1>7 DEF Settle, TagsType, RunsType, CallsType
  <2> QED
    BY <1>7, <2>2, <2>3, <2>4 DEF Settle
<1>8. CASE MarkFailed(w)
  <2>1. RunsType'
    BY <1>8, MarkTyped DEF MarkFailed, WorkType
  <2>2. WorkType'
    BY <1>8 DEF MarkFailed, WorkType, Resting
  <2>3. TagsType' /\ JobsType' /\ CallsType'
    BY <1>8 DEF MarkFailed, TagsType, JobsType, CallsType
  <2> QED
    BY <1>8, <2>1, <2>2, <2>3 DEF MarkFailed
<1> QED
  BY <1>1, <1>2, <1>3, <1>4, <1>5, <1>6, <1>7, <1>8 DEF Handle

LEMMA TypeStep ==
  ASSUME TypeOK, [Next]_vars
  PROVE  TypeOK'
<1>1. CASE UNCHANGED vars
  BY <1>1 DEF vars, rows, tasks, bounds, history, TypeOK, TagsType, RunsType, JobsType,
              WorkType, CallsType
<1>2. CASE Next
  BY <1>2, UserTyped, AskTyped, HandleTyped DEF Next
<1> QED
  BY <1>1, <1>2

\* Every row and every handler's state stays well-formed, whatever is
\* interleaved: a handler beyond its start has the key of its job, and no
\* step writes a kind or a name into a row of tags that is not there.
THEOREM TagsTyped == Spec => []TypeOK
<1>1. Init => TypeOK
  BY TypeInit
<1>2. TypeOK /\ [Next]_vars => TypeOK'
  BY TypeStep
<1> QED
  BY <1>1, <1>2, PTL DEF Spec

-----------------------------------------------------------------------------
(* What the user attaches stays.                                           *)

\* The history knows what the AI owns of what the user attached.
OwnedKnown == aiTags \cap byHand \subseteq wasAi

HandInv == OwnedKnown /\ HandTagsOfOthersStay

\* A sweep takes no tag that is attached.
LEMMA SweepKeepsAttached ==
  ASSUME NEW T, NEW attached, NEW owned, DropTags(Theirs(T, attached), attached, owned),
         NEW p \in attached, p \in Pairs
  PROVE  p \in fileTags'
<1>1. p \in On(p[2])
  BY DEF On
<1>2. p[2] \notin Theirs(T, attached)
  BY <1>1 DEF Theirs
<1> QED
  BY <1>2 DEF DropTags

LEMMA HandStep ==
  ASSUME TypeOK, HandInv, [Next]_vars
  PROVE  HandInv'
<1> USE DEF HandInv, OwnedKnown, HandTagsOfOthersStay
<1>1. byHand \subseteq Pairs /\ fileTags \subseteq Pairs /\ aiTags \subseteq Pairs
  BY DEF TypeOK
<1>2. ASSUME UNCHANGED <<fileTags, aiTags, byHand, wasAi>> PROVE HandInv'
  BY <1>2
<1>3. ASSUME NEW f \in Files, Purge(f) PROVE HandInv'
  BY <1>3 DEF Purge
<1>4. ASSUME NEW f \in Files, NEW t \in TagIds, AttachTag(f, t) PROVE HandInv'
  BY <1>4 DEF AttachTag
<1>5. ASSUME NEW p, Detached(p) PROVE HandInv'
  BY <1>5 DEF Detached
<1>6. ASSUME NEW t \in TagIds, DeleteTag(t) PROVE HandInv'
  BY <1>1, <1>6 DEF DeleteTag, DropTags, On
<1>7. ASSUME NEW s \in TagIds, NEW t \in TagIds, MergeTags(s, t) PROVE HandInv'
  <2> DEFINE moved == Moved(byHand \cap fileTags, s, t)
  <2>1. \A p \in moved : p \in Moved(fileTags, s, t) /\ p[2] = t
    <3>1. ASSUME NEW p \in moved PROVE p \in Moved(fileTags, s, t) /\ p[2] = t
      <4>1. PICK f \in Files : p = <<f, t>> /\ <<f, s>> \in byHand \cap fileTags
        BY <3>1 DEF Moved
      <4> QED
        BY <4>1 DEF Moved
    <3> QED
      BY <3>1
  <2>2. /\ byHand' = (byHand \ On(s)) \cup moved
        /\ wasAi' = (wasAi \ On(s)) \cup (moved \cap aiTags)
        /\ fileTags' = {p \in fileTags \cup Moved(fileTags, s, t) : p[2] # s}
        /\ aiTags' = {p \in aiTags : p[2] # s}
        /\ s # t
    BY <1>7 DEF MergeTags, DropTags
  <2> HIDE DEF moved
  <2>3. \A p \in byHand : p[2] = s => p \in On(s)
    BY <1>1 DEF On
  <2> QED
    BY <2>1, <2>2, <2>3
<1>8. ASSUME NEW w \in Workers, Replace(w) PROVE HandInv'
  <2> DEFINE f == FileOf(w)
             mine == {f} \X work[w].ids
             attached == (fileTags \ (aiTags \cap Of(f))) \cup mine
  <2>1. CASE UNCHANGED <<fileTags, aiTags, wasAi>>
    BY <1>8, <2>1 DEF Replace
  <2>2. CASE /\ DropTags(Theirs(Owned(f), attached), attached, (aiTags \ Of(f)) \cup mine)
             /\ wasAi' = wasAi \cup (mine \cap byHand)
    <3>1. byHand' = byHand
      BY <1>8 DEF Replace
    <3>2. \A p \in byHand \ wasAi : p \in attached
      OBVIOUS
    <3>3. \A p \in byHand \ wasAi : p \in fileTags'
      BY ONLY <1>1, <2>2, <3>2, SweepKeepsAttached
    <3>4. aiTags' \subseteq (aiTags \ Of(f)) \cup mine
      BY <2>2 DEF DropTags
    <3> QED
      BY <2>2, <3>1, <3>3, <3>4
  <2> QED
    BY ONLY <1>8, <2>1, <2>2 DEF Replace
<1>9. ASSUME SweepOrphans,
             UNCHANGED <<byHand, wasAi>>
      PROVE  HandInv'
  <2>1. aiTags' \subseteq aiTags
    BY <1>9 DEF SweepOrphans, DropTags
  <2>2. \A p \in fileTags : p \in fileTags'
    BY ONLY <1>1, <1>9, SweepKeepsAttached DEF SweepOrphans, Orphans
  <2> QED
    BY <1>9, <2>1, <2>2
<1>10. ASSUME NEW w \in Workers, Handle(w) PROVE HandInv'
  <2>1. Replace(w) \/ UNCHANGED <<fileTags, aiTags, byHand, wasAi>>
    BY <1>10 DEF Handle, Take, Generate, ResolveSelect, ResolveWrite, MarkReady, Settle,
                 MarkFailed, rows, history
  <2> QED
    BY <1>2, <1>8, <2>1
<1>11. CASE UserStarts
  <2>1. ASSUME NEW n \in Names, NEW kind \in HandKinds, UpsertSelect(n, kind) PROVE HandInv'
    BY <1>2, <2>1 DEF UpsertSelect, rows, history
  <2>2. ASSUME NEW p \in fileTags, DetachCheck(p) \/ SmbDetach(p) PROVE HandInv'
    BY <1>2, <1>5, <2>2 DEF DetachCheck, SmbDetach, rows, history
  <2>3. ASSUME NEW t \in TagIds, NEW n \in Names, RenameTag(t, n) PROVE HandInv'
    BY <1>2, <2>3 DEF RenameTag, history
  <2> QED
    BY <1>4, <1>6, <1>7, <1>11, <2>1, <2>2, <2>3 DEF UserStarts
<1>12. CASE Detach
  BY <1>5, <1>12 DEF Detach
<1>13. CASE \E f \in Images : Regenerate(f) \/ AskStale(f)
  BY <1>2, <1>13 DEF Regenerate, AskStale, Ask, rows, history
<1>14. CASE \E f \in Files, asking \in BOOLEAN : Recommit(f, asking)
  BY <1>2, <1>14 DEF Recommit, history
<1>15. CASE \E k \in Keys : Enqueue(k) \/ MarkPending(k) \/ HandOutAgain(k)
  BY <1>2, <1>15 DEF Enqueue, MarkPending, HandOutAgain, rows, history
<1>16. CASE UpsertWrite \/ UNCHANGED vars
  BY <1>2, <1>16 DEF UpsertWrite, vars, rows, history
<1>17. CASE Cleanup \/ \E lost \in BOOLEAN : Crash(lost)
  BY <1>9, <1>17 DEF Cleanup, Crash, history
<1> QED
  BY <1>3, <1>10, <1>11, <1>12, <1>13, <1>14, <1>15, <1>16, <1>17 DEF Next

\* A tag the user attached stays on the file, whatever any worker generates,
\* merges and sweeps do, until the user takes it off or the AI has proposed
\* it too (replace_ai_file_tags detaches only what ai_file_tags lists).
THEOREM HandTagsKept == Spec => []HandTagsOfOthersStay
<1>1. Init => HandInv
  BY DEF Init, HandInv, OwnedKnown, HandTagsOfOthersStay
<1>2. TypeOK /\ HandInv /\ [Next]_vars => HandInv'
  BY HandStep
<1>3. HandInv => HandTagsOfOthersStay
  BY DEF HandInv
<1> QED
  BY <1>1, <1>2, <1>3, TagsTyped, PTL DEF Spec

-----------------------------------------------------------------------------
(* What the user makes stays.                                              *)

\* Writing what upsert_tag selected takes the kind manual from no tag.
LEMMA UpsertedKeepsManual ==
  ASSUME TagsType, handMade \subseteq TagIds, ManualTagsStay,
         NEW seen \in Found, NEW kind \in Kinds, NEW t \in TagIds, Upserted(seen, kind, t)
  PROVE  \A i \in handMade : tags'[i].kind = "manual"
<1>1. CASE seen.id # None
  <2>1. seen.kind \in Kinds
    BY <1>1 DEF Found
  <2>2. tags' = tags \/ (kind = "manual" /\ tags' = [tags EXCEPT ![t].kind = kind])
    <3>1. Priority("ai") = 2 /\ Priority("manual") = 3
      BY DEF Priority
    <3>2. kind = "ai" => ~(Priority(kind) > Priority(seen.kind))
      BY <2>1, <3>1
    <3>3. \/ tags' = tags
          \/ Priority(kind) > Priority(seen.kind) /\ tags' = [tags EXCEPT ![t].kind = kind]
      BY <1>1 DEF Upserted, Upgrade
    <3> QED
      BY <3>2, <3>3
  <2> QED
    BY <2>2 DEF ManualTagsStay, TagsType, NoTag
<1>2. CASE seen.id = None
  <2>1. t \notin handMade
    BY <1>2, FreshIsDead DEF Upserted
  <2>2. tags' = [tags EXCEPT ![t] = [name |-> seen.name, kind |-> kind]]
    BY <1>2 DEF Upserted
  <2> QED
    BY <2>1, <2>2 DEF ManualTagsStay, TagsType
<1> QED
  BY <1>1, <1>2

LEMMA ManualStep ==
  ASSUME TypeOK, ManualTagsStay, [Next]_vars
  PROVE  ManualTagsStay'
<1> USE DEF ManualTagsStay
<1>1. TagsType /\ handMade \subseteq TagIds
  BY DEF TypeOK
<1>2. ASSUME UNCHANGED <<tags, handMade>> PROVE ManualTagsStay'
  BY <1>2
<1>3. ASSUME NEW T, NEW attached, NEW owned, DropTags(T, attached, owned),
             handMade' \subseteq handMade \ T
      PROVE  ManualTagsStay'
  BY <1>1, <1>3 DEF DropTags
<1>4. \A T, attached : Theirs(T, attached) \cap handMade = {}
  BY DEF Theirs
<1>5. CASE UpsertWrite
  <2>1. making \in [as: Kinds, seen: Found]
    BY <1>5 DEF UpsertWrite, TypeOK, CallsType
  <2>2. ASSUME NEW t \in TagIds, Upserted(making.seen, making.as, t),
               handMade' = IF tags'[t] = [name |-> tags'[t].name, kind |-> "manual"]
                           THEN handMade \cup {t} ELSE handMade
        PROVE  ManualTagsStay'
    <3>1. \A i \in handMade : tags'[i].kind = "manual"
      BY <1>1, <2>1, <2>2, UpsertedKeepsManual
    <3>2. tags'[t] = [name |-> tags'[t].name, kind |-> "manual"] => tags'[t].kind = "manual"
      OBVIOUS
    <3> QED
      BY <2>2, <3>1, <3>2
  <2> QED
    BY <1>2, <1>5, <2>2 DEF UpsertWrite
<1>6. ASSUME NEW w \in Workers, ResolveWrite(w) PROVE ManualTagsStay'
  <2>1. work[w].seen \in Found
    BY <1>6 DEF ResolveWrite, TypeOK, WorkType
  <2>2. handMade' = handMade
    BY <1>6 DEF ResolveWrite, history
  <2>3. ASSUME NEW t \in TagIds, Upserted(work[w].seen, "ai", t) PROVE ManualTagsStay'
    BY <1>1, <2>1, <2>2, <2>3, UpsertedKeepsManual
  <2> QED
    BY <1>2, <1>6, <2>2, <2>3 DEF ResolveWrite
<1>7. ASSUME NEW w \in Workers, Replace(w) PROVE ManualTagsStay'
  <2>1. handMade' = handMade
    BY <1>7 DEF Replace
  <2>2. ASSUME NEW T, NEW attached, NEW owned, DropTags(Theirs(T, attached), attached, owned)
        PROVE  ManualTagsStay'
    BY <1>3, <1>4, <2>1, <2>2
  <2> QED
    BY <1>2, <1>7, <2>1, <2>2 DEF Replace
<1>8. ASSUME NEW w \in Workers, Handle(w) PROVE ManualTagsStay'
  <2>1. ResolveWrite(w) \/ Replace(w) \/ UNCHANGED <<tags, handMade>>
    BY <1>8 DEF Handle, Take, Generate, ResolveSelect, MarkReady, Settle, MarkFailed, rows, history
  <2> QED
    BY <1>2, <1>6, <1>7, <2>1
<1>9. CASE UserStarts
  <2>1. ASSUME NEW t \in TagIds, DeleteTag(t) PROVE ManualTagsStay'
    BY <1>3, <2>1 DEF DeleteTag
  <2>2. ASSUME NEW s \in TagIds, NEW t \in TagIds, MergeTags(s, t) PROVE ManualTagsStay'
    BY <1>3, <2>2 DEF MergeTags
  <2>3. ASSUME NEW t \in TagIds, NEW n \in Names, RenameTag(t, n) PROVE ManualTagsStay'
    BY <1>1, <2>3 DEF RenameTag, history, TagsType
  <2>4. ASSUME NEW n \in Names, NEW kind \in HandKinds, UpsertSelect(n, kind) PROVE ManualTagsStay'
    BY <1>2, <2>4 DEF UpsertSelect, rows, history
  <2>5. ASSUME NEW f \in Files, NEW t \in TagIds, AttachTag(f, t) PROVE ManualTagsStay'
    BY <1>2, <2>5 DEF AttachTag
  <2>6. ASSUME NEW p \in fileTags, DetachCheck(p) \/ SmbDetach(p) PROVE ManualTagsStay'
    BY <1>2, <2>6 DEF DetachCheck, SmbDetach, Detached, rows, history
  <2> QED
    BY <1>9, <2>1, <2>2, <2>3, <2>4, <2>5, <2>6 DEF UserStarts
<1>10. CASE Cleanup \/ \E lost \in BOOLEAN : Crash(lost)
  <2>1. SweepOrphans
    BY <1>10 DEF Cleanup, Crash
  <2>2. handMade' = handMade
    BY <1>10 DEF Cleanup, Crash, history
  <2> QED
    BY <1>3, <1>4, <2>1, <2>2 DEF SweepOrphans, Orphans
<1>11. CASE \/ \E f \in Files : Purge(f)
            \/ \E f \in Files, asking \in BOOLEAN : Recommit(f, asking)
  BY <1>2, <1>11 DEF Purge, Recommit, history
<1>12. CASE \/ \E f \in Images : Regenerate(f) \/ AskStale(f)
            \/ \E k \in Keys : Enqueue(k) \/ MarkPending(k) \/ HandOutAgain(k)
  BY <1>2, <1>12 DEF Regenerate, AskStale, Ask, Enqueue, MarkPending, HandOutAgain, rows, history
<1>13. CASE Detach \/ UNCHANGED vars
  BY <1>2, <1>13 DEF Detach, Detached, vars, rows, history
<1> QED
  BY <1>5, <1>8, <1>9, <1>10, <1>11, <1>12, <1>13 DEF Next

\* A tag the user made manual is there and manual until the user removes it,
\* however the two statements of the upserts of workers and users interleave
\* and whenever orphans are swept (upsert_tag, delete_orphaned_ai_tags).
THEOREM ManualTagsKept == Spec => []ManualTagsStay
<1>1. Init => ManualTagsStay
  BY AiTagsAssumption DEF Init, ManualTagsStay, NoTag
<1>2. TypeOK /\ ManualTagsStay /\ [Next]_vars => ManualTagsStay'
  BY ManualStep
<1> QED
  BY <1>1, <1>2, TagsTyped, PTL DEF Spec

-----------------------------------------------------------------------------
(* What a ready run goes with.                                             *)

Busy(w) == work[w].pc # "idle"

\* Nothing is asked, queued, run or recorded for a commit that is not there.
NoneAhead ==
  /\ \A k \in Keys :
       /\ current[k[1]] # None
       /\ asks[k] # "none" \/ jobs[k].state # "none" \/ \E w \in Workers : Busy(w) /\ work[w].key = k
       => k[2] <= current[k[1]]
  /\ \A f \in Images : current[f] # None /\ runs[f].commit # None => runs[f].commit <= current[f]

\* Two handlers of one file have crossed.
Alone ==
  \A v, w \in Workers :
    v # w /\ Busy(v) /\ Busy(w) /\ FileOf(v) = FileOf(w) => FileOf(w) \in crossed

\* A handler that has found its commit to be the head knows of no later
\* answer, and one that has put its tags there finds them there.
Ahead ==
  \A w \in Workers :
    work[w].pc \in {"resolve", "replace"} /\ FileOf(w) \notin crossed
      /\ current[FileOf(w)] # None /\ runs[FileOf(w)].status = "ready"
      => runs[FileOf(w)].commit <= work[w].key[2]
Placed ==
  \A w \in Workers :
    work[w].pc = "record" /\ FileOf(w) \notin crossed => shown[FileOf(w)] = work[w].key[2]

ReadyHasCommit == \A f \in Images : runs[f].status = "ready" => runs[f].commit \in Commits

RunsInv == NoneAhead /\ Alone /\ Ahead /\ Placed /\ ReadyHasCommit /\ ReadyShowsHead

\* The life of the file and what asks for its tags.
LEMMA RunsAskStep ==
  ASSUME TypeOK, RunsInv,
         \/ \E f \in Files : Purge(f)
         \/ \E f \in Files, asking \in BOOLEAN : Recommit(f, asking)
         \/ \E f \in Images : Ask(f)
         \/ \E k \in Keys : Enqueue(k) \/ MarkPending(k) \/ HandOutAgain(k)
         \/ \E lost \in BOOLEAN : Crash(lost)
  PROVE  RunsInv'
<1> USE AiTagsAssumption
    DEF RunsInv, NoneAhead, Alone, Ahead, Placed, ReadyHasCommit, ReadyShowsHead, Busy, FileOf
<1>1. /\ current \in [Files -> Maybe(Commits)] /\ Commits \subseteq Nat /\ None \notin Commits
      /\ runs \in [Images -> [commit: Maybe(Commits), status: {"none", "pending", "ready", "failed"}]]
      /\ asks \in [Keys -> {"none", "enqueue", "pend"}]
      /\ jobs \in [Keys -> [state: {"none", "queued", "held"}, tries: 0..MaxAttempts]]
      /\ \A k \in Keys : k = <<k[1], k[2]>> /\ k[1] \in Images /\ k[2] \in Commits
      /\ \A w \in Workers : Busy(w) => work[w].key \in Keys
  BY DEF TypeOK, Commits, RunsType, CallsType, JobsType, WorkType, Keys
<1>2. ASSUME NEW f \in Files, Purge(f) PROVE RunsInv'
  BY <1>1, <1>2 DEF Purge, tasks, NoRun
<1>3. ASSUME NEW f \in Files, NEW asking \in BOOLEAN, Recommit(f, asking) PROVE RunsInv'
  <2>1. /\ current[f] \in Nat /\ current' = [current EXCEPT ![f] = @ + 1]
        /\ \A g \in Files : current'[g] # None => current[g] # None /\ current[g] <= current'[g]
        /\ UNCHANGED <<runs, jobs, work, shown, crossed>>
    BY <1>1, <1>3 DEF Recommit, history
  <2>2. \/ asks' = asks
        \/ f \in Images /\ asks' = [asks EXCEPT ![<<f, current[f] + 1>>] = "enqueue"]
    BY <1>3 DEF Recommit
  <2>3. NoneAhead'
    <3>1. ASSUME NEW k \in Keys, current'[k[1]] # None,
                 asks'[k] # "none" \/ jobs[k].state # "none" \/ \E w \in Workers : Busy(w) /\ work[w].key = k
          PROVE  k[2] <= current'[k[1]]
      <4>1. CASE asks'[k] # asks[k]
        BY <1>1, <2>1, <2>2, <3>1, <4>1
      <4>2. CASE asks'[k] = asks[k]
        BY <1>1, <2>1, <3>1, <4>2
      <4> QED
        BY <4>1, <4>2
    <3>2. ASSUME NEW g \in Images, current'[g] # None, runs[g].commit # None
          PROVE  runs[g].commit <= current'[g]
      BY <1>1, <2>1, <3>2
    <3> QED
      BY <2>1, <3>1, <3>2
  <2>4. ReadyShowsHead'
    BY <1>1, <2>1
  <2> QED
    BY <1>1, <2>1, <2>3, <2>4
<1>4. ASSUME NEW f \in Images, Ask(f) PROVE RunsInv'
  BY <1>1, <1>4 DEF Ask, rows, history
<1>5. ASSUME NEW k \in Keys, Enqueue(k) PROVE RunsInv'
  BY <1>1, <1>5 DEF Enqueue, NoJob, rows, history
<1>6. ASSUME NEW k \in Keys, MarkPending(k) PROVE RunsInv'
  BY <1>1, <1>6 DEF MarkPending, Mark, history
<1>7. ASSUME NEW k \in Keys, HandOutAgain(k) PROVE RunsInv'
  BY <1>1, <1>7 DEF HandOutAgain, rows, history
<1>8. ASSUME NEW lost \in BOOLEAN, Crash(lost) PROVE RunsInv'
  BY <1>1, <1>8 DEF Crash, NoJob, Resting
<1> QED
  BY <1>2, <1>3, <1>4, <1>5, <1>6, <1>7, <1>8

\* What a step of a handler does to the workers, past taking a job.
LEMMA HandlerMoves ==
  ASSUME WorkType, NEW w \in Workers,
         \/ Generate(w) \/ ResolveSelect(w) \/ ResolveWrite(w) \/ Replace(w)
         \/ MarkReady(w) \/ Settle(w) \/ MarkFailed(w)
  PROVE  /\ Busy(w)
         /\ \A v \in Workers \ {w} : work'[v] = work[v]
         /\ Busy(w)' => work'[w].key = work[w].key
<1> USE DEF Busy
<1>1. work \in [Workers -> Handlers]
  BY DEF WorkType
<1>2. Busy(w)
  BY DEF Generate, ResolveSelect, ResolveWrite, Replace, MarkReady, Settle, MarkFailed
<1>3. ASSUME NEW where, Go(w, where)
      PROVE  /\ \A v \in Workers \ {w} : work'[v] = work[v]
             /\ work'[w].key = work[w].key
  BY <1>1, <1>3 DEF Go
<1>4. ASSUME NEW r, work' = [work EXCEPT ![w] = r], r.pc # "idle" => r.key = work[w].key
      PROVE  /\ \A v \in Workers \ {w} : work'[v] = work[v]
             /\ Busy(w)' => work'[w].key = work[w].key
  BY <1>1, <1>4
<1>5. /\ \A N : [work[w] EXCEPT !.pc = "resolve", !.todo = N].key = work[w].key
      /\ \A t : [work[w] EXCEPT !.seen = None, !.ids = @ \cup {t}].key = work[w].key
      /\ Resting.pc = "idle"
      /\ \A k : [Resting EXCEPT !.pc = "report", !.key = k].key = k
  BY <1>1 DEF Resting
<1>6. CASE Generate(w)
  BY <1>2, <1>3, <1>4, <1>5, <1>6 DEF Generate
<1>7. CASE ResolveSelect(w)
  <2>1. ASSUME NEW n, work' = [work EXCEPT ![w] = [work[w] EXCEPT !.todo = @ \ {n}, !.seen = Select(n)]]
        PROVE  /\ \A v \in Workers \ {w} : work'[v] = work[v]
               /\ work'[w].key = work[w].key
    <3> DEFINE r == [work[w] EXCEPT !.todo = @ \ {n}, !.seen = Select(n)]
    <3>1. r.key = work[w].key
      BY <1>1
    <3>2. work' = [work EXCEPT ![w] = r]
      BY <2>1
    <3> HIDE DEF r
    <3> QED
      BY <1>1, <3>1, <3>2
  <2> QED
    BY <1>2, <1>3, <1>7, <2>1 DEF ResolveSelect
<1>8. CASE ResolveWrite(w)
  BY <1>2, <1>3, <1>4, <1>5, <1>8 DEF ResolveWrite
<1>9. CASE Replace(w)
  BY <1>2, <1>3, <1>9 DEF Replace
<1>10. CASE MarkReady(w)
  BY <1>2, <1>3, <1>10 DEF MarkReady
<1>11. CASE Settle(w)
  BY <1>2, <1>4, <1>5, <1>11 DEF Settle
<1>12. CASE MarkFailed(w)
  BY <1>2, <1>4, <1>5, <1>12 DEF MarkFailed
<1> QED
  BY <1>6, <1>7, <1>8, <1>9, <1>10, <1>11, <1>12

\* What it does to the runs, by where the worker goes.
LEMMA HandlerGoes ==
  ASSUME WorkType, current \in [Files -> Maybe(Commits)], NEW w \in Workers,
         \/ Generate(w) \/ ResolveSelect(w) \/ ResolveWrite(w) \/ Replace(w)
         \/ MarkReady(w) \/ Settle(w) \/ MarkFailed(w)
  PROVE  /\ UNCHANGED <<current, asks, crossed>>
         /\ work'[w].pc \in {"resolve", "replace"} =>
              /\ UNCHANGED <<runs, shown>>
              /\ \/ work[w].pc = "resolve"
                 \/ current[FileOf(w)] \in {None, work[w].key[2]}
         /\ work'[w].pc = "record" =>
              /\ work[w].pc = "replace" /\ current[FileOf(w)] # None /\ UNCHANGED runs
              /\ shown' = [shown EXCEPT ![FileOf(w)] = work[w].key[2]]
         /\ work'[w].pc # "record" => UNCHANGED shown
         /\ \/ UNCHANGED runs
            \/ /\ current[FileOf(w)] # None /\ UNCHANGED shown
               /\ \/ /\ work[w].pc = "record"
                     /\ runs' = [runs EXCEPT ![FileOf(w)] = [commit |-> work[w].key[2], status |-> "ready"]]
                  \/ runs' = [runs EXCEPT ![FileOf(w)] = [commit |-> work[w].key[2], status |-> "failed"]]
<1> USE DEF rows, history
<1>1. work \in [Workers -> Handlers]
  BY DEF WorkType
<1>2. ASSUME NEW where, Go(w, where) PROVE work'[w].pc = where
  BY <1>1, <1>2 DEF Go
<1>3. CASE Generate(w)
  <2>1. work[w].key \in Keys
    BY <1>3 DEF Generate, WorkType
  <2>2. current[FileOf(w)] \in Maybe(Commits)
    BY <2>1, AiTagsAssumption DEF Keys, FileOf
  <2>3. \/ work'[w].pc \in {"done", "rejected", "faulted"}
        \/ work'[w].pc = "resolve" /\ current[FileOf(w)] \in {None, work[w].key[2]}
    <3>1. ASSUME NEW N, work' = [work EXCEPT ![w] = [work[w] EXCEPT !.pc = "resolve", !.todo = N]]
          PROVE  work'[w].pc = "resolve"
      BY <1>1, <3>1
    <3> QED
      BY <1>2, <1>3, <2>2, <3>1 DEF Generate
  <2> QED
    BY <1>3, <2>3 DEF Generate
<1>4. CASE ResolveSelect(w)
  <2>1. work[w].pc = "resolve" /\ work'[w].pc # "record"
    <3>1. ASSUME NEW n, work' = [work EXCEPT ![w] = [work[w] EXCEPT !.todo = @ \ {n}, !.seen = Select(n)]]
          PROVE  work'[w].pc = work[w].pc
      <4> DEFINE r == [work[w] EXCEPT !.todo = @ \ {n}, !.seen = Select(n)]
      <4>1. r.pc = work[w].pc
        BY <1>1
      <4>2. work' = [work EXCEPT ![w] = r]
        BY <3>1
      <4> HIDE DEF r
      <4> QED
        BY <1>1, <4>1, <4>2
    <3> QED
      BY <1>2, <1>4, <3>1 DEF ResolveSelect
  <2> QED
    BY <1>4, <2>1 DEF ResolveSelect
<1>5. CASE ResolveWrite(w)
  <2>1. work[w].pc = "resolve" /\ work'[w].pc # "record"
    <3>1. ASSUME NEW t, work' = [work EXCEPT ![w] = [work[w] EXCEPT !.seen = None, !.ids = @ \cup {t}]]
          PROVE  work'[w].pc = work[w].pc
      BY <1>1, <3>1
    <3> QED
      BY <1>2, <1>5, <3>1 DEF ResolveWrite
  <2> QED
    BY <1>5, <2>1 DEF ResolveWrite
<1>6. CASE Replace(w)
  BY <1>2, <1>6 DEF Replace
<1>7. CASE MarkReady(w)
  <2>1. work'[w].pc \in {"faulted", "done"}
    BY <1>2, <1>7 DEF MarkReady
  <2> QED
    BY <1>7, <2>1 DEF MarkReady, Mark, FileOf
<1>8. CASE Settle(w)
  <2>1. work'[w].pc \in {"idle", "report"}
    BY <1>1, <1>8 DEF Settle, Resting
  <2> QED
    BY <1>8, <2>1 DEF Settle
<1>9. CASE MarkFailed(w)
  <2>1. work'[w].pc = "idle"
    BY <1>1, <1>9 DEF MarkFailed, Resting
  <2> QED
    BY <1>9, <2>1 DEF MarkFailed, Mark, FileOf
<1> QED
  BY <1>3, <1>4, <1>5, <1>6, <1>7, <1>8, <1>9

LEMMA TakeStep ==
  ASSUME TypeOK, RunsInv, NEW w \in Workers, NEW k \in Keys, Take(w, k)
  PROVE  RunsInv'
<1> USE DEF Busy, FileOf
<1>1. ~Busy(w) /\ jobs[k].state # "none"
  BY DEF Take, Resting
<1>2. /\ \A i \in Keys : jobs'[i].state # "none" => jobs[i].state # "none"
      /\ UNCHANGED <<current, runs, asks, shown>>
      /\ crossed \subseteq crossed'
  BY <1>1 DEF Take, rows, TypeOK, JobsType
<1>3. /\ work'[w].pc = "generate" /\ work'[w].key = k
      /\ \A v \in Workers \ {w} : work'[v] = work[v]
  BY DEF Take, Resting, TypeOK, WorkType
<1>4. NoneAhead'
  <2>1. ASSUME NEW i \in Keys, current'[i[1]] # None,
               asks'[i] # "none" \/ jobs'[i].state # "none" \/ \E v \in Workers : Busy(v)' /\ work'[v].key = i
        PROVE  i[2] <= current'[i[1]]
    <3>1. asks[i] # "none" \/ jobs[i].state # "none" \/ \E v \in Workers : Busy(v) /\ work[v].key = i
      BY <1>1, <1>2, <1>3, <2>1
    <3> QED
      BY <1>2, <2>1, <3>1 DEF RunsInv, NoneAhead
  <2>2. \A f \in Images : current'[f] # None /\ runs'[f].commit # None => runs'[f].commit <= current'[f]
    BY <1>2 DEF RunsInv, NoneAhead
  <2> QED
    BY <2>1, <2>2 DEF NoneAhead
<1>5. Alone'
  <2>1. ASSUME NEW v \in Workers, Busy(v), FileOf(v) = k[1] PROVE k[1] \in crossed'
    BY <2>1 DEF Take, Resting
  <2>2. ASSUME NEW u \in Workers, NEW v \in Workers, u # v, Busy(u)', Busy(v)', FileOf(u)' = FileOf(v)'
        PROVE  FileOf(v)' \in crossed'
    <3>1. CASE u = w
      BY <1>3, <2>1, <2>2, <3>1
    <3>2. CASE v = w
      BY <1>3, <2>1, <2>2, <3>2
    <3>3. CASE u # w /\ v # w
      BY <1>2, <1>3, <2>2, <3>3 DEF RunsInv, Alone
    <3> QED
      BY <3>1, <3>2, <3>3
  <2> QED
    BY <2>2 DEF Alone
<1>6. Ahead' /\ Placed' /\ ReadyHasCommit' /\ ReadyShowsHead'
  BY <1>2, <1>3 DEF RunsInv, Ahead, Placed, ReadyHasCommit, ReadyShowsHead
<1> QED
  BY <1>4, <1>5, <1>6 DEF RunsInv

LEMMA RunsHandleStep ==
  ASSUME TypeOK, RunsInv, NEW w \in Workers,
         \/ Generate(w) \/ ResolveSelect(w) \/ ResolveWrite(w) \/ Replace(w)
         \/ MarkReady(w) \/ Settle(w) \/ MarkFailed(w)
  PROVE  RunsInv'
<1> USE DEF Busy
<1>1. WorkType /\ current \in [Files -> Maybe(Commits)]
  BY DEF TypeOK
<1>2. /\ Busy(w)
      /\ Busy(w)' => work'[w].key = work[w].key
      /\ \A v \in Workers \ {w} : work'[v] = work[v]
  BY <1>1, HandlerMoves
<1>3. /\ work[w].key \in Keys /\ FileOf(w) \in Images /\ FileOf(w) \in Files
      /\ work[w].key[2] \in Commits /\ Commits \subseteq Nat /\ None \notin Commits
      /\ work[w].key[1] = FileOf(w)
  BY <1>1, <1>2, AiTagsAssumption DEF WorkType, Keys, Commits, FileOf
<1>4. UNCHANGED <<current, asks, crossed>>
  BY <1>1, HandlerGoes
<1>5. \A k \in Keys : jobs'[k].state # "none" => jobs[k].state # "none" \/ work[w].key = k
  <2>1. jobs' = jobs \/ \E j : jobs' = [jobs EXCEPT ![work[w].key] = j]
    BY DEF Generate, ResolveSelect, ResolveWrite, Replace, MarkReady, Settle, MarkFailed
  <2> QED
    BY <2>1 DEF TypeOK, JobsType
<1>6. \A v \in Workers : Busy(v)' => Busy(v) /\ work'[v].key = work[v].key /\ FileOf(v)' = FileOf(v)
  BY <1>2 DEF FileOf
<1>7. current[FileOf(w)] # None => work[w].key[2] <= current[FileOf(w)]
  BY <1>2, <1>3 DEF RunsInv, NoneAhead
<1>8. \A v \in Workers \ {w} : Busy(v) /\ FileOf(v) = FileOf(w) => FileOf(v) \in crossed
  BY <1>2 DEF RunsInv, Alone
<1>9. runs \in [Images -> [commit: Maybe(Commits), status: {"none", "pending", "ready", "failed"}]]
        /\ shown \in [Images -> Maybe(Commits)]
  BY DEF TypeOK, RunsType
<1>10. \A f \in Images : runs'[f] # runs[f] =>
         /\ f = FileOf(w) /\ current[f] # None /\ UNCHANGED shown
         /\ runs'[f].commit = work[w].key[2]
         /\ runs'[f].status = "ready" => work[w].pc = "record"
  BY <1>1, <1>3, <1>9, HandlerGoes
<1>11. NoneAhead'
  <2>1. ASSUME NEW k \in Keys, current'[k[1]] # None,
               asks'[k] # "none" \/ jobs'[k].state # "none" \/ \E v \in Workers : Busy(v)' /\ work'[v].key = k
        PROVE  k[2] <= current'[k[1]]
    <3>1. asks[k] # "none" \/ jobs[k].state # "none" \/ \E v \in Workers : Busy(v) /\ work[v].key = k
      BY <1>2, <1>4, <1>5, <1>6, <2>1
    <3> QED
      BY <1>4, <2>1, <3>1 DEF RunsInv, NoneAhead
  <2>2. ASSUME NEW f \in Images, current'[f] # None, runs'[f].commit # None
        PROVE  runs'[f].commit <= current'[f]
    BY <1>4, <1>7, <1>10, <2>2 DEF RunsInv, NoneAhead
  <2> QED
    BY <2>1, <2>2 DEF NoneAhead
<1>12. Alone'
  BY <1>4, <1>6 DEF RunsInv, Alone
<1>13. Ahead'
  <2>1. ASSUME NEW v \in Workers, work'[v].pc \in {"resolve", "replace"}, FileOf(v)' \notin crossed',
               current'[FileOf(v)'] # None, runs'[FileOf(v)'].status = "ready"
        PROVE  runs'[FileOf(v)'].commit <= work'[v].key[2]
    <3>1. FileOf(v)' = FileOf(v) /\ Busy(v) /\ work'[v].key = work[v].key /\ FileOf(v) \notin crossed
      BY <1>4, <1>6, <2>1
    <3>2. CASE v = w
      <4>1. /\ UNCHANGED runs
            /\ work[w].pc = "resolve" \/ current[FileOf(w)] \in {None, work[w].key[2]}
        BY <1>1, <2>1, <3>2, HandlerGoes
      <4>2. CASE work[w].pc = "resolve"
        BY <1>4, <2>1, <3>1, <3>2, <4>1, <4>2 DEF RunsInv, Ahead
      <4>3. CASE current[FileOf(w)] = work[w].key[2]
        BY <1>3, <1>4, <2>1, <3>1, <3>2, <4>1, <4>3 DEF RunsInv, NoneAhead, ReadyHasCommit
      <4> QED
        BY <1>4, <2>1, <3>1, <3>2, <4>1, <4>2, <4>3
    <3>3. CASE v # w
      <4>1. FileOf(v) # FileOf(w)
        BY <1>8, <3>1, <3>3
      <4>2. work'[v] = work[v]
        BY <1>2, <3>3
      <4>3. FileOf(v) \in Images
        BY <1>1, <3>1 DEF WorkType, Keys, FileOf
      <4>4. runs'[FileOf(v)] = runs[FileOf(v)]
        BY <1>10, <4>1, <4>3
      <4> QED
        BY <1>4, <2>1, <3>1, <4>2, <4>4 DEF RunsInv, Ahead
    <3> QED
      BY <3>2, <3>3
  <2> QED
    BY <2>1 DEF Ahead
<1>14. Placed'
  <2>1. ASSUME NEW v \in Workers, work'[v].pc = "record", FileOf(v)' \notin crossed'
        PROVE  shown'[FileOf(v)'] = work'[v].key[2]
    <3>1. FileOf(v)' = FileOf(v) /\ Busy(v) /\ work'[v].key = work[v].key /\ FileOf(v) \notin crossed
      BY <1>4, <1>6, <2>1
    <3>2. CASE v = w
      <4>1. shown' = [shown EXCEPT ![FileOf(w)] = work[w].key[2]]
        BY <1>1, <2>1, <3>2, HandlerGoes
      <4> QED
        BY <1>3, <1>9, <3>1, <3>2, <4>1
    <3>3. CASE v # w
      <4>1. FileOf(v) # FileOf(w)
        BY <1>8, <3>1, <3>3
      <4>2. work'[v] = work[v]
        BY <1>2, <3>3
      <4>3. UNCHANGED shown \/ shown' = [shown EXCEPT ![FileOf(w)] = work[w].key[2]]
        BY <1>1, HandlerGoes
      <4>4. shown'[FileOf(v)] = shown[FileOf(v)]
        <5>1. FileOf(v) \in Images
          BY <1>1, <3>1 DEF WorkType, Keys, FileOf
        <5> QED
          BY <1>9, <4>1, <4>3, <5>1
      <4> QED
        BY <2>1, <3>1, <4>2, <4>4 DEF RunsInv, Placed
    <3> QED
      BY <3>2, <3>3
  <2> QED
    BY <2>1 DEF Placed
<1>15. ReadyHasCommit'
  BY <1>3, <1>10 DEF RunsInv, ReadyHasCommit
<1>16. ReadyShowsHead'
  <2>1. ASSUME NEW f \in Images \ crossed, runs'[f].status = "ready", runs'[f].commit = current[f]
        PROVE  shown'[f] = current[f]
    <3>1. CASE runs'[f] # runs[f]
      BY <1>10, <2>1, <3>1 DEF RunsInv, Placed
    <3>2. CASE runs'[f] = runs[f] /\ shown'[f] = shown[f]
      BY <2>1, <3>2 DEF RunsInv, ReadyShowsHead
    <3>3. CASE runs'[f] = runs[f] /\ shown'[f] # shown[f]
      <4>1. work'[w].pc = "record"
        BY <1>1, <3>3, HandlerGoes
      <4>2. /\ work[w].pc = "replace" /\ current[FileOf(w)] # None
            /\ shown' = [shown EXCEPT ![FileOf(w)] = work[w].key[2]]
        BY <1>1, <4>1, HandlerGoes
      <4>3. f = FileOf(w)
        BY <1>9, <3>3, <4>2
      <4>4. runs[f].commit <= work[w].key[2]
        BY <2>1, <3>3, <4>2, <4>3 DEF RunsInv, Ahead
      <4>5. shown'[f] = work[w].key[2]
        BY <1>3, <1>9, <4>2, <4>3
      <4>6. runs[f].commit = current[f] /\ current[f] \in Commits
        BY <2>1, <3>3 DEF RunsInv, ReadyHasCommit
      <4>7. work[w].key[2] <= current[f]
        BY <1>7, <4>2, <4>3
      <4> QED
        <5>1. work[w].key[2] \in Nat /\ current[f] \in Nat
          BY <1>3, <4>6
        <5>2. current[f] <= work[w].key[2] /\ work[w].key[2] <= current[f]
          BY <4>4, <4>6, <4>7
        <5>3. work[w].key[2] = current[f]
          BY ONLY <5>1, <5>2
        <5> QED
          BY ONLY <4>5, <5>3
    <3> QED
      BY <3>1, <3>2, <3>3
  <2> QED
    BY <1>4, <2>1 DEF ReadyShowsHead
<1> QED
  BY <1>11, <1>12, <1>13, <1>14, <1>15, <1>16 DEF RunsInv

\* A file whose run says ready for the head has the tags proposed for the
\* head, through any retries, crashes and commits, unless two workers had it
\* in hand at once (handle compares the commit once, before it describes).
THEOREM ReadyIsOfHead == Spec => []ReadyShowsHead
<1>1. Init => RunsInv
  BY AiTagsAssumption DEF Init, RunsInv, NoneAhead, Alone, Ahead, Placed, ReadyHasCommit,
     ReadyShowsHead, Busy, Keys, NoRun, NoJob, Resting
<1>2. TypeOK /\ RunsInv /\ [Next]_vars => RunsInv'
  <2> SUFFICES ASSUME TypeOK, RunsInv, [Next]_vars PROVE RunsInv'
    OBVIOUS
  <2>1. CASE UNCHANGED <<current, runs, jobs, work, asks, shown, crossed>>
    BY <2>1 DEF RunsInv, NoneAhead, Alone, Ahead, Placed, ReadyHasCommit, ReadyShowsHead, Busy, FileOf
  <2>2. CASE UserStarts \/ UpsertWrite \/ Detach \/ Cleanup \/ UNCHANGED vars
    <3>1. UNCHANGED <<current, runs, jobs, work, asks, shown, crossed>>
      BY <2>2 DEF UserStarts, UpsertSelect, AttachTag, DetachCheck, SmbDetach, DeleteTag, MergeTags,
         RenameTag, UpsertWrite, Detach, Detached, Cleanup, vars, rows, tasks, history
    <3> QED
      BY <2>1, <3>1
  <2> QED
    BY <2>2, RunsAskStep, TakeStep, RunsHandleStep DEF Next, Handle, Regenerate, AskStale
<1>3. RunsInv => ReadyShowsHead
  BY DEF RunsInv
<1> QED
  BY <1>1, <1>2, <1>3, TagsTyped, PTL DEF Spec

\* What the user attached and made, nobody else takes.
THEOREM HandWorkKept == Spec => []HandWorkStays
<1>1. HandTagsOfOthersStay /\ ManualTagsStay => HandWorkStays
  BY DEF HandWorkStays
<1> QED
  BY <1>1, HandTagsKept, ManualTagsKept, PTL
=============================================================================
