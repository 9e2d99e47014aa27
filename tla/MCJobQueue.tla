----------------------------- MODULE MCJobQueue -----------------------------
(***************************************************************************)
(* Small instances of JobQueue.  Jobs j1 and j2 share a dedup key, j3 has  *)
(* none and is of another kind.                                            *)
(***************************************************************************)
EXTENDS JobQueue, TLC

CONSTANTS j1, j2, j3, s1, s2, d1, server, cli, preview, tag, key

OneKeyJobs == {j1, j2}
MixedJobs == {j1, j3}
MCRow ==
  (j1 :> [kind |-> preview, key |-> key]) @@ (j2 :> [kind |-> preview, key |-> key])
  @@ (j3 :> [kind |-> tag, key |-> NoKey])
MixedRow == [j \in MixedJobs |-> MCRow[j]]
OneKeyRow == [j \in OneKeyJobs |-> MCRow[j]]

ServerWorkers == {s1, s2}
MixedWorkers == {s1, d1}
ServerOnly == [w \in ServerWorkers |-> server]
Mixed == [w \in MixedWorkers |-> IF w = d1 THEN cli ELSE server]
BothKinds == [p \in {server} |-> {preview, tag}]
DrainPreviews == [p \in {server, cli} |-> IF p = server THEN {preview, tag} ELSE {preview}]
OneBackoff == <<1>>
=============================================================================
