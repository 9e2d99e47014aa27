--------------------------- MODULE LibraryProofs ---------------------------
(***************************************************************************)
(* Theorems about Library, for any files, names, tags and requests.        *)
(*                                                                         *)
(* Typed: what each handler knows at each of its calls (Fits, with the     *)
(* table of calls StepTable read both ways), kept by every action.         *)
(*                                                                         *)
(* Together: requests that hold a file at once have met (Meeting), a file  *)
(* that is being made is nobody else's (MadeAlone), a removal that works   *)
(* on a live file has met another request (RemoversSee), what is live is   *)
(* in the index or some request is on its way to put it there (Findable),  *)
(* and a purge clears the index first and leaves nothing behind it         *)
(* (ClearedFirst, PurgedLeft).                                             *)
(*                                                                         *)
(* Right: who is alone on a file, or met nobody on it who could change     *)
(* what it read, still knows the name, the head and the tags (KnowsWell);  *)
(* so what it writes into the index is so, and a table is behind another   *)
(* one only while some request is between the two calls (TablesFit).       *)
(***************************************************************************)
EXTENDS Library, TLAPS

(* A row that is there; what a request at a call knows: the row it read,   *)
(* the name or the tag it was given, the files it has in hand.             *)
Present == [state: {"live", "trash"}, name: Names, head: Nat]

Reaches(c, step) == c.op \in Ops /\ c.at \in DOMAIN Steps[c.op] /\ Steps[c.op][c.at] = step

Knows(c) ==
  \/ c.op \in {"commit", "save", "create", "rename", "upload", "retitle", "fold", "delete", "discard", "restore", "ai"}
       /\ c.at >= 2
  \/ c.op \in {"attach", "detach"} /\ c.at >= 4

Fits(c) ==
  /\ c \in Calls /\ c.at \in DOMAIN Steps[c.op]
  /\ Knows(c) => c.row \in Present
  /\ c.op \in {"create"} \cup Namers => c.name \in Names
  /\ c.op \in {"attach", "detach", "drop"} => c.tag \in UserTags
  /\ c.file = None => c.op = "empty" /\ c.at = 1
  /\ c.todo # {} => c.op = "empty"
  /\ c.file \notin c.todo

CallsFit == \A p \in Requests : call[p] = Idle \/ Fits(call[p])

LEMMA AllOps ==
  Ops = {"commit", "save", "create", "rename", "upload", "retitle", "fold", "delete", "discard",
         "restore", "purge", "empty", "attach", "detach", "drop", "ai"}
  BY DEF Ops, Steps

(* The handlers read as tables: how many calls each makes, and which. *)
LEMMA StepTable ==
  /\ DOMAIN Steps["commit"] = 1..5 /\ Len(Steps["commit"]) = 5
      /\ Steps["commit"][1] = "read" /\ Steps["commit"][2] = "row" /\ Steps["commit"][3] = "tag"
      /\ Steps["commit"][4] = "list" /\ Steps["commit"][5] = "index"
  /\ DOMAIN Steps["save"] = 1..7 /\ Len(Steps["save"]) = 7
      /\ Steps["save"][1] = "read" /\ Steps["save"][2] = "row" /\ Steps["save"][3] = "tag"
      /\ Steps["save"][4] = "list" /\ Steps["save"][5] = "index" /\ Steps["save"][6] = "actor"
      /\ Steps["save"][7] = "stamp"
  /\ DOMAIN Steps["create"] = 1..8 /\ Len(Steps["create"]) = 8
      /\ Steps["create"][1] = "insert" /\ Steps["create"][2] = "row" /\ Steps["create"][3] = "tag"
      /\ Steps["create"][4] = "list" /\ Steps["create"][5] = "index" /\ Steps["create"][6] = "source"
      /\ Steps["create"][7] = "actor" /\ Steps["create"][8] = "stamp"
  /\ DOMAIN Steps["rename"] = 1..7 /\ Len(Steps["rename"]) = 7
      /\ Steps["rename"][1] = "read" /\ Steps["rename"][2] = "body" /\ Steps["rename"][3] = "row"
      /\ Steps["rename"][4] = "untag" /\ Steps["rename"][5] = "tag" /\ Steps["rename"][6] = "list"
      /\ Steps["rename"][7] = "index"
  /\ DOMAIN Steps["upload"] = 1..7 /\ Len(Steps["upload"]) = 7
      /\ Steps["upload"][1] = "read" /\ Steps["upload"][2] = "row" /\ Steps["upload"][3] = "tag"
      /\ Steps["upload"][4] = "list" /\ Steps["upload"][5] = "index" /\ Steps["upload"][6] = "actor"
      /\ Steps["upload"][7] = "stamp"
  /\ DOMAIN Steps["retitle"] = 1..2 /\ Len(Steps["retitle"]) = 2
      /\ Steps["retitle"][1] = "read" /\ Steps["retitle"][2] = "retitle"
  /\ DOMAIN Steps["fold"] = 1..7 /\ Len(Steps["fold"]) = 7
      /\ Steps["fold"][1] = "read" /\ Steps["fold"][2] = "retitle" /\ Steps["fold"][3] = "read"
      /\ Steps["fold"][4] = "row" /\ Steps["fold"][5] = "tag" /\ Steps["fold"][6] = "list"
      /\ Steps["fold"][7] = "index"
  /\ DOMAIN Steps["delete"] = 1..3 /\ Len(Steps["delete"]) = 3
      /\ Steps["delete"][1] = "read" /\ Steps["delete"][2] = "row" /\ Steps["delete"][3] = "unindex"
  /\ DOMAIN Steps["discard"] = 1..2 /\ Len(Steps["discard"]) = 2
      /\ Steps["discard"][1] = "read" /\ Steps["discard"][2] = "row"
  /\ DOMAIN Steps["restore"] = 1..5 /\ Len(Steps["restore"]) = 5
      /\ Steps["restore"][1] = "read" /\ Steps["restore"][2] = "row" /\ Steps["restore"][3] = "list"
      /\ Steps["restore"][4] = "again" /\ Steps["restore"][5] = "index"
  /\ DOMAIN Steps["purge"] = 1..3 /\ Len(Steps["purge"]) = 3
      /\ Steps["purge"][1] = "read" /\ Steps["purge"][2] = "unindex" /\ Steps["purge"][3] = "purge"
  /\ DOMAIN Steps["empty"] = 1..3 /\ Len(Steps["empty"]) = 3
      /\ Steps["empty"][1] = "scan" /\ Steps["empty"][2] = "unindex" /\ Steps["empty"][3] = "purge"
  /\ DOMAIN Steps["attach"] = 1..4 /\ Len(Steps["attach"]) = 4
      /\ Steps["attach"][1] = "link" /\ Steps["attach"][2] = "list" /\ Steps["attach"][3] = "again"
      /\ Steps["attach"][4] = "index"
  /\ DOMAIN Steps["detach"] = 1..4 /\ Len(Steps["detach"]) = 4
      /\ Steps["detach"][1] = "unlink" /\ Steps["detach"][2] = "list" /\ Steps["detach"][3] = "again"
      /\ Steps["detach"][4] = "index"
  /\ DOMAIN Steps["drop"] = 1..1 /\ Len(Steps["drop"]) = 1
      /\ Steps["drop"][1] = "unlink"
  /\ DOMAIN Steps["ai"] = 1..4 /\ Len(Steps["ai"]) = 4
      /\ Steps["ai"][1] = "read" /\ Steps["ai"][2] = "replace" /\ Steps["ai"][3] = "list"
      /\ Steps["ai"][4] = "index"
<1>1. /\ DOMAIN Steps["commit"] = 1..5 /\ Len(Steps["commit"]) = 5
      /\ Steps["commit"][1] = "read" /\ Steps["commit"][2] = "row" /\ Steps["commit"][3] = "tag"
      /\ Steps["commit"][4] = "list" /\ Steps["commit"][5] = "index"
  BY DEF Steps, CommitSteps
<1>2. /\ DOMAIN Steps["save"] = 1..7 /\ Len(Steps["save"]) = 7
      /\ Steps["save"][1] = "read" /\ Steps["save"][2] = "row" /\ Steps["save"][3] = "tag"
      /\ Steps["save"][4] = "list" /\ Steps["save"][5] = "index" /\ Steps["save"][6] = "actor"
      /\ Steps["save"][7] = "stamp"
  BY DEF Steps, SaveSteps, CommitSteps
<1>3. /\ DOMAIN Steps["create"] = 1..8 /\ Len(Steps["create"]) = 8
      /\ Steps["create"][1] = "insert" /\ Steps["create"][2] = "row" /\ Steps["create"][3] = "tag"
      /\ Steps["create"][4] = "list" /\ Steps["create"][5] = "index" /\ Steps["create"][6] = "source"
      /\ Steps["create"][7] = "actor" /\ Steps["create"][8] = "stamp"
  BY DEF Steps, CreateSteps
<1>4. /\ DOMAIN Steps["rename"] = 1..7 /\ Len(Steps["rename"]) = 7
      /\ Steps["rename"][1] = "read" /\ Steps["rename"][2] = "body" /\ Steps["rename"][3] = "row"
      /\ Steps["rename"][4] = "untag" /\ Steps["rename"][5] = "tag" /\ Steps["rename"][6] = "list"
      /\ Steps["rename"][7] = "index"
  BY DEF Steps, RenameSteps
<1>5. /\ DOMAIN Steps["upload"] = 1..7 /\ Len(Steps["upload"]) = 7
      /\ Steps["upload"][1] = "read" /\ Steps["upload"][2] = "row" /\ Steps["upload"][3] = "tag"
      /\ Steps["upload"][4] = "list" /\ Steps["upload"][5] = "index" /\ Steps["upload"][6] = "actor"
      /\ Steps["upload"][7] = "stamp"
  BY DEF Steps, UploadSteps, SaveSteps, CommitSteps
<1>6. /\ DOMAIN Steps["retitle"] = 1..2 /\ Len(Steps["retitle"]) = 2
      /\ Steps["retitle"][1] = "read" /\ Steps["retitle"][2] = "retitle"
  BY DEF Steps, RetitleSteps
<1>7. /\ DOMAIN Steps["fold"] = 1..7 /\ Len(Steps["fold"]) = 7
      /\ Steps["fold"][1] = "read" /\ Steps["fold"][2] = "retitle" /\ Steps["fold"][3] = "read"
      /\ Steps["fold"][4] = "row" /\ Steps["fold"][5] = "tag" /\ Steps["fold"][6] = "list"
      /\ Steps["fold"][7] = "index"
  BY DEF Steps, FoldSteps, RetitleSteps, CommitSteps
<1>8. /\ DOMAIN Steps["delete"] = 1..3 /\ Len(Steps["delete"]) = 3
      /\ Steps["delete"][1] = "read" /\ Steps["delete"][2] = "row" /\ Steps["delete"][3] = "unindex"
  BY DEF Steps, DeleteSteps
<1>9. /\ DOMAIN Steps["discard"] = 1..2 /\ Len(Steps["discard"]) = 2
      /\ Steps["discard"][1] = "read" /\ Steps["discard"][2] = "row"
  BY DEF Steps, DiscardSteps
<1>10. /\ DOMAIN Steps["restore"] = 1..5 /\ Len(Steps["restore"]) = 5
      /\ Steps["restore"][1] = "read" /\ Steps["restore"][2] = "row" /\ Steps["restore"][3] = "list"
      /\ Steps["restore"][4] = "again" /\ Steps["restore"][5] = "index"
  BY DEF Steps, RestoreSteps, RefreshSteps
<1>11. /\ DOMAIN Steps["purge"] = 1..3 /\ Len(Steps["purge"]) = 3
      /\ Steps["purge"][1] = "read" /\ Steps["purge"][2] = "unindex" /\ Steps["purge"][3] = "purge"
  BY DEF Steps, PurgeSteps
<1>12. /\ DOMAIN Steps["empty"] = 1..3 /\ Len(Steps["empty"]) = 3
      /\ Steps["empty"][1] = "scan" /\ Steps["empty"][2] = "unindex" /\ Steps["empty"][3] = "purge"
  BY DEF Steps, EmptySteps
<1>13. /\ DOMAIN Steps["attach"] = 1..4 /\ Len(Steps["attach"]) = 4
      /\ Steps["attach"][1] = "link" /\ Steps["attach"][2] = "list" /\ Steps["attach"][3] = "again"
      /\ Steps["attach"][4] = "index"
  BY DEF Steps, AttachSteps, RefreshSteps
<1>14. /\ DOMAIN Steps["detach"] = 1..4 /\ Len(Steps["detach"]) = 4
      /\ Steps["detach"][1] = "unlink" /\ Steps["detach"][2] = "list" /\ Steps["detach"][3] = "again"
      /\ Steps["detach"][4] = "index"
  BY DEF Steps, DetachSteps, RefreshSteps
<1>15. /\ DOMAIN Steps["drop"] = 1..1 /\ Len(Steps["drop"]) = 1
      /\ Steps["drop"][1] = "unlink"
  BY DEF Steps, DropSteps
<1>16. /\ DOMAIN Steps["ai"] = 1..4 /\ Len(Steps["ai"]) = 4
      /\ Steps["ai"][1] = "read" /\ Steps["ai"][2] = "replace" /\ Steps["ai"][3] = "list"
      /\ Steps["ai"][4] = "index"
  BY DEF Steps, AiSteps
<1>17. QED BY <1>1, <1>2, <1>3, <1>4, <1>5, <1>6, <1>7, <1>8, <1>9, <1>10, <1>11, <1>12, <1>13, <1>14, <1>15, <1>16

(* And the other way round: where each call is made. *)
LEMMA Places ==
  ASSUME NEW c, c.op \in Ops, c.at \in DOMAIN Steps[c.op]
  PROVE  /\ c.at \in 1..8 /\ c.at \in 1..Len(Steps[c.op]) /\ Len(Steps[c.op]) \in 1..8
         /\ DOMAIN Steps[c.op] = 1..Len(Steps[c.op])
         /\ Steps[c.op][c.at] = "read" =>
              \/ (c.op \in {"commit", "save", "rename", "upload", "retitle", "fold", "delete",
                            "discard", "restore", "purge", "ai"} /\ c.at = 1)
              \/ (c.op \in {"fold"} /\ c.at = 3)
         /\ Steps[c.op][c.at] = "row" =>
              \/ (c.op \in {"commit", "save", "create", "upload", "delete", "discard", "restore"} /\ c.at = 2)
              \/ (c.op \in {"rename"} /\ c.at = 3)
              \/ (c.op \in {"fold"} /\ c.at = 4)
         /\ Steps[c.op][c.at] = "tag" =>
              \/ (c.op \in {"commit", "save", "create", "upload"} /\ c.at = 3)
              \/ (c.op \in {"rename", "fold"} /\ c.at = 5)
         /\ Steps[c.op][c.at] = "list" =>
              \/ (c.op \in {"attach", "detach"} /\ c.at = 2)
              \/ (c.op \in {"restore", "ai"} /\ c.at = 3)
              \/ (c.op \in {"commit", "save", "create", "upload"} /\ c.at = 4)
              \/ (c.op \in {"rename", "fold"} /\ c.at = 6)
         /\ Steps[c.op][c.at] = "index" =>
              \/ (c.op \in {"attach", "detach", "ai"} /\ c.at = 4)
              \/ (c.op \in {"commit", "save", "create", "upload", "restore"} /\ c.at = 5)
              \/ (c.op \in {"rename", "fold"} /\ c.at = 7)
         /\ Steps[c.op][c.at] = "actor" =>
              \/ (c.op \in {"save", "upload"} /\ c.at = 6)
              \/ (c.op \in {"create"} /\ c.at = 7)
         /\ Steps[c.op][c.at] = "stamp" =>
              \/ (c.op \in {"save", "upload"} /\ c.at = 7)
              \/ (c.op \in {"create"} /\ c.at = 8)
         /\ Steps[c.op][c.at] = "insert" =>
              \/ (c.op \in {"create"} /\ c.at = 1)
         /\ Steps[c.op][c.at] = "source" =>
              \/ (c.op \in {"create"} /\ c.at = 6)
         /\ Steps[c.op][c.at] = "body" =>
              \/ (c.op \in {"rename"} /\ c.at = 2)
         /\ Steps[c.op][c.at] = "untag" =>
              \/ (c.op \in {"rename"} /\ c.at = 4)
         /\ Steps[c.op][c.at] = "retitle" =>
              \/ (c.op \in {"retitle", "fold"} /\ c.at = 2)
         /\ Steps[c.op][c.at] = "unindex" =>
              \/ (c.op \in {"purge", "empty"} /\ c.at = 2)
              \/ (c.op \in {"delete"} /\ c.at = 3)
         /\ Steps[c.op][c.at] = "again" =>
              \/ (c.op \in {"attach", "detach"} /\ c.at = 3)
              \/ (c.op \in {"restore"} /\ c.at = 4)
         /\ Steps[c.op][c.at] = "purge" =>
              \/ (c.op \in {"purge", "empty"} /\ c.at = 3)
         /\ Steps[c.op][c.at] = "scan" =>
              \/ (c.op \in {"empty"} /\ c.at = 1)
         /\ Steps[c.op][c.at] = "link" =>
              \/ (c.op \in {"attach"} /\ c.at = 1)
         /\ Steps[c.op][c.at] = "unlink" =>
              \/ (c.op \in {"detach", "drop"} /\ c.at = 1)
         /\ Steps[c.op][c.at] = "replace" =>
              \/ (c.op \in {"ai"} /\ c.at = 2)
<1>1. CASE c.op = "commit"
  <2>1. /\ DOMAIN Steps[c.op] = 1..5 /\ Len(Steps[c.op]) = 5
        /\ Steps[c.op][1] = "read" /\ Steps[c.op][2] = "row" /\ Steps[c.op][3] = "tag"
        /\ Steps[c.op][4] = "list" /\ Steps[c.op][5] = "index"
    BY <1>1, StepTable
  <2>2. CASE c.at = 1
    BY <1>1, <2>1, <2>2
  <2>3. CASE c.at = 2
    BY <1>1, <2>1, <2>3
  <2>4. CASE c.at = 3
    BY <1>1, <2>1, <2>4
  <2>5. CASE c.at = 4
    BY <1>1, <2>1, <2>5
  <2>6. CASE c.at = 5
    BY <1>1, <2>1, <2>6
  <2>7. QED BY <2>1, <2>2, <2>3, <2>4, <2>5, <2>6
<1>2. CASE c.op = "save"
  <2>1. /\ DOMAIN Steps[c.op] = 1..7 /\ Len(Steps[c.op]) = 7
        /\ Steps[c.op][1] = "read" /\ Steps[c.op][2] = "row" /\ Steps[c.op][3] = "tag"
        /\ Steps[c.op][4] = "list" /\ Steps[c.op][5] = "index" /\ Steps[c.op][6] = "actor"
        /\ Steps[c.op][7] = "stamp"
    BY <1>2, StepTable
  <2>2. CASE c.at = 1
    BY <1>2, <2>1, <2>2
  <2>3. CASE c.at = 2
    BY <1>2, <2>1, <2>3
  <2>4. CASE c.at = 3
    BY <1>2, <2>1, <2>4
  <2>5. CASE c.at = 4
    BY <1>2, <2>1, <2>5
  <2>6. CASE c.at = 5
    BY <1>2, <2>1, <2>6
  <2>7. CASE c.at = 6
    BY <1>2, <2>1, <2>7
  <2>8. CASE c.at = 7
    BY <1>2, <2>1, <2>8
  <2>9. QED BY <2>1, <2>2, <2>3, <2>4, <2>5, <2>6, <2>7, <2>8
<1>3. CASE c.op = "create"
  <2>1. /\ DOMAIN Steps[c.op] = 1..8 /\ Len(Steps[c.op]) = 8
        /\ Steps[c.op][1] = "insert" /\ Steps[c.op][2] = "row" /\ Steps[c.op][3] = "tag"
        /\ Steps[c.op][4] = "list" /\ Steps[c.op][5] = "index" /\ Steps[c.op][6] = "source"
        /\ Steps[c.op][7] = "actor" /\ Steps[c.op][8] = "stamp"
    BY <1>3, StepTable
  <2>2. CASE c.at = 1
    BY <1>3, <2>1, <2>2
  <2>3. CASE c.at = 2
    BY <1>3, <2>1, <2>3
  <2>4. CASE c.at = 3
    BY <1>3, <2>1, <2>4
  <2>5. CASE c.at = 4
    BY <1>3, <2>1, <2>5
  <2>6. CASE c.at = 5
    BY <1>3, <2>1, <2>6
  <2>7. CASE c.at = 6
    BY <1>3, <2>1, <2>7
  <2>8. CASE c.at = 7
    BY <1>3, <2>1, <2>8
  <2>9. CASE c.at = 8
    BY <1>3, <2>1, <2>9
  <2>10. QED BY <2>1, <2>2, <2>3, <2>4, <2>5, <2>6, <2>7, <2>8, <2>9
<1>4. CASE c.op = "rename"
  <2>1. /\ DOMAIN Steps[c.op] = 1..7 /\ Len(Steps[c.op]) = 7
        /\ Steps[c.op][1] = "read" /\ Steps[c.op][2] = "body" /\ Steps[c.op][3] = "row"
        /\ Steps[c.op][4] = "untag" /\ Steps[c.op][5] = "tag" /\ Steps[c.op][6] = "list"
        /\ Steps[c.op][7] = "index"
    BY <1>4, StepTable
  <2>2. CASE c.at = 1
    BY <1>4, <2>1, <2>2
  <2>3. CASE c.at = 2
    BY <1>4, <2>1, <2>3
  <2>4. CASE c.at = 3
    BY <1>4, <2>1, <2>4
  <2>5. CASE c.at = 4
    BY <1>4, <2>1, <2>5
  <2>6. CASE c.at = 5
    BY <1>4, <2>1, <2>6
  <2>7. CASE c.at = 6
    BY <1>4, <2>1, <2>7
  <2>8. CASE c.at = 7
    BY <1>4, <2>1, <2>8
  <2>9. QED BY <2>1, <2>2, <2>3, <2>4, <2>5, <2>6, <2>7, <2>8
<1>5. CASE c.op = "upload"
  <2>1. /\ DOMAIN Steps[c.op] = 1..7 /\ Len(Steps[c.op]) = 7
        /\ Steps[c.op][1] = "read" /\ Steps[c.op][2] = "row" /\ Steps[c.op][3] = "tag"
        /\ Steps[c.op][4] = "list" /\ Steps[c.op][5] = "index" /\ Steps[c.op][6] = "actor"
        /\ Steps[c.op][7] = "stamp"
    BY <1>5, StepTable
  <2>2. CASE c.at = 1
    BY <1>5, <2>1, <2>2
  <2>3. CASE c.at = 2
    BY <1>5, <2>1, <2>3
  <2>4. CASE c.at = 3
    BY <1>5, <2>1, <2>4
  <2>5. CASE c.at = 4
    BY <1>5, <2>1, <2>5
  <2>6. CASE c.at = 5
    BY <1>5, <2>1, <2>6
  <2>7. CASE c.at = 6
    BY <1>5, <2>1, <2>7
  <2>8. CASE c.at = 7
    BY <1>5, <2>1, <2>8
  <2>9. QED BY <2>1, <2>2, <2>3, <2>4, <2>5, <2>6, <2>7, <2>8
<1>6. CASE c.op = "retitle"
  <2>1. /\ DOMAIN Steps[c.op] = 1..2 /\ Len(Steps[c.op]) = 2
        /\ Steps[c.op][1] = "read" /\ Steps[c.op][2] = "retitle"
    BY <1>6, StepTable
  <2>2. CASE c.at = 1
    BY <1>6, <2>1, <2>2
  <2>3. CASE c.at = 2
    BY <1>6, <2>1, <2>3
  <2>4. QED BY <2>1, <2>2, <2>3
<1>7. CASE c.op = "fold"
  <2>1. /\ DOMAIN Steps[c.op] = 1..7 /\ Len(Steps[c.op]) = 7
        /\ Steps[c.op][1] = "read" /\ Steps[c.op][2] = "retitle" /\ Steps[c.op][3] = "read"
        /\ Steps[c.op][4] = "row" /\ Steps[c.op][5] = "tag" /\ Steps[c.op][6] = "list"
        /\ Steps[c.op][7] = "index"
    BY <1>7, StepTable
  <2>2. CASE c.at = 1
    BY <1>7, <2>1, <2>2
  <2>3. CASE c.at = 2
    BY <1>7, <2>1, <2>3
  <2>4. CASE c.at = 3
    BY <1>7, <2>1, <2>4
  <2>5. CASE c.at = 4
    BY <1>7, <2>1, <2>5
  <2>6. CASE c.at = 5
    BY <1>7, <2>1, <2>6
  <2>7. CASE c.at = 6
    BY <1>7, <2>1, <2>7
  <2>8. CASE c.at = 7
    BY <1>7, <2>1, <2>8
  <2>9. QED BY <2>1, <2>2, <2>3, <2>4, <2>5, <2>6, <2>7, <2>8
<1>8. CASE c.op = "delete"
  <2>1. /\ DOMAIN Steps[c.op] = 1..3 /\ Len(Steps[c.op]) = 3
        /\ Steps[c.op][1] = "read" /\ Steps[c.op][2] = "row" /\ Steps[c.op][3] = "unindex"
    BY <1>8, StepTable
  <2>2. CASE c.at = 1
    BY <1>8, <2>1, <2>2
  <2>3. CASE c.at = 2
    BY <1>8, <2>1, <2>3
  <2>4. CASE c.at = 3
    BY <1>8, <2>1, <2>4
  <2>5. QED BY <2>1, <2>2, <2>3, <2>4
<1>9. CASE c.op = "discard"
  <2>1. /\ DOMAIN Steps[c.op] = 1..2 /\ Len(Steps[c.op]) = 2
        /\ Steps[c.op][1] = "read" /\ Steps[c.op][2] = "row"
    BY <1>9, StepTable
  <2>2. CASE c.at = 1
    BY <1>9, <2>1, <2>2
  <2>3. CASE c.at = 2
    BY <1>9, <2>1, <2>3
  <2>4. QED BY <2>1, <2>2, <2>3
<1>10. CASE c.op = "restore"
  <2>1. /\ DOMAIN Steps[c.op] = 1..5 /\ Len(Steps[c.op]) = 5
        /\ Steps[c.op][1] = "read" /\ Steps[c.op][2] = "row" /\ Steps[c.op][3] = "list"
        /\ Steps[c.op][4] = "again" /\ Steps[c.op][5] = "index"
    BY <1>10, StepTable
  <2>2. CASE c.at = 1
    BY <1>10, <2>1, <2>2
  <2>3. CASE c.at = 2
    BY <1>10, <2>1, <2>3
  <2>4. CASE c.at = 3
    BY <1>10, <2>1, <2>4
  <2>5. CASE c.at = 4
    BY <1>10, <2>1, <2>5
  <2>6. CASE c.at = 5
    BY <1>10, <2>1, <2>6
  <2>7. QED BY <2>1, <2>2, <2>3, <2>4, <2>5, <2>6
<1>11. CASE c.op = "purge"
  <2>1. /\ DOMAIN Steps[c.op] = 1..3 /\ Len(Steps[c.op]) = 3
        /\ Steps[c.op][1] = "read" /\ Steps[c.op][2] = "unindex" /\ Steps[c.op][3] = "purge"
    BY <1>11, StepTable
  <2>2. CASE c.at = 1
    BY <1>11, <2>1, <2>2
  <2>3. CASE c.at = 2
    BY <1>11, <2>1, <2>3
  <2>4. CASE c.at = 3
    BY <1>11, <2>1, <2>4
  <2>5. QED BY <2>1, <2>2, <2>3, <2>4
<1>12. CASE c.op = "empty"
  <2>1. /\ DOMAIN Steps[c.op] = 1..3 /\ Len(Steps[c.op]) = 3
        /\ Steps[c.op][1] = "scan" /\ Steps[c.op][2] = "unindex" /\ Steps[c.op][3] = "purge"
    BY <1>12, StepTable
  <2>2. CASE c.at = 1
    BY <1>12, <2>1, <2>2
  <2>3. CASE c.at = 2
    BY <1>12, <2>1, <2>3
  <2>4. CASE c.at = 3
    BY <1>12, <2>1, <2>4
  <2>5. QED BY <2>1, <2>2, <2>3, <2>4
<1>13. CASE c.op = "attach"
  <2>1. /\ DOMAIN Steps[c.op] = 1..4 /\ Len(Steps[c.op]) = 4
        /\ Steps[c.op][1] = "link" /\ Steps[c.op][2] = "list" /\ Steps[c.op][3] = "again"
        /\ Steps[c.op][4] = "index"
    BY <1>13, StepTable
  <2>2. CASE c.at = 1
    BY <1>13, <2>1, <2>2
  <2>3. CASE c.at = 2
    BY <1>13, <2>1, <2>3
  <2>4. CASE c.at = 3
    BY <1>13, <2>1, <2>4
  <2>5. CASE c.at = 4
    BY <1>13, <2>1, <2>5
  <2>6. QED BY <2>1, <2>2, <2>3, <2>4, <2>5
<1>14. CASE c.op = "detach"
  <2>1. /\ DOMAIN Steps[c.op] = 1..4 /\ Len(Steps[c.op]) = 4
        /\ Steps[c.op][1] = "unlink" /\ Steps[c.op][2] = "list" /\ Steps[c.op][3] = "again"
        /\ Steps[c.op][4] = "index"
    BY <1>14, StepTable
  <2>2. CASE c.at = 1
    BY <1>14, <2>1, <2>2
  <2>3. CASE c.at = 2
    BY <1>14, <2>1, <2>3
  <2>4. CASE c.at = 3
    BY <1>14, <2>1, <2>4
  <2>5. CASE c.at = 4
    BY <1>14, <2>1, <2>5
  <2>6. QED BY <2>1, <2>2, <2>3, <2>4, <2>5
<1>15. CASE c.op = "drop"
  <2>1. /\ DOMAIN Steps[c.op] = 1..1 /\ Len(Steps[c.op]) = 1
        /\ Steps[c.op][1] = "unlink"
    BY <1>15, StepTable
  <2>2. CASE c.at = 1
    BY <1>15, <2>1, <2>2
  <2>3. QED BY <2>1, <2>2
<1>16. CASE c.op = "ai"
  <2>1. /\ DOMAIN Steps[c.op] = 1..4 /\ Len(Steps[c.op]) = 4
        /\ Steps[c.op][1] = "read" /\ Steps[c.op][2] = "replace" /\ Steps[c.op][3] = "list"
        /\ Steps[c.op][4] = "index"
    BY <1>16, StepTable
  <2>2. CASE c.at = 1
    BY <1>16, <2>1, <2>2
  <2>3. CASE c.at = 2
    BY <1>16, <2>1, <2>3
  <2>4. CASE c.at = 3
    BY <1>16, <2>1, <2>4
  <2>5. CASE c.at = 4
    BY <1>16, <2>1, <2>5
  <2>6. QED BY <2>1, <2>2, <2>3, <2>4, <2>5
<1>17. QED BY AllOps, <1>1, <1>2, <1>3, <1>4, <1>5, <1>6, <1>7, <1>8, <1>9, <1>10, <1>11, <1>12, <1>13, <1>14, <1>15, <1>16

-----------------------------------------------------------------------------
(* Types.                                                                  *)

Tables ==
  /\ row \in [Files -> Rows] /\ links \in [Files -> SUBSET Tags]
  /\ index \in [Files -> Entries \cup {NoEntry}] /\ unindexed \in [Files -> SUBSET (Tags \cup Names)]
  /\ unfit \in [Files -> SUBSET ExtTags]
Marks == met \in [Files -> SUBSET SUBSET Ops] /\ mixed \subseteq Files /\ cut \subseteq Files
Bounds == written \in Nat /\ started \in 0..MaxRequests /\ faults \in 0..MaxFaults
CallsKept == DOMAIN call = Requests /\ call = [p \in Requests |-> call[p]] /\ CallsFit
Typed == Tables /\ Marks /\ Bounds /\ CallsKept

LEMMA TypedIsTypeOK == Typed => TypeOK
<1>. SUFFICES ASSUME Typed PROVE TypeOK
  OBVIOUS
<1>1. call \in [Requests -> Calls \cup {Idle}]
  BY DEF Typed, CallsKept, CallsFit, Fits
<1>2. ASSUME NEW p \in Requests, call[p].op # None PROVE call[p].at \in DOMAIN Steps[call[p].op]
  BY <1>2 DEF Typed, CallsKept, CallsFit, Fits, Idle
<1>3. QED BY <1>1, <1>2 DEF TypeOK, Typed, Tables, Marks, Bounds

LEMMA Busy ==
  ASSUME CallsFit, NEW p \in Requests, call[p].op # None
  PROVE  /\ Fits(call[p]) /\ call[p] \in Calls /\ call[p].op \in Ops /\ call[p].at \in 1..8
         /\ call[p].at \in DOMAIN Steps[call[p].op] /\ call[p].at \in 1..Len(Steps[call[p].op])
         /\ DOMAIN Steps[call[p].op] = 1..Len(Steps[call[p].op]) /\ Len(Steps[call[p].op]) \in 1..8
         /\ (call[p].op # "empty" => call[p].file \in Files /\ call[p].todo = {})
         /\ (call[p].at # 1 => call[p].file \in Files)
<1>1. Fits(call[p]) BY DEF CallsFit, Idle
<1>2. call[p] \in Calls /\ call[p].op \in Ops /\ call[p].at \in DOMAIN Steps[call[p].op]
  BY <1>1 DEF Fits, Calls
<1>3. /\ call[p].at \in 1..8 /\ call[p].at \in 1..Len(Steps[call[p].op])
      /\ DOMAIN Steps[call[p].op] = 1..Len(Steps[call[p].op]) /\ Len(Steps[call[p].op]) \in 1..8
  BY <1>2, Places
<1>4. QED BY <1>1, <1>2, <1>3 DEF Fits, Calls

(* What a request does to the requests: it goes on to its next call, or    *)
(* ends; nobody else is touched.                                           *)
OthersStay(p) == \A q \in Requests \ {p} : call'[q] = call[q]
Onward(p) ==
  /\ call'[p].op = call[p].op /\ call'[p].file = call[p].file /\ call'[p].todo = call[p].todo
  /\ call'[p].alone = call[p].alone /\ call'[p].at = call[p].at + 1
Moved(p) ==
  /\ OthersStay(p)
  /\ \/ Onward(p) /\ UNCHANGED <<met, mixed, cut>>
     \/ call'[p] = Idle /\ call[p].at = Len(Steps[call[p].op]) /\ Ends(p)
     \/ call'[p] = Idle /\ UNCHANGED <<met, mixed, cut>>

Lasts(p) == call'[p] = Idle => call[p].at = Len(Steps[call[p].op])

LEMMA StopTyped ==
  ASSUME Typed, NEW p \in Requests, Stop(p)
  PROVE  CallsKept' /\ Marks' /\ Moved(p)
  BY DEF Typed, Stop, CallsKept, CallsFit, Marks, Moved, OthersStay

LEMMA EndsTyped ==
  ASSUME Typed, NEW p \in Requests, Ends(p)
  PROVE  CallsKept' /\ Marks'
<1>1. CallsKept'
  BY DEF Typed, Ends, CallsKept, CallsFit
<1>2. Marks'
  BY DEF Typed, Ends, Marks
<1>3. QED BY <1>1, <1>2

Same(c, d) == c.op = d.op /\ c.at = d.at /\ c.file = d.file /\ c.todo = d.todo /\ c.name = d.name /\ c.tag = d.tag
                /\ c.alone = d.alone

LEMMA GoesTyped ==
  ASSUME Typed, NEW p \in Requests, call[p].op # None, call[p].file # None,
         NEW c \in Calls, Same(c, call[p]), Goes(p, c),
         Knows([c EXCEPT !.at = c.at + 1]) => c.row \in Present
  PROVE  CallsKept' /\ Marks' /\ Moved(p) /\ Lasts(p) /\ (Onward(p) => call'[p].row = c.row)
<1>1. CASE call[p].at = Len(Steps[call[p].op]) /\ Ends(p)
  <2>1. call'[p] = Idle /\ OthersStay(p) BY <1>1 DEF Ends, Typed, CallsKept, OthersStay
  <2>2. ~Onward(p)
    <3>1. call'[p].op = None BY <2>1 DEF Idle
    <3>2. QED BY <3>1 DEF Onward
  <2>3. Moved(p) BY <1>1, <2>1 DEF Moved
  <2>4. QED BY <1>1, <2>2, <2>3, EndsTyped DEF Lasts
<1>2. CASE /\ call[p].at < Len(Steps[call[p].op])
           /\ call' = [call EXCEPT ![p] = [c EXCEPT !.at = c.at + 1]] /\ UNCHANGED <<met, mixed, cut>>
  <2>1. /\ Fits(call[p]) /\ call[p].op \in Ops /\ call[p].at \in 1..Len(Steps[call[p].op])
        /\ DOMAIN Steps[call[p].op] = 1..Len(Steps[call[p].op]) /\ Len(Steps[call[p].op]) \in 1..8
    BY Busy DEF Typed, CallsKept
  <2>2. PICK d \in {[c EXCEPT !.at = c.at + 1]} : d = [c EXCEPT !.at = c.at + 1]
    OBVIOUS
  <2>3. call[p].at + 1 \in DOMAIN Steps[call[p].op] /\ call[p].at + 1 \in 1..8
    <3>1. PICK n \in 1..8 : n = Len(Steps[call[p].op])
      BY <2>1
    <3>2. PICK k \in 1..n : k = call[p].at
      BY <2>1, <3>1
    <3>3. k < n BY <1>2, <3>1, <3>2
    <3>4. k + 1 \in 1..n /\ k + 1 \in 1..8 BY <3>3
    <3>5. QED BY <2>1, <3>1, <3>2, <3>4
  <2>4. d \in Calls
    <3>1. c.at + 1 \in 1..8 BY <2>3 DEF Same
    <3>2. QED BY <2>2, <3>1 DEF Calls
  <2>5. d.op = call[p].op /\ d.file = call[p].file /\ d.todo = call[p].todo /\ d.name = call[p].name
          /\ d.tag = call[p].tag /\ d.row = c.row /\ d.at = call[p].at + 1 /\ d.alone = call[p].alone
    BY <2>2 DEF Same, Calls
  <2>6. Fits(d)
    BY <2>1, <2>2, <2>3, <2>4, <2>5 DEF Fits
  <2>7. CallsKept' /\ Marks' BY <1>2, <2>2, <2>6 DEF Typed, CallsKept, CallsFit, Marks
  <2>8. call'[p] = d /\ OthersStay(p) BY <1>2, <2>2 DEF Typed, CallsKept, OthersStay
  <2>9. Moved(p) BY <1>2, <2>5, <2>8 DEF Moved, Onward
  <2>10. Lasts(p)
    <3>1. call'[p].op # None BY <2>5, <2>8
    <3>2. QED BY <3>1 DEF Lasts, Idle
  <2>11. QED BY <2>5, <2>7, <2>8, <2>9, <2>10
<1>3. QED BY <1>1, <1>2 DEF Goes

LEMMA RowKept ==
  ASSUME Typed, NEW f \in Files, row[f].state \in {"live", "trash"}
  PROVE  row[f] \in Present
  BY DEF Typed, Tables, Rows, Present

LEMMA PresentIsRow ==
  ASSUME NEW r \in Present
  PROVE  r \in Rows /\ r.name \in Names /\ r.head \in Nat /\ r.state \in {"live", "trash"}
  BY DEF Rows, Present

(* What a handler is at, given the name of its next call.                  *)
LEMMA Stands ==
  ASSUME CallsFit, NEW p \in Requests, NEW step, At(p, step)
  PROVE  /\ call[p].op # None /\ call[p].op \in Ops /\ call[p].at \in DOMAIN Steps[call[p].op]
         /\ Steps[call[p].op][call[p].at] = step
         /\ Fits(call[p]) /\ call[p] \in Calls
  BY Busy DEF At

LEMMA ReadTyped ==
  ASSUME Typed, NEW p \in Requests, Read(p)
  PROVE  /\ Typed' /\ Moved(p) /\ (Accepts(call[p], row[call[p].file]) => Lasts(p))
         /\ Onward(p) => call'[p].row = row[call[p].file]
<1>. DEFINE c == call[p]  f == call[p].file
<1>1. c.op \in Ops \ {"empty", "create"} /\ c.op # None /\ c \in Calls /\ f \in Files /\ f # None
  <2>1. CallsFit /\ At(p, "read") BY DEF Typed, CallsKept, Read
  <2>2. c.op \in Ops /\ c.op \in {"commit", "save", "rename", "upload", "retitle", "fold", "delete", "discard", "restore",
                                 "purge", "ai"}
    BY <2>1, Stands, Places
  <2>3. QED BY <2>1, <2>2, Stands, Busy, ArrivalsAssumption
<1>2. CASE Accepts(c, row[f]) /\ Goes(p, [c EXCEPT !.row = row[f]])
  <2>1. row[f] \in Present BY <1>1, <1>2, RowKept DEF Accepts
  <2>2. PICK d \in Calls : d = [c EXCEPT !.row = row[f]]
    BY <1>1, <2>1, PresentIsRow DEF Calls
  <2>3. Same(d, call[p]) /\ d.row \in Present /\ d.row = row[f]
    BY <1>1, <2>1, <2>2 DEF Same, Calls
  <2>4. CallsKept' /\ Marks' /\ Moved(p) /\ Lasts(p) /\ (Onward(p) => call'[p].row = row[f])
    BY <1>1, <1>2, <2>2, <2>3, GoesTyped
  <2>5. QED BY <2>4 DEF Read, Typed, Tables, Bounds, tables, bounds
<1>3. CASE ~Accepts(c, row[f]) /\ Stop(p)
  <2>1. call'[p] = Idle BY <1>3 DEF Stop, Typed, CallsKept
  <2>2. ~Onward(p)
    <3>1. call'[p].op = None BY <2>1 DEF Idle
    <3>2. QED BY <1>1, <3>1 DEF Onward
  <2>3. Typed' /\ Moved(p) BY <1>3, StopTyped DEF Read, Typed, Tables, Bounds, tables, bounds
  <2>4. QED BY <1>3, <2>2, <2>3
<1>4. QED BY <1>2, <1>3 DEF Read

LEMMA InsertTyped ==
  ASSUME Typed, NEW p \in Requests, Insert(p)
  PROVE  Typed' /\ Moved(p) /\ Lasts(p)
<1>. DEFINE c == call[p]  f == call[p].file
            new == [state |-> "live", name |-> call[p].name, head |-> 0]
<1>1. c.op = "create" /\ c.op # None /\ c.at = 1 /\ c \in Calls /\ f \in Files /\ f # None /\ c.name \in Names
  <2>1. CallsFit /\ At(p, "insert") BY DEF Typed, CallsKept, Insert
  <2>2. c.op = "create" /\ c.at = 1 /\ c.op # None /\ Fits(c)
    BY <2>1, Stands, Places
  <2>3. QED BY <2>1, <2>2, Stands, Busy, ArrivalsAssumption DEF Fits
<1>2. new \in Present BY <1>1 DEF Present
<1>3. PICK d \in Calls : d = [c EXCEPT !.row = new]
  BY <1>1, <1>2, PresentIsRow DEF Calls
<1>4. Same(d, call[p]) /\ d.row \in Present
  BY <1>1, <1>2, <1>3 DEF Same, Calls
<1>5. CallsKept' /\ Marks' /\ Moved(p) /\ Lasts(p) BY <1>1, <1>3, <1>4, GoesTyped DEF Insert
<1>6. row' \in [Files -> Rows]
  BY <1>1, <1>2, PresentIsRow DEF Insert, Typed, Tables
<1>7. QED BY <1>5, <1>6 DEF Insert, Typed, Tables, Bounds, bounds

LEMMA ReadBodyTyped ==
  ASSUME Typed, NEW p \in Requests, ReadBody(p)
  PROVE  Typed' /\ Moved(p) /\ Lasts(p)
<1>. DEFINE c == call[p]  f == call[p].file
<1>1. c.op = "rename" /\ c.op # None /\ c.at = 2 /\ c \in Calls /\ f \in Files /\ f # None /\ c.row \in Present
  <2>1. CallsFit /\ At(p, "body") BY DEF Typed, CallsKept, ReadBody
  <2>2. c.op = "rename" /\ c.at = 2 /\ c.op # None /\ Fits(c)
    BY <2>1, Stands, Places
  <2>3. QED BY <2>1, <2>2, Stands, Busy, ArrivalsAssumption DEF Fits, Knows
<1>2. row[f].head \in Nat BY <1>1 DEF Typed, Tables, Rows
<1>3. PICK d \in Calls : d = [c EXCEPT !.text = row[f].head]
  BY <1>1, <1>2 DEF Calls
<1>4. Same(d, call[p]) /\ d.row \in Present
  BY <1>1, <1>3 DEF Same, Calls
<1>5. CallsKept' /\ Marks' /\ Moved(p) /\ Lasts(p) BY <1>1, <1>3, <1>4, GoesTyped DEF ReadBody
<1>6. QED BY <1>5 DEF ReadBody, Typed, Tables, Bounds, tables, bounds

LEMMA ChangedKept ==
  ASSUME written \in Nat, NEW c \in Calls, c.op \in RowWriters, c.row \in Present,
         c.op \in {"rename", "upload"} => c.name \in Names, c.op # "retitle"
  PROVE  Changed(c) \in Present
<1>1. CASE c.op = "upload"
  <2>1. Changed(c) = [c.row EXCEPT !.head = written + 1, !.name = c.name] BY <1>1 DEF Changed, Saves
  <2>2. PICK r \in Present, n \in Names, k \in Nat : r = c.row /\ n = c.name /\ k = written + 1 BY <1>1
  <2>3. PICK u \in Present : u = [r EXCEPT !.head = k]
    BY DEF Present
  <2>4. PICK v \in Present : v = [u EXCEPT !.name = n]
    BY DEF Present
  <2>5. v = [r EXCEPT !.head = k, !.name = n] BY <2>3, <2>4
  <2>6. QED BY <2>1, <2>2, <2>5
<1>2. CASE c.op \in Saves \ {"upload"}
  BY <1>2 DEF Changed, Saves, Present
<1>3. CASE c.op \notin Saves
  <2>1. c.op \in {"rename", "delete", "discard", "restore"} BY <1>3 DEF RowWriters, Saves, Namers
  <2>2. QED BY <2>1 DEF Changed, Saves, Present
<1>4. QED BY <1>1, <1>2, <1>3

LEMMA WriteRowTyped ==
  ASSUME Typed, NEW p \in Requests, WriteRow(p)
  PROVE  Typed' /\ Moved(p) /\ (Exists(call[p].file) => Lasts(p))
<1>. DEFINE c == call[p]  f == call[p].file
<1>1. c.op \in RowWriters \ {"retitle"} /\ c.op # None /\ c \in Calls /\ f \in Files /\ f # None /\ c.row \in Present
        /\ (c.op \in Namers => c.name \in Names)
  <2>1. CallsFit /\ At(p, "row") BY DEF Typed, CallsKept, WriteRow
  <2>2. c.op \in RowWriters \ {"retitle"} /\ c.op # "empty" /\ c.at \in {2, 3, 4} /\ c.op # None /\ Fits(c)
    BY <2>1, Stands, Places DEF RowWriters, Saves, Namers
  <2>3. c.row \in Present BY <2>2 DEF Fits, Knows, RowWriters, Saves, Namers
  <2>4. QED BY <2>1, <2>2, <2>3, Stands, Busy, ArrivalsAssumption DEF Fits
<1>2. Changed(c) \in Present /\ written \in Nat BY <1>1, ChangedKept DEF Typed, Bounds, Namers
<1>. DEFINE t == IF c.op \in Saves THEN written + 1 ELSE c.text
<1>3. CASE Exists(f) /\ Goes(p, [c EXCEPT !.row = Changed(c), !.text = t])
             /\ row' = [row EXCEPT ![f] = Changed(c)]
  <2>1. PICK d \in Calls : d = [c EXCEPT !.row = Changed(c), !.text = t]
    <3>1. t \in Nat BY <1>1, <1>2 DEF Calls
    <3>2. Changed(c) \in Rows BY <1>2, PresentIsRow
    <3>. HIDE DEF t
    <3>3. [c EXCEPT !.row = Changed(c), !.text = t] \in Calls BY <1>1, <3>1, <3>2 DEF Calls
    <3>4. QED BY <3>3
  <2>2. Same(d, call[p]) /\ d.row \in Present
    BY <1>1, <1>2, <2>1 DEF Same, Calls
  <2>3. CallsKept' /\ Marks' /\ Moved(p) /\ Lasts(p) BY <1>1, <1>3, <2>1, <2>2, GoesTyped
  <2>4. row' \in [Files -> Rows] BY <1>1, <1>2, <1>3, PresentIsRow DEF Typed, Tables
  <2>5. written' \in Nat BY <1>1, <1>2 DEF WriteRow
  <2>6. unfit' \in [Files -> SUBSET ExtTags]
    <3>1. unfit' = Unfits(c) \/ unfit' = unfit BY DEF WriteRow
    <3>2. Ext(c.row.name) \in ExtTags BY <1>1 DEF Present, ExtTags
    <3>3. QED BY <3>1, <3>2, <1>1 DEF Unfits, Typed, Tables
  <2>7. QED BY <2>3, <2>4, <2>5, <2>6 DEF WriteRow, Typed, Tables, Bounds
<1>4. CASE ~Exists(f) /\ Stop(p) /\ UNCHANGED <<row, written, unfit>>
  BY <1>4, StopTyped DEF WriteRow, Typed, Tables, Bounds
<1>5. QED BY <1>3, <1>4 DEF WriteRow

LEMMA RetitleTyped ==
  ASSUME Typed, NEW p \in Requests, Retitle(p)
  PROVE  Typed' /\ Moved(p) /\ (Exists(call[p].file) => Lasts(p))
<1>. DEFINE c == call[p]  f == call[p].file
            new == [call[p].row EXCEPT !.name = call[p].name,
                                       !.state = IF call[p].op = "fold" THEN "live" ELSE @]
<1>1. c.op \in {"retitle", "fold"} /\ c.op # None /\ c \in Calls /\ f \in Files /\ f # None /\ c.row \in Present
        /\ c.name \in Names
  <2>1. CallsFit /\ At(p, "retitle") BY DEF Typed, CallsKept, Retitle
  <2>2. c.op \in {"retitle", "fold"} /\ c.op # "empty" /\ c.at = 2 /\ c.op # None /\ Fits(c)
    BY <2>1, Stands, Places
  <2>3. c.row \in Present /\ c.name \in Names BY <2>2 DEF Fits, Knows, Namers
  <2>4. QED BY <2>1, <2>2, <2>3, Stands, Busy, ArrivalsAssumption DEF Fits
<1>2. new \in Present /\ Ext(c.row.name) \in ExtTags /\ Ext(c.name) \in ExtTags
  <2>1. CASE c.op = "fold" BY <1>1, <2>1 DEF Present, ExtTags
  <2>2. CASE c.op # "fold" BY <1>1, <2>2 DEF Present, ExtTags
  <2>3. QED BY <2>1, <2>2
<1>3. CASE /\ Exists(f) /\ Goes(p, [c EXCEPT !.row = new]) /\ row' = [row EXCEPT ![f] = new]
           /\ unindexed' = [unindexed EXCEPT ![f] = @ \cup {c.name}]
           /\ unfit' = [unfit EXCEPT ![f] = @ \cup {Ext(c.row.name), Ext(c.name)}]
  <2>1. PICK d \in Calls : d = [c EXCEPT !.row = new]
    BY <1>1, <1>2, PresentIsRow DEF Calls
  <2>2. Same(d, call[p]) /\ d.row \in Present
    BY <1>1, <1>2, <2>1 DEF Same, Calls
  <2>3. CallsKept' /\ Marks' /\ Moved(p) /\ Lasts(p) BY <1>1, <1>3, <2>1, <2>2, GoesTyped
  <2>4. row' \in [Files -> Rows] BY <1>1, <1>2, <1>3, PresentIsRow DEF Typed, Tables
  <2>5. unindexed' \in [Files -> SUBSET (Tags \cup Names)] /\ unfit' \in [Files -> SUBSET ExtTags]
    BY <1>1, <1>2, <1>3 DEF Typed, Tables
  <2>6. QED BY <2>3, <2>4, <2>5 DEF Retitle, Typed, Tables, Bounds, bounds
<1>4. CASE ~Exists(f) /\ Stop(p) /\ UNCHANGED <<row, unindexed, unfit>>
  BY <1>4, StopTyped DEF Retitle, Typed, Tables, Bounds, bounds
<1>5. QED BY <1>3, <1>4 DEF Retitle

LEMMA ReadActorTyped ==
  ASSUME Typed, NEW p \in Requests, ReadActor(p)
  PROVE  Typed' /\ Moved(p) /\ (Exists(call[p].file) => Lasts(p)) /\ (Onward(p) => call'[p].row = row[call[p].file])
<1>. DEFINE c == call[p]  f == call[p].file
<1>1. c.op \in Saves /\ c.op # None /\ c \in Calls /\ f \in Files /\ f # None
  <2>1. CallsFit /\ At(p, "actor") BY DEF Typed, CallsKept, ReadActor
  <2>2. c.op \in {"save", "create", "upload"} /\ c.op # None
    BY <2>1, Stands, Places
  <2>3. QED BY <2>1, <2>2, Stands, Busy, ArrivalsAssumption DEF Saves
<1>2. CASE Exists(f) /\ Goes(p, [c EXCEPT !.row = row[f]])
  <2>1. row[f] \in Present BY <1>1, <1>2, RowKept DEF Exists
  <2>2. PICK d \in Calls : d = [c EXCEPT !.row = row[f]]
    BY <1>1, <2>1, PresentIsRow DEF Calls
  <2>3. Same(d, call[p]) /\ d.row \in Present /\ d.row = row[f]
    BY <1>1, <2>1, <2>2 DEF Same, Calls
  <2>4. CallsKept' /\ Marks' /\ Moved(p) /\ Lasts(p) /\ (Onward(p) => call'[p].row = row[f]) BY <1>1, <1>2, <2>2, <2>3, GoesTyped
  <2>5. QED BY <2>4 DEF ReadActor, Typed, Tables, Bounds, tables, bounds
<1>3. CASE ~Exists(f) /\ Stop(p)
  <2>1. call'[p] = Idle BY <1>3 DEF Stop, Typed, CallsKept
  <2>2. ~Onward(p)
    <3>1. call'[p].op = None BY <2>1 DEF Idle
    <3>2. QED BY <1>1, <3>1 DEF Onward
  <2>3. QED BY <1>3, <2>2, StopTyped DEF ReadActor, Typed, Tables, Bounds, tables, bounds
<1>4. QED BY <1>2, <1>3 DEF ReadActor

(* The steps that leave the request as it is and go on.                    *)
LEMMA GoesOnTyped ==
  ASSUME Typed, NEW p \in Requests, call[p].op # None, call[p].file \in Files, Goes(p, call[p]),
         call[p].row \in Present \/ ~Knows([call[p] EXCEPT !.at = call[p].at + 1])
  PROVE  CallsKept' /\ Marks' /\ Moved(p) /\ Lasts(p)
<1>1. call[p] \in Calls /\ Same(call[p], call[p])
  BY Busy DEF Typed, CallsKept, Same
<1>2. QED BY <1>1, GoesTyped, ArrivalsAssumption

LEMMA WriteActorTyped ==
  ASSUME Typed, NEW p \in Requests, WriteActor(p)
  PROVE  Typed' /\ Moved(p) /\ Lasts(p)
<1>. DEFINE c == call[p]  f == call[p].file
<1>1. c.op \in {"save", "create", "upload"} /\ c.op # None /\ f \in Files /\ c.row \in Present
  <2>1. CallsFit /\ At(p, "stamp") BY DEF Typed, CallsKept, WriteActor
  <2>2. c.op \in {"save", "create", "upload"} /\ c.at \in {7, 8} /\ c.op # None /\ Fits(c)
    BY <2>1, Stands, Places
  <2>3. c.row \in Present BY <2>2 DEF Fits, Knows
  <2>4. QED BY <2>1, <2>2, <2>3, Stands, Busy
<1>2. CallsKept' /\ Marks' /\ Moved(p) /\ Lasts(p) BY <1>1, GoesOnTyped DEF WriteActor
<1>3. row' \in [Files -> Rows] BY <1>1, PresentIsRow DEF WriteActor, Typed, Tables
<1>4. QED BY <1>2, <1>3 DEF WriteActor, Typed, Tables, Bounds, bounds

LEMMA LinkTyped ==
  ASSUME Typed, NEW p \in Requests, Link(p)
  PROVE  Typed' /\ Moved(p) /\ (Exists(call[p].file) => Lasts(p))
<1>. DEFINE c == call[p]  f == call[p].file
<1>1. c.op \in {"attach"} /\ c.op # None /\ f \in Files /\ Fits(c) /\ c \in Calls /\ c.at \in Nat /\ c.at = 1
        /\ (Knows(c) => c.row \in Present)
  <2>1. CallsFit /\ At(p, "link") BY DEF Typed, CallsKept, Link
  <2>2. c.op \in {"attach"} /\ c.op # None /\ Fits(c) /\ c.at = 1
    BY <2>1, Stands, Places
  <2>3. QED BY <2>1, <2>2, Stands, Busy DEF Fits
<1>2. CASE Exists(f) /\ links' = [links EXCEPT ![f] = @ \cup {c.tag}] /\ Goes(p, c)
  <2>1. CallsKept' /\ Marks' /\ Moved(p) /\ Lasts(p) BY <1>1, <1>2, GoesOnTyped DEF Knows
  <2>2. links' \in [Files -> SUBSET Tags] BY <1>1, <1>2 DEF Typed, Tables, Tags, Fits
  <2>3. QED BY <2>1, <2>2 DEF Link, Typed, Tables, Bounds, bounds
<1>3. CASE ~Exists(f) /\ Stop(p) /\ UNCHANGED links
  BY <1>3, StopTyped DEF Link, Typed, Tables, Bounds, bounds
<1>4. QED BY <1>2, <1>3 DEF Link

LEMMA UnlinkTyped ==
  ASSUME Typed, NEW p \in Requests, Unlink(p)
  PROVE  Typed' /\ Moved(p) /\ Lasts(p)
<1>. DEFINE c == call[p]  f == call[p].file
<1>1. /\ c.op \in {"detach", "drop"}
      /\ c.op # None /\ f \in Files /\ Fits(c) /\ c \in Calls /\ c.at \in Nat /\ c.at = 1
      /\ (Knows(c) => c.row \in Present)
  <2>1. CallsFit /\ At(p, "unlink") BY DEF Typed, CallsKept, Unlink
  <2>2. c.op \in {"detach", "drop"} /\ c.op # None /\ Fits(c) /\ c.at = 1
    BY <2>1, Stands, Places
  <2>3. QED BY <2>1, <2>2, Stands, Busy DEF Fits
<1>2. CallsKept' /\ Marks' /\ Moved(p) /\ Lasts(p) BY <1>1, GoesOnTyped DEF Unlink, Knows
<1>3. links' \in [Files -> SUBSET Tags] BY <1>1 DEF Unlink, Typed, Tables
<1>4. unindexed' \in [Files -> SUBSET (Tags \cup Names)] BY <1>1 DEF Unlink, Typed, Tables
<1>5. QED BY <1>2, <1>3, <1>4 DEF Unlink, Typed, Tables, Bounds, bounds

LEMMA TagSystemTyped ==
  ASSUME Typed, NEW p \in Requests, TagSystem(p)
  PROVE  Typed' /\ Moved(p) /\ Lasts(p)
<1>. DEFINE c == call[p]  f == call[p].file
<1>1. /\ c.op \in {"commit", "save", "create", "rename", "upload", "fold"}
      /\ c.op # None /\ f \in Files /\ Fits(c) /\ c \in Calls /\ c.at \in Nat /\ c.at >= 3
      /\ (Knows(c) => c.row \in Present)
  <2>1. CallsFit /\ At(p, "tag") BY DEF Typed, CallsKept, TagSystem
  <2>2. c.op \in {"commit", "save", "create", "rename", "upload", "fold"} /\ c.op # None /\ Fits(c) /\ c.at >= 3
    BY <2>1, Stands, Places
  <2>3. QED BY <2>1, <2>2, Stands, Busy DEF Fits
<1>2. c.row \in Present /\ Ext(c.row.name) \in Tags
  BY <1>1 DEF Knows, Present, Tags, ExtTags
<1>3. CallsKept' /\ Marks' /\ Moved(p) /\ Lasts(p) BY <1>1, <1>2, GoesOnTyped DEF TagSystem
<1>4. links' \in [Files -> SUBSET Tags] /\ unfit' \in [Files -> SUBSET ExtTags]
  BY <1>1, <1>2 DEF TagSystem, Typed, Tables
<1>5. QED BY <1>3, <1>4 DEF TagSystem, Typed, Tables, Bounds, bounds

LEMMA UntagSystemTyped ==
  ASSUME Typed, NEW p \in Requests, UntagSystem(p)
  PROVE  Typed' /\ Moved(p) /\ Lasts(p)
<1>. DEFINE c == call[p]  f == call[p].file
<1>1. c.op \in {"rename"} /\ c.op # None /\ f \in Files /\ Fits(c) /\ c \in Calls /\ c.at \in Nat /\ c.at = 4
        /\ (Knows(c) => c.row \in Present)
  <2>1. CallsFit /\ At(p, "untag") BY DEF Typed, CallsKept, UntagSystem
  <2>2. c.op \in {"rename"} /\ c.op # None /\ Fits(c) /\ c.at = 4
    BY <2>1, Stands, Places
  <2>3. QED BY <2>1, <2>2, Stands, Busy DEF Fits
<1>2. c.row \in Present
  BY <1>1 DEF Knows
<1>3. CallsKept' /\ Marks' /\ Moved(p) /\ Lasts(p) BY <1>1, <1>2, GoesOnTyped DEF UntagSystem
<1>4. links' \in [Files -> SUBSET Tags] /\ unfit' \in [Files -> SUBSET ExtTags]
  BY <1>1 DEF UntagSystem, Typed, Tables
<1>5. QED BY <1>3, <1>4 DEF UntagSystem, Typed, Tables, Bounds, bounds

LEMMA TagSourceTyped ==
  ASSUME Typed, NEW p \in Requests, TagSource(p)
  PROVE  Typed' /\ Moved(p) /\ Lasts(p)
<1>. DEFINE c == call[p]  f == call[p].file
<1>1. c.op \in {"create"} /\ c.op # None /\ f \in Files /\ Fits(c) /\ c \in Calls /\ c.at \in Nat /\ c.at = 6
        /\ (Knows(c) => c.row \in Present)
  <2>1. CallsFit /\ At(p, "source") BY DEF Typed, CallsKept, TagSource
  <2>2. c.op \in {"create"} /\ c.op # None /\ Fits(c) /\ c.at = 6
    BY <2>1, Stands, Places
  <2>3. QED BY <2>1, <2>2, Stands, Busy DEF Fits
<1>2. c.row \in Present /\ Source \in Tags
  BY <1>1 DEF Knows, Tags
<1>3. CallsKept' /\ Marks' /\ Moved(p) /\ Lasts(p) BY <1>1, <1>2, GoesOnTyped DEF TagSource
<1>4. links' \in [Files -> SUBSET Tags] /\ unindexed' \in [Files -> SUBSET (Tags \cup Names)]
  BY <1>1, <1>2 DEF TagSource, Typed, Tables
<1>5. QED BY <1>3, <1>4 DEF TagSource, Typed, Tables, Bounds, bounds

LEMMA ReplaceAiTyped ==
  ASSUME Typed, NEW p \in Requests, ReplaceAi(p)
  PROVE  Typed' /\ Moved(p) /\ (Exists(call[p].file) => Lasts(p))
<1>. DEFINE c == call[p]  f == call[p].file
<1>1. c.op \in {"ai"} /\ c.op # None /\ f \in Files /\ Fits(c) /\ c \in Calls /\ c.at \in Nat /\ c.at = 2
        /\ (Knows(c) => c.row \in Present)
  <2>1. CallsFit /\ At(p, "replace") BY DEF Typed, CallsKept, ReplaceAi
  <2>2. c.op \in {"ai"} /\ c.op # None /\ Fits(c) /\ c.at = 2
    BY <2>1, Stands, Places
  <2>3. QED BY <2>1, <2>2, Stands, Busy DEF Fits
<1>2. c.row \in Present
  BY <1>1 DEF Knows
<1>3. CASE Exists(f) /\ Goes(p, c) /\ \E T \in {{}, {AiTag}} : links' = [links EXCEPT ![f] = (@ \ {AiTag}) \cup T]
  <2>1. CallsKept' /\ Marks' /\ Moved(p) /\ Lasts(p) BY <1>1, <1>2, <1>3, GoesOnTyped
  <2>2. AiTag \in Tags BY LibraryAssumption DEF Tags
  <2>3. links' \in [Files -> SUBSET Tags] BY <1>1, <1>3, <2>2 DEF Typed, Tables
  <2>4. QED BY <2>1, <2>3 DEF ReplaceAi, Typed, Tables, Bounds, bounds
<1>4. CASE ~Exists(f) /\ Stop(p) /\ UNCHANGED links
  BY <1>4, StopTyped DEF ReplaceAi, Typed, Tables, Bounds, bounds
<1>5. QED BY <1>3, <1>4 DEF ReplaceAi

LEMMA UnindexTyped ==
  ASSUME Typed, NEW p \in Requests, Unindex(p)
  PROVE  Typed' /\ Moved(p) /\ Lasts(p)
<1>. DEFINE c == call[p]  f == call[p].file
<1>1. /\ c.op \in {"delete", "purge", "empty"}
      /\ c.op # None /\ f \in Files /\ Fits(c) /\ c \in Calls /\ c.at \in Nat /\ c.at \in {2, 3}
      /\ (c.op = "delete" => c.at = 3)
      /\ (Knows(c) => c.row \in Present)
  <2>1. CallsFit /\ At(p, "unindex") BY DEF Typed, CallsKept, Unindex
  <2>2. /\ c.op \in {"delete", "purge", "empty"}
        /\ c.op # None /\ Fits(c) /\ c.at \in {2, 3}
        /\ (c.op = "delete" => c.at = 3)
    BY <2>1, Stands, Places
  <2>3. QED BY <2>1, <2>2, Stands, Busy DEF Fits
<1>2. CallsKept' /\ Marks' /\ Moved(p) /\ Lasts(p) BY <1>1, GoesOnTyped DEF Unindex, Knows
<1>3. index' \in [Files -> Entries \cup {NoEntry}] BY <1>1 DEF Unindex, Typed, Tables
<1>4. QED BY <1>2, <1>3 DEF Unindex, Typed, Tables, Bounds, bounds

LEMMA IndexTyped ==
  ASSUME Typed, NEW p \in Requests, Index(p)
  PROVE  Typed' /\ Moved(p) /\ Lasts(p)
<1>. DEFINE c == call[p]  f == call[p].file
<1>1. /\ c.op \in Refreshers
      /\ c.op # None /\ f \in Files /\ Fits(c) /\ c \in Calls /\ c.at \in Nat /\ c.at >= 4
      /\ (Knows(c) => c.row \in Present)
  <2>1. CallsFit /\ At(p, "index") BY DEF Typed, CallsKept, Index
  <2>2. /\ c.op \in Refreshers
        /\ c.op # None /\ Fits(c) /\ c.at >= 4
    BY <2>1, Stands, Places DEF Refreshers, Saves
  <2>3. QED BY <2>1, <2>2, Stands, Busy DEF Fits
<1>2. c.row \in Present
  BY <1>1 DEF Knows, Refreshers, Saves
<1>3. CallsKept' /\ Marks' /\ Moved(p) /\ Lasts(p) BY <1>1, <1>2, GoesOnTyped DEF Index
<1>4. Entry(c) \in Entries BY <1>1, <1>2, PresentIsRow DEF Entry, Entries, Calls
<1>5. index' \in [Files -> Entries \cup {NoEntry}] BY <1>1, <1>4 DEF Index, Typed, Tables
<1>6. QED BY <1>3, <1>5 DEF Index, Typed, Tables, Bounds, bounds

LEMMA ListTagsTyped ==
  ASSUME Typed, NEW p \in Requests, ListTags(p)
  PROVE  Typed' /\ Moved(p) /\ Lasts(p)
<1>. DEFINE c == call[p]  f == call[p].file
<1>1. /\ c.op \in Refreshers
      /\ c.op # None /\ f \in Files /\ Fits(c) /\ c \in Calls /\ c.at \in Nat
      /\ (c.op \in {"attach", "detach"} => c.at = 2)
      /\ (c.op \notin {"attach", "detach"} => c.at >= 3)
      /\ (Knows(c) => c.row \in Present)
  <2>1. CallsFit /\ At(p, "list") BY DEF Typed, CallsKept, ListTags
  <2>2. /\ c.op \in Refreshers
        /\ c.op # None /\ Fits(c)
        /\ (c.op \in {"attach", "detach"} => c.at = 2)
        /\ (c.op \notin {"attach", "detach"} => c.at >= 3)
    BY <2>1, Stands, Places DEF Refreshers, Saves
  <2>3. QED BY <2>1, <2>2, Stands, Busy DEF Fits
<1>2. links[f] \in SUBSET Tags BY <1>1 DEF Typed, Tables
<1>3. PICK d \in Calls : d = [c EXCEPT !.tags = links[f]]
  BY <1>1, <1>2 DEF Calls
<1>4. Same(d, call[p]) /\ d.row = c.row
  BY <1>1, <1>3 DEF Same, Calls
<1>5. c.row \in Present \/ ~Knows([d EXCEPT !.at = d.at + 1])
  BY <1>1, <1>3, Places DEF ListTags, At, Knows, Calls
<1>6. CallsKept' /\ Marks' /\ Moved(p) /\ Lasts(p)
  BY <1>1, <1>3, <1>4, <1>5, GoesTyped, ArrivalsAssumption DEF ListTags
<1>7. unindexed' \in [Files -> SUBSET (Tags \cup Names)] BY <1>1 DEF ListTags, Typed, Tables
<1>8. QED BY <1>6, <1>7 DEF ListTags, Typed, Tables, Bounds, tables, bounds

LEMMA ReadAgainTyped ==
  ASSUME Typed, NEW p \in Requests, ReadAgain(p)
  PROVE  Typed' /\ Moved(p) /\ (Exists(call[p].file) => Lasts(p))
<1>. DEFINE c == call[p]  f == call[p].file
<1>1. /\ c.op \in {"restore", "attach", "detach"}
      /\ c.op # None /\ f \in Files /\ Fits(c) /\ c \in Calls /\ c.at \in Nat /\ c.at >= 3
      /\ (Knows(c) => c.row \in Present)
  <2>1. CallsFit /\ At(p, "again") BY DEF Typed, CallsKept, ReadAgain
  <2>2. c.op \in {"restore", "attach", "detach"} /\ c.op # None /\ Fits(c) /\ c.at >= 3
    BY <2>1, Stands, Places
  <2>3. QED BY <2>1, <2>2, Stands, Busy DEF Fits
<1>2. CASE Exists(f) /\ Goes(p, [c EXCEPT !.row = row[f]])
  <2>1. row[f] \in Present BY <1>1, <1>2, RowKept DEF Exists
  <2>2. PICK d \in Calls : d = [c EXCEPT !.row = row[f]]
    BY <1>1, <2>1, PresentIsRow DEF Calls
  <2>3. Same(d, call[p]) /\ d.row \in Present
    BY <1>1, <2>1, <2>2 DEF Same, Calls
  <2>4. CallsKept' /\ Marks' /\ Moved(p) /\ Lasts(p) BY <1>1, <1>2, <2>2, <2>3, GoesTyped, ArrivalsAssumption
  <2>5. QED BY <2>4 DEF ReadAgain, Typed, Tables, Bounds, tables, bounds
<1>3. CASE ~Exists(f) /\ Stop(p)
  BY <1>3, StopTyped DEF ReadAgain, Typed, Tables, Bounds, tables, bounds
<1>4. QED BY <1>2, <1>3 DEF ReadAgain

LEMMA PurgeTyped ==
  ASSUME Typed, NEW p \in Requests, Purge(p)
  PROVE  Typed'
<1>. DEFINE c == call[p]  f == call[p].file
            done == Exists(f)  progress == c.progress \/ done
<1>1. c.op \in {"purge", "empty"} /\ c.op # None /\ c.at = 3 /\ f \in Files /\ Fits(c) /\ c \in Calls
  <2>1. CallsFit /\ At(p, "purge") BY DEF Typed, CallsKept, Purge
  <2>2. c.op \in {"purge", "empty"} /\ c.op # None /\ Fits(c) /\ c.at = 3
    BY <2>1, Stands, Places
  <2>3. QED BY <2>1, <2>2, Stands, Busy DEF Fits
<1>2. row' \in [Files -> Rows]
  BY <1>1 DEF Purge, Typed, Tables, Rows, Gone, NoRow
<1>3. links' \in [Files -> SUBSET Tags] BY <1>1 DEF Purge, Typed, Tables
<1>4. CallsKept' /\ Marks'
  <2>1. CASE Ends(p)
    BY <2>1, EndsTyped
  <2>2. CASE /\ c.op = "empty" /\ c.todo # {}
             /\ \E g \in c.todo :
                  call' = [call EXCEPT ![p] = [c EXCEPT !.at = 2, !.file = g, !.todo = c.todo \ {g},
                                                        !.progress = progress]]
             /\ UNCHANGED <<met, mixed, cut>>
    <3>1. PICK g \in c.todo : call' = [call EXCEPT ![p] = [c EXCEPT !.at = 2, !.file = g,
                                                !.todo = c.todo \ {g}, !.progress = progress]]
      BY <2>2
    <3>2. PICK d : d = [c EXCEPT !.at = 2, !.file = g, !.todo = c.todo \ {g}, !.progress = progress]
      OBVIOUS
    <3>3. progress \in BOOLEAN /\ g \in Files BY <1>1 DEF Calls, Exists
    <3>. HIDE DEF progress
    <3>4. d \in Calls
      <4>1. c.todo \ {g} \in SUBSET Files BY <1>1 DEF Calls
      <4>2. PICK F \in SUBSET Files : F = c.todo \ {g} BY <4>1
      <4>3. PICK b \in BOOLEAN : b = progress BY <3>3
      <4>4. d = [c EXCEPT !.at = 2, !.file = g, !.todo = F, !.progress = b]
        BY <3>2, <4>2, <4>3
      <4>5. d = [op |-> c.op, at |-> 2, file |-> g, row |-> c.row, name |-> c.name, tag |-> c.tag,
                 text |-> c.text, tags |-> c.tags, todo |-> F, progress |-> b, alone |-> c.alone]
        <5>1. c \in Calls BY <1>1
        <5>2. QED BY <4>4, <5>1 DEF Calls
      <4>6. g \in Files /\ c \in Calls BY <1>1, <3>3
      <4>7. QED BY <4>5, <4>6 DEF Calls
    <3>5. d.op = "empty" /\ d.at = 2 /\ d.file = g /\ d.todo = c.todo \ {g}
      BY <1>1, <2>2, <3>2 DEF Calls
    <3>6. Fits(d)
      <4>1. DOMAIN Steps["empty"] = 1..3 BY StepTable
      <4>2. d.at \in DOMAIN Steps[d.op] BY <4>1, <3>5
      <4>3. ~Knows(d) BY <3>5 DEF Knows
      <4>4. d.file # None /\ d.file \notin d.todo BY <3>3, <3>5, ArrivalsAssumption
      <4>5. QED BY <4>2, <4>3, <4>4, <3>4, <3>5 DEF Fits, Namers
    <3>7. call' = [call EXCEPT ![p] = d] BY <3>1, <3>2
    <3>8. QED BY <3>6, <3>7, <2>2 DEF Typed, CallsKept, CallsFit, Marks
  <2>3. CASE /\ c.op = "empty" /\ call' = [call EXCEPT ![p] = [Idle EXCEPT !.op = "empty", !.at = 1]]
             /\ UNCHANGED <<met, mixed, cut>>
    <3>1. PICK d : d = [Idle EXCEPT !.op = "empty", !.at = 1]
      OBVIOUS
    <3>2. d \in Calls
      <4>1. NoRow \in Rows /\ "empty" \in Ops BY AllOps DEF NoRow, Rows
      <4>2. d = [op |-> "empty", at |-> 1, file |-> None, row |-> NoRow, name |-> None, tag |-> None,
                 text |-> 0, tags |-> {}, todo |-> {}, progress |-> FALSE, alone |-> TRUE]
        BY <3>1 DEF Idle
      <4>3. QED BY <4>1, <4>2 DEF Calls
    <3>3. Fits(d)
      <4>1. DOMAIN Steps["empty"] = 1..3 BY StepTable
      <4>2. d.op = "empty" /\ d.at = 1 /\ d.todo = {} /\ d.file = None BY <3>1 DEF Idle
      <4>3. d.at \in DOMAIN Steps[d.op] BY <4>1, <4>2
      <4>4. ~Knows(d) BY <4>2 DEF Knows
      <4>5. d.file \notin d.todo BY <4>2
      <4>6. QED BY <4>2, <4>3, <4>4, <4>5, <3>2 DEF Fits, Namers
    <3>4. call' = [call EXCEPT ![p] = d] BY <2>3, <3>1
    <3>5. QED BY <3>3, <3>4, <2>3 DEF Typed, CallsKept, CallsFit, Marks
  <2>4. QED BY <2>1, <2>2, <2>3 DEF Purge
<1>5. QED BY <1>2, <1>3, <1>4 DEF Purge, Typed, Tables, Bounds, bounds

(* Taking files up keeps the types: whoever holds a file has an operation. *)
LEMMA HoldersBusy ==
  ASSUME Typed, NEW q \in Requests, Holds(q) # {}
  PROVE  call[q].op \in Ops
  BY Busy DEF Typed, CallsKept, CallsFit, Holds, Idle, Fits, Calls

LEMMA JoinTyped ==
  ASSUME Typed, NEW p \in Requests, NEW F \in SUBSET Files, NEW c \in Calls, Fits(c), Join(p, F, c), cut' = cut
  PROVE  CallsKept' /\ Marks'
<1>. DEFINE meets == [f \in Files |-> IF f \in F THEN {{c.op, call[q].op} : q \in Others(p, f)} ELSE {}]
<1>1. c.op \in Ops BY DEF Calls
<1>2. ASSUME NEW f \in Files PROVE meets[f] \in SUBSET SUBSET Ops
  <2>1. \A q \in Others(p, f) : q \in Requests /\ call[q].op \in Ops
    BY HoldersBusy DEF Others
  <2>2. QED BY <1>1, <2>1
<1>3. met' = [f \in Files |-> met[f] \cup meets[f]] /\ mixed' \subseteq Files
  BY DEF Join, Typed, Marks
<1>4. met' \in [Files -> SUBSET SUBSET Ops]
  <2>. HIDE DEF meets
  <2>1. QED BY <1>2, <1>3 DEF Typed, Marks
<1>5. ASSUME NEW q \in Requests PROVE call'[q] = Idle \/ Fits(call'[q])
  <2>1. CASE q = p
    <3>1. PICK b \in BOOLEAN : call'[q] = [c EXCEPT !.alone = b]
      BY <2>1 DEF Join, Calls
    <3>2. PICK d : d = [c EXCEPT !.alone = b] OBVIOUS
    <3>3. d \in Calls BY <3>2 DEF Calls
    <3>4. Fits(d) BY <3>2, <3>3 DEF Fits, Knows, Calls
    <3>5. QED BY <3>1, <3>2, <3>4
  <2>2. CASE q # p /\ call'[q] = [call[q] EXCEPT !.alone = FALSE] /\ Holds(q) # {}
    <3>1. call[q] \in Calls /\ Fits(call[q])
      BY <2>2 DEF Holds, Idle, Typed, CallsKept, CallsFit, Fits
    <3>2. PICK d : d = [call[q] EXCEPT !.alone = FALSE] OBVIOUS
    <3>3. d \in Calls BY <3>1, <3>2 DEF Calls
    <3>4. Fits(d) BY <3>1, <3>2, <3>3 DEF Fits, Knows, Calls
    <3>5. QED BY <2>2, <3>2, <3>4
  <2>3. CASE q # p /\ call'[q] = call[q]
    BY <2>3 DEF Typed, CallsKept, CallsFit
  <2>4. QED BY <2>1, <2>2, <2>3 DEF Join
<1>6. call' = [q \in Requests |-> call'[q]] /\ DOMAIN call' = Requests
  BY DEF Join
<1>7. QED BY <1>3, <1>4, <1>5, <1>6 DEF CallsKept, CallsFit, Marks, Typed

LEMMA FirstStep == ASSUME NEW op \in Ops PROVE 1 \in DOMAIN Steps[op]
  BY AllOps, StepTable

LEMMA StartTyped ==
  ASSUME Typed, NEW p \in Requests, NEW op \in Ops \ {"empty"}, NEW f \in Files, Start(p, op, f)
  PROVE  Typed'
<1>1. PICK a \in Arguments(op, f) :
        Join(p, {f}, [Idle EXCEPT !.op = op, !.at = 1, !.file = f, !.name = a.name, !.tag = a.tag])
  BY DEF Start
<1>2. /\ a.name \in Names \cup {None} /\ a.tag \in UserTags \cup {None}
      /\ (op \in {"create"} \cup Namers => a.name \in Names)
      /\ (op \in {"attach", "detach", "drop"} => a.tag \in UserTags)
  BY AllOps DEF Arguments, Namers
<1>3. PICK d : d = [Idle EXCEPT !.op = op, !.at = 1, !.file = f, !.name = a.name, !.tag = a.tag]
  OBVIOUS
<1>4. d = [op |-> op, at |-> 1, file |-> f, row |-> NoRow, name |-> a.name, tag |-> a.tag,
           text |-> 0, tags |-> {}, todo |-> {}, progress |-> FALSE, alone |-> TRUE]
  BY <1>3 DEF Idle
<1>5. d \in Calls
  <2>1. NoRow \in Rows BY DEF NoRow, Rows
  <2>2. QED BY <1>2, <1>4, <2>1 DEF Calls
<1>6. Fits(d)
  <2>1. d.at \in DOMAIN Steps[d.op] BY <1>4, FirstStep
  <2>2. ~Knows(d) BY <1>4 DEF Knows
  <2>3. d.file # None BY <1>4, ArrivalsAssumption
  <2>4. d \in Calls /\ d.op = op /\ d.name = a.name /\ d.tag = a.tag /\ d.todo = {} BY <1>4, <1>5
  <2>5. QED BY <1>2, <2>1, <2>2, <2>3, <2>4 DEF Fits
<1>7. cut' = cut BY DEF Start
<1>8. CallsKept' /\ Marks' BY <1>1, <1>3, <1>6, <1>7, <1>5, JoinTyped
<1>9. started' \in 0..MaxRequests BY LibraryAssumption DEF Start, Typed, Bounds
<1>10. QED BY <1>8, <1>9 DEF Start, Typed, Tables, Bounds, tables

LEMMA EmptyCall ==
  ASSUME NEW d, d = [Idle EXCEPT !.op = "empty", !.at = 1]
  PROVE  Fits(d) /\ d.op = "empty" /\ d.at = 1 /\ d.todo = {} /\ d.file = None
<1>1. d = [op |-> "empty", at |-> 1, file |-> None, row |-> NoRow, name |-> None, tag |-> None,
           text |-> 0, tags |-> {}, todo |-> {}, progress |-> FALSE, alone |-> TRUE]
  BY DEF Idle
<1>2. d \in Calls
  <2>1. NoRow \in Rows /\ "empty" \in Ops BY AllOps DEF NoRow, Rows
  <2>2. PICK r \in Rows : r = NoRow BY <2>1
  <2>3. PICK e : e = [op |-> "empty", at |-> 1, file |-> None, row |-> r, name |-> None, tag |-> None,
                      text |-> 0, tags |-> {}, todo |-> {}, progress |-> FALSE, alone |-> TRUE]
    OBVIOUS
  <2>4. e \in Calls BY <2>1, <2>3 DEF Calls
  <2>5. QED BY <1>1, <2>2, <2>3, <2>4
<1>3. d.at \in DOMAIN Steps[d.op] BY <1>1, AllOps, FirstStep
<1>4. ~Knows(d) BY <1>1 DEF Knows
<1>5. d.op = "empty" /\ d.at = 1 /\ d.todo = {} /\ d.file = None BY DEF Idle
<1>6. d.file \notin d.todo BY <1>5
<1>7. QED BY <1>2, <1>3, <1>4, <1>5, <1>6 DEF Fits, Namers

LEMMA StartEmptyTyped ==
  ASSUME Typed, NEW p \in Requests, StartEmpty(p)
  PROVE  Typed'
<1>1. PICK d : d = [Idle EXCEPT !.op = "empty", !.at = 1] OBVIOUS
<1>2. Fits(d) BY <1>1, EmptyCall
<1>3. call' = [call EXCEPT ![p] = d] BY <1>1 DEF StartEmpty
<1>4. CallsKept' BY <1>2, <1>3 DEF Typed, CallsKept, CallsFit
<1>5. started' \in 0..MaxRequests BY LibraryAssumption DEF StartEmpty, Typed, Bounds
<1>6. QED BY <1>4, <1>5 DEF StartEmpty, Typed, Tables, Marks, Bounds, tables, history

LEMMA ScanTyped ==
  ASSUME Typed, NEW p \in Requests, Scan(p)
  PROVE  Typed'
<1>. DEFINE c == call[p]
<1>1. c.op = "empty" /\ c.at = 1 /\ c \in Calls /\ Fits(c)
  <2>1. CallsFit /\ At(p, "scan") BY DEF Typed, CallsKept, Scan
  <2>2. QED BY <2>1, Stands, Places
<1>2. ASSUME NEW F \in SUBSET Files, NEW f \in F, cut' = cut,
             Join(p, F, [c EXCEPT !.at = 2, !.file = f, !.todo = F \ {f}])
      PROVE  CallsKept' /\ Marks'
  <2>1. PICK d : d = [c EXCEPT !.at = 2, !.file = f, !.todo = F \ {f}] OBVIOUS
  <2>2. PICK G \in SUBSET Files : G = F \ {f} OBVIOUS
  <2>3. d = [op |-> c.op, at |-> 2, file |-> f, row |-> c.row, name |-> c.name, tag |-> c.tag,
             text |-> c.text, tags |-> c.tags, todo |-> G, progress |-> c.progress, alone |-> c.alone]
    BY <1>1, <2>1, <2>2 DEF Calls
  <2>4. f \in Files OBVIOUS
  <2>5. d \in Calls BY <1>1, <2>3, <2>4 DEF Calls
  <2>6. d.at \in DOMAIN Steps[d.op]
    <3>1. DOMAIN Steps["empty"] = 1..3 BY StepTable
    <3>2. QED BY <3>1, <2>3, <1>1
  <2>7. ~Knows(d) BY <1>1, <2>3 DEF Knows
  <2>8. d.file # None /\ d.file \notin d.todo BY <2>2, <2>3, <2>4, ArrivalsAssumption
  <2>9. Fits(d) BY <1>1, <2>3, <2>5, <2>6, <2>7, <2>8 DEF Fits
  <2>10. QED BY <1>2, <2>1, <2>5, <2>9, JoinTyped
<1>3. CASE Stop(p)
  BY <1>3, StopTyped DEF Scan, Typed, Tables, Bounds, tables, bounds
<1>4. CASE ~Stop(p)
  <2>1. CallsKept' /\ Marks' BY <1>2, <1>4 DEF Scan, Trash
  <2>2. QED BY <2>1 DEF Scan, Typed, Tables, Bounds, tables, bounds
<1>5. QED BY <1>3, <1>4

LEMMA DeleteTagTyped ==
  ASSUME Typed, NEW t \in UserTags, DeleteTag(t)
  PROVE  Typed'
<1>1. links' \in [Files -> SUBSET Tags] /\ unindexed' \in [Files -> SUBSET (Tags \cup Names)]
  BY DEF DeleteTag, Typed, Tables, Tags
<1>2. started' \in 0..MaxRequests BY LibraryAssumption DEF DeleteTag, Typed, Bounds
<1>3. QED BY <1>1, <1>2 DEF DeleteTag, Typed, Tables, Marks, Bounds, CallsKept, CallsFit

LEMMA HoldsFiles ==
  ASSUME CallsFit, NEW p \in Requests
  PROVE  Holds(p) \subseteq Files
<1>1. CASE call[p] = Idle BY <1>1 DEF Holds, Idle
<1>2. CASE Fits(call[p]) BY <1>2 DEF Holds, Fits, Calls
<1>3. QED BY <1>1, <1>2 DEF CallsFit

LEMMA FaultTyped ==
  ASSUME Typed, NEW F \in SUBSET Files, Fault(F)
  PROVE  Tables' /\ Bounds' /\ cut' \subseteq Files /\ met' = met
<1>1. faults' \in 0..MaxFaults BY LibraryAssumption DEF Fault, Typed, Bounds
<1>2. QED BY <1>1 DEF Fault, Typed, Tables, Bounds, Marks, tables

LEMMA FailsTyped ==
  ASSUME Typed, NEW p \in Requests, Fails(p)
  PROVE  Typed'
<1>1. Touched(p) \in SUBSET Files BY HoldsFiles DEF Touched, Typed, CallsKept
<1>2. Tables' /\ Bounds' /\ cut' \subseteq Files /\ met' = met BY <1>1, FaultTyped DEF Fails
<1>3. call[p].op = "rename" => call[p].file \in Files BY Busy DEF Typed, CallsKept, Fails
<1>4. mixed' \subseteq Files BY <1>3 DEF Fails, Typed, Marks
<1>5. CallsKept' BY DEF Fails, Typed, CallsKept, CallsFit
<1>6. QED BY <1>2, <1>4, <1>5 DEF Typed, Marks

LEMMA IndexBusyTyped ==
  ASSUME Typed, NEW p \in Requests, IndexBusy(p)
  PROVE  Typed'
<1>. DEFINE c == call[p]
<1>1. Holds(p) \in SUBSET Files BY HoldsFiles DEF Typed, CallsKept
<1>2. Tables' /\ Bounds' /\ cut' \subseteq Files /\ met' = met BY <1>1, FaultTyped DEF IndexBusy
<1>3. mixed' \subseteq Files BY DEF IndexBusy, Typed, Marks
<1>4. /\ c \in Calls /\ Fits(c) /\ c.op \in Ops
      /\ c.op \in {"delete", "purge", "empty"} \cup Refreshers /\ c.at >= 2 /\ (c.op \in {"attach", "detach"} => c.at = 4)
  <2>1. CallsFit BY DEF Typed, CallsKept
  <2>2. CASE At(p, "index") BY <2>1, <2>2, Stands, Places DEF Refreshers, Saves
  <2>3. CASE At(p, "unindex") BY <2>1, <2>3, Stands, Places
  <2>4. QED BY <2>2, <2>3 DEF IndexBusy
<1>5. PICK k \in 1..8 : k = c.at + 1 /\ k \in DOMAIN Steps[c.op]
  <2>1. PICK n \in 1..8 : n = Len(Steps[c.op]) /\ DOMAIN Steps[c.op] = 1..n /\ c.at \in 1..n
    BY <1>4, Places DEF Fits
  <2>2. c.at < Len(Steps[c.op]) BY DEF IndexBusy
  <2>3. PICK k \in 1..n : k = c.at BY <2>1
  <2>4. k < n BY <2>1, <2>2, <2>3
  <2>5. k + 1 \in 1..n /\ k + 1 \in 1..8 BY <2>4
  <2>6. QED BY <2>1, <2>3, <2>5
<1>6. PICK d : d = [c EXCEPT !.at = k] OBVIOUS
<1>7. d \in Calls BY <1>4, <1>6 DEF Calls
<1>8. d.op = c.op /\ d.at = k /\ d.file = c.file /\ d.todo = c.todo /\ d.name = c.name /\ d.tag = c.tag
        /\ d.row = c.row
  BY <1>4, <1>6 DEF Calls
<1>9. c.file # None BY <1>4 DEF Fits
<1>10. Knows(d) => Knows(c) BY <1>4, <1>5, <1>8 DEF Knows
<1>11. Fits(d) BY <1>4, <1>5, <1>7, <1>8, <1>9, <1>10 DEF Fits
<1>12. call' = [call EXCEPT ![p] = d] BY <1>5, <1>6 DEF IndexBusy
<1>13. CallsKept' BY <1>11, <1>12 DEF Typed, CallsKept, CallsFit
<1>14. QED BY <1>2, <1>3, <1>13 DEF Typed, Marks

LEMMA CrashTyped ==
  ASSUME Typed, Crash
  PROVE  Typed'
<1>1. UNION {Touched(p) : p \in Requests} \in SUBSET Files
  BY HoldsFiles DEF Touched, Typed, CallsKept
<1>2. Tables' /\ Bounds' /\ cut' \subseteq Files /\ met' = met BY <1>1, FaultTyped DEF Crash
<1>3. \A p \in Requests : call[p].op = "rename" => call[p].file \in Files
  <2>1. SUFFICES ASSUME NEW p \in Requests, call[p].op = "rename" PROVE call[p].file \in Files OBVIOUS
  <2>2. call[p].op # None BY <2>1, AllOps, ArrivalsAssumption
  <2>3. QED BY <2>1, <2>2, Busy DEF Typed, CallsKept
<1>4. mixed' \subseteq Files BY <1>3 DEF Crash, Typed, Marks
<1>5. CallsKept' BY DEF Crash, Typed, CallsKept, CallsFit
<1>6. QED BY <1>2, <1>4, <1>5 DEF Typed, Marks

LEMMA InitTyped == ASSUME Init PROVE Typed
<1>1. row \in [Files -> Rows] BY ArrivalsAssumption DEF Init
<1>2. \A f \in Files : Exists(f) => row[f].name \in Names /\ row[f].head \in Nat
  BY <1>1 DEF Rows, Exists
<1>3. links \in [Files -> SUBSET Tags]
  BY <1>2, LibraryAssumption DEF Init, Tags, ExtTags
<1>4. index \in [Files -> Entries \cup {NoEntry}]
  BY <1>2, <1>3 DEF Init, Entries, Exists
<1>5. unindexed \in [Files -> SUBSET (Tags \cup Names)]
  /\ unfit \in [Files -> SUBSET ExtTags] /\ Marks /\ CallsKept
  BY DEF Init, Marks, CallsKept, CallsFit
<1>6. Bounds BY LibraryAssumption DEF Init, Bounds
<1>7. QED BY <1>1, <1>3, <1>4, <1>5, <1>6 DEF Typed, Tables

LEMMA NextTyped == ASSUME Typed, [Next]_vars PROVE Typed'
<1>1. CASE UNCHANGED vars
  BY <1>1 DEF vars, tables, bounds, history, Typed, Tables, Marks, Bounds, CallsKept, CallsFit
<1>2. ASSUME NEW p \in Requests, NEW a \in Arrivals, Start(p, a[1], a[2]) PROVE Typed'
  <2>1. a[1] \in Ops \ {"empty"} /\ a[2] \in Files BY ArrivalsAssumption
  <2>2. QED BY <1>2, <2>1, StartTyped
<1>3. ASSUME NEW p \in Requests, RowStep(p) PROVE Typed'
  BY <1>3, ReadTyped, InsertTyped, ReadBodyTyped, WriteRowTyped, RetitleTyped, ReadActorTyped, WriteActorTyped,
     PurgeTyped, ScanTyped DEF RowStep
<1>4. ASSUME NEW p \in Requests, TagStep(p) PROVE Typed'
  BY <1>4, LinkTyped, UnlinkTyped, TagSystemTyped, UntagSystemTyped, TagSourceTyped, ReplaceAiTyped DEF TagStep
<1>5. ASSUME NEW p \in Requests, IndexStep(p) PROVE Typed'
  BY <1>5, ListTagsTyped, ReadAgainTyped, IndexTyped, UnindexTyped DEF IndexStep
<1>6. ASSUME NEW p \in Requests, StartEmpty(p) \/ Fails(p) \/ IndexBusy(p) PROVE Typed'
  BY <1>6, StartEmptyTyped, FailsTyped, IndexBusyTyped
<1>7. QED BY <1>1, <1>2, <1>3, <1>4, <1>5, <1>6, DeleteTagTyped, CrashTyped DEF Next

(* Every variable keeps its type, in whatever order handlers, faults and   *)
(* the trash interleave.                                                   *)
THEOREM LibraryTyped == Spec => []TypeOK
<1>1. Init => Typed BY InitTyped
<1>2. Typed /\ [Next]_vars => Typed' BY NextTyped
<1>3. QED BY <1>1, <1>2, TypedIsTypeOK, PTL DEF Spec

-----------------------------------------------------------------------------
(* Requests that have a file in hand at once know of each other.           *)

MetWith(f, S) == \E pair \in met[f] : pair \cap S # {}

Meeting ==
  \A p, q \in Requests : p # q =>
    \A f \in Holds(p) \cap Holds(q) :
      {call[p].op, call[q].op} \in met[f] /\ ~call[p].alone /\ ~call[q].alone

(* A file that is being made is nobody else's.                             *)
MadeAlone ==
  \A p \in Requests : call[p].op = "create" /\ call[p].at = 1 =>
    row[call[p].file].state = "none" /\ \A q \in Requests \ {p} : call[p].file \notin Holds(q)

(* A removal that is past its look at a file that is live again has met    *)
(* whoever brought it back.                                                *)
Removing(p) ==
  \/ call[p].op \in {"purge", "empty"} /\ call[p].at >= 2
  \/ call[p].op = "delete" /\ call[p].at >= 3
RemoversSee ==
  \A p \in Requests : Removing(p) =>
    \A f \in Holds(p) : row[f].state = "live" => MetWith(f, {call[p].op})

(* What is live is in the index, or about to be.                           *)
IndexAt(op) == IF op \in {"rename", "fold"} THEN 7 ELSE IF op \in {"attach", "detach", "ai"} THEN 4 ELSE 5
Ahead(p, f) ==
  call[p].file = f /\ call[p].op \in Refreshers /\ call[p].at >= 2 /\ call[p].at <= IndexAt(call[p].op)
Listed(f) == index[f] # NoEntry \/ \E p \in Requests : Ahead(p, f)
Stamps(c) == Reaches(c, "stamp") \/ (c.op = "retitle" /\ c.at = 2)
Stamping(p, f) == Stamps(call[p]) /\ call[p].file = f /\ call[p].row.state = "live"
Findable ==
  \A f \in Files :
    /\ f \notin cut /\ ~MetWith(f, Removers) /\ Exists(f)
    /\ row[f].state = "live" \/ \E p \in Requests : Stamping(p, f)
    => Listed(f)

(* What is purged is not in the index, nor in anybody's hands.             *)
PurgedLeft ==
  \A f \in Files : row[f].state = "gone" =>
    /\ \A p \in Requests : f \in Holds(p) => ~call[p].alone
    /\ (f \notin cut /\ ~MetWith(f, {"purge", "empty"})) =>
         index[f] = NoEntry /\ \A p \in Requests : f \notin Holds(p)
ClearedFirst ==
  \A p \in Requests : call[p].op \in {"purge", "empty"} /\ call[p].at = 3 =>
    (call[p].file \notin cut /\ ~MetWith(call[p].file, {"purge", "empty"}) => index[call[p].file] = NoEntry)

Together == Meeting /\ MadeAlone /\ RemoversSee /\ Findable /\ PurgedLeft /\ ClearedFirst
FilesInv == Typed /\ Together

(* The calls that write back a row as it was read. *)
LEMMA StampsAt ==
  ASSUME NEW c, Stamps(c)
  PROVE  /\ c.op \in Ops /\ c.op \in {"save", "create", "upload", "retitle"}
         /\ c.op = "retitle" => c.at = 2
         /\ c.op # "retitle" => c.at \in {7, 8} /\ Reaches(c, "stamp")
         /\ c.op = "create" => c.at = 8
<1>1. CASE Reaches(c, "stamp")
  <2>1. c.op \in Ops /\ c.at \in DOMAIN Steps[c.op] /\ Steps[c.op][c.at] = "stamp" BY <1>1 DEF Reaches
  <2>2. /\ c.op \in {"save", "create", "upload"} /\ c.at \in {7, 8}
        /\ c.op = "create" => c.at = 8
    BY <2>1, Places
  <2>3. QED BY <1>1, <2>1, <2>2
<1>2. CASE c.op = "retitle" /\ c.at = 2 BY <1>2, AllOps
<1>3. QED BY <1>1, <1>2 DEF Stamps

LEMMA HoldsMoved ==
  ASSUME Typed, NEW p \in Requests, OthersStay(p), Onward(p) \/ call'[p] = Idle
  PROVE  /\ \A q \in Requests \ {p} : Holds(q)' = Holds(q) /\ call'[q] = call[q]
         /\ Holds(p)' \subseteq Holds(p)
         /\ \A f \in Holds(p)' : Onward(p)
         /\ call'[p].op # None => Onward(p)
         /\ call'[p] = Idle => Holds(p)' = {} /\ call'[p].op = None
<1>1. \A q \in Requests \ {p} : Holds(q)' = Holds(q) /\ call'[q] = call[q]
  BY DEF OthersStay, Holds
<1>2. CASE Onward(p)
  <2>1. call'[p] = Idle => Holds(p)' = {} /\ call'[p].op = None BY DEF Holds, Idle
  <2>2. QED BY <1>1, <1>2, <2>1 DEF Onward, Holds
<1>3. CASE call'[p] = Idle
  <2>1. Holds(p)' = {} BY <1>3 DEF Holds, Idle
  <2>2. call'[p].op = None BY <1>3 DEF Idle
  <2>3. QED BY <1>1, <2>1, <2>2
<1>4. QED BY <1>2, <1>3

LEMMA MovedMarks ==
  ASSUME Typed, NEW p \in Requests, Moved(p), ~Mended(p)
  PROVE  UNCHANGED <<met, mixed, cut>> /\ OthersStay(p) /\ (Onward(p) \/ call'[p] = Idle)
  BY DEF Moved, Ends, Typed, Marks

(* A step that touches neither rows nor the index keeps what holds of them,*)
(* if the request does not leave the index behind.                         *)
LEMMA Calm ==
  ASSUME FilesInv, NEW p \in Requests, OthersStay(p),
         row' = row, index' = index, cut \subseteq cut', met' = met,
         \/ /\ Onward(p)
            /\ \A f \in Files : Ahead(p, f) => Ahead(p, f)' \/ f \in cut'
            /\ \A f \in Files : Stamping(p, f)' => Stamping(p, f) \/ row[f].state = "live"
            /\ Removing(p)' => Removing(p) \/ \A f \in Holds(p) : row[f].state # "live"
            /\ call[p].op \in {"purge", "empty"} /\ call'[p].at = 3 => call[p].file \in cut'
            /\ call'[p].at # 1
         \/ /\ call'[p] = Idle
            /\ \A f \in Files : Ahead(p, f) => ~Exists(f) \/ f \in cut'
  PROVE  Together'
<1>0. /\ \A q \in Requests \ {p} : Holds(q)' = Holds(q) /\ call'[q] = call[q]
      /\ Holds(p)' \subseteq Holds(p)
      /\ \A f \in Holds(p)' : Onward(p)
      /\ call'[p].op # None => Onward(p)
      /\ call'[p] = Idle => Holds(p)' = {} /\ call'[p].op = None
  BY HoldsMoved DEF FilesInv
<1>1. Meeting'
  <2>1. SUFFICES ASSUME NEW a \in Requests, NEW b \in Requests, a # b, NEW f \in Holds(a)' \cap Holds(b)'
        PROVE {call'[a].op, call'[b].op} \in met'[f] /\ ~call'[a].alone /\ ~call'[b].alone
    BY DEF Meeting
  <2>2. f \in Holds(a) \cap Holds(b) BY <1>0
  <2>3. {call[a].op, call[b].op} \in met[f] /\ ~call[a].alone /\ ~call[b].alone
    BY <2>1, <2>2 DEF FilesInv, Together, Meeting
  <2>4. call'[a].op = call[a].op /\ call'[a].alone = call[a].alone
    BY <1>0 DEF Onward
  <2>5. call'[b].op = call[b].op /\ call'[b].alone = call[b].alone
    BY <1>0 DEF Onward
  <2>6. QED BY <2>3, <2>4, <2>5
<1>2. MadeAlone'
  <2>1. SUFFICES ASSUME NEW a \in Requests, call'[a].op = "create", call'[a].at = 1
        PROVE row'[call'[a].file].state = "none" /\ \A q \in Requests \ {a} : call'[a].file \notin Holds(q)'
    BY DEF MadeAlone, Holds
  <2>2. a # p
    <3>1. SUFFICES ASSUME a = p PROVE FALSE OBVIOUS
    <3>2. None # "create" BY ArrivalsAssumption, AllOps
    <3>3. QED BY <1>0, <2>1, <3>1, <3>2
  <2>3. call'[a] = call[a] BY <1>0, <2>2
  <2>4. row[call[a].file].state = "none" /\ \A q \in Requests \ {a} : call[a].file \notin Holds(q)
    BY <2>1, <2>3 DEF FilesInv, Together, MadeAlone
  <2>5. QED BY <1>0, <2>3, <2>4
<1>3. RemoversSee'
  <2>1. SUFFICES ASSUME NEW a \in Requests, Removing(a)', NEW f \in Holds(a)', row'[f].state = "live"
        PROVE MetWith(f, {call[a].op})'
    BY DEF RemoversSee
  <2>2. CASE a = p
    <3>1. Onward(p) /\ f \in Holds(p) BY <1>0, <2>1, <2>2
    <3>2. call'[p] # Idle BY <1>0, <2>1, <2>2
    <3>3. row[f].state = "live" /\ Removing(p)' BY <2>1, <2>2
    <3>4. Removing(p) BY <3>1, <3>2, <3>3
    <3>5. MetWith(f, {call[p].op}) BY <2>1, <3>1, <3>4 DEF FilesInv, Together, RemoversSee
    <3>6. QED BY <2>2, <3>1, <3>5 DEF MetWith, Onward
  <2>3. CASE a # p
    <3>1. call'[a] = call[a] /\ f \in Holds(a) BY <1>0, <2>1, <2>3
    <3>2. Removing(a) BY <2>1, <3>1 DEF Removing
    <3>3. MetWith(f, {call[a].op}) BY <2>1, <3>1, <3>2 DEF FilesInv, Together, RemoversSee
    <3>4. QED BY <3>1, <3>3 DEF MetWith
  <2>4. QED BY <2>2, <2>3
<1>4. Findable'
  <2>1. SUFFICES ASSUME NEW f \in Files, f \notin cut', ~MetWith(f, Removers)', Exists(f)',
                        row'[f].state = "live" \/ \E q \in Requests : Stamping(q, f)'
        PROVE Listed(f)'
    BY DEF Findable
  <2>2. f \notin cut /\ ~MetWith(f, Removers) /\ Exists(f)
    BY <2>1 DEF MetWith, Exists
  <2>3. row[f].state = "live" \/ \E q \in Requests : Stamping(q, f)
    <3>1. \A q \in Requests \ {p} : Stamping(q, f)' => Stamping(q, f)
      BY <1>0 DEF Stamping, Stamps, Reaches
    <3>2. Stamping(p, f)' => Stamping(p, f) \/ row[f].state = "live"
      <4>1. CASE call'[p] = Idle
        <5>1. call'[p].op = None BY <4>1 DEF Idle
        <5>2. ~Stamping(p, f)' BY <5>1, ArrivalsAssumption, AllOps DEF Stamping, Stamps, Reaches
        <5>3. QED BY <5>2
      <4>2. QED BY <4>1
    <3>3. QED BY <2>1, <3>1, <3>2
  <2>4. Listed(f) BY <2>2, <2>3 DEF FilesInv, Together, Findable
  <2>5. \A q \in Requests \ {p} : Ahead(q, f) => Ahead(q, f)'
    BY <1>0 DEF Ahead
  <2>6. Ahead(p, f) => Ahead(p, f)'
    BY <2>1, <2>2
  <2>7. QED BY <2>4, <2>5, <2>6 DEF Listed
<1>5. PurgedLeft'
  <2>1. SUFFICES ASSUME NEW f \in Files, row'[f].state = "gone"
        PROVE /\ \A q \in Requests : f \in Holds(q)' => ~call'[q].alone
              /\ (f \notin cut' /\ ~MetWith(f, {"purge", "empty"})') =>
                    index'[f] = NoEntry /\ \A q \in Requests : f \notin Holds(q)'
    BY DEF PurgedLeft
  <2>2. /\ \A q \in Requests : f \in Holds(q) => ~call[q].alone
        /\ (f \notin cut /\ ~MetWith(f, {"purge", "empty"})) =>
              index[f] = NoEntry /\ \A q \in Requests : f \notin Holds(q)
    BY <2>1 DEF FilesInv, Together, PurgedLeft
  <2>3. \A q \in Requests : f \in Holds(q)' => ~call'[q].alone
    BY <1>0, <2>2 DEF Onward
  <2>4. ~MetWith(f, {"purge", "empty"})' => ~MetWith(f, {"purge", "empty"}) BY DEF MetWith
  <2>5. QED BY <1>0, <2>2, <2>3, <2>4
<1>6. ClearedFirst'
  <2>1. SUFFICES ASSUME NEW a \in Requests, call'[a].op \in {"purge", "empty"}, call'[a].at = 3,
                        call'[a].file \notin cut', ~MetWith(call[a].file, {"purge", "empty"})'
        PROVE index'[call'[a].file] = NoEntry
    BY DEF ClearedFirst
  <2>2. a # p
    <3>1. SUFFICES ASSUME a = p PROVE FALSE OBVIOUS
    <3>2. call'[p].op # None BY <2>1, <3>1, ArrivalsAssumption, AllOps
    <3>3. Onward(p) BY <1>0, <3>2
    <3>4. call[p].op = call'[p].op /\ call[p].file = call'[p].file BY <3>3 DEF Onward
    <3>5. call'[p] # Idle BY <3>2 DEF Idle
    <3>6. QED BY <2>1, <3>1, <3>4, <3>5
  <2>3. call'[a] = call[a] BY <1>0, <2>2
  <2>4. ~MetWith(call[a].file, {"purge", "empty"}) BY <2>1, <2>3 DEF MetWith
  <2>5. QED BY <2>1, <2>3, <2>4 DEF FilesInv, Together, ClearedFirst
<1>7. QED BY <1>1, <1>2, <1>3, <1>4, <1>5, <1>6 DEF Together

LEMMA NotLast ==
  ASSUME Typed, NEW p \in Requests, NEW step, At(p, step), step # "index"
  PROVE  ~Mended(p)
  BY Stands DEF Mended, At, Typed, CallsKept

LEMMA Single ==
  ASSUME Typed, NEW p \in Requests, call[p].op # None, call[p].op # "empty"
  PROVE  Holds(p) = {call[p].file} /\ call[p].file \in Files
  BY Busy, ArrivalsAssumption DEF Typed, CallsKept, Holds

LEMMA ReadTogether == ASSUME FilesInv, NEW p \in Requests, Read(p) PROVE Together'
<1>. DEFINE c == call[p]  f == call[p].file
<1>1. CallsFit /\ At(p, "read") BY DEF FilesInv, Typed, CallsKept, Read
<1>2. /\ c.op \in {"commit", "save", "rename", "upload", "retitle", "fold", "delete", "discard", "restore", "purge", "ai"}
      /\ c.at = 1 \/ (c.op = "fold" /\ c.at = 3)
      /\ c.op # None
  BY <1>1, Stands, Places
<1>3. /\ Moved(p) /\ Typed /\ (Accepts(c, row[f]) => Lasts(p))
      /\ Onward(p) => call'[p].row = row[f]
  BY ReadTyped DEF FilesInv
<1>4. OthersStay(p) /\ UNCHANGED <<met, mixed, cut, row, index>> /\ (Onward(p) \/ call'[p] = Idle)
  BY <1>1, <1>3, NotLast, MovedMarks DEF Read, tables
<1>5. Holds(p) = {f} BY <1>2, <1>3, Single
<1>6. \A g \in Files : Ahead(p, g) => c.op = "fold" /\ c.at = 3 /\ g = f BY <1>2 DEF Ahead
<1>7. CASE Onward(p)
  <2>1. call'[p].op = c.op /\ call'[p].at = c.at + 1 /\ call'[p].file = f BY <1>7 DEF Onward
  <2>2. \A g \in Files : Stamping(p, g)' => row[g].state = "live"
    BY <1>3, <1>7, <2>1 DEF Stamping, Stamps
  <2>3. c.op = "purge" => row[f].state # "live"
    <3>1. SUFFICES ASSUME c.op = "purge", row[f].state = "live" PROVE FALSE OBVIOUS
    <3>2. ~Accepts(c, row[f]) BY <3>1 DEF Accepts
    <3>3. Stop(p) BY <3>2 DEF Read
    <3>4. call'[p] = Idle BY <3>3, <1>3 DEF Stop, Typed, CallsKept
    <3>5. QED BY <3>4, <2>1, <1>2 DEF Idle
  <2>4. Removing(p)' => \A g \in Holds(p) : row[g].state # "live"
    BY <1>2, <1>5, <2>1, <2>3 DEF Removing
  <2>5. \A g \in Files : Ahead(p, g) => Ahead(p, g)'
    <3>1. SUFFICES ASSUME NEW g \in Files, Ahead(p, g) PROVE Ahead(p, g)' OBVIOUS
    <3>2. call'[p].op = "fold" /\ call'[p].at = 4 /\ call'[p].file = g BY <1>6, <2>1, <3>1
    <3>3. QED BY <3>2 DEF Ahead, IndexAt, Refreshers, Saves
  <2>6. call'[p].at # 1 /\ ~(c.op \in {"purge", "empty"} /\ call'[p].at = 3) BY <1>2, <2>1
  <2>7. QED BY <1>4, <1>7, <2>2, <2>4, <2>5, <2>6, Calm
<1>8. CASE call'[p] = Idle
  <2>1. \A g \in Files : Ahead(p, g) => ~Exists(g)
    <3>1. SUFFICES ASSUME NEW g \in Files, Ahead(p, g), Exists(g) PROVE FALSE OBVIOUS
    <3>2. c.op = "fold" /\ c.at = 3 /\ g = f BY <1>6, <3>1
    <3>3. Accepts(c, row[f]) BY <3>1, <3>2 DEF Accepts, Exists
    <3>4. c.at = Len(Steps[c.op]) BY <1>3, <1>8, <3>3 DEF Lasts
    <3>5. QED BY <3>2, <3>4, StepTable
  <2>2. QED BY <1>4, <1>8, <2>1, Calm
<1>9. QED BY <1>4, <1>7, <1>8

(* The calls in the middle of a handler that only look, or change links.   *)
LEMMA Middle ==
  ASSUME FilesInv, NEW p \in Requests, NEW step, At(p, step),
         step \in {"body", "list", "again", "tag", "untag", "source", "replace", "link", "unlink"},
         Moved(p), UNCHANGED <<row, index>>,
         call'[p] = Idle => step \in {"link", "unlink"} \/ ~Exists(call[p].file)
  PROVE  Together'
<1>. DEFINE c == call[p]  f == call[p].file
<1>1. Typed /\ CallsFit BY DEF FilesInv, Typed, CallsKept
<1>2. /\ c.op # None /\ c.op \in Ops /\ c.at \in 1..8 /\ Reaches(c, step)
      /\ c.op \in {"commit", "save", "create", "rename", "upload", "fold", "restore", "attach", "detach", "ai", "drop"}
      /\ step \in {"link", "unlink"} => c.at = 1 /\ c.op \in {"attach", "detach", "drop"}
      /\ step = "source" => c.at = 6 /\ c.op = "create"
      /\ step \notin {"link", "unlink", "source"} => c.at < IndexAt(c.op) /\ c.op # "drop"
  <2>1. c.op # None /\ c.op \in Ops /\ Reaches(c, step) /\ c.at \in DOMAIN Steps[c.op]
    BY <1>1, Stands DEF Reaches
  <2>2. Steps[c.op][c.at] = step BY <2>1 DEF Reaches
  <2>3. QED BY <2>1, <2>2, Places DEF IndexAt
<1>3. OthersStay(p) /\ UNCHANGED <<met, mixed, cut>> /\ (Onward(p) \/ call'[p] = Idle)
  BY <1>1, NotLast, MovedMarks
<1>4. CASE Onward(p)
  <2>1. call'[p].op = c.op /\ call'[p].at = c.at + 1 /\ call'[p].file = f BY <1>4 DEF Onward
  <2>2. \A g \in Files : Ahead(p, g) => Ahead(p, g)'
    <3>1. SUFFICES ASSUME NEW g \in Files, Ahead(p, g) PROVE Ahead(p, g)' OBVIOUS
    <3>2. c.at >= 2 /\ c.at <= IndexAt(c.op) BY <3>1 DEF Ahead
    <3>3. c.at < IndexAt(c.op) BY <1>2, <3>2 DEF IndexAt
    <3>4. IndexAt(c.op) \in Nat BY DEF IndexAt
    <3>5. call'[p].at >= 2 /\ call'[p].at <= IndexAt(c.op) BY <1>2, <2>1, <3>2, <3>3, <3>4
    <3>6. QED BY <2>1, <3>1, <3>5 DEF Ahead
  <2>3. \A g \in Files : ~Stamping(p, g)'
    <3>1. SUFFICES ASSUME NEW g \in Files, Stamping(p, g)' PROVE FALSE OBVIOUS
    <3>2. Reaches(call'[p], "stamp") BY <1>2, <2>1, <3>1 DEF Stamping, Stamps
    <3>3. /\ call'[p].op \in {"save", "create", "upload"} /\ call'[p].at \in {7, 8}
          /\ (call'[p].op = "create" => call'[p].at = 8)
      BY <3>2, Places DEF Reaches
    <3>4. c.at \in {6, 7} /\ (c.op = "create" => c.at = 7) /\ c.op \in {"save", "create", "upload"} BY <1>2, <2>1, <3>3
    <3>5. QED BY <1>2, <3>4 DEF IndexAt
  <2>4. ~Removing(p)' BY <1>2, <2>1 DEF Removing
  <2>5. call'[p].at # 1 BY <1>2, <2>1
  <2>6. c.op \notin {"purge", "empty"} BY <1>2
  <2>7. QED BY <1>3, <1>4, <2>2, <2>3, <2>4, <2>5, <2>6, Calm
<1>5. CASE call'[p] = Idle
  <2>1. \A g \in Files : Ahead(p, g) => ~Exists(g)
    BY <1>2, <1>5 DEF Ahead
  <2>2. QED BY <1>3, <1>5, <2>1, Calm
<1>6. QED BY <1>3, <1>4, <1>5

LEMMA Lengths ==
  /\ Len(Steps["commit"]) = 5 /\ Len(Steps["save"]) = 7 /\ Len(Steps["create"]) = 8
  /\ Len(Steps["rename"]) = 7 /\ Len(Steps["delete"]) = 3 /\ Len(Steps["discard"]) = 2
  /\ Len(Steps["restore"]) = 5 /\ Len(Steps["purge"]) = 3 /\ Len(Steps["empty"]) = 3
  /\ Len(Steps["attach"]) = 4 /\ Len(Steps["detach"]) = 4 /\ Len(Steps["drop"]) = 1
  /\ Len(Steps["ai"]) = 4
  /\ Len(Steps["upload"]) = 7 /\ Len(Steps["retitle"]) = 2 /\ Len(Steps["fold"]) = 7
  BY StepTable

LEMMA LengthOf ==
  ASSUME NEW op
  PROVE  /\ op \in Saves \cup {"rename", "restore"} => Len(Steps[op]) \notin {1, 2, 3, 4}
         /\ op \in {"save", "upload"} => Len(Steps[op]) = 7
         /\ op = "create" => Len(Steps[op]) = 8
<1>1. CASE op = "commit" BY <1>1, Lengths
<1>2. CASE op = "save" BY <1>2, Lengths
<1>3. CASE op = "create" BY <1>3, Lengths
<1>4. CASE op = "rename" BY <1>4, Lengths
<1>5. CASE op = "restore" BY <1>5, Lengths
<1>6. CASE op = "upload" BY <1>6, Lengths
<1>7. CASE op = "fold" BY <1>7, Lengths
<1>8. QED BY <1>1, <1>2, <1>3, <1>4, <1>5, <1>6, <1>7 DEF Saves

LEMMA NotAtEnd ==
  ASSUME Typed, NEW p \in Requests, NEW step, At(p, step),
         step \in {"body", "list", "again", "tag", "untag", "source", "replace", "actor"}
  PROVE  call[p].at # Len(Steps[call[p].op])
<1>1. /\ call[p].op # None /\ call[p].op \in Ops /\ call[p].at \in DOMAIN Steps[call[p].op]
      /\ Steps[call[p].op][call[p].at] = step
  BY Stands DEF Typed, CallsKept
<1>2. \/ call[p].op \in {"commit"} /\ call[p].at < 5
      \/ call[p].op \in {"save", "rename", "upload", "fold"} /\ call[p].at < 7
      \/ call[p].op \in {"create"} /\ call[p].at < 8
      \/ call[p].op \in {"restore"} /\ call[p].at < 5
      \/ call[p].op \in {"attach", "detach", "ai"} /\ call[p].at < 4
  BY <1>1, Places
<1>3. PICK k \in 1..8 : k = call[p].at BY <1>1, Places
<1>4. CASE call[p].op = "commit"
  <2>1. k < 5 BY <1>2, <1>3, <1>4
  <2>2. Len(Steps[call[p].op]) = 5 BY <1>4, Lengths
  <2>3. QED BY <1>3, <2>1, <2>2
<1>5. CASE call[p].op = "save"
  <2>1. k < 7 BY <1>2, <1>3, <1>5
  <2>2. Len(Steps[call[p].op]) = 7 BY <1>5, Lengths
  <2>3. QED BY <1>3, <2>1, <2>2
<1>6. CASE call[p].op = "create"
  <2>1. k < 8 BY <1>2, <1>3, <1>6
  <2>2. Len(Steps[call[p].op]) = 8 BY <1>6, Lengths
  <2>3. QED BY <1>3, <2>1, <2>2
<1>7. CASE call[p].op = "rename"
  <2>1. k < 7 BY <1>2, <1>3, <1>7
  <2>2. Len(Steps[call[p].op]) = 7 BY <1>7, Lengths
  <2>3. QED BY <1>3, <2>1, <2>2
<1>8. CASE call[p].op = "restore"
  <2>1. k < 5 BY <1>2, <1>3, <1>8
  <2>2. Len(Steps[call[p].op]) = 5 BY <1>8, Lengths
  <2>3. QED BY <1>3, <2>1, <2>2
<1>9. CASE call[p].op = "attach"
  <2>1. k < 4 BY <1>2, <1>3, <1>9
  <2>2. Len(Steps[call[p].op]) = 4 BY <1>9, Lengths
  <2>3. QED BY <1>3, <2>1, <2>2
<1>10. CASE call[p].op = "detach"
  <2>1. k < 4 BY <1>2, <1>3, <1>10
  <2>2. Len(Steps[call[p].op]) = 4 BY <1>10, Lengths
  <2>3. QED BY <1>3, <2>1, <2>2
<1>11. CASE call[p].op = "ai"
  <2>1. k < 4 BY <1>2, <1>3, <1>11
  <2>2. Len(Steps[call[p].op]) = 4 BY <1>11, Lengths
  <2>3. QED BY <1>3, <2>1, <2>2
<1>12. CASE call[p].op = "upload"
  <2>1. k < 7 BY <1>2, <1>3, <1>12
  <2>2. Len(Steps[call[p].op]) = 7 BY <1>12, Lengths
  <2>3. QED BY <1>3, <2>1, <2>2
<1>13. CASE call[p].op = "fold"
  <2>1. k < 7 BY <1>2, <1>3, <1>13
  <2>2. Len(Steps[call[p].op]) = 7 BY <1>13, Lengths
  <2>3. QED BY <1>3, <2>1, <2>2
<1>14. QED BY <1>2, <1>4, <1>5, <1>6, <1>7, <1>8, <1>9, <1>10, <1>11, <1>12, <1>13

LEMMA ReadBodyTogether == ASSUME FilesInv, NEW p \in Requests, ReadBody(p) PROVE Together'
<1>1. At(p, "body") /\ UNCHANGED <<row, index>> BY DEF ReadBody, tables
<1>2. Typed /\ Moved(p) /\ (Lasts(p)) BY ReadBodyTyped DEF FilesInv
<1>3. call[p].at # Len(Steps[call[p].op])
  BY <1>1, <1>2, NotAtEnd
<1>4. QED BY <1>1, <1>2, <1>3, Middle DEF Lasts

LEMMA ListTagsTogether == ASSUME FilesInv, NEW p \in Requests, ListTags(p) PROVE Together'
<1>1. At(p, "list") /\ UNCHANGED <<row, index>> BY DEF ListTags, tables
<1>2. Typed /\ Moved(p) /\ (Lasts(p)) BY ListTagsTyped DEF FilesInv
<1>3. call[p].at # Len(Steps[call[p].op])
  BY <1>1, <1>2, NotAtEnd
<1>4. QED BY <1>1, <1>2, <1>3, Middle DEF Lasts

LEMMA TagSystemTogether == ASSUME FilesInv, NEW p \in Requests, TagSystem(p) PROVE Together'
<1>1. At(p, "tag") /\ UNCHANGED <<row, index>> BY DEF TagSystem, tables
<1>2. Typed /\ Moved(p) /\ (Lasts(p)) BY TagSystemTyped DEF FilesInv
<1>3. call[p].at # Len(Steps[call[p].op])
  BY <1>1, <1>2, NotAtEnd
<1>4. QED BY <1>1, <1>2, <1>3, Middle DEF Lasts

LEMMA UntagSystemTogether == ASSUME FilesInv, NEW p \in Requests, UntagSystem(p) PROVE Together'
<1>1. At(p, "untag") /\ UNCHANGED <<row, index>> BY DEF UntagSystem, tables
<1>2. Typed /\ Moved(p) /\ (Lasts(p)) BY UntagSystemTyped DEF FilesInv
<1>3. call[p].at # Len(Steps[call[p].op])
  BY <1>1, <1>2, NotAtEnd
<1>4. QED BY <1>1, <1>2, <1>3, Middle DEF Lasts

LEMMA TagSourceTogether == ASSUME FilesInv, NEW p \in Requests, TagSource(p) PROVE Together'
<1>1. At(p, "source") /\ UNCHANGED <<row, index>> BY DEF TagSource, tables
<1>2. Typed /\ Moved(p) /\ (Lasts(p)) BY TagSourceTyped DEF FilesInv
<1>3. call[p].at # Len(Steps[call[p].op])
  BY <1>1, <1>2, NotAtEnd
<1>4. QED BY <1>1, <1>2, <1>3, Middle DEF Lasts

LEMMA LinkTogether == ASSUME FilesInv, NEW p \in Requests, Link(p) PROVE Together'
<1>1. At(p, "link") /\ UNCHANGED <<row, index>> BY DEF Link, tables
<1>2. Moved(p) BY LinkTyped DEF FilesInv
<1>3. QED BY <1>1, <1>2, Middle

LEMMA UnlinkTogether == ASSUME FilesInv, NEW p \in Requests, Unlink(p) PROVE Together'
<1>1. At(p, "unlink") /\ UNCHANGED <<row, index>> BY DEF Unlink, tables
<1>2. Moved(p) BY UnlinkTyped DEF FilesInv
<1>3. QED BY <1>1, <1>2, Middle

LEMMA ReplaceAiTogether == ASSUME FilesInv, NEW p \in Requests, ReplaceAi(p) PROVE Together'
<1>1. At(p, "replace") /\ UNCHANGED <<row, index>> BY DEF ReplaceAi, tables
<1>2. Typed /\ Moved(p) /\ (Exists(call[p].file) => Lasts(p)) BY ReplaceAiTyped DEF FilesInv
<1>3. call[p].at # Len(Steps[call[p].op])
  BY <1>1, <1>2, NotAtEnd
<1>4. QED BY <1>1, <1>2, <1>3, Middle DEF Lasts

LEMMA ReadAgainTogether == ASSUME FilesInv, NEW p \in Requests, ReadAgain(p) PROVE Together'
<1>1. At(p, "again") /\ UNCHANGED <<row, index>> BY DEF ReadAgain, tables
<1>2. Typed /\ Moved(p) /\ (Exists(call[p].file) => Lasts(p)) BY ReadAgainTyped DEF FilesInv
<1>3. call[p].at # Len(Steps[call[p].op])
  BY <1>1, <1>2, NotAtEnd
<1>4. QED BY <1>1, <1>2, <1>3, Middle DEF Lasts

LEMMA ReadActorTogether == ASSUME FilesInv, NEW p \in Requests, ReadActor(p) PROVE Together'
<1>. DEFINE c == call[p]  f == call[p].file
<1>1. At(p, "actor") /\ UNCHANGED <<row, index>> /\ CallsFit
  BY DEF FilesInv, Typed, CallsKept, ReadActor, tables
<1>2. c.op \in {"save", "create", "upload"} /\ c.at \in {6, 7} /\ c.op # None
  BY <1>1, Stands, Places
<1>3. Typed /\ Moved(p) /\ (Exists(f) => Lasts(p)) /\ (Onward(p) => call'[p].row = row[f])
  BY ReadActorTyped DEF FilesInv
<1>4. OthersStay(p) /\ UNCHANGED <<met, mixed, cut>> /\ (Onward(p) \/ call'[p] = Idle)
  BY <1>1, <1>3, NotLast, MovedMarks
<1>5. \A g \in Files : ~Ahead(p, g) BY <1>2 DEF Ahead, IndexAt
<1>6. CASE Onward(p)
  <2>1. call'[p].op = c.op /\ call'[p].at = c.at + 1 /\ call'[p].file = f BY <1>6 DEF Onward
  <2>2. \A g \in Files : Stamping(p, g)' => row[g].state = "live"
    BY <1>3, <1>6, <2>1 DEF Stamping, Stamps
  <2>3. ~Removing(p)' /\ call'[p].at # 1 BY <1>2, <2>1 DEF Removing
  <2>4. c.op \notin {"purge", "empty"} BY <1>2
  <2>5. QED BY <1>1, <1>4, <1>5, <1>6, <2>2, <2>3, <2>4, Calm
<1>7. CASE call'[p] = Idle
  BY <1>1, <1>4, <1>5, <1>7, Calm
<1>8. QED BY <1>4, <1>6, <1>7

(* A step that writes the row of a file in hand, and nothing else but the  *)
(* request.                                                                *)
LEMMA RowWritten ==
  ASSUME FilesInv, NEW p \in Requests, OthersStay(p), Onward(p) \/ call'[p] = Idle,
         UNCHANGED <<index, met, cut>>,
         NEW f \in Holds(p), NEW r \in Present, row' = [row EXCEPT ![f] = r], row[f].state # "gone",
         call[p].op \notin {"purge", "empty"},
         Onward(p) => call'[p].at # 1,
         Removing(p)' => r.state # "live",
         \A g \in Files : Ahead(p, g) => Ahead(p, g)',
         \A g \in Files : Stamping(p, g)' => r.state = "live" /\ g = f,
         r.state = "live" /\ f \notin cut /\ ~MetWith(f, Removers) => Listed(f)',
         Exists(f) \/ r.state = "live"
  PROVE  Together'
<1>0. /\ \A q \in Requests \ {p} : Holds(q)' = Holds(q) /\ call'[q] = call[q]
      /\ Holds(p)' \subseteq Holds(p)
      /\ \A g \in Holds(p)' : Onward(p)
      /\ call'[p].op # None => Onward(p)
      /\ call'[p] = Idle => Holds(p)' = {} /\ call'[p].op = None
  BY HoldsMoved DEF FilesInv
<1>a. f \in Files /\ row \in [Files -> Rows] /\ row' \in [Files -> Rows]
  BY HoldsFiles, PresentIsRow DEF FilesInv, Typed, Tables, CallsKept
<1>b. row'[f] = r /\ \A g \in Files \ {f} : row'[g] = row[g] BY <1>a
<1>1. Meeting'
  <2>1. SUFFICES ASSUME NEW a \in Requests, NEW b \in Requests, a # b, NEW g \in Holds(a)' \cap Holds(b)'
        PROVE {call'[a].op, call'[b].op} \in met'[g] /\ ~call'[a].alone /\ ~call'[b].alone
    BY DEF Meeting
  <2>2. g \in Holds(a) \cap Holds(b) BY <1>0
  <2>3. {call[a].op, call[b].op} \in met[g] /\ ~call[a].alone /\ ~call[b].alone
    BY <2>1, <2>2 DEF FilesInv, Together, Meeting
  <2>4. call'[a].op = call[a].op /\ call'[a].alone = call[a].alone
    BY <1>0 DEF Onward
  <2>5. call'[b].op = call[b].op /\ call'[b].alone = call[b].alone
    BY <1>0 DEF Onward
  <2>6. QED BY <2>3, <2>4, <2>5
<1>2. MadeAlone'
  <2>1. SUFFICES ASSUME NEW a \in Requests, call'[a].op = "create", call'[a].at = 1
        PROVE row'[call'[a].file].state = "none" /\ \A q \in Requests \ {a} : call'[a].file \notin Holds(q)'
    BY DEF MadeAlone, Holds
  <2>2. a # p
    <3>1. SUFFICES ASSUME a = p PROVE FALSE OBVIOUS
    <3>2. None # "create" BY ArrivalsAssumption, AllOps
    <3>3. QED BY <1>0, <2>1, <3>1, <3>2
  <2>3. call'[a] = call[a] BY <1>0, <2>2
  <2>4. row[call[a].file].state = "none" /\ \A q \in Requests \ {a} : call[a].file \notin Holds(q)
    BY <2>1, <2>3 DEF FilesInv, Together, MadeAlone
  <2>5. call[a].file # f BY <2>2, <2>4
  <2>6. call[a].file \in Files
    <3>1. call[a].op # None /\ call[a].op # "empty" BY <2>1, <2>3, ArrivalsAssumption, AllOps
    <3>2. QED BY <3>1, Busy DEF FilesInv, Typed, CallsKept
  <2>7. QED BY <1>0, <1>b, <2>3, <2>4, <2>5, <2>6
<1>3. RemoversSee'
  <2>1. SUFFICES ASSUME NEW a \in Requests, Removing(a)', NEW g \in Holds(a)', row'[g].state = "live"
        PROVE MetWith(g, {call[a].op}) /\ call'[a].op = call[a].op
    BY DEF RemoversSee, MetWith
  <2>2. CASE a = p
    <3>1. r.state # "live" BY <2>1, <2>2
    <3>2. Onward(p) /\ g \in Holds(p) /\ g \in Files /\ g # f
      BY <1>0, <1>b, <2>1, <2>2, <3>1, HoldsFiles DEF FilesInv, Typed, CallsKept
    <3>3. call[p].op # "empty" /\ Holds(p) = {f}
      <4>1. call[p].op # None BY <3>2 DEF Holds, FilesInv, Typed, CallsKept, CallsFit, Idle, Fits, Calls
      <4>2. QED BY <4>1, Single DEF FilesInv
    <3>4. QED BY <3>2, <3>3
  <2>3. CASE a # p
    <3>1. call'[a] = call[a] /\ g \in Holds(a) BY <1>0, <2>1, <2>3
    <3>2. Removing(a) BY <2>1, <3>1 DEF Removing
    <3>3. CASE g = f
      <4>1. {call[a].op, call[p].op} \in met[f]
        BY <2>3, <3>1, <3>3 DEF FilesInv, Together, Meeting
      <4>2. QED BY <3>1, <3>3, <4>1 DEF MetWith
    <3>4. CASE g # f
      <4>1. g \in Files BY <3>1, HoldsFiles DEF FilesInv, Typed, CallsKept
      <4>2. row[g].state = "live" BY <1>b, <2>1, <3>4, <4>1
      <4>3. QED BY <3>1, <3>2, <4>2 DEF FilesInv, Together, RemoversSee
    <3>5. QED BY <3>3, <3>4
  <2>4. QED BY <2>2, <2>3
<1>4. Findable'
  <2>1. SUFFICES ASSUME NEW g \in Files, g \notin cut', ~MetWith(g, Removers)', Exists(g)',
                        row'[g].state = "live" \/ \E q \in Requests : Stamping(q, g)'
        PROVE Listed(g)'
    BY DEF Findable
  <2>2. g \notin cut /\ ~MetWith(g, Removers)
    BY <2>1 DEF MetWith
  <2>3. \A q \in Requests \ {p} : Stamping(q, g)' => Stamping(q, g)
    BY <1>0 DEF Stamping, Stamps, Reaches
  <2>4. Listed(g) => Listed(g)'
    <3>1. \A q \in Requests \ {p} : Ahead(q, g) => Ahead(q, g)' BY <1>0 DEF Ahead
    <3>2. QED BY <3>1 DEF Listed
  <2>5. CASE g # f
    <3>1. row'[g] = row[g] /\ ~Stamping(p, g)' BY <1>b, <2>5
    <3>2. Exists(g) /\ (row[g].state = "live" \/ \E q \in Requests : Stamping(q, g))
      BY <2>1, <2>3, <3>1 DEF Exists
    <3>3. Listed(g) BY <2>2, <3>2 DEF FilesInv, Together, Findable
    <3>4. QED BY <2>4, <3>3
  <2>6. CASE g = f /\ r.state = "live" BY <2>2, <2>6
  <2>7. CASE g = f /\ r.state # "live"
    <3>1. PICK q \in Requests \ {p} : Stamping(q, f) BY <1>b, <2>1, <2>3, <2>7
    <3>2. Exists(f) BY <2>7
    <3>3. Listed(f) BY <2>2, <2>7, <3>1, <3>2 DEF FilesInv, Together, Findable
    <3>4. QED BY <2>4, <2>7, <3>3
  <2>8. QED BY <2>5, <2>6, <2>7
<1>5. PurgedLeft'
  <2>1. SUFFICES ASSUME NEW g \in Files, row'[g].state = "gone"
        PROVE /\ \A q \in Requests : g \in Holds(q)' => ~call'[q].alone
              /\ (g \notin cut' /\ ~MetWith(g, {"purge", "empty"})') =>
                    index'[g] = NoEntry /\ \A q \in Requests : g \notin Holds(q)'
    BY DEF PurgedLeft
  <2>2. r.state # "gone" BY DEF Present
  <2>3. row[g].state = "gone" BY <1>b, <2>1, <2>2
  <2>4. /\ \A q \in Requests : g \in Holds(q) => ~call[q].alone
        /\ (g \notin cut /\ ~MetWith(g, {"purge", "empty"})) =>
              index[g] = NoEntry /\ \A q \in Requests : g \notin Holds(q)
    BY <2>3 DEF FilesInv, Together, PurgedLeft
  <2>5. \A q \in Requests : g \in Holds(q)' => ~call'[q].alone
    BY <1>0, <2>4 DEF Onward
  <2>6. ~MetWith(g, {"purge", "empty"})' => ~MetWith(g, {"purge", "empty"}) BY DEF MetWith
  <2>7. QED BY <1>0, <2>4, <2>5, <2>6
<1>6. ClearedFirst'
  <2>1. SUFFICES ASSUME NEW a \in Requests, call'[a].op \in {"purge", "empty"}, call'[a].at = 3,
                        call'[a].file \notin cut', ~MetWith(call[a].file, {"purge", "empty"})',
                        call'[a].file = call[a].file
        PROVE index'[call'[a].file] = NoEntry
    <3>1. \A a \in Requests : call'[a].op \in {"purge", "empty"} => call'[a].file = call[a].file
      BY <1>0, ArrivalsAssumption, AllOps DEF Onward
    <3>2. QED BY <3>1 DEF ClearedFirst, MetWith
  <2>2. a # p
    <3>1. SUFFICES ASSUME a = p PROVE FALSE OBVIOUS
    <3>2. call'[p].op # None BY <2>1, <3>1, ArrivalsAssumption, AllOps
    <3>3. call[p].op = call'[p].op BY <1>0, <3>2 DEF Onward
    <3>4. QED BY <2>1, <3>1, <3>3
  <2>3. call'[a] = call[a] BY <1>0, <2>2
  <2>4. ~MetWith(call[a].file, {"purge", "empty"}) BY <2>1 DEF MetWith
  <2>5. QED BY <2>1, <2>3, <2>4 DEF FilesInv, Together, ClearedFirst
<1>7. QED BY <1>1, <1>2, <1>3, <1>4, <1>5, <1>6 DEF Together

LEMMA InsertTogether == ASSUME FilesInv, NEW p \in Requests, Insert(p) PROVE Together'
<1>. DEFINE c == call[p]  f == call[p].file
            r == [state |-> "live", name |-> call[p].name, head |-> 0]
<1>1. At(p, "insert") /\ CallsFit BY DEF FilesInv, Typed, CallsKept, Insert
<1>2. c.op = "create" /\ c.at = 1 /\ c.op # None /\ Fits(c)
  BY <1>1, Stands, Places
<1>3. Typed /\ Moved(p) /\ Lasts(p) BY InsertTyped DEF FilesInv
<1>4. OthersStay(p) /\ UNCHANGED <<met, mixed, cut>> /\ (Onward(p) \/ call'[p] = Idle)
  BY <1>1, <1>3, NotLast, MovedMarks
<1>5. Onward(p) BY <1>2, <1>3, <1>4, Lengths DEF Lasts
<1>6. call'[p].op = "create" /\ call'[p].at = 2 /\ call'[p].file = f BY <1>2, <1>5 DEF Onward
<1>7. Holds(p) = {f} /\ f \in Files BY <1>2, <1>3, ArrivalsAssumption, AllOps, Single
<1>f. PICK h \in Holds(p) : h = f /\ h \in Files BY <1>7
<1>8. r \in Present BY <1>2 DEF Fits, Present
<1>9. row' = [row EXCEPT ![f] = r] /\ index' = index BY DEF Insert
<1>10. row[f].state = "none" BY <1>2 DEF FilesInv, Together, MadeAlone
<1>11. ~Removing(p)' BY <1>6 DEF Removing
<1>12. \A g \in Files : ~Ahead(p, g) BY <1>2 DEF Ahead
<1>13. \A g \in Files : ~Stamping(p, g)'
  BY <1>6, Places DEF Stamping, Stamps, Reaches
<1>14. Listed(h)'
  <2>1. Ahead(p, h)' BY <1>6, <1>f DEF Ahead, Refreshers, Saves, IndexAt
  <2>2. QED BY <2>1 DEF Listed
<1>15. c.op \notin {"purge", "empty"} /\ r.state = "live" BY <1>2
<1>16. PICK v \in Present : v = r BY <1>8
<1>17. row' = [row EXCEPT ![h] = v] /\ row[h].state # "gone" /\ v.state = "live"
  BY <1>9, <1>10, <1>15, <1>f, <1>16
<1>18. \A g \in Files : Ahead(p, g) => Ahead(p, g)' BY <1>12
<1>19. \A g \in Files : Stamping(p, g)' => v.state = "live" /\ g = h BY <1>13
<1>20. Onward(p) => call'[p].at # 1 BY <1>6
<1>21. call[p].op \notin {"purge", "empty"} BY <1>2
<1>22. Removing(p)' => v.state # "live" BY <1>11
<1>23. UNCHANGED <<index, met, cut>> BY <1>4, <1>9
<1>24. v.state = "live" /\ h \notin cut /\ ~MetWith(h, Removers) => Listed(h)' BY <1>14
<1>25. Exists(h) \/ v.state = "live" BY <1>17
<1>26. OthersStay(p) /\ (Onward(p) \/ call'[p] = Idle) BY <1>4
<1>27. row' = [row EXCEPT ![h] = v] /\ row[h].state # "gone" BY <1>17
<1>. HIDE DEF c, f, r
<1>28. QED BY <1>18, <1>19, <1>20, <1>21, <1>22, <1>23, <1>24, <1>25, <1>26, <1>27, RowWritten

LEMMA WriteRowTogether == ASSUME FilesInv, NEW p \in Requests, WriteRow(p) PROVE Together'
<1>. DEFINE c == call[p]  f == call[p].file
<1>1. At(p, "row") /\ CallsFit BY DEF FilesInv, Typed, CallsKept, WriteRow
<1>2. /\ c.op # None /\ Fits(c) /\ c.op \in RowWriters \ {"retitle"} /\ c.at \in {2, 3, 4}
      /\ c.op \in {"delete", "discard"} => c.at = 2
  BY <1>1, Stands, Places DEF RowWriters, Saves, Namers
<1>3. Typed /\ Moved(p) /\ (Exists(f) => Lasts(p)) BY WriteRowTyped DEF FilesInv
<1>4. OthersStay(p) /\ UNCHANGED <<met, mixed, cut>> /\ (Onward(p) \/ call'[p] = Idle) /\ index' = index
  BY <1>1, <1>3, NotLast, MovedMarks DEF WriteRow
<1>5. Holds(p) = {f} /\ f \in Files BY <1>2, <1>3, Single DEF RowWriters, Saves, Namers
<1>f. PICK h \in Holds(p) : h = f /\ h \in Files BY <1>5
<1>6. CASE ~Exists(f)
  <2>1. Stop(p) /\ row' = row BY <1>6 DEF WriteRow
  <2>2. call'[p] = Idle BY <1>3, <2>1 DEF Stop, Typed, CallsKept
  <2>3. \A g \in Files : Ahead(p, g) => ~Exists(g) BY <1>6 DEF Ahead
  <2>4. QED BY <1>4, <2>1, <2>2, <2>3, Calm
<1>7. CASE Exists(f)
  <2>1. PICK r \in Present : r = Changed(c)
    <3>1. c.row \in Present BY <1>2 DEF Fits, Knows, RowWriters, Saves, Namers
    <3>2. QED BY <1>2, <3>1, ChangedKept DEF Fits, FilesInv, Typed, Bounds, Namers
  <2>2. row' = [row EXCEPT ![f] = r] BY <1>7, <2>1 DEF WriteRow
  <2>3. row[f].state # "gone" BY <1>7 DEF Exists
  <2>4. c.op \notin {"purge", "empty"} BY <1>2 DEF RowWriters, Saves, Namers
  <2>5. r.state = "live" => c.op \notin {"delete", "discard"}
    <3>1. c.row \in Present BY <1>2 DEF Fits, Knows, RowWriters, Saves, Namers
    <3>2. QED BY <2>1, <3>1 DEF Changed, Saves, Present
  <2>6. Removing(p)' => r.state # "live"
    BY <1>2, <1>4, <2>4, <2>5, ArrivalsAssumption, AllOps DEF Removing, Onward, Idle
  <2>7. c.op \notin {"delete", "discard"} => Onward(p) /\ Ahead(p, h)'
    <3>1. SUFFICES ASSUME c.op \notin {"delete", "discard"} PROVE Onward(p) /\ Ahead(p, h)' OBVIOUS
    <3>2. c.op \in Saves \cup {"rename", "restore"} BY <1>2, <3>1 DEF RowWriters, Saves, Namers
    <3>3. c.at # Len(Steps[c.op]) BY <1>2, <3>2, LengthOf
    <3>4. Onward(p) BY <1>3, <1>4, <1>7, <3>3 DEF Lasts
    <3>5. call'[p].op = c.op /\ call'[p].at = c.at + 1 /\ call'[p].file = f BY <3>4 DEF Onward
    <3>6. c.op \notin {"attach", "detach", "ai"} BY <3>2 DEF Saves
    <3>7. QED BY <1>2, <1>f, <3>2, <3>4, <3>5, <3>6 DEF Ahead, Refreshers, IndexAt
  <2>8. \A g \in Files : Ahead(p, g) => Ahead(p, g)'
    <3>1. SUFFICES ASSUME NEW g \in Files, Ahead(p, g) PROVE Ahead(p, g)' OBVIOUS
    <3>2. g = h /\ c.op \notin {"delete", "discard"} BY <3>1, <1>f DEF Ahead, Refreshers, Saves
    <3>3. QED BY <2>7, <3>2
  <2>9. r.state = "live" => Listed(h)' BY <2>5, <2>7 DEF Listed
  <2>10. \A g \in Files : ~Stamping(p, g)'
    <3>1. SUFFICES ASSUME NEW g \in Files, Stamping(p, g)' PROVE FALSE OBVIOUS
    <3>2. call'[p].op \in Ops BY <3>1, AllOps DEF Stamping, Stamps, Reaches
    <3>3. Onward(p) BY <1>4, <3>2, ArrivalsAssumption DEF Idle
    <3>4. call'[p].op = c.op /\ call'[p].at = c.at + 1 BY <3>3 DEF Onward
    <3>5. Reaches(call'[p], "stamp") BY <1>2, <3>1, <3>4 DEF Stamping, Stamps
    <3>6. call'[p].at \in {7, 8} BY <3>5, Places DEF Reaches
    <3>7. QED BY <1>2, <3>4, <3>6
  <2>11. Onward(p) => call'[p].at # 1 BY <1>2 DEF Onward
  <2>12. row' = [row EXCEPT ![h] = r] /\ row[h].state # "gone" /\ Exists(h)
    BY <1>7, <1>f, <2>2, <2>3
  <2>13. QED BY <1>4, <2>4, <2>6, <2>8, <2>9, <2>10, <2>11, <2>12, RowWritten
<1>8. QED BY <1>6, <1>7

LEMMA RetitleTogether == ASSUME FilesInv, NEW p \in Requests, Retitle(p) PROVE Together'
<1>. DEFINE c == call[p]  f == call[p].file
<1>1. At(p, "retitle") /\ CallsFit BY DEF FilesInv, Typed, CallsKept, Retitle
<1>2. /\ c.op # None /\ Fits(c) /\ c.op \in {"retitle", "fold"} /\ c.at = 2
  BY <1>1, Stands, Places
<1>3. Typed /\ Moved(p) /\ (Exists(f) => Lasts(p)) BY RetitleTyped DEF FilesInv
<1>4. OthersStay(p) /\ UNCHANGED <<met, mixed, cut>> /\ (Onward(p) \/ call'[p] = Idle) /\ index' = index
  BY <1>1, <1>3, NotLast, MovedMarks DEF Retitle
<1>5. Holds(p) = {f} /\ f \in Files BY <1>2, <1>3, Single
<1>f. PICK h \in Holds(p) : h = f /\ h \in Files BY <1>5
<1>6. CASE ~Exists(f)
  <2>1. Stop(p) /\ row' = row BY <1>6 DEF Retitle
  <2>2. call'[p] = Idle BY <1>3, <2>1 DEF Stop, Typed, CallsKept
  <2>3. \A g \in Files : Ahead(p, g) => ~Exists(g) BY <1>6 DEF Ahead
  <2>4. QED BY <1>4, <2>1, <2>2, <2>3, Calm
<1>7. CASE Exists(f)
  <2>1. PICK r \in Present : /\ r = [c.row EXCEPT !.name = c.name, !.state = IF c.op = "fold" THEN "live" ELSE @]
                             /\ c.op = "retitle" => r.state = c.row.state
    <3>1. c.row \in Present /\ c.name \in Names BY <1>2 DEF Fits, Knows, Namers
    <3>2. PICK u : u = [c.row EXCEPT !.name = c.name, !.state = IF c.op = "fold" THEN "live" ELSE @] OBVIOUS
    <3>3. u \in Present
      <4>1. CASE c.op = "fold" BY <3>1, <3>2, <4>1 DEF Present
      <4>2. CASE c.op = "retitle" BY <3>1, <3>2, <4>2 DEF Present
      <4>3. QED BY <1>2, <4>1, <4>2
    <3>4. c.op = "retitle" => u.state = c.row.state BY <3>1, <3>2 DEF Present
    <3>5. QED BY <3>2, <3>3, <3>4
  <2>2. row' = [row EXCEPT ![f] = r] BY <1>7, <2>1 DEF Retitle
  <2>3. row[f].state # "gone" BY <1>7 DEF Exists
  <2>4. c.op \notin {"purge", "empty"} BY <1>2
  <2>5. c.op = "fold" => Onward(p) /\ Ahead(p, h)'
    <3>1. SUFFICES ASSUME c.op = "fold" PROVE Onward(p) /\ Ahead(p, h)' OBVIOUS
    <3>2. c.at # Len(Steps[c.op]) BY <1>2, <3>1, Lengths
    <3>3. Onward(p) BY <1>3, <1>4, <1>7, <3>2 DEF Lasts
    <3>4. call'[p].op = c.op /\ call'[p].at = 3 /\ call'[p].file = f BY <1>2, <3>3 DEF Onward
    <3>5. QED BY <1>f, <3>1, <3>3, <3>4 DEF Ahead, Refreshers, Saves, IndexAt
  <2>6. call'[p].op \in Ops => call'[p].op = c.op /\ call'[p].at = 3
    BY <1>2, <1>4, ArrivalsAssumption DEF Onward, Idle
  <2>7. ~Removing(p)' BY <1>2, <2>6, AllOps DEF Removing
  <2>8. \A g \in Files : ~Stamping(p, g)'
    <3>1. SUFFICES ASSUME NEW g \in Files, Stamping(p, g)' PROVE FALSE OBVIOUS
    <3>2. call'[p].op = c.op /\ call'[p].at = 3 BY <2>6, <3>1, AllOps DEF Stamping, Stamps, Reaches
    <3>3. Reaches(call'[p], "stamp") BY <3>1, <3>2 DEF Stamping, Stamps
    <3>4. QED BY <3>2, <3>3, Places DEF Reaches
  <2>9. \A g \in Files : Ahead(p, g) => Ahead(p, g)'
    <3>1. SUFFICES ASSUME NEW g \in Files, Ahead(p, g) PROVE Ahead(p, g)' OBVIOUS
    <3>2. g = h /\ c.op = "fold" BY <1>2, <1>f, <3>1 DEF Ahead, Refreshers, Saves
    <3>3. QED BY <2>5, <3>2
  <2>10. ASSUME r.state = "live", h \notin cut, ~MetWith(h, Removers) PROVE Listed(h)'
    <3>1. CASE c.op = "fold" BY <2>5, <3>1 DEF Listed
    <3>2. CASE c.op = "retitle"
      <4>1. Stamping(p, h) BY <1>2, <1>f, <2>1, <2>10, <3>2 DEF Stamping, Stamps
      <4>2. Listed(h) BY <1>7, <1>f, <2>10, <4>1 DEF FilesInv, Together, Findable
      <4>3. \A q \in Requests \ {p} : Ahead(q, h) => Ahead(q, h)' BY <1>4 DEF OthersStay, Ahead
      <4>4. QED BY <1>4, <1>f, <2>9, <4>2, <4>3 DEF Listed
    <3>3. QED BY <1>2, <3>1, <3>2
  <2>11. Onward(p) => call'[p].at # 1 BY <1>2 DEF Onward
  <2>12. row' = [row EXCEPT ![h] = r] /\ row[h].state # "gone" /\ Exists(h)
    BY <1>7, <1>f, <2>2, <2>3
  <2>13. QED BY <1>4, <2>4, <2>7, <2>8, <2>9, <2>10, <2>11, <2>12, RowWritten
<1>8. QED BY <1>6, <1>7

LEMMA WriteActorTogether == ASSUME FilesInv, NEW p \in Requests, WriteActor(p) PROVE Together'
<1>. DEFINE c == call[p]  f == call[p].file
<1>1. At(p, "stamp") /\ CallsFit BY DEF FilesInv, Typed, CallsKept, WriteActor
<1>2. /\ c.op # None /\ Fits(c) /\ c.op \in {"save", "create", "upload"} /\ c.at \in {7, 8}
      /\ Reaches(c, "stamp") /\ (c.op = "create" => c.at = 8)
  BY <1>1, Stands, Places DEF Reaches
<1>3. Typed /\ Moved(p) /\ Lasts(p) BY WriteActorTyped DEF FilesInv
<1>4. OthersStay(p) /\ UNCHANGED <<met, mixed, cut>> /\ (Onward(p) \/ call'[p] = Idle) /\ index' = index
  BY <1>1, <1>3, NotLast, MovedMarks DEF WriteActor
<1>5. Holds(p) = {f} /\ f \in Files BY <1>2, <1>3, Single
<1>6. \A g \in Files : ~Ahead(p, g) BY <1>2 DEF Ahead, IndexAt
<1>7. call'[p] = Idle
  <2>1. c.at = Len(Steps[c.op])
    <3>1. CASE c.op = "save"
      <4>1. c.at = 7 BY <1>1, <3>1, Stands, Places
      <4>2. QED BY <3>1, <4>1, LengthOf
    <3>2. CASE c.op = "create" BY <1>2, <3>2, LengthOf
    <3>3. CASE c.op = "upload"
      <4>1. c.at = 7 BY <1>1, <3>3, Stands, Places
      <4>2. QED BY <3>3, <4>1, LengthOf
    <3>4. QED BY <1>2, <3>1, <3>2, <3>3
  <2>2. Ends(p) BY <2>1 DEF WriteActor, Goes
  <2>3. QED BY <1>3, <2>2 DEF Ends, Typed, CallsKept
<1>8. call'[p].op = None BY <1>7 DEF Idle
<1>9. CASE ~Exists(f)
  <2>1. row' = row BY <1>9 DEF WriteActor
  <2>2. QED BY <1>4, <1>6, <1>7, <2>1, Calm
<1>10. CASE Exists(f)
  <2>1. PICK r \in Present : r = c.row
    BY <1>2 DEF Fits, Knows
  <2>2. row' = [row EXCEPT ![f] = r] BY <1>10, <2>1 DEF WriteActor
  <2>3. row[f].state # "gone" BY <1>10 DEF Exists
  <2>4. ~Removing(p)' BY <1>8, ArrivalsAssumption, AllOps DEF Removing
  <2>5. \A g \in Files : ~Stamping(p, g)' BY <1>8, ArrivalsAssumption, AllOps DEF Stamping, Stamps, Reaches
  <2>6. c.op \notin {"purge", "empty"} BY <1>2
  <2>7. ~Onward(p) BY <1>2, <1>8 DEF Onward
  <2>8. PICK h \in Holds(p) : h = f /\ h \in Files BY <1>5
  <2>9. ASSUME r.state = "live", h \notin cut, ~MetWith(h, Removers) PROVE Listed(h)'
    <3>1. Stamping(p, h) BY <1>2, <2>1, <2>8, <2>9 DEF Stamping, Stamps
    <3>2. Listed(h) BY <1>10, <2>8, <2>9, <3>1 DEF FilesInv, Together, Findable
    <3>3. \A q \in Requests \ {p} : Ahead(q, h) => Ahead(q, h)' BY <1>4 DEF OthersStay, Ahead
    <3>4. QED BY <1>4, <1>6, <2>8, <3>2, <3>3 DEF Listed
  <2>10. row' = [row EXCEPT ![h] = r] /\ row[h].state # "gone" /\ Exists(h)
    BY <1>10, <2>2, <2>3, <2>8
  <2>11. QED BY <1>4, <1>6, <2>4, <2>5, <2>6, <2>7, <2>9, <2>10, RowWritten
<1>11. QED BY <1>9, <1>10

(* A step that writes the entry of the file in hand, or takes it out.      *)
LEMMA EntryWritten ==
  ASSUME FilesInv, NEW p \in Requests, OthersStay(p), Onward(p) \/ call'[p] = Idle,
         NEW h \in Files, h \in Holds(p), call[p].file = h,
         NEW e \in Entries \cup {NoEntry}, index' = [index EXCEPT ![h] = e], row' = row,
         (e # NoEntry /\ call[p].op \notin Removers) \/ (e = NoEntry /\ Removing(p)),
         \/ UNCHANGED <<met, cut>>
         \/ /\ call[p].alone /\ e # NoEntry /\ cut' = cut \ {h}
            /\ \A g \in Files \ {h} : met'[g] = met[g],
         Onward(p) => call'[p].at # 1,
         \A g \in Files : ~Stamping(p, g)'
  PROVE  Together'
<1>0. /\ \A q \in Requests \ {p} : Holds(q)' = Holds(q) /\ call'[q] = call[q]
      /\ Holds(p)' \subseteq Holds(p)
      /\ \A g \in Holds(p)' : Onward(p)
      /\ call'[p].op # None => Onward(p)
      /\ call'[p] = Idle => Holds(p)' = {} /\ call'[p].op = None
  BY HoldsMoved DEF FilesInv
<1>a. index'[h] = e /\ \A g \in Files \ {h} : index'[g] = index[g]
  BY DEF FilesInv, Typed, Tables
<1>b. \A g \in Files \ {h} : met'[g] = met[g] /\ (g \in cut' <=> g \in cut)
  OBVIOUS
<1>c. \A q \in Requests \ {p} : h \in Holds(q) =>
        /\ UNCHANGED <<met, cut>> /\ ~call[q].alone /\ {call[q].op, call[p].op} \in met[h]
  <2>1. SUFFICES ASSUME NEW q \in Requests \ {p}, h \in Holds(q)
        PROVE UNCHANGED <<met, cut>> /\ ~call[q].alone /\ {call[q].op, call[p].op} \in met[h]
    OBVIOUS
  <2>2. {call[q].op, call[p].op} \in met[h] /\ ~call[q].alone /\ ~call[p].alone
    BY <2>1 DEF FilesInv, Together, Meeting
  <2>3. QED BY <2>2
<1>d. \A q \in Requests : Holds(q) \subseteq Files
  BY HoldsFiles DEF FilesInv, Typed, CallsKept
<1>1. Meeting'
  <2>1. SUFFICES ASSUME NEW a \in Requests, NEW b \in Requests, a # b, NEW g \in Holds(a)' \cap Holds(b)'
        PROVE {call'[a].op, call'[b].op} \in met'[g] /\ ~call'[a].alone /\ ~call'[b].alone
    BY DEF Meeting
  <2>2. g \in Holds(a) \cap Holds(b) /\ g \in Files BY <1>0, <1>d
  <2>3. {call[a].op, call[b].op} \in met[g] /\ ~call[a].alone /\ ~call[b].alone
    BY <2>1, <2>2 DEF FilesInv, Together, Meeting
  <2>4. call'[a].op = call[a].op /\ call'[a].alone = call[a].alone
    BY <1>0 DEF Onward
  <2>5. call'[b].op = call[b].op /\ call'[b].alone = call[b].alone
    BY <1>0 DEF Onward
  <2>6. met'[g] = met[g]
    <3>1. CASE g = h
      <4>1. PICK q \in Requests \ {p} : h \in Holds(q) BY <2>1, <2>2, <3>1
      <4>2. QED BY <1>c, <4>1
    <3>2. QED BY <1>b, <2>2, <3>1
  <2>7. QED BY <2>3, <2>4, <2>5, <2>6
<1>2. MadeAlone'
  <2>1. SUFFICES ASSUME NEW a \in Requests, call'[a].op = "create", call'[a].at = 1
        PROVE row'[call'[a].file].state = "none" /\ \A q \in Requests \ {a} : call'[a].file \notin Holds(q)'
    BY DEF MadeAlone, Holds
  <2>2. a # p
    <3>1. SUFFICES ASSUME a = p PROVE FALSE OBVIOUS
    <3>2. None # "create" BY ArrivalsAssumption, AllOps
    <3>3. QED BY <1>0, <2>1, <3>1, <3>2
  <2>3. call'[a] = call[a] BY <1>0, <2>2
  <2>4. row[call[a].file].state = "none" /\ \A q \in Requests \ {a} : call[a].file \notin Holds(q)
    BY <2>1, <2>3 DEF FilesInv, Together, MadeAlone
  <2>5. QED BY <1>0, <2>3, <2>4
<1>3. RemoversSee'
  <2>1. SUFFICES ASSUME NEW a \in Requests, Removing(a)', NEW g \in Holds(a)', row'[g].state = "live"
        PROVE MetWith(g, {call[a].op})' /\ call'[a].op = call[a].op
    BY DEF RemoversSee, MetWith
  <2>2. CASE a = p
    <3>1. Onward(p) /\ g \in Holds(p) BY <1>0, <2>1, <2>2
    <3>2. call[p].op \in Removers BY <2>1, <2>2, <3>1 DEF Removing, Removers, Onward
    <3>3. Removing(p) /\ UNCHANGED <<met, cut>> BY <3>2
    <3>4. MetWith(g, {call[p].op}) BY <2>1, <3>1, <3>3 DEF FilesInv, Together, RemoversSee
    <3>5. QED BY <2>2, <3>1, <3>3, <3>4 DEF MetWith, Onward
  <2>3. CASE a # p
    <3>1. call'[a] = call[a] /\ g \in Holds(a) /\ g \in Files BY <1>0, <1>d, <2>1, <2>3
    <3>2. Removing(a) BY <2>1, <3>1 DEF Removing
    <3>3. MetWith(g, {call[a].op}) BY <2>1, <3>1, <3>2 DEF FilesInv, Together, RemoversSee
    <3>4. met'[g] = met[g] BY <1>b, <1>c, <2>3, <3>1
    <3>5. QED BY <3>1, <3>3, <3>4 DEF MetWith
  <2>4. QED BY <2>2, <2>3
<1>4. Findable'
  <2>1. SUFFICES ASSUME NEW g \in Files, g \notin cut', ~MetWith(g, Removers)', Exists(g)',
                        row'[g].state = "live" \/ \E q \in Requests : Stamping(q, g)'
        PROVE Listed(g)'
    BY DEF Findable
  <2>2. CASE g # h
    <3>1. g \notin cut /\ ~MetWith(g, Removers) /\ Exists(g) BY <1>b, <2>1, <2>2 DEF MetWith, Exists
    <3>2. \A q \in Requests \ {p} : Stamping(q, g)' => Stamping(q, g) BY <1>0 DEF Stamping, Stamps, Reaches
    <3>3. row[g].state = "live" \/ \E q \in Requests : Stamping(q, g) BY <2>1, <3>2
    <3>4. Listed(g) BY <3>1, <3>3 DEF FilesInv, Together, Findable
    <3>5. ~Ahead(p, g) BY <2>2 DEF Ahead
    <3>6. \A q \in Requests \ {p} : Ahead(q, g) => Ahead(q, g)' BY <1>0 DEF Ahead
    <3>7. QED BY <1>a, <2>2, <3>4, <3>5, <3>6 DEF Listed
  <2>3. CASE g = h /\ e # NoEntry BY <1>a, <2>3 DEF Listed
  <2>4. CASE g = h /\ e = NoEntry
    <3>1. Removing(p) /\ UNCHANGED <<met, cut>> BY <2>4
    <3>2. call[p].op \in Removers BY <3>1 DEF Removing, Removers
    <3>3. ~MetWith(h, Removers) BY <2>1, <2>4, <3>1 DEF MetWith
    <3>4. row[h].state # "live" BY <3>1, <3>2, <3>3 DEF FilesInv, Together, RemoversSee, MetWith
    <3>5. PICK q \in Requests \ {p} : Stamping(q, h)' BY <2>1, <2>4, <3>4
    <3>6. h \in Holds(q)
      <4>1. call[q].file = h BY <1>0, <3>5 DEF Stamping, Stamps
      <4>2. QED BY <4>1, ArrivalsAssumption DEF Holds
    <3>7. QED BY <1>c, <3>2, <3>3, <3>6 DEF MetWith
  <2>5. QED BY <2>2, <2>3, <2>4
<1>5. PurgedLeft'
  <2>1. SUFFICES ASSUME NEW g \in Files, row'[g].state = "gone"
        PROVE /\ \A q \in Requests : g \in Holds(q)' => ~call'[q].alone
              /\ (g \notin cut' /\ ~MetWith(g, {"purge", "empty"})') =>
                    index'[g] = NoEntry /\ \A q \in Requests : g \notin Holds(q)'
    BY DEF PurgedLeft
  <2>2. /\ \A q \in Requests : g \in Holds(q) => ~call[q].alone
        /\ (g \notin cut /\ ~MetWith(g, {"purge", "empty"})) =>
              index[g] = NoEntry /\ \A q \in Requests : g \notin Holds(q)
    BY <2>1 DEF FilesInv, Together, PurgedLeft
  <2>3. \A q \in Requests : g \in Holds(q)' => ~call'[q].alone
    BY <1>0, <2>2 DEF Onward
  <2>4. CASE g # h
    <3>1. g \notin cut' => g \notin cut BY <1>b, <2>4
    <3>2. ~MetWith(g, {"purge", "empty"})' => ~MetWith(g, {"purge", "empty"}) BY <1>b, <2>4 DEF MetWith
    <3>3. QED BY <1>0, <1>a, <2>2, <2>3, <2>4, <3>1, <3>2
  <2>5. CASE g = h
    <3>1. UNCHANGED <<met, cut>> BY <2>2, <2>5
    <3>2. g \in cut \/ MetWith(g, {"purge", "empty"}) BY <2>2, <2>5
    <3>3. QED BY <2>3, <3>1, <3>2 DEF MetWith
  <2>6. QED BY <2>4, <2>5
<1>6. ClearedFirst'
  <2>1. SUFFICES ASSUME NEW a \in Requests, call'[a].op \in {"purge", "empty"}, call'[a].at = 3,
                        NEW g, g = call'[a].file, g \notin cut', ~MetWith(g, {"purge", "empty"})'
        PROVE index'[g] = NoEntry
    <3>1. SUFFICES ASSUME NEW a \in Requests, call'[a].op \in {"purge", "empty"}, call'[a].at = 3,
                          call'[a].file \notin cut', ~MetWith(call[a].file, {"purge", "empty"})',
                          call'[a].file = call[a].file
          PROVE index'[call'[a].file] = NoEntry
      <4>1. \A a \in Requests : call'[a].op \in {"purge", "empty"} => call'[a].file = call[a].file
        BY <1>0, ArrivalsAssumption, AllOps DEF Onward
      <4>2. QED BY <4>1 DEF ClearedFirst, MetWith
    <3>2. PICK g : g = call[a].file OBVIOUS
    <3>3. ~MetWith(g, {"purge", "empty"})' BY <3>1, <3>2 DEF MetWith
    <3>4. QED BY <3>1, <3>2, <3>3
  <2>2. CASE a = p
    <3>1. call'[p].op # None BY <2>1, <2>2, ArrivalsAssumption, AllOps
    <3>2. call[p].op = call'[p].op /\ g = h BY <1>0, <2>1, <2>2, <3>1 DEF Onward
    <3>3. call[p].op \in Removers BY <2>1, <2>2, <3>2 DEF Removers
    <3>4. QED BY <1>a, <3>2, <3>3
  <2>3. CASE a # p
    <3>1. call'[a] = call[a] BY <1>0, <2>3
    <3>2. g \in Holds(a) /\ g \in Files
      <4>1. call[a].op # None /\ call[a].at = 3 BY <2>1, <3>1, ArrivalsAssumption, AllOps
      <4>2. call[a].file # None BY <4>1, Busy DEF FilesInv, Typed, CallsKept, Fits
      <4>3. QED BY <1>d, <2>1, <3>1, <4>2 DEF Holds
    <3>3. CASE g = h
      <4>1. UNCHANGED <<met, cut>> /\ {call[a].op, call[p].op} \in met[g] BY <1>c, <2>3, <3>2, <3>3
      <4>2. QED BY <2>1, <3>1, <4>1 DEF MetWith
    <3>4. CASE g # h
      <4>1. g \notin cut /\ ~MetWith(g, {"purge", "empty"}) BY <1>b, <2>1, <3>2, <3>4 DEF MetWith
      <4>2. index[g] = NoEntry BY <2>1, <3>1, <4>1 DEF FilesInv, Together, ClearedFirst
      <4>3. QED BY <1>a, <3>2, <3>4, <4>2
    <3>5. QED BY <3>3, <3>4
  <2>4. QED BY <2>2, <2>3
<1>7. QED BY <1>1, <1>2, <1>3, <1>4, <1>5, <1>6 DEF Together

LEMMA IndexTogether == ASSUME FilesInv, NEW p \in Requests, Index(p) PROVE Together'
<1>. DEFINE c == call[p]  f == call[p].file
<1>1. At(p, "index") /\ CallsFit BY DEF FilesInv, Typed, CallsKept, Index
<1>2. /\ c.op # None /\ Fits(c) /\ c \in Calls /\ c.op \notin Removers /\ c.op # "empty"
      /\ c.at \in 4..7 /\ (c.op \in {"create", "save", "upload"} => c.at = 5) /\ c.op # "retitle"
      /\ Knows(c)
  <2>1. Fits(c) /\ c.op # None /\ c \in Calls BY <1>1, Stands
  <2>2. \/ c.op \in {"attach", "detach", "ai"} /\ c.at = 4
        \/ c.op \in {"commit", "save", "create", "upload", "restore"} /\ c.at = 5
        \/ c.op \in {"rename", "fold"} /\ c.at = 7
    BY <1>1, Stands, Places
  <2>3. QED BY <2>1, <2>2 DEF Removers, Knows
<1>3. Typed /\ Moved(p) BY IndexTyped DEF FilesInv
<1>4. Holds(p) = {f} /\ f \in Files BY <1>2, <1>3, Single
<1>5. PICK h \in Files : h = f BY <1>4
<1>6. PICK e \in Entries \cup {NoEntry} : e = Entry(c) /\ e # NoEntry
  <2>1. c.row \in Present BY <1>2 DEF Fits
  <2>2. Entry(c) \in Entries BY <1>2, <2>1, PresentIsRow DEF Entry, Entries, Calls
  <2>3. Entry(c).name \in Names BY <2>1, PresentIsRow DEF Entry
  <2>4. Entry(c) # NoEntry BY <2>3, ArrivalsAssumption DEF NoEntry
  <2>5. QED BY <2>2, <2>4
<1>7. index' = [index EXCEPT ![h] = e] /\ row' = row BY <1>5, <1>6 DEF Index
<1>8. OthersStay(p) /\ (Onward(p) \/ call'[p] = Idle) BY <1>3 DEF Moved
<1>9. Onward(p) => call'[p].at # 1 BY <1>2 DEF Onward
<1>10. \A g \in Files : ~Stamping(p, g)'
  <2>1. SUFFICES ASSUME NEW g \in Files, Stamping(p, g)' PROVE FALSE OBVIOUS
  <2>2. Stamps(call'[p]) BY <2>1 DEF Stamping
  <2>3. call'[p].op \in {"save", "create", "upload", "retitle"} /\ call'[p].at \in {2, 7, 8} BY <2>2, StampsAt
  <2>4. Onward(p) BY <1>8, <2>3, ArrivalsAssumption, AllOps DEF Idle
  <2>5. call'[p].op = c.op /\ call'[p].at = c.at + 1 BY <2>4 DEF Onward
  <2>6. QED BY <1>2, <2>3, <2>5
<1>11. \/ UNCHANGED <<met, cut>>
       \/ /\ call[p].alone /\ cut' = cut \ {h} /\ \A g \in Files \ {h} : met'[g] = met[g]
  <2>1. CASE UNCHANGED <<met, mixed, cut>> BY <2>1
  <2>2. CASE Ends(p) /\ Mended(p)
    BY <1>5, <2>2 DEF Ends, Mended
  <2>3. CASE Ends(p) /\ ~Mended(p)
    BY <2>3 DEF Ends, FilesInv, Typed, Marks
  <2>4. QED BY <1>3, <2>1, <2>2, <2>3 DEF Moved
<1>12. call[p].file = h /\ call[p].op \notin Removers /\ h \in Holds(p) BY <1>2, <1>4, <1>5
<1>. HIDE DEF c, f
<1>13. QED BY <1>6, <1>7, <1>8, <1>9, <1>10, <1>11, <1>12, EntryWritten

LEMMA UnindexTogether == ASSUME FilesInv, NEW p \in Requests, Unindex(p) PROVE Together'
<1>. DEFINE c == call[p]  f == call[p].file
<1>1. At(p, "unindex") /\ CallsFit BY DEF FilesInv, Typed, CallsKept, Unindex
<1>2. /\ c.op # None /\ Fits(c) /\ c \in Calls /\ c.op \in {"delete", "purge", "empty"}
      /\ c.at \in {2, 3} /\ (c.op = "delete" => c.at = 3)
  BY <1>1, Stands, Places
<1>3. Typed /\ Moved(p) BY UnindexTyped DEF FilesInv
<1>4. PICK h \in Files : h = f /\ h \in Holds(p)
  <2>1. f # None BY <1>2 DEF Fits
  <2>2. QED BY <1>2, <2>1 DEF Calls, Holds
<1>5. OthersStay(p) /\ UNCHANGED <<met, mixed, cut>> /\ (Onward(p) \/ call'[p] = Idle)
  BY <1>1, <1>3, NotLast, MovedMarks
<1>6. index' = [index EXCEPT ![h] = NoEntry] /\ row' = row BY <1>4 DEF Unindex
<1>7. Removing(p) BY <1>2 DEF Removing
<1>8. Onward(p) => call'[p].at # 1 BY <1>2 DEF Onward
<1>9. \A g \in Files : ~Stamping(p, g)'
  <2>1. SUFFICES ASSUME NEW g \in Files, Stamping(p, g)' PROVE FALSE OBVIOUS
  <2>2. Stamps(call'[p]) BY <2>1 DEF Stamping
  <2>3. call'[p].op \in {"save", "create", "upload", "retitle"} BY <2>2, StampsAt
  <2>4. Onward(p) BY <1>5, <2>3, ArrivalsAssumption, AllOps DEF Idle
  <2>5. QED BY <1>2, <2>3, <2>4 DEF Onward
<1>10. PICK e \in Entries \cup {NoEntry} : e = NoEntry OBVIOUS
<1>11. index' = [index EXCEPT ![h] = e] /\ call[p].file = h BY <1>4, <1>6, <1>10
<1>. HIDE DEF c, f
<1>12. QED BY <1>4, <1>5, <1>6, <1>7, <1>8, <1>9, <1>10, <1>11, EntryWritten

(* A purge leaves the file it purged, whatever it goes on with.            *)
LEMMA PurgeMoves ==
  ASSUME Typed, NEW p \in Requests, Purge(p)
  PROVE  /\ OthersStay(p) /\ UNCHANGED <<index, met, cut>>
         /\ call[p].op \in {"purge", "empty"} /\ call[p].at = 3
         /\ call[p].file \in Files /\ call[p].file \in Holds(p)
         /\ Holds(p)' \subseteq Holds(p) \ {call[p].file}
         /\ Holds(p)' # {} => call'[p].op = call[p].op /\ call'[p].alone = call[p].alone
         /\ call'[p].op \in {"empty", None} /\ call'[p].at # 3
<1>. DEFINE c == call[p]  f == call[p].file
            done == Exists(f)  progress == c.progress \/ done
<1>1. At(p, "purge") /\ CallsFit BY DEF Typed, CallsKept, Purge
<1>2. c.op \in {"purge", "empty"} /\ c.op # None /\ Fits(c) /\ c \in Calls /\ c.at = 3
  BY <1>1, Stands, Places
<1>3. f # None /\ f \in Files /\ f \notin c.todo /\ f \in Holds(p) BY <1>2 DEF Fits, Calls, Holds
<1>i. index' = index BY DEF Purge
<1>4. CASE Ends(p)
  <2>1. ~Mended(p) BY <1>1, NotLast
  <2>2. UNCHANGED <<met, cut>> BY <1>4, <2>1 DEF Ends, Typed, Marks
  <2>3. call'[p] = Idle /\ OthersStay(p) BY <1>4 DEF Ends, Typed, CallsKept, OthersStay
  <2>4. Holds(p)' = {} /\ call'[p].op = None /\ call'[p].at = 0 BY <2>3 DEF Holds, Idle
  <2>5. QED BY <1>i, <1>2, <1>3, <2>2, <2>3, <2>4
<1>5. CASE /\ c.op = "empty" /\ c.todo # {}
           /\ \E g \in c.todo :
                call' = [call EXCEPT ![p] = [c EXCEPT !.at = 2, !.file = g, !.todo = c.todo \ {g},
                                                      !.progress = progress]]
           /\ UNCHANGED <<met, mixed, cut>>
  <2>1. PICK g \in c.todo : call' = [call EXCEPT ![p] = [c EXCEPT !.at = 2, !.file = g,
                                              !.todo = c.todo \ {g}, !.progress = progress]]
    BY <1>5
  <2>2. PICK d : d = [c EXCEPT !.at = 2, !.file = g, !.todo = c.todo \ {g}, !.progress = progress]
    OBVIOUS
  <2>3. d.op = c.op /\ d.at = 2 /\ d.file = g /\ d.todo = c.todo \ {g} /\ d.alone = c.alone
    BY <1>2, <2>2 DEF Calls
  <2>4. call'[p] = d /\ OthersStay(p) BY <2>1, <2>2 DEF Typed, CallsKept, OthersStay
  <2>5. Holds(p)' \subseteq c.todo BY <2>3, <2>4 DEF Holds
  <2>6. c.todo \subseteq Holds(p) \ {f} BY <1>3 DEF Holds
  <2>7. QED BY <1>i, <1>2, <1>3, <1>5, <2>3, <2>4, <2>5, <2>6
<1>6. CASE /\ c.op = "empty" /\ call' = [call EXCEPT ![p] = [Idle EXCEPT !.op = "empty", !.at = 1]]
           /\ UNCHANGED <<met, mixed, cut>>
  <2>1. PICK d : d = [Idle EXCEPT !.op = "empty", !.at = 1] OBVIOUS
  <2>2. d.op = "empty" /\ d.at = 1 /\ d.todo = {} /\ d.file = None BY <2>1, EmptyCall
  <2>3. call'[p] = d /\ OthersStay(p) BY <1>6, <2>1 DEF Typed, CallsKept, OthersStay
  <2>4. Holds(p)' = {} BY <2>2, <2>3 DEF Holds
  <2>5. QED BY <1>i, <1>2, <1>3, <1>6, <2>2, <2>3, <2>4
<1>7. QED BY <1>4, <1>5, <1>6 DEF Purge

LEMMA PurgeTogether == ASSUME FilesInv, NEW p \in Requests, Purge(p) PROVE Together'
<1>0. /\ \A q \in Requests \ {p} : Holds(q)' = Holds(q) /\ call'[q] = call[q]
      /\ UNCHANGED <<index, met, cut>>
      /\ call[p].op \in {"purge", "empty"} /\ call[p].at = 3
      /\ Holds(p)' # {} => call'[p].op = call[p].op /\ call'[p].alone = call[p].alone
      /\ call'[p].op \in {"empty", None} /\ call'[p].at # 3
  BY PurgeMoves DEF FilesInv, OthersStay, Holds
<1>f. PICK f \in Files : f = call[p].file /\ f \in Holds(p) /\ Holds(p)' \subseteq Holds(p) \ {f}
  BY PurgeMoves DEF FilesInv
<1>r. /\ \A g \in Files \ {f} : row'[g] = row[g]
      /\ row'[f] = row[f] \/ (Exists(f) /\ row'[f].state = "gone")
  BY <1>f DEF Purge, FilesInv, Typed, Tables, Gone, NoRow
<1>d. \A q \in Requests : Holds(q) \subseteq Files
  BY HoldsFiles DEF FilesInv, Typed, CallsKept
<1>1. Meeting'
  <2>1. SUFFICES ASSUME NEW a \in Requests, NEW b \in Requests, a # b, NEW g \in Holds(a)' \cap Holds(b)'
        PROVE {call'[a].op, call'[b].op} \in met'[g] /\ ~call'[a].alone /\ ~call'[b].alone
    BY DEF Meeting
  <2>2. g \in Holds(a) \cap Holds(b) BY <1>0, <1>f
  <2>3. {call[a].op, call[b].op} \in met[g] /\ ~call[a].alone /\ ~call[b].alone
    BY <2>1, <2>2 DEF FilesInv, Together, Meeting
  <2>4. call'[a].op = call[a].op /\ call'[a].alone = call[a].alone BY <1>0
  <2>5. call'[b].op = call[b].op /\ call'[b].alone = call[b].alone BY <1>0
  <2>6. QED BY <1>0, <2>3, <2>4, <2>5
<1>2. MadeAlone'
  <2>1. SUFFICES ASSUME NEW a \in Requests, call'[a].op = "create", call'[a].at = 1
        PROVE row'[call'[a].file].state = "none" /\ \A q \in Requests \ {a} : call'[a].file \notin Holds(q)'
    BY DEF MadeAlone, Holds
  <2>2. a # p BY <1>0, <2>1, ArrivalsAssumption, AllOps
  <2>3. call'[a] = call[a] BY <1>0, <2>2
  <2>4. row[call[a].file].state = "none" /\ \A q \in Requests \ {a} : call[a].file \notin Holds(q)
    BY <2>1, <2>3 DEF FilesInv, Together, MadeAlone
  <2>5. call[a].file # f BY <1>f, <2>2, <2>4
  <2>6. call[a].file \in Files
    <3>1. call[a].op # None /\ call[a].op # "empty" BY <2>1, <2>3, ArrivalsAssumption, AllOps
    <3>2. QED BY <3>1, Busy DEF FilesInv, Typed, CallsKept
  <2>7. \A q \in Requests \ {a} : call[a].file \notin Holds(q)' BY <1>0, <1>f, <2>4
  <2>8. QED BY <1>r, <2>3, <2>4, <2>5, <2>6, <2>7
<1>3. RemoversSee'
  <2>1. SUFFICES ASSUME NEW a \in Requests, Removing(a)', NEW g \in Holds(a)', row'[g].state = "live"
        PROVE MetWith(g, {call[a].op}) /\ call'[a].op = call[a].op
    BY <1>0 DEF RemoversSee, MetWith
  <2>2. g \in Holds(a) /\ call'[a].op = call[a].op BY <1>0, <1>f, <2>1
  <2>3. Removing(a) BY <1>0, <2>1 DEF Removing
  <2>4. row[g].state = "live"
    <3>1. g \in Files BY <1>d, <2>2
    <3>2. QED BY <1>r, <2>1, <3>1
  <2>5. QED BY <2>1, <2>2, <2>3, <2>4 DEF FilesInv, Together, RemoversSee
<1>4. Findable'
  <2>1. SUFFICES ASSUME NEW g \in Files, g \notin cut', ~MetWith(g, Removers)', Exists(g)',
                        row'[g].state = "live" \/ \E q \in Requests : Stamping(q, g)'
        PROVE Listed(g)'
    BY DEF Findable
  <2>2. row'[g] = row[g] /\ Exists(g) BY <1>r, <2>1 DEF Exists
  <2>3. g \notin cut /\ ~MetWith(g, Removers) BY <1>0, <2>1 DEF MetWith
  <2>4. \A q \in Requests : Stamping(q, g)' => Stamping(q, g)
    <3>1. ~Stamping(p, g)'
      <4>1. SUFFICES ASSUME Stamping(p, g)' PROVE FALSE OBVIOUS
      <4>2. Stamps(call'[p]) BY <4>1 DEF Stamping
      <4>3. call'[p].op \in Ops /\ call'[p].op \in {"save", "create", "upload", "retitle"} BY <4>2, StampsAt
      <4>4. QED BY <1>0, <4>3, ArrivalsAssumption
    <3>2. QED BY <1>0, <3>1 DEF Stamping, Stamps, Reaches
  <2>5. Listed(g) BY <2>1, <2>2, <2>3, <2>4 DEF FilesInv, Together, Findable
  <2>6. ~Ahead(p, g) BY <1>0 DEF Ahead, Refreshers, Saves
  <2>7. \A q \in Requests \ {p} : Ahead(q, g) => Ahead(q, g)' BY <1>0 DEF Ahead
  <2>8. QED BY <1>0, <2>5, <2>6, <2>7 DEF Listed
<1>5. PurgedLeft'
  <2>1. SUFFICES ASSUME NEW g \in Files, row'[g].state = "gone"
        PROVE /\ \A q \in Requests : g \in Holds(q)' => ~call'[q].alone
              /\ (g \notin cut' /\ ~MetWith(g, {"purge", "empty"})') =>
                    index'[g] = NoEntry /\ \A q \in Requests : g \notin Holds(q)'
    BY DEF PurgedLeft
  <2>2. ~MetWith(g, {"purge", "empty"})' => ~MetWith(g, {"purge", "empty"}) BY <1>0 DEF MetWith
  <2>3. \A q \in Requests : g \in Holds(q)' => g \in Holds(q) /\ call'[q].alone = call[q].alone
    BY <1>0, <1>f
  <2>4. CASE row[g].state = "gone"
    <3>1. /\ \A q \in Requests : g \in Holds(q) => ~call[q].alone
          /\ (g \notin cut /\ ~MetWith(g, {"purge", "empty"})) =>
                index[g] = NoEntry /\ \A q \in Requests : g \notin Holds(q)
      BY <2>4 DEF FilesInv, Together, PurgedLeft
    <3>2. QED BY <1>0, <2>2, <2>3, <3>1
  <2>5. CASE g = f /\ row[f].state # "gone"
    <3>1. \A q \in Requests : f \in Holds(q)' => q # p /\ f \in Holds(q) BY <1>f, <2>3, <2>5
    <3>2. \A q \in Requests : f \in Holds(q)' => ~call[q].alone /\ {call[p].op, call[q].op} \in met[f]
      BY <1>f, <3>1 DEF FilesInv, Together, Meeting
    <3>3. ~MetWith(f, {"purge", "empty"}) => \A q \in Requests : f \notin Holds(q)'
      BY <1>0, <3>2 DEF MetWith
    <3>4. f \notin cut /\ ~MetWith(f, {"purge", "empty"}) => index[f] = NoEntry
      BY <1>0, <1>f DEF FilesInv, Together, ClearedFirst
    <3>5. QED BY <1>0, <2>2, <2>3, <2>5, <3>2, <3>3, <3>4
  <2>6. QED BY <1>r, <2>1, <2>4, <2>5
<1>6. ClearedFirst'
  <2>1. SUFFICES ASSUME NEW a \in Requests, call'[a].op \in {"purge", "empty"}, call'[a].at = 3,
                        call'[a].file \notin cut', ~MetWith(call[a].file, {"purge", "empty"}),
                        call'[a] = call[a], a # p
        PROVE index'[call'[a].file] = NoEntry
    <3>1. \A a \in Requests : call'[a].at = 3 => call'[a] = call[a] /\ a # p BY <1>0
    <3>2. QED BY <1>0, <3>1 DEF ClearedFirst, MetWith
  <2>2. QED BY <1>0, <2>1 DEF FilesInv, Together, ClearedFirst
<1>7. QED BY <1>1, <1>2, <1>3, <1>4, <1>5, <1>6 DEF Together

LEMMA InHand ==
  ASSUME CallsFit, NEW p \in Requests, call[p].op # None, call[p].at # 1
  PROVE  call[p].file \in Files /\ call[p].file \in Holds(p)
<1>1. Fits(call[p]) BY Busy
<1>2. PICK c \in Calls : c = call[p] /\ c.file # None BY <1>1 DEF Fits
<1>3. c.file \in Files BY <1>2 DEF Calls
<1>4. QED BY <1>2, <1>3 DEF Holds

(* A request takes up files, or none: it meets whoever has one of them.    *)
TakesUp(p, F) ==
  /\ \A q \in Requests \ {p} :
       /\ Holds(q)' = Holds(q) /\ call'[q].op = call[q].op /\ call'[q].at = call[q].at
       /\ call'[q].file = call[q].file /\ call'[q].row = call[q].row
       /\ call'[q].alone => call[q].alone
  /\ \A q \in Requests \ {p} : \A g \in F \cap Holds(q) :
       {call'[p].op, call[q].op} \in met'[g] /\ ~call'[p].alone /\ ~call'[q].alone
  /\ \A g \in Files : met[g] \subseteq met'[g]

LEMMA Taken ==
  ASSUME FilesInv, NEW p \in Requests, UNCHANGED <<row, index, cut>>,
         NEW F \in SUBSET Files, Holds(p)' = F, TakesUp(p, F),
         \A g \in F : row[g].state # "gone",
         call'[p].at \in {1, 2}, call'[p].op \in Ops,
         call'[p].at = 2 => call'[p].op = "empty" /\ \A g \in F : row[g].state # "live",
         \A a \in Requests \ {p} : call[a].op = "create" /\ call[a].at = 1 => call[a].file \notin F,
         call'[p].op = "create" => row[call'[p].file].state = "none" /\ \A q \in Requests : call'[p].file \notin Holds(q),
         \A g \in Files : ~Ahead(p, g)
  PROVE  Together'
<1>u. /\ \A q \in Requests \ {p} :
           /\ Holds(q)' = Holds(q) /\ call'[q].op = call[q].op /\ call'[q].at = call[q].at
           /\ call'[q].file = call[q].file /\ call'[q].row = call[q].row
           /\ call'[q].alone => call[q].alone
      /\ \A q \in Requests \ {p} : \A g \in F \cap Holds(q) :
           {call'[p].op, call[q].op} \in met'[g] /\ ~call'[p].alone /\ ~call'[q].alone
      /\ \A g \in Files : met[g] \subseteq met'[g]
  BY DEF TakesUp
<1>. USE <1>u
<1>s. ~Removing(p)' \/ \A g \in F : row[g].state # "live" BY DEF Removing
<1>t. \A g \in Files : Stamping(p, g)' => FALSE
  <2>1. SUFFICES ASSUME NEW g \in Files, Stamping(p, g)' PROVE FALSE OBVIOUS
  <2>2. Stamps(call'[p]) BY <2>1 DEF Stamping
  <2>3. call'[p].op \in {"save", "create", "upload", "retitle"} /\ call'[p].at \in {2, 7, 8} BY <2>2, StampsAt
  <2>4. QED BY <2>3
<1>m. ASSUME NEW g \in Files, NEW S, MetWith(g, S) PROVE MetWith(g, S)'
  BY <1>m DEF MetWith
<1>d. \A q \in Requests : Holds(q) \subseteq Files
  BY HoldsFiles DEF FilesInv, Typed, CallsKept
<1>1. Meeting'
  <2>1. SUFFICES ASSUME NEW a \in Requests, NEW b \in Requests, a # b, NEW g \in Holds(a)' \cap Holds(b)'
        PROVE {call'[a].op, call'[b].op} \in met'[g] /\ ~call'[a].alone /\ ~call'[b].alone
    BY DEF Meeting
  <2>2. CASE a # p /\ b # p
    <3>1. g \in Holds(a) \cap Holds(b) /\ g \in Files BY <1>d, <2>1, <2>2
    <3>2. {call[a].op, call[b].op} \in met[g] /\ ~call[a].alone /\ ~call[b].alone
      BY <2>1, <3>1 DEF FilesInv, Together, Meeting
    <3>3. QED BY <2>2, <3>1, <3>2
  <2>3. CASE a = p
    <3>1. b # p /\ g \in F \cap Holds(b) BY <2>1, <2>3
    <3>2. QED BY <2>3, <3>1
  <2>4. CASE b = p
    <3>1. a # p /\ g \in F \cap Holds(a) BY <2>1, <2>4
    <3>2. {call'[a].op, call'[p].op} = {call'[p].op, call[a].op} BY <3>1
    <3>3. QED BY <2>4, <3>1, <3>2
  <2>5. QED BY <2>2, <2>3, <2>4
<1>2. MadeAlone'
  <2>1. SUFFICES ASSUME NEW a \in Requests, call'[a].op = "create", call'[a].at = 1
        PROVE row'[call'[a].file].state = "none" /\ \A q \in Requests \ {a} : call'[a].file \notin Holds(q)'
    BY DEF MadeAlone, Holds
  <2>2. CASE a = p BY <2>1, <2>2
  <2>3. CASE a # p
    <3>1. call[a].op = "create" /\ call[a].at = 1 BY <2>1, <2>3
    <3>2. row[call[a].file].state = "none" /\ \A q \in Requests \ {a} : call[a].file \notin Holds(q)
      BY <3>1 DEF FilesInv, Together, MadeAlone
    <3>3. call[a].file \notin F BY <2>3, <3>1
    <3>4. QED BY <2>3, <3>2, <3>3
  <2>4. QED BY <2>2, <2>3
<1>3. RemoversSee'
  <2>1. SUFFICES ASSUME NEW a \in Requests, Removing(a)', NEW g \in Holds(a)', row'[g].state = "live"
        PROVE MetWith(g, {call[a].op})' /\ call'[a].op = call[a].op
    BY DEF RemoversSee, MetWith
  <2>2. a # p BY <1>s, <2>1
  <2>3. Removing(a) /\ g \in Holds(a) BY <2>1, <2>2 DEF Removing
  <2>4. g \in Files /\ MetWith(g, {call[a].op}) BY <1>d, <2>1, <2>3 DEF FilesInv, Together, RemoversSee
  <2>5. QED BY <1>m, <2>2, <2>4
<1>4. Findable'
  <2>1. SUFFICES ASSUME NEW g \in Files, g \notin cut', ~MetWith(g, Removers)', Exists(g)',
                        row'[g].state = "live" \/ \E q \in Requests : Stamping(q, g)'
        PROVE Listed(g)'
    BY DEF Findable
  <2>2. g \notin cut /\ ~MetWith(g, Removers) /\ Exists(g) BY <1>m, <2>1 DEF Exists
  <2>3. \A q \in Requests : Stamping(q, g)' => Stamping(q, g) BY <1>t DEF Stamping, Stamps, Reaches
  <2>4. Listed(g) BY <2>1, <2>2, <2>3 DEF FilesInv, Together, Findable
  <2>5. \A q \in Requests \ {p} : Ahead(q, g) => Ahead(q, g)' BY DEF Ahead
  <2>6. QED BY <2>4, <2>5 DEF Listed
<1>5. PurgedLeft'
  <2>1. SUFFICES ASSUME NEW g \in Files, row'[g].state = "gone"
        PROVE /\ \A q \in Requests : g \in Holds(q)' => ~call'[q].alone
              /\ (g \notin cut' /\ ~MetWith(g, {"purge", "empty"})') =>
                    index'[g] = NoEntry /\ \A q \in Requests : g \notin Holds(q)'
    BY DEF PurgedLeft
  <2>2. /\ \A q \in Requests : g \in Holds(q) => ~call[q].alone
        /\ (g \notin cut /\ ~MetWith(g, {"purge", "empty"})) =>
              index[g] = NoEntry /\ \A q \in Requests : g \notin Holds(q)
    BY <2>1 DEF FilesInv, Together, PurgedLeft
  <2>3. g \notin F BY <2>1
  <2>4. ~MetWith(g, {"purge", "empty"})' => ~MetWith(g, {"purge", "empty"}) BY <1>m
  <2>5. QED BY <2>2, <2>3, <2>4
<1>6. ClearedFirst'
  <2>1. SUFFICES ASSUME NEW a \in Requests, call'[a].op \in {"purge", "empty"}, call'[a].at = 3,
                        NEW g, g = call'[a].file, g \notin cut', ~MetWith(g, {"purge", "empty"})'
        PROVE index'[g] = NoEntry
    <3>1. SUFFICES ASSUME NEW a \in Requests, call'[a].op \in {"purge", "empty"}, call'[a].at = 3,
                          ~(call'[a].file \in cut' \/ MetWith(call[a].file, {"purge", "empty"})'),
                          call'[a].file = call[a].file
          PROVE index'[call'[a].file] = NoEntry
      <4>1. \A a \in Requests : call'[a].at = 3 => call'[a].file = call[a].file
        <5>1. SUFFICES ASSUME NEW a \in Requests, call'[a].at = 3 PROVE call'[a].file = call[a].file OBVIOUS
        <5>2. a # p BY <5>1
        <5>3. QED BY <5>2
      <4>2. QED BY <4>1 DEF ClearedFirst, MetWith
    <3>2. PICK g : g = call[a].file OBVIOUS
    <3>3. ~MetWith(g, {"purge", "empty"})' BY <3>1, <3>2 DEF MetWith
    <3>4. QED BY <3>1, <3>2, <3>3
  <2>2. a # p BY <2>1
  <2>3. call[a].op = call'[a].op /\ call[a].at = 3 /\ call[a].file = g BY <2>1, <2>2
  <2>4. g \in Files
    <3>1. call[a].op # None BY <2>1, <2>3, ArrivalsAssumption, AllOps
    <3>2. CallsFit BY DEF FilesInv, Typed, CallsKept
    <3>3. QED BY <2>3, <3>1, <3>2, InHand
  <2>5. ~MetWith(g, {"purge", "empty"}) BY <1>m, <2>1, <2>4
  <2>6. QED BY <2>1, <2>3, <2>5 DEF FilesInv, Together, ClearedFirst
<1>7. QED BY <1>1, <1>2, <1>3, <1>4, <1>5, <1>6 DEF Together

(* What Join does, seen from each request.                                 *)
LEMMA Joined ==
  ASSUME Typed, NEW p \in Requests, NEW F \in SUBSET Files, NEW c \in Calls, Join(p, F, c)
  PROVE  /\ call'[p].op = c.op /\ call'[p].at = c.at /\ call'[p].file = c.file /\ call'[p].todo = c.todo
         /\ TakesUp(p, F)
<1>1. /\ call'[p].op = c.op /\ call'[p].at = c.at /\ call'[p].file = c.file /\ call'[p].todo = c.todo
      /\ call'[p].alone => c.alone /\ \A q \in Requests \ {p} : Holds(q) \cap F = {}
  <2>1. PICK b : b = (c.alone /\ {q \in Requests \ {p} : Holds(q) \cap F # {}} = {}) OBVIOUS
  <2>2. call'[p] = [c EXCEPT !.alone = b] BY <2>1 DEF Join
  <2>3. call'[p].op = c.op /\ call'[p].at = c.at /\ call'[p].file = c.file /\ call'[p].todo = c.todo
          /\ call'[p].alone = b
    BY <2>2 DEF Calls
  <2>4. QED BY <2>1, <2>3
<1>2. ASSUME NEW q \in Requests \ {p}
      PROVE  /\ Holds(q)' = Holds(q) /\ call'[q].op = call[q].op /\ call'[q].at = call[q].at
             /\ call'[q].file = call[q].file /\ call'[q].row = call[q].row
             /\ call'[q].alone => call[q].alone
             /\ Holds(q) \cap F # {} => ~call'[q].alone
  <2>1. CASE Holds(q) \cap F # {}
    <3>1. call'[q] = [call[q] EXCEPT !.alone = FALSE] BY <2>1 DEF Join
    <3>2. call[q] \in Calls BY <2>1 DEF Holds, Idle, Typed, CallsKept, CallsFit, Fits
    <3>3. /\ call'[q].op = call[q].op /\ call'[q].at = call[q].at /\ call'[q].todo = call[q].todo
          /\ call'[q].file = call[q].file /\ call'[q].row = call[q].row /\ ~call'[q].alone
      BY <3>1, <3>2 DEF Calls
    <3>4. Holds(q)' = Holds(q) BY <3>3 DEF Holds
    <3>5. QED BY <3>3, <3>4
  <2>2. CASE Holds(q) \cap F = {}
    <3>1. call'[q] = call[q] BY <2>2 DEF Join
    <3>2. QED BY <2>2, <3>1 DEF Holds
  <2>3. QED BY <2>1, <2>2
<1>3. ASSUME NEW g \in Files
      PROVE  /\ met[g] \subseteq met'[g]
             /\ g \in F => \A q \in Others(p, g) : {c.op, call[q].op} \in met'[g]
  <2>1. met'[g] = met[g] \cup (IF g \in F THEN {{c.op, call[q].op} : q \in Others(p, g)} ELSE {})
    BY DEF Join
  <2>2. QED BY <2>1
<1>4. ASSUME NEW q \in Requests \ {p}, NEW g \in F \cap Holds(q)
      PROVE  {call'[p].op, call[q].op} \in met'[g] /\ ~call'[p].alone /\ ~call'[q].alone
  <2>1. q \in Others(p, g) BY DEF Others
  <2>2. {c.op, call[q].op} \in met'[g] BY <1>3, <2>1
  <2>3. QED BY <1>1, <1>2, <2>2
<1>5. QED BY <1>1, <1>2, <1>3, <1>4 DEF TakesUp

LEMMA StartTogether ==
  ASSUME FilesInv, NEW p \in Requests, NEW op \in Ops \ {"empty"}, NEW f \in Files, Start(p, op, f)
  PROVE  Together'
<1>1. PICK a \in Arguments(op, f) :
        Join(p, {f}, [Idle EXCEPT !.op = op, !.at = 1, !.file = f, !.name = a.name, !.tag = a.tag])
  BY DEF Start
<1>2. a.name \in Names \cup {None} /\ a.tag \in UserTags \cup {None}
  BY AllOps DEF Arguments
<1>3. PICK d : d = [Idle EXCEPT !.op = op, !.at = 1, !.file = f, !.name = a.name, !.tag = a.tag]
  OBVIOUS
<1>4. d = [op |-> op, at |-> 1, file |-> f, row |-> NoRow, name |-> a.name, tag |-> a.tag,
           text |-> 0, tags |-> {}, todo |-> {}, progress |-> FALSE, alone |-> TRUE]
  BY <1>3 DEF Idle
<1>5. d \in Calls
  <2>1. NoRow \in Rows BY DEF NoRow, Rows
  <2>2. QED BY <1>2, <1>4, <2>1 DEF Calls
<1>6. PICK F \in SUBSET Files : F = {f} OBVIOUS
<1>7. Join(p, F, d) /\ Typed BY <1>1, <1>3, <1>6 DEF FilesInv
<1>8. call'[p].op = op /\ call'[p].at = 1 /\ call'[p].file = f /\ call'[p].todo = {} /\ TakesUp(p, F)
  <2>1. d.op = op /\ d.at = 1 /\ d.file = f /\ d.todo = {} BY <1>4
  <2>2. QED BY <1>5, <1>7, <2>1, Joined
<1>9. Holds(p)' = F BY <1>6, <1>8, ArrivalsAssumption DEF Holds
<1>10. UNCHANGED <<row, index, cut>> BY DEF Start, tables
<1>11. /\ op = "create" => row[f].state = "none" /\ \A q \in Requests : f \notin Holds(q)
       /\ op # "create" => Exists(f)
  BY DEF Start
<1>12. \A g \in F : row[g].state # "gone" BY <1>6, <1>11 DEF Exists
<1>13. \A a1 \in Requests \ {p} : call[a1].op = "create" /\ call[a1].at = 1 => call[a1].file \notin F
  <2>1. SUFFICES ASSUME NEW b \in Requests, call[b].op = "create", call[b].at = 1, call[b].file = f PROVE FALSE
    BY <1>6
  <2>2. row[f].state = "none" BY <2>1 DEF FilesInv, Together, MadeAlone
  <2>3. f \notin Holds(b) BY <1>11, <2>2 DEF Exists
  <2>4. QED BY <2>1, <2>3, ArrivalsAssumption DEF Holds
<1>14. \A g \in Files : ~Ahead(p, g)
  BY ArrivalsAssumption, AllOps DEF Start, Ahead, Refreshers, Saves
<1>15. call'[p].op = "create" => row[call'[p].file].state = "none" /\ \A q \in Requests : call'[p].file \notin Holds(q)
  BY <1>8, <1>11
<1>16. call'[p].at \in {1, 2} /\ call'[p].op \in Ops
       /\ (call'[p].at = 2 => call'[p].op = "empty" /\ \A g \in F : row[g].state # "live")
  BY <1>8
<1>17. QED BY <1>8, <1>9, <1>10, <1>12, <1>13, <1>14, <1>15, <1>16, Taken

LEMMA StartEmptyTogether == ASSUME FilesInv, NEW p \in Requests, StartEmpty(p) PROVE Together'
<1>1. PICK d : d = [Idle EXCEPT !.op = "empty", !.at = 1] OBVIOUS
<1>2. d.op = "empty" /\ d.at = 1 /\ d.todo = {} /\ d.file = None BY <1>1, EmptyCall
<1>3. call'[p] = d /\ \A q \in Requests \ {p} : call'[q] = call[q]
  BY <1>1 DEF StartEmpty, FilesInv, Typed, CallsKept
<1>4. PICK F \in SUBSET Files : F = {} OBVIOUS
<1>5. Holds(p)' = F BY <1>2, <1>3, <1>4 DEF Holds
<1>6. UNCHANGED <<row, index, cut, met>> BY DEF StartEmpty, tables, history
<1>7. TakesUp(p, F) BY <1>3, <1>4, <1>6 DEF Holds, TakesUp
<1>8. \A g \in Files : ~Ahead(p, g)
  BY ArrivalsAssumption, AllOps DEF StartEmpty, Ahead, Refreshers, Saves
<1>9. call'[p].op = "empty" /\ call'[p].at = 1 /\ "empty" \in Ops BY <1>2, <1>3, AllOps
<1>10. QED BY <1>4, <1>5, <1>6, <1>7, <1>8, <1>9, Taken

LEMMA ScanTogether == ASSUME FilesInv, NEW p \in Requests, Scan(p) PROVE Together'
<1>. DEFINE c == call[p]
<1>1. At(p, "scan") /\ CallsFit /\ Typed BY DEF FilesInv, Typed, CallsKept, Scan
<1>2. c.op = "empty" /\ c.at = 1 /\ c \in Calls BY <1>1, Stands, Places
<1>3. UNCHANGED <<row, index>> BY DEF Scan, tables
<1>4. \A g \in Files : ~Ahead(p, g) BY <1>2 DEF Ahead
<1>5. CASE Stop(p)
  <2>1. call'[p] = Idle /\ OthersStay(p) /\ UNCHANGED <<met, cut>>
    BY <1>5 DEF Stop, OthersStay, FilesInv, Typed, CallsKept
  <2>2. QED BY <1>3, <1>4, <2>1, Calm
<1>6. CASE ~Stop(p)
  <2>. USE DEF Trash
  <2>1. PICK F \in SUBSET Trash : \E f \in F :
          Join(p, F, [c EXCEPT !.at = 2, !.file = f, !.todo = F \ {f}]) /\ UNCHANGED cut
    BY <1>6 DEF Scan
  <2>2. PICK f \in F : Join(p, F, [c EXCEPT !.at = 2, !.file = f, !.todo = F \ {f}]) /\ UNCHANGED cut
    BY <2>1
  <2>3. PICK d : d = [c EXCEPT !.at = 2, !.file = f, !.todo = F \ {f}] OBVIOUS
  <2>4. PICK G \in SUBSET Files : G = F \ {f} OBVIOUS
  <2>5. d = [op |-> c.op, at |-> 2, file |-> f, row |-> c.row, name |-> c.name, tag |-> c.tag,
             text |-> c.text, tags |-> c.tags, todo |-> G, progress |-> c.progress, alone |-> c.alone]
    BY <1>2, <2>3, <2>4 DEF Calls
  <2>6. d \in Calls
    <3>1. f \in Files OBVIOUS
    <3>2. QED BY <1>2, <2>5, <3>1 DEF Calls
  <2>7. d.op = "empty" /\ d.at = 2 /\ d.file = f /\ d.todo = G BY <1>2, <2>5
  <2>8. Join(p, F, d) /\ F \in SUBSET Files BY <2>2, <2>3
  <2>9. call'[p].op = "empty" /\ call'[p].at = 2 /\ call'[p].file = f /\ call'[p].todo = G /\ TakesUp(p, F)
    BY <1>1, <2>6, <2>7, <2>8, Joined
  <2>10. Holds(p)' = F
    <3>1. f \in Files /\ f # None BY ArrivalsAssumption
    <3>2. QED BY <2>4, <2>9, <3>1 DEF Holds
  <2>11. \A g \in F : row[g].state = "trash" OBVIOUS
  <2>12. \A b \in Requests \ {p} : call[b].op = "create" /\ call[b].at = 1 => call[b].file \notin F
    BY <2>11 DEF FilesInv, Together, MadeAlone
  <2>13. "empty" \in Ops BY AllOps
  <2>14. PICK T \in SUBSET Files : T = F BY <2>8
  <2>15. /\ TakesUp(p, T) /\ Holds(p)' = T
         /\ \A g \in T : row[g].state # "gone" /\ row[g].state # "live"
         /\ \A b \in Requests \ {p} : call[b].op = "create" /\ call[b].at = 1 => call[b].file \notin T
    BY <2>9, <2>10, <2>11, <2>12, <2>14
  <2>. HIDE DEF c
  <2>16. QED BY <1>3, <1>4, <2>2, <2>9, <2>13, <2>15, Taken
<1>7. QED BY <1>5, <1>6

(* Faults, and the steps that touch none of this.                          *)
LEMMA FailsTogether == ASSUME FilesInv, NEW p \in Requests, Fails(p) PROVE Together'
<1>1. CallsFit /\ call[p].op # None /\ Fault(Touched(p)) BY DEF FilesInv, Typed, CallsKept, Fails
<1>2. call'[p] = Idle /\ OthersStay(p)
  BY DEF Fails, FilesInv, Typed, CallsKept, OthersStay
<1>3. UNCHANGED <<row, index, met>> /\ cut' = cut \cup Touched(p) BY <1>1 DEF Fault, tables
<1>4. \A g \in Files : Ahead(p, g) => g \in cut'
  <2>1. SUFFICES ASSUME NEW g \in Files, Ahead(p, g) PROVE g \in Touched(p) BY <1>3
  <2>2. call[p].file = g /\ call[p].at # 1 BY <2>1 DEF Ahead
  <2>3. g \in Holds(p) BY <1>1, <2>2, InHand
  <2>4. QED BY <1>1, <2>2, <2>3 DEF Touched
<1>5. QED BY <1>2, <1>3, <1>4, Calm

LEMMA IndexBusyTogether == ASSUME FilesInv, NEW p \in Requests, IndexBusy(p) PROVE Together'
<1>. DEFINE c == call[p]
<1>1. CallsFit /\ Fault(Holds(p)) /\ (At(p, "index") \/ At(p, "unindex"))
  BY DEF FilesInv, Typed, CallsKept, IndexBusy
<1>2. /\ c.op # None /\ Fits(c) /\ c \in Calls /\ c.at \in 2..7
      /\ (c.op \in {"save", "create", "upload"} => c.at = 5) /\ c.op # "retitle" /\ (c.op = "delete" => c.at = 3)
  <2>1. CASE At(p, "index") BY <1>1, <2>1, Stands, Places
  <2>2. CASE At(p, "unindex") BY <1>1, <2>2, Stands, Places
  <2>3. QED BY <1>1, <2>1, <2>2
<1>3. PICK d : d = [c EXCEPT !.at = c.at + 1] OBVIOUS
<1>4. d.op = c.op /\ d.at = c.at + 1 /\ d.file = c.file /\ d.todo = c.todo /\ d.alone = c.alone
  BY <1>2, <1>3 DEF Calls
<1>5. call'[p] = d /\ OthersStay(p)
  BY <1>3 DEF IndexBusy, FilesInv, Typed, CallsKept, OthersStay
<1>6. Onward(p) BY <1>4, <1>5 DEF Onward
<1>7. UNCHANGED <<row, index, met>> /\ cut' = cut \cup Holds(p) BY <1>1 DEF Fault, tables
<1>8. call[p].file \in cut' BY <1>1, <1>2, <1>7, InHand
<1>9. \A g \in Files : Ahead(p, g) => g \in cut' BY <1>8 DEF Ahead
<1>10. \A g \in Files : ~Stamping(p, g)'
  <2>1. SUFFICES ASSUME NEW g \in Files, Stamping(p, g)' PROVE FALSE OBVIOUS
  <2>2. Stamps(call'[p]) BY <2>1 DEF Stamping
  <2>3. call'[p].op \in {"save", "create", "upload", "retitle"} /\ call'[p].at \in {2, 7, 8} BY <2>2, StampsAt
  <2>4. QED BY <1>2, <1>4, <1>5, <2>3
<1>11. Removing(p)' => Removing(p) BY <1>2, <1>4, <1>5 DEF Removing
<1>12. call'[p].at # 1 BY <1>2, <1>4, <1>5
<1>. HIDE DEF c
<1>13. QED BY <1>5, <1>6, <1>7, <1>8, <1>9, <1>10, <1>11, <1>12, Calm

LEMMA CrashTogether == ASSUME FilesInv, Crash PROVE Together'
<1>1. \A p \in Requests : call'[p] = Idle BY DEF Crash
<1>2. \A p \in Requests : call'[p].op = None /\ Holds(p)' = {} BY <1>1 DEF Idle, Holds
<1>3. UNCHANGED <<row, index, met>> /\ cut' = cut \cup UNION {Touched(p) : p \in Requests}
  BY DEF Crash, Fault, tables
<1>4. Meeting' BY <1>2 DEF Meeting
<1>5. MadeAlone' BY <1>2, ArrivalsAssumption, AllOps DEF MadeAlone
<1>6. RemoversSee' BY <1>2 DEF RemoversSee
<1>7. Findable'
  <2>1. SUFFICES ASSUME NEW f \in Files, f \notin cut', ~MetWith(f, Removers)', Exists(f)',
                        row'[f].state = "live" \/ \E q \in Requests : Stamping(q, f)'
        PROVE Listed(f)'
    BY DEF Findable
  <2>2. \A q \in Requests : ~Stamping(q, f)' BY <1>2, ArrivalsAssumption, AllOps DEF Stamping, Stamps, Reaches
  <2>3. row[f].state = "live" BY <1>3, <2>1, <2>2
  <2>4. f \notin cut /\ ~MetWith(f, Removers) /\ Exists(f) BY <1>3, <2>1 DEF MetWith, Exists
  <2>5. Listed(f) BY <2>3, <2>4 DEF FilesInv, Together, Findable
  <2>6. ASSUME NEW q \in Requests, Ahead(q, f) PROVE FALSE
    <3>1. call[q].op # None /\ call[q].at # 1 /\ call[q].file = f
      BY <2>6, ArrivalsAssumption, AllOps DEF Ahead, Refreshers, Saves
    <3>2. f \in Holds(q) BY <3>1, InHand DEF FilesInv, Typed, CallsKept
    <3>3. f \in Touched(q) BY <3>1, <3>2 DEF Touched
    <3>4. QED BY <1>3, <2>1, <3>3
  <2>7. QED BY <1>3, <2>5, <2>6 DEF Listed
<1>8. PurgedLeft'
  <2>1. SUFFICES ASSUME NEW f \in Files, row'[f].state = "gone", f \notin cut', ~MetWith(f, {"purge", "empty"})'
        PROVE index'[f] = NoEntry
    BY <1>2 DEF PurgedLeft
  <2>2. f \notin cut /\ ~MetWith(f, {"purge", "empty"}) BY <1>3, <2>1 DEF MetWith
  <2>3. QED BY <1>3, <2>1, <2>2 DEF FilesInv, Together, PurgedLeft
<1>9. ClearedFirst' BY <1>2, ArrivalsAssumption, AllOps DEF ClearedFirst
<1>10. QED BY <1>4, <1>5, <1>6, <1>7, <1>8, <1>9 DEF Together

LEMMA StillTogether ==
  ASSUME FilesInv, UNCHANGED <<row, index, call, met, cut>>
  PROVE  Together'
<1>1. \A q \in Requests : Holds(q)' = Holds(q) BY DEF Holds
<1>2. Meeting' /\ MadeAlone' BY <1>1 DEF FilesInv, Together, Meeting, MadeAlone
<1>3. RemoversSee' BY <1>1 DEF FilesInv, Together, RemoversSee, Removing, MetWith
<1>4. Findable' BY DEF FilesInv, Together, Findable, Listed, Ahead, Stamping, Exists, MetWith
<1>5. PurgedLeft' BY <1>1 DEF FilesInv, Together, PurgedLeft, MetWith
<1>6. ClearedFirst' BY DEF FilesInv, Together, ClearedFirst, MetWith
<1>7. QED BY <1>2, <1>3, <1>4, <1>5, <1>6 DEF Together

LEMMA InitTogether == ASSUME Init PROVE Together
<1>1. \A p \in Requests : call[p].op = None /\ Holds(p) = {} BY DEF Init, Idle, Holds
<1>2. Meeting BY <1>1 DEF Meeting
<1>3. MadeAlone BY <1>1, ArrivalsAssumption, AllOps DEF MadeAlone
<1>4. RemoversSee BY <1>1 DEF RemoversSee
<1>5. Findable
  <2>1. SUFFICES ASSUME NEW f \in Files, row[f].state = "live" \/ \E q \in Requests : Stamping(q, f)
        PROVE index[f] # NoEntry
    BY DEF Findable, Listed
  <2>2. \A q \in Requests : ~Stamping(q, f) BY <1>1, ArrivalsAssumption, AllOps DEF Stamping, Stamps, Reaches
  <2>3. row[f].state = "live" BY <2>1, <2>2
  <2>4. row[f] \in Rows BY ArrivalsAssumption DEF Init
  <2>5. row[f].name \in Names BY <2>3, <2>4 DEF Rows
  <2>6. index[f] = [name |-> row[f].name, tags |-> links[f], text |-> row[f].head] BY <2>3 DEF Init
  <2>7. index[f].name = row[f].name BY <2>6
  <2>8. QED BY <2>5, <2>7, ArrivalsAssumption DEF NoEntry
<1>6. PurgedLeft
  <2>1. \A f \in Files : row[f].state = "gone" => index[f] = NoEntry BY DEF Init
  <2>2. QED BY <1>1, <2>1 DEF PurgedLeft
<1>7. ClearedFirst BY <1>1, ArrivalsAssumption, AllOps DEF ClearedFirst
<1>8. QED BY <1>2, <1>3, <1>4, <1>5, <1>6, <1>7 DEF Together

LEMMA NextFilesInv == ASSUME FilesInv, [Next]_vars PROVE FilesInv'
<1>1. ASSUME UNCHANGED vars PROVE Together'
  <2>1. UNCHANGED <<row, index, call, met, cut>> BY <1>1 DEF vars, tables, history
  <2>2. QED BY <2>1, StillTogether
<1>2. ASSUME NEW p \in Requests, NEW a \in Arrivals, Start(p, a[1], a[2]) PROVE Together'
  <2>1. a[1] \in Ops \ {"empty"} /\ a[2] \in Files BY ArrivalsAssumption
  <2>2. QED BY <1>2, <2>1, StartTogether
<1>3. ASSUME NEW p \in Requests, RowStep(p) PROVE Together'
  BY <1>3, ReadTogether, InsertTogether, ReadBodyTogether, WriteRowTogether, RetitleTogether, ReadActorTogether,
     WriteActorTogether, PurgeTogether, ScanTogether DEF RowStep
<1>4. ASSUME NEW p \in Requests, TagStep(p) PROVE Together'
  BY <1>4, LinkTogether, UnlinkTogether, TagSystemTogether, UntagSystemTogether, TagSourceTogether,
     ReplaceAiTogether DEF TagStep
<1>5. ASSUME NEW p \in Requests, IndexStep(p) PROVE Together'
  BY <1>5, ListTagsTogether, ReadAgainTogether, IndexTogether, UnindexTogether DEF IndexStep
<1>6. ASSUME NEW p \in Requests, StartEmpty(p) \/ Fails(p) \/ IndexBusy(p) PROVE Together'
  BY <1>6, StartEmptyTogether, FailsTogether, IndexBusyTogether
<1>7. ASSUME NEW t \in UserTags, DeleteTag(t) PROVE Together'
  <2>1. UNCHANGED <<row, index, call, met, cut>> BY <1>7 DEF DeleteTag
  <2>2. QED BY <2>1, StillTogether
<1>8. Together' BY <1>1, <1>2, <1>3, <1>4, <1>5, <1>6, <1>7, CrashTogether DEF Next
<1>9. Typed' BY NextTyped DEF FilesInv
<1>10. QED BY <1>8, <1>9 DEF FilesInv

(* Search and the files stay in step: what is live and left alone is found,*)
(* and nothing is left to find of what was purged, unless a removal met    *)
(* another request on the file or a fault hit it (delete_file,             *)
(* restore_file, purge_trash_file and empty_trash against the commits,     *)
(* renames and refreshes that write the index).                            *)
THEOREM LibraryEntriesOfLive == Spec => []EntriesOfLive
<1>1. Init => FilesInv BY InitTyped, InitTogether DEF FilesInv
<1>2. FilesInv /\ [Next]_vars => FilesInv' BY NextFilesInv
<1>3. FilesInv => EntriesOfLive
  <2>1. SUFFICES ASSUME FilesInv PROVE LiveIndexed /\ NoGhostEntry BY DEF EntriesOfLive
  <2>2. LiveIndexed
    <3>1. SUFFICES ASSUME NEW f \in Files, Settled(f), f \notin cut,
                          \A pair \in met[f] : pair \cap Removers = {}
          PROVE index[f] # NoEntry
      BY DEF LiveIndexed
    <3>2. row[f].state = "live" /\ Exists(f) /\ ~MetWith(f, Removers)
      BY <3>1 DEF Settled, Exists, MetWith
    <3>3. Listed(f) BY <2>1, <3>1, <3>2 DEF FilesInv, Together, Findable
    <3>4. ASSUME NEW p \in Requests, Ahead(p, f) PROVE FALSE
      <4>1. call[p].op # None /\ call[p].at # 1 /\ call[p].file = f
        BY <3>4, ArrivalsAssumption, AllOps DEF Ahead, Refreshers, Saves
      <4>2. f \in Holds(p) BY <2>1, <4>1, InHand DEF FilesInv, Typed, CallsKept
      <4>3. QED BY <3>1, <4>2 DEF Settled, Quiet
    <3>5. QED BY <3>3, <3>4 DEF Listed
  <2>3. NoGhostEntry BY <2>1 DEF NoGhostEntry, FilesInv, Together, PurgedLeft, MetWith
  <2>4. QED BY <2>2, <2>3
<1>4. QED BY <1>1, <1>2, <1>3, PTL DEF Spec

(* Only a purge ends a row. *)
LEMMA EndsRow ==
  ASSUME FilesInv, [Next]_vars, NEW f \in Files, row[f].state = "live", row'[f].state = "gone"
  PROVE  \E p \in Requests : Purge(p) /\ f = call[p].file
<1>1. row' # row OBVIOUS
<1>r. row \in [Files -> Rows] BY DEF FilesInv, Typed, Tables
<1>2. ASSUME NEW p \in Requests, Insert(p) PROVE FALSE
  <2>1. PICK r : r = [state |-> "live", name |-> call[p].name, head |-> 0] OBVIOUS
  <2>2. row' = [row EXCEPT ![call[p].file] = r] /\ r.state = "live" BY <1>2, <2>1 DEF Insert
  <2>3. QED BY <1>r, <2>2
<1>3. ASSUME NEW p \in Requests, WriteRow(p) PROVE FALSE
  <2>1. At(p, "row") /\ CallsFit BY <1>3 DEF FilesInv, Typed, CallsKept, WriteRow
  <2>2. Fits(call[p]) /\ call[p].op \in RowWriters \ {"retitle"} /\ call[p].at \in {2, 3, 4}
    BY <2>1, Stands, Places DEF RowWriters, Saves, Namers
  <2>3. call[p].row \in Present BY <2>2 DEF Fits, Knows, RowWriters, Saves, Namers
  <2>4. PICK r \in Present : r = Changed(call[p])
    BY <2>2, <2>3, ChangedKept DEF Fits, FilesInv, Typed, Bounds, Namers
  <2>5. row' = [row EXCEPT ![call[p].file] = r] \/ row' = row BY <1>3, <2>4 DEF WriteRow
  <2>6. r.state # "gone" BY DEF Present
  <2>7. QED BY <1>r, <2>5, <2>6
<1>4. ASSUME NEW p \in Requests, WriteActor(p) PROVE FALSE
  <2>1. At(p, "stamp") /\ CallsFit BY <1>4 DEF FilesInv, Typed, CallsKept, WriteActor
  <2>2. Fits(call[p]) /\ call[p].op \in {"save", "create", "upload"} /\ call[p].at \in {7, 8}
    BY <2>1, Stands, Places
  <2>3. PICK r \in Present : r = call[p].row BY <2>2 DEF Fits, Knows
  <2>4. row' = [row EXCEPT ![call[p].file] = r] \/ row' = row BY <1>4, <2>3 DEF WriteActor
  <2>5. r.state # "gone" BY DEF Present
  <2>6. QED BY <1>r, <2>4, <2>5
<1>5. ASSUME NEW p \in Requests, Purge(p) PROVE f = call[p].file
  <2>1. row' = [row EXCEPT ![call[p].file] = Gone] \/ row' = row BY <1>5 DEF Purge
  <2>2. QED BY <1>r, <2>1
<1>r2. ASSUME NEW p \in Requests, Retitle(p) PROVE FALSE
  <2>1. At(p, "retitle") /\ CallsFit BY <1>r2 DEF FilesInv, Typed, CallsKept, Retitle
  <2>2. Fits(call[p]) /\ call[p].op \in {"retitle", "fold"} /\ call[p].at = 2 BY <2>1, Stands, Places
  <2>3. call[p].row \in Present BY <2>2 DEF Fits, Knows
  <2>4. PICK r : r = [call[p].row EXCEPT !.name = call[p].name,
                                         !.state = IF call[p].op = "fold" THEN "live" ELSE @]
    OBVIOUS
  <2>5. row' = [row EXCEPT ![call[p].file] = r] \/ row' = row BY <1>r2, <2>4 DEF Retitle
  <2>6. r.state # "gone" BY <2>3, <2>4 DEF Present
  <2>7. QED BY <1>r, <2>5, <2>6
<1>6. ASSUME NEW p \in Requests, RowStep(p) PROVE Purge(p)
  BY <1>1, <1>2, <1>3, <1>4, <1>r2, <1>6 DEF RowStep, Read, ReadBody, ReadActor, Scan, tables
<1>7. ASSUME NEW p \in Requests, TagStep(p) \/ IndexStep(p) PROVE FALSE
  BY <1>1, <1>7 DEF TagStep, IndexStep, Link, Unlink, TagSystem, UntagSystem, TagSource, ReplaceAi,
                    ListTags, ReadAgain, Index, Unindex, tables
<1>8. ASSUME NEW p \in Requests, StartEmpty(p) \/ Fails(p) \/ IndexBusy(p) PROVE FALSE
  BY <1>1, <1>8 DEF StartEmpty, Fails, IndexBusy, Fault, tables
<1>9. ASSUME NEW p \in Requests, NEW a \in Arrivals, Start(p, a[1], a[2]) PROVE FALSE
  BY <1>1, <1>9 DEF Start, tables
<1>10. ASSUME NEW t \in UserTags, DeleteTag(t) PROVE FALSE BY <1>1, <1>10 DEF DeleteTag
<1>11. ASSUME Crash PROVE FALSE BY <1>1, <1>11 DEF Crash, Fault, tables
<1>12. row' = row \/ Next BY DEF vars, tables
<1>13. QED BY <1>1, <1>5, <1>6, <1>7, <1>8, <1>9, <1>10, <1>11, <1>12 DEF Next

(* A live file is purged only by a request that met another one on it: the *)
(* look into the trash and the purge are calls apart (purge_trash_file,    *)
(* empty_trash), and a restore may come between them.                      *)
THEOREM LibraryPurgedFromTrash == Spec => PurgedFromTrash
<1>. DEFINE FromTrash == \A f \in Files : row[f].state = "live" /\ row'[f].state = "gone"
              => \E pair \in met[f] : pair \cap {"purge", "empty"} # {}
<1>1. Init => FilesInv BY InitTyped, InitTogether DEF FilesInv
<1>2. FilesInv /\ [Next]_vars => FilesInv' BY NextFilesInv
<1>3. FilesInv /\ [Next]_vars => [FromTrash]_vars
  <2>1. SUFFICES ASSUME FilesInv, [Next]_vars, NEW f \in Files,
                        row[f].state = "live", row'[f].state = "gone"
        PROVE \E pair \in met[f] : pair \cap {"purge", "empty"} # {}
    OBVIOUS
  <2>2. PICK p \in Requests : Purge(p) /\ f = call[p].file BY <2>1, EndsRow
  <2>3. call[p].op \in {"purge", "empty"} /\ call[p].at = 3 /\ f \in Holds(p)
    BY <2>1, <2>2, PurgeMoves DEF FilesInv
  <2>4. MetWith(f, {call[p].op}) BY <2>1, <2>3 DEF FilesInv, Together, RemoversSee, Removing
  <2>5. QED BY <2>3, <2>4 DEF MetWith
<1>4. QED BY <1>1, <1>2, <1>3, PTL DEF Spec, PurgedFromTrash

-----------------------------------------------------------------------------
(* What the requests on a file know of it, and what the tables say of it.  *)
(* A request is right about the name, the head, the tags when it is alone  *)
(* on the file, or when nobody met on it who could have changed them.      *)

On(q, f) == call[q].op \in Ops \ {"empty"} /\ call[q].file = f
Writer(q, f) == On(q, f) /\ call[q].op \in RowWriters
Sole(f) == Apart(f, RowWriters)
Unrenamed(f) == Sole(f) /\ \A pair \in met[f] : pair \cap Namers = {}
OneTagger(f) == Apart(f, Taggers)

(* The calls between a change of a table and the call that brings another  *)
(* one up to it.                                                           *)
Bared(c) == c.op = "rename" /\ c.at = 4
Untagged(c) ==
  \/ c.op = "rename" /\ c.at \in {4, 5}
  \/ c.op = "create" /\ c.at \in {2, 3}
  \/ c.op = "upload" /\ c.at = 3
Unsaid(c) ==
  \/ c.op \in Saves \ {"fold"} /\ c.at \in {3, 4, 5}
  \/ c.op = "fold" /\ c.at \in {5, 6, 7}
  \/ c.op = "create" /\ c.at = 2
Changing(c) ==
  \/ c.op \in {"commit", "save", "upload"} /\ c.at \in {4, 5}
  \/ c.op = "create" /\ c.at \in {2, 3, 4, 5}
  \/ c.op = "fold" /\ c.at \in {6, 7}
  \/ c.op = "rename" /\ c.at \in {5, 6, 7}
  \/ c.op = "restore" /\ c.at \in {4, 5}
  \/ c.op \in {"attach", "detach"} /\ c.at \in {2, 3, 4}
  \/ c.op = "ai" /\ c.at \in {3, 4}
(* With the tags in hand, before the entry is written. *)
Listing(c) ==
  \/ c.op \in Saves \ {"fold"} /\ c.at = 5
  \/ c.op \in {"rename", "fold"} /\ c.at = 7
  \/ c.op = "restore" /\ c.at \in {4, 5}
  \/ c.op \in {"attach", "detach"} /\ c.at \in {3, 4}
  \/ c.op = "ai" /\ c.at = 4
(* With a name that is not in the entry, or no longer known to be missing. *)
Naming(c) ==
  \/ c.op = "rename" /\ c.at \in {4, 5, 6}
  \/ c.op = "create" /\ c.at \in {2, 3, 4}
  \/ c.op = "upload" /\ c.at \in {3, 4}
  \/ c.op = "fold" /\ c.at \in {3, 4, 5, 6}
  \/ Listing(c)

KnowsName(q, f) ==
  On(q, f) /\ Knows(call[q]) /\ (call[q].alone \/ Unrenamed(f) \/ (Writer(q, f) /\ f \notin mixed))
    => call[q].row.name = row[f].name
KnowsHead(q, f) ==
  Writer(q, f) /\ (call[q].alone \/ Sole(f)) =>
    /\ call[q].at >= 2 => call[q].row.head = row[f].head
    /\ call[q].at >= 3 /\ call[q].op \in (Saves \cup {"rename"}) \ {"fold"} => call[q].text = row[f].head
    /\ call[q].at >= 5 /\ call[q].op = "fold" => call[q].text = row[f].head
KnowsTags(q, f) ==
  On(q, f) /\ Listing(call[q]) /\ (call[q].alone \/ OneTagger(f))
    => \A t \in Tags \ unindexed[f] : t \in call[q].tags <=> t \in links[f]
KnowsExt(q, f) ==
  On(q, f) /\ call[q].alone =>
    /\ call[q].op = "rename" /\ call[q].at >= 5 => links[f] \cap ExtTags \subseteq {Ext(row[f].name)}
    /\ call[q].op = "rename" /\ call[q].at >= 6 => Ext(row[f].name) \in links[f]
    /\ call[q].op = "commit" /\ call[q].at >= 4 /\ f \notin mixed => Ext(row[f].name) \in links[f]
KnowsWell(q, f) == KnowsName(q, f) /\ KnowsHead(q, f) /\ KnowsTags(q, f) /\ KnowsExt(q, f)

OneExt(f) ==
  f \notin mixed /\ (\A q \in Requests : ~(On(q, f) /\ Bared(call[q])))
    => links[f] \cap ExtTags \subseteq {Ext(row[f].name)} \cup unfit[f]
HasExt(f) ==
  f \notin mixed /\ f \notin cut /\ (\A q \in Requests : ~(On(q, f) /\ Untagged(call[q])))
    => Ext(row[f].name) \in links[f] \cup unfit[f]
TextFits(f) ==
  Sole(f) /\ (\A q \in Requests : ~(On(q, f) /\ Unsaid(call[q])))
    => index[f].text \in {0, row[f].head}
NameFits(f) ==
  Unrenamed(f) /\ (\A q \in Requests : ~(On(q, f) /\ Naming(call[q])))
    => index[f] = NoEntry \/ index[f].name = row[f].name \/ row[f].name \in unindexed[f]
TagsFit(f) ==
  OneTagger(f) /\ index[f] # NoEntry /\ (\A q \in Requests : ~(On(q, f) /\ Changing(call[q])))
    => \A t \in Tags \ unindexed[f] : t \in index[f].tags <=> t \in links[f]
TablesFit(f) == OneExt(f) /\ HasExt(f) /\ TextFits(f) /\ NameFits(f) /\ TagsFit(f)

(* Who gives a name and met another writer of the row left its mark; a row *)
(* that is not there yet has no system tag.                                *)
Mixes(f) ==
  \A p, q \in Requests : p # q /\ Writer(p, f) /\ Writer(q, f) /\ call[p].op \in Namers => f \in mixed
Bare(f) == row[f].state = "none" => links[f] \cap ExtTags = {}
KeptRight(f) == (\A q \in Requests : KnowsWell(q, f)) /\ TablesFit(f)
Right(f) == Mixes(f) /\ Bare(f) /\ (Exists(f) => KeptRight(f))
(* Only who saves or renames brings a text to the index. *)
TextUnread == \A q \in Requests : call[q].op \notin Saves \cup {"rename"} => call[q].text = 0
EntriesFit == TextUnread /\ \A f \in Files : Right(f)
EntriesInv == FilesInv /\ EntriesFit

(* How a step of p looks to the others on f; what a fault or a meeting     *)
(* leaves behind; changes of links that the index is not told of.          *)
Apace(p, f) ==
  \A q \in Requests \ {p} :
    /\ On(q, f)' <=> On(q, f)
    /\ On(q, f) => /\ call'[q].op = call[q].op /\ call'[q].at = call[q].at /\ call'[q].row = call[q].row
                   /\ call'[q].text = call[q].text /\ call'[q].tags = call[q].tags
                   /\ call'[q].alone => call[q].alone
Ages(f) == (f \in mixed => f \in mixed') /\ (f \in cut => f \in cut') /\ met[f] \subseteq met'[f]
Noted(f) == \A t \in Tags \ unindexed'[f] : t \notin unindexed[f] /\ (t \in links'[f] <=> t \in links[f])

LEMMA OnHolds ==
  ASSUME Typed, NEW q \in Requests, NEW f \in Files, On(q, f)
  PROVE  f \in Holds(q) /\ call[q].op # None /\ call[q] \in Calls /\ Fits(call[q]) /\ Holds(q) = {f}
<1>1. call[q].op # None /\ call[q].op # "empty" BY ArrivalsAssumption DEF On
<1>2. Holds(q) = {call[q].file} BY <1>1, Single
<1>3. QED BY <1>1, <1>2, Busy DEF On, Typed, CallsKept

(* Two on a file know of each other, and it is no longer anybody's alone.  *)
LEMMA Clash ==
  ASSUME FilesInv, NEW p \in Requests, NEW q \in Requests, p # q, NEW f \in Files, On(p, f), On(q, f)
  PROVE  /\ ~call[p].alone /\ ~call[q].alone
         /\ call[p].op \in Namers => ~Unrenamed(f)
         /\ call[p].op \in RowWriters /\ call[q].op \in RowWriters => ~Sole(f) /\ ~Unrenamed(f)
         /\ call[p].op \in Taggers /\ call[q].op \in Taggers => ~OneTagger(f)
<1>1. f \in Holds(p) \cap Holds(q) BY OnHolds DEF FilesInv
<1>2. {call[p].op, call[q].op} \in met[f] /\ ~call[p].alone /\ ~call[q].alone
  BY <1>1 DEF FilesInv, Together, Meeting
<1>3. QED BY <1>2 DEF Unrenamed, Sole, OneTagger, Apart

LEMMA Ageing ==
  ASSUME NEW f \in Files, Ages(f)
  PROVE  /\ Sole(f)' => Sole(f) /\ f \notin cut /\ f \notin cut'
         /\ Unrenamed(f)' => Unrenamed(f) /\ Sole(f)'
         /\ OneTagger(f)' => OneTagger(f) /\ f \notin cut'
         /\ f \notin mixed' => f \notin mixed
         /\ f \notin cut' => f \notin cut
  BY DEF Ages, Sole, Unrenamed, OneTagger, Apart

LEMMA OthersKnow ==
  ASSUME FilesInv, NEW p \in Requests, NEW f \in Files, Mixes(f), \A q \in Requests : KnowsWell(q, f),
         Apace(p, f), Ages(f),
         \/ row'[f].name = row[f].name
         \/ On(p, f) /\ call[p].op \in Namers
         \/ Writer(p, f) /\ Knows(call[p]) /\ row'[f].name = call[p].row.name,
         row'[f].head = row[f].head \/ Writer(p, f),
         Noted(f) \/ (On(p, f) /\ call[p].op \in Taggers),
         links'[f] \cap ExtTags = links[f] \cap ExtTags \/ On(p, f)
  PROVE  \A q \in Requests \ {p} : KnowsWell(q, f)'
<1>1. SUFFICES ASSUME NEW q \in Requests \ {p}, On(q, f)' PROVE KnowsWell(q, f)'
  BY DEF KnowsWell, KnowsName, KnowsHead, KnowsTags, KnowsExt, Writer
<1>2. /\ On(q, f) /\ call'[q].op = call[q].op /\ call'[q].at = call[q].at /\ call'[q].row = call[q].row
      /\ call'[q].text = call[q].text /\ call'[q].tags = call[q].tags
      /\ call'[q].alone => call[q].alone
  BY <1>1 DEF Apace
<1>3. KnowsWell(q, f) OBVIOUS
<1>4. On(p, f) => /\ ~call[p].alone /\ ~call[q].alone
                  /\ call[p].op \in Namers => ~Unrenamed(f)
                  /\ call[p].op \in RowWriters /\ call[q].op \in RowWriters => ~Sole(f) /\ ~Unrenamed(f)
                  /\ call[p].op \in Taggers /\ call[q].op \in Taggers => ~OneTagger(f)
  BY <1>2, Clash
<1>5. /\ Sole(f)' => Sole(f)
      /\ Unrenamed(f)' => Unrenamed(f)
      /\ OneTagger(f)' => OneTagger(f)
      /\ f \notin mixed' => f \notin mixed
  BY Ageing
<1>6. KnowsName(q, f)'
  <2>1. SUFFICES ASSUME Knows(call'[q]), call'[q].alone \/ Unrenamed(f)' \/ (Writer(q, f)' /\ f \notin mixed')
        PROVE call'[q].row.name = row'[f].name
    BY DEF KnowsName, Knows
  <2>2. Knows(call[q]) /\ (call[q].alone \/ Unrenamed(f) \/ (Writer(q, f) /\ f \notin mixed))
    BY <1>2, <1>5, <2>1 DEF Knows, Writer
  <2>3. call[q].row.name = row[f].name BY <1>2, <1>3, <2>2 DEF KnowsWell, KnowsName
  <2>4. CASE row'[f].name = row[f].name BY <1>2, <2>3, <2>4
  <2>5. CASE On(p, f) /\ call[p].op \in Namers
    <3>1. Writer(p, f) BY <2>5 DEF Writer, RowWriters
    <3>2. Writer(q, f) /\ f \notin mixed BY <1>4, <2>2, <2>5
    <3>3. QED BY <2>5, <3>1, <3>2 DEF Mixes
  <2>6. CASE Writer(p, f) /\ Knows(call[p]) /\ row'[f].name = call[p].row.name
    <3>1. On(p, f) BY <2>6 DEF Writer
    <3>2. Unrenamed(f) \/ f \notin mixed BY <1>4, <2>2, <3>1
    <3>3. call[p].row.name = row[f].name BY <2>6, <3>1, <3>2 DEF KnowsWell, KnowsName
    <3>4. QED BY <1>2, <2>3, <2>6, <3>3
  <2>7. QED BY <2>4, <2>5, <2>6
<1>7. KnowsHead(q, f)'
  <2>1. SUFFICES ASSUME Writer(q, f)', call'[q].alone \/ Sole(f)'
        PROVE /\ call'[q].at >= 2 => call'[q].row.head = row'[f].head
              /\ call'[q].at >= 3 /\ call'[q].op \in (Saves \cup {"rename"}) \ {"fold"} => call'[q].text = row'[f].head
              /\ call'[q].at >= 5 /\ call'[q].op = "fold" => call'[q].text = row'[f].head
    BY DEF KnowsHead
  <2>2. Writer(q, f) /\ (call[q].alone \/ Sole(f)) BY <1>2, <1>5, <2>1 DEF Writer
  <2>3. ~Writer(p, f) BY <1>4, <2>2 DEF Writer
  <2>4. QED BY <1>2, <1>3, <2>2, <2>3 DEF KnowsWell, KnowsHead
<1>8. KnowsTags(q, f)'
  <2>1. SUFFICES ASSUME Listing(call'[q]), call'[q].alone \/ OneTagger(f)'
        PROVE \A t \in Tags \ unindexed'[f] : t \in call'[q].tags <=> t \in links'[f]
    BY DEF KnowsTags, Listing
  <2>2. Listing(call[q]) /\ (call[q].alone \/ OneTagger(f)) BY <1>2, <1>5, <2>1 DEF Listing
  <2>3. call[q].op \in Taggers BY <2>2 DEF Listing, Taggers, Refreshers, Saves
  <2>4. Noted(f) BY <1>4, <2>2, <2>3
  <2>5. \A t \in Tags \ unindexed[f] : t \in call[q].tags <=> t \in links[f]
    BY <1>2, <1>3, <2>2 DEF KnowsWell, KnowsTags
  <2>6. QED BY <1>2, <2>4, <2>5 DEF Noted
<1>9. KnowsExt(q, f)'
  <2>1. SUFFICES ASSUME call'[q].alone
        PROVE /\ call'[q].op = "rename" /\ call'[q].at >= 5 => links'[f] \cap ExtTags \subseteq {Ext(row'[f].name)}
              /\ call'[q].op = "rename" /\ call'[q].at >= 6 => Ext(row'[f].name) \in links'[f]
              /\ call'[q].op = "commit" /\ call'[q].at >= 4 /\ f \notin mixed' => Ext(row'[f].name) \in links'[f]
    BY DEF KnowsExt
  <2>2. ~On(p, f) BY <1>2, <1>4, <2>1
  <2>3. row'[f].name = row[f].name /\ links'[f] \cap ExtTags = links[f] \cap ExtTags
    BY <2>2 DEF Writer
  <2>4. KnowsExt(q, f) BY <1>3 DEF KnowsWell
  <2>5. \A e \in ExtTags : e \in links'[f] <=> e \in links[f] BY <2>3
  <2>6. Knows(call[q]) => Ext(row[f].name) \in ExtTags
    <3>1. SUFFICES ASSUME Knows(call[q]) PROVE row[f].name \in Names BY DEF ExtTags
    <3>2. call[q].row.name = row[f].name BY <1>2, <1>3, <2>1, <3>1 DEF KnowsWell, KnowsName
    <3>3. call[q].row \in Present BY <1>2, <3>1, OnHolds DEF FilesInv, Fits
    <3>4. QED BY <3>2, <3>3, PresentIsRow
  <2>7. (call[q].op \in {"rename", "commit"} /\ call[q].at >= 2) => Knows(call[q]) BY DEF Knows
  <2>8. call[q].at \in 1..8 BY <1>2, OnHolds DEF FilesInv, Calls
  <2>9. QED BY <1>2, <1>5, <2>1, <2>3, <2>4, <2>5, <2>6, <2>7, <2>8 DEF KnowsExt
<1>10. QED BY <1>6, <1>7, <1>8, <1>9 DEF KnowsWell

(* What a step of p leaves right of the tables, given the others.          *)
TablesMove(p, f) ==
  /\ f \notin mixed' /\ ~(On(p, f)' /\ Bared(call'[p])) =>
       \/ links'[f] \cap ExtTags \subseteq {Ext(row'[f].name)} \cup unfit'[f]
       \/ /\ {Ext(row[f].name)} \cup unfit[f] \subseteq {Ext(row'[f].name)} \cup unfit'[f]
          /\ ~(On(p, f) /\ Bared(call[p]))
          /\ links'[f] \cap ExtTags \subseteq (links[f] \cap ExtTags) \cup {Ext(row'[f].name)} \cup unfit'[f]
  /\ f \notin mixed' /\ f \notin cut' /\ ~(On(p, f)' /\ Untagged(call'[p])) =>
       \/ Ext(row'[f].name) \in links'[f] \cup unfit'[f]
       \/ /\ row'[f].name = row[f].name /\ ~(On(p, f) /\ Untagged(call[p]))
          /\ Ext(row[f].name) \in links[f] \cup unfit[f] => Ext(row[f].name) \in links'[f] \cup unfit'[f]
  /\ Sole(f)' /\ ~(On(p, f)' /\ Unsaid(call'[p])) =>
       \/ index'[f].text \in {0, row'[f].head}
       \/ /\ row'[f].head = row[f].head /\ ~(On(p, f) /\ Unsaid(call[p]))
          /\ index'[f] = index[f]
  /\ Unrenamed(f)' /\ ~(On(p, f)' /\ Naming(call'[p])) =>
       \/ index'[f] = NoEntry \/ index'[f].name = row'[f].name \/ row'[f].name \in unindexed'[f]
       \/ /\ row'[f].name = row[f].name /\ ~(On(p, f) /\ Naming(call[p]))
          /\ index'[f] = index[f] /\ (row[f].name \in unindexed[f] => row[f].name \in unindexed'[f])
  /\ OneTagger(f)' /\ index'[f] # NoEntry /\ ~(On(p, f)' /\ Changing(call'[p])) =>
       \/ \A t \in Tags \ unindexed'[f] : t \in index'[f].tags <=> t \in links'[f]
       \/ Noted(f) /\ ~(On(p, f) /\ Changing(call[p])) /\ index'[f] = index[f]

LEMMA TablesKept ==
  ASSUME NEW p \in Requests, NEW f \in Files, TablesFit(f), Apace(p, f), Ages(f), TablesMove(p, f)
  PROVE  TablesFit(f)'
<1>1. /\ Sole(f)' => Sole(f)
      /\ Unrenamed(f)' => Unrenamed(f)
      /\ OneTagger(f)' => OneTagger(f)
      /\ f \notin mixed' => f \notin mixed
      /\ f \notin cut' => f \notin cut
  BY Ageing
<1>2. ASSUME NEW q \in Requests \ {p}, On(q, f)
      PROVE  On(q, f)' /\ call'[q].op = call[q].op /\ call'[q].at = call[q].at
  BY <1>2 DEF Apace
<1>3. OneExt(f)'
  <2>1. SUFFICES ASSUME f \notin mixed', \A q \in Requests : ~(On(q, f)' /\ Bared(call'[q]))
        PROVE links'[f] \cap ExtTags \subseteq {Ext(row'[f].name)} \cup unfit'[f]
    BY DEF OneExt, Bared
  <2>2. \A q \in Requests \ {p} : ~(On(q, f) /\ Bared(call[q])) BY <1>2, <2>1 DEF Bared
  <2>3. ~(On(p, f) /\ Bared(call[p])) => links[f] \cap ExtTags \subseteq {Ext(row[f].name)} \cup unfit[f]
    BY <1>1, <2>1, <2>2 DEF TablesFit, OneExt
  <2>4. QED BY <2>1, <2>3 DEF TablesMove
<1>4. HasExt(f)'
  <2>1. SUFFICES ASSUME f \notin mixed', f \notin cut', \A q \in Requests : ~(On(q, f)' /\ Untagged(call'[q]))
        PROVE Ext(row'[f].name) \in links'[f] \cup unfit'[f]
    BY DEF HasExt, Untagged
  <2>2. \A q \in Requests \ {p} : ~(On(q, f) /\ Untagged(call[q])) BY <1>2, <2>1 DEF Untagged
  <2>3. ~(On(p, f) /\ Untagged(call[p])) => Ext(row[f].name) \in links[f] \cup unfit[f]
    BY <1>1, <2>1, <2>2 DEF TablesFit, HasExt
  <2>4. QED BY <2>1, <2>3 DEF TablesMove
<1>5. TextFits(f)'
  <2>1. SUFFICES ASSUME Sole(f)', \A q \in Requests : ~(On(q, f)' /\ Unsaid(call'[q]))
        PROVE index'[f].text \in {0, row'[f].head}
    BY DEF TextFits, Unsaid
  <2>2. \A q \in Requests \ {p} : ~(On(q, f) /\ Unsaid(call[q])) BY <1>2, <2>1 DEF Unsaid
  <2>3. ~(On(p, f) /\ Unsaid(call[p])) => index[f].text \in {0, row[f].head}
    BY <1>1, <2>1, <2>2 DEF TablesFit, TextFits
  <2>4. QED BY <2>1, <2>3 DEF TablesMove
<1>6. NameFits(f)'
  <2>1. SUFFICES ASSUME Unrenamed(f)', \A q \in Requests : ~(On(q, f)' /\ Naming(call'[q]))
        PROVE index'[f] = NoEntry \/ index'[f].name = row'[f].name \/ row'[f].name \in unindexed'[f]
    BY DEF NameFits, Naming, Listing
  <2>2. \A q \in Requests \ {p} : ~(On(q, f) /\ Naming(call[q])) BY <1>2, <2>1 DEF Naming, Listing
  <2>3. ~(On(p, f) /\ Naming(call[p]))
          => index[f] = NoEntry \/ index[f].name = row[f].name \/ row[f].name \in unindexed[f]
    BY <1>1, <2>1, <2>2 DEF TablesFit, NameFits
  <2>4. QED BY <2>1, <2>3 DEF TablesMove
<1>7. TagsFit(f)'
  <2>1. SUFFICES ASSUME OneTagger(f)', index'[f] # NoEntry, \A q \in Requests : ~(On(q, f)' /\ Changing(call'[q]))
        PROVE \A t \in Tags \ unindexed'[f] : t \in index'[f].tags <=> t \in links'[f]
    BY DEF TagsFit, Changing
  <2>2. \A q \in Requests \ {p} : ~(On(q, f) /\ Changing(call[q])) BY <1>2, <2>1 DEF Changing
  <2>3. ~(On(p, f) /\ Changing(call[p])) /\ index[f] # NoEntry
          => \A t \in Tags \ unindexed[f] : t \in index[f].tags <=> t \in links[f]
    BY <1>1, <2>1, <2>2 DEF TablesFit, TagsFit
  <2>4. CASE \A t \in Tags \ unindexed'[f] : t \in index'[f].tags <=> t \in links'[f] BY <2>4
  <2>5. CASE Noted(f) /\ ~(On(p, f) /\ Changing(call[p])) /\ index'[f] = index[f]
    BY <2>1, <2>3, <2>5 DEF Noted
  <2>6. QED BY <2>1, <2>4, <2>5 DEF TablesMove
<1>8. QED BY <1>3, <1>4, <1>5, <1>6, <1>7 DEF TablesFit

LEMMA MixesKept ==
  ASSUME NEW p \in Requests, NEW f \in Files, Mixes(f), Apace(p, f), Ages(f),
         \/ Writer(p, f)' => Writer(p, f) /\ call'[p].op = call[p].op
         \/ \A q \in Requests \ {p} :
              Writer(q, f) /\ (call'[p].op \in Namers \/ call[q].op \in Namers) => f \in mixed'
  PROVE  Mixes(f)'
<1>1. SUFFICES ASSUME NEW a \in Requests, NEW b \in Requests, a # b, Writer(a, f)', Writer(b, f)', call'[a].op \in Namers
      PROVE f \in mixed'
  BY DEF Mixes
<1>2. \A q \in Requests \ {p} : Writer(q, f)' => Writer(q, f) /\ call'[q].op = call[q].op
  BY DEF Apace, Writer
<1>3. CASE a # p /\ b # p
  <2>1. Writer(a, f) /\ Writer(b, f) /\ call[a].op \in Namers BY <1>1, <1>2, <1>3
  <2>2. QED BY <1>1, <2>1 DEF Mixes, Ages
<1>4. CASE Writer(p, f)' => Writer(p, f) /\ call'[p].op = call[p].op
  <2>1. Writer(a, f) /\ Writer(b, f) /\ call[a].op \in Namers BY <1>1, <1>2, <1>4
  <2>2. QED BY <1>1, <2>1 DEF Mixes, Ages
<1>5. CASE /\ a = p \/ b = p
           /\ \A q \in Requests \ {p} :
                Writer(q, f) /\ (call'[p].op \in Namers \/ call[q].op \in Namers) => f \in mixed'
  BY <1>1, <1>2, <1>5
<1>6. QED BY <1>3, <1>4, <1>5

(* The facts a step of p changes, as far as the others may rely on them.   *)
FactsMove(p, f) ==
  /\ \/ row'[f].name = row[f].name
     \/ On(p, f) /\ call[p].op \in Namers
     \/ Writer(p, f) /\ Knows(call[p]) /\ row'[f].name = call[p].row.name
  /\ row'[f].head = row[f].head \/ Writer(p, f)
  /\ Noted(f) \/ (On(p, f) /\ call[p].op \in Taggers)
  /\ links'[f] \cap ExtTags = links[f] \cap ExtTags \/ On(p, f)

LEMMA Carried ==
  ASSUME FilesInv, NEW p \in Requests, NEW f \in Files, Right(f), Mixes(f)', Bare(f)', Apace(p, f), Ages(f),
         Exists(f)' => Exists(f) /\ FactsMove(p, f) /\ KnowsWell(p, f)' /\ TablesMove(p, f)
  PROVE  Right(f)'
<1>1. SUFFICES ASSUME Exists(f)' PROVE KeptRight(f)' BY DEF Right
<1>2. Exists(f) /\ FactsMove(p, f) /\ KnowsWell(p, f)' /\ TablesMove(p, f) BY <1>1
<1>3. Mixes(f) /\ (\A q \in Requests : KnowsWell(q, f)) /\ TablesFit(f) BY <1>2 DEF Right, KeptRight
<1>4. TablesFit(f)' BY <1>2, <1>3, TablesKept
<1>5. \A q \in Requests \ {p} : KnowsWell(q, f)' BY <1>2, <1>3, OthersKnow DEF FactsMove
<1>6. \A q \in Requests : KnowsWell(q, f)' BY <1>2, <1>5
<1>7. QED BY <1>4, <1>6 DEF KeptRight

(* A step that touches no table where f is concerned.                      *)
SameTables(f) ==
  /\ row'[f] = row[f] /\ links'[f] = links[f] /\ index'[f] = index[f]
  /\ unindexed'[f] = unindexed[f] /\ unfit'[f] = unfit[f]

LEMMA Aside ==
  ASSUME FilesInv, NEW p \in Requests, NEW f \in Files, Right(f), Mixes(f)', Apace(p, f), Ages(f), SameTables(f),
         Exists(f) => KnowsWell(p, f)',
         Exists(f) /\ On(p, f) =>
           /\ Bared(call[p]) => f \in mixed' \/ (On(p, f)' /\ Bared(call'[p]))
           /\ Untagged(call[p]) => f \in mixed' \/ f \in cut' \/ (On(p, f)' /\ Untagged(call'[p]))
           /\ Unsaid(call[p]) => f \in cut' \/ (On(p, f)' /\ Unsaid(call'[p]))
           /\ Naming(call[p]) => f \in cut' \/ (On(p, f)' /\ Naming(call'[p]))
           /\ Changing(call[p]) => f \in cut' \/ (On(p, f)' /\ Changing(call'[p]))
  PROVE  Right(f)'
<1>1. Bare(f)' BY DEF Right, Bare, SameTables
<1>2. Exists(f)' => Exists(f) BY DEF Exists, SameTables
<1>3. Noted(f) BY DEF Noted, SameTables
<1>4. FactsMove(p, f) BY <1>3 DEF FactsMove, SameTables
<1>5. /\ Sole(f)' => f \notin cut'
      /\ Unrenamed(f)' => f \notin cut'
      /\ OneTagger(f)' => f \notin cut'
  BY Ageing
<1>6. Exists(f) => TablesMove(p, f)
  BY <1>3, <1>5 DEF TablesMove, SameTables
<1>7. QED BY <1>1, <1>2, <1>4, <1>6, Carried

LEMMA Alongside ==
  ASSUME NEW p \in Requests, OthersStay(p), NEW f
  PROVE  Apace(p, f)
  BY DEF OthersStay, Apace, On

LEMMA OffHand ==
  ASSUME NEW p \in Requests, NEW f \in Files,
         (Onward(p) /\ ~On(p, f)) \/ call'[p] = Idle
  PROVE  ~On(p, f)' /\ KnowsWell(p, f)'
<1>1. ~On(p, f)'
  <2>1. Idle.op \notin Ops BY ArrivalsAssumption DEF Idle
  <2>2. QED BY <2>1 DEF On, Onward
<1>2. QED BY <1>1 DEF KnowsWell, KnowsName, KnowsHead, KnowsTags, KnowsExt, Writer

LEMMA OwnMixes ==
  ASSUME NEW p \in Requests, OthersStay(p), Onward(p) \/ call'[p] = Idle, NEW f \in Files, Mixes(f), Ages(f)
  PROVE  Mixes(f)' /\ Apace(p, f)
<1>1. Apace(p, f) BY Alongside
<1>2. Writer(p, f)' => Writer(p, f) /\ call'[p].op = call[p].op
  BY OffHand DEF Onward, Writer, On
<1>3. QED BY <1>1, <1>2, MixesKept

LEMMA Elsewhere ==
  ASSUME EntriesInv, NEW p \in Requests, OthersStay(p), Onward(p) \/ call'[p] = Idle,
         NEW f \in Files, f # call[p].file, SameTables(f), Ages(f)
  PROVE  Right(f)'
<1>1. ~On(p, f) BY DEF On
<1>2. ~On(p, f)' /\ KnowsWell(p, f)' BY <1>1, OffHand
<1>3. Right(f) /\ FilesInv BY DEF EntriesInv, EntriesFit
<1>4. Mixes(f)' /\ Apace(p, f) BY <1>3, OwnMixes DEF Right
<1>5. QED BY <1>1, <1>2, <1>3, <1>4, Aside

LEMMA Finished ==
  ASSUME EntriesInv, NEW p \in Requests, OthersStay(p), Onward(p) \/ call'[p] = Idle,
         \A f \in Files : f # call[p].file => SameTables(f) /\ Ages(f),
         Onward(p) => call'[p].text = call[p].text \/ call[p].op \in Saves \cup {"rename"},
         \A f \in Files : f = call[p].file => Right(f)'
  PROVE  EntriesFit'
<1>1. \A f \in Files : Right(f)' BY Elsewhere
<1>2. TextUnread'
  <2>1. SUFFICES ASSUME NEW q \in Requests, call'[q].op \notin Saves \cup {"rename"} PROVE call'[q].text = 0
    BY DEF TextUnread
  <2>2. call[q].op \notin Saves \cup {"rename"} => call[q].text = 0 BY DEF EntriesInv, EntriesFit, TextUnread
  <2>3. CASE q # p BY <2>1, <2>2, <2>3 DEF OthersStay
  <2>4. CASE q = p /\ Onward(p) BY <2>1, <2>2, <2>4 DEF Onward
  <2>5. CASE call'[q] = Idle BY <2>5 DEF Idle
  <2>6. QED BY <2>3, <2>4, <2>5
<1>3. QED BY <1>1, <1>2 DEF EntriesFit

(* What the end of a call leaves in the request.                           *)
LEMMA GoesCall ==
  ASSUME Typed, NEW p \in Requests, call[p].op # None,
         NEW c \in Calls, Same(c, call[p]), Goes(p, c)
  PROVE  /\ OthersStay(p)
         /\ \/ /\ Onward(p) /\ call'[p].row = c.row /\ call'[p].text = c.text /\ call'[p].tags = c.tags
               /\ call[p].at < Len(Steps[call[p].op]) /\ UNCHANGED <<met, mixed, cut>>
            \/ call'[p] = Idle /\ call[p].at = Len(Steps[call[p].op]) /\ Ends(p)
<1>1. CASE call[p].at = Len(Steps[call[p].op]) /\ Ends(p)
  BY <1>1 DEF Ends, Typed, CallsKept, OthersStay
<1>2. CASE /\ call[p].at < Len(Steps[call[p].op])
           /\ call' = [call EXCEPT ![p] = [c EXCEPT !.at = c.at + 1]] /\ UNCHANGED <<met, mixed, cut>>
  <2>1. PICK d \in {[c EXCEPT !.at = c.at + 1]} : d = [c EXCEPT !.at = c.at + 1]
    OBVIOUS
  <2>2. /\ d.op = call[p].op /\ d.file = call[p].file /\ d.todo = call[p].todo /\ d.at = call[p].at + 1
        /\ d.alone = call[p].alone /\ d.row = c.row /\ d.text = c.text /\ d.tags = c.tags
    BY <2>1 DEF Same, Calls
  <2>3. call'[p] = d /\ OthersStay(p) BY <1>2, <2>1 DEF Typed, CallsKept, OthersStay
  <2>4. QED BY <1>2, <2>2, <2>3 DEF Onward
<1>3. QED BY <1>1, <1>2 DEF Goes

LEMMA StopCall ==
  ASSUME Typed, NEW p \in Requests, Stop(p)
  PROVE  OthersStay(p) /\ call'[p] = Idle /\ UNCHANGED <<met, mixed, cut>>
  BY DEF Stop, Typed, CallsKept, OthersStay

LEMMA NoChange ==
  ASSUME UNCHANGED <<met, mixed, cut>>, NEW f PROVE Ages(f)
  BY DEF Ages

LEMMA NothingMended ==
  ASSUME Typed, NEW p \in Requests, Ends(p), ~Mended(p) PROVE UNCHANGED <<met, mixed, cut>>
  BY DEF Ends, Typed, Marks

(* The calls that only look: at the row, or at the text.                   *)
LEMMA Looks ==
  ASSUME EntriesInv, NEW p \in Requests, NEW step, At(p, step), step \in {"read", "body", "again", "actor"},
         OthersStay(p), UNCHANGED <<row, links, index, unindexed, unfit, met, mixed, cut>>,
         NEW f \in Files, f = call[p].file,
         \/ /\ Onward(p) /\ call'[p].tags = call[p].tags
            /\ step = "body" => call'[p].row = call[p].row /\ call'[p].text = row[f].head
            /\ step # "body" => call'[p].row = row[f] /\ call'[p].text = call[p].text
         \/ call'[p] = Idle /\ ((step = "read" /\ call[p].at = 1) \/ ~Exists(f))
  PROVE  EntriesFit'
<1>0. Right(f) /\ FilesInv /\ Typed /\ CallsFit
  BY DEF EntriesInv, EntriesFit, FilesInv, Typed, CallsKept
<1>1. /\ step = "read" => call[p].at = 1 \/ (call[p].op = "fold" /\ call[p].at = 3)
      /\ step = "body" => call[p].op = "rename" /\ call[p].at = 2
      /\ step = "again" => (call[p].op = "restore" /\ call[p].at = 4) \/ (call[p].op \in {"attach", "detach"} /\ call[p].at = 3)
      /\ step = "actor" => (call[p].op \in {"save", "upload"} /\ call[p].at = 6) \/ (call[p].op = "create" /\ call[p].at = 7)
      /\ call[p].at \in 1..8
  BY <1>0, Stands, Places
<1>2. \A g : Ages(g) BY NoChange
<1>3. \A g : SameTables(g) BY DEF SameTables
<1>4. Mixes(f)' /\ Apace(p, f) BY <1>0, <1>2, OwnMixes DEF Right
<1>5. /\ Sole(f)' <=> Sole(f)
      /\ Unrenamed(f)' <=> Unrenamed(f)
      /\ OneTagger(f)' <=> OneTagger(f)
  BY DEF Sole, Unrenamed, OneTagger, Apart
<1>6. Exists(f) => KnowsWell(p, f)'
  <2>1. SUFFICES ASSUME Exists(f), Onward(p) PROVE KnowsWell(p, f)' BY OffHand
  <2>2. /\ call'[p].op = call[p].op /\ call'[p].file = call[p].file /\ call'[p].at = call[p].at + 1
        /\ call'[p].alone = call[p].alone
    BY <2>1 DEF Onward
  <2>3. call'[p] # Idle
    <3>1. Idle.op = None BY DEF Idle
    <3>2. call[p].op # None BY DEF At
    <3>3. QED BY <2>2, <3>1, <3>2
  <2>4. On(p, f)' <=> On(p, f) BY <2>2 DEF On
  <2>5. KnowsWell(p, f) BY <1>0, <2>1 DEF Right, KeptRight
  <2>6. KnowsName(p, f)'
    <3>1. CASE step = "body"
      BY <1>1, <1>5, <2>2, <2>3, <2>4, <2>5, <3>1 DEF KnowsWell, KnowsName, Knows, Writer
    <3>2. CASE step # "body"
      BY <2>3, <3>2 DEF KnowsName
    <3>3. QED BY <3>1, <3>2
  <2>7. KnowsHead(p, f)'
    <3>1. CASE step = "body"
      BY <1>1, <1>5, <2>2, <2>3, <2>4, <2>5, <3>1 DEF KnowsWell, KnowsHead, Writer
    <3>2. CASE step # "body"
      BY <1>1, <1>5, <2>2, <2>3, <2>4, <2>5, <3>2 DEF KnowsWell, KnowsHead, Writer, Saves
    <3>3. QED BY <3>1, <3>2
  <2>8. KnowsTags(p, f)'
    <3>1. Listing(call'[p]) => Listing(call[p]) BY <1>1, <2>2 DEF Listing, Saves
    <3>2. QED BY <1>5, <2>2, <2>3, <2>4, <2>5, <3>1 DEF KnowsWell, KnowsTags
  <2>9. KnowsExt(p, f)'
    BY <1>1, <2>2, <2>4, <2>5 DEF KnowsWell, KnowsExt
  <2>10. QED BY <2>6, <2>7, <2>8, <2>9 DEF KnowsWell
<1>7. ASSUME Exists(f), On(p, f)
      PROVE  /\ ~Bared(call[p]) /\ ~Untagged(call[p]) /\ ~Unsaid(call[p])
             /\ Naming(call[p]) => On(p, f)' /\ Naming(call'[p])
             /\ Changing(call[p]) => On(p, f)' /\ Changing(call'[p])
  <2>1. ~Bared(call[p]) /\ ~Untagged(call[p]) /\ ~Unsaid(call[p])
    BY <1>1 DEF Bared, Untagged, Unsaid, Saves
  <2>2. CASE step = "again" \/ (step = "read" /\ call[p].at = 3)
    <3>1. Onward(p) BY <1>7, <2>2
    <3>2. On(p, f)' BY <1>7, <3>1 DEF On, Onward
    <3>3. call'[p].op = call[p].op /\ call'[p].at = call[p].at + 1 BY <3>1 DEF Onward
    <3>4. Changing(call[p]) => Changing(call'[p]) BY <1>1, <2>2, <3>3 DEF Changing
    <3>5. Naming(call'[p]) BY <1>1, <2>2, <3>3 DEF Naming, Listing
    <3>6. QED BY <2>1, <3>2, <3>4, <3>5
  <2>3. CASE step # "again" /\ ~(step = "read" /\ call[p].at = 3)
    BY <1>1, <2>1, <2>3 DEF Changing, Naming, Listing, Saves
  <2>4. QED BY <2>2, <2>3
<1>8. Right(f)' BY <1>0, <1>2, <1>3, <1>4, <1>6, <1>7, Aside
<1>9. Onward(p) => call'[p].text = call[p].text \/ call[p].op \in Saves \cup {"rename"}
  <2>1. SUFFICES ASSUME Onward(p) PROVE call'[p].text = call[p].text \/ call[p].op = "rename" OBVIOUS
  <2>2. call'[p].op # None BY <2>1 DEF At, Onward
  <2>3. call'[p] # Idle BY <2>2 DEF Idle
  <2>4. QED BY <1>1, <2>3
<1>10. Onward(p) \/ call'[p] = Idle OBVIOUS
<1>11. QED BY <1>2, <1>3, <1>8, <1>9, <1>10, Finished

LEMMA ReadRight == ASSUME EntriesInv, NEW p \in Requests, Read(p) PROVE EntriesFit'
<1>0. Typed /\ CallsFit /\ At(p, "read") BY DEF EntriesInv, FilesInv, Typed, CallsKept, Read
<1>1. call[p].op \in Ops \ {"empty"} /\ call[p].op # None /\ call[p] \in Calls
  BY <1>0, Stands, Places
<1>2. PICK f \in Files : f = call[p].file BY <1>0, <1>1, Busy
<1>3. ~Mended(p) BY <1>0, NotLast
<1>4. CASE Accepts(call[p], row[f]) /\ Goes(p, [call[p] EXCEPT !.row = row[f]])
  <2>1. row[f] \in Rows BY <1>0 DEF Typed, Tables
  <2>2. PICK d \in Calls : d = [call[p] EXCEPT !.row = row[f]] BY <1>1, <2>1 DEF Calls
  <2>3. Same(d, call[p]) /\ d.row = row[f] /\ d.text = call[p].text /\ d.tags = call[p].tags
    BY <1>1, <2>2 DEF Same, Calls
  <2>4. /\ OthersStay(p)
        /\ \/ /\ Onward(p) /\ call'[p].row = d.row /\ call'[p].text = d.text /\ call'[p].tags = d.tags
              /\ UNCHANGED <<met, mixed, cut>>
           \/ call'[p] = Idle /\ Ends(p) /\ call[p].at = Len(Steps[call[p].op])
    BY <1>0, <1>1, <1>4, <2>2, <2>3, GoesCall
  <2>5. UNCHANGED <<met, mixed, cut>> BY <1>0, <1>3, <2>4, NothingMended
  <2>6. call[p].at = 1 \/ (call[p].op = "fold" /\ call[p].at = 3) BY <1>0, Stands, Places
  <2>7. call[p].at = Len(Steps[call[p].op]) => call[p].at = 1
    <3>1. CASE call[p].op = "fold" /\ call[p].at = 3
      <4>1. Len(Steps[call[p].op]) = 7 BY <3>1, Lengths
      <4>2. QED BY <3>1, <4>1
    <3>2. QED BY <2>6, <3>1
  <2>8. QED BY <1>0, <1>2, <2>3, <2>4, <2>5, <2>7, Looks DEF Read, tables
<1>5. CASE ~Accepts(call[p], row[f]) /\ Stop(p)
  <2>1. call[p].at = 1 \/ (call[p].op = "fold" /\ call[p].at = 3) BY <1>0, Stands, Places
  <2>2. call[p].at = 1 \/ ~Exists(f) BY <1>5, <2>1 DEF Accepts, Exists
  <2>3. QED BY <1>0, <1>2, <1>5, <2>2, StopCall, Looks DEF Read, tables
<1>6. QED BY <1>2, <1>4, <1>5 DEF Read

LEMMA ReadBodyRight == ASSUME EntriesInv, NEW p \in Requests, ReadBody(p) PROVE EntriesFit'
<1>0. Typed /\ CallsFit /\ At(p, "body") BY DEF EntriesInv, FilesInv, Typed, CallsKept, ReadBody
<1>1. call[p].op = "rename" /\ call[p].op \in Ops /\ call[p].op # None /\ call[p] \in Calls
  BY <1>0, Stands, Places
<1>2. PICK f \in Files : f = call[p].file BY <1>0, <1>1, Busy
<1>3. call[p].at # Len(Steps[call[p].op]) BY <1>0, NotAtEnd
<1>4. row[f].head \in Nat BY <1>0 DEF Typed, Tables, Rows
<1>5. PICK d \in Calls : d = [call[p] EXCEPT !.text = row[f].head] BY <1>1, <1>4 DEF Calls
<1>6. Same(d, call[p]) /\ d.row = call[p].row /\ d.text = row[f].head /\ d.tags = call[p].tags
  BY <1>1, <1>5 DEF Same, Calls
<1>7. Goes(p, d) BY <1>2, <1>5 DEF ReadBody
<1>8. /\ OthersStay(p) /\ Onward(p) /\ call'[p].row = d.row /\ call'[p].text = d.text /\ call'[p].tags = d.tags
      /\ UNCHANGED <<met, mixed, cut>>
  BY <1>0, <1>1, <1>3, <1>6, <1>7, GoesCall
<1>9. QED BY <1>0, <1>2, <1>6, <1>8, Looks DEF ReadBody, tables

LEMMA ReadAnewRight ==
  ASSUME EntriesInv, NEW p \in Requests, ReadAgain(p) \/ ReadActor(p)
  PROVE  EntriesFit'
<1>0. PICK step \in {"again", "actor"} : At(p, step) BY DEF ReadAgain, ReadActor
<1>1. Typed /\ CallsFit BY DEF EntriesInv, FilesInv, Typed, CallsKept
<1>2. call[p].op \in Ops \ {"empty"} /\ call[p].op # None /\ call[p] \in Calls
  BY <1>0, <1>1, Stands, Places
<1>3. PICK f \in Files : f = call[p].file BY <1>1, <1>2, Busy
<1>4. call[p].at # Len(Steps[call[p].op]) BY <1>0, <1>1, NotAtEnd
<1>5. CASE Exists(f) /\ Goes(p, [call[p] EXCEPT !.row = row[f]])
  <2>1. row[f] \in Rows BY <1>1 DEF Typed, Tables
  <2>2. PICK d \in Calls : d = [call[p] EXCEPT !.row = row[f]] BY <1>2, <2>1 DEF Calls
  <2>3. Same(d, call[p]) /\ d.row = row[f] /\ d.text = call[p].text /\ d.tags = call[p].tags
    BY <1>2, <2>2 DEF Same, Calls
  <2>4. /\ OthersStay(p) /\ Onward(p) /\ call'[p].row = d.row /\ call'[p].text = d.text /\ call'[p].tags = d.tags
        /\ UNCHANGED <<met, mixed, cut>>
    BY <1>1, <1>2, <1>4, <1>5, <2>2, <2>3, GoesCall
  <2>5. QED BY <1>0, <1>3, <2>3, <2>4, Looks DEF ReadAgain, ReadActor, tables
<1>6. CASE ~Exists(f) /\ Stop(p)
  BY <1>0, <1>1, <1>3, <1>6, StopCall, Looks DEF ReadAgain, ReadActor, tables
<1>7. QED BY <1>3, <1>5, <1>6 DEF ReadAgain, ReadActor

LEMMA GoesAlong ==
  ASSUME Typed, NEW p \in Requests, call[p].op # None, Goes(p, call[p])
  PROVE  /\ OthersStay(p)
         /\ \/ /\ Onward(p) /\ call'[p].row = call[p].row /\ call'[p].text = call[p].text
               /\ call'[p].tags = call[p].tags /\ call[p].at < Len(Steps[call[p].op]) /\ UNCHANGED <<met, mixed, cut>>
            \/ call'[p] = Idle /\ call[p].at = Len(Steps[call[p].op]) /\ Ends(p)
<1>1. call[p] \in Calls /\ Same(call[p], call[p]) BY Busy DEF Typed, CallsKept, Same
<1>2. QED BY <1>1, GoesCall

(* A step of p that touches the tables of its own file only.               *)
LEMMA Own ==
  ASSUME EntriesInv, NEW p \in Requests, OthersStay(p), Onward(p) \/ call'[p] = Idle,
         NEW f \in Files, f = call[p].file, Ages(f), Bare(f)',
         \A g \in Files : g # f => SameTables(g) /\ Ages(g),
         Onward(p) => call'[p].text = call[p].text \/ call[p].op \in Saves \cup {"rename"},
         Exists(f)' => Exists(f) /\ FactsMove(p, f) /\ KnowsWell(p, f)' /\ TablesMove(p, f)
  PROVE  EntriesFit'
<1>1. Right(f) /\ FilesInv BY DEF EntriesInv, EntriesFit
<1>2. Mixes(f)' /\ Apace(p, f) BY <1>1, OwnMixes DEF Right
<1>3. Right(f)' BY <1>1, <1>2, Carried
<1>4. QED BY <1>3, Finished

LEMMA StillKnows ==
  ASSUME NEW p \in Requests, NEW f \in Files, KnowsName(p, f), KnowsHead(p, f), Onward(p), call[p].at \in 1..8,
         call'[p].row = call[p].row, call'[p].text = call[p].text, Ages(f),
         row'[f].name = row[f].name, row'[f].head = row[f].head,
         Knows(call'[p]) => Knows(call[p]),
         call[p].at >= 2 \/ call[p].op \notin RowWriters,
         call[p].at >= 3 \/ call[p].op \notin Saves \cup {"rename"},
         call[p].at >= 5 \/ call[p].op # "fold"
  PROVE  KnowsName(p, f)' /\ KnowsHead(p, f)'
<1>1. /\ Sole(f)' => Sole(f)
      /\ Unrenamed(f)' => Unrenamed(f)
      /\ f \notin mixed' => f \notin mixed
  BY Ageing
<1>2. /\ call'[p].op = call[p].op /\ call'[p].file = call[p].file /\ call'[p].at = call[p].at + 1
      /\ call'[p].alone = call[p].alone
  BY DEF Onward
<1>3. (On(p, f)' <=> On(p, f)) /\ (Writer(p, f)' <=> Writer(p, f)) BY <1>2 DEF On, Writer
<1>4. KnowsName(p, f)' BY <1>1, <1>2, <1>3 DEF KnowsName
<1>5. KnowsHead(p, f)'
  <2>1. SUFFICES ASSUME Writer(p, f), call[p].alone \/ Sole(f)
        PROVE /\ call[p].row.head = row[f].head
              /\ call[p].op \in Saves \cup {"rename"} => call[p].text = row[f].head
    BY <1>1, <1>2, <1>3 DEF KnowsHead
  <2>2. call[p].at >= 2 BY <2>1 DEF Writer
  <2>3. QED BY <2>1, <2>2 DEF KnowsHead
<1>6. QED BY <1>4, <1>5

LEMMA ListTagsRight == ASSUME EntriesInv, NEW p \in Requests, ListTags(p) PROVE EntriesFit'
<1>0. Typed /\ CallsFit /\ At(p, "list") BY DEF EntriesInv, FilesInv, Typed, CallsKept, ListTags
<1>1. /\ call[p].op # None /\ call[p].op \in Ops \ {"empty"} /\ call[p] \in Calls /\ call[p].at \in 1..8
      /\ \/ call[p].op \in {"attach", "detach"} /\ call[p].at = 2
         \/ call[p].op \in {"restore", "ai"} /\ call[p].at = 3
         \/ call[p].op \in {"commit", "save", "create", "upload"} /\ call[p].at = 4
         \/ call[p].op \in {"rename", "fold"} /\ call[p].at = 6
  BY <1>0, Stands, Places
<1>2. PICK f \in Files : f = call[p].file BY <1>0, <1>1, Busy
<1>3. call[p].at # Len(Steps[call[p].op]) BY <1>0, NotAtEnd
<1>4. links[f] \in SUBSET Tags BY <1>0 DEF Typed, Tables
<1>5. PICK d \in Calls : d = [call[p] EXCEPT !.tags = links[f]] BY <1>1, <1>4 DEF Calls
<1>6. Same(d, call[p]) /\ d.row = call[p].row /\ d.text = call[p].text /\ d.tags = links[f]
  BY <1>1, <1>5 DEF Same, Calls
<1>7. /\ OthersStay(p) /\ Onward(p) /\ call'[p].row = call[p].row /\ call'[p].text = call[p].text
      /\ call'[p].tags = links[f] /\ UNCHANGED <<met, mixed, cut>>
  <2>1. Goes(p, d) BY <1>2, <1>5 DEF ListTags
  <2>2. QED BY <1>0, <1>1, <1>3, <1>6, <2>1, GoesCall
<1>8. /\ call'[p].op = call[p].op /\ call'[p].file = f /\ call'[p].at = call[p].at + 1
      /\ call'[p].alone = call[p].alone
  BY <1>2, <1>7 DEF Onward
<1>9. /\ row' = row /\ links' = links /\ index' = index /\ unfit' = unfit
      /\ \A g \in Files : g # f => SameTables(g)
  BY <1>0, <1>2 DEF ListTags, tables, Typed, Tables, SameTables
<1>10. \A g : Ages(g) BY <1>7, NoChange
<1>11. Right(f) BY DEF EntriesInv, EntriesFit
<1>12. Bare(f)' BY <1>9, <1>11 DEF Right, Bare
<1>13. On(p, f) BY <1>1, <1>2 DEF On
<1>14. FactsMove(p, f)
  <2>1. call[p].op \in Taggers BY <1>1 DEF Taggers, Refreshers, Saves
  <2>2. QED BY <1>9, <1>13, <2>1 DEF FactsMove
<1>15. ASSUME Exists(f) PROVE KnowsWell(p, f)'
  <2>1. KnowsWell(p, f) BY <1>11, <1>15 DEF Right, KeptRight
  <2>2. KnowsName(p, f)' /\ KnowsHead(p, f)'
    <3>1. Knows(call'[p]) => Knows(call[p]) BY <1>1, <1>8 DEF Knows
    <3>2. /\ call[p].at >= 2 /\ (call[p].at >= 3 \/ call[p].op \notin Saves \cup {"rename"})
          /\ call[p].at >= 5 \/ call[p].op # "fold"
      BY <1>1 DEF Saves
    <3>3. QED BY <1>1, <1>7, <1>9, <1>10, <2>1, <3>1, <3>2, StillKnows DEF KnowsWell
  <2>3. KnowsTags(p, f)' BY <1>7, <1>9 DEF KnowsTags
  <2>4. KnowsExt(p, f)' BY <1>1, <1>2, <1>7, <1>8, <1>9, <2>1 DEF KnowsWell, KnowsExt, On
  <2>5. QED BY <2>2, <2>3, <2>4 DEF KnowsWell
<1>16. TablesMove(p, f)
  <2>1. On(p, f)' /\ Changing(call'[p])
    BY <1>1, <1>8 DEF On, Changing
  <2>2. ~Bared(call[p]) /\ ~Untagged(call[p]) BY <1>1 DEF Bared, Untagged
  <2>3. Unsaid(call[p]) => Unsaid(call'[p]) BY <1>1, <1>8 DEF Unsaid, Saves
  <2>4. Naming(call'[p]) BY <1>1, <1>8 DEF Naming, Listing, Saves
  <2>5. QED BY <1>9, <2>1, <2>2, <2>3, <2>4 DEF TablesMove
<1>17. Exists(f)' => Exists(f) BY <1>9 DEF Exists
<1>18. QED BY <1>2, <1>7, <1>9, <1>10, <1>12, <1>14, <1>15, <1>16, <1>17, Own

LEMMA TagSystemRight == ASSUME EntriesInv, NEW p \in Requests, TagSystem(p) PROVE EntriesFit'
<1>0. Typed /\ CallsFit /\ At(p, "tag") BY DEF EntriesInv, FilesInv, Typed, CallsKept, TagSystem
<1>1. /\ call[p].op # None /\ call[p].op \in Ops \ {"empty"} /\ call[p] \in Calls /\ call[p].at \in 1..8
      /\ \/ call[p].op \in {"commit", "save", "create", "upload"} /\ call[p].at = 3
         \/ call[p].op \in {"rename", "fold"} /\ call[p].at = 5
  BY <1>0, Stands, Places
<1>2. PICK f \in Files : f = call[p].file BY <1>0, <1>1, Busy
<1>3. call[p].at # Len(Steps[call[p].op]) BY <1>0, NotAtEnd
<1>7. /\ OthersStay(p) /\ Onward(p) /\ call'[p].row = call[p].row /\ call'[p].text = call[p].text
      /\ call'[p].tags = call[p].tags /\ UNCHANGED <<met, mixed, cut>>
  BY <1>0, <1>1, <1>3, GoesAlong DEF TagSystem
<1>8. /\ call'[p].op = call[p].op /\ call'[p].file = f /\ call'[p].at = call[p].at + 1
      /\ call'[p].alone = call[p].alone
  BY <1>2, <1>7 DEF Onward
<1>9. /\ row' = row /\ unindexed' = unindexed /\ index' = index
      /\ links'[f] = IF Exists(f) THEN links[f] \cup {Ext(call[p].row.name)} ELSE links[f]
      /\ unfit'[f] = unfit[f] \ {Ext(call[p].row.name)}
      /\ \A g \in Files : g # f => SameTables(g)
  BY <1>0, <1>2 DEF TagSystem, Typed, Tables, SameTables
<1>10. \A g : Ages(g) BY <1>7, NoChange
<1>11. Right(f) BY DEF EntriesInv, EntriesFit
<1>12. Bare(f)' BY <1>9, <1>11 DEF Right, Bare, Exists
<1>13. On(p, f) /\ Writer(p, f) BY <1>1, <1>2 DEF On, Writer, RowWriters, Namers, Saves
<1>14. FactsMove(p, f)
  <2>1. call[p].op \in Taggers BY <1>1 DEF Taggers, Refreshers, Saves
  <2>2. QED BY <1>9, <1>13, <2>1 DEF FactsMove
<1>15. ASSUME Exists(f), call[p].alone \/ f \notin mixed PROVE call[p].row.name = row[f].name
  <2>1. Knows(call[p]) BY <1>1 DEF Knows
  <2>2. QED BY <1>11, <1>13, <1>15, <2>1 DEF Right, KeptRight, KnowsWell, KnowsName
<1>16. ASSUME Exists(f) PROVE KnowsWell(p, f)'
  <2>1. KnowsWell(p, f) BY <1>11, <1>16 DEF Right, KeptRight
  <2>2. KnowsName(p, f)' /\ KnowsHead(p, f)'
    <3>1. Knows(call'[p]) => Knows(call[p]) BY <1>1, <1>8 DEF Knows
    <3>2. call[p].at >= 3 /\ (call[p].at >= 5 \/ call[p].op # "fold") BY <1>1
    <3>3. QED BY <1>1, <1>7, <1>9, <1>10, <2>1, <3>1, <3>2, StillKnows DEF KnowsWell
  <2>3. KnowsTags(p, f)' BY <1>1, <1>8 DEF KnowsTags, Listing, Saves
  <2>4. KnowsExt(p, f)'
    <3>1. SUFFICES ASSUME call[p].alone
          PROVE /\ call[p].op = "rename" => links'[f] \cap ExtTags \subseteq {Ext(row[f].name)}
                /\ Ext(row[f].name) \in links'[f]
      BY <1>8, <1>9 DEF KnowsExt
    <3>2. links'[f] = links[f] \cup {Ext(row[f].name)} BY <1>9, <1>15, <1>16, <3>1
    <3>3. call[p].op = "rename" => links[f] \cap ExtTags \subseteq {Ext(row[f].name)}
      BY <1>1, <1>13, <2>1, <3>1 DEF KnowsWell, KnowsExt
    <3>4. QED BY <3>2, <3>3
  <2>5. QED BY <2>2, <2>3, <2>4 DEF KnowsWell
<1>17. ASSUME Exists(f) PROVE TablesMove(p, f)
  <2>1. On(p, f)' /\ Changing(call'[p])
    BY <1>1, <1>8 DEF On, Changing
  <2>2. ~Bared(call[p]) BY <1>1 DEF Bared
  <2>3. Unsaid(call[p]) => Unsaid(call'[p]) BY <1>1, <1>8 DEF Unsaid, Saves
  <2>4. Naming(call[p]) => Naming(call'[p]) BY <1>1, <1>8 DEF Naming, Listing, Saves
  <2>5. f \notin mixed' => links'[f] = links[f] \cup {Ext(row[f].name)} /\ unfit'[f] = unfit[f] \ {Ext(row[f].name)}
    BY <1>7, <1>9, <1>15, <1>17
  <2>6. f \notin mixed' => /\ links'[f] \cap ExtTags \subseteq (links[f] \cap ExtTags) \cup {Ext(row'[f].name)} \cup unfit'[f]
                           /\ {Ext(row[f].name)} \cup unfit[f] \subseteq {Ext(row'[f].name)} \cup unfit'[f]
    BY <1>9, <2>5
  <2>7. f \notin mixed' => Ext(row'[f].name) \in links'[f] BY <1>9, <2>5
  <2>8. QED BY <1>9, <2>1, <2>2, <2>3, <2>4, <2>6, <2>7 DEF TablesMove
<1>18. Exists(f)' => Exists(f) BY <1>9 DEF Exists
<1>19. QED BY <1>2, <1>7, <1>9, <1>10, <1>12, <1>14, <1>16, <1>17, <1>18, Own

LEMMA UntagSystemRight == ASSUME EntriesInv, NEW p \in Requests, UntagSystem(p) PROVE EntriesFit'
<1>0. Typed /\ CallsFit /\ At(p, "untag") BY DEF EntriesInv, FilesInv, Typed, CallsKept, UntagSystem
<1>1. /\ call[p].op # None /\ call[p].op = "rename" /\ call[p].op \in Ops /\ call[p] \in Calls /\ call[p].at = 4
  BY <1>0, Stands, Places
<1>2. PICK f \in Files : f = call[p].file BY <1>0, <1>1, Busy
<1>3. call[p].at # Len(Steps[call[p].op]) BY <1>0, NotAtEnd
<1>7. /\ OthersStay(p) /\ Onward(p) /\ call'[p].row = call[p].row /\ call'[p].text = call[p].text
      /\ call'[p].tags = call[p].tags /\ UNCHANGED <<met, mixed, cut>>
  BY <1>0, <1>1, <1>3, GoesAlong DEF UntagSystem
<1>8. /\ call'[p].op = "rename" /\ call'[p].file = f /\ call'[p].at = 5
      /\ call'[p].alone = call[p].alone
  BY <1>1, <1>2, <1>7 DEF Onward
<1>9. /\ row' = row /\ unindexed' = unindexed /\ index' = index
      /\ links'[f] = links[f] \cap UserTags
      /\ unfit'[f] = {}
      /\ \A g \in Files : g # f => SameTables(g)
  BY <1>0, <1>2 DEF UntagSystem, Typed, Tables, SameTables
<1>e. links'[f] \cap ExtTags = {} BY <1>9, LibraryAssumption DEF ExtTags
<1>10. \A g : Ages(g) BY <1>7, NoChange
<1>11. Right(f) BY DEF EntriesInv, EntriesFit
<1>12. Bare(f)' BY <1>e DEF Bare, ExtTags
<1>13. On(p, f) /\ On(p, f)' BY <1>1, <1>2, <1>8 DEF On
<1>14. FactsMove(p, f)
  <2>1. call[p].op \in Taggers BY <1>1 DEF Taggers, Refreshers, Saves
  <2>2. QED BY <1>9, <1>13, <2>1 DEF FactsMove
<1>15. ASSUME Exists(f) PROVE KnowsWell(p, f)'
  <2>1. KnowsWell(p, f) BY <1>11, <1>15 DEF Right, KeptRight
  <2>2. KnowsName(p, f)' /\ KnowsHead(p, f)'
    <3>1. Knows(call[p]) BY <1>1 DEF Knows
    <3>2. call[p].at >= 3 /\ call[p].at \in 1..8 /\ call[p].op # "fold" BY <1>1
    <3>3. QED BY <1>7, <1>9, <1>10, <2>1, <3>1, <3>2, StillKnows DEF KnowsWell
  <2>3. KnowsTags(p, f)' BY <1>8 DEF KnowsTags, Listing, Saves
  <2>4. KnowsExt(p, f)' BY <1>8, <1>e DEF KnowsExt, ExtTags
  <2>5. QED BY <2>2, <2>3, <2>4 DEF KnowsWell
<1>16. TablesMove(p, f)
  <2>1. Untagged(call'[p]) /\ Changing(call'[p]) /\ Naming(call'[p]) BY <1>8 DEF Untagged, Changing, Naming
  <2>2. ~Unsaid(call[p]) BY <1>1 DEF Unsaid, Saves
  <2>3. links'[f] \cap ExtTags \subseteq {Ext(row'[f].name)} BY <1>e
  <2>4. QED BY <1>9, <1>13, <2>1, <2>2, <2>3 DEF TablesMove
<1>17. Exists(f)' => Exists(f) BY <1>9 DEF Exists
<1>18. QED BY <1>2, <1>7, <1>9, <1>10, <1>12, <1>14, <1>15, <1>16, <1>17, Own

(* The calls that change the links to the tags of users, or to the source. *)
LEMMA UserLinks ==
  ASSUME EntriesInv, NEW p \in Requests, NEW step, At(p, step), step \in {"source", "link", "unlink", "replace"},
         OthersStay(p), UNCHANGED <<row, index, met, mixed, cut>>,
         NEW f \in Files, f = call[p].file, \A g \in Files : g # f => SameTables(g),
         links'[f] \cap ExtTags = links[f] \cap ExtTags, unfit'[f] = unfit[f],
         \/ Onward(p) /\ call'[p].row = call[p].row /\ call'[p].text = call[p].text /\ call'[p].tags = call[p].tags
         \/ call'[p] = Idle,
         unindexed[f] \subseteq unindexed'[f],
         Noted(f) \/ (Onward(p) /\ call[p].op \in {"attach", "detach", "ai"})
  PROVE  EntriesFit'
<1>0. Typed /\ CallsFit BY DEF EntriesInv, FilesInv, Typed, CallsKept
<1>1. /\ call[p].op # None /\ call[p].op \in Ops \ {"empty"} /\ call[p].at \in 1..8
      /\ \/ call[p].op \in {"attach", "detach", "drop"} /\ call[p].at = 1
         \/ call[p].op = "ai" /\ call[p].at = 2
         \/ call[p].op = "create" /\ call[p].at = 6
  BY <1>0, Stands, Places
<1>2. \A g : Ages(g) BY NoChange
<1>3. Right(f) BY DEF EntriesInv, EntriesFit
<1>4. Bare(f)' BY <1>3 DEF Right, Bare, ExtTags
<1>5. On(p, f) BY <1>1 DEF On
<1>6. FactsMove(p, f)
  <2>1. call[p].op \in {"attach", "detach", "ai"} => call[p].op \in Taggers
    BY DEF Taggers, Refreshers
  <2>2. QED BY <1>5, <2>1 DEF FactsMove
<1>7. ASSUME Exists(f) PROVE KnowsWell(p, f)'
  <2>1. SUFFICES ASSUME Onward(p) PROVE KnowsWell(p, f)' BY OffHand
  <2>2. /\ call'[p].op = call[p].op /\ call'[p].file = call[p].file /\ call'[p].at = call[p].at + 1
        /\ call'[p].alone = call[p].alone
    BY <2>1 DEF Onward
  <2>3. call'[p].row = call[p].row /\ call'[p].text = call[p].text
    <3>1. Idle.op = None BY DEF Idle
    <3>2. QED BY <1>1, <2>2, <3>1
  <2>4. KnowsWell(p, f) BY <1>3, <1>7 DEF Right, KeptRight
  <2>5. KnowsName(p, f)' /\ KnowsHead(p, f)'
    <3>1. Knows(call'[p]) => Knows(call[p]) BY <1>1, <2>2 DEF Knows
    <3>2. /\ call[p].at >= 2 \/ call[p].op \notin RowWriters
          /\ call[p].at >= 3 \/ call[p].op \notin Saves \cup {"rename"}
          /\ call[p].op # "fold"
      BY <1>1 DEF RowWriters, Saves, Namers
    <3>3. QED BY <1>1, <1>2, <2>1, <2>3, <2>4, <3>1, <3>2, StillKnows DEF KnowsWell
  <2>6. KnowsTags(p, f)' BY <1>1, <2>2 DEF KnowsTags, Listing, Saves
  <2>7. KnowsExt(p, f)' BY <1>1, <2>2 DEF KnowsExt
  <2>8. QED BY <2>5, <2>6, <2>7 DEF KnowsWell
<1>8. ASSUME Exists(f) PROVE TablesMove(p, f)
  <2>1. ~Bared(call[p]) /\ ~Untagged(call[p]) /\ ~Unsaid(call[p]) /\ ~Naming(call[p]) /\ ~Changing(call[p])
    BY <1>1 DEF Bared, Untagged, Unsaid, Naming, Listing, Changing, Saves
  <2>2. Noted(f) \/ (On(p, f)' /\ Changing(call'[p]))
    BY <1>1, <1>5 DEF Onward, On, Changing
  <2>3. row[f].name \in Names BY <1>0, <1>8, RowKept, PresentIsRow DEF Exists
  <2>4. /\ links'[f] \cap ExtTags \subseteq (links[f] \cap ExtTags) \cup {Ext(row'[f].name)} \cup unfit'[f]
        /\ {Ext(row[f].name)} \cup unfit[f] \subseteq {Ext(row'[f].name)} \cup unfit'[f]
    OBVIOUS
  <2>5. Ext(row[f].name) \in links[f] \cup unfit[f] => Ext(row[f].name) \in links'[f] \cup unfit'[f]
    BY <2>3 DEF ExtTags
  <2>6. QED BY <2>1, <2>2, <2>4, <2>5 DEF TablesMove
<1>9. Exists(f)' => Exists(f) BY DEF Exists
<1>10. Onward(p) => call'[p].text = call[p].text
  <2>1. Idle.op = None BY DEF Idle
  <2>2. QED BY <1>1, <2>1 DEF Onward
<1>11. Onward(p) \/ call'[p] = Idle OBVIOUS
<1>12. QED BY <1>2, <1>4, <1>6, <1>7, <1>8, <1>9, <1>10, <1>11, Own

LEMMA TagSourceRight == ASSUME EntriesInv, NEW p \in Requests, TagSource(p) PROVE EntriesFit'
<1>0. Typed /\ CallsFit /\ At(p, "source") BY DEF EntriesInv, FilesInv, Typed, CallsKept, TagSource
<1>1. call[p].op # None /\ call[p].op = "create" /\ call[p].op \in Ops
  BY <1>0, Stands, Places
<1>2. PICK f \in Files : f = call[p].file BY <1>0, <1>1, Busy, ArrivalsAssumption
<1>3. call[p].at # Len(Steps[call[p].op]) BY <1>0, NotAtEnd
<1>4. /\ OthersStay(p) /\ Onward(p) /\ call'[p].row = call[p].row /\ call'[p].text = call[p].text
      /\ call'[p].tags = call[p].tags /\ UNCHANGED <<met, mixed, cut>>
  BY <1>0, <1>1, <1>3, GoesAlong DEF TagSource
<1>5. /\ row' = row /\ index' = index /\ unfit' = unfit /\ (\A g \in Files : unindexed[g] \subseteq unindexed'[g])
      /\ \/ links'[f] = links[f] /\ unindexed'[f] = unindexed[f]
         \/ links'[f] = links[f] \cup {Source} /\ unindexed'[f] = unindexed[f] \cup {Source}
      /\ \A g \in Files : g # f => SameTables(g)
  BY <1>0, <1>2 DEF TagSource, Typed, Tables, SameTables
<1>6. links'[f] \cap ExtTags = links[f] \cap ExtTags BY <1>5, LibraryAssumption DEF ExtTags
<1>7. Noted(f) BY <1>5 DEF Noted
<1>8. QED BY <1>0, <1>2, <1>4, <1>5, <1>6, <1>7, UserLinks

LEMMA LinkRight == ASSUME EntriesInv, NEW p \in Requests, Link(p) PROVE EntriesFit'
<1>0. Typed /\ CallsFit /\ At(p, "link") BY DEF EntriesInv, FilesInv, Typed, CallsKept, Link
<1>1. /\ call[p].op # None /\ call[p].op = "attach" /\ call[p].op \in Ops /\ call[p].at = 1
      /\ call[p].tag \in UserTags
  BY <1>0, Stands, Places DEF Fits
<1>2. PICK f \in Files : f = call[p].file BY <1>0, <1>1, Busy
<1>3. CASE Exists(f) /\ Goes(p, call[p]) /\ links' = [links EXCEPT ![f] = @ \cup {call[p].tag}]
  <2>1. call[p].at # Len(Steps[call[p].op]) BY <1>1, Lengths
  <2>2. /\ OthersStay(p) /\ Onward(p) /\ call'[p].row = call[p].row /\ call'[p].text = call[p].text
        /\ call'[p].tags = call[p].tags /\ UNCHANGED <<met, mixed, cut>>
    BY <1>0, <1>1, <1>3, <2>1, GoesAlong
  <2>3. /\ row' = row /\ index' = index /\ unfit' = unfit /\ (\A g \in Files : unindexed[g] \subseteq unindexed'[g])
        /\ links'[f] = links[f] \cup {call[p].tag}
        /\ \A g \in Files : g # f => SameTables(g)
    BY <1>0, <1>2, <1>3 DEF Link, Typed, Tables, SameTables
  <2>4. links'[f] \cap ExtTags = links[f] \cap ExtTags BY <1>1, <2>3, LibraryAssumption DEF ExtTags
  <2>5. QED BY <1>0, <1>1, <1>2, <2>2, <2>3, <2>4, UserLinks
<1>4. CASE ~Exists(f) /\ Stop(p) /\ UNCHANGED links
  <2>1. OthersStay(p) /\ call'[p] = Idle /\ UNCHANGED <<met, mixed, cut>> BY <1>0, <1>4, StopCall
  <2>2. row' = row /\ index' = index /\ unfit' = unfit /\ unindexed' = unindexed /\ (\A g \in Files : SameTables(g)) BY <1>4 DEF Link, SameTables
  <2>3. Noted(f) BY <2>2 DEF Noted, SameTables
  <2>4. QED BY <1>0, <1>2, <1>4, <2>1, <2>2, <2>3, UserLinks
<1>5. QED BY <1>2, <1>3, <1>4 DEF Link

LEMMA UnlinkRight == ASSUME EntriesInv, NEW p \in Requests, Unlink(p) PROVE EntriesFit'
<1>0. Typed /\ CallsFit /\ At(p, "unlink") BY DEF EntriesInv, FilesInv, Typed, CallsKept, Unlink
<1>1. /\ call[p].op # None /\ call[p].op \in {"detach", "drop"} /\ call[p].op \in Ops /\ call[p].at = 1
      /\ call[p].tag \in UserTags
  BY <1>0, Stands, Places DEF Fits
<1>2. PICK f \in Files : f = call[p].file BY <1>0, <1>1, Busy
<1>3. ~Mended(p) BY <1>0, NotLast
<1>4. /\ OthersStay(p)
      /\ \/ Onward(p) /\ call'[p].row = call[p].row /\ call'[p].text = call[p].text
            /\ call'[p].tags = call[p].tags
         \/ call'[p] = Idle /\ call[p].at = Len(Steps[call[p].op])
      /\ UNCHANGED <<met, mixed, cut>>
  BY <1>0, <1>1, <1>3, GoesAlong, NothingMended DEF Unlink
<1>5. /\ row' = row /\ index' = index /\ unfit' = unfit /\ (\A g \in Files : unindexed[g] \subseteq unindexed'[g])
      /\ links'[f] = links[f] \ {call[p].tag}
      /\ unindexed'[f] = IF call[p].op = "drop" THEN unindexed[f] \cup ({call[p].tag} \cap links[f]) ELSE unindexed[f]
      /\ \A g \in Files : g # f => SameTables(g)
  BY <1>0, <1>2 DEF Unlink, Typed, Tables, SameTables
<1>6. links'[f] \cap ExtTags = links[f] \cap ExtTags BY <1>1, <1>5, LibraryAssumption DEF ExtTags
<1>7. call[p].op = "drop" => Noted(f) BY <1>5 DEF Noted
<1>8. call[p].op = "detach" => Onward(p)
  <2>1. SUFFICES ASSUME call[p].op = "detach" PROVE call[p].at # Len(Steps[call[p].op]) BY <1>4
  <2>2. QED BY <1>1, <2>1, Lengths
<1>9. QED BY <1>0, <1>1, <1>2, <1>4, <1>5, <1>6, <1>7, <1>8, UserLinks

LEMMA ReplaceAiRight == ASSUME EntriesInv, NEW p \in Requests, ReplaceAi(p) PROVE EntriesFit'
<1>0. Typed /\ CallsFit /\ At(p, "replace") BY DEF EntriesInv, FilesInv, Typed, CallsKept, ReplaceAi
<1>1. call[p].op # None /\ call[p].op = "ai" /\ call[p].op \in Ops
  BY <1>0, Stands, Places
<1>2. PICK f \in Files : f = call[p].file BY <1>0, <1>1, Busy
<1>3. CASE Exists(f) /\ Goes(p, call[p])
            /\ \E T \in {{}, {AiTag}} : links' = [links EXCEPT ![f] = (@ \ {AiTag}) \cup T]
  <2>1. call[p].at # Len(Steps[call[p].op]) BY <1>0, NotAtEnd
  <2>2. /\ OthersStay(p) /\ Onward(p) /\ call'[p].row = call[p].row /\ call'[p].text = call[p].text
        /\ call'[p].tags = call[p].tags /\ UNCHANGED <<met, mixed, cut>>
    BY <1>0, <1>1, <1>3, <2>1, GoesAlong
  <2>3. PICK T \in {{}, {AiTag}} : links' = [links EXCEPT ![f] = (links[f] \ {AiTag}) \cup T] BY <1>3
  <2>4. /\ row' = row /\ index' = index /\ unfit' = unfit /\ (\A g \in Files : unindexed[g] \subseteq unindexed'[g])
        /\ links'[f] = (links[f] \ {AiTag}) \cup T
        /\ \A g \in Files : g # f => SameTables(g)
    BY <1>0, <1>2, <2>3 DEF ReplaceAi, Typed, Tables, SameTables
  <2>5. links'[f] \cap ExtTags = links[f] \cap ExtTags BY <2>4, LibraryAssumption DEF ExtTags
  <2>6. QED BY <1>0, <1>1, <1>2, <2>2, <2>4, <2>5, UserLinks
<1>4. CASE ~Exists(f) /\ Stop(p) /\ UNCHANGED links
  <2>1. OthersStay(p) /\ call'[p] = Idle /\ UNCHANGED <<met, mixed, cut>> BY <1>0, <1>4, StopCall
  <2>2. row' = row /\ index' = index /\ unfit' = unfit /\ unindexed' = unindexed /\ (\A g \in Files : SameTables(g)) BY <1>4 DEF ReplaceAi, SameTables
  <2>3. Noted(f) BY <2>2 DEF Noted, SameTables
  <2>4. QED BY <1>0, <1>2, <1>4, <2>1, <2>2, <2>3, UserLinks
<1>5. QED BY <1>2, <1>3, <1>4 DEF ReplaceAi

(* What a handler makes of the row it knows. *)
LEMMA ChangedFields ==
  ASSUME written \in Nat, NEW c \in Calls, c.op \in RowWriters \ {"retitle"}, c.row \in Present
  PROVE  /\ c.op \notin {"rename", "upload"} => Changed(c).name = c.row.name
         /\ c.op = "upload" => Changed(c).name = c.name
         /\ c.op \in Saves => Changed(c).head = written + 1
         /\ c.op \notin Saves => Changed(c).head = c.row.head
<1>1. CASE c.op = "upload"
  <2>1. Changed(c) = [c.row EXCEPT !.head = written + 1, !.name = c.name] BY <1>1 DEF Changed, Saves
  <2>2. PICK r \in Present, k \in Nat : r = c.row /\ k = written + 1 OBVIOUS
  <2>3. PICK u : u = [r EXCEPT !.head = k, !.name = c.name] OBVIOUS
  <2>4. u.head = k /\ u.name = c.name BY <2>3 DEF Present
  <2>5. QED BY <1>1, <2>1, <2>2, <2>3, <2>4 DEF Saves
<1>2. CASE c.op \in Saves \ {"upload"}
  BY <1>2 DEF Changed, Saves, Present
<1>3. CASE c.op \notin Saves
  <2>1. c.op \in {"rename", "delete", "discard", "restore"} BY <1>3 DEF RowWriters, Saves, Namers
  <2>2. QED BY <2>1 DEF Changed, Saves, Present
<1>4. QED BY <1>1, <1>2, <1>3

LEMMA WriteRowRight == ASSUME EntriesInv, NEW p \in Requests, WriteRow(p) PROVE EntriesFit'
<1>0. Typed /\ CallsFit /\ At(p, "row") BY DEF EntriesInv, FilesInv, Typed, CallsKept, WriteRow
<1>1. /\ call[p].op # None /\ call[p].op \in RowWriters \ {"retitle"} /\ call[p].op \in Ops \ {"empty"}
      /\ call[p] \in Calls /\ call[p].at \in 1..8
      /\ call[p].op = "rename" => call[p].at = 3
      /\ call[p].op = "fold" => call[p].at = 4
      /\ call[p].op \notin {"rename", "fold"} => call[p].at = 2
      /\ Fits(call[p])
  BY <1>0, Stands, Places DEF RowWriters, Saves, Namers
<1>2. PICK f \in Files : f = call[p].file BY <1>0, <1>1, Busy
<1>3. Knows(call[p]) /\ call[p].row \in Present BY <1>1 DEF Fits, Knows, RowWriters, Saves, Namers
<1>4. On(p, f) /\ Writer(p, f) BY <1>1, <1>2 DEF On, Writer
<1>5. ~Mended(p) BY <1>0, NotLast
<1>6. Right(f) BY DEF EntriesInv, EntriesFit
<1>7. CASE ~Exists(f)
  <2>1. Stop(p) /\ UNCHANGED <<row, links, index, unindexed, unfit>> BY <1>2, <1>7 DEF WriteRow
  <2>2. OthersStay(p) /\ call'[p] = Idle /\ UNCHANGED <<met, mixed, cut>> BY <1>0, <2>1, StopCall
  <2>3. \A g : Ages(g) /\ SameTables(g) BY <2>1, <2>2, NoChange DEF SameTables
  <2>4. Bare(f)' BY <1>6, <2>1 DEF Right, Bare
  <2>5. ~Exists(f)' BY <1>7, <2>1 DEF Exists
  <2>6. ~Onward(p)
    <3>1. Idle.op = None BY DEF Idle
    <3>2. QED BY <1>1, <2>2, <3>1 DEF Onward
  <2>7. QED BY <1>2, <2>2, <2>3, <2>4, <2>5, <2>6, Own
<1>8. CASE Exists(f)
  <2>. DEFINE t == IF call[p].op \in Saves THEN written + 1 ELSE call[p].text
  <2>1. written \in Nat /\ t \in Nat BY <1>0, <1>1 DEF Typed, Bounds, Calls
  <2>2. PICK r \in Present : r = Changed(call[p])
    BY <1>1, <1>3, <2>1, ChangedKept DEF Fits, Namers
  <2>3. /\ call[p].op \notin {"rename", "upload"} => r.name = call[p].row.name
        /\ call[p].op = "upload" => r.name = call[p].name
        /\ call[p].op \in Saves => r.head = written + 1
        /\ call[p].op \notin Saves => r.head = call[p].row.head
    BY <1>1, <1>3, <2>1, <2>2, ChangedFields
  <2>. HIDE DEF t
  <2>4. PICK d \in Calls : d = [call[p] EXCEPT !.row = r, !.text = t]
    <3>1. r \in Rows BY PresentIsRow
    <3>2. QED BY <1>1, <2>1, <3>1 DEF Calls
  <2>5. Same(d, call[p]) /\ d.row = r /\ d.text = t BY <1>1, <2>4 DEF Same, Calls
  <2>6. Goes(p, d) BY <1>2, <1>8, <2>2, <2>4 DEF WriteRow, t
  <2>7. /\ OthersStay(p) /\ UNCHANGED <<met, mixed, cut>>
        /\ \/ Onward(p) /\ call'[p].row = r /\ call'[p].text = t
           \/ call'[p] = Idle /\ call[p].at = Len(Steps[call[p].op])
    BY <1>0, <1>1, <1>5, <2>5, <2>6, GoesCall, NothingMended
  <2>8. /\ row'[f] = r /\ links' = links /\ index' = index /\ unindexed' = unindexed
        /\ unfit'[f] = IF call[p].op = "upload" THEN (unfit[f] \cup {Ext(call[p].row.name)}) \ {Ext(call[p].name)}
                       ELSE unfit[f]
        /\ \A g \in Files : g # f => SameTables(g)
    <3>1. row' = [row EXCEPT ![f] = r] /\ UNCHANGED <<links, index, unindexed>> /\ unfit' = Unfits(call[p])
      BY <1>2, <1>8, <2>2 DEF WriteRow
    <3>2. CASE call[p].op = "upload" BY <1>0, <1>2, <3>1, <3>2 DEF Unfits, Typed, Tables, SameTables
    <3>3. CASE call[p].op # "upload" BY <1>0, <1>2, <3>1, <3>3 DEF Unfits, Typed, Tables, SameTables
    <3>4. QED BY <3>2, <3>3
  <2>9. \A g : Ages(g) BY <2>7, NoChange
  <2>10. Bare(f)' BY <2>8 DEF Bare, Present
  <2>11. FactsMove(p, f) BY <1>3, <1>4, <2>3, <2>8 DEF FactsMove, Noted, Namers
  <2>12. KnowsWell(p, f) BY <1>6, <1>8 DEF Right, KeptRight
  <2>13. Onward(p) \/ (call'[p] = Idle /\ call[p].op \in {"delete", "discard"})
    <3>1. SUFFICES ASSUME call[p].op \notin {"delete", "discard"} PROVE call[p].at # Len(Steps[call[p].op])
      BY <2>7
    <3>2. call[p].op \in Saves \cup {"rename", "restore"} BY <1>1, <3>1 DEF RowWriters, Namers, Saves
    <3>3. QED BY <1>1, <3>2, LengthOf
  <2>14. Onward(p) => /\ call'[p].op = call[p].op /\ call'[p].file = f /\ call'[p].at = call[p].at + 1
                      /\ call'[p].alone = call[p].alone
                      /\ call'[p].row = r /\ call'[p].text = t
    <3>1. SUFFICES ASSUME Onward(p) PROVE call'[p] # Idle BY <1>2, <2>7 DEF Onward
    <3>2. Idle.op = None BY DEF Idle
    <3>3. QED BY <1>1, <3>1, <3>2 DEF Onward
  <2>15. KnowsWell(p, f)'
    <3>1. SUFFICES ASSUME Onward(p) PROVE KnowsWell(p, f)' BY <2>7, OffHand
    <3>2. KnowsName(p, f)' BY <2>8, <2>14, <3>1 DEF KnowsName
    <3>3. KnowsHead(p, f)'
      <4>1. SUFFICES ASSUME call[p].alone \/ Sole(f)'
            PROVE call[p].op \in Saves \cup {"rename"} => t = r.head
        BY <2>8, <2>14, <3>1 DEF KnowsHead, Saves
      <4>2. CASE call[p].op \in Saves BY <2>3, <4>2 DEF t
      <4>3. CASE call[p].op = "rename"
        <5>1. call[p].alone \/ Sole(f) BY <2>9, <4>1, Ageing
        <5>2. call[p].row.head = row[f].head /\ call[p].text = row[f].head
          BY <1>1, <1>4, <2>12, <4>3, <5>1 DEF KnowsWell, KnowsHead
        <5>3. call[p].op \notin Saves BY <4>3 DEF Saves
        <5>4. QED BY <2>3, <5>2, <5>3 DEF t
      <4>4. QED BY <4>2, <4>3
    <3>4. KnowsTags(p, f)' BY <1>1, <2>14, <3>1 DEF KnowsTags, Listing, Saves, RowWriters, Namers
    <3>5. KnowsExt(p, f)' BY <1>1, <2>14, <3>1 DEF KnowsExt
    <3>6. QED BY <3>2, <3>3, <3>4, <3>5 DEF KnowsWell
  <2>16. /\ call[p].op = "rename" => On(p, f)' /\ Bared(call'[p]) /\ Untagged(call'[p]) /\ Naming(call'[p])
         /\ call[p].op = "create" => On(p, f)' /\ Untagged(call'[p]) /\ Naming(call'[p]) /\ Changing(call'[p])
         /\ call[p].op = "upload" => On(p, f)' /\ Untagged(call'[p]) /\ Naming(call'[p])
         /\ call[p].op = "fold" => On(p, f)' /\ Naming(call'[p])
         /\ call[p].op \in Saves => On(p, f)' /\ Unsaid(call'[p])
    <3>1. SUFFICES ASSUME call[p].op \in Saves \cup {"rename"}
          PROVE /\ On(p, f)'
                /\ call[p].op = "rename" => Bared(call'[p]) /\ Untagged(call'[p]) /\ Naming(call'[p])
                /\ call[p].op = "create" => Untagged(call'[p]) /\ Naming(call'[p]) /\ Changing(call'[p])
                /\ call[p].op = "upload" => Untagged(call'[p]) /\ Naming(call'[p])
                /\ call[p].op = "fold" => Naming(call'[p])
                /\ call[p].op \in Saves => Unsaid(call'[p])
      BY DEF Saves
    <3>2. Onward(p) BY <2>13, <3>1 DEF Saves
    <3>3. QED BY <1>1, <2>14, <3>1, <3>2 DEF On, Bared, Untagged, Naming, Changing, Unsaid, Saves
  <2>17. /\ ~Bared(call[p]) /\ (call[p].op \notin Saves => ~Unsaid(call[p]))
         /\ call[p].op \notin {"create", "rename"} => ~Untagged(call[p])
         /\ call[p].op \notin {"create", "rename", "fold"} => ~Naming(call[p])
         /\ call[p].op # "create" => ~Changing(call[p])
    BY <1>1 DEF Bared, Untagged, Naming, Listing, Changing, Unsaid, Saves, RowWriters, Namers
  <2>18. f \notin mixed' \/ Unrenamed(f)' => call[p].row.name = row[f].name
    <3>1. SUFFICES ASSUME f \notin mixed' \/ Unrenamed(f)' PROVE call[p].row.name = row[f].name OBVIOUS
    <3>2. f \notin mixed \/ Unrenamed(f) BY <2>9, <3>1, Ageing
    <3>3. QED BY <1>3, <1>4, <2>12, <3>2 DEF KnowsWell, KnowsName
  <2>19. call[p].op \notin Saves /\ Sole(f)' => row'[f].head = row[f].head
    <3>1. SUFFICES ASSUME call[p].op \notin Saves, Sole(f)' PROVE call[p].row.head = row[f].head
      BY <2>3, <2>8
    <3>2. Sole(f) BY <2>9, <3>1, Ageing
    <3>3. QED BY <1>1, <1>4, <2>12, <3>2 DEF KnowsWell, KnowsHead
  <2>20. Noted(f) BY <2>8 DEF Noted
  <2>21. TablesMove(p, f)
    <3>1. call[p].op \notin {"rename", "upload"} /\ (f \notin mixed' \/ Unrenamed(f)') => row'[f].name = row[f].name
      BY <2>3, <2>8, <2>18
    <3>2. f \notin mixed' /\ call[p].op # "rename"
            => {Ext(row[f].name)} \cup unfit[f] \subseteq {Ext(row'[f].name)} \cup unfit'[f]
      BY <2>3, <2>8, <2>18
    <3>3. QED BY <2>8, <2>16, <2>17, <2>19, <2>20, <3>1, <3>2 DEF TablesMove, Saves
  <2>22. Onward(p) => call'[p].text = call[p].text \/ call[p].op \in Saves \cup {"rename"}
    BY <2>14 DEF t
  <2>23. Onward(p) \/ call'[p] = Idle BY <2>7
  <2>24. QED BY <1>2, <1>8, <2>7, <2>8, <2>9, <2>10, <2>11, <2>15, <2>21, <2>22, <2>23, Own
<1>9. QED BY <1>7, <1>8

LEMMA RetitleRight == ASSUME EntriesInv, NEW p \in Requests, Retitle(p) PROVE EntriesFit'
<1>0. Typed /\ CallsFit /\ At(p, "retitle") BY DEF EntriesInv, FilesInv, Typed, CallsKept, Retitle
<1>1. /\ call[p].op # None /\ call[p].op \in {"retitle", "fold"} /\ call[p].op \in Ops \ {"empty"}
      /\ call[p] \in Calls /\ call[p].at = 2 /\ Fits(call[p])
  BY <1>0, Stands, Places
<1>2. PICK f \in Files : f = call[p].file BY <1>0, <1>1, Busy
<1>3. Knows(call[p]) /\ call[p].row \in Present /\ call[p].name \in Names BY <1>1 DEF Fits, Knows, Namers
<1>4. On(p, f) /\ Writer(p, f) /\ call[p].op \in Namers BY <1>1, <1>2 DEF On, Writer, RowWriters, Namers
<1>5. ~Mended(p) BY <1>0, NotLast
<1>6. Right(f) BY DEF EntriesInv, EntriesFit
<1>7. CASE ~Exists(f)
  <2>1. Stop(p) /\ UNCHANGED <<row, links, index, unindexed, unfit>> BY <1>2, <1>7 DEF Retitle
  <2>2. OthersStay(p) /\ call'[p] = Idle /\ UNCHANGED <<met, mixed, cut>> BY <1>0, <2>1, StopCall
  <2>3. \A g : Ages(g) /\ SameTables(g) BY <2>1, <2>2, NoChange DEF SameTables
  <2>4. Bare(f)' BY <1>6, <2>1 DEF Right, Bare
  <2>5. ~Exists(f)' BY <1>7, <2>1 DEF Exists
  <2>6. ~Onward(p)
    <3>1. Idle.op = None BY DEF Idle
    <3>2. QED BY <1>1, <2>2, <3>1 DEF Onward
  <2>7. QED BY <1>2, <2>2, <2>3, <2>4, <2>5, <2>6, Own
<1>8. CASE Exists(f)
  <2>1. PICK r \in Present : r = [call[p].row EXCEPT !.name = call[p].name,
                                                     !.state = IF call[p].op = "fold" THEN "live" ELSE @]
    <3>1. CASE call[p].op = "fold" BY <1>3, <3>1 DEF Present
    <3>2. CASE call[p].op # "fold" BY <1>3, <3>2 DEF Present
    <3>3. QED BY <3>1, <3>2
  <2>2. r.name = call[p].name /\ r.head = call[p].row.head BY <1>3, <2>1 DEF Present
  <2>3. PICK d \in Calls : d = [call[p] EXCEPT !.row = r]
    <3>1. r \in Rows BY PresentIsRow
    <3>2. QED BY <1>1, <3>1 DEF Calls
  <2>4. Same(d, call[p]) /\ d.row = r /\ d.text = call[p].text BY <1>1, <2>3 DEF Same, Calls
  <2>5. /\ Goes(p, d) /\ row' = [row EXCEPT ![f] = r] /\ UNCHANGED <<links, index>>
        /\ unindexed' = [unindexed EXCEPT ![f] = @ \cup {call[p].name}]
        /\ unfit' = [unfit EXCEPT ![f] = @ \cup {Ext(call[p].row.name), Ext(call[p].name)}]
    BY <1>2, <1>8, <2>1, <2>3 DEF Retitle
  <2>6. /\ OthersStay(p) /\ UNCHANGED <<met, mixed, cut>>
        /\ \/ Onward(p) /\ call'[p].row = r /\ call'[p].text = call[p].text /\ call[p].at < Len(Steps[call[p].op])
           \/ call'[p] = Idle
    BY <1>0, <1>1, <1>5, <2>4, <2>5, GoesCall, NothingMended
  <2>7. /\ row'[f] = r /\ links' = links /\ index' = index /\ unindexed'[f] = unindexed[f] \cup {call[p].name}
        /\ unfit'[f] = unfit[f] \cup {Ext(call[p].row.name), Ext(call[p].name)}
        /\ \A g \in Files : g # f => SameTables(g)
    BY <1>0, <1>2, <2>5 DEF Typed, Tables, SameTables
  <2>8. \A g : Ages(g) BY <2>6, NoChange
  <2>9. Bare(f)' BY <2>7 DEF Bare, Present
  <2>10. Noted(f) BY <2>7 DEF Noted
  <2>11. FactsMove(p, f) BY <1>4, <2>7, <2>10 DEF FactsMove
  <2>12. KnowsWell(p, f) BY <1>6, <1>8 DEF Right, KeptRight
  <2>13. Onward(p) => /\ call'[p].op = "fold" /\ call'[p].file = f /\ call'[p].at = 3
                      /\ call'[p].row = r /\ call'[p].text = call[p].text
    <3>1. SUFFICES ASSUME Onward(p) PROVE call[p].op = "fold" /\ call'[p] # Idle
      BY <1>1, <1>2, <2>6 DEF Onward
    <3>2. Idle.op = None BY DEF Idle
    <3>3. call'[p] # Idle BY <1>1, <3>1, <3>2 DEF Onward
    <3>4. ASSUME call[p].op = "retitle" PROVE FALSE
      <4>1. Len(Steps[call[p].op]) = 2 BY <3>4, Lengths
      <4>2. QED BY <1>1, <2>6, <3>3, <4>1
    <3>5. QED BY <1>1, <2>6, <3>3, <3>4
  <2>14. KnowsWell(p, f)'
    <3>1. SUFFICES ASSUME Onward(p) PROVE KnowsWell(p, f)' BY <2>6, OffHand
    <3>2. KnowsName(p, f)' BY <2>7, <2>13, <3>1 DEF KnowsName
    <3>3. KnowsHead(p, f)' BY <2>7, <2>13, <3>1 DEF KnowsHead
    <3>4. KnowsTags(p, f)' BY <2>13, <3>1 DEF KnowsTags, Listing
    <3>5. KnowsExt(p, f)' BY <2>13, <3>1 DEF KnowsExt
    <3>6. QED BY <3>2, <3>3, <3>4, <3>5 DEF KnowsWell
  <2>15. ~Bared(call[p]) /\ ~Unsaid(call[p]) /\ ~Changing(call[p])
    BY <1>1 DEF Bared, Unsaid, Changing, Saves
  <2>16. f \notin mixed' => call[p].row.name = row[f].name
    BY <1>3, <1>4, <2>8, <2>12, Ageing DEF KnowsWell, KnowsName
  <2>17. Sole(f)' => row'[f].head = row[f].head
    <3>1. SUFFICES ASSUME Sole(f)' PROVE call[p].row.head = row[f].head BY <2>2, <2>7
    <3>2. Sole(f) BY <2>8, <3>1, Ageing
    <3>3. QED BY <1>1, <1>4, <2>12, <3>2 DEF KnowsWell, KnowsHead
  <2>18. TablesMove(p, f)
    BY <2>2, <2>7, <2>10, <2>15, <2>16, <2>17 DEF TablesMove
  <2>19. Onward(p) => call'[p].text = call[p].text BY <2>13
  <2>20. Onward(p) \/ call'[p] = Idle BY <2>6
  <2>21. QED BY <1>2, <1>8, <2>6, <2>7, <2>8, <2>9, <2>11, <2>14, <2>18, <2>19, <2>20, Own
<1>9. QED BY <1>7, <1>8

LEMMA WriteActorRight == ASSUME EntriesInv, NEW p \in Requests, WriteActor(p) PROVE EntriesFit'
<1>0. Typed /\ CallsFit /\ At(p, "stamp") BY DEF EntriesInv, FilesInv, Typed, CallsKept, WriteActor
<1>1. /\ call[p].op # None /\ call[p].op \in RowWriters /\ call[p].op \in Ops \ {"empty"} /\ call[p] \in Calls
      /\ \/ call[p].op \in {"save", "upload"} /\ call[p].at = 7
         \/ call[p].op = "create" /\ call[p].at = 8
      /\ Fits(call[p])
  BY <1>0, Stands, Places DEF RowWriters, Saves
<1>2. PICK f \in Files : f = call[p].file BY <1>0, <1>1, Busy
<1>3. Knows(call[p]) /\ call[p].row \in Present BY <1>1 DEF Fits, Knows
<1>4. On(p, f) /\ Writer(p, f) BY <1>1, <1>2 DEF On, Writer
<1>5. ~Mended(p) BY <1>0, NotLast
<1>6. Right(f) BY DEF EntriesInv, EntriesFit
<1>7. OthersStay(p) /\ call'[p] = Idle /\ UNCHANGED <<met, mixed, cut>>
  <2>1. call[p].at = Len(Steps[call[p].op]) BY <1>1, Lengths
  <2>2. QED BY <1>0, <1>1, <1>5, <2>1, GoesAlong, NothingMended DEF WriteActor
<1>8. /\ row'[f] = IF Exists(f) THEN call[p].row ELSE row[f]
      /\ links' = links /\ index' = index /\ unindexed' = unindexed /\ unfit' = unfit
      /\ \A g \in Files : g # f => SameTables(g)
  BY <1>0, <1>2 DEF WriteActor, Typed, Tables, SameTables
<1>9. \A g : Ages(g) BY <1>7, NoChange
<1>10. ~Onward(p)
  <2>1. Idle.op = None BY DEF Idle
  <2>2. QED BY <1>1, <1>7, <2>1 DEF Onward
<1>11. Exists(f)' => Exists(f) BY <1>8 DEF Exists
<1>12. Bare(f)' BY <1>3, <1>6, <1>8 DEF Right, Bare, Present
<1>13. KnowsWell(p, f)' BY <1>7, OffHand
<1>14. ASSUME Exists(f) PROVE FactsMove(p, f) /\ TablesMove(p, f)
  <2>1. Noted(f) BY <1>8 DEF Noted
  <2>2. row'[f].name = call[p].row.name /\ row'[f].head = call[p].row.head BY <1>8, <1>14
  <2>3. FactsMove(p, f) BY <1>3, <1>4, <1>8, <2>1, <2>2 DEF FactsMove
  <2>4. KnowsWell(p, f) BY <1>6, <1>14 DEF Right, KeptRight
  <2>5. f \notin mixed' \/ Unrenamed(f)' => row'[f].name = row[f].name
    <3>1. SUFFICES ASSUME f \notin mixed' \/ Unrenamed(f)' PROVE call[p].row.name = row[f].name BY <2>2
    <3>2. f \notin mixed \/ Unrenamed(f) BY <1>9, <3>1, Ageing
    <3>3. QED BY <1>3, <1>4, <2>4, <3>2 DEF KnowsWell, KnowsName
  <2>6. Sole(f)' => row'[f].head = row[f].head
    <3>1. SUFFICES ASSUME Sole(f)' PROVE call[p].row.head = row[f].head BY <2>2
    <3>2. Sole(f) BY <1>9, <3>1, Ageing
    <3>3. QED BY <1>1, <1>4, <2>4, <3>2 DEF KnowsWell, KnowsHead
  <2>7. ~Bared(call[p]) /\ ~Untagged(call[p]) /\ ~Unsaid(call[p]) /\ ~Naming(call[p]) /\ ~Changing(call[p])
    BY <1>1 DEF Bared, Untagged, Unsaid, Naming, Listing, Changing, Saves
  <2>8. TablesMove(p, f) BY <1>8, <2>1, <2>5, <2>6, <2>7 DEF TablesMove
  <2>9. QED BY <2>3, <2>8
<1>15. QED BY <1>2, <1>7, <1>8, <1>9, <1>10, <1>11, <1>12, <1>13, <1>14, Own

LEMMA InsertRight == ASSUME EntriesInv, NEW p \in Requests, Insert(p) PROVE EntriesFit'
<1>0. Typed /\ CallsFit /\ At(p, "insert") /\ FilesInv BY DEF EntriesInv, FilesInv, Typed, CallsKept, Insert
<1>1. /\ call[p].op # None /\ call[p].op = "create" /\ call[p].op \in Ops /\ call[p] \in Calls /\ call[p].at = 1
      /\ Fits(call[p])
  BY <1>0, Stands, Places
<1>2. PICK f \in Files : f = call[p].file BY <1>0, <1>1, Busy, ArrivalsAssumption
<1>3. row[f].state = "none" /\ \A q \in Requests \ {p} : f \notin Holds(q)
  BY <1>0, <1>1, <1>2 DEF Together, MadeAlone, FilesInv
<1>4. \A q \in Requests \ {p} : ~On(q, f) BY <1>0, <1>3, OnHolds
<1>5. PICK r \in Present : r = [state |-> "live", name |-> call[p].name, head |-> 0]
  BY <1>1 DEF Fits, Present
<1>6. PICK d \in Calls : d = [call[p] EXCEPT !.row = r]
  <2>1. r \in Rows BY PresentIsRow
  <2>2. QED BY <1>1, <2>1 DEF Calls
<1>7. Same(d, call[p]) /\ d.row = r /\ d.text = call[p].text BY <1>1, <1>6 DEF Same, Calls
<1>8. Goes(p, d) /\ row' = [row EXCEPT ![f] = r] BY <1>2, <1>5, <1>6 DEF Insert
<1>9. call[p].at # Len(Steps[call[p].op]) BY <1>1, Lengths
<1>10. OthersStay(p) /\ Onward(p) /\ call'[p].row = r /\ call'[p].text = call[p].text /\ UNCHANGED <<met, mixed, cut>>
  BY <1>0, <1>1, <1>7, <1>8, <1>9, GoesCall
<1>11. call'[p].op = "create" /\ call'[p].file = f /\ call'[p].at = 2 BY <1>1, <1>2, <1>10 DEF Onward
<1>12. /\ row'[f] = r /\ r.head = 0 /\ r.state = "live" /\ links' = links
       /\ \A g \in Files : g # f => SameTables(g)
  BY <1>0, <1>2, <1>5, <1>8 DEF Insert, Typed, Tables, SameTables
<1>13. \A g : Ages(g) BY <1>10, NoChange
<1>14. Right(f) BY DEF EntriesInv, EntriesFit
<1>15. Mixes(f)' BY <1>10, <1>13, <1>14, OwnMixes DEF Right
<1>16. Bare(f)' BY <1>12 DEF Bare
<1>17. On(p, f)' BY <1>1, <1>11, ArrivalsAssumption, AllOps DEF On
<1>18. ASSUME NEW q \in Requests PROVE KnowsWell(q, f)'
  <2>1. CASE q # p
    <3>1. ~On(q, f)' BY <1>4, <1>10, <2>1 DEF On, OthersStay
    <3>2. QED BY <3>1 DEF KnowsWell, KnowsName, KnowsHead, KnowsTags, KnowsExt, Writer
  <2>2. CASE q = p
    <3>1. KnowsName(p, f)' BY <1>10, <1>12 DEF KnowsName
    <3>2. KnowsHead(p, f)' BY <1>10, <1>11, <1>12 DEF KnowsHead
    <3>3. KnowsTags(p, f)' BY <1>11 DEF KnowsTags, Listing
    <3>4. KnowsExt(p, f)' BY <1>11 DEF KnowsExt
    <3>5. QED BY <2>2, <3>1, <3>2, <3>3, <3>4 DEF KnowsWell
  <2>3. QED BY <2>1, <2>2
<1>19. TablesFit(f)'
  <2>1. Untagged(call'[p]) /\ Unsaid(call'[p]) /\ Naming(call'[p]) /\ Changing(call'[p])
    BY <1>11 DEF Untagged, Unsaid, Naming, Changing
  <2>2. links'[f] \cap ExtTags = {} BY <1>3, <1>12, <1>14 DEF Right, Bare
  <2>3. OneExt(f)' BY <2>2 DEF OneExt
  <2>4. HasExt(f)' BY <1>17, <2>1 DEF HasExt, Untagged
  <2>5. TextFits(f)' BY <1>17, <2>1 DEF TextFits, Unsaid
  <2>6. NameFits(f)' BY <1>17, <2>1 DEF NameFits, Naming
  <2>7. TagsFit(f)' BY <1>17, <2>1 DEF TagsFit, Changing
  <2>8. QED BY <2>3, <2>4, <2>5, <2>6, <2>7 DEF TablesFit
<1>20. Right(f)' BY <1>15, <1>16, <1>18, <1>19 DEF Right, KeptRight
<1>21. QED BY <1>2, <1>10, <1>12, <1>13, <1>20, Finished

(* The entry as a request writes it, from what it knows.                   *)
LEMMA EntryAsKnown ==
  ASSUME EntriesInv, NEW p \in Requests, Index(p), NEW f \in Files, f = call[p].file, Exists(f)
  PROVE  /\ index'[f].text = call[p].text /\ index'[f].name = call[p].row.name /\ index'[f].tags = call[p].tags
         /\ call[p].alone \/ Sole(f) => index'[f].text \in {0, row[f].head}
         /\ call[p].alone \/ Unrenamed(f) => index'[f].name = row[f].name
         /\ call[p].alone \/ OneTagger(f) =>
              \A t \in Tags \ unindexed[f] : t \in index'[f].tags <=> t \in links[f]
<1>0. Typed /\ CallsFit /\ At(p, "index") BY DEF EntriesInv, FilesInv, Typed, CallsKept, Index
<1>1. /\ call[p].op # None /\ call[p].op \in Ops \ {"empty"} /\ call[p].at \in 1..8
      /\ \/ call[p].op \in {"attach", "detach", "ai"} /\ call[p].at = 4
         \/ call[p].op \in {"commit", "save", "create", "upload", "restore"} /\ call[p].at = 5
         \/ call[p].op \in {"rename", "fold"} /\ call[p].at = 7
  BY <1>0, Stands, Places
<1>2. KnowsWell(p, f) BY DEF EntriesInv, EntriesFit, Right, KeptRight
<1>3. On(p, f) BY <1>1 DEF On
<1>4. PICK e : e = Entry(call[p]) OBVIOUS
<1>5. index'[f] = e BY <1>0, <1>4 DEF Index, Typed, Tables
<1>6. e.text = call[p].text /\ e.name = call[p].row.name /\ e.tags = call[p].tags BY <1>4 DEF Entry
<1>7. call[p].alone \/ Sole(f) => call[p].text \in {0, row[f].head}
  <2>1. CASE call[p].op \in Saves \cup {"rename"}
    <3>1. Writer(p, f) /\ call[p].at >= 3 BY <1>1, <1>3, <2>1 DEF Writer, RowWriters, Namers
    <3>2. QED BY <1>1, <1>2, <2>1, <3>1 DEF KnowsWell, KnowsHead
  <2>2. CASE call[p].op \notin Saves \cup {"rename"}
    BY <2>2 DEF EntriesInv, EntriesFit, TextUnread
  <2>3. QED BY <2>1, <2>2
<1>8. Knows(call[p]) /\ Listing(call[p]) BY <1>1 DEF Knows, Listing, Saves
<1>9. call[p].alone \/ Unrenamed(f) => call[p].row.name = row[f].name
  BY <1>2, <1>3, <1>8 DEF KnowsWell, KnowsName
<1>10. call[p].alone \/ OneTagger(f) => \A t \in Tags \ unindexed[f] : t \in call[p].tags <=> t \in links[f]
  BY <1>2, <1>3, <1>8 DEF KnowsWell, KnowsTags
<1>11. QED BY <1>5, <1>6, <1>7, <1>9, <1>10

(* The handlers that end with the index. *)
LEMMA EndsThere ==
  ASSUME NEW op
  PROVE  /\ op \in {"commit", "restore"} => Len(Steps[op]) = 5
         /\ op \in {"rename", "fold"} => Len(Steps[op]) = 7
         /\ op \in {"attach", "detach", "ai"} => Len(Steps[op]) = 4
         /\ op = "delete" => Len(Steps[op]) = 3
<1>1. op \in {"commit", "restore"} => Len(Steps[op]) = 5 BY Lengths
<1>2. op \in {"rename", "fold"} => Len(Steps[op]) = 7 BY Lengths
<1>3. op \in {"attach", "detach", "ai"} => Len(Steps[op]) = 4 BY Lengths
<1>4. op = "delete" => Len(Steps[op]) = 3 BY Lengths
<1>5. QED BY <1>1, <1>2, <1>3, <1>4

LEMMA IndexRight == ASSUME EntriesInv, NEW p \in Requests, Index(p) PROVE EntriesFit'
<1>0. Typed /\ CallsFit /\ At(p, "index") /\ FilesInv BY DEF EntriesInv, FilesInv, Typed, CallsKept, Index
<1>1. /\ call[p].op # None /\ call[p].op \in Ops \ {"empty"} /\ call[p].at \in 1..8
      /\ \/ call[p].op \in {"attach", "detach", "ai"} /\ call[p].at = 4
         \/ call[p].op \in {"commit", "save", "create", "upload", "restore"} /\ call[p].at = 5
         \/ call[p].op \in {"rename", "fold"} /\ call[p].at = 7
  BY <1>0, Stands, Places
<1>2. PICK f \in Files : f = call[p].file BY <1>0, <1>1, Busy
<1>3. On(p, f) BY <1>1, <1>2 DEF On
<1>4. Right(f) BY DEF EntriesInv, EntriesFit
<1>5. /\ row' = row /\ links' = links /\ unindexed' = unindexed /\ unfit' = unfit
      /\ \A g \in Files : g # f => SameTables(g)
  BY <1>0, <1>2 DEF Index, Typed, Tables, SameTables
<1>6. Bare(f)' BY <1>4, <1>5 DEF Right, Bare
<1>7. /\ OthersStay(p)
      /\ \/ /\ Onward(p) /\ call'[p].row = call[p].row /\ call'[p].text = call[p].text
            /\ call[p].at < Len(Steps[call[p].op]) /\ UNCHANGED <<met, mixed, cut>>
         \/ call'[p] = Idle /\ Ends(p)
  BY <1>0, <1>1, GoesAlong DEF Index
<1>8. CASE Ends(p) /\ Mended(p) /\ call'[p] = Idle
  <2>1. call[p].alone /\ call[p].op \in {"commit", "rename"} BY <1>8 DEF Mended
  <2>2. /\ \A g \in Files : g # f => Ages(g)
        /\ mixed' = IF call[p].op = "rename" THEN mixed \ {f} ELSE mixed
    <3>1. /\ met' = [g \in Files |-> IF g \in {f} THEN {} ELSE met[g]]
          /\ cut' = cut \ {f} /\ mixed' = mixed \ (IF call[p].op = "rename" THEN {f} ELSE {})
      BY <1>2, <1>8 DEF Ends
    <3>2. \A g \in Files : g # f => met'[g] = met[g] BY <3>1
    <3>3. QED BY <3>1, <3>2 DEF Ages
  <2>3. \A q \in Requests : ~On(q, f)'
    <3>1. Idle.op \notin Ops BY ArrivalsAssumption DEF Idle
    <3>2. SUFFICES ASSUME NEW q \in Requests \ {p}, On(q, f)' PROVE FALSE BY <1>8, <3>1 DEF On
    <3>3. On(q, f) BY <1>7, <3>2 DEF On, OthersStay
    <3>4. QED BY <1>0, <1>3, <2>1, <3>3, Clash
  <2>4. Mixes(f)' BY <2>3 DEF Mixes, Writer
  <2>5. \A q \in Requests : KnowsWell(q, f)'
    BY <2>3 DEF KnowsWell, KnowsName, KnowsHead, KnowsTags, KnowsExt, Writer
  <2>6. ASSUME Exists(f) PROVE TablesFit(f)'
    <3>1. /\ index'[f].text \in {0, row[f].head} /\ index'[f].name = row[f].name
          /\ \A t \in Tags \ unindexed[f] : t \in index'[f].tags <=> t \in links[f]
      BY <1>2, <2>1, <2>6, EntryAsKnown
    <3>2. KnowsWell(p, f) /\ TablesFit(f) BY <1>4, <2>6 DEF Right, KeptRight
    <3>3. f \notin mixed' => links[f] \cap ExtTags \subseteq {Ext(row[f].name)} \cup unfit[f]
      <4>1. CASE call[p].op = "rename"
        BY <1>1, <1>3, <2>1, <3>2, <4>1 DEF KnowsWell, KnowsExt
      <4>2. CASE call[p].op = "commit"
        <5>1. \A q \in Requests : ~(On(q, f) /\ Bared(call[q]))
          BY <1>0, <1>3, <2>1, <4>2, Clash DEF Bared
        <5>2. f \notin mixed' => f \notin mixed BY <2>2, <4>2
        <5>3. QED BY <3>2, <5>1, <5>2 DEF TablesFit, OneExt
      <4>3. QED BY <2>1, <4>1, <4>2
    <3>4. f \notin mixed' => Ext(row[f].name) \in links[f]
      <4>1. f \notin mixed' /\ call[p].op = "commit" => f \notin mixed BY <2>2
      <4>2. QED BY <1>1, <1>3, <2>1, <3>2, <4>1 DEF KnowsWell, KnowsExt
    <3>5. OneExt(f)' /\ HasExt(f)' BY <1>5, <3>3, <3>4 DEF OneExt, HasExt
    <3>6. TextFits(f)' /\ NameFits(f)' /\ TagsFit(f)' BY <1>5, <3>1 DEF TextFits, NameFits, TagsFit
    <3>7. QED BY <3>5, <3>6 DEF TablesFit
  <2>7. Right(f)' BY <1>5, <1>6, <2>4, <2>5, <2>6 DEF Right, KeptRight, Exists
  <2>8. ~Onward(p)
    <3>1. Idle.op = None BY DEF Idle
    <3>2. QED BY <1>1, <1>8, <3>1 DEF Onward
  <2>9. QED BY <1>2, <1>5, <1>7, <1>8, <2>2, <2>7, <2>8, Finished
<1>9. CASE UNCHANGED <<met, mixed, cut>>
  <2>1. \A g : Ages(g) BY <1>9, NoChange
  <2>2. FactsMove(p, f) BY <1>5 DEF FactsMove, Noted
  <2>3. ASSUME Exists(f), Onward(p) PROVE KnowsWell(p, f)'
    <3>1. /\ call'[p].op = call[p].op /\ call'[p].file = call[p].file /\ call'[p].at = call[p].at + 1
          /\ call'[p].alone = call[p].alone
      BY <2>3 DEF Onward
    <3>2. call'[p].row = call[p].row /\ call'[p].text = call[p].text /\ call[p].at < Len(Steps[call[p].op])
      <4>1. Idle.op = None BY DEF Idle
      <4>2. QED BY <1>1, <1>7, <3>1, <4>1
    <3>3. call[p].op \in {"save", "create", "upload"} /\ call[p].at = 5
      <4>1. call[p].at # Len(Steps[call[p].op]) BY <1>1, <3>2
      <4>2. QED BY <1>1, <4>1, EndsThere
    <3>4. KnowsWell(p, f) BY <1>4, <2>3 DEF Right, KeptRight
    <3>5. KnowsName(p, f)' /\ KnowsHead(p, f)'
      <4>1. Knows(call[p]) BY <3>3 DEF Knows
      <4>2. QED BY <1>1, <1>5, <2>1, <2>3, <3>2, <3>3, <3>4, <4>1, StillKnows DEF KnowsWell
    <3>6. KnowsTags(p, f)' BY <3>1, <3>3 DEF KnowsTags, Listing, Saves
    <3>7. KnowsExt(p, f)' BY <3>1, <3>3 DEF KnowsExt
    <3>8. QED BY <3>5, <3>6, <3>7 DEF KnowsWell
  <2>4. Exists(f) => KnowsWell(p, f)' BY <1>7, <2>3, OffHand
  <2>5. ASSUME Exists(f) PROVE TablesMove(p, f)
    <3>1. /\ Sole(f) => index'[f].text \in {0, row[f].head}
          /\ Unrenamed(f) => index'[f].name = row[f].name
          /\ OneTagger(f) => \A t \in Tags \ unindexed[f] : t \in index'[f].tags <=> t \in links[f]
      BY <1>2, <2>5, EntryAsKnown
    <3>2. ~Bared(call[p]) /\ ~Untagged(call[p]) BY <1>1 DEF Bared, Untagged
    <3>3. (Sole(f)' => Sole(f)) /\ (Unrenamed(f)' => Unrenamed(f)) /\ (OneTagger(f)' => OneTagger(f))
      BY <2>1, Ageing
    <3>4. QED BY <1>5, <3>1, <3>2, <3>3 DEF TablesMove
  <2>6. Exists(f)' => Exists(f) BY <1>5 DEF Exists
  <2>7. Onward(p) => call'[p].text = call[p].text
    <3>1. Idle.op = None BY DEF Idle
    <3>2. QED BY <1>1, <1>7, <3>1 DEF Onward
  <2>8. Onward(p) \/ call'[p] = Idle BY <1>7
  <2>9. QED BY <1>2, <1>5, <1>6, <1>7, <2>1, <2>2, <2>4, <2>5, <2>6, <2>7, <2>8, Own
<1>10. QED BY <1>0, <1>7, <1>8, <1>9, NothingMended

LEMMA UnindexRight == ASSUME EntriesInv, NEW p \in Requests, Unindex(p) PROVE EntriesFit'
<1>0. Typed /\ CallsFit /\ At(p, "unindex") BY DEF EntriesInv, FilesInv, Typed, CallsKept, Unindex
<1>1. /\ call[p].op # None /\ call[p].op \in Ops /\ call[p].at \in 1..8 /\ call[p].at # 1
      /\ \/ call[p].op = "delete" /\ call[p].at = 3
         \/ call[p].op \in {"purge", "empty"} /\ call[p].at = 2
  BY <1>0, Stands, Places
<1>2. PICK f \in Files : f = call[p].file BY <1>0, <1>1, Busy
<1>3. ~Mended(p) BY <1>0, NotLast
<1>4. Right(f) BY DEF EntriesInv, EntriesFit
<1>5. /\ row' = row /\ links' = links /\ unindexed' = unindexed /\ unfit' = unfit /\ index'[f] = NoEntry
      /\ \A g \in Files : g # f => SameTables(g)
  BY <1>0, <1>2 DEF Unindex, Typed, Tables, SameTables
<1>6. Bare(f)' BY <1>4, <1>5 DEF Right, Bare
<1>7. /\ OthersStay(p) /\ UNCHANGED <<met, mixed, cut>>
      /\ \/ Onward(p) /\ call'[p].text = call[p].text
         \/ call'[p] = Idle /\ call[p].at = Len(Steps[call[p].op])
  BY <1>0, <1>1, <1>3, GoesAlong, NothingMended DEF Unindex
<1>8. \A g : Ages(g) BY <1>7, NoChange
<1>9. FactsMove(p, f) BY <1>5 DEF FactsMove, Noted
<1>10. Onward(p) => call[p].op # "delete"
  <2>1. SUFFICES ASSUME Onward(p), call[p].op = "delete" PROVE FALSE OBVIOUS
  <2>2. call[p].at = Len(Steps[call[p].op]) BY <1>1, <2>1, Lengths
  <2>3. Ends(p) BY <1>0, <1>1, <2>2, GoesAlong DEF Unindex, Goes
  <2>4. call'[p].op = None BY <1>0, <2>3 DEF Ends, Typed, CallsKept, Idle
  <2>5. QED BY <1>1, <2>1, <2>4 DEF Onward
<1>11. KnowsWell(p, f)'
  <2>1. SUFFICES ASSUME Onward(p) PROVE KnowsWell(p, f)' BY <1>7, OffHand
  <2>2. call'[p].op \in {"purge", "empty"} BY <1>1, <1>10, <2>1 DEF Onward
  <2>3. QED BY <2>2 DEF KnowsWell, KnowsName, KnowsHead, KnowsTags, KnowsExt, Writer, RowWriters, Namers, Saves,
                       Knows, Listing
<1>12. TablesMove(p, f)
  <2>1. ~Bared(call[p]) /\ ~Untagged(call[p]) BY <1>1 DEF Bared, Untagged
  <2>2. NoEntry.text = 0 BY DEF NoEntry
  <2>3. QED BY <1>5, <2>1, <2>2 DEF TablesMove
<1>13. Exists(f)' => Exists(f) BY <1>5 DEF Exists
<1>14. Onward(p) => call'[p].text = call[p].text
  <2>1. Idle.op = None BY DEF Idle
  <2>2. QED BY <1>1, <1>7, <2>1 DEF Onward
<1>15. Onward(p) \/ call'[p] = Idle BY <1>7
<1>16. QED BY <1>2, <1>5, <1>6, <1>7, <1>8, <1>9, <1>11, <1>12, <1>13, <1>14, <1>15, Own

(* A step that leaves every table alone, of a request with nothing to say. *)
LEMMA LeftAlone ==
  ASSUME EntriesInv, NEW p \in Requests, \A g \in Files : Apace(p, g) /\ Ages(g) /\ SameTables(g) /\ ~On(p, g),
         \A g \in Files : KnowsWell(p, g)',
         \A g \in Files : ~Writer(p, g)' \/ \A q \in Requests \ {p} :
              Writer(q, g) /\ (call'[p].op \in Namers \/ call[q].op \in Namers) => g \in mixed',
         \A q \in Requests \ {p} : call'[q].op = call[q].op /\ call'[q].text = call[q].text,
         call'[p].text = 0
  PROVE  EntriesFit'
<1>1. ASSUME NEW g \in Files PROVE Right(g)'
  <2>1. Right(g) /\ FilesInv BY DEF EntriesInv, EntriesFit
  <2>2. Mixes(g)' BY <2>1, MixesKept DEF Right
  <2>3. QED BY <2>1, <2>2, Aside
<1>2. TextUnread' BY DEF EntriesInv, EntriesFit, TextUnread
<1>3. QED BY <1>1, <1>2 DEF EntriesFit

LEMMA PurgeRight == ASSUME EntriesInv, NEW p \in Requests, Purge(p) PROVE EntriesFit'
<1>0. Typed /\ CallsFit /\ At(p, "purge") /\ FilesInv BY DEF EntriesInv, FilesInv, Typed, CallsKept, Purge
<1>1. call[p].op # None /\ call[p].op \in {"purge", "empty"} /\ call[p].at = 3 /\ call[p] \in Calls
  BY <1>0, Stands, Places
<1>2. PICK f \in Files : f = call[p].file BY <1>0, <1>1, Busy
<1>3. OthersStay(p) /\ UNCHANGED <<index, met, cut>> /\ call'[p].op \in {"empty", None}
  BY <1>0, PurgeMoves
<1>4. call[p].text = 0
  BY <1>1 DEF EntriesInv, EntriesFit, TextUnread, Saves
<1>5. mixed' = mixed /\ call'[p].text = 0
  <2>1. CASE Ends(p)
    <3>1. ~Mended(p) BY <1>0, NotLast
    <3>2. call'[p] = Idle BY <1>0, <2>1 DEF Ends, Typed, CallsKept
    <3>3. QED BY <1>0, <2>1, <3>1, <3>2, NothingMended DEF Idle
  <2>2. CASE /\ \E g \in call[p].todo :
                  call' = [call EXCEPT ![p] = [call[p] EXCEPT !.at = 2, !.file = g, !.todo = call[p].todo \ {g},
                                                   !.progress = call[p].progress \/ Exists(call[p].file)]]
             /\ UNCHANGED <<met, mixed, cut>>
    <3>1. PICK g \in call[p].todo :
            call' = [call EXCEPT ![p] = [call[p] EXCEPT !.at = 2, !.file = g, !.todo = call[p].todo \ {g},
                                                   !.progress = call[p].progress \/ Exists(call[p].file)]]
      BY <2>2
    <3>2. PICK d : d = [call[p] EXCEPT !.at = 2, !.file = g, !.todo = call[p].todo \ {g},
                                                   !.progress = call[p].progress \/ Exists(call[p].file)]
      OBVIOUS
    <3>3. d.text = call[p].text BY <1>1, <3>2 DEF Calls
    <3>4. call'[p] = d BY <1>0, <3>1, <3>2 DEF Typed, CallsKept
    <3>5. QED BY <1>4, <2>2, <3>3, <3>4
  <2>3. CASE /\ call' = [call EXCEPT ![p] = [Idle EXCEPT !.op = "empty", !.at = 1]]
             /\ UNCHANGED <<met, mixed, cut>>
    <3>1. PICK d : d = [Idle EXCEPT !.op = "empty", !.at = 1] OBVIOUS
    <3>2. d.text = 0 BY <3>1 DEF Idle
    <3>3. call'[p] = d BY <1>0, <2>3, <3>1 DEF Typed, CallsKept
    <3>4. QED BY <2>3, <3>2, <3>3
  <2>4. QED BY <2>1, <2>2, <2>3 DEF Purge
<1>6. \A g : Ages(g) BY <1>3, <1>5, NoChange
<1>7. \A g : ~On(p, g)' /\ KnowsWell(p, g)'
  <2>1. call'[p].op \notin Ops \ {"empty"} BY <1>3, ArrivalsAssumption
  <2>2. QED BY <2>1 DEF On, KnowsWell, KnowsName, KnowsHead, KnowsTags, KnowsExt, Writer
<1>8. ASSUME NEW g \in Files PROVE Mixes(g)' /\ Apace(p, g) /\ Right(g)
  <2>1. Apace(p, g) BY <1>3, Alongside
  <2>2. Right(g) BY DEF EntriesInv, EntriesFit
  <2>3. ~Writer(p, g)' BY <1>7 DEF Writer
  <2>4. QED BY <1>6, <2>1, <2>2, <2>3, MixesKept DEF Right
<1>9. \A g \in Files \ {f} : SameTables(g)
  BY <1>0, <1>2, <1>3 DEF Purge, Typed, Tables, SameTables
<1>10. ASSUME NEW g \in Files \ {f} PROVE Right(g)'
  <2>1. ~On(p, g) BY <1>2 DEF On
  <2>2. QED BY <1>0, <1>6, <1>7, <1>8, <1>9, <2>1, Aside
<1>11. Right(f)'
  <2>1. \/ row'[f] = Gone
        \/ row'[f] = row[f] /\ links'[f] = links[f] /\ ~Exists(f)
    BY <1>0, <1>2 DEF Purge, Typed, Tables
  <2>2. Gone.state = "gone" BY DEF Gone, NoRow
  <2>3. ~Exists(f)' BY <2>1, <2>2 DEF Exists
  <2>4. Bare(f)' BY <1>8, <2>1, <2>2 DEF Right, Bare
  <2>5. QED BY <1>8, <2>3, <2>4 DEF Right
<1>12. TextUnread'
  BY <1>3, <1>5 DEF EntriesInv, EntriesFit, TextUnread, OthersStay
<1>13. QED BY <1>10, <1>11, <1>12 DEF EntriesFit

(* Faults. *)
LEMMA Touches ==
  ASSUME Typed, NEW p \in Requests, NEW f \in Files, On(p, f)
  PROVE  /\ call[p].at = 1 \/ f \in Touched(p)
         /\ call[p].at = 1 => ~Bared(call[p]) /\ ~Untagged(call[p]) /\ ~Unsaid(call[p]) /\ ~Naming(call[p])
                              /\ ~Changing(call[p])
<1>1. f \in Holds(p) /\ call[p].op # None BY OnHolds
<1>2. QED BY <1>1 DEF Touched, Bared, Untagged, Unsaid, Naming, Listing, Changing, Saves

LEMMA FailsRight == ASSUME EntriesInv, NEW p \in Requests, Fails(p) PROVE EntriesFit'
<1>0. Typed /\ FilesInv BY DEF EntriesInv, FilesInv
<1>1. call'[p] = Idle /\ OthersStay(p) BY <1>0 DEF Fails, Typed, CallsKept, OthersStay
<1>2. /\ UNCHANGED <<row, links, index, met, unindexed, unfit>> /\ cut' = cut \cup Touched(p)
      /\ mixed' = IF call[p].op = "rename" THEN mixed \cup {call[p].file} ELSE mixed
  BY DEF Fails, Fault, tables
<1>3. \A g : Ages(g) /\ SameTables(g) BY <1>2 DEF Ages, SameTables
<1>4. ASSUME NEW f \in Files PROVE Right(f)'
  <2>1. Right(f) BY DEF EntriesInv, EntriesFit
  <2>2. Mixes(f)' /\ Apace(p, f) BY <1>1, <1>3, <2>1, OwnMixes DEF Right
  <2>3. KnowsWell(p, f)' BY <1>1, OffHand
  <2>4. ASSUME On(p, f)
        PROVE /\ Bared(call[p]) => f \in mixed'
              /\ Untagged(call[p]) \/ Unsaid(call[p]) \/ Naming(call[p]) \/ Changing(call[p]) => f \in cut'
    BY <1>0, <1>2, <2>4, Touches DEF On, Bared
  <2>5. QED BY <1>0, <1>3, <2>1, <2>2, <2>3, <2>4, Aside
<1>5. TextUnread'
  <2>1. Idle.text = 0 BY DEF Idle
  <2>2. QED BY <1>1, <2>1 DEF EntriesInv, EntriesFit, TextUnread, OthersStay
<1>6. QED BY <1>4, <1>5 DEF EntriesFit

LEMMA IndexBusyRight == ASSUME EntriesInv, NEW p \in Requests, IndexBusy(p) PROVE EntriesFit'
<1>0. Typed /\ FilesInv /\ CallsFit BY DEF EntriesInv, FilesInv, Typed, CallsKept
<1>1. /\ call[p].op # None /\ call[p] \in Calls /\ call[p].at \in 1..8
      /\ call[p].at < Len(Steps[call[p].op])
      /\ \/ call[p].op \in {"attach", "detach", "ai"} /\ call[p].at = 4
         \/ call[p].op \in {"commit", "save", "create", "upload", "restore"} /\ call[p].at = 5
         \/ call[p].op \in {"rename", "fold"} /\ call[p].at = 7
         \/ call[p].op = "delete" /\ call[p].at = 3
         \/ call[p].op \in {"purge", "empty"} /\ call[p].at = 2
  <2>1. CASE At(p, "index") BY <1>0, <2>1, Stands, Places DEF IndexBusy
  <2>2. CASE At(p, "unindex") BY <1>0, <2>2, Stands, Places DEF IndexBusy
  <2>3. QED BY <2>1, <2>2 DEF IndexBusy
<1>2. call[p].op \in {"save", "create", "upload", "purge", "empty"}
  <2>1. call[p].at # Len(Steps[call[p].op]) BY <1>1
  <2>2. QED BY <1>1, <2>1, EndsThere
<1>3. PICK d : d = [call[p] EXCEPT !.at = call[p].at + 1] OBVIOUS
<1>4. /\ d.op = call[p].op /\ d.at = call[p].at + 1 /\ d.file = call[p].file /\ d.todo = call[p].todo
      /\ d.alone = call[p].alone /\ d.row = call[p].row /\ d.text = call[p].text /\ d.tags = call[p].tags
  BY <1>1, <1>3 DEF Calls
<1>5. call'[p] = d /\ OthersStay(p)
  BY <1>0, <1>3 DEF IndexBusy, Typed, CallsKept, OthersStay
<1>6. Onward(p) BY <1>4, <1>5 DEF Onward
<1>7. /\ UNCHANGED <<row, links, index, met, unindexed, unfit, mixed>> /\ cut' = cut \cup Holds(p)
  BY DEF IndexBusy, Fault, tables
<1>8. \A g : Ages(g) /\ SameTables(g) BY <1>7 DEF Ages, SameTables
<1>9. ASSUME NEW f \in Files PROVE Right(f)'
  <2>1. Right(f) BY DEF EntriesInv, EntriesFit
  <2>2. Mixes(f)' /\ Apace(p, f) BY <1>5, <1>6, <1>8, <2>1, OwnMixes DEF Right
  <2>3. ASSUME Exists(f) PROVE KnowsWell(p, f)'
    <3>1. KnowsWell(p, f) BY <2>1, <2>3 DEF Right, KeptRight
    <3>2. KnowsName(p, f)' /\ KnowsHead(p, f)'
      <4>1. /\ call'[p].row = call[p].row /\ call'[p].text = call[p].text
            /\ row'[f].name = row[f].name /\ row'[f].head = row[f].head
        BY <1>4, <1>5, <1>7
      <4>2. Knows(call'[p]) => Knows(call[p]) BY <1>1, <1>2, <1>4, <1>5 DEF Knows
      <4>3. /\ call[p].at >= 2
            /\ call[p].at >= 3 \/ call[p].op \notin Saves \cup {"rename"}
            /\ call[p].at >= 5 \/ call[p].op # "fold"
        BY <1>1 DEF Saves
      <4>4. QED BY <1>1, <1>6, <1>8, <3>1, <4>1, <4>2, <4>3, StillKnows DEF KnowsWell
    <3>3. KnowsTags(p, f)' BY <1>1, <1>2, <1>4, <1>5 DEF KnowsTags, Listing, Saves
    <3>4. KnowsExt(p, f)' BY <1>2, <1>4, <1>5 DEF KnowsExt
    <3>5. QED BY <3>2, <3>3, <3>4 DEF KnowsWell
  <2>4. On(p, f) => f \in cut' /\ ~Bared(call[p])
    <3>1. On(p, f) => f \in Holds(p) BY <1>0, OnHolds
    <3>2. QED BY <1>1, <1>7, <3>1 DEF Bared
  <2>5. QED BY <1>0, <1>8, <2>1, <2>2, <2>3, <2>4, Aside
<1>10. TextUnread' BY <1>4, <1>5 DEF EntriesInv, EntriesFit, TextUnread, OthersStay
<1>11. QED BY <1>9, <1>10 DEF EntriesFit

LEMMA CrashRight == ASSUME EntriesInv, Crash PROVE EntriesFit'
<1>0. Typed BY DEF EntriesInv, FilesInv
<1>1. \A q \in Requests : call'[q] = Idle BY DEF Crash
<1>2. Idle.op \notin Ops /\ Idle.text = 0 BY ArrivalsAssumption DEF Idle
<1>3. \A q \in Requests : \A g : ~On(q, g)' BY <1>1, <1>2 DEF On
<1>4. /\ UNCHANGED <<row, links, index, met, unindexed, unfit>>
      /\ cut' = cut \cup UNION {Touched(q) : q \in Requests}
      /\ mixed' = mixed \cup {call[q].file : q \in {r \in Requests : call[r].op = "rename"}}
  BY DEF Crash, Fault, tables
<1>5. ASSUME NEW f \in Files PROVE Right(f)'
  <2>1. Right(f) BY DEF EntriesInv, EntriesFit
  <2>2. Mixes(f)' BY <1>3 DEF Mixes, Writer
  <2>3. Bare(f)' BY <1>4, <2>1 DEF Right, Bare
  <2>4. \A q \in Requests : KnowsWell(q, f)'
    BY <1>3 DEF KnowsWell, KnowsName, KnowsHead, KnowsTags, KnowsExt, Writer
  <2>5. Ages(f) BY <1>4 DEF Ages
  <2>6. ASSUME Exists(f) PROVE TablesFit(f)'
    <3>1. TablesFit(f) BY <2>1, <2>6 DEF Right, KeptRight
    <3>2. ASSUME f \notin mixed' PROVE \A q \in Requests : ~(On(q, f) /\ Bared(call[q]))
      BY <1>4, <3>2 DEF On, Bared
    <3>3. ASSUME f \notin cut', NEW q \in Requests, On(q, f)
          PROVE ~Untagged(call[q]) /\ ~Unsaid(call[q]) /\ ~Naming(call[q]) /\ ~Changing(call[q])
      <4>1. f \notin Touched(q) BY <1>4, <3>3
      <4>2. QED BY <1>0, <3>3, <4>1, Touches
    <3>4. /\ Sole(f)' => Sole(f) /\ f \notin cut'
          /\ Unrenamed(f)' => Unrenamed(f) /\ f \notin cut'
          /\ OneTagger(f)' => OneTagger(f) /\ f \notin cut'
          /\ f \notin mixed' => f \notin mixed
          /\ f \notin cut' => f \notin cut
      BY <2>5, Ageing
    <3>5. OneExt(f)' BY <1>4, <3>1, <3>2, <3>4 DEF TablesFit, OneExt
    <3>6. HasExt(f)' BY <1>4, <3>1, <3>3, <3>4 DEF TablesFit, HasExt
    <3>7. TextFits(f)' BY <1>4, <3>1, <3>3, <3>4 DEF TablesFit, TextFits
    <3>8. NameFits(f)' BY <1>4, <3>1, <3>3, <3>4 DEF TablesFit, NameFits
    <3>9. TagsFit(f)' BY <1>4, <3>1, <3>3, <3>4 DEF TablesFit, TagsFit
    <3>10. QED BY <3>5, <3>6, <3>7, <3>8, <3>9 DEF TablesFit
  <2>7. Exists(f)' <=> Exists(f) BY <1>4 DEF Exists
  <2>8. QED BY <2>2, <2>3, <2>4, <2>6, <2>7 DEF Right, KeptRight
<1>6. TextUnread' BY <1>1, <1>2 DEF TextUnread
<1>7. QED BY <1>5, <1>6 DEF EntriesFit

(* A tag that ends, beside the requests, or nothing at all. *)
LEMMA QuietRight ==
  ASSUME EntriesInv, UNCHANGED <<row, index, call, met, mixed, cut, unfit>>,
         \A f \in Files : /\ Noted(f) /\ unindexed[f] \subseteq unindexed'[f]
                           /\ links'[f] \cap ExtTags = links[f] \cap ExtTags
  PROVE  EntriesFit'
<1>0. Typed BY DEF EntriesInv, FilesInv
<1>1. ASSUME NEW f \in Files PROVE Right(f)'
  <2>1. Right(f) BY DEF EntriesInv, EntriesFit
  <2>2. \A q \in Requests : (On(q, f)' <=> On(q, f)) /\ (Writer(q, f)' <=> Writer(q, f)) BY DEF On, Writer
  <2>3. /\ Sole(f)' <=> Sole(f)
        /\ Unrenamed(f)' <=> Unrenamed(f)
        /\ OneTagger(f)' <=> OneTagger(f)
    BY DEF Sole, Unrenamed, OneTagger, Apart
  <2>4. Mixes(f)' BY <2>1, <2>2 DEF Right, Mixes
  <2>5. Bare(f)' BY <2>1 DEF Right, Bare
  <2>6. ASSUME Exists(f) PROVE KeptRight(f)'
    <3>1. (\A q \in Requests : KnowsWell(q, f)) /\ TablesFit(f) BY <2>1, <2>6 DEF Right, KeptRight
    <3>2. Ext(row[f].name) \in ExtTags
      <4>1. row[f].name \in Names BY <1>0, <2>6, RowKept, PresentIsRow DEF Exists
      <4>2. QED BY <4>1 DEF ExtTags
    <3>3. Ext(row[f].name) \in links'[f] <=> Ext(row[f].name) \in links[f] BY <3>2
    <3>4. ASSUME NEW q \in Requests PROVE KnowsWell(q, f)'
      <4>1. KnowsWell(q, f) BY <3>1
      <4>2. KnowsName(q, f)' BY <2>2, <2>3, <4>1 DEF KnowsWell, KnowsName
      <4>3. KnowsHead(q, f)' BY <2>2, <2>3, <4>1 DEF KnowsWell, KnowsHead
      <4>4. KnowsTags(q, f)' BY <2>2, <2>3, <4>1 DEF KnowsWell, KnowsTags, Noted
      <4>5. KnowsExt(q, f)' BY <2>2, <3>3, <4>1 DEF KnowsWell, KnowsExt
      <4>6. QED BY <4>2, <4>3, <4>4, <4>5 DEF KnowsWell
    <3>5. OneExt(f)' BY <2>2, <3>1 DEF TablesFit, OneExt
    <3>6. HasExt(f)' BY <2>2, <3>1, <3>3 DEF TablesFit, HasExt
    <3>7. TextFits(f)' /\ NameFits(f)' BY <2>2, <2>3, <3>1 DEF TablesFit, TextFits, NameFits
    <3>8. TagsFit(f)' BY <2>2, <2>3, <3>1 DEF TablesFit, TagsFit, Noted
    <3>9. QED BY <3>4, <3>5, <3>6, <3>7, <3>8 DEF KeptRight, TablesFit
  <2>7. QED BY <2>4, <2>5, <2>6 DEF Right, Exists
<1>2. TextUnread' BY DEF EntriesInv, EntriesFit, TextUnread
<1>3. QED BY <1>1, <1>2 DEF EntriesFit

LEMMA DeleteTagRight == ASSUME EntriesInv, NEW t \in UserTags, DeleteTag(t) PROVE EntriesFit'
<1>1. \A f \in Files : /\ links'[f] = links[f] \ {t}
                       /\ unindexed'[f] = IF t \in links[f] THEN unindexed[f] \cup {t} ELSE unindexed[f]
  BY DEF DeleteTag
<1>2. \A f \in Files : Noted(f) BY <1>1 DEF Noted
<1>3. \A f \in Files : unindexed[f] \subseteq unindexed'[f] BY <1>1
<1>4. \A f \in Files : links'[f] \cap ExtTags = links[f] \cap ExtTags
  <2>1. t \notin ExtTags BY LibraryAssumption DEF ExtTags
  <2>2. QED BY <1>1, <2>1
<1>5. QED BY <1>2, <1>3, <1>4, QuietRight DEF DeleteTag

(* Requests that come. *)
LEMMA JoinedCalls ==
  ASSUME Typed, NEW p \in Requests, NEW F \in SUBSET Files, NEW c \in Calls, Join(p, F, c)
  PROVE  /\ call'[p].op = c.op /\ call'[p].at = c.at /\ call'[p].file = c.file /\ call'[p].text = c.text
         /\ \A g : Apace(p, g)
         /\ \A q \in Requests \ {p} : call'[q].op = call[q].op /\ call'[q].text = call[q].text
         /\ \A g \in Files : met[g] \subseteq met'[g] /\ (g \in mixed => g \in mixed')
         /\ \A g \in F : \A q \in Requests \ {p} :
              g \in Holds(q) /\ {c.op, call[q].op} \cap Namers # {} /\ c.op \in RowWriters /\ call[q].op \in RowWriters
                => g \in mixed'
<1>1. call'[p].op = c.op /\ call'[p].at = c.at /\ call'[p].file = c.file /\ call'[p].text = c.text
  <2>1. PICK b : b = (c.alone /\ {q \in Requests \ {p} : Holds(q) \cap F # {}} = {}) OBVIOUS
  <2>2. call'[p] = [c EXCEPT !.alone = b] BY <2>1 DEF Join
  <2>3. QED BY <2>2 DEF Calls
<1>2. ASSUME NEW q \in Requests \ {p}
      PROVE  /\ call'[q].op = call[q].op /\ call'[q].at = call[q].at
             /\ call'[q].file = call[q].file /\ call'[q].row = call[q].row
             /\ call'[q].text = call[q].text /\ call'[q].tags = call[q].tags
             /\ call'[q].alone => call[q].alone
  <2>1. CASE Holds(q) \cap F # {}
    <3>1. call'[q] = [call[q] EXCEPT !.alone = FALSE] BY <2>1 DEF Join
    <3>2. call[q] \in Calls BY <2>1 DEF Holds, Idle, Typed, CallsKept, CallsFit, Fits
    <3>3. QED BY <3>1, <3>2 DEF Calls
  <2>2. CASE Holds(q) \cap F = {}
    <3>1. call'[q] = call[q] BY <2>2 DEF Join
    <3>2. QED BY <3>1
  <2>3. QED BY <2>1, <2>2
<1>3. \A g : Apace(p, g) BY <1>2 DEF Apace, On
<1>4. ASSUME NEW g \in Files PROVE met[g] \subseteq met'[g] /\ (g \in mixed => g \in mixed')
  <2>1. met'[g] = met[g] \cup (IF g \in F THEN {{c.op, call[q].op} : q \in Others(p, g)} ELSE {})
    BY DEF Join
  <2>2. QED BY <2>1 DEF Join
<1>5. ASSUME NEW g \in F, NEW q \in Requests \ {p}, g \in Holds(q), {c.op, call[q].op} \cap Namers # {},
             c.op \in RowWriters, call[q].op \in RowWriters
      PROVE  g \in mixed'
  <2>1. q \in Others(p, g) BY <1>5 DEF Others
  <2>2. PICK pair : pair = {c.op, call[q].op} OBVIOUS
  <2>3. pair \cap Namers # {} /\ pair \subseteq RowWriters BY <1>5, <2>2
  <2>4. pair \in {{c.op, call[r].op} : r \in Others(p, g)} BY <2>1, <2>2
  <2>5. PICK meets : meets = [f \in Files |-> IF f \in F THEN {{c.op, call[r].op} : r \in Others(p, f)} ELSE {}]
    OBVIOUS
  <2>6. pair \in meets[g] BY <2>4, <2>5
  <2>7. mixed' = mixed \cup {f \in F : \E s \in meets[f] : s \cap Namers # {} /\ s \subseteq RowWriters}
    BY <2>5 DEF Join
  <2>8. QED BY <2>3, <2>6, <2>7
<1>6. QED BY <1>1, <1>2, <1>3, <1>4, <1>5

LEMMA StartRight ==
  ASSUME EntriesInv, NEW p \in Requests, NEW op \in Ops \ {"empty"}, NEW f \in Files, Start(p, op, f)
  PROVE  EntriesFit'
<1>0. Typed BY DEF EntriesInv, FilesInv
<1>1. PICK a \in Arguments(op, f) :
        Join(p, {f}, [Idle EXCEPT !.op = op, !.at = 1, !.file = f, !.name = a.name, !.tag = a.tag])
  BY DEF Start
<1>2. a.name \in Names \cup {None} /\ a.tag \in UserTags \cup {None}
  BY AllOps DEF Arguments
<1>3. PICK d : d = [Idle EXCEPT !.op = op, !.at = 1, !.file = f, !.name = a.name, !.tag = a.tag]
  OBVIOUS
<1>4. d = [op |-> op, at |-> 1, file |-> f, row |-> NoRow, name |-> a.name, tag |-> a.tag,
           text |-> 0, tags |-> {}, todo |-> {}, progress |-> FALSE, alone |-> TRUE]
  BY <1>3 DEF Idle
<1>5. d \in Calls
  <2>1. NoRow \in Rows BY DEF NoRow, Rows
  <2>2. QED BY <1>2, <1>4, <2>1 DEF Calls
<1>6. PICK F \in SUBSET Files : F = {f} OBVIOUS
<1>7. Join(p, F, d) /\ d.op = op /\ d.at = 1 /\ d.file = f /\ d.text = 0
  <2>1. Join(p, F, d) BY <1>1, <1>3, <1>6
  <2>2. d.op = op /\ d.at = 1 /\ d.file = f /\ d.text = 0 BY <1>4
  <2>3. QED BY <2>1, <2>2
<1>8. /\ call'[p].op = op /\ call'[p].at = 1 /\ call'[p].file = f /\ call'[p].text = 0
      /\ \A g : Apace(p, g)
      /\ \A q \in Requests \ {p} : call'[q].op = call[q].op /\ call'[q].text = call[q].text
      /\ \A g \in Files : met[g] \subseteq met'[g] /\ (g \in mixed => g \in mixed')
      /\ \A g \in F : \A q \in Requests \ {p} :
           g \in Holds(q) /\ {op, call[q].op} \cap Namers # {} /\ op \in RowWriters /\ call[q].op \in RowWriters
             => g \in mixed'
  BY <1>0, <1>5, <1>7, JoinedCalls
<1>9. UNCHANGED <<row, links, index, cut, unindexed, unfit>> /\ call[p].op = None BY DEF Start, tables
<1>10. \A g \in Files : Ages(g) /\ SameTables(g) /\ ~On(p, g)
  BY <1>8, <1>9, ArrivalsAssumption DEF Ages, SameTables, On
<1>11. ASSUME NEW g \in Files PROVE KnowsWell(p, g)'
  BY <1>8 DEF KnowsWell, KnowsName, KnowsHead, KnowsTags, KnowsExt, Knows, Listing, Saves
<1>12. ASSUME NEW g \in Files, Writer(p, g)', NEW q \in Requests \ {p}, Writer(q, g),
              call'[p].op \in Namers \/ call[q].op \in Namers
       PROVE  g \in mixed'
  <2>1. g = f /\ op \in RowWriters BY <1>8, <1>12 DEF Writer, On
  <2>2. g \in Holds(q) /\ call[q].op \in RowWriters BY <1>0, <1>12, OnHolds DEF Writer
  <2>3. QED BY <1>6, <1>8, <1>12, <2>1, <2>2
<1>13. QED BY <1>8, <1>10, <1>11, <1>12, LeftAlone

LEMMA EmptyRight ==
  ASSUME EntriesInv, NEW p \in Requests, \A g \in Files : Apace(p, g) /\ Ages(g) /\ SameTables(g),
         call[p].op \in {None, "empty"}, call'[p].op \in {None, "empty"}, call'[p].text = 0,
         \A q \in Requests \ {p} : call'[q].op = call[q].op /\ call'[q].text = call[q].text
  PROVE  EntriesFit'
<1>1. None \notin Ops BY ArrivalsAssumption
<1>2. \A g \in Files : ~On(p, g) /\ ~On(p, g)' BY <1>1 DEF On
<1>3. \A g \in Files : ~Writer(p, g)' /\ KnowsWell(p, g)'
  BY <1>2 DEF KnowsWell, KnowsName, KnowsHead, KnowsTags, KnowsExt, Writer
<1>4. QED BY <1>2, <1>3, LeftAlone

LEMMA StartEmptyRight == ASSUME EntriesInv, NEW p \in Requests, StartEmpty(p) PROVE EntriesFit'
<1>0. Typed BY DEF EntriesInv, FilesInv
<1>1. PICK d : d = [Idle EXCEPT !.op = "empty", !.at = 1] OBVIOUS
<1>2. d.op = "empty" /\ d.text = 0 BY <1>1 DEF Idle
<1>3. call'[p] = d /\ OthersStay(p) BY <1>0, <1>1 DEF StartEmpty, Typed, CallsKept, OthersStay
<1>4. UNCHANGED <<row, links, index, unindexed, unfit, met, mixed, cut>> /\ call[p].op = None
  BY DEF StartEmpty, tables, history
<1>5. \A g \in Files : Apace(p, g) /\ Ages(g) /\ SameTables(g)
  BY <1>3, <1>4, Alongside, NoChange DEF SameTables
<1>6. QED BY <1>2, <1>3, <1>4, <1>5, EmptyRight DEF OthersStay

LEMMA ScanRight == ASSUME EntriesInv, NEW p \in Requests, Scan(p) PROVE EntriesFit'
<1>0. Typed /\ CallsFit /\ At(p, "scan") BY DEF EntriesInv, FilesInv, Typed, CallsKept, Scan
<1>1. call[p].op = "empty" /\ call[p] \in Calls BY <1>0, Stands, Places
<1>2. call[p].text = 0 BY <1>1 DEF EntriesInv, EntriesFit, TextUnread, Saves
<1>3. UNCHANGED <<row, links, index, unindexed, unfit>> BY DEF Scan, tables
<1>4. \A g : SameTables(g) BY <1>3 DEF SameTables
<1>5. CASE Stop(p)
  <2>1. OthersStay(p) /\ call'[p] = Idle /\ UNCHANGED <<met, mixed, cut>> BY <1>0, <1>5, StopCall
  <2>2. Idle.op = None /\ Idle.text = 0 BY DEF Idle
  <2>3. \A g \in Files : Apace(p, g) /\ Ages(g) BY <2>1, Alongside, NoChange
  <2>4. QED BY <1>1, <1>4, <2>1, <2>2, <2>3, EmptyRight DEF OthersStay
<1>6. CASE \E F \in SUBSET Trash \ {{}} : \E f \in F :
             /\ Join(p, F, [call[p] EXCEPT !.at = 2, !.file = f, !.todo = F \ {f}])
             /\ UNCHANGED cut
  <2>1. PICK F \in SUBSET Trash : \E f \in F :
             /\ Join(p, F, [call[p] EXCEPT !.at = 2, !.file = f, !.todo = F \ {f}])
             /\ UNCHANGED cut
    BY <1>6
  <2>2. PICK f \in F : Join(p, F, [call[p] EXCEPT !.at = 2, !.file = f, !.todo = F \ {f}]) /\ UNCHANGED cut
    BY <2>1
  <2>3. PICK d : d = [call[p] EXCEPT !.at = 2, !.file = f, !.todo = F \ {f}] OBVIOUS
  <2>4. PICK T \in SUBSET Files : T = F BY DEF Trash
  <2>5. PICK G \in SUBSET Files : G = F \ {f} BY <2>4
  <2>6. d = [op |-> call[p].op, at |-> 2, file |-> f, row |-> call[p].row, name |-> call[p].name,
             tag |-> call[p].tag, text |-> call[p].text, tags |-> call[p].tags, todo |-> G,
             progress |-> call[p].progress, alone |-> call[p].alone]
    BY <1>1, <2>3, <2>5 DEF Calls
  <2>7. d \in Calls /\ d.op = "empty" /\ d.text = 0
    <3>1. f \in Files BY <2>4
    <3>2. QED BY <1>1, <1>2, <2>6, <3>1 DEF Calls
  <2>8. Join(p, T, d) BY <2>2, <2>3, <2>4
  <2>9. /\ call'[p].op = "empty" /\ call'[p].text = 0
        /\ \A g : Apace(p, g)
        /\ \A q \in Requests \ {p} : call'[q].op = call[q].op /\ call'[q].text = call[q].text
        /\ \A g \in Files : met[g] \subseteq met'[g] /\ (g \in mixed => g \in mixed')
    BY <1>0, <2>7, <2>8, JoinedCalls
  <2>10. \A g \in Files : Ages(g) BY <2>2, <2>9 DEF Ages
  <2>11. QED BY <1>1, <1>4, <2>9, <2>10, EmptyRight
<1>7. QED BY <1>5, <1>6 DEF Scan

LEMMA InitRight == ASSUME Init PROVE EntriesFit
<1>1. \A q \in Requests : call[q].op \notin Ops /\ call[q].text = 0 BY ArrivalsAssumption DEF Init, Idle
<1>2. \A q \in Requests : \A f : ~On(q, f) BY <1>1 DEF On
<1>3. ASSUME NEW f \in Files PROVE Right(f)
  <2>1. Mixes(f) BY <1>2 DEF Mixes, Writer
  <2>2. links[f] = IF Exists(f) THEN {Ext(row[f].name), AiTag} ELSE {} BY DEF Init
  <2>3. Bare(f) BY <2>2 DEF Bare, Exists
  <2>4. \A q \in Requests : KnowsWell(q, f)
    BY <1>2 DEF KnowsWell, KnowsName, KnowsHead, KnowsTags, KnowsExt, Writer
  <2>5. ASSUME Exists(f) PROVE TablesFit(f)
    <3>1. links[f] \cap ExtTags \subseteq {Ext(row[f].name)} /\ Ext(row[f].name) \in links[f]
      BY <2>2, <2>5, LibraryAssumption DEF ExtTags
    <3>2. CASE row[f].state = "live"
      <4>1. index[f] = [name |-> row[f].name, tags |-> links[f], text |-> row[f].head] BY <3>2 DEF Init
      <4>2. index[f].name = row[f].name /\ index[f].tags = links[f] /\ index[f].text = row[f].head BY <4>1
      <4>3. QED BY <3>1, <4>2 DEF TablesFit, OneExt, HasExt, TextFits, NameFits, TagsFit
    <3>3. CASE row[f].state # "live"
      <4>1. index[f] = NoEntry BY <3>3 DEF Init
      <4>2. index[f].text = 0 BY <4>1 DEF NoEntry
      <4>3. QED BY <3>1, <4>1, <4>2 DEF TablesFit, OneExt, HasExt, TextFits, NameFits, TagsFit
    <3>4. QED BY <3>2, <3>3
  <2>6. QED BY <2>1, <2>3, <2>4, <2>5 DEF Right, KeptRight
<1>4. QED BY <1>1, <1>3 DEF EntriesFit, TextUnread

LEMMA NextEntriesInv == ASSUME EntriesInv, [Next]_vars PROVE EntriesInv'
<1>1. ASSUME UNCHANGED vars PROVE EntriesFit'
  <2>1. UNCHANGED <<row, links, index, call, met, mixed, cut, unindexed, unfit>> BY <1>1 DEF vars, tables, history
  <2>2. \A f \in Files : Noted(f) BY <2>1 DEF Noted
  <2>3. QED BY <2>1, <2>2, QuietRight
<1>2. ASSUME NEW p \in Requests, NEW a \in Arrivals, Start(p, a[1], a[2]) PROVE EntriesFit'
  <2>1. a[1] \in Ops \ {"empty"} /\ a[2] \in Files BY ArrivalsAssumption
  <2>2. QED BY <1>2, <2>1, StartRight
<1>3. ASSUME NEW p \in Requests, RowStep(p) PROVE EntriesFit'
  BY <1>3, ReadRight, InsertRight, ReadBodyRight, WriteRowRight, RetitleRight, ReadAnewRight, WriteActorRight,
     PurgeRight, ScanRight DEF RowStep
<1>4. ASSUME NEW p \in Requests, TagStep(p) PROVE EntriesFit'
  BY <1>4, LinkRight, UnlinkRight, TagSystemRight, UntagSystemRight, TagSourceRight, ReplaceAiRight DEF TagStep
<1>5. ASSUME NEW p \in Requests, IndexStep(p) PROVE EntriesFit'
  BY <1>5, ListTagsRight, ReadAnewRight, IndexRight, UnindexRight DEF IndexStep
<1>6. ASSUME NEW p \in Requests, StartEmpty(p) \/ Fails(p) \/ IndexBusy(p) PROVE EntriesFit'
  BY <1>6, StartEmptyRight, FailsRight, IndexBusyRight
<1>7. EntriesFit' BY <1>1, <1>2, <1>3, <1>4, <1>5, <1>6, DeleteTagRight, CrashRight DEF Next
<1>8. FilesInv' BY NextFilesInv DEF EntriesInv
<1>9. QED BY <1>7, <1>8 DEF EntriesInv

LEMMA Untouched ==
  ASSUME EntriesInv, NEW f \in Files, Settled(f)
  PROVE  TablesFit(f) /\ \A q \in Requests : ~On(q, f)
<1>1. Exists(f) BY DEF Settled, Exists
<1>2. \A q \in Requests : ~On(q, f) BY OnHolds DEF EntriesInv, FilesInv, Settled, Quiet
<1>3. QED BY <1>1, <1>2 DEF EntriesInv, EntriesFit, Right, KeptRight

(* What a search finds a file by is what the file is: its text is that of  *)
(* its head, its name the name of its row, its tags its links, but for the *)
(* calls that leave the index alone (a name given over SMB is not in it    *)
(* before the next commit, rename or refresh), as long as no two requests  *)
(* that could undo each other's work met on it and no fault hit it         *)
(* (persist_commit, rename_file, refresh_fts, refresh_fts_tags against     *)
(* each other).                                                            *)
THEOREM LibraryEntryFits == Spec => []EntryFits
<1>1. Init => EntriesInv BY InitTyped, InitTogether, InitRight DEF EntriesInv, FilesInv
<1>2. EntriesInv /\ [Next]_vars => EntriesInv' BY NextEntriesInv
<1>3. EntriesInv => EntryFits
  <2>1. SUFFICES ASSUME EntriesInv PROVE TextNotOlder /\ NameCurrent /\ TagsIndexed BY DEF EntryFits
  <2>2. TextNotOlder
    <3>1. SUFFICES ASSUME NEW f \in Files, Settled(f), Apart(f, RowWriters),
                          NEW text \in 1..written, f \in Found("text", text)
          PROVE text = row[f].head
      BY DEF TextNotOlder
    <3>2. index[f].text = text BY <3>1 DEF Found, Hits
    <3>3. index[f].text \in {0, row[f].head} BY <2>1, <3>1, Untouched DEF TablesFit, TextFits, Sole
    <3>4. text # 0 BY <2>1 DEF EntriesInv, FilesInv, Typed, Bounds
    <3>5. QED BY <3>2, <3>3, <3>4
  <2>3. NameCurrent
    <3>1. SUFFICES ASSUME NEW f \in Files, Settled(f), Apart(f, RowWriters),
                          \A pair \in met[f] : pair \cap Namers = {},
                          NEW name \in Names, f \in Found("name", name)
          PROVE name = row[f].name \/ row[f].name \in unindexed[f]
      BY DEF NameCurrent
    <3>2. index[f].name = name /\ index[f] # NoEntry BY <3>1 DEF Found, Hits
    <3>3. Unrenamed(f) BY <3>1 DEF Unrenamed, Sole
    <3>4. QED BY <2>1, <3>1, <3>2, <3>3, Untouched DEF TablesFit, NameFits
  <2>4. TagsIndexed
    <3>1. SUFFICES ASSUME NEW f \in Files, Settled(f), Apart(f, Taggers), index[f] # NoEntry,
                          NEW t \in Tags \ unindexed[f]
          PROVE f \in Found("tags", t) <=> t \in links[f]
      BY DEF TagsIndexed
    <3>2. t \in index[f].tags <=> t \in links[f]
      BY <2>1, <3>1, Untouched DEF TablesFit, TagsFit, OneTagger
    <3>3. f \in Found("tags", t) <=> t \in index[f].tags BY <3>1 DEF Found, Hits, Settled
    <3>4. QED BY <3>2, <3>3
  <2>5. QED BY <2>2, <2>3, <2>4
<1>4. QED BY <1>1, <1>2, <1>3, PTL DEF Spec

(* A file nobody works on has the system tag of its name and no other: the *)
(* rename takes the old one off before it puts the new one on, and the     *)
(* saves put back only what the name they read gives (rename_file,         *)
(* persist_commit), unless a fault hit it or one that gives names met      *)
(* another writer -- and but for what uploads under another name and the   *)
(* renames over SMB leave behind, until a handler puts that right.         *)
THEOREM LibrarySystemTagsFit == Spec => []SystemTagsFit
<1>1. Init => EntriesInv BY InitTyped, InitTogether, InitRight DEF EntriesInv, FilesInv
<1>2. EntriesInv /\ [Next]_vars => EntriesInv' BY NextEntriesInv
<1>3. EntriesInv => SystemTagsFit
  <2>1. SUFFICES ASSUME EntriesInv, NEW f \in Files, Settled(f), f \notin cut, f \notin mixed
        PROVE \A t \in ExtTags \ unfit[f] : t \in links[f] <=> t = Ext(row[f].name)
    BY DEF SystemTagsFit
  <2>2. /\ links[f] \cap ExtTags \subseteq {Ext(row[f].name)} \cup unfit[f]
        /\ Ext(row[f].name) \in links[f] \cup unfit[f]
    BY <2>1, Untouched DEF TablesFit, OneExt, HasExt
  <2>3. row[f].name \in Names
    BY <2>1, RowKept, PresentIsRow DEF EntriesInv, FilesInv, Settled
  <2>4. Ext(row[f].name) \in ExtTags BY <2>3 DEF ExtTags
  <2>5. QED BY <2>2, <2>4
<1>4. QED BY <1>1, <1>2, <1>3, PTL DEF Spec
=============================================================================
