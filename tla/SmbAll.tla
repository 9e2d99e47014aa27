------------------------------- MODULE SmbAll -------------------------------
(***************************************************************************)
(* The SMB view `all` (AllBackend in yozist-smb backends.rs) and the open  *)
(* handles behind it (handle.rs): names, buffers that are committed at     *)
(* flush and close, and the scratch directories in memory that take up the *)
(* temporary files of clients which save by renaming.                      *)
(*                                                                         *)
(* The server handles the requests of one connection one after the other;  *)
(* connections run beside each other.  A client sends one of its Programs, *)
(* with at most one handle open.  Each action is one access to the         *)
(* database or to the scratch table, with the decisions before it.  The    *)
(* engine is seen as what it does to a file: a commit reads the row, later *)
(* appends to the history and writes the whole row back.  Contents are     *)
(* numbers, fresh for every write; 0 is the empty content.                 *)
(*                                                                         *)
(* Left out: permissions but for a refusal at any step (Refuse), tags and  *)
(* owners (SmbViews), listings, times, the limit of 1000 names searched.   *)
(***************************************************************************)
EXTENDS Naturals, Sequences, FiniteSets

CONSTANTS
  Clients, Ids,
  Texts,       \* names as a client may make them up
  Hidden,      \* those that start with a dot
  Metas,       \* those of AppleDouble files and .DS_Store
  Dirs,        \* names of scratch directories
  FirstId, FirstText,   \* the file there is to begin with
  Programs,    \* client -> the sequences of Requests it may send
  MaxFaults,   \* bound on crashes, refusals, lost connections and purges
  Root,        \* the share itself; for scratch places, EPHEMERAL_DIR
  None

ASSUME SmbAllAssumption ==
  /\ FirstId \in Ids /\ FirstText \in Texts
  /\ Metas \subseteq Hidden /\ Hidden \subseteq Texts
  /\ Root \notin Dirs /\ MaxFaults \in Nat

VARIABLES
  file,     \* id -> the row of files, None if there is none
  hist,     \* id -> the contents committed, in order (of a purged file too)
  dirs,     \* ScratchFs.dirs
  scratch,  \* ScratchFs.files: path -> content, for the paths there are
  handle,   \* the open handle of each client
  call,     \* the request each connection is working on
  todo,     \* the requests each client has yet to send
  written,  \* the last content written by anyone
  faults,
  failed,      \* history: clients that got an error or were cut off
  missed,      \* history: a file was looked for while it bore another name or none
  overlapped,  \* history: files written while another request held their row
  lastOf,      \* history: the last content each client wrote to be kept
  lost,        \* history: contents given up at a client's wish or by a fault
  sidecar      \* history: contents written under the name of metadata

memory == <<dirs, scratch>>
history == <<failed, missed, overlapped, lastOf, lost, sidecar>>
vars == <<file, hist, memory, handle, call, todo, written, faults, history>>

-----------------------------------------------------------------------------
(* Names.  An SMB name is a text, with or without an id in front of it.    *)

Names == [id: Ids \cup {None}, text: Texts]
Paths == [dir: Dirs \cup {Root}, file: Names]
Plain(t) == [id |-> None, text |-> t]
DisplayPart(n) == Plain(n.text)
IsMeta(n) == n.id = None /\ n.text \in Metas
InScratch(p) == p.dir # Root \/ IsMeta(p.file)

\* What a client may send, and that it closes one file before it opens another.
Intents == {"Open", "Create", "OpenOrCreate", "Truncate", "Overwrite"}
Requests ==
  [op: {"open"}, path: Paths, intent: Intents] \cup [op: {"write", "flush", "close"}]
  \cup [op: {"mkdir"}, path: [dir: Dirs, file: Names]] \cup [op: {"rmdir", "unlink"}, path: Paths]
  \cup [op: {"rename"}, path: Paths, to: Paths]
OneOpen(s) ==
  \A i, j \in DOMAIN s : i < j /\ s[i].op = "open" /\ s[j].op = "open" =>
    \E k \in DOMAIN s : i < k /\ k < j /\ s[k].op = "close"

ASSUME ProgramsAssumption == \A c \in Clients : \A s \in Programs[c] : s \in Seq(Requests) /\ OneOpen(s)

\* A client gives metadata no id, and leaves it metadata when it renames it.
NamedWell(n) == n.text \in Metas => IsMeta(n)
TreatsWell(r) ==
  /\ r.op \notin {"write", "flush", "close"} => NamedWell(r.path.file)
  /\ r.op = "rename" => NamedWell(r.to.file) /\ (IsMeta(r.path.file) <=> IsMeta(r.to.file))

ASSUME MetadataAssumption ==
  /\ FirstText \notin Metas
  /\ \A c \in Clients : \A s \in Programs[c] : \A k \in DOMAIN s : TreatsWell(s[k])

Contents == 0..written
Rows == [name: Names, deleted: BOOLEAN, head: Nat, size: Nat]
Content(i) == hist[i][file[i].head]
IsLive(i) == file[i] # None /\ ~file[i].deleted

Resting == [at |-> "idle", req |-> None, stage |-> "from", want |-> None, found |-> None,
            target |-> None, body |-> None, left |-> {}, key |-> None]
Copies == [id: Ids, row: Rows \cup {None}]
FileHandles == [kind: {"file"}, id: Ids \cup {None}, name: Names, buf: Contents, dirty: BOOLEAN]
ScratchHandles == [kind: {"scratch"}, place: Paths]

ASSUME NoneAssumption ==
  /\ None \notin Nat \cup Ids \cup Names \cup Paths \cup Requests
  /\ None \notin Rows \cup [id: Ids, row: Rows \cup {None}]
  /\ None \notin [kind: {"file"}, id: Ids \cup {None}, name: Names, buf: Nat, dirty: BOOLEAN] \cup ScratchHandles

TypeOK ==
  /\ file \in [Ids -> Rows \cup {None}]
  /\ hist \in [Ids -> Seq(Contents)]
  /\ \A i \in Ids : file[i] # None => file[i].head \in 1..Len(hist[i])
  /\ dirs \subseteq Dirs /\ DOMAIN scratch \subseteq {p \in Paths : InScratch(p)}
  /\ \A p \in DOMAIN scratch : scratch[p] \in Contents
  /\ handle \in [Clients -> FileHandles \cup ScratchHandles \cup {None}]
  /\ \A c \in Clients :
       /\ call[c].stage \in {"from", "to", "check", "fold"}
       /\ call[c].found \in Copies \cup {None} /\ call[c].target \in Copies \cup {None}
       /\ call[c].body \in Contents \cup {None} /\ call[c].left \subseteq Paths
       /\ call[c].want \in Names \cup {None} /\ call[c].key \in Paths \cup {None}
  /\ faults \in 0..MaxFaults /\ failed \subseteq Clients /\ missed \in BOOLEAN /\ overlapped \subseteq Ids
  /\ lost \subseteq Contents /\ sidecar \subseteq Contents

Init ==
  /\ file = [i \in Ids |->
       IF i = FirstId THEN [name |-> Plain(FirstText), deleted |-> FALSE, head |-> 1, size |-> 0] ELSE None]
  /\ hist = [i \in Ids |-> IF i = FirstId THEN <<1>> ELSE <<>>]
  /\ dirs = {} /\ scratch = <<>>
  /\ handle = [c \in Clients |-> None]
  /\ call = [c \in Clients |-> Resting]
  /\ todo \in [Clients -> UNION {Programs[c] : c \in Clients}]
  /\ \A c \in Clients : todo[c] \in Programs[c]
  /\ written = 1 /\ faults = 0
  /\ failed = {} /\ missed = FALSE /\ overlapped = {} /\ lastOf = [c \in Clients |-> None]
  /\ lost = {} /\ sidecar = {}

-----------------------------------------------------------------------------
(* Requests and answers.                                                   *)

Req(c) == Head(todo[c])
Op(c) == call[c].req.op
Ready(c, op) == call[c].at = "idle" /\ todo[c] # <<>> /\ Req(c).op = op
Sent(c) == todo' = [todo EXCEPT ![c] = Tail(@)]
\* f, but for where g has a say.
With(f, g) == [x \in DOMAIN f \cup DOMAIN g |-> IF x \in DOMAIN g THEN g[x] ELSE f[x]]
Work(c, more) == call' = [call EXCEPT ![c] = With(@, more)]
Begin(c, more) == Sent(c) /\ call' = [call EXCEPT ![c] = With([Resting EXCEPT !.req = Req(c)], more)]
Finish(c) == call' = [call EXCEPT ![c] = Resting] /\ UNCHANGED todo

\* A client that gets an error may go on with the rest or give up.
Error(c, rest) ==
  /\ call' = [call EXCEPT ![c] = Resting]
  /\ \E next \in {rest, <<>>} : todo' = [todo EXCEPT ![c] = next]
  /\ failed' = failed \cup {c}
\* The answer to a request that never got to work.
Reject(c) == Error(c, Tail(todo[c])) /\ UNCHANGED <<overlapped, lastOf, lost, sidecar, missed>>

\* rmdir carries on with the next file, whatever became of this one.
Salvaging(c) == Op(c) = "rmdir"
Resume(c) == Work(c, [at |-> "salvage", found |-> None, target |-> None, body |-> None])
             /\ UNCHANGED todo
Return(c) == IF Salvaging(c) THEN Resume(c) ELSE Finish(c)
Fail(c) ==
  IF Salvaging(c) THEN Resume(c) /\ failed' = failed \cup {c} ELSE Error(c, todo[c])

Dropped(S) == lost' = lost \cup (S \ {None})
Held(p) == IF p \in DOMAIN scratch THEN {scratch[p]} ELSE {}
Insert(p, k) == scratch' = With(scratch, [q \in {p} |-> k])
Remove(p) == scratch' = [q \in DOMAIN scratch \ {p} |-> scratch[q]]
Fresh == written + 1
Holds(d, i) == \E h \in {call[d].found, call[d].target} \ {None} : h.id = i /\ h.row # None
\* update_file writes all columns of the row from the copy the request holds.
WriteRow(c, i, row) ==
  /\ file' = [file EXCEPT ![i] = row]
  /\ overlapped' = IF \E d \in Clients \ {c} : Holds(d, i) THEN overlapped \cup {i} ELSE overlapped

-----------------------------------------------------------------------------
(* resolve_existing and resolve_by_embedded_id.                            *)

Seek(n, stage) ==
  [at |-> IF n.id = None THEN "byName" ELSE "byId", want |-> n, stage |-> stage]
\* What fold_scratch_into_file does before it resolves its target.
StartFold(p, n) == With(Seek(n, "fold"), [key |-> p, body |-> scratch[p]])

Found(c, i) ==
  /\ LET copy == IF i = None THEN None ELSE [id |-> i, row |-> file[i]] IN
     \/ /\ call[c].stage = "from" /\ Work(c, [at |-> "found", found |-> copy])
     \/ /\ call[c].stage \in {"to", "fold"} /\ Work(c, [at |-> "found", target |-> copy])
     \/ /\ call[c].stage = "check" /\ copy # None
        /\ call[c].key \in DOMAIN scratch
        /\ Work(c, StartFold(call[c].key, call[c].want))
     \/ /\ call[c].stage = "check" /\ (copy = None \/ call[c].key \notin DOMAIN scratch)
        /\ Work(c, [at |-> "salvage"])
  /\ missed' = (missed \/ (i = None /\ call[c].stage \in {"from", "to"} /\ call[c].want.id # None))
  /\ UNCHANGED <<file, hist, memory, handle, todo, written, faults, failed, overlapped, lastOf, lost, sidecar>>

FindById(c) ==
  /\ call[c].at = "byId"
  /\ LET n == call[c].want IN
     IF IsLive(n.id) /\ file[n.id].name = DisplayPart(n)
     THEN Found(c, n.id)
     ELSE /\ Work(c, [at |-> "byName"])
          /\ UNCHANGED <<file, hist, memory, handle, todo, written, faults, history>>

\* Mutant: a fold does not look for the id in the name.
FindByNameOnly(c) ==
  /\ call[c].at = "byName"
  /\ LET named == {i \in Ids : IsLive(i) /\ file[i].name = call[c].want} IN
     \/ \E i \in named : Found(c, i)
     \/ named = {} /\ Found(c, None)

\* The first of list_files that bears the name; any order of updates may be.
FindByName(c) ==
  /\ call[c].at = "byName"
  /\ LET named == {i \in Ids : IsLive(i) /\ file[i].name = call[c].want} IN
     \/ \E i \in named : Found(c, i)
     \/ /\ named = {}
        /\ IF call[c].stage \in {"check", "fold"} /\ call[c].want.id # None
           THEN /\ Work(c, [at |-> "byEmbedded"])
                /\ UNCHANGED <<file, hist, memory, handle, todo, written, faults, history>>
           ELSE Found(c, None)

FindEmbedded(c) ==
  /\ call[c].at = "byEmbedded"
  /\ Found(c, IF file[call[c].want.id] = None THEN None ELSE call[c].want.id)

-----------------------------------------------------------------------------
(* open.                                                                   *)

NewFile(n) == [kind |-> "file", id |-> None, name |-> n, buf |-> 0, dirty |-> FALSE]
Wipes(intent) == intent \in {"Truncate", "Overwrite"}
Refused(intent, exists) ==
  IF exists THEN intent = "Create" ELSE intent \in {"Open", "Truncate"}

\* Mutant: metadata at the root is listed as a directory.
OpenScratchListed(c) ==
  /\ Ready(c, "open") /\ InScratch(Req(c).path)
  /\ LET p == Req(c).path IN
     /\ ~Refused(Req(c).intent, p \in DOMAIN scratch)
     /\ dirs' = dirs \cup {p.dir}
     /\ Insert(p, 0) /\ Dropped(Held(p))
     /\ handle' = [handle EXCEPT ![c] = [kind |-> "scratch", place |-> p]]
     /\ Sent(c) /\ UNCHANGED <<call, failed, overlapped, lastOf, sidecar, missed>>
  /\ UNCHANGED <<file, hist, written, faults>>

\* open_scratch_file and open_ephemeral_file.
OpenScratch(c) ==
  /\ Ready(c, "open") /\ InScratch(Req(c).path)
  /\ LET p == Req(c).path IN
     IF Refused(Req(c).intent, p \in DOMAIN scratch)
     THEN Reject(c) /\ UNCHANGED <<memory, handle>>
     ELSE /\ dirs' = dirs \cup ({p.dir} \ {Root})
          /\ IF p \notin DOMAIN scratch \/ Wipes(Req(c).intent)
             THEN Insert(p, 0) /\ Dropped(Held(p))
             ELSE UNCHANGED <<scratch, lost>>
          /\ handle' = [handle EXCEPT ![c] = [kind |-> "scratch", place |-> p]]
          /\ Sent(c) /\ UNCHANGED <<call, failed, overlapped, lastOf, sidecar, missed>>
  /\ UNCHANGED <<file, hist, written, faults>>

BeginOpen(c) ==
  /\ Ready(c, "open") /\ ~InScratch(Req(c).path)
  /\ Begin(c, Seek(Req(c).path.file, "from"))
  /\ UNCHANGED <<file, hist, memory, handle, written, faults, history>>

\* A name nobody bears becomes the display name of a new file, whole.
OpenNew(c) ==
  /\ call[c].at = "found" /\ Op(c) = "open" /\ call[c].found = None
  /\ IF Refused(call[c].req.intent, FALSE)
     THEN Fail(c) /\ UNCHANGED handle
     ELSE /\ handle' = [handle EXCEPT ![c] = NewFile(call[c].req.path.file)]
          /\ Finish(c) /\ UNCHANGED failed
  /\ UNCHANGED <<file, hist, memory, written, faults, overlapped, lastOf, lost, sidecar, missed>>

\* open_existing: read_current, which finds the content of a trashed file too.
OpenRead(c) ==
  /\ call[c].at = "found" /\ Op(c) = "open" /\ call[c].found # None
  /\ LET i == call[c].found.id IN
     IF Refused(call[c].req.intent, TRUE) \/ file[i] = None
     THEN Fail(c)
     ELSE /\ Work(c, [at |-> "opening", body |-> Content(i)])
          /\ UNCHANGED <<todo, failed>>
  /\ UNCHANGED <<file, hist, memory, handle, written, faults, overlapped, lastOf, lost, sidecar, missed>>

Opened(c) ==
  /\ handle' = [handle EXCEPT ![c] =
       [kind |-> "file", id |-> call[c].found.id, name |-> call[c].want,
        buf |-> IF Wipes(call[c].req.intent) THEN 0 ELSE call[c].body,
        dirty |-> Wipes(call[c].req.intent)]]
  /\ Finish(c)

\* The row is read once more; a size that is not the content's is put right.
OpenMeta(c) ==
  /\ call[c].at = "opening"
  /\ LET row == file[call[c].found.id] IN
     IF row # None /\ row.size # call[c].body
     THEN /\ Work(c, [at |-> "healing", found |-> [id |-> call[c].found.id,
                                       row |-> [row EXCEPT !.size = call[c].body]]])
          /\ UNCHANGED <<handle, todo>>
     ELSE Opened(c)
  /\ UNCHANGED <<file, hist, memory, written, faults, history>>

OpenHeal(c) ==
  /\ call[c].at = "healing"
  /\ LET i == call[c].found.id IN
     IF file[i] = None THEN UNCHANGED <<file, overlapped>> ELSE WriteRow(c, i, call[c].found.row)
  /\ Opened(c)
  /\ UNCHANGED <<hist, memory, written, faults, failed, lastOf, lost, sidecar, missed>>

-----------------------------------------------------------------------------
(* write, flush and close.  A request on no handle is turned down.         *)

NoHandle(c) ==
  /\ \E op \in {"write", "flush", "close"} : Ready(c, op)
  /\ handle[c] = None
  /\ Reject(c)
  /\ UNCHANGED <<file, hist, memory, handle, written, faults>>

\* The file a handle is about, when it is no metadata.
Target(h) == IF h.kind = "file" THEN h.name ELSE h.place.file
Writing(c) ==
  /\ Ready(c, "write") /\ handle[c] # None
  /\ written' = Fresh
  /\ IF IsMeta(Target(handle[c]))
     THEN sidecar' = sidecar \cup {Fresh} /\ UNCHANGED lastOf
     ELSE lastOf' = [lastOf EXCEPT ![c] = Fresh] /\ UNCHANGED sidecar
  /\ Sent(c) /\ UNCHANGED <<file, hist, dirs, call, faults, failed, missed, overlapped>>

Write(c) ==
  /\ Writing(c) /\ handle[c].kind = "file"
  /\ handle' = [handle EXCEPT ![c].buf = Fresh, ![c].dirty = TRUE]
  /\ Dropped(IF handle[c].dirty THEN {handle[c].buf} ELSE {})
  /\ UNCHANGED scratch

\* The entry comes back if it was removed while the handle was open.
WriteScratch(c) ==
  /\ Writing(c) /\ handle[c].kind = "scratch"
  /\ Insert(handle[c].place, Fresh)
  /\ Dropped(Held(handle[c].place))
  /\ UNCHANGED handle

Pending(c) == handle[c] # None /\ handle[c].kind = "file" /\ handle[c].dirty
Existing(c) == handle[c].id # None

\* Nothing to commit; a new file waits for its close, scratch stays as it is.
FlushNothing(c) ==
  /\ Ready(c, "flush") /\ handle[c] # None
  /\ ~(Pending(c) /\ Existing(c))
  /\ Sent(c)
  /\ UNCHANGED <<file, hist, memory, handle, call, written, faults, history>>

CommitBuffer(c) ==
  Begin(c, [at |-> "commit", body |-> handle[c].buf, target |-> [id |-> handle[c].id, row |-> None]])

BeginFlush(c) ==
  /\ Ready(c, "flush") /\ Pending(c) /\ Existing(c)
  /\ CommitBuffer(c)
  /\ UNCHANGED <<file, hist, memory, handle, written, faults, history>>

\* The server forgets the handle, then commits what is dirty.
BeginClose(c) ==
  /\ Ready(c, "close") /\ handle[c] # None
  /\ handle' = [handle EXCEPT ![c] = None]
  /\ \/ ~Pending(c) /\ Sent(c) /\ UNCHANGED call
     \/ Pending(c) /\ Existing(c) /\ CommitBuffer(c)
     \/ /\ Pending(c) /\ ~Existing(c)
        /\ Begin(c, [at |-> "create", body |-> handle[c].buf, want |-> handle[c].name])
  /\ UNCHANGED <<file, hist, memory, written, faults, history>>

-----------------------------------------------------------------------------
(* What the engine does for a handle, a fold or a rename.                  *)

\* The scratch entry that a fold has saved is dropped, whatever it holds now.
Unscratch(c) ==
  IF call[c].key = None THEN UNCHANGED <<scratch, lost>>
  ELSE Remove(call[c].key) /\ Dropped(Held(call[c].key) \ {call[c].body})

Free == {i \in Ids : file[i] = None /\ hist[i] = <<>>}
Create(c) ==
  /\ call[c].at = "create"
  /\ \E i \in Free :
       /\ file' = [file EXCEPT ![i] = [name |-> IF Op(c) = "close" THEN call[c].want ELSE DisplayPart(call[c].want),
                                       deleted |-> FALSE, head |-> 1, size |-> call[c].body]]
       /\ hist' = [hist EXCEPT ![i] = <<call[c].body>>]
  /\ Unscratch(c) /\ Return(c)
  /\ UNCHANGED <<dirs, handle, written, faults, failed, overlapped, lastOf, sidecar, missed>>

CommitRead(c) ==
  /\ call[c].at = "commit"
  /\ LET i == call[c].target.id IN
     IF file[i] = None
     THEN /\ Fail(c) /\ Dropped(IF Op(c) = "close" THEN {call[c].body} ELSE {})
     ELSE /\ Work(c, [at |-> "append", target |-> [id |-> i, row |-> file[i]]])
          /\ UNCHANGED <<todo, failed, lost>>
  /\ UNCHANGED <<file, hist, memory, handle, written, faults, overlapped, lastOf, sidecar, missed>>

\* Mutant: the size stays that of the content before.
CommitWriteOldSize(c) ==
  /\ call[c].at = "append"
  /\ LET i == call[c].target.id
         h == Append(hist[i], call[c].body)
     IN  /\ file[i] # None
         /\ hist' = [hist EXCEPT ![i] = h]
         /\ WriteRow(c, i, [call[c].target.row EXCEPT !.head = Len(h)])
         /\ handle' = IF Op(c) = "flush" THEN [handle EXCEPT ![c].dirty = FALSE] ELSE handle
         /\ Unscratch(c) /\ Return(c) /\ UNCHANGED failed
  /\ UNCHANGED <<dirs, written, faults, lastOf, sidecar, missed>>

CommitWrite(c) ==
  /\ call[c].at = "append"
  /\ LET i == call[c].target.id
         h == Append(hist[i], call[c].body)
     IN  IF file[i] = None
         THEN /\ Fail(c) /\ Dropped(IF Op(c) = "close" THEN {call[c].body} ELSE {})
              /\ UNCHANGED <<file, hist, scratch, handle, overlapped>>
         ELSE /\ hist' = [hist EXCEPT ![i] = h]
              /\ WriteRow(c, i, [call[c].target.row EXCEPT !.head = Len(h), !.size = call[c].body])
              /\ handle' = IF Op(c) = "flush" THEN [handle EXCEPT ![c].dirty = FALSE] ELSE handle
              /\ Unscratch(c)
              /\ IF Op(c) = "rename" /\ call[c].stage = "to"
                 THEN Work(c, [at |-> "retire"]) /\ UNCHANGED todo
                 ELSE Return(c)
              /\ UNCHANGED failed
  /\ UNCHANGED <<dirs, written, faults, lastOf, sidecar, missed>>

-----------------------------------------------------------------------------
(* mkdir, rmdir and unlink.                                                *)

MkDir(c) ==
  /\ Ready(c, "mkdir")
  /\ dirs' = dirs \cup {Req(c).path.dir}
  /\ Sent(c)
  /\ UNCHANGED <<file, hist, scratch, handle, call, written, faults, history>>

InDir(d) == {p \in DOMAIN scratch : p.dir = d}

\* A directory that is not there (any more) is deleted like a file nobody has.
BeginRmDir(c) ==
  /\ Ready(c, "rmdir")
  /\ IF Req(c).path.dir \in dirs
     THEN Begin(c, [at |-> "salvage", left |-> InDir(Req(c).path.dir)])
     ELSE Sent(c) /\ UNCHANGED call
  /\ UNCHANGED <<file, hist, memory, handle, written, faults, history>>

\* What is left in it goes to the files it was meant for, if they exist.
SalvageNext(c) ==
  /\ call[c].at = "salvage"
  /\ \E p \in call[c].left :
       Work(c, With(Seek(p.file, "check"), [left |-> call[c].left \ {p}, key |-> p]))
  /\ UNCHANGED <<file, hist, memory, handle, todo, written, faults, history>>

SalvageEnd(c) ==
  /\ call[c].at = "salvage" /\ call[c].left = {}
  /\ LET d == call[c].req.path.dir IN
     /\ dirs' = dirs \ {d}
     /\ scratch' = [p \in DOMAIN scratch \ InDir(d) |-> scratch[p]]
     /\ Dropped(UNION {Held(p) : p \in InDir(d)})
  /\ Finish(c)
  /\ UNCHANGED <<file, hist, handle, written, faults, failed, overlapped, lastOf, sidecar, missed>>

UnlinkScratch(c) ==
  /\ Ready(c, "unlink") /\ Req(c).path.dir # Root
  /\ Remove(Req(c).path) /\ Dropped(Held(Req(c).path))
  /\ Sent(c)
  /\ UNCHANGED <<file, hist, dirs, handle, call, written, faults, failed, overlapped, lastOf, sidecar, missed>>

\* Metadata in memory goes first; a file an older version made of it follows.
BeginUnlink(c) ==
  /\ Ready(c, "unlink") /\ Req(c).path.dir = Root
  /\ IF IsMeta(Req(c).path.file)
     THEN Remove(Req(c).path) /\ Dropped(Held(Req(c).path))
     ELSE UNCHANGED <<scratch, lost>>
  /\ Begin(c, Seek(Req(c).path.file, "from"))
  /\ UNCHANGED <<file, hist, dirs, handle, written, faults, failed, overlapped, lastOf, sidecar, missed>>

\* A row written back from the copy the request holds, or nothing to write to.
WriteBack(c, i, row, done) ==
  IF file[i] = None
  THEN Fail(c) /\ UNCHANGED <<file, overlapped>>
  ELSE WriteRow(c, i, row) /\ done /\ UNCHANGED failed

\* Deleting what is not there is a success.
Unlink(c) ==
  /\ call[c].at = "found" /\ Op(c) = "unlink"
  /\ LET m == call[c].found IN
     IF m = None
     THEN Finish(c) /\ UNCHANGED <<file, overlapped, failed>>
     ELSE WriteBack(c, m.id, [m.row EXCEPT !.deleted = TRUE], Finish(c))
  /\ UNCHANGED <<hist, memory, handle, written, faults, lastOf, lost, sidecar, missed>>

-----------------------------------------------------------------------------
(* rename.                                                                 *)

From(c) == Req(c).path
To(c) == Req(c).to
RenameTo(c) == call[c].req.to

\* Between two places in memory.  Metadata that leaves the share's root for
\* anywhere else is dropped; what else is missing is an error.
RenameScratch(c) ==
  /\ Ready(c, "rename")
  /\ LET meta == From(c).dir = Root /\ IsMeta(From(c).file)
         here == To(c).dir = Root /\ IsMeta(To(c).file)
         moves == From(c) \in DOMAIN scratch /\ (here \/ ~meta)
     IN  /\ meta \/ (From(c).dir # Root /\ (here \/ To(c).dir # Root))
         /\ IF From(c) \notin DOMAIN scratch /\ ~meta /\ ~here
            THEN Reject(c) /\ UNCHANGED memory
            ELSE /\ scratch' = [p \in (DOMAIN scratch \ {From(c)}) \cup {q \in {To(c)} : moves} |->
                      IF p = To(c) /\ moves THEN scratch[From(c)] ELSE scratch[p]]
                 /\ dirs' = IF meta THEN dirs ELSE dirs \cup ({To(c).dir} \ {Root})
                 /\ Dropped(IF ~moves THEN Held(From(c))
                            ELSE IF From(c) # To(c) THEN Held(To(c)) ELSE {})
                 /\ Sent(c) /\ UNCHANGED <<call, failed, overlapped, lastOf, sidecar, missed>>
  /\ UNCHANGED <<file, hist, handle, written, faults>>

\* Mutant: the entry is taken out before the commit.
BeginFoldTaking(c) ==
  /\ Ready(c, "rename")
  /\ From(c).dir # Root /\ To(c).dir = Root /\ ~IsMeta(To(c).file)
  /\ From(c) \in DOMAIN scratch
  /\ Begin(c, StartFold(From(c), To(c).file)) /\ Remove(From(c))
  /\ UNCHANGED <<file, hist, dirs, handle, written, faults, history>>

\* Mutant: metadata is saved like anything else.
BeginFoldAny(c) ==
  /\ Ready(c, "rename")
  /\ From(c).dir # Root /\ To(c).dir = Root
  /\ From(c) \in DOMAIN scratch
  /\ Begin(c, StartFold(From(c), To(c).file))
  /\ UNCHANGED <<file, hist, memory, handle, written, faults, history>>

\* Out of a scratch directory: the content is saved to the file.
BeginFold(c) ==
  /\ Ready(c, "rename")
  /\ From(c).dir # Root /\ To(c).dir = Root /\ ~IsMeta(To(c).file)
  /\ IF From(c) \notin DOMAIN scratch
     THEN Reject(c)
     ELSE Begin(c, StartFold(From(c), To(c).file)) /\ UNCHANGED history
  /\ UNCHANGED <<file, hist, memory, handle, written, faults>>

BeginRename(c) ==
  /\ Ready(c, "rename")
  /\ From(c).dir = Root /\ ~IsMeta(From(c).file)
  /\ Begin(c, Seek(From(c).file, "from"))
  /\ UNCHANGED <<file, hist, memory, handle, written, faults, history>>

\* A target in the trash or under another name is first brought back.
FoldTarget(c) ==
  /\ call[c].at = "found" /\ call[c].stage = "fold"
  /\ LET m == call[c].target
         name == DisplayPart(call[c].want)
     IN  \/ m = None /\ Work(c, [at |-> "create"]) /\ UNCHANGED <<file, scratch, todo, failed, overlapped, lost>>
         \/ /\ m # None /\ (m.row.deleted \/ m.row.name # name)
            /\ WriteBack(c, m.id, [m.row EXCEPT !.deleted = FALSE, !.name = name],
                         Work(c, [at |-> "commit"]) /\ UNCHANGED todo)
            /\ IF file[m.id] = None
               THEN Remove(call[c].key) /\ Dropped(Held(call[c].key))
               ELSE UNCHANGED <<scratch, lost>>
         \/ /\ m # None /\ ~m.row.deleted /\ m.row.name = name
            /\ Work(c, [at |-> "commit"]) /\ UNCHANGED <<file, scratch, todo, failed, overlapped, lost>>
  /\ UNCHANGED <<hist, dirs, handle, written, faults, lastOf, sidecar, missed>>

Gone(m) == file[m.id] = None

\* Into a scratch directory: a copy of the content, the file stays.
Backup(c) ==
  /\ call[c].at = "found" /\ Op(c) = "rename" /\ call[c].stage = "from" /\ RenameTo(c).dir # Root
  /\ LET m == call[c].found IN
     IF m = None \/ Gone(m)
     THEN Fail(c) /\ UNCHANGED <<memory, lost>>
     ELSE /\ Insert(RenameTo(c), Content(m.id))
          /\ dirs' = dirs \cup {RenameTo(c).dir}
          /\ Dropped(Held(RenameTo(c)))
          /\ Finish(c) /\ UNCHANGED failed
  /\ UNCHANGED <<file, hist, handle, written, faults, overlapped, lastOf, sidecar, missed>>

\* Nothing to rename is an error, but for a client that is cleaning up.
RenameFrom(c) ==
  /\ call[c].at = "found" /\ Op(c) = "rename" /\ call[c].stage = "from" /\ RenameTo(c).dir = Root
  /\ IF call[c].found # None
     THEN Work(c, Seek(RenameTo(c).file, "to")) /\ UNCHANGED <<todo, failed>>
     ELSE IF RenameTo(c).file.id = None /\ RenameTo(c).file.text \in Hidden
     THEN Finish(c) /\ UNCHANGED failed
     ELSE Fail(c)
  /\ UNCHANGED <<file, hist, memory, handle, written, faults, overlapped, lastOf, lost, sidecar, missed>>

Renames(c) == call[c].target # None => call[c].target.id = call[c].found.id

\* Onto another file: its content becomes a commit of that one.
RenameOver(c) ==
  /\ call[c].at = "found" /\ Op(c) = "rename" /\ call[c].stage = "to"
  /\ ~Renames(c)
  /\ IF file[call[c].found.id] = None
     THEN Fail(c)
     ELSE /\ Work(c, [at |-> "commit", body |-> Content(call[c].found.id)])
          /\ UNCHANGED <<todo, failed>>
  /\ UNCHANGED <<file, hist, memory, handle, written, faults, overlapped, lastOf, lost, sidecar, missed>>

\* Onto itself or a name nobody bears: the display name changes.
RenameRow(c) ==
  /\ call[c].at = "found" /\ Op(c) = "rename" /\ call[c].stage = "to"
  /\ Renames(c)
  /\ LET m == call[c].found IN
     WriteBack(c, m.id, [m.row EXCEPT !.name = DisplayPart(RenameTo(c).file)], Finish(c))
  /\ UNCHANGED <<hist, memory, handle, written, faults, lastOf, lost, sidecar, missed>>

\* The last step of RenameOver: the source goes to the trash.
Retire(c) ==
  /\ call[c].at = "retire"
  /\ LET m == call[c].found IN
     WriteBack(c, m.id, [m.row EXCEPT !.deleted = TRUE], Finish(c))
  /\ UNCHANGED <<hist, memory, handle, written, faults, lastOf, lost, sidecar, missed>>

-----------------------------------------------------------------------------
(* Faults.                                                                 *)

Fault == faults < MaxFaults /\ faults' = faults + 1
Reviving(c) ==
  /\ call[c].at = "found" /\ call[c].stage = "fold" /\ call[c].target # None
  /\ call[c].target.row.deleted \/ call[c].target.row.name # DisplayPart(call[c].want)

\* An access to the database fails, or the permission is missing.  A lookup of
\* the salvage that fails ends the rmdir; a revival that fails drops the content.
Refuse(c) ==
  /\ Fault /\ call[c].at \notin {"idle", "salvage", "opening", "healing"}
  /\ IF call[c].at \in {"byId", "byName", "byEmbedded"} /\ call[c].stage = "check"
     THEN Error(c, todo[c]) ELSE Fail(c)
  /\ \/ /\ Dropped(IF Op(c) = "close" THEN {call[c].body} ELSE {})
        /\ UNCHANGED scratch
     \/ /\ Reviving(c)
        /\ Remove(call[c].key) /\ Dropped(Held(call[c].key))
  /\ UNCHANGED <<file, hist, dirs, handle, written, overlapped, lastOf, sidecar, missed>>

\* The server closes the handles of a connection that is lost.
Disconnect(c) ==
  /\ Fault /\ call[c].at = "idle" /\ todo[c] # <<>>
  /\ todo' = [todo EXCEPT ![c] = IF handle[c] = None THEN <<>> ELSE <<[op |-> "close"]>>]
  /\ failed' = failed \cup {c}
  /\ UNCHANGED <<file, hist, memory, handle, call, written, overlapped, lastOf, lost, sidecar, missed>>

Buffered(c) == IF Pending(c) THEN {handle[c].buf} ELSE {}
InMemory == (UNION {Buffered(c) \cup {call[c].body} : c \in Clients}) \cup {scratch[p] : p \in DOMAIN scratch}

Crash ==
  /\ Fault
  /\ dirs' = {} /\ scratch' = <<>>
  /\ handle' = [c \in Clients |-> None]
  /\ call' = [c \in Clients |-> Resting] /\ todo' = [c \in Clients |-> <<>>]
  /\ failed' = Clients /\ Dropped(InMemory)
  /\ UNCHANGED <<file, hist, written, overlapped, lastOf, sidecar, missed>>

\* purge_file, from the trash of the web UI.
Purge(i) ==
  /\ Fault /\ file[i] # None /\ ~IsLive(i)
  /\ file' = [file EXCEPT ![i] = None]
  /\ Dropped({hist[i][k] : k \in 1..Len(hist[i])})
  /\ UNCHANGED <<hist, memory, handle, call, todo, written, failed, overlapped, lastOf, sidecar, missed>>

Take(c) ==
  \/ OpenScratch(c) \/ BeginOpen(c) \/ NoHandle(c) \/ Write(c) \/ WriteScratch(c)
  \/ FlushNothing(c) \/ BeginFlush(c) \/ BeginClose(c) \/ MkDir(c) \/ BeginRmDir(c)
  \/ UnlinkScratch(c) \/ BeginUnlink(c) \/ RenameScratch(c) \/ BeginFold(c) \/ BeginRename(c)
Serve(c) ==
  \/ FindById(c) \/ FindByName(c) \/ FindEmbedded(c)
  \/ OpenNew(c) \/ OpenRead(c) \/ OpenMeta(c) \/ OpenHeal(c)
  \/ Create(c) \/ CommitRead(c) \/ CommitWrite(c)
  \/ SalvageNext(c) \/ SalvageEnd(c) \/ Unlink(c)
  \/ FoldTarget(c) \/ Backup(c) \/ RenameFrom(c) \/ RenameOver(c) \/ RenameRow(c) \/ Retire(c)

Next ==
  \/ \E c \in Clients : Take(c) \/ Serve(c) \/ Refuse(c) \/ Disconnect(c)
  \/ Crash
  \/ \E i \in Ids : Purge(i)

Spec == Init /\ [][Next]_vars

-----------------------------------------------------------------------------
(* Properties.                                                             *)

Committed(i) == {hist[i][k] : k \in 1..Len(hist[i])}
Kept == (UNION {Committed(i) : i \in {j \in Ids : file[j] # None}}) \cup InMemory
Done(c) == todo[c] = <<>> /\ call[c].at = "idle" /\ handle[c] = None

\* What a client has written is in a history, in a buffer or in scratch, until
\* it is given up: removed or overwritten by a client, or lost in a crash, a
\* purge or a failed commit that nobody can be told of.
NothingVanishes == (2..written) \subseteq Kept \cup lost

\* A client that has gone through its way of saving without an error finds its
\* last content in the history of the file it saved, whoever saves beside it and
\* wherever the file has been moved meanwhile, unless its name was looked for
\* while it was away: that makes another file of the name.
SaveLands ==
  \A c \in Clients : (Done(c) /\ c \notin failed /\ ~missed /\ lastOf[c] # None
                    /\ file[FirstId] # None) =>
    lastOf[c] \in Committed(FirstId)

\* The file keeps its identity: it ends up where it was, showing the content
\* one of the savers wrote last, and no temporary file stays beside it.
SaveKeepsIdentity ==
  (/\ \A c \in Clients : Done(c)
   /\ file[FirstId] # None /\ failed = {} /\ ~missed /\ overlapped = {}
   /\ \E c \in Clients : lastOf[c] # None) =>
  /\ IsLive(FirstId) /\ file[FirstId].name = Plain(FirstText)
  /\ Content(FirstId) \in {lastOf[c] : c \in Clients}
  /\ \A i \in Ids \ {FirstId} : ~IsLive(i)

\* However a client saves, the file has it, and is the file it was.
SavesArrive == SaveLands /\ SaveKeepsIdentity

\* Rows are written whole from copies.  A file shows the last commit of its
\* history, with its size, unless two requests had its row in hand at once.
HeadIsLatest ==
  \A i \in Ids : (file[i] # None /\ i \notin overlapped) =>
    /\ file[i].head = Len(hist[i])
    /\ file[i].size \in {Content(i), 0}

\* AppleDouble files and .DS_Store live in memory only.
MetadataNotStored == \A i \in Ids : Committed(i) \cap sidecar = {}

=============================================================================
