------------------------------ MODULE Library ------------------------------
(***************************************************************************)
(* Files, trash and search: the rows of files, the links to tags and the   *)
(* full-text index (tables files, file_tags, files_fts), which nothing in  *)
(* the database keeps in step.  Every request that changes a file reads    *)
(* its row, writes the whole row back some calls later and brings the      *)
(* index up to date at the end, beside other requests on the same file.    *)
(*                                                                         *)
(* Each handler is the sequence of database calls it makes (CommitSteps,   *)
(* RenameSteps, ...), each step is one call with what the handler decides  *)
(* on its result.  A name changes in four ways: by a rename over REST, by  *)
(* an upload in place of the content (?name=), by a rename in the SMB view *)
(* of all files (retitle) and by a saved temporary file that brings its    *)
(* original back under its name (fold); only the first keeps tags and      *)
(* index in step.  All files are text, with one system tag made from the   *)
(* name (ext:).  A tag is its name.  Text and heads are numbers: the n-th  *)
(* text committed anywhere; 0 is no text.  How blobs and history keep the  *)
(* texts is in Versioning, which tags the AI owns is in AiTags.            *)
(***************************************************************************)
EXTENDS Naturals, Sequences, FiniteSets

CONSTANTS
  Requests,    \* requests that may run beside each other
  Files, Names,
  UserTags,    \* tags users and the AI link
  AiTag,       \* the one of them the AI proposes
  Ext(_),      \* the system tag of a name
  Source,      \* the tag src:rest or src:smb
  FirstRows,   \* the rows there may be to begin with
  Arrivals,    \* the requests that may come: of what kind, on which file
  MaxRequests, \* bound on the requests ever started
  MaxFaults,   \* bound on crashes and failing calls
  None

ASSUME LibraryAssumption ==
  /\ AiTag \in UserTags /\ Source \notin UserTags
  /\ Names \cap (UserTags \cup {Source}) = {}
  /\ \A n \in Names : Ext(n) \notin Names \cup UserTags \cup {Source}
  /\ MaxRequests \in Nat /\ MaxFaults \in Nat

VARIABLES
  row,     \* the row of each file
  links,   \* file_tags
  index,   \* files_fts: the entry of each file
  call,    \* the request each process works on
  written, \* the last text committed
  started, faults,
  met,       \* history: pairs of requests that had a file in hand at once, since the last one that rewrote its entry undisturbed
  mixed,     \* history: files where one that gives names met another writer of the row, or a rename was cut
  cut,       \* history: files a fault hit, since the last request that rewrote the entry undisturbed
  unindexed, \* history: tags changed and names given since the tags were last read for the index, by calls that leave the index alone
  unfit      \* history: system tags of names given and given up by calls that leave the links alone, until a handler puts them right

tables == <<row, links, index>>
bounds == <<written, started, faults>>
history == <<met, mixed, cut, unindexed, unfit>>
vars == <<tables, call, bounds, history>>

-----------------------------------------------------------------------------
ExtTags == {Ext(n) : n \in Names}
Tags == UserTags \cup ExtTags \cup {Source}
Rows == [state: {"live", "trash"}, name: Names, head: Nat] \cup
        [state: {"none", "gone"}, name: {None}, head: {0}]
NoRow == [state |-> "none", name |-> None, head |-> 0]
Gone == [NoRow EXCEPT !.state = "gone"]
Exists(f) == row[f].state \in {"live", "trash"}
Entries == [name: Names, tags: SUBSET Tags, text: Nat]
NoEntry == [name |-> None, tags |-> {}, text |-> 0]

(* The handlers, as the database calls they make.  A definition named      *)
(* after another with a word added is a slip that the properties must      *)
(* notice; nothing uses it.                                                *)
CommitSteps == <<"read", "row", "tag", "list", "index">>
SaveSteps == CommitSteps \o <<"actor", "stamp">>
UploadStepsUntagged == <<"read", "row", "list", "index", "actor", "stamp">>
UploadSteps == SaveSteps
RetitleSteps == <<"read", "retitle">>
FoldStepsUnindexed == RetitleSteps \o <<"read", "row", "tag", "list">>
FoldSteps == RetitleSteps \o CommitSteps
CreateSteps == <<"insert", "row", "tag", "list", "index", "source", "actor", "stamp">>
RenameStepsAdding == <<"read", "body", "row", "tag", "list", "index">>
RenameSteps == <<"read", "body", "row", "untag", "tag", "list", "index">>
DeleteSteps == <<"read", "row", "unindex">>
DiscardSteps == <<"read", "row">>
RefreshSteps == <<"list", "again", "index">>
RestoreStepsRow == <<"read", "row">>
RestoreSteps == <<"read", "row">> \o RefreshSteps
PurgeSteps == <<"read", "unindex", "purge">>
EmptySteps == <<"scan", "unindex", "purge">>
AttachSteps == <<"link">> \o RefreshSteps
DetachSteps == <<"unlink">> \o RefreshSteps
DropSteps == <<"unlink">>
AiSteps == <<"read", "replace", "list", "index">>

Steps == [commit |-> CommitSteps, save |-> SaveSteps, create |-> CreateSteps, rename |-> RenameSteps,
          upload |-> UploadSteps, retitle |-> RetitleSteps, fold |-> FoldSteps,
          delete |-> DeleteSteps, discard |-> DiscardSteps, restore |-> RestoreSteps, purge |-> PurgeSteps,
          empty |-> EmptySteps, attach |-> AttachSteps, detach |-> DetachSteps, drop |-> DropSteps,
          ai |-> AiSteps]
Ops == DOMAIN Steps
Saves == {"commit", "save", "create", "upload", "fold"}
Namers == {"rename", "upload", "retitle", "fold"}
RowWriters == Saves \cup Namers \cup {"delete", "discard", "restore"}
Removers == {"delete", "purge", "empty"}
Refreshers == Saves \cup {"rename", "restore", "attach", "detach", "ai"}
Taggers == Refreshers \cup {"drop"}

ASSUME ArrivalsAssumption ==
  /\ FirstRows \subseteq [Files -> Rows] /\ Arrivals \subseteq (Ops \ {"empty"}) \X Files
  /\ None \notin Files \cup Names \cup UserTags \cup Ops

Idle == [op |-> None, at |-> 0, file |-> None, row |-> NoRow, name |-> None, tag |-> None,
         text |-> 0, tags |-> {}, todo |-> {}, progress |-> FALSE, alone |-> TRUE]
Calls == [op: Ops, at: 1..8, file: Files \cup {None}, row: Rows, name: Names \cup {None},
          tag: UserTags \cup {None}, text: Nat, tags: SUBSET Tags, todo: SUBSET Files,
          progress: BOOLEAN, alone: BOOLEAN]

TypeOK ==
  /\ row \in [Files -> Rows] /\ links \in [Files -> SUBSET Tags]
  /\ index \in [Files -> Entries \cup {NoEntry}]
  /\ call \in [Requests -> Calls \cup {Idle}]
  /\ \A p \in Requests : call[p].op # None => call[p].at \in DOMAIN Steps[call[p].op]
  /\ written \in Nat /\ started \in 0..MaxRequests /\ faults \in 0..MaxFaults
  /\ met \in [Files -> SUBSET SUBSET Ops] /\ mixed \subseteq Files /\ cut \subseteq Files
  /\ unindexed \in [Files -> SUBSET (Tags \cup Names)] /\ unfit \in [Files -> SUBSET ExtTags]

Init ==
  /\ row \in FirstRows
  /\ links = [f \in Files |-> IF Exists(f) THEN {Ext(row[f].name), AiTag} ELSE {}]
  /\ index = [f \in Files |-> IF row[f].state = "live"
                THEN [name |-> row[f].name, tags |-> links[f], text |-> row[f].head] ELSE NoEntry]
  /\ call = [p \in Requests |-> Idle]
  /\ written = 1 /\ started = 0 /\ faults = 0
  /\ met = [f \in Files |-> {}] /\ mixed = {} /\ cut = {}
  /\ unindexed = [f \in Files |-> {}] /\ unfit = [f \in Files |-> {}]

-----------------------------------------------------------------------------
(* Requests.                                                               *)

At(p, step) == call[p].op # None /\ Steps[call[p].op][call[p].at] = step
Holds(p) == call[p].todo \cup ({call[p].file} \ {None})
Others(p, f) == {q \in Requests \ {p} : f \in Holds(q)}

(* p takes up the files F, as c: whoever has one of them in hand meets it. *)
Join(p, F, c) ==
  LET meets == [f \in Files |-> IF f \in F THEN {{c.op, call[q].op} : q \in Others(p, f)} ELSE {}]
      disturbed == {q \in Requests \ {p} : Holds(q) \cap F # {}}
  IN /\ met' = [f \in Files |-> met[f] \cup meets[f]]
     /\ mixed' = mixed \cup {f \in F : \E pair \in meets[f] : pair \cap Namers # {} /\ pair \subseteq RowWriters}
     /\ call' = [q \in Requests |->
          IF q = p THEN [c EXCEPT !.alone = c.alone /\ disturbed = {}]
          ELSE IF q \in disturbed THEN [call[q] EXCEPT !.alone = FALSE] ELSE call[q]]

(* The request ends.  One that wrote the entry of its file anew with       *)
(* nobody beside it has made good what went before.                        *)
Mended(p) == call[p].alone /\ At(p, "index") /\ call[p].op \in {"commit", "rename"}
Ends(p) ==
  LET mended == IF Mended(p) THEN {call[p].file} ELSE {}
      renamed == IF call[p].op = "rename" THEN mended ELSE {}
  IN /\ call' = [call EXCEPT ![p] = Idle]
     /\ met' = [f \in Files |-> IF f \in mended THEN {} ELSE met[f]]
     /\ cut' = cut \ mended /\ mixed' = mixed \ renamed
Stop(p) == call' = [call EXCEPT ![p] = Idle] /\ UNCHANGED <<met, mixed, cut>>

(* The call returned: on with c, or the end.                               *)
Goes(p, c) ==
  \/ call[p].at < Len(Steps[call[p].op]) /\ call' = [call EXCEPT ![p] = [c EXCEPT !.at = c.at + 1]]
     /\ UNCHANGED <<met, mixed, cut>>
  \/ call[p].at = Len(Steps[call[p].op]) /\ Ends(p)

Arguments(op, f) ==
  CASE op \in {"create", "upload", "retitle", "fold"} -> [name: Names, tag: {None}]
    [] op = "rename" -> [name: Names \ {row[f].name}, tag: {None}]
    [] op \in {"attach", "detach", "drop"} -> [name: {None}, tag: UserTags]
    [] OTHER -> [name: {None}, tag: {None}]

Start(p, op, f) ==
  /\ call[p].op = None /\ started < MaxRequests /\ started' = started + 1
  /\ IF op = "create" THEN row[f].state = "none" /\ \A q \in Requests : f \notin Holds(q)
                      ELSE Exists(f)
  /\ \E a \in Arguments(op, f) :
       Join(p, {f}, [Idle EXCEPT !.op = op, !.at = 1, !.file = f, !.name = a.name, !.tag = a.tag])
  /\ UNCHANGED <<tables, written, faults, cut, unindexed, unfit>>

StartEmpty(p) ==
  /\ call[p].op = None /\ started < MaxRequests /\ started' = started + 1
  /\ call' = [call EXCEPT ![p] = [Idle EXCEPT !.op = "empty", !.at = 1]]
  /\ UNCHANGED <<tables, written, faults, history>>

-----------------------------------------------------------------------------
(* Rows.                                                                   *)

AcceptsLive(c, r) == r.state \in {"live", "trash"} /\ (c.op = "restore" => r.state = "trash")

(* What a handler wants of the row it read: restore and purge are for the  *)
(* trash, the AI for files that have content, the SMB rename for files out *)
(* of the trash.  A fold that finds its file out of the trash and under    *)
(* its name is a commit.                                                   *)
Accepts(c, r) ==
  /\ r.state \in {"live", "trash"}
  /\ c.op \in {"restore", "purge"} => r.state = "trash"
  /\ c.op = "ai" => r.head # 0
  /\ c.op = "retitle" => r.state = "live"
  /\ c.op = "fold" /\ c.at = 1 => r.state = "trash" \/ r.name # c.name

Read(p) ==
  LET c == call[p]  f == c.file
  IN /\ At(p, "read")
     /\ \/ Accepts(c, row[f]) /\ Goes(p, [c EXCEPT !.row = row[f]])
        \/ ~Accepts(c, row[f]) /\ Stop(p)
     /\ UNCHANGED <<tables, bounds, unindexed, unfit>>

(* engine.create_file: insert_file.                                        *)
Insert(p) ==
  LET c == call[p]
      new == [state |-> "live", name |-> c.name, head |-> 0]
  IN /\ At(p, "insert")
     /\ row' = [row EXCEPT ![c.file] = new]
     /\ Goes(p, [c EXCEPT !.row = new])
     /\ UNCHANGED <<links, index, bounds, unindexed, unfit>>

(* rename_file: read_current, for the index.                               *)
ReadBody(p) ==
  /\ At(p, "body")
  /\ Goes(p, [call[p] EXCEPT !.text = row[call[p].file].head])
  /\ UNCHANGED <<tables, bounds, unindexed, unfit>>

(* The row a handler makes of the one it read.                             *)
Changed(c) ==
  CASE c.op = "upload" -> [c.row EXCEPT !.head = written + 1, !.name = c.name]
    [] c.op \in Saves \ {"upload"} -> [c.row EXCEPT !.head = written + 1]
    [] c.op = "rename" -> [c.row EXCEPT !.name = c.name]
    [] c.op \in {"delete", "discard"} -> [c.row EXCEPT !.state = "trash"]
    [] c.op = "restore" -> [c.row EXCEPT !.state = "live"]

(* An upload leaves the system tag of the name before, and is to put on    *)
(* that of its own.                                                        *)
Unfits(c) ==
  IF c.op = "upload" THEN [unfit EXCEPT ![c.file] = (@ \cup {Ext(c.row.name)}) \ {Ext(c.name)}] ELSE unfit

(* insert_commit with update_file, or update_file alone: the whole row.    *)
WriteRow(p) ==
  LET c == call[p]  f == c.file
      saves == c.op \in Saves
  IN /\ At(p, "row")
     /\ \/ /\ Exists(f)
           /\ row' = [row EXCEPT ![f] = Changed(c)]
           /\ written' = IF saves THEN written + 1 ELSE written
           /\ unfit' = Unfits(c)
           /\ Goes(p, [c EXCEPT !.row = Changed(c), !.text = IF saves THEN written + 1 ELSE c.text])
        \/ ~Exists(f) /\ Stop(p) /\ UNCHANGED <<row, written, unfit>>
     /\ UNCHANGED <<links, index, started, faults, unindexed>>

(* The rename in the SMB view of all files, and the first write of a fold: *)
(* update_file with the new name, the fold's out of the trash, and nothing *)
(* else.                                                                   *)
Retitle(p) ==
  LET c == call[p]  f == c.file
      new == [c.row EXCEPT !.name = c.name, !.state = IF c.op = "fold" THEN "live" ELSE @]
  IN /\ At(p, "retitle")
     /\ \/ /\ Exists(f)
           /\ row' = [row EXCEPT ![f] = new]
           /\ unindexed' = [unindexed EXCEPT ![f] = @ \cup {c.name}]
           /\ unfit' = [unfit EXCEPT ![f] = @ \cup {Ext(c.row.name), Ext(c.name)}]
           /\ Goes(p, [c EXCEPT !.row = new])
        \/ ~Exists(f) /\ Stop(p) /\ UNCHANGED <<row, unindexed, unfit>>
     /\ UNCHANGED <<links, index, bounds>>

(* record_file_actor: the row is read again, then written back.            *)
ReadActor(p) ==
  LET c == call[p]
  IN /\ At(p, "actor")
     /\ \/ Exists(c.file) /\ Goes(p, [c EXCEPT !.row = row[c.file]])
        \/ ~Exists(c.file) /\ Stop(p)
     /\ UNCHANGED <<tables, bounds, unindexed, unfit>>

WriteActor(p) ==
  LET c == call[p]
  IN /\ At(p, "stamp")
     /\ row' = IF Exists(c.file) THEN [row EXCEPT ![c.file] = c.row] ELSE row
     /\ Goes(p, c)
     /\ UNCHANGED <<links, index, bounds, unindexed, unfit>>

(* purge_file: the row and all that hangs on it; not the index.  empty_    *)
(* trash goes on with the next file, and lists the trash again after a     *)
(* round in which it purged something.                                     *)
Purge(p) ==
  LET c == call[p]  f == c.file
      done == Exists(f)
      progress == c.progress \/ done
  IN /\ At(p, "purge")
     /\ row' = IF done THEN [row EXCEPT ![f] = Gone] ELSE row
     /\ links' = IF done THEN [links EXCEPT ![f] = {}] ELSE links
     /\ \/ c.op = "purge" /\ Ends(p)
        \/ /\ c.op = "empty" /\ c.todo # {}
           /\ \E g \in c.todo :
                call' = [call EXCEPT ![p] = [c EXCEPT !.at = 2, !.file = g, !.todo = c.todo \ {g},
                                                      !.progress = progress]]
           /\ UNCHANGED <<met, mixed, cut>>
        \/ /\ c.op = "empty" /\ c.todo = {} /\ progress
           /\ call' = [call EXCEPT ![p] = [Idle EXCEPT !.op = "empty", !.at = 1]]
           /\ UNCHANGED <<met, mixed, cut>>
        \/ c.op = "empty" /\ c.todo = {} /\ ~progress /\ Ends(p)
     /\ UNCHANGED <<index, bounds, unindexed, unfit>>

(* list_deleted_files: empty_trash may purge some of them.                 *)
Trash == {f \in Files : row[f].state = "trash"}
Scan(p) ==
  /\ At(p, "scan")
  /\ \/ \E F \in SUBSET Trash \ {{}} : \E f \in F :
          /\ Join(p, F, [call[p] EXCEPT !.at = 2, !.file = f, !.todo = F \ {f}])
          /\ UNCHANGED cut
     \/ Stop(p)
  /\ UNCHANGED <<tables, bounds, unindexed, unfit>>

-----------------------------------------------------------------------------
(* Links to tags.                                                          *)

Link(p) ==
  LET c == call[p]
  IN /\ At(p, "link")
     /\ \/ /\ Exists(c.file)
           /\ links' = [links EXCEPT ![c.file] = @ \cup {c.tag}]
           /\ Goes(p, c)
        \/ ~Exists(c.file) /\ Stop(p) /\ UNCHANGED links
     /\ UNCHANGED <<row, index, bounds, unindexed, unfit>>

(* detach_tag, by the REST call, which refreshes the index, or by unlink   *)
(* in the SMB view of tags, which does not.                                *)
Unlink(p) ==
  LET c == call[p]
  IN /\ At(p, "unlink")
     /\ links' = [links EXCEPT ![c.file] = @ \ {c.tag}]
     /\ unindexed' = IF c.op = "drop" THEN [unindexed EXCEPT ![c.file] = @ \cup ({c.tag} \cap links[c.file])]
                   ELSE unindexed
     /\ Goes(p, c)
     /\ UNCHANGED <<row, index, bounds, unfit>>

(* persist_create, persist_commit and rename_file: the system tag of the   *)
(* name the request knows; a failure is only logged.                       *)
TagSystem(p) ==
  LET c == call[p]
  IN /\ At(p, "tag")
     /\ links' = IF Exists(c.file) THEN [links EXCEPT ![c.file] = @ \cup {Ext(c.row.name)}] ELSE links
     /\ unfit' = [unfit EXCEPT ![c.file] = @ \ {Ext(c.row.name)}]
     /\ Goes(p, c)
     /\ UNCHANGED <<row, index, bounds, unindexed>>

(* rename_file: all tags of kind System come off, those of the upload too. *)
UntagSystem(p) ==
  LET c == call[p]
  IN /\ At(p, "untag")
     /\ links' = [links EXCEPT ![c.file] = @ \cap UserTags]
     /\ unfit' = [unfit EXCEPT ![c.file] = {}]
     /\ Goes(p, c)
     /\ UNCHANGED <<row, index, bounds, unindexed>>

(* attach_source_tag, after the index was written.                         *)
TagSource(p) ==
  LET c == call[p]
  IN /\ At(p, "source")
     /\ links' = IF Exists(c.file) THEN [links EXCEPT ![c.file] = @ \cup {Source}] ELSE links
     /\ unindexed' = IF Exists(c.file) THEN [unindexed EXCEPT ![c.file] = @ \cup {Source}] ELSE unindexed
     /\ Goes(p, c)
     /\ UNCHANGED <<row, index, bounds, unfit>>

(* replace_ai_file_tags.                                                   *)
ReplaceAi(p) ==
  LET c == call[p]
  IN /\ At(p, "replace")
     /\ \/ /\ Exists(c.file)
           /\ \E T \in {{}, {AiTag}} : links' = [links EXCEPT ![c.file] = (@ \ {AiTag}) \cup T]
           /\ Goes(p, c)
        \/ ~Exists(c.file) /\ Stop(p) /\ UNCHANGED links
     /\ UNCHANGED <<row, index, bounds, unindexed, unfit>>

(* delete_tag: the links go with the tag; nobody looks at the index.       *)
DeleteTag(t) ==
  /\ started < MaxRequests /\ started' = started + 1
  /\ links' = [f \in Files |-> links[f] \ {t}]
  /\ unindexed' = [f \in Files |-> IF t \in links[f] THEN unindexed[f] \cup {t} ELSE unindexed[f]]
  /\ UNCHANGED <<row, index, call, written, faults, met, mixed, cut, unfit>>

-----------------------------------------------------------------------------
(* The index.                                                              *)

ListTags(p) ==
  LET c == call[p]
  IN /\ At(p, "list")
     /\ unindexed' = [unindexed EXCEPT ![c.file] = {}]
     /\ Goes(p, [c EXCEPT !.tags = links[c.file]])
     /\ UNCHANGED <<tables, bounds, unfit>>

ReadAgainText(p) ==
  LET c == call[p]
  IN /\ At(p, "again")
     /\ \/ Exists(c.file) /\ Goes(p, [c EXCEPT !.row = row[c.file], !.text = row[c.file].head])
        \/ ~Exists(c.file) /\ Stop(p)
     /\ UNCHANGED <<tables, bounds, unindexed, unfit>>

(* refresh_fts_tags: the name, read after the tags; the text is given up.  *)
ReadAgain(p) ==
  LET c == call[p]
  IN /\ At(p, "again")
     /\ \/ Exists(c.file) /\ Goes(p, [c EXCEPT !.row = row[c.file]])
        \/ ~Exists(c.file) /\ Stop(p)
     /\ UNCHANGED <<tables, bounds, unindexed, unfit>>

Entry(c) == [name |-> c.row.name, tags |-> c.tags, text |-> c.text]

Index(p) ==
  LET c == call[p]
  IN /\ At(p, "index")
     /\ index' = [index EXCEPT ![c.file] = Entry(c)]
     /\ Goes(p, c)
     /\ UNCHANGED <<row, links, bounds, unindexed, unfit>>

Unindex(p) ==
  LET c == call[p]
  IN /\ At(p, "unindex")
     /\ index' = [index EXCEPT ![c.file] = NoEntry]
     /\ Goes(p, c)
     /\ UNCHANGED <<row, links, bounds, unindexed, unfit>>

(* search_fts: the files whose entry has the term in its name, in its tags *)
(* or in its text.  Their ranking and the limit are left out.              *)
Hits(column, term) ==
  {f \in Files : /\ index[f] # NoEntry
                 /\ \/ column = "name" /\ index[f].name = term
                    \/ column = "tags" /\ term \in index[f].tags
                    \/ column = "text" /\ index[f].text = term}

(* search_files: the hits that have a row out of the trash.  Which of them *)
(* the caller may see is in Access.                                        *)
Found(column, term) == {f \in Hits(column, term) : row[f].state = "live"}

-----------------------------------------------------------------------------
(* Faults: a call fails and the handler returns its error, or, for the     *)
(* index, ignores it; the process ends.                                    *)

Fault(F) ==
  /\ faults < MaxFaults /\ faults' = faults + 1
  /\ cut' = cut \cup F
  /\ UNCHANGED <<tables, written, started, met, unindexed, unfit>>

Touched(p) == IF call[p].op = None \/ call[p].at = 1 THEN {} ELSE Holds(p)

Fails(p) ==
  /\ call[p].op # None /\ Fault(Touched(p))
  /\ mixed' = IF call[p].op = "rename" THEN mixed \cup {call[p].file} ELSE mixed
  /\ call' = [call EXCEPT ![p] = Idle]

IndexBusy(p) ==
  /\ At(p, "index") \/ At(p, "unindex")
  /\ call[p].at < Len(Steps[call[p].op]) /\ Fault(Holds(p))
  /\ call' = [call EXCEPT ![p] = [call[p] EXCEPT !.at = call[p].at + 1]]
  /\ UNCHANGED mixed

Crash ==
  /\ \E p \in Requests : call[p].op # None
  /\ Fault(UNION {Touched(p) : p \in Requests})
  /\ mixed' = mixed \cup {call[p].file : p \in {q \in Requests : call[q].op = "rename"}}
  /\ call' = [p \in Requests |-> Idle]

-----------------------------------------------------------------------------
RowStep(p) == Read(p) \/ Insert(p) \/ ReadBody(p) \/ WriteRow(p) \/ Retitle(p) \/ ReadActor(p) \/ WriteActor(p)
                \/ Purge(p) \/ Scan(p)
TagStep(p) == Link(p) \/ Unlink(p) \/ TagSystem(p) \/ UntagSystem(p) \/ TagSource(p) \/ ReplaceAi(p)
IndexStep(p) == ListTags(p) \/ ReadAgain(p) \/ Index(p) \/ Unindex(p)

Next ==
  \/ \E p \in Requests :
       \/ \E a \in Arrivals : Start(p, a[1], a[2])
       \/ StartEmpty(p)
       \/ RowStep(p) \/ TagStep(p) \/ IndexStep(p)
       \/ Fails(p) \/ IndexBusy(p)
  \/ \E t \in UserTags : DeleteTag(t)
  \/ Crash

Spec == Init /\ [][Next]_vars

-----------------------------------------------------------------------------
(* Properties.  The history says what may have gone wrong with a file: a   *)
(* fault, or two requests that had it in hand at the same time.            *)

Quiet(f) == \A p \in Requests : f \notin Holds(p)
Apart(f, S) == f \notin cut /\ \A pair \in met[f] : ~(pair \subseteq S)
Settled(f) == row[f].state = "live" /\ Quiet(f)

(* A live file nobody works on can be found: only a deletion or a purge    *)
(* that ran beside another request, or a fault, leaves a live file out of  *)
(* the index (delete_file and restore_file in yozist-api lib.rs write the  *)
(* row and then the index; commits, renames and refreshes never lose it).  *)
LiveIndexed ==
  \A f \in Files :
    Settled(f) /\ f \notin cut /\ (\A pair \in met[f] : pair \cap Removers = {}) => index[f] # NoEntry

(* Search never matches an older text: the entry of a file has the text of *)
(* its head or none, unless two requests that write the row ran beside     *)
(* each other.  Refreshes after a change of tags run beside saves without  *)
(* bringing an older text back (refresh_fts_tags, refresh_fts in job.rs).  *)
TextNotOlder ==
  \A f \in Files :
    Settled(f) /\ Apart(f, RowWriters)
      => \A text \in 1..written : f \in Found("text", text) => text = row[f].head

(* A file is found by its name, unless one that gives names ran beside     *)
(* another request on it or two writers of its row met -- and but for a    *)
(* name given over SMB, which is not in the index before the next commit,  *)
(* rename or refresh (backends.rs, AllBackend::rename).                    *)
NameCurrent ==
  \A f \in Files :
    Settled(f) /\ Apart(f, RowWriters) /\ (\A pair \in met[f] : pair \cap Namers = {})
      => \A name \in Names : f \in Found("name", name) => name = row[f].name \/ row[f].name \in unindexed[f]

(* The tags a file is found by are its tags, but for the changes made      *)
(* since by the calls that leave the index alone (delete_tag, unlink in    *)
(* the SMB view, attach_source_tag) and for requests that ran beside each  *)
(* other.                                                                  *)
TagsIndexed ==
  \A f \in Files :
    Settled(f) /\ Apart(f, Taggers) /\ index[f] # NoEntry
      => \A t \in Tags \ unindexed[f] : f \in Found("tags", t) <=> t \in links[f]

(* The system tag of a file is that of its name: a rename replaces it      *)
(* (rename_file), a save puts back only what the name gives, and an upload *)
(* under another name adds the tag of that name.  But the upload never     *)
(* takes the old tag off, and a name given over SMB leaves both as they    *)
(* were, until a commit adds the new and a rename takes off the old.       *)
SystemTagsFit ==
  \A f \in Files :
    Settled(f) /\ f \notin cut \cup mixed
      => \A t \in ExtTags \ unfit[f] : t \in links[f] <=> t = Ext(row[f].name)

(* Nothing is left to find of a purged file, unless a request on it ran    *)
(* beside the purge: purge_trash_file and empty_trash clear the index      *)
(* before the row, and files_fts is not a table the row's end reaches.     *)
NoGhostEntry ==
  \A f \in Files :
    row[f].state = "gone" /\ Quiet(f) /\ f \notin cut /\ (\A pair \in met[f] : pair \cap {"purge", "empty"} = {})
      => index[f] = NoEntry

(* Search and files are about the same files, and say the same of each.    *)
EntriesOfLive == LiveIndexed /\ NoGhostEntry
EntryFits == TextNotOlder /\ NameCurrent /\ TagsIndexed

(* A purge takes a file out of the trash, never a live one, unless another *)
(* request had the file in hand between the look and the purge.            *)
PurgedFromTrash ==
  [][\A f \in Files : row[f].state = "live" /\ row'[f].state = "gone"
       => \E pair \in met[f] : pair \cap {"purge", "empty"} # {}]_vars

=============================================================================
