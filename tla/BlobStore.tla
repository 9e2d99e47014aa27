------------------------------ MODULE BlobStore ------------------------------
(***************************************************************************)
(* The content-addressed blob store of yozist-storage (fs.rs): tasks that  *)
(* put the same and different contents at the same time, over a directory  *)
(* whose names point to inodes.                                            *)
(*                                                                         *)
(* An inode outlives its name: a task that has a file open goes on writing *)
(* into the inode wherever the name has been moved meanwhile.  put shares  *)
(* one temporary name per content; put_stream has a name of its own.       *)
(***************************************************************************)
EXTENDS Naturals

CONSTANTS
  Contents, Tasks, Inodes, NoInode,
  Chunks,     \* writes it takes to fill a file
  MaxBreaks,  \* bound on writes that fail and tasks that are dropped
  Delete,     \* does the sweeper delete blobs?
  NoContent

ASSUME BlobAssumption ==
  /\ Chunks \in Nat \ {0} /\ MaxBreaks \in Nat /\ Delete \in BOOLEAN
  /\ NoInode \notin Inodes /\ NoContent \notin Contents

VARIABLES
  blob,   \* the entry <root>/ab/cdef of each content
  tmp,    \* the entry <root>/ab/cdef.tmp of each content
  own,    \* the entry <root>/.tmp/... of each put_stream
  data,   \* the chunks in each inode
  pc, want, ino, done,  \* of a task: content, open inode, chunks written
  breaks,
  shared  \* contents two puts have written at the same time

dir == <<blob, tmp, own>>
blobVars == <<blob, tmp, own, data, pc, want, ino, done, breaks, shared>>

Chunk == Contents \X (1..Chunks)
First(c, n) == {c} \X (1..n)
Whole(c) == First(c, Chunks)
Steps == {"idle", "create", "write", "rename", "stream", "check", "publish"}
InodeOrNone == Inodes \cup {NoInode}

BlobTypeOK ==
  /\ blob \in [Contents -> InodeOrNone] /\ tmp \in [Contents -> InodeOrNone]
  /\ own \in [Tasks -> InodeOrNone]
  /\ data \in [Inodes -> SUBSET Chunk]
  /\ pc \in [Tasks -> Steps]
  /\ want \in [Tasks -> Contents \cup {NoContent}]
  /\ ino \in [Tasks -> InodeOrNone]
  /\ done \in [Tasks -> 0..Chunks]
  /\ breaks \in Nat
  /\ shared \subseteq Contents
  /\ \A w \in Tasks : pc[w] # "idle" => want[w] \in Contents
  /\ \A w \in Tasks : pc[w] \in {"write", "stream"} => ino[w] \in Inodes /\ done[w] < Chunks

BlobInit ==
  /\ blob = [c \in Contents |-> NoInode]
  /\ tmp = [c \in Contents |-> NoInode]
  /\ own = [w \in Tasks |-> NoInode]
  /\ data = [i \in Inodes |-> {}]
  /\ pc = [w \in Tasks |-> "idle"]
  /\ want = [w \in Tasks |-> NoContent]
  /\ ino = [w \in Tasks |-> NoInode]
  /\ done = [w \in Tasks |-> 0]
  /\ breaks = 0
  /\ shared = {}

-----------------------------------------------------------------------------
\* A free inode has neither a name nor a task that has it open.
Free ==
  {i \in Inodes : /\ \A c \in Contents : blob[c] # i /\ tmp[c] # i
                  /\ \A w \in Tasks : own[w] # i /\ ino[w] # i}

\* It makes no difference which of them the file system takes.
NewInode == CHOOSE i \in Free : TRUE

\* The call returns and its file is closed.
Return(w) ==
  /\ pc' = [pc EXCEPT ![w] = "idle"]
  /\ want' = [want EXCEPT ![w] = NoContent]
  /\ ino' = [ino EXCEPT ![w] = NoInode]
  /\ done' = [done EXCEPT ![w] = 0]

Open(w, i, where) ==
  /\ pc' = [pc EXCEPT ![w] = where]
  /\ ino' = [ino EXCEPT ![w] = i]
  /\ done' = [done EXCEPT ![w] = 0]
  /\ data' = [data EXCEPT ![i] = {}]

\* put: a blob that exists is returned at once, whatever is in it.
BeginPut(w, c) ==
  /\ pc[w] = "idle"
  /\ blob[c] = NoInode
  /\ pc' = [pc EXCEPT ![w] = "create"]
  /\ want' = [want EXCEPT ![w] = c]
  /\ UNCHANGED <<dir, data, ino, done, breaks, shared>>

Putting(c) == {w \in Tasks : want[w] = c /\ pc[w] \in {"write", "rename"}}

\* Mutant: a temporary file that is already there is taken for a whole one.
CreateTmpTrusting(w) ==
  /\ pc[w] = "create"
  /\ LET c == want[w] IN
     /\ \/ /\ tmp[c] # NoInode
           /\ pc' = [pc EXCEPT ![w] = "rename"]
           /\ UNCHANGED <<tmp, ino, done, data>>
        \/ /\ tmp[c] = NoInode /\ Free # {}
           /\ Open(w, NewInode, "write") /\ tmp' = [tmp EXCEPT ![c] = NewInode]
     /\ shared' = IF Putting(c) = {} THEN shared ELSE shared \cup {c}
  /\ UNCHANGED <<blob, own, want, breaks>>

\* File::create truncates a temporary file that is already there.
CreateTmp(w) ==
  /\ pc[w] = "create"
  /\ LET c == want[w] IN
     /\ \/ tmp[c] # NoInode /\ Open(w, tmp[c], "write") /\ UNCHANGED tmp
        \/ /\ tmp[c] = NoInode /\ Free # {}
           /\ Open(w, NewInode, "write") /\ tmp' = [tmp EXCEPT ![c] = NewInode]
     /\ shared' = IF Putting(c) = {} THEN shared ELSE shared \cup {c}
  /\ UNCHANGED <<blob, own, want, breaks>>

\* rename moves what the name holds now, which may be another task's file;
\* it fails when another task has moved the file already.
Rename(w) ==
  /\ pc[w] = "rename"
  /\ LET c == want[w] IN
     IF tmp[c] = NoInode THEN UNCHANGED <<blob, tmp>>
     ELSE /\ blob' = [blob EXCEPT ![c] = tmp[c]]
          /\ tmp' = [tmp EXCEPT ![c] = NoInode]
  /\ Return(w)
  /\ UNCHANGED <<own, data, breaks, shared>>

\* put_stream: a file of its own, filled from the stream.
BeginStream(w, c) ==
  /\ pc[w] = "idle"
  /\ Free # {}
  /\ Open(w, NewInode, "stream") /\ own' = [own EXCEPT ![w] = NewInode]
  /\ want' = [want EXCEPT ![w] = c]
  /\ UNCHANGED <<blob, tmp, breaks, shared>>

\* Mutant: no flush, the last chunk does not reach the file.
WriteUnflushed(w) ==
  /\ pc[w] \in {"write", "stream"}
  /\ data' = IF done[w] + 1 = Chunks THEN data
             ELSE [data EXCEPT ![ino[w]] = @ \cup {<<want[w], done[w] + 1>>}]
  /\ done' = [done EXCEPT ![w] = @ + 1]
  /\ pc' = IF done[w] + 1 < Chunks THEN pc
           ELSE [pc EXCEPT ![w] = IF @ = "write" THEN "rename" ELSE "check"]
  /\ UNCHANGED <<dir, want, ino, breaks, shared>>

Write(w) ==
  /\ pc[w] \in {"write", "stream"}
  /\ data' = [data EXCEPT ![ino[w]] = @ \cup {<<want[w], done[w] + 1>>}]
  /\ done' = [done EXCEPT ![w] = @ + 1]
  /\ pc' = IF done[w] + 1 < Chunks THEN pc
           ELSE [pc EXCEPT ![w] = IF @ = "write" THEN "rename" ELSE "check"]
  /\ UNCHANGED <<dir, want, ino, breaks, shared>>

\* The stream's content is known only now.
CheckExists(w) ==
  /\ pc[w] = "check"
  /\ IF blob[want[w]] # NoInode
     THEN Return(w) /\ own' = [own EXCEPT ![w] = NoInode]
     ELSE pc' = [pc EXCEPT ![w] = "publish"] /\ UNCHANGED <<own, want, ino, done>>
  /\ UNCHANGED <<blob, tmp, data, breaks, shared>>

Publish(w) ==
  /\ pc[w] = "publish"
  /\ blob' = [blob EXCEPT ![want[w]] = own[w]]
  /\ own' = [own EXCEPT ![w] = NoInode]
  /\ Return(w)
  /\ UNCHANGED <<tmp, data, breaks, shared>>

DeleteBlob(c) ==
  /\ Delete /\ blob[c] # NoInode
  /\ blob' = [blob EXCEPT ![c] = NoInode]
  /\ UNCHANGED <<tmp, own, data, pc, want, ino, done, breaks, shared>>

\* A write fails (the disk is full) or the stream breaks: put_stream removes
\* its file, put leaves the temporary one.  Or the task is dropped at one of
\* its awaits, with the request it serves or with the process; the file of a
\* put_stream then stays under a name nobody uses again.
Fail(w) ==
  /\ breaks < MaxBreaks
  /\ pc[w] # "idle"
  /\ breaks' = breaks + 1
  /\ own' = [own EXCEPT ![w] = NoInode]
  /\ Return(w)
  /\ UNCHANGED <<blob, tmp, data, shared>>

Task(w) ==
  \/ \E c \in Contents : BeginPut(w, c) \/ BeginStream(w, c)
  \/ CreateTmp(w) \/ Write(w) \/ Rename(w) \/ CheckExists(w) \/ Publish(w)
  \/ Fail(w)

BlobNext == (\E w \in Tasks : Task(w)) \/ (\E c \in Contents : DeleteBlob(c))

BlobSpec == BlobInit /\ [][BlobNext]_blobVars

-----------------------------------------------------------------------------
Complete(c) == data[blob[c]] = Whole(c)

\* Without faults a blob that is not whole is still being written: two puts
\* of one content share a file, one truncates what the other has written and
\* either may publish it, but the last to truncate it fills it again.
SettledComplete ==
  breaks = 0 =>
    \A c \in Contents : blob[c] # NoInode =>
      Complete(c) \/ \E w \in Tasks : pc[w] = "write" /\ ino[w] = blob[c]

\* Whatever writes fail and tasks are dropped, a blob is published whole, if
\* no two puts of its content overlapped: half a file is never renamed.
PublishedWhole ==
  \A c \in Contents \ shared : blob[c] # NoInode => Complete(c)

\* Without faults a temporary file belongs to a put that is still at work.
NoTempLeft ==
  breaks = 0 => \A c \in Contents : tmp[c] # NoInode => Putting(c) # {}

\* No half-written file passes for a blob or stays behind.
NothingHalf == PublishedWhole /\ NoTempLeft
=============================================================================
