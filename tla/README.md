# TLA+ verification of yozist

yozist is a self-hosted file platform in Rust: files with a version history over
a content-addressed blob store, metadata in SQLite, background jobs that make
previews and AI tags, and REST, browser and SMB front-ends. This directory holds
TLA+ models of the parts where concurrency, failure or a long sequence of legal
calls decides whether the program is right, the TLC configurations that check
them on small instances, and TLAPS proofs of what matters most for every
instance. Paths below are relative to the repository.

## 1. The system

| Part | State | Operations | Modelled in |
|---|---|---|---|
| Blob store (`crates/yozist-storage`) | a directory of files named by content hash, temporary files | `put`, `put_stream`, `get`, `exists`, `delete` | `BlobStore` |
| Versioning engine (`crates/yozist-versioning`) and its tables | `commits`, `blob_orphans`, the head in `files` | create, commit (buffered and streamed), rollback, rename, read, compaction, sweep of orphaned blobs | `Versioning` |
| Job queue (`crates/yozist-jobs`) | table `jobs` | enqueue, claim, done / retry / failed, reclaim, purge; worker loops and drains | `JobQueue`, which implements `QueuePromise` |
| Preview cache (`crates/yozist-cache`) | table `preview_cache`, generated files | lookup, mark pending / ready / failed, deletions; job handler; sweeper | `PreviewCache` |
| AI tagging (`crates/yozist-ai` and the tag calls of `yozist-db`) | `tags`, `file_tags`, `ai_file_tags`, `ai_tag_runs` | upsert, attach, detach, delete, merge, rename; ask for tags, job handler, sweep of unused tags | `AiTags` |
| Files, trash, search (`crates/yozist-db`, handlers of `yozist-api`) | rows of `files`, `file_tags`, the full-text index `files_fts` | create, save, rename, delete, restore, purge, empty the trash, attach, detach | `Library` |
| SMB view `all` (`crates/yozist-smb`) | open handles with a buffer each, scratch directories in memory | open, write, flush, close, rename, unlink, mkdir, rmdir | `SmbAll` |
| SMB views by tag and series, REST calls on series | `file_tags`, `series`, `series_members`, owners' rules | drop a file in, retag, untag, add, move, remove, reorder, sort; merge and delete tags | `SmbViews` |
| Filters and share tokens (`yozist-api`, `yozist-db`, `yozist-auth`) | `filters`, `share_tokens` | create, update, delete, list; issue, revoke, use | `Shares` |
| Authorizer and filter resolver (`yozist-auth`, `yozist-db/resolver.rs`) | `acl_rules`, groups | decide, add a rule, group members, list a filter | `Access`, which composes with `Shares` |
| Server process (`apps/yozist-server`) | the background tasks | two sweepers every 15 minutes, commands | in the module of what they work on |

How they interact: every front-end request is a task of one tokio runtime. It
calls the engine, which awaits the database and the blob store several times;
nothing locks a file between those awaits, so requests on one file interleave
freely, with each other and with the sweepers. A request that needs slow work
enqueues a job and returns; a worker of the server, or of a command started
beside it in a process of its own, claims it. Processes share nothing but
SQLite and the directories. A crash drops every task of one process and keeps
the tables and the files; what SMB holds in buffers and scratch is lost.

What is hard in it, and what makes each part correct:

- **Job queue.** Workers of several processes poll one table; a handler may
  outlive its lease; a crash may hit between recording a failure and telling the
  domain; a drain has to know when it is done. Correct means: the parts that use
  the queue may see it as `QueuePromise` says, the domain is told of every
  permanent failure and only of those, attempts are bounded, every job comes to
  an end.
- **Versioning.** A commit reads the head, computes a delta and writes three
  rows; compaction rewrites the parent's row with a patch against its child; the
  sweeper counts references and deletes. Correct means: every version can be had
  back, a reader finds what it has listed, delta chains stay short, nothing
  leaks, and the head never loses a commit.
- **Blob store.** Two tasks may put the same content, sharing a temporary file
  name; writes fail and tasks are dropped half way. Correct means: what is
  under a blob's name is whole.
- **Preview cache.** A request, the handler and the sweeper each touch a row and
  a file in several steps. Correct means: a preview is of the commit it is
  named after, no file is forgotten on disk, and a preview that is asked for is
  eventually there or declared failed.
- **AI tags.** Users and job handlers write the same rows of tags, each call in
  several statements; the head moves while a model is thinking; every
  `ai-tag-generate` command sweeps unused AI tags beside a running server.
  Correct means: what a user attached or made is taken by nobody else, a file
  whose run says ready has the tags of its head, and what was asked for is
  answered.
- **Files and search.** Rows are written back whole from copies read several
  awaits before, nothing in the database keeps the full-text index in step
  with them, and a name is given in four ways of which one brings tags and index
  up to date in full. Correct means: exactly the live files are found, by what
  they are, and a purge takes only what is in the trash.
- **SMB.** Clients save in many ways: in place, through a temporary file renamed
  over the document, by swapping it out of a scratch directory; several clients
  at once, and any step may fail. Correct means: what was written is somewhere
  until a client gives it up, a save that ended well is in the history of the
  file it was meant for, and the file keeps its identity.
- **Access and shares.** A decision is several reads, a filter is written from a
  copy, a token may be revoked while it is used. Correct means: an answer was
  right at some moment of the request, an owner keeps the file, a filter is what
  was last asked of it, a token ends when it should.

The hazards, each at its line with the properties that cover it, are in
`PROJECT.json`.

## 2. Modules

| Module | What it is |
|---|---|
| `JobQueue`, `MCJobQueue`, `JobQueueProofs` | the job table and its workers over several processes |
| `QueuePromise` | the abstract queue that `JobQueue` implements |
| `Versioning`, `MCVersioning`, `VersioningProofs` | the engine, its tables and the orphan sweeper |
| `BlobStore`, `MCBlobStore`, `DiskProofs` | names, inodes and overlapping writes |
| `PreviewCache`, `MCPreviewCache`, `DiskProofs` | rows, files, handler, requests, sweeper |
| `AiTags`, `MCAiTags`, `AiTagsProofs` | tags of files, the user's calls and the AI job |
| `Library`, `LibraryProofs`, `MCLibrary` | rows of files, links to tags, trash, search index |
| `SmbAll`, `SmbAllProofs`, `MCSmbAll` | the SMB view of all files, handles, scratch |
| `SmbViews`, `SmbViewsProofs`, `MCSmbViews` | the SMB views by tag and by series, series over REST |
| `Shares` | filters and share tokens |
| `Access`, `MCAccess`, `AccessProofs` | rules and decisions, listings of filters; extends `Shares` |

The `MC` modules give TLC the constants; the `Proofs` modules extend the
component and TLAPS. Definitions introduced by "Mutant:", or named after another
with a word added, are plausible bugs that no specification uses; each shows
that a property notices when the code goes wrong in that way.

**Granularity.** One action is what no other task can interrupt: an SQL
statement, an explicit transaction, a file-system call, an access to a lock.
Two statements in a row are two actions, however close they stand in the source.
What happens between two awaits without touching shared state is folded into the
step before or after. `Library`, `SmbViews` and `Shares` write a handler as the
sequence of calls it makes (`Steps`); a call is an action that ends by going on
to the next one, or by stopping with the error the handler returns.

**History.** Variables declared as history are read by no guard: they record
what a property has to know of the past, mostly whether requests had the same
row in hand at once. Where the code does not protect such requests from each
other the property says so in its premise.

### JobQueue

`status`, `attempts`, `delay` and `age` are the columns of a row; timestamps are
replaced by timers (`delay` is `run_after` minus now, `age` is now minus
`updated_at`) that saturate where the code stops telling values apart. `pc`,
`job` and `seen` are the locals of `run_one` and `mark_failed_retry` per worker;
`notified` records calls of `on_permanent_failure`. `Enqueue`, `ClaimNext`,
`MarkDone`, `ReadAttempts` and `MarkFailedRetry` (SELECT and UPDATE of
`mark_failed_retry`), `MarkFailedPermanent`, `ReclaimStalled` and
`PurgeFinished` are the statements of `store.rs`; `Start`, `BootReclaim`,
`PeriodicReclaim`, `HandlerReturns`, `OnPermanentFailure` and `DrainReturns` are
the loops of `lib.rs`. A unique index makes an `UPDATE` that would create a
second live row of a key fail, and the model keeps that (`IndexAdmits`). Faults:
a process crash, a result write that fails, and a lease that expires under a
living handler (inside `Tick`), each counted and bounded.

`QueuePromise` is the queue without table, timers and polling: `Submit`, `Take`,
`Settle`, `LetGo` (workers die or lose an outcome), `Recover` and `Forget`. The
refinement mapping takes `state` to `status`, `runners` to the workers that hold
a job (`Holders`) and rivalry to a shared key. `ImplementsPromise` says that the
initial states are those of the abstract queue and that every step is one of
its steps or a stutter until a lease expires under a living worker: after that
it is not true of the code. `KeepsPromise` is `QueuePromise!Spec` itself, for
instances without such an expiry. `PreviewCache` and `AiTags` see the queue as a
part of this promise each.

### Versioning

A blob is named by what it holds: `Full(c)`, or `Patch(c, d)`, which turns
content `c` into `d` and applied to anything else gives nothing useful
(`Apply`). `log` is the `commits` table, `file` the row of `files`, `queue` the
candidates of `blob_orphans`, `op` the locals of each request, `gc` those of the
sweeper; `truth` is history: what each commit was made with. `chain_depth`,
`deepest_distance_to` and `materialize_from` are the functions `Depth`,
`DeepestDistanceTo` and `Restore` over the chain of delta bases (`Link`, `History`
is `list_commits`). A commit is
`BeginCommit`, `List`, `Fetch`, `Put`, `InsertCommit`, `UpdateFile`; the
streaming kinds go `BeginRaw`, `Put`, `InsertCommit`, `UpdateFile` and then
through compaction: `CompactList`, `CompactFetch`, `PutPatch`, `QueuePatch`,
`Reencode`, `QueueOld`. A rename stands for every request that reads a row of
`files` and writes it back. A read and the first half of `rollback_to` share
`Materialize` (`BeginRead`, `BeginRollback`); `rollback_to` goes on as a commit.
`WithStorage` is `update_commit_storage`, by id and whatever the row is by then.

Two switches say which environment a run assumes. `Recurring`: a content may be
stored again after it was stored once; without it, it is new to the rows, the
requests, the disk and the candidates (`Unused`). The candidates count too: after
a crash between the deletion of a blob and the removal of its candidate the
candidate outlives the blob, and a put of that content would be swept away again.
`Overlap`: requests may run beside a
purge and beside the short time the sweeper needs to settle a candidate.
`Overlap = FALSE` is *not* guaranteed by the code; the run that uses it shows what
holds when nothing overlaps there, and section 5 what happens when something
does.

The grace period of the sweeper (15 minutes) is modelled by what it is meant to
outlast: `queue[b]` holds the requests that were in flight when the candidate
was registered, and it is due when they are all over. A re-registered candidate
keeps its date, as `INSERT OR IGNORE` does.

### BlobStore

`blob`, `tmp` and `own` are directory entries that point to inodes, so that a
task that has a file open goes on writing into it after a rename, as on a POSIX
file system. `put` names its temporary file after the content and truncates one
that exists; `put_stream` uses a name of its own. `Chunks` writes fill a file.
`Fail` is a failing write or a dropped task at any await.

### PreviewCache

`row` is `preview_cache`, `disk` the commit each file was really made from,
`work` the handler of each worker, `req` a request or command, `sweep` the
sweeper with its snapshot of the heads. The queue is reduced to what JobQueue
establishes: one job per key, handed out again after a crash or an expired lease,
a bounded number of tries, a report when they are used up; the rows of one key
are seen as one, so a late outcome settles whatever job the key has by then.
`Format` gives each worker the output format of its process: a command started
with another configuration writes another extension. `Watched` selects the
commits whose rows are followed; the head moves over others as well. A removal of
a file may fail, in the handler and in the sweeper, which both only log it and go
on. `strays` is history: the paths that were lost in one of the four ways the code
has (a crash before the record or the removal of a file, a failing `mark_ready`, a
`mark_ready` between the SELECT and the DELETE of a sweep, a failing
`remove_file`); a path that a row names again is taken out. There is one variant
(variants never share a row), files are images, none is in the trash, and
requests carry no `If-None-Match`. A crash stops all processes at once.

### AiTags

`tags`, `fileTags`, `aiTags` and `runs` are the tables `tags`, `file_tags`,
`ai_file_tags` and `ai_tag_runs`; `current` is the head of each file. `work` holds
the locals of a job handler, `asks` the calls of `AiTagService::enqueue` between
their two statements, `making` and `letting` a user's `upsert_tag` and
`detach_tag` between theirs. An id is a number that stands for a uuid: it is
given out again only when no row, no local and no history refers to it
(`Referred`). `upsert_tag` is `Select` and then `Upserted`, for users
(`UpsertSelect`, `UpsertWrite`) and for the handler (`ResolveSelect`,
`ResolveWrite`); `Replace` is the transaction `replace_ai_file_tags`, `MarkReady`
and `MarkFailed` the two ends of a run. What the model answers, and what the
normaliser makes of it, is any set of names. Jobs are reduced to what JobQueue
establishes, as in PreviewCache, but leases of living workers do not expire here.
`commit_file` asks for tags of the new head; a rollback and a write over SMB do
not, as in the code (`Recommit`).

History: `byHand` and `handMade` are what the user attached and made and has not
taken back, `wasAi` the attachments the AI has owned meanwhile, `shown` the
commit the tags of a file were proposed for, `crossed` the files two workers had
in hand at once, `dropped` the jobs a crash took. Left out: names of system tags
(see section 5), a change of the model, the trash, the search index. The hour a
pending run is given before `--scope stale` asks again is any time here.

### Library

`row` is what the properties need of `files` (live or in the trash, name, head),
`links` is `file_tags`, `index` the entry of each file in `files_fts`. The requests
are the handlers of `yozist-api` (`create_file`, `commit_file`, `rename_file`,
`delete_file`, `restore_file`, `purge_trash_file`, `empty_trash`, `attach_tag`,
`detach_tag`, `delete_tag`), with what they call in the engine, the commits, renames
and removals of the SMB front-end (`commit`, `retitle`, `fold`, `discard`, `drop`),
and the AI job (`ai`). `commit_file` is `save`, and `upload` when `?name=` gives the
file another name with the new content; `fold` is an SMB save of a temporary file over
a document that is in the trash or bears another name, which writes the row back as it
is to be (`Retitle`) and then commits. `Steps` lists the calls of each in order.
`Accepts` is what a handler checks of the row it read, `Changed` the row it writes
back. `empty_trash` takes any part of the trash as one page, goes through it file by
file and starts again as long as it gets on. Faults: a call that fails and ends its
request, an index write whose error is ignored (`IndexBusy`), a crash. Texts are
numbers; one extension tag stands for the system tags of a name. The ids of new files
are new. A call that attaches or detaches system tags succeeds, unless its process
ends: its error is only logged, and the tags then stay wrong.

History: `met` holds the pairs of requests that had a file in hand at once since
the entry was last written with nobody beside, `mixed` files where one of `Namers`
met another writer of the row, `cut` files a fault hit, `unindexed` the changes
of links and names made since by calls that leave the index alone, `unfit` the
system tags of names that were given and given up by calls that leave the links
alone, until a handler puts them right. `Found` is what a
search in one column answers: the entries `Hits` has, of files that are live. The
properties of entries are about what is found.

### SmbAll

`file` and `hist` are the row and the history of each file, `dirs` and `scratch`
the two maps of `ScratchFs`, `handle` the open handle of a connection with its
buffer, `call` the request a connection works on, `todo` what its client has yet
to send. A name is a text with or without an id in front, as `parse_filename`
splits it; `resolve_existing` is `FindById` and `FindByName`,
`resolve_by_embedded_id` is `FindEmbedded`. `fold_scratch_into_file`, which
rename and rmdir share, is `BeginFold`, `FoldTarget`, `Create`, `CommitRead`,
`CommitWrite`, `Unscratch`; rmdir goes through the directory with `SalvageNext`
and drops what is left with `SalvageEnd`. Writes to a file go to the buffer and
are committed at flush and close. `WriteBack` writes a whole row from a copy.

Clients send the programs of `MCSmbAll`, each a way a real one saves: in place with a
flush, by overwriting, a temporary file renamed over the document, a file out of a
scratch directory, the same left for rmdir to save, the macOS swap (the original moved
aside, the new content moved in, the old one removed), the swap that deletes the
original first, AppleDouble files beside it, a backup of the original. Any other
programs may be given, of clients that keep one file open at a time
(`ProgramsAssumption`: a connection with several handles is several clients here), put
no id before a name of metadata and never rename between metadata and documents
(`MetadataAssumption`). Faults: a refused call at any step (`Refuse`), a lost
connection, a crash, a purge of a file in the trash.

History: `lastOf` and `written` name contents, `lost` those given up, `missed`
says that a file was looked for while it bore another name, `overlapped` files
whose row two requests had at once.

### SmbViews

`files`, `tags` and `series` say what exists, `links` and `order` are `file_tags` and
`series_members` with the position in place of `order_index`, `sort` the sort order of
a series, `owned` the files with their owner's rule. The requests are uploads, files
dropped into a tag or a series (`create`, then tags or place, then the owner's rule at
close), retags and untags, moves between series, additions, numberings, removals, and
the REST calls `reorder_series_members` (`members`, then one `renumber` for each file,
then `manual`) and `update_series_sort`. Beside them tags are deleted and merged,
series deleted, files purged. Ids are never used again. The order that files were made
in is a number for each (`Before`), files are finitely many, and there is to begin
with what the database could hold: links and members only of what exists; `asked`
begins with the order of series in which no two members have one place
(`SmbViewsAssumption`); what is no id is none of the ids, and no call has its name
(`NoneAssumption`).

History: `asked` is the order the last requests that met nobody at a series asked
for, `arranged` the series a reorder came last to, `kept` and `tagged` the files
somebody put into a series or under a tag and nobody took out, `deserted` the new
files whose making ended early. `alone`, in a request, says that it has met no
other at its series.

### Shares and Access

`filter` and `token` are rows of `filters` and `share_tokens`, `rules`, `members`
and `files` those of `acl_rules`, the groups and `files`, newest first; `req` holds
the locals of each request. Time is in half days, because the list of filters
compares dates as text and so sees days (`LaterText`), and tokens go by the
second. A decision (`Decide` over `Matching`) follows `authorizer.rs`: the rules
of the caller and his groups, the highest priority first, of equal ones the one
that allows; with no rule that covers the need, a refusal if there are any rules
at all and the default mask if there are none. That count is a second read
(`CountRules`). `Resolve` puts the newest files, as many as
the limit admits, to the test one by one, in one step, as the facts do not change;
newest by creation, where `list_files` sorts by the last change, which no request of
the module makes. `Eval` and `Meets1` are `eval_file` and `eval_condition`, with the
facts about files as a constant; a condition that is ignored counts as met, as there.
A decision is about one permission, where SMB asks for two at once when a file is
opened to read and write. `Access` adds its requests to those of `Shares`
on the same variables: `filter_files` resolves a filter and then decides on each
file, `issue_file_share` decides and then issues a token.

History: `word` is what the last request no other one overlapped made of a filter,
`revoked` counts the revocations reported done; a request in `Access` notes what
was allowed at some moment (`ever`) and at every moment (`always`) since it asked.

## 3. Runs

| Run | Shows |
|---|---|
| `jobs_server` | one server with two workers and two jobs of one key, one crash, one overrun lease, one lost write: the domain is told the truth, attempts are bounded, the queue is what it promises until the lease is overrun |
| `jobs_live` | a server and a drain side by side on kinds they share in part, one crash and one lost write: every job settles, the drain returns, and the queue is `QueuePromise` |
| `versions_fresh` | two overlapping requests, sweeper, purge, crash, every content new: every version can be had back, readers find their blobs, the head loses a commit only by a stale write-back |
| `versions_sequential` | one request at a time, five commits over two files that share contents: every version can be had back, chains are short, nothing leaks |
| `blobs` | three tasks, one content, streams, deletions, one fault: no half blob is published |
| `previews` | two processes with different formats, requests, regenerations, recommit, purge, sweeper, one fault (a crash, a failed write or a failed removal): previews are of their commits, no file is forgotten but in the four known ways, what is asked for is settled |
| `tags_hand` | two edits by a user, a crash or a cleanup, a worker: what the user attached and made stays |
| `tags_runs` | two workers, two commits, retries, a crash: a ready run shows its commit, a queued job is answered |
| `library` | two of three requests at a time, of every kind on one file beside a file in the trash, or on a file that gets names in every way (REST rename, upload under another name, SMB rename, SMB save that revives or renames), one fault: search and files agree but for what such names are known to leave behind |
| `smb_all` | two clients save one file, each in any of seven ways, one of them with sidecar files or a backup beside it, with one fault: what they write arrives, and the file is the file it was |
| `smb_views` | two of three requests at a time on two series, two tags and up to three files, one fault: files keep their places, owners and order |
| `access` | two of three requests at a time of two users, a group and an anonymous caller on rules, filters and tokens, while the clock runs: answers were right at some moment, owners keep their files, filters and tokens are what was last said of them |

**Bounds and why they are enough.** JobQueue: two jobs are the least that can compete
for a key, two workers the least that can compete for a job; two attempts give one
retry and one exhaustion; lease, retention and back-off of one tick are the smallest
timers that can be before, at and after their limit, and `Horizon` is how far the
order of overdue rows is remembered. One fault of each sort lets every pair of
different faults meet; in `jobs_live` the crash and the lost write may hit the same
job. Versioning: `Interval` is 3 instead of 32, so that chains of patches reach their
limit within the commits available; three commits with two writers let two compactions
overwrite one row; five commits in sequence let forward and reverse deltas meet in one
chain and a chain be cut twice. BlobStore: three tasks, because a third can find what
two overlapping ones have left; two chunks are enough for "half". PreviewCache: one
file with three commits, of which the middle one is followed: it becomes the head, is
sampled by a sweep before and after, and is superseded; two formats and two workers
for the races of files, two tries for a retry. AiTags: `tags_hand` starts with two
manual tags, so that two edits are enough for an attachment that is then merged,
detached or renamed under a handler; one file more than the image, because a tag
another file has must survive; three ids, for one tag the handler makes. `tags_runs`
has no names, because runs do not depend on them, and two commits, because the hazard
is a handler of the old one beside one of the new. Library, SmbViews, Access: two
requests at a time, because every hazard is one request between two calls of another,
and three in all, because a third one sees what two that met have left (a row restored
after a deletion and a commit that crossed, a token used after two revocations). The
requests that name a file by other ways than a REST rename come to a file of their own
(`h`, in instances without the other two) together with a commit, a rename and a
deletion, as all kinds on one file are too many for one run; a `save` is an `upload`
under the name the file has and comes as such; two names are the old and the new one;
a series of two members is the least that has an order, and one empty series the least
to move into. SmbAll: two clients with a whole program each; the swap is the longest,
ten requests. In Access `QueryLimit` is 1 and two files may be there, so that the
limit is passed; lifetimes are one half day and the clock runs for two, so that a
filter ends on the day it is looked at; its two definitions are one without conditions
and one with a negated and a valueless condition, as those are where the rules differ
from what a reader expects.

**Symmetry** is used where only safety is checked (`Versioning_*`, `BlobStore`,
`Library`, `SmbViews`, `Access`): files, writers, contents, tasks, requests, users
and names are interchangeable there, as the properties and the constants are
invariant under these permutations.

**Deadlock.** Runs whose requests, commits or edits are used up stop by
themselves; these configurations say `CHECK_DEADLOCK FALSE`. The runs of
JobQueue and BlobStore are checked for deadlock.

**Fairness.** `JobQueue!FairSpec`: weak fairness of every worker's step and of
time; the code justifies it because each worker is a task that polls in a loop
and sleeps for a bounded time. Nothing makes anyone enqueue, restart or write
wrongly. `PreviewCache!FairSpec`: weak fairness of tasks that have begun and of
the queue's handing out again; requests, commits and sweeps need not happen, and
`Heals` says itself that someone has to ask again and again. `AiTags!FairSpec`:
the same for the handler, the two statements of `enqueue` and the queue; nobody
has to run `ai-tag-generate`. The other modules state safety only: their requests
are straight sequences of calls, each of which returns or fails, and nothing in
them waits for another request.

## 4. What the properties say

- *JobQueue*: `ReportsTrue` (no report of a job that runs again, no permanent
  failure without one), `AttemptsBounded`, `EveryJobSettles`, `DrainEnds`,
  `ImplementsPromise`, `KeepsPromise`. The premises about `faults` are part of the
  statements: each says exactly which fault breaks it in the code. `DrainEnds`
  excepts a drain that waits for rows a fault left running with no server up.
  `OneLivePerKey`, `SoleRunner` and `TerminalIsFinal` are proved and follow from
  the refinement as long as it holds, so no run repeats them.
- *Versioning*: `Restorable` joins `HistoryIntact` (the stored chain of every
  commit gives what history says it was made with), `NoBlobLost` (what rows refer
  to is on disk) and `HeadInLog`. `ReadersFindBlobs` relates a request's list to
  the disk it reads later; it excludes a row that two compactions overwrote
  (`contested`), because the patch of the first was registered when it was made
  and so has no grace left when it is replaced. `ChainsCut`, `NoLeak`,
  `HeadAdvances`: a new head descends from the one it replaces, but where a request
  writes back a row whose head another one has moved since (`Stale`), which the code
  does not prevent (section 5). Overlap without such a move loses nothing.
- *BlobStore*: `SettledComplete` (no faults: a blob that is not whole is still
  being filled), `NothingHalf` (any faults: half a file is never published, for
  contents no two puts wrote at once; without faults no temporary file stays).
- *PreviewCache*: `PreviewOfItsCommit`, `NoOrphan` (a file is named by its row or held
  by a task, but for the paths lost in the four ways `strays` names), `Heals` (again
  and again served or failed). `Heals` requires that eventually no two handlers work
  on the same key: without it TLC finds two processes with different formats that
  remove each other's file for ever, each time between the other's rename and its
  record. It takes a lease that expired and perfect bad luck.
- *AiTags*: `HandWorkStays` (an attachment by hand that the AI never proposed is
  there; no upsert and no sweep takes a manual tag or its kind), `ReadyShowsHead`
  (except for files two workers had in hand at once), `AskedIsAnswered` (from a
  job in the queue to ready or failed; the two ways a crash takes a job are named
  in it).
- *Library*: `EntriesOfLive` (live files have an entry, purged ones none), `EntryFits`
  (a live file is found by the text of its head and no older one, by its name and by
  its tags, but for the changes of both that `unindexed` names), `SystemTagsFit` (a
  file has the system tag of its name and no other, but for those `unfit` names),
  `PurgedFromTrash`. Each names the pairs of requests that break it when they meet,
  and no others: a refresh after a change of tags beside a save is not among them, nor
  a restore beside an attachment. The exceptions are what TLC finds when they are left
  out.
- *SmbAll*: `NothingVanishes` (every content is in a history, a buffer or scratch
  until a client gives it up or a counted fault takes it), `SavesArrive` (a client
  whose save ended without an error finds its content in the history of the file
  it saved, and without faults that file is live under its name, shows the
  content of one of the savers, and has no file beside it), `HeadIsLatest`,
  `MetadataNotStored`.
- *SmbViews*: `PlacesKept` (a file that is moved is in some series, one that is
  retagged has some tag), `OwnerUnlessDeserted`, `OrderKept` (the order stored and
  the order shown are those asked for), `ReorderAddsNobody`.
- *Access*: `AnswersFit` (what is granted was allowed at some moment of the
  request, what is refused was refused at some moment; but for the first rule of
  all), `OwnerKeepsAccess`, `FiltersKept` (names apart, the last word kept, listed
  until the time is over), `TokenEnds`.

`TypeOK` is checked by the runs `versions_fresh`, `smb_all` and `smb_views`, and proved for
every module with proofs, Versioning among them.

## 5. What was met on the way

What the models of this code show beyond the properties: behaviours that a
comment, a test or a reader would not expect. Where a property has an exception,
this is why.

- **Jobs.** Outcomes are written by id without checking the claim, so handing a
  living job out again can do more than waste work (a `done` row may go back to
  pending). Neither the reclaim nor the claim looks at `max_attempts`, so a job
  that kills its process is run without bound. `drain` reclaims stalled rows
  once, before its workers start; rows left running less than the lease ago are
  counted as incomplete for ever, and the drain does not return unless a server
  is up (`yozist-jobs` lib.rs:105, 126).
- **Blobs.** Two puts of one content share a temporary file, and after a fault of
  one of them half a file may be published.
- **Versions.** The reference count, the deletion and the removal of a candidate
  are three steps; a put in between is satisfied by the doomed blob
  (`yozist-versioning` lib.rs:1026, 1041). The "optimistic locking" of `update_file`
  (sqlite.rs:414) compares nothing, so a rename can put an old head back. Three
  overlapping writers can build a chain deeper than `SNAPSHOT_INTERVAL`; a candidate
  registered again between its count and its removal is forgotten.
- **Previews.** When the removal of a superseded preview, or of one of a purged file,
  fails, this is only logged (job_handler.rs:166, main.rs:831): its path is in no row
  any more, and nothing removes it unless the same preview is made again. A row can go
  from failed back to pending without a command, when a request that looked it up
  earlier marks it pending after the failure.
- **AI tags.** `replace_ai_file_tags` claims a pair that `file_tags` already holds
  by hand and detaches it when a later answer does not name it (sqlite.rs:833,
  858). Four workers may hold jobs of two commits, and then one's tags go under
  the other's ready mark. `mark_ai_tag_pending` comes after the enqueue and may
  overwrite the mark of a job that was quick (service.rs:50 counts on the job that
  is there). A tag taken off over SMB stays owned by the AI, and that call does
  not have the check of the REST one (yozist-api lib.rs:1998). Two creations of
  one tag with different kinds may leave the weaker one. A name the AI proposes
  may be that of a system tag, whose kind is then raised to `ai`.
- **Search.** Unlink in the tags view, deletion, renaming and merging of tags, and
  `attach_source_tag`, leave the tags of the index stale. The AI job's refresh
  writes the name it read when it began, and makes an entry for a file trashed or
  purged meanwhile. `empty_trash` and `purge_trash_file` may purge a file that was
  restored between their look and their purge.
- **Names.** An upload with `?name=` attaches the system tags of the new name and
  leaves those of the old one on the file (`persist_commit`, yozist-versioning
  lib.rs:760). A rename in the SMB view `all` (backends.rs:804) and an SMB save that
  revives or renames its original (backends.rs:335) write the row and nothing else:
  the file is found by its old name until its entry is next written, which the save
  does at its end, and it keeps the old system tags: a commit adds those of the new
  name, and only a rename over REST takes the old ones off.
- **System tags.** `rename_file` takes every system tag off, `src:` and `client:`
  included, where its comment (yozist-versioning lib.rs:823) speaks of the
  extension and type only.
- **SMB saves.** rmdir drops the scratch entries whose fold failed, where the
  comment (backends.rs:562) promises to save them; a failed revival of a trashed
  file drops the entry too (backends.rs:341). A backup of the original in scratch,
  then a save in place, then rmdir folds the backup over the newer content. A
  client that looks for the document by its plain name while another swaps it
  makes a second file of the name. A file whose recorded size is 0 is healed on
  open by writing back a row read before.
- **SMB views.** A tag or series of the path that is deleted while a new file is
  open ends the close before the owner's rule: the file belongs to nobody, where
  handle.rs:35 says the creator gets every right. `reorder_series_members` makes a
  member removed since its listing a member again (comment at lib.rs:2877).
- **Access.** A caller may be refused though every state before and after allows
  it, when the first rule of all comes between the two reads of a decision. A
  condition of an unknown field, or of a date that is empty, counts as met by every
  file, so that under `any` it makes all of them match; the comments at
  resolver.rs:148 and :198 say that it is ignored and does not hinder the others.
- **Filters and shares.** An expired filter stays on the list to the end of its
  last UTC day, and lookups by id or name ignore its end. Two updates of a filter
  lose one another's fields, and one that crosses a deletion makes the filter
  again. A shared link serves a file that is in the trash.

## 6. Proofs

All theorems hold for any sets and numbers that satisfy the named assumptions of
the component's module (which TLC evaluates in the runs); they assume nothing
about the bounds of the runs. Where a property holds only in one of the
environments of section 2, the theorem says so in its `ASSUME`, and the run of
that name checks it there.

- `JobQueueProofs` (assumptions `RowAssumption`, `WorkerAssumption`,
  `NumberAssumption`). `TypeCorrect` proves `TypeOK`. `DedupHolds`: the only
  steps that make a row live are an insert and a retry, both guarded by the
  index, and a reclaim, which turns a live row into a live row. `OneRunner`:
  `SoleRunner` is inductive by itself given the types, because a tick that would
  let a lease expire under a worker counts as a stall. `ReportsAreTrue` joins
  `NotifiedJobsRest`, which adds that a worker about to notify has seen its row
  recorded as failed (`NotifyInv`), and `FailuresAreReported`: a failed row
  without a report has its worker at the call. `TerminalRowsStay` is the action
  property, from `SoleRunner`. `AttemptsAreBounded` proves `AttemptsBounded` along
  `AttemptsInv`, which adds what each state of a row and of its worker still has
  in hand: a row waiting to be claimed has an attempt left or a fault to its
  account. `PromiseImplemented` is the refinement: one lemma per action names the
  abstract step it maps to. `PromiseKept` strengthens it to
  `MaxStalls = 0 => (Spec => KeepsPromise)`. `FaultsGrow` is the lemma that makes
  the premises about faults usable: faults are never taken back.
- `VersioningProofs` (`VersioningAssumption`, `NoneAssumption`). Two lemmas make
  recursive functions usable: `Induction`, which is about sets of numbers and
  follows from the well-foundedness of `<`, and `Recursion`, that a function with
  a given recursion exists. With them `LinkDef` says what `Link` is, and the rest
  is about chains. `Kept` is inductive: the types, what each request has at each
  of its steps (`OpsFit`), and `Chained`: a base is in the log, of the same file,
  and a patch goes from the content of the base to that of the commit; a commit
  that climbs (to a newer base, because it was compacted) climbs to one that does
  not fall (to an older one). So a chain falls first and then climbs, and
  `NeverTwice` follows, where circles would be possible because forward deltas
  and compactions meet in one log; a chain that never repeats ends, by the
  pigeonhole principle, and going back up it gives the content (`Restored`).
  That gives `VersioningTyped`, `HistoryRestores` and `HeadStaysInLog` under no
  assumption. `HeadAdvancesUnlessStale` takes none either: a request that is about
  to record or has recorded a commit has the head it read for its parent
  (`Follows`), so that what it makes current descends from what it replaces if that
  is still the head it read. What the sweeper may delete takes an assumption:
  `RestorableFresh` and `ReadersFresh` (`~Recurring`, everything overlapping) add
  `Fresh`, by which a
  content, a commit id and a blob belong to one request at a time and candidates
  are about contents nobody is going to record, and `Lasting`, by which what a
  request is going to read is of a row of its file or was queued while the request
  was in flight (`Saved`), and what is being swept was queued when no request of
  now was (`Swept`). They take `"rollback" \notin Ops`, because a rollback stores a
  content again. `ChainsCutAlone` holds when one request works at a time (`Alone`,
  beside sweeper, crashes and purges): it adds that the depths a request measured
  still hold (`DepthFits`); two at once go by depths that are out of date. Its
  lemmas give depth and membership of a chain from those of the base (`ByBase`).
- `DiskProofs`, on BlobStore (`BlobAssumption`). `BlobsTyped` proves `BlobTypeOK`.
  `BlobsSettle` proves `SettledComplete` along `SettleInv`: `Links` and `Holders`
  say which names, tasks and inodes may meet (the names of two contents never
  share an inode, a stream's inode has no other holder), `Streamed` that a
  stream's file holds what was written so far, `Filled` that a published or
  temporary file is whole or has a writer that has not truncated it in vain.
  `BlobsNeverHalf` proves `NothingHalf`, faults included, along `HalfInv`: outside
  `shared` the put of a content is alone and its temporary file holds what it has
  written (`Alone`).
- `DiskProofs`, on PreviewCache (`PreviewAssumption`). `PreviewsTyped` proves `TypeOK`.
  `PreviewsHonest` adds that the bytes a handler renders are those of its job's
  commit. `NoFileForgotten` proves `NoOrphan` along `Kept`: outside a file's turn
  the sweeper has no paths, and between its SELECT and its DELETE it has the path
  of every row it is about to delete (`SweepKnows`), but for those of `strays`. A
  removal that fails puts its path there, so that the invariant holds of what both
  leave behind.
- `AiTagsProofs` (`AiTagsAssumption`). `TagsTyped` proves `TypeOK`. `HandWorkKept`
  joins `HandTagsKept`, which needs `OwnedKnown`: whatever the AI owns of the
  user's attachments is in `wasAi`, so that a replacement detaches nothing else;
  and `ManualTagsKept`, inductive by itself given the types: `UpsertedKeepsManual`
  says that the second statement of `upsert_tag` lowers no kind, however old the
  row is that it decides from. `ReadyIsOfHead` proves `ReadyShowsHead` along
  `RunsInv`: nothing is asked for, queued or recorded for a commit that is not
  there yet (`NoneAhead`), two handlers of one file have crossed (`Alone`), and
  otherwise a handler past its check knows of no later answer (`Ahead`) and finds
  its own tags in place when it records (`Placed`).
- `AccessProofs` (`SharesAssumption`, `AccessAssumption`, `NoneAskedAssumption`).
  `OwnersKeepAccess` proves `OwnerKeepsAccess` from what rules can be: none has a
  priority beyond the owner's, and of equal ones the allowing is ahead. The others
  rest on `Base`, inductive as the conjunction of `Shape` (the types of the shared
  variables, which `SharesTyped` states), `Known` (requests hold filters and tokens
  that were made) and `Given`. `TokensEnd` adds `TokenInv`: a token past its end or
  revoked is refused by the verification of every request that came after.
  `FiltersKeep` joins three: `NamesStayUnique` (every write of a name is guarded by
  the index), `LastWordsKept` and `UnexpiredAreListed`. `LastWordsKept` adds that two
  requests on one filter know of each other (`Overlap`) and that the copy of one
  nobody overlapped is the row as it stands (`Fresh`). `AnswersAlwaysFit` proves
  `AnswersFit` along `Fair`: what a request has granted was allowed at some moment,
  and a file that was allowed at every moment is granted or still to be asked for, but
  for the first rule of all. `DecideIsMay` relates the decision, which is the first of
  the fitting rules in the order of the authorizer, to what may be said without an
  order: some rule allows that no denying one outranks.
- `LibraryProofs` (`LibraryAssumption`, `ArrivalsAssumption`). `LibraryTyped` proves
  `TypeOK` along `Typed`, which adds what each handler has at each of its calls
  (`Fits`): the handlers are tables of calls, so `StepTable` reads each table once
  and `Places` turns it round, from the name of a call to where it is made.
  `LibraryEntriesOfLive` and `LibraryPurgedFromTrash` rest on `Together`. Its core
  is `Meeting`: requests that have a file in hand at once are in `met` and none of
  them is `alone`, so that the one whose end forgets what went before had nobody
  beside it. `Findable` says who still owes the index an entry, and has to count
  the save that is about to write back a live row it read before a deletion;
  `RemoversSee`, that a removal past its look works on a live file only if it met
  who brought it back; `ClearedFirst` and `PurgedLeft`, that a purge leaves neither
  an entry nor a request on its way to write one. `LibraryEntryFits` and
  `LibrarySystemTagsFit` add `EntriesFit` to it, of two halves. `KnowsWell`: a
  request that is alone on a file, or has met there nobody who could change what
  it read, still has the name, the head, the text and the tags the file has.
  `TablesFit`: a table may be behind another one only while some request stands
  between the call that changed the one and the call that brings the other up to
  it (`Bared`, `Untagged`, `Unsaid`, `Naming`, `Changing` name those calls). `Mixes`
  says that one that gives a name and met another writer of the row has left its
  mark. `RetitleTyped`, `RetitleTogether` and `RetitleRight` treat the one call that
  changes a name and neither links nor index: it says so itself, in `unindexed` and
  `unfit`, and what takes a mark out again (a list of tags read for the index, an
  attachment, a rename) is what makes the tables fit. Both
  halves are needed for each other: what a request writes into the index fits
  because it knows well, and the next one knows well because the tables fitted
  when it read them. `FactsMove` and `TablesMove` say once what a step leaves in
  force, so that each action has to show only what it changes.

- `SmbAllProofs` (`SmbAllAssumption`, `ProgramsAssumption`, `MetadataAssumption`,
  `NoneAssumption`). `AllTyped` proves `TypeOK` along `Typed`: what a request has in
  hand at each of its calls (`CallFits`, by families of calls), that the handle it
  needs is there (`HandleFits`), and that what its client has yet to send opens
  nothing over an open handle (`SendsWell`). `HeadsAreLatest` adds `InStep`: the copy
  in a request's hand is the row as it stands, unless another request had the row at
  the same time; excepted are the size an open is about to put right and a target that
  is read again or has just been written. A row is written from a copy, so without
  that nothing could be said of what it writes. `MetadataStaysInMemory` follows a
  content on its way: from the names a client has yet to send (`CleanTodo`) and the
  entries of scratch (`CleanScratch`) over handles (`CleanHandle`) and the body of a
  fold (`Clean`) to the files (`CleanFiles`); the step that matters is the rename,
  which folds a document and moves metadata within scratch. `NoWriteVanishes` proves
  `NothingVanishes` along `Whole`: a fold lays its content down in a history before it
  takes the scratch entry away, a close has the content of its buffer in hand until it
  is committed, and a rename over another entry of scratch records what it replaces.

- `SmbViewsProofs` (`SmbViewsAssumption`, `NoneAssumption`). `ViewsTyped` proves
  `TypeOK` along `Typed`, which adds what each request has in hand at each of its
  calls (`Fits`), as in Library. `PlacesAreKept` adds the two halves of a move:
  a file of `kept` that is in no series has a request between its removal and its
  addition (`InSeries`), one of `tagged` that has no tag a request that still has
  tags to give (`UnderTag`). `OwnersStay` adds that the request that makes a file
  is at it until the rule is there (`OwnedOrMaking`). `OrderIsKept` and
  `ReordersAddNobody` rest on `OrderInv`. `Apart`: two requests at a series have
  met, so that what one of them alone knows of it is not behind. `AtEnd`: the place
  a request has found at the end is past every member until it is taken. `ByNow`: a
  reorder has given smaller numbers, and to none of the files it still has to come
  to, what it has numbered so far; without the second half a later number could
  overwrite one of `asked`. `Listed`: who a reorder that is alone has found is still
  a member, or is gone with its file or its series, and then the call that numbers
  it fails: so the upsert makes nobody a member. `ByHand`: a series that was
  reordered is sorted by hand, by which the list that is shown is the one that is
  stored. That list is chosen among the sorted ones: `SortedExists` says there is
  one, for any finite set (each element goes to the place that counts those before
  it), and `SmallerFirst` that in each
  of them the smaller number is first. `WithoutIs` and `WithoutRises` say what is
  left of an order when a file is taken out of it.

## 7. Only model-checked

Out of the prover's reach, and left to TLC: liveness (`EveryJobSettles`, `DrainEnds`,
`Heals`, `AskedIsAnswered`), as it rests on fairness and ENABLED. Checked on the
instances of section 3 and not proved besides: `SavesArrive` of SmbAll, which speaks
of the programs of the run: a client is promised its content in the file only if its
requests are one of those ways to save; of Versioning, `NoLeak`, and `Restorable` with
contents that recur (`versions_sequential`), as both assume more than the code
guarantees (one request at a time, nothing beside a purge or a sweep) and a theorem
under these assumptions would say little. Every other property of a passing run is a
theorem.

## 8. Not modelled

- The domain types and store traits (`yozist-core`): no behaviour of their own.
- The text formats (`registry.rs`, `text.rs` of `yozist-versioning`): they
  normalise bytes within one commit, where no step of another request can come
  between; the models see contents as values.
- The view converters and templates, the views' HTML, formatting and paging,
  statistics, byte ranges, the audit log.
- Registration, log-in and sessions, which are calls of a library outside the
  repository's control, and the SMB credentials derived from them
  (`credentials.rs`).
- The vendored SMB protocol server, image decoding and compression, charset and
  MIME detection, the external AI model (`vision.rs` is a request to it).
- What a power failure leaves of unsynced writes: no source states a promise
  about it.

Abstracted within what is modelled: in Versioning a single request that is dropped
(only the process crashes there; BlobStore has dropped tasks) and the grace period as
real time; in SmbAll the limit of names searched and the times of files, and that a
rename within scratch is a removal and an insertion under two locks; in SmbViews
descriptions and names, and three of the five sort orders of a series (by creation
downwards, by name both ways), which leave the members as they are; in JobQueue the
two errors by which a drain returns early; in Access the accounts themselves.
