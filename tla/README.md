# A TLA+ model of PyAnswer's backend

PyAnswer (`src/`) is a question-answering service over a Stack Overflow corpus. A FastAPI
process serves search, RAG answers and administration; two background programs, the
ingestion worker and the search indexer, fill PostgreSQL and Qdrant; command line tools
import dumps and start synchronisations. They share nothing but the two stores. Processes are
killed, restarted and redeployed while they work, transactions wait for each other, and Qdrant
and PostgreSQL change one after the other: that is where the hard behaviour is. This
directory models it.

## Inventory

| Component | State | Operations | What makes it correct | Module |
|---|---|---|---|---|
| Job queue (`db/repositories/jobs.py`) | tables `jobs`, `worker_instances` | register, claim, heartbeat, progress, complete, fail, requeue, cancel, recover, stop | one active job per target, a lease fences off the old owner, every job ends | `JobQueue` |
| Ingestion worker, indexer (`workers/runner.py`, `indexer.py`) | loop position, `_current_job_id`, shutdown flag, heartbeat task | recover, claim, run handler, finalize, close | a timely process keeps its job; a signalled one stops | `JobQueue` |
| Job endpoints (`services/admin_jobs.py`, `index_jobs.py`) | rows of `jobs`, `sources` | enqueue, retry, cancel | no second active job; retry does not disturb the original | `JobQueue`, `SourceStatus` |
| Source management (`services/admin_sources.py`) | `sources` | start, stop, test, update | the current job of a source is active; SYNCING ends | `SourceStatus` |
| Source synchronisation (`workers/source_sync.py`, `integrations/stackexchange`) | job checkpoint, `source_sync_states`, documents | fetch page, answers, ingest, save checkpoint, complete | no question skipped over crashes; the watermark only covers what was seen | `SourceSync` |
| Search index jobs (`services/search_index.py`, `admin_indexes.py`) | index versions, entries, Qdrant collections and alias | rebuild, document reindex, cleanup | what is served exists and is the ACTIVE version; READY means complete | `SearchIndex` |
| Document ingestion (`services/document_ingestion.py`) | documents, chunks, revisions, locks | insert, update, unchanged, duplicate | one original per content; chunks of the current version | `Documents` |
| Editor (`services/editor.py`) | documents, chunks | metadata, hide, restore, bulk, reindex | an edit keeps chunks and version together, and reaches the index | `Documents`, `SearchIndex` |
| Dump import (`scripts/import_stackexchange_dump.py`) | task queue, failure count | select, drain, stop, finish | the initial synchronisation is complete only with every thread; the import ends | `Documents` |
| RAG answers, gate, search (`services/rag.py`, `integrations/llm/gate.py`, `services/search.py`) | `rag_responses`, sources, the gate's counters | search, insert, wait, generate, complete, mark | one generation per request id, no lost slot, answers stay as cited | `Rag` |
| Accounts (`services/auth.py`, `admin_users.py`) | users, sessions | sign in, register, sign out, change role, block, unblock | never without an active administrator; no session outlives a change | `Accounts` |

The API and the processes interact through rows of `jobs` and `sources`, processes with
each other through claims, leases and recovery (each of the two programs recovers stale jobs
of *every* type), a process with its own heartbeat task through `_current_job_id`.
Synchronisation, importer and editor meet at the rows of `documents`; editor and ingestion
reach the index through reindex jobs and the statuses of documents; an answer refers to the
chunks that the ingestion wants to replace.

## Modules

| Module | Models | Composed of |
|---|---|---|
| `JobQueue` | the two tables, the API's writes to `jobs`, and the processes of both programs with heartbeat task, signals, crashes and time | |
| `JobLifecycle` | abstract: what the queue promises of one job: submit, start at most `MaxAttempts` times, put back, end once | `JobQueue` implements it |
| `SourceStatus` | the table `sources` beside the queue | extends `JobQueue`: each action is a queue action with what the same transaction does to `sources` |
| `SourceSync` | one source's synchronisation over several jobs, and the site | the queue reduced to one active job with its owner |
| `SearchIndex` | the index tables, Qdrant, and the indexer's handlers | the queue reduced to one job per document and one rebuild |
| `Documents` | transactions that write documents: importer, synchronisation, editor | |
| `Rag` | calls to `/ask` and `/ask/stream`, the inference gate, and the ingestion beside them | |
| `Accounts` | requests on users and sessions | |
| `JobQueueProofs`, `LifecycleProofs` | theorems about `JobQueue` and its refinement of `JobLifecycle` | |
| `SourceStatusProofs`, `SourceSyncProofs`, `AccountsProofs`, `DocumentsProofs`, `RagProofs`, `SearchIndexProofs` | theorems about the module of the name | |
| `MC...` | small instances for TLC | |

A module that reduces the queue relies on what `JobQueue` shows: one active job per target, a job
runs under one owner, a stale owner's writes to its row are refused, a job that is interrupted
runs again until its attempts are used up.

### JobQueue

`jobs[j]` is a row: `status`, `req` (type and target), `claimedBy`, `lease`, `wait`
(`next_attempt_at`), `attempt`, `cancelReq`, `progress`. `workers[w]` is a row of
`worker_instances`. `pc`, `cur`, `outcome`, `stop`, `beat` are the memory of a process.
`late`, `asked` and `faults` are history and bound.

Timestamps are kept as the time left until them, and `Tick` lets one unit pass, so no clock grows,
and `lease = 0` reads "`lease_expires_at` is null or past". `Tick` waits for nobody: a process may
be arbitrarily slow.

A process runs `Register`, `RecoverStale`, `Claim`/`ClaimNothing`, the handler (`HandlerSaves`,
`HandlerReturns`), `Finish...`, and the loop again; `LeaveLoop`, `MarkStopping`, `StopInstance`
shut it down; `Escape` is an exception out of `process_once`; `Crash` loses the memory between
any two transactions. `Heartbeat` interleaves with all of it. The handler is open: it returns any
disposition, except CANCELLED, which it reports only on what it can read (`MayReportCancelled`).

Left out: `job_events` and counters other than `progress`; `DOCUMENT_REPROCESS` and `HEALTH_CHECK` rows
(nothing enqueues the first, no process claims either); the recovery limit of 100 rows. `SKIP LOCKED`
shows as the order of whole transactions. A process that restarts reuses its row, the harder case
of a configured `instance_id`.

### SourceStatus

`sources[s]`: `status`, `current` (`current_job_id`), `enabled`. `begun[w]`: the synchronisation of a
process has passed `_set_source_syncing`. `probe[s]`: the row a connection test has loaded.
A connection test is two actions: the session keeps the object it loaded before the request
(`expire_on_commit` is off, and a second SELECT does not repopulate it), so `EndTest` judges by
the old `enabled` and writes the status only if it differs from the old one. Recovery lists its jobs in the
order of the database, so any requeued job of a source may be the last to write it. The other columns of a
source are left out.

### SourceSync

The site is external: a listing holds the questions whose date of the sort lies between `fromdate` and
`todate`, newest first; `SiteActivity` moves a question. `Unfinished` are the positions of the traversals that are not over
(job, job to retry, state, workers), and `Calm` freezes exactly the questions that an incremental one of them has behind it
(`Behind`). `docs[q]` is the activity that was ingested.
`sync` is `source_sync_states` with `documents_count`; `ended` keeps payload and checkpoint of the job
`RetryJob` copies. A run is `Load` (`_resolve_mode`, `Position`, `RolledOver`, `FromDate`), then `Fetch`,
`FetchAnswers`, for each question `NextQuestion` and `IngestOne` (a transaction of its own, which checks no
lease), `SaveCheckpoint`, and `Finish` with `_update_sync_completion`. Between them come `Stopped`
(cancellation, signal), `Lost`, `RequestFails`, `PageRefused`, `Crash` and `LoseLease`. Attempts and
the backoff of the client are one failing request.

### SearchIndex

`docs`, `versions`, `entries` are rows; `coll`, `points`, `alias` are Qdrant. The stores share no
transaction, so every request to Qdrant and every transaction is an action. A document has
one chunk and a batch holds one: the finest interleaving. `fresh[v]` stands for
`updated_at <= snapshotAt`. `spent.cleaned` is history: the versions whose collection a cleanup deleted. `Error` is a request or a transaction of
the handler that fails for good, the compensation included: worth a retry, fatal, or cancelled by the shutdown (`Causes`). `Unanswered` is a request that
Qdrant carried out and the handler takes for failed; neither is noticed by the compensation, which only covers the transaction after the switch.
`spent.astray` is history: such a switch or a failed compensation happened. `MarkFailure`, `Finish` and
`Recovered` say what the queue makes of an error. `Load` takes three READ COMMITTED statements as one. The validation job changes nothing and is left out.

### Documents

A transaction is cut where it waits: for the row of its document (`LockRow`), for the advisory lock on
its content hash (`FindOriginal`), for the row of the original its foreign key refers to (`Commit`). Locks are
read off the places of the transactions, and `Deadlocked` finds the circles that PostgreSQL breaks by
a `Victim`. The importer's tasks drain a queue (`TakeThread`, `EndTask`, `FinishImport`, `CrashImport`); the
editor's changes are one row each, or a `StartBulk` that locks row after row in the order of the request.
Texts are contents; the chunks of a content and the selection from the archive are choices.
Any change of the editor, hiding included, sets `last_edited_at`, which keeps the title in use from then on; as the titles of the source do not change
in the model, only a title that the editor wrote shows. The inserts of tags, which may wait for another transaction that inserts the same tag
(document_ingestion.py:406-429), are no place of a transaction here: tags are left out.

### Rag

A call is cut where it awaits: `Begin`, `Search`, `InsertRow`, `SendSources`, `EnterGate`, `Resume`,
`Generate`, `Complete`, `Respond`, `Mark`. The gate is its counters and asyncio's semaphore: `queue` holds the
waiters whose future is pending, `granted` those that were given a slot and have not run yet. A waiter that runs with
a slot wakes the next ones while slots are free (`Woken`); one that is cancelled with a slot in hand hands it back. `Cancel` is a client that goes away at any of these places and a
handler that is cancelled there; `Abandon` is one that goes away while the generator is suspended at a yield (GeneratorExit is not caught) or
while `_complete` has not committed (its session takes the row for COMPLETED), which records nothing. `StepFails` and
`Crash` are errors. Search is a choice of points, of which only those PostgreSQL still has are kept, twice.

### Accounts

A request is authorized with what its session shows at that moment and then runs in one transaction of
READ COMMITTED: `LockRule` (the advisory lock), `LockTarget` (the row, counted and changed in
memory), `CommitChange`. A sign-in reads (`BeginLogin`) and inserts (`CommitLogin`) with the password between.
`Lapse` is the end of a session at any moment.

## Properties

Queue and sources:

- `QueuedIsClaimable`: nothing is left QUEUED that `claim_next_job` would refuse for ever.
- `CurrentJobIsOwned`: a worker row names only a RUNNING job claimed by that worker.
- `OneActivePerTarget`: the unique indexes survive requeue, recovery and retry.
- `TimelyOwner`, `TimelyExclusive`: a process that keeps its heartbeat owns its job until it
  finalizes it, and two such processes never meet on a job or target.
- `Fenced`: until its lease is over a claimed row is changed only by its owner (heartbeat, progress, and its end in
  the step in which the owner lets go of it), then also by recovery; a row that ended never changes.
- `SyncCancelledOnRequest`: a synchronisation is CANCELLED only on request.
- `ImplementsLifecycle`: the queue implements `JobLifecycle`.
- `CurrentIsActive`: the current job of a source is an active job of that source.
- `ActiveKeepsItsSource`: only a retry of another job of the source, and a process that lost its job
  and finalizes it CANCELLED, may take an active synchronisation from its source.
- `SyncingEnds`, `EveryJobEnds`, `ShutdownEnds`: liveness.

Synchronisation: `NothingLost` (of everything before the watermark, less the overlap, the documents hold
the last version), `CheckpointSafe` (what an initial position has behind it is stored), `InitialCovers` (a
complete initial synchronisation below its target has stored every question that existed at its start). The last two
hold as long as the target does not cut a page with skipped questions that another page follows
(`source_skips`); in `source_sync` it cuts only last pages.

Index: `ServedExists` (the ACTIVE version and the alias' target have a complete collection), `AliasFollows`
(the alias names the ACTIVE version outside of an activation, as long as no indexer crashed or lost its job, no switch was carried out
and reported as failed, and no compensation failed), `ReadyIsComplete` (a version becomes READY
only when it recorded every eligible document nobody touched since the snapshot, and holds their points unless a
cleanup deleted the collection), `StatusEarned` (a document becomes READY only by its own reindex, with its current point and no other, or by the activation of
a version it has an entry in, with its current point unless somebody wrote it since the snapshot; and NOT_INDEXED only by its own
reindex, with no point left), `HandlerAdvances` (every
step brings a handler nearer to its end).

Documents: `OneOriginal`, `NoMutualDuplicates`, `ChunksAreCurrent`, `ImportCovers`, `ImportEnds`.

Answers: `GateBalanced`, `OneGeneration`, `TerminalIsFinal`, `CitationsHold`, `WaitersServed`.

Accounts: `AdminRemains`, `SessionsFollow`.

Every module has one type invariant besides. `CancelledSyncLeavesSource`, `ActiveIsKept`, `CappedRunSkipsNothing`, `UnfinishedIsLive`
and `ChangesArrive` are what the documents promise and the code breaks (see Findings).

## Runs

| Run | Instance | Shows |
|---|---|---|
| `sources` | two workers, one source with one document, two jobs, one fault, two attempts, lease 2, heartbeat period 1 | the invariants of the queue, `Fenced`, the refinement, `CurrentIsActive`, `ActiveKeepsItsSource` |
| `source_ends` | one worker, two jobs of one source, one fault, connection tests | the liveness of queue and sources |
| `source_stuck` | a worker and an indexer, one job, one fault | finding |
| `source_sync` | four questions (one unusable, one published later), pages of two, two pages per job, caps 1 and 3, a target of 3, three starts or retries, one fault | the properties of the synchronisation |
| `source_skips` | four questions (two unusable), pages of three, a target of 2, one start | finding |
| `search_index` | one indexer, two documents, two builds, one write or cleanup by others, one fault | the properties of the index |
| `index_replayed` | one document, a rebuild and its retry, one crash | finding |
| `documents` | one task, the synchronisation, a bulk edit; three questions, two of one content; two imports, two threads synchronised, one event | the properties of documents |
| `rag` | four calls with three request ids, one slot, one place to wait, two contents of one document, one fault | the properties of answers |
| `rag_orphan` | one call | finding |
| `cited_update` | one call, one document | finding |
| `accounts` | three accounts, three requests | `AdminRemains`, `SessionsFollow` |

### Bounds

Two processes are the least that can overtake each other, and the properties of the queue relate at most
two processes and two jobs. Two jobs of one target give a retry beside its original and exhaust the unique index.
Two attempts give one recovery and one exhaustion. In `sources` a heartbeat is due one unit of time
after the last and the lease lasts two: a beat that comes within its unit renews the lease and the owner stays timely for as long
as it beats, one that is late may still renew it, also when it is over and nobody has recovered the job yet, and one that
comes too late finds the job recovered or claimed again. In `source_ends` the lease is 1 and a beat is due at once, which still lets a lease be lost; its one worker means that
nobody recovers a job under a process that is alive, so an error of `cancel_job` for a job that has ended meanwhile, and a worker that goes on
with a recovered job, are seen in `sources` (safety) and not there. `sources` checks the queue beside the sources and not alone:
every behaviour there is one of `JobQueue` (`SourcesRefineQueue`), and its theorems hold for every instance. One fault (crash, signal or escape) on top of
arbitrary slowness already loses a lease, and each attempt may fail in its handler besides. One source suffices: an action
writes one source at a time.

In `source_sync` a page of two is cut by the caps 1 and 3; the listing has more pages than a job takes,
one page without a key, and a target of 3 that two usable questions do not reach and the third, published later, does: rollover,
deep page, an end at the target and one without it occur. Three starts give an interrupted initial run, its continuation and an
incremental run. One fault at each place of the handler is one crash in the middle of a batch.

In `search_index` two documents give a batch before and after the interruption; two builds give a rebuild
beside an active version; one write by others comes between any two steps. In `documents` two contents and three
questions give two originals that race and one that changes; one task and the synchronisation are two concurrent
transactions, the bulk operation a third that closes deadlocks.
In `rag` one call generates, one waits, one is turned away and one repeats a request id: with one slot and one
place, each limit is reached. In `accounts` two administrators remove each other while a third account signs in;
versions grow only by requests, each of which runs once, so nothing else bounds them.

Symmetry is used where processes or requests are interchangeable, and never with liveness.
`CHECK_DEADLOCK FALSE` is set where the budgets let the system rest: each such instance ends when its jobs, calls or
requests are spent. The queue never rests.

### Fairness

`JobQueue` and `SourceStatus`: time passes, and each process's loop eventually takes its next step. compose.yaml
restarts both programs (`restart: unless-stopped`), every wait in the loop is bounded
(`worker_poll_interval_seconds`), and handlers end because their network calls have timeouts and their
pages are bounded (for the index `HandlerAdvances` shows it). Nothing is assumed of the heartbeat, of
`HandlerSaves`, of the API or of faults, which are finite (`FaultBudget`): a queue whose processes always crash
finishes nothing. `source_ends` has the one ingestion worker of the deployment: with an indexer that recovers
first `SyncingEnds` fails (`source_stuck`), and with two workers a stale finalization leaves the source SYNCING with
no current job.

`Documents`: a task, a transaction and a bulk operation that can go on does, as the event loop and PostgreSQL
(which breaks deadlocks) see to; starts, edits and faults are not owed.

`Rag`: a call that can go on does, and a changed thread is ingested again when its chunks can be replaced. For a stream this
leans on its client: one that stops reading without going away holds the slot until nginx gives up on it
(`proxy_read_timeout` and `proxy_send_timeout`, frontend/nginx.conf:38-39), not on a timeout of the service. A queue
timeout and a disconnect are not owed.

## Findings

- `source_stuck`: `IndexerRunner._recover_stale` (indexer.py:229) recovers synchronisations and never
  writes their source; the worker's own recovery does, but finds nothing left to recover.
- `index_replayed`: a crash after `_activate` and before the completion of the job runs the rebuild again on the
  version that is active. It counts the documents that nobody wrote since the snapshot, and the activation itself wrote all of
  them: it expects none, finds the points that are there, fails, and writes FAILED over the ACTIVE version.
- `source_skips`: `target_documents - documents_count` cuts a page in two, a question of the first part is skipped, and
  the difference stays positive: the handler turns the page (source_sync.py:258-267) and leaves the second part
  behind. Questions that are already stored have the same effect as skipped ones. The run may then call the initial synchronisation complete; with this instance TLC also finds
  `InitialCovers` violated.
- `rag_orphan`: `stream_question` sends the sources before its try statement; a client that leaves there leaves the row
  GENERATING for ever, and its request id is refused ever after. So does one that leaves at a yield inside the try statement (`Abandon`).
- `cited_update`: chunks an answer cites cannot be deleted (ON DELETE RESTRICT), so the ingestion of the changed
  thread fails each time.

Known limits, kept in the model: the indexer reports a shutdown as CANCELLED, so
a redeployment ends a running rebuild (`MayReportCancelled`); the shutdown flag is read once per loop, so a
process may claim one more job after the signal; a retry synchronises a disabled source (`RetryJob`); an explicit INCREMENTAL start
continues page and window of an interrupted initial run (`StateAfterStart`, `Position`; the run starts with AUTO,
the default of the API, the dialog and `enqueue_sync`); with two indexers (the
deployment has one) a cleanup does not protect the version that the other one is about to activate, and `ServedExists` fails; a switch of the alias that Qdrant carried
out and the client takes for failed is outside of the try statement (search_index.py:382) and never undone, and a compensation that fails itself is not
repeated (`Error`, `Unanswered`): the alias then names the new collection while the old version stays ACTIVE, without any crash, which `AliasFollows` leaves
out and docs/index-recovery.md:4-5 does not foresee (it says that the alias stays with the previous collection when a rebuild fails, and that the
switch is undone when the database fails); an activation calls documents READY that were edited after
their batch, with the points of their batch, until their own reindex has run (`StatusEarned`); with `Calm = FALSE` a question that gets activity behind an incremental traversal shifts
the pages, and the first question of the next page is lost (`NothingLost` then fails); a worker that recovers a
document reindex makes it the current job of its source even if a synchronisation is active (`ActiveKeepsItsSource` then
fails; with ingestion workers only no reindex ever runs); three documents may become duplicates of each other in a circle, each judged before the next
one changed (`NoMutualDuplicates` is what is left); without a key an initial run whose position is beyond the last page the
API serves begins a window below the oldest document (`RolledOver`), and what the source has that is newer than this document but was
never fetched is left out: if a run stores its first page and crashes before it has a checkpoint, the next run starts at page 1, but on a
site with much new activity, or after an INCREMENTAL start that has stored an old question, the windows of the two do not meet (also
questions of the same second as the oldest document are skipped), and the initial synchronisation is called complete (`InitialCovers` needs `NoRollover`); a retry of an
AUTO job whose initial run another job has brought to its target meanwhile is resolved to INCREMENTAL, but goes on from page and todate of its
initial checkpoint (source_sync.py:380-410) and completes with a watermark that covers questions it never listed by activity
(`NothingLost` needs `ModesKept`; the pages and the target of `source_sync` are too large to show it); with two workers a worker that lost its lease may still store an old
version of a document that the other one has updated (`NothingLost` needs one worker, as deployed); a cleanup does not protect the collection of a version that is
BUILDING for a job that was put back (search_index.py:495-514), and the counts at the end of the rebuild
(search_index.py:361-366) do not notice it.

## Proofs

The provers check every safety property of every run that passes, for every value of the constants. The assumptions
are those named in the modules, and hypotheses of the deployment stand in the theorem: `AllWorkers` (every process is an ingestion
worker), `OneAtATime` (one indexer), and those of the synchronisation, below. Each is necessary: with an indexer beside the
worker `CurrentIsActive` fails (`source_stuck`) and so does `ActiveKeepsItsSource`, with two indexers `ServedExists` and `AliasFollows` fail.

**Queue** (`JobQueueProofs`, from `QueueAssumption`: any number of processes, jobs and attempts, any heartbeat period
below the lease).

1. `TypeCorrect`: `TypeOK` and `InJob` (a process has a job exactly while it runs or finalizes
   one). `TypeOK` is inductive with `InJob`, since `Finish...` index `jobs` by `cur`.
2. `QueuedIsClaimableCorrect`, `CurrentJobIsOwnedCorrect`, `OneActivePerTargetCorrect` from `QueueCorrect`: the three are
   inductive together, relative to the types. `CurrentJobIsOwned` holds because every transaction that takes a job from its
   owner releases the owner's row, which is `Release` in one lemma (`SettleQueue`).
3. `TimelyOwnerCorrect`: the lease bound inside `TimelyOwner`, lease + heartbeat period >=
   lease time + time to the next beat, is what makes it inductive: after a tick that the process
   survives in time, the lease is positive (`TimelyLease`), so neither recovery nor a second
   claim can touch the row.
4. `TimelyExclusiveCorrect` follows from 2 and 3 without another induction.

**Life cycle** (`LifecycleProofs`, from the same).

5. `LifecycleCorrect`: `ImplementsLifecycle`. The initial states map to initial states; `Ways` sorts what a step of the queue does
   to a row into the steps of the abstract life cycle or a stutter, for one row at a time, since the refinement is
   per job. It needs that an ended row has no lease and no delay (`EndedAtRest`).
6. `FencedCorrect`: from `EndedAtRest` and the same case distinction.
7. `SyncCancelledCorrect`: `SyncCancelledOnRequest` is inductive with `AskedInv`: a flag and a CANCELLED row were asked for (`Recorded`),
   a process runs only types it supports (`Supports`), and the outcome CANCELLED of a synchronisation was read off its row (`Reported`).

**Sources** (`SourceStatusProofs`, from `QueueAssumption`, `SourceAssumption` and `SyncAssumption`: a request for a synchronisation targets its source).

8. `SourcesRefineQueue`: every step beside the sources is a step of `JobQueue`, so 1 to 7 hold there
   (`QueueBesideSources`).
9. `SourceTypeCorrect`: `SourceTypeOK`, which needs `InJob` for the job that `FinalizeJob` names.
10. `CurrentActiveCorrect`: `CurrentIsActive`, under `AllWorkers`. It is
   inductive relative to the types; the two facts that carry it are `CurrentStays` (a source that keeps
   its job keeps it right while the job stays active) and `FinalizeRows` (whenever a finalization ends a
   job, `_update_source_after_job` is called in the same transaction).
11. `ActiveKeepsCorrect`: `ActiveKeepsItsSource`, under `AllWorkers`. It needs `OneActivePerTarget` (a recovered synchronisation of the source is the
   active one) and that only synchronisations run (`OnlySyncsRun`).

**Accounts** (`AccountsProofs`, from `NamesAssumption`, `UsersAssumption` and `RolesAssumption`: any finite number of accounts, any requests).
`AccountsInv` = `Typed` /\ `Locks` /\ `Pending` /\ `Versions` /\ `AdminRemains`.

12. `AccountsTypeCorrect`: with `Locks`, which ties the advisory lock and the row locks to the requests that hold them.
13. `AdminRemainsCorrect`: inductive with `Pending`: a request that is about to take an administrator away has counted another
   one, who is still there because only the holder of the advisory lock takes one away.
14. `SessionsFollowCorrect`: from `Versions`: an account that a sign-in has read is the same or has a lower version, and so has a session.

**Documents** (`DocumentsProofs`, from `DocumentsAssumption`, `HashAssumption`). `DocInv` adds to the properties: who holds a row knows whether its document exists, and
no two hold one row (`RowLocks`); two transactions about to commit differ in their hash (`HashLocks`); what a transaction found
out about originals still holds when it commits (`Judged`); duplicates refer to others that exist (`Duplicates`); a thread of
the import is stored, queued or in a task (`Covered`).

15. `DocTypeCorrect`, 16. `OneOriginalCorrect`, 17. `NoMutualCorrect`, 18. `ChunksCorrect`, 19. `ImportCoversCorrect`: from `DocInv`. `OneOriginal` needs
   `Judged`, which needs `HashLocks` against other ingestions and `RowLocks` against the editor.

**Answers** (`RagProofs`, from `RagAssumption`). `RagInv` adds: one call owns a row, which is GENERATING while the call asks the model
(`Rows`), and the gate agrees with the sets of calls that wait and generate (`Gate`).

20. `RagTypeCorrect`, 21. `GateBalancedCorrect`: `Gate` counts free, active and granted slots, and says that while a slot is free and
   somebody waits, somebody has been granted one: no wake-up is lost. `RemoveFacts` is what taking a waiter out of the queue does.
22. `OneGenerationCorrect`, 23. `CitationsHoldCorrect`, 24. `TerminalIsFinalCorrect`: from `Rows`.

**Search index** (`SearchIndexProofs`, from `IndexAssumption`). `IndexInv` says for each place of a handler which job and
version it works on (`Handling`, `Targeting`), that document versions do not exceed the edits (`Numbered`), what an owned job and its
payload look like (`Payload`), that nothing is recorded beyond the checkpoint (`Unrecorded`), that the owner of the rebuild works on
the payload's version from the checkpoint on (`Tied`), and that the chunks counted are none of those that remain (`Counted`). Each action has a lemma that says what it does
to the tables, from which the invariants below are proved without opening the action again.

25. `IndexTypeCorrect`: `IndexTypeOK`, for any number of indexers.
26. `HandlerAdvancesCorrect`: `HandlerAdvances`, for any number of indexers: `Distance` falls with every step. That handlers
   end is the fairness assumption of `JobQueue`.
27. `ServedExistsCorrect`: inductive with `Serving` (the collection being filled is there, the previous one can be switched back to, and a
   cleanup will not drop what is served).
28. `AliasFollowsCorrect`: with `Switching` (without a crash and with nothing gone astray, who works owns its job, and the alias between
   switch and transaction).
29. `StatusEarnedCorrect`: with `Reindexed` (the points a reindex has left of its document), and for the activation with `Recording` of 30 in the state
   before it.
30. `ReadyIsCompleteCorrect`: with `Recording` (an entry of an untouched document is current and so is its point; what the checkpoint
   covers is recorded) and `InHand` (the same of the document between its read and its entry).
   27 to 30 are under `OneAtATime`.

**Synchronisation** (`SourceSyncProofs`, from `SyncAssumption`: any listing, page size, caps, target, overlap and requests). `ListingSorted`
is what the listing of the site computes: the questions of the window, each once, newest first; it rests on the ranks
of the questions in it (`RankFacts`) and on no property of the sorting function but its definition. A position of a traversal has
`First(date, todate, n)` behind it, the n newest of the window, however the window is cut into runs.

31. `SyncTypeCorrect`: `SyncTypeOK`, from `SyncInv`, which says for each place of a handler what its variables hold (`AtPlace`).
32. `CheckpointSafeCorrect`: with `Base` (a checkpoint has the mode that its run was resolved to and the end of its window, and a run begins
   where the checkpoint or the state ends) and `Safe` (what an initial position of job, ended job, state or worker has behind it is
   stored or unusable; of a page in hand, that or held in the batch). `CheckpointSafeFar` is the same without a condition on steps, and
   `CappedRunKeepsPages` proves the documented promise that `source_skips` refutes, where it holds.
33. `InitialCoversCorrect`: with `Snap` (the windows of all initial runs reach to the snapshot). `InitialCoversKeyed` is
   the same without a condition on steps, with `Pages` (no position is deeper than the last page).
34. `NothingLostCorrect`: with `Kept`: what is older than the watermark less the overlap is stored or has moved past it (`Lossless`); an
   incremental position has only such questions behind it (`Follows`); a window begins at the watermark less the overlap (`Since`);
   a batch holds last versions, or its questions have left all windows (`Recent`). The step that carries it is `FirstStays`: activity that is not
   behind a position shifts nothing behind it. `NothingLostNamed` has no condition on steps.

Each of their hypotheses is needed: without it TLC finds the property violated on an instance of two to four questions with pages of
one or two. They are where the code gives way:

| Hypothesis | Theorems | Why |
|---|---|---|
| `StartsKeepPositions` | 32, 33 | a start that names INITIAL relabels the position of an incremental run (`StateAfterStart`) |
| `TurnsDonePages`, or `TargetFar`: the target is at least a page beyond what exists | 32, 33 | the target cuts pages that are turned (`source_skips`) |
| `NoRollover`, or `Keyed`: the API serves every page | 33 | a window below the oldest document need not meet the last one |
| `OneWorker` | 34 | an old version may be stored late; the deployment has one worker |
| `Calm` | 34 | a listing that shifts loses the first question of the next page |
| `StartsKeepWindows` | 34 | a start that names INCREMENTAL relabels the position of an initial run |
| `ModesKept`, or `StartsNameModes`: no start is AUTO | 34 | a retry of AUTO may continue a checkpoint of the other mode |

A source that is only started with AUTO, the default of the API, the dialog and `enqueue_sync`, satisfies the hypotheses on starts;
`ModesKept` then asks that no retry crosses the end of the initial synchronisation.

Only model-checked are the liveness properties (`SyncingEnds`, `EveryJobEnds`, `ShutdownEnds`, `ImportEnds`, `WaitersServed`), which are out of
the prover's reach: their argument needs fairness and ENABLED.

## Not modelled

- The validation of an index, HTML cleaning, the cutting of chunks, scores, filters, prompts, serializers and the audit log:
  they keep no state that another component relies on, or are text processing no property tells apart.
- The backoff and quota arithmetic of the StackExchange client: one failing request stands for what it gives up on.
- Passwords, CSRF tokens, the rate limiter, saved documents, search history and dashboards.
- The frontend, the deployment and the evaluation scripts.
- Migrations and demo data, except the tables' constraints and the unclaimed RUNNING synchronisation that the demo
  data inserts.
