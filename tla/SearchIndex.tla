---------------------------- MODULE SearchIndex ----------------------------
(***************************************************************************)
(* The search index: the documents and the index tables in PostgreSQL, the *)
(* collections and the alias in Qdrant, and the handlers of the indexer    *)
(* (services/search_index.py) that carry one over to the other.  The two   *)
(* stores share no transaction, so every access is a step of its own and   *)
(* the API, a crash or the recovery of a job may come between any two.     *)
(*                                                                         *)
(* A document has one chunk and a batch holds one chunk, the finest        *)
(* interleaving.  A point of a collection is named by its document and its *)
(* version (stable_point_id).  updated_at <= snapshotAt is kept as the set *)
(* fresh[v] of documents that nobody has written since the snapshot of v.  *)
(* The queue is reduced to what JobQueue shows of it: one active job per   *)
(* document and one rebuild, a bounded number of attempts, and an owner.   *)
(***************************************************************************)
EXTENDS Integers, FiniteSets, Sequences

CONSTANTS
    Indexers,       \* indexer processes; the deployment has one
    NoIndexer,      \* SQL NULL in jobs.claimed_by
    DocCount,       \* documents, in the order of their chunk ids
    RequestBudget,  \* bound: writes to documents, and cleanups, by the API and the worker
    Builds,         \* bound: rows of search_index_versions
    MaxAttempts,    \* jobs.max_attempts
    RetainRetired,  \* INDEX_RETAIN_RETIRED_COUNT
    FaultBudget     \* bound: crashes, lost leases, errors of Qdrant, Ollama and
                    \* PostgreSQL, shutdowns, cancellations and retries by an administrator

ASSUME IndexAssumption ==
    /\ NoIndexer \notin Indexers
    /\ DocCount \in Nat /\ RequestBudget \in Nat /\ Builds \in Nat
    /\ MaxAttempts \in Nat /\ RetainRetired \in Nat
    /\ FaultBudget \in Nat

Docs == 1 .. DocCount
Versions == 1 .. Builds
None == 0                                \* no version, no chunk, no alias
Full == DocCount + 1                     \* the FULL_REINDEX job
Clean == DocCount + 2                    \* the SEARCH_INDEX_CLEANUP job
JobIds == Docs \cup {Full, Clean}
MaxVersion == 1 + RequestBudget
Spending == [requests : 0 .. RequestBudget, faults : 0 .. FaultBudget, crashed : BOOLEAN,
             astray : BOOLEAN, cleaned : SUBSET Versions]

VARIABLES
    docs,      \* documents: version, version of the chunk row, hidden, duplicate, index status
    jobs,      \* the index jobs
    versions,  \* search_index_versions: status and point_count
    entries,   \* search_index_entries: document_version of an INDEXED entry, or 0
    fresh,     \* documents with updated_at <= snapshotAt of a version
    coll,      \* collections of Qdrant
    points,    \* their points
    alias,     \* the collection the alias names
    pc,        \* where each indexer is in its handler
    mem,       \* what the handler has read
    spent      \* the budgets used up; was there a crash, did a request that moves the
               \* alias go wrong, which collections were cleaned up

dbVars == <<docs, jobs, versions, entries, fresh>>
qdrantVars == <<coll, points, alias>>
vars == <<dbVars, qdrantVars, pc, mem, spent>>

-----------------------------------------------------------------------------
(* Rows and the memory of a handler.                                       *)

IndexStates == {"NOT_INDEXED", "PENDING", "READY", "OUTDATED", "FAILED"}
BuildStates == {"ABSENT", "BUILDING", "READY", "ACTIVE", "RETIRED", "FAILED"}
JobStates == {"IDLE", "QUEUED", "RUNNING", "ENDED"}

Eligible(d) == ~docs[d].hidden /\ ~docs[d].duplicate
Active(k) == jobs[k].status \in {"QUEUED", "RUNNING"}
ActiveVersions == {v \in Versions : versions[v].status = "ACTIVE"}

NewJob(version, last) ==
    [status |-> "QUEUED", attempt |-> 0, cancel |-> FALSE, owner |-> NoIndexer,
     version |-> version, last |-> last]

NoJob == [NewJob(None, None) EXCEPT !.status = "IDLE"]

Nothing == [job |-> 0, target |-> None, ver |-> 0, chunk |-> 0, doc |-> 0, last |-> 0,
            total |-> 0, done |-> 0, prev |-> None, drop |-> {}, code |-> "OK"]

Owner(i) == jobs[mem[i].job].owner = i
Indexed(v) == {d \in Docs : entries[v][d] # 0}

TouchNone(ds) == UNCHANGED fresh                    \* mutant: updated_at stays

\* Any write to a document moves its updated_at past every snapshot.
Touch(ds) == fresh' = [v \in Versions |-> fresh[v] \ ds]

\* The snapshot of a version matters as long as the payload of a job names it.
Abandoned == [v \in Versions |-> {}]

EligibleCount(v) == Cardinality({d \in fresh[v] : Eligible(d)})

-----------------------------------------------------------------------------
(* The API and the ingestion worker.                                       *)

Requested == spent.requests < RequestBudget /\ spent' = [spent EXCEPT !.requests = @ + 1]

\* enqueue_document_reindex: an active job, even a running one, is enough.
Enqueued(d) == IF Active(d) THEN jobs[d] ELSE NewJob(None, None)

Outdated(state) == IF state = "NOT_INDEXED" THEN state ELSE "OUTDATED"

\* The editor changes metadata or the status; the chunk row stays and follows
\* the version (_rebase_chunks_after_editor_change).
EditorWrites(d, hidden) ==
    LET ver == docs[d].ver + 1 IN
    /\ Requested
    /\ docs' = [docs EXCEPT ![d].ver = ver, ![d].hidden = hidden, ![d].state = Outdated(@)]
    /\ jobs' = [jobs EXCEPT ![d] = Enqueued(d)]
    /\ Touch({d})
    /\ UNCHANGED <<versions, entries, qdrantVars, pc, mem>>

EditDocument(d) == EditorWrites(d, docs[d].hidden)

HideDocument(d) == ~docs[d].hidden /\ EditorWrites(d, TRUE)

RestoreDocument(d) == docs[d].hidden /\ EditorWrites(d, FALSE)

\* ingest_question_thread found other content: new chunk rows, and with the old
\* ones their entries go (ON DELETE CASCADE); an exact duplicate is not enqueued.
IngestDocument(d, duplicate) ==
    LET ver == docs[d].ver + 1 IN
    /\ Requested
    /\ docs' = [docs EXCEPT ![d].ver = ver, ![d].chunk = ver, ![d].duplicate = duplicate,
                            ![d].state = Outdated(@)]
    /\ entries' = [v \in Versions |-> [entries[v] EXCEPT ![d] = 0]]
    /\ jobs' = IF duplicate THEN jobs ELSE [jobs EXCEPT ![d] = Enqueued(d)]
    /\ Touch({d})
    /\ UNCHANGED <<versions, qdrantVars, pc, mem>>

\* Unchanged content: the document is only seen again, and a duplicate whose
\* original has moved on becomes unique, which enqueues nothing.
IngestUnchanged(d) ==
    /\ Requested
    /\ \/ UNCHANGED docs
       \/ docs[d].duplicate /\ docs' = [docs EXCEPT ![d].duplicate = FALSE]
    /\ Touch({d})
    /\ UNCHANGED <<jobs, versions, entries, qdrantVars, pc, mem>>

\* create_reindex_job
ReindexDocument(d) ==
    /\ Requested /\ ~Active(d)
    /\ jobs' = [jobs EXCEPT ![d] = NewJob(None, None)]
    /\ docs' = [docs EXCEPT ![d].state = "PENDING"]
    /\ Touch({d})
    /\ UNCHANGED <<versions, entries, qdrantVars, pc, mem>>

MoreBuilds == \E v \in Versions : versions[v].status = "ABSENT"

EnqueueFull ==
    /\ MoreBuilds /\ ~Active(Full)
    /\ jobs' = [jobs EXCEPT ![Full] = NewJob(None, None)]
    /\ fresh' = Abandoned
    /\ UNCHANGED <<docs, versions, entries, qdrantVars, pc, mem, spent>>

\* The command line first cancels what is queued for single documents.
EnqueueFullFromCli ==
    /\ MoreBuilds /\ ~Active(Full)
    /\ jobs' = [k \in JobIds |->
                 IF k = Full THEN NewJob(None, None)
                 ELSE IF k \in Docs /\ jobs[k].status = "QUEUED"
                      THEN [jobs[k] EXCEPT !.status = "ENDED"]
                      ELSE jobs[k]]
    /\ fresh' = Abandoned
    /\ UNCHANGED <<docs, versions, entries, qdrantVars, pc, mem, spent>>

EnqueueCleanup ==
    /\ Requested /\ ~Active(Clean)      \* bound: one cleanup at a time
    /\ jobs' = [jobs EXCEPT ![Clean] = NewJob(None, None)]
    /\ UNCHANGED <<docs, versions, entries, fresh, qdrantVars, pc, mem>>

CancelJob(k) ==
    /\ Active(k) /\ ~jobs[k].cancel
    /\ spent.faults < FaultBudget
    /\ jobs' = [jobs EXCEPT ![k].cancel = TRUE,
                            ![k].status = IF @ = "QUEUED" THEN "ENDED" ELSE @]
    /\ spent' = [spent EXCEPT !.faults = @ + 1]
    /\ UNCHANGED <<docs, versions, entries, fresh, qdrantVars, pc, mem>>

\* retry_job copies payload and checkpoint.
RetryJob(k) ==
    /\ jobs[k].status = "ENDED"
    /\ k = Full => jobs[k].version # None \/ MoreBuilds
    /\ spent.faults < FaultBudget
    /\ jobs' = [jobs EXCEPT ![k] = NewJob(@.version, @.last)]
    /\ spent' = [spent EXCEPT !.faults = @ + 1]
    /\ UNCHANGED <<docs, versions, entries, fresh, qdrantVars, pc, mem>>

-----------------------------------------------------------------------------
(* A handler: claim, steps, outcome.                                       *)

Goto(i, place) == pc' = [pc EXCEPT ![i] = place]
Learn(i, m) == mem' = [mem EXCEPT ![i] = m]

\* claim_next_job
Claim(i, k) ==
    /\ pc[i] = "idle"
    /\ jobs[k].status = "QUEUED" /\ jobs[k].attempt < MaxAttempts
    /\ jobs' = [jobs EXCEPT ![k].status = "RUNNING", ![k].owner = i, ![k].attempt = @ + 1]
    /\ Learn(i, [Nothing EXCEPT !.job = k])
    /\ Goto(i, CASE k = Full -> "prepare" [] k = Clean -> "listing" [] OTHER -> "load")
    /\ UNCHANGED <<docs, versions, entries, fresh, qdrantVars, spent>>

\* _ensure_not_cancelled
MayGoOn(i) == Owner(i) /\ ~jobs[mem[i].job].cancel

\* Where run() catches an error: _error_outcome loads the job first, and if it
\* is lost that raises again, out of the handler.
GiveUp(i, code) ==
    IF Owner(i) THEN Goto(i, "failing") /\ Learn(i, [mem[i] EXCEPT !.code = code])
    ELSE Goto(i, "idle") /\ Learn(i, Nothing)

Raise(i, code) == GiveUp(i, code) /\ UNCHANGED <<dbVars, qdrantVars, spent>>

Checking == {"load", "delete", "stored", "batch", "written", "verified"}

Refused(i) ==
    /\ pc[i] \in Checking \/ (pc[i] = "prepare" /\ ~Owner(i))
    /\ ~MayGoOn(i)
    /\ Raise(i, "CANCELLED")

\* Where the handler asks Qdrant or Ollama, and where only PostgreSQL.
Asking == {"alias", "remove", "delete", "upsert", "collection", "bare", "write", "count",
           "switch", "compensate", "listing", "dropping"}
Querying == {"load", "forget", "stored", "prepare", "total", "resume", "batch", "written",
             "verified", "choosing"}

\* A service that stays away and a database error are worth a retry, an answer
\* like 400 or 500 is not, and a shutdown is noticed before every request, in
\* the pauses between its retries and by _ensure_not_cancelled.
Causes(place) ==
    {"RETRY"} \cup (IF place \in Asking THEN {"FATAL"} ELSE {})
              \cup (IF place \in Asking \cup Checking THEN {"CANCELLED"} ELSE {})

Faulty(stray, dropped) ==
    /\ spent.faults < FaultBudget
    /\ spent' = [spent EXCEPT !.faults = @ + 1, !.astray = @ \/ stray,
                              !.cleaned = @ \cup dropped]

\* A request or a transaction of the handler fails for good, after the retries
\* of the client; nothing of this step happened.
Error(i) ==
    /\ pc[i] \in Asking \cup Querying
    /\ \E code \in Causes(pc[i]) : GiveUp(i, code)
    /\ Faulty(pc[i] = "compensate", {})
    /\ UNCHANGED <<dbVars, qdrantVars>>

Done(i) == Goto(i, "finish")

\* _mark_failure, a transaction of its own
MarkFailure(i) ==
    LET m == mem[i]
        v == jobs[Full].version
        last == m.code = "FATAL" \/ jobs[m.job].attempt >= MaxAttempts
    IN
    /\ pc[i] = "failing"
    /\ IF m.code # "CANCELLED" /\ m.job \in Docs
       THEN /\ docs' = [docs EXCEPT ![m.job].state =
                           IF m.code = "RETRY" THEN "OUTDATED" ELSE "FAILED"]
            /\ Touch({m.job})
       ELSE UNCHANGED <<docs, fresh>>
    /\ IF m.code # "CANCELLED" /\ m.job = Full /\ v # None /\ last
       THEN versions' = [versions EXCEPT ![v].status = "FAILED"]
       ELSE UNCHANGED versions
    /\ Done(i)
    /\ UNCHANGED <<jobs, entries, qdrantVars, mem, spent>>

\* _finalize: what the queue makes of the outcome.  Nothing reads the attempts
\* of a job that ended again, nor the payload of one that completed.
Released(k, status) ==
    IF status = "IDLE" THEN NoJob
    ELSE [jobs[k] EXCEPT !.status = status, !.owner = NoIndexer, !.cancel = FALSE,
                         !.attempt = IF status = "ENDED" THEN 0 ELSE @]

Outcome(k, code) ==
    CASE code = "OK" -> Released(k, "IDLE")
      [] code = "RETRY" /\ jobs[k].attempt < MaxAttempts /\ ~jobs[k].cancel ->
             Released(k, "QUEUED")
      [] OTHER -> Released(k, "ENDED")

Finish(i) ==
    /\ pc[i] = "finish"
    /\ jobs' = IF Owner(i)
               THEN [jobs EXCEPT ![mem[i].job] = Outcome(mem[i].job, mem[i].code)]
               ELSE jobs
    /\ fresh' = IF mem[i].job = Full /\ mem[i].code = "OK" THEN Abandoned ELSE fresh
    /\ Goto(i, "idle") /\ Learn(i, Nothing)
    /\ UNCHANGED <<docs, versions, entries, qdrantVars, spent>>

\* recover_stale_jobs, run by any process for a job whose lease has expired.
Recovered(k) ==
    IF jobs[k].cancel \/ jobs[k].attempt >= MaxAttempts
    THEN Released(k, "ENDED") ELSE Released(k, "QUEUED")

\* A crashed indexer, restarted, and its job recovered.
Crash(i) ==
    /\ pc[i] # "idle"
    /\ spent.faults < FaultBudget
    /\ spent' = [spent EXCEPT !.faults = @ + 1, !.crashed = TRUE]
    /\ jobs' = IF Owner(i) THEN [jobs EXCEPT ![mem[i].job] = Recovered(mem[i].job)] ELSE jobs
    /\ Goto(i, "idle") /\ Learn(i, Nothing)
    /\ UNCHANGED <<docs, versions, entries, fresh, qdrantVars>>

\* An indexer that stalls until its job is recovered, and then goes on.
LoseLease(i) ==
    /\ pc[i] # "idle" /\ Owner(i)
    /\ spent.faults < FaultBudget
    /\ spent' = [spent EXCEPT !.faults = @ + 1, !.crashed = TRUE]
    /\ jobs' = [jobs EXCEPT ![mem[i].job] = Recovered(mem[i].job)]
    /\ UNCHANGED <<docs, versions, entries, fresh, qdrantVars, pc, mem>>

-----------------------------------------------------------------------------
(* DOCUMENT_REINDEX (_document_reindex).                                   *)

\* The ACTIVE version, the document and its chunk: three statements of one session,
\* READ COMMITTED, taken as one: what changes between them is a change after Load here,
\* and StoreEntry refuses the version that was read first.
Load(i) ==
    LET d == mem[i].job IN
    /\ pc[i] = "load" /\ MayGoOn(i)
    /\ IF ActiveVersions = {} THEN Raise(i, "FATAL")
       ELSE /\ \E v \in ActiveVersions :
                  Learn(i, [mem[i] EXCEPT !.target = v, !.ver = docs[d].ver,
                                          !.chunk = IF Eligible(d) THEN docs[d].chunk ELSE 0])
            /\ Goto(i, "alias")
            /\ UNCHANGED <<dbVars, qdrantVars, spent>>

CheckAlias(i) ==
    /\ pc[i] = "alias"
    /\ IF alias # mem[i].target THEN Raise(i, "RETRY")
       ELSE /\ Goto(i, IF mem[i].chunk = 0 THEN "remove" ELSE "delete")
            /\ UNCHANGED <<dbVars, qdrantVars, mem, spent>>

\* Qdrant answers 404 when the collection is gone.
OnCollection(i, step) == IF coll[mem[i].target] = "absent" THEN Raise(i, "FATAL") ELSE step

\* delete_document_points and upsert
Deletes(v, d) ==
    /\ points' = [points EXCEPT ![v] = {p \in @ : p[1] # d}]
    /\ UNCHANGED <<coll, alias>>

Writes(v, point) ==
    /\ points' = [points EXCEPT ![v] = @ \cup {point}]
    /\ UNCHANGED <<coll, alias>>

Deleting(i) == pc[i] = "remove" \/ (pc[i] = "delete" /\ MayGoOn(i))

DeletePoints(i) ==
    /\ Deleting(i)
    /\ OnCollection(i,
          /\ Deletes(mem[i].target, mem[i].job)
          /\ Goto(i, IF pc[i] = "remove" THEN "forget" ELSE "upsert")
          /\ UNCHANGED <<dbVars, mem, spent>>)

Plus(count, n) == IF count + n < 0 THEN 0 ELSE count + n

\* The document is not eligible: its entry is REMOVED.
ForgetEntry(i) ==
    LET d == mem[i].job
        v == mem[i].target
    IN
    /\ pc[i] = "forget"
    /\ entries' = [entries EXCEPT ![v][d] = 0]
    /\ docs' = [docs EXCEPT ![d].state = "NOT_INDEXED"]
    /\ versions' = [versions EXCEPT ![v].count = Plus(@, IF entries[v][d] = 0 THEN 0 ELSE -1)]
    /\ Touch({d})
    /\ Done(i)
    /\ UNCHANGED <<jobs, qdrantVars, mem, spent>>

Upsert(i) ==
    /\ pc[i] = "upsert"
    /\ OnCollection(i,
          /\ Writes(mem[i].target, <<mem[i].job, mem[i].ver>>)
          /\ Goto(i, "stored")
          /\ UNCHANGED <<dbVars, mem, spent>>)

\* The transaction refuses a document that changed under the handler.
UnchangedStatus(i) == Eligible(mem[i].job)        \* mutant: the version is not compared

Unchanged(i) ==
    LET d == mem[i].job IN Eligible(d) /\ docs[d].ver = mem[i].ver

StoreEntry(i) ==
    LET d == mem[i].job
        v == mem[i].target
    IN
    /\ pc[i] = "stored" /\ MayGoOn(i)
    /\ IF ~Unchanged(i) THEN Raise(i, "RETRY")
       ELSE /\ entries' = [entries EXCEPT ![v][d] = mem[i].ver]
            /\ versions' = [versions EXCEPT ![v].count =
                               Plus(@, IF entries[v][d] = 0 THEN 1 ELSE 0)]
            /\ docs' = [docs EXCEPT ![d].state = "READY"]
            /\ Touch({d})
            /\ Done(i)
            /\ UNCHANGED <<jobs, qdrantVars, mem, spent>>

-----------------------------------------------------------------------------
(* FULL_REINDEX (_full_reindex): build beside the active index, verify,    *)
(* switch the alias, activate.                                             *)

\* The checkpoint of the batches that are recorded.
LastChunkForgotten == None                          \* mutant: the checkpoint is not read

LastChunk == jobs[Full].last

\* _prepare_full_version: a repeated job goes on with the version of its payload.
Prepare(i) ==
    /\ pc[i] = "prepare"
    /\ Goto(i, "collection")
    /\ IF jobs[Full].version # None
       THEN /\ Learn(i, [mem[i] EXCEPT !.target = jobs[Full].version, !.last = LastChunk])
            /\ UNCHANGED <<jobs, versions, fresh>>
       ELSE \E v \in Versions :
            /\ Owner(i)
            /\ versions[v].status = "ABSENT"
            /\ \A w \in 1 .. v - 1 : versions[w].status # "ABSENT"
            /\ versions' = [versions EXCEPT ![v].status = "BUILDING"]
            /\ fresh' = [fresh EXCEPT ![v] = Docs]
            /\ jobs' = [jobs EXCEPT ![Full].version = v]
            /\ Learn(i, [mem[i] EXCEPT !.target = v])
    /\ UNCHANGED <<docs, entries, qdrantVars, spent>>

\* create_collection makes the collection and then its payload indexes; a
\* collection that exists is taken as it is, if validate_collection accepts it.
Makes(v, from, to) ==
    /\ coll[v] = from
    /\ coll' = [coll EXCEPT ![v] = to]
    /\ UNCHANGED <<points, alias>>

CreateCollection(i) ==
    /\ pc[i] = "collection"
    /\ Makes(mem[i].target, "absent", "bare")
    /\ Goto(i, "bare")
    /\ UNCHANGED <<dbVars, mem, spent>>

CreateIndexes(i) ==
    /\ pc[i] = "bare"
    /\ Makes(mem[i].target, "bare", "complete")
    /\ Goto(i, "total")
    /\ UNCHANGED <<dbVars, mem, spent>>

UseCollection(i) ==
    /\ pc[i] = "collection" /\ coll[mem[i].target] # "absent"
    /\ IF coll[mem[i].target] = "bare" THEN Raise(i, "FATAL")
       ELSE Goto(i, "total") /\ UNCHANGED <<dbVars, qdrantVars, mem, spent>>

\* What there is to do, and what earlier attempts have done.
CountEligible(i) ==
    /\ pc[i] = "total"
    /\ Learn(i, [mem[i] EXCEPT !.total = EligibleCount(mem[i].target)])
    /\ Goto(i, "resume")
    /\ UNCHANGED <<dbVars, qdrantVars, spent>>

CountEntries(i) ==
    /\ pc[i] = "resume"
    /\ Learn(i, [mem[i] EXCEPT !.done = Cardinality(Indexed(mem[i].target))])
    /\ Goto(i, "batch")
    /\ UNCHANGED <<dbVars, qdrantVars, spent>>

\* _load_eligible_batch: keyset pagination over the chunk ids
RemainingInclusive(i) ==                            \* mutant: the last chunk again
    {d \in fresh[mem[i].target] : Eligible(d) /\ d >= mem[i].last}

Remaining(i) == {d \in fresh[mem[i].target] : Eligible(d) /\ d > mem[i].last}

LoadBatch(i) ==
    LET rest == Remaining(i) IN
    /\ pc[i] = "batch" /\ MayGoOn(i)
    /\ IF rest = {} THEN Goto(i, "count") /\ UNCHANGED mem
       ELSE \E d \in rest :
            /\ \A e \in rest : d <= e
            /\ Learn(i, [mem[i] EXCEPT !.doc = d, !.ver = docs[d].ver, !.chunk = docs[d].chunk])
            /\ Goto(i, "write")
    /\ UNCHANGED <<dbVars, qdrantVars, spent>>

WriteBatch(i) ==
    /\ pc[i] = "write"
    /\ OnCollection(i,
          /\ Writes(mem[i].target, <<mem[i].doc, mem[i].ver>>)
          /\ Goto(i, "written")
          /\ UNCHANGED <<dbVars, mem, spent>>)

\* Entries and checkpoint in one transaction, which fails if the chunk row is
\* gone (foreign key) or the job is lost.
RecordBatch(i) ==
    LET d == mem[i].doc
        v == mem[i].target
    IN
    /\ pc[i] = "written" /\ MayGoOn(i)
    /\ IF docs[d].chunk # mem[i].chunk THEN Raise(i, "RETRY")
       ELSE /\ entries' = [entries EXCEPT ![v][d] = mem[i].ver]
            /\ jobs' = [jobs EXCEPT ![Full].last = d]
            /\ Learn(i, [mem[i] EXCEPT !.done = @ + 1, !.last = d,
                                       !.doc = 0, !.ver = 0, !.chunk = 0])
            /\ Goto(i, "batch")
            /\ UNCHANGED <<docs, versions, fresh, qdrantVars, spent>>

CountsAgree(m) == Cardinality(points[m.target]) = m.total /\ m.done = m.total

Verify(i) ==
    /\ pc[i] = "count"
    /\ IF coll[mem[i].target] = "absent" \/ ~CountsAgree(mem[i]) THEN Raise(i, "FATAL")
       ELSE Goto(i, "verified") /\ UNCHANGED <<dbVars, qdrantVars, mem, spent>>

MarkReady(i) ==
    LET v == mem[i].target IN
    /\ pc[i] = "verified" /\ MayGoOn(i)
    /\ versions' = [versions EXCEPT ![v] = [status |-> "READY", count |-> mem[i].total]]
    /\ Goto(i, "switch")
    /\ UNCHANGED <<docs, jobs, entries, fresh, qdrantVars, mem, spent>>

\* switch_alias and remove_alias
Names(v) == alias' = v /\ UNCHANGED <<coll, points>>

SwitchAlias(i) ==
    /\ pc[i] = "switch"
    /\ OnCollection(i,
          /\ Learn(i, [mem[i] EXCEPT !.prev = alias])
          /\ Names(mem[i].target)
          /\ Goto(i, "activate")
          /\ UNCHANGED <<dbVars, spent>>)

\* The row of the old version and that of the new one change in one flush.
ActivatedRows(v) ==
    [w \in Versions |->
        IF w = v THEN [versions[w] EXCEPT !.status = "ACTIVE"]
        ELSE IF versions[w].status = "ACTIVE" THEN [versions[w] EXCEPT !.status = "RETIRED"]
        ELSE versions[w]]

Activate(i) ==
    LET v == mem[i].target IN
    /\ pc[i] = "activate"
    /\ versions' = ActivatedRows(v)
    /\ docs' = [d \in Docs |-> IF d \in Indexed(v) THEN [docs[d] EXCEPT !.state = "READY"]
                               ELSE docs[d]]
    /\ Touch(Indexed(v))
    /\ Done(i)
    /\ UNCHANGED <<jobs, entries, qdrantVars, mem, spent>>

\* The two UPDATEs go out in the order of the random primary keys, and the new
\* row first breaks the unique index on ACTIVE; any other error of the
\* transaction is caught here too.
ActivationFails(i) ==
    /\ pc[i] = "activate"
    /\ \/ ActiveVersions \ {mem[i].target} # {} /\ UNCHANGED spent
       \/ /\ spent.faults < FaultBudget
          /\ spent' = [spent EXCEPT !.faults = @ + 1]
    /\ Goto(i, "compensate")
    /\ UNCHANGED <<dbVars, qdrantVars, mem>>

RestoredTarget(i) == mem[i].target                  \* mutant: the alias stays

Restored(i) == mem[i].prev

\* Then the error of the transaction is raised again.
Compensate(i) ==
    /\ pc[i] = "compensate"
    /\ Names(Restored(i))
    /\ GiveUp(i, "RETRY")
    /\ UNCHANGED <<dbVars, spent>>

-----------------------------------------------------------------------------
(* SEARCH_INDEX_CLEANUP (_cleanup) with confirmation.                      *)

ListCollections(i) ==
    /\ pc[i] = "listing"
    /\ Learn(i, [mem[i] EXCEPT !.prev = alias, !.drop = {v \in Versions : coll[v] # "absent"}])
    /\ Goto(i, "choosing")
    /\ UNCHANGED <<dbVars, qdrantVars, spent>>

\* Versions are numbered in the order of created_at.
Retained(v) ==
    /\ versions[v].status = "RETIRED"
    /\ Cardinality({w \in Versions : w > v /\ versions[w].status = "RETIRED"}) < RetainRetired

ProtectedByAlias(i, recent) ==                      \* mutant: the ACTIVE version is not
    {mem[i].prev} \cup {v \in Versions : Retained(v)} \cup recent

Protected(i, recent) ==
    {mem[i].prev} \cup ActiveVersions \cup {v \in Versions : Retained(v)} \cup recent

\* recent: FAILED versions younger than the retention period
ChooseCollections(i) ==
    /\ pc[i] = "choosing"
    /\ \E recent \in SUBSET {v \in Versions : versions[v].status = "FAILED"} :
           Learn(i, [mem[i] EXCEPT !.drop = @ \ Protected(i, recent)])
    /\ Goto(i, "dropping")
    /\ UNCHANGED <<dbVars, qdrantVars, spent>>

\* Qdrant drops the aliases of a collection with it.
Drops(v) ==
    /\ coll' = [coll EXCEPT ![v] = "absent"]
    /\ points' = [points EXCEPT ![v] = {}]
    /\ alias' = IF alias = v THEN None ELSE alias

NextDropped(i) == {v \in mem[i].drop : \A w \in mem[i].drop : w <= v}

DropCollection(i) ==
    /\ pc[i] = "dropping"
    /\ IF mem[i].drop = {} THEN Done(i) /\ UNCHANGED <<qdrantVars, mem, spent>>
       ELSE \E v \in NextDropped(i) :
            /\ Drops(v)
            /\ Learn(i, [mem[i] EXCEPT !.drop = @ \ {v}])
            /\ spent' = [spent EXCEPT !.cleaned = @ \cup {v}]
            /\ UNCHANGED pc
    /\ UNCHANGED dbVars

-----------------------------------------------------------------------------
(* Answers that are lost.                                                  *)

\* The last attempt of a request is carried out by Qdrant, but the handler only
\* sees a timeout, a refusal of its repetition, or the shutdown.
CarriedOut(i) ==
    LET m == mem[i]
        v == m.target
    IN
    \/ Deleting(i) /\ coll[v] # "absent" /\ Deletes(v, m.job)
    \/ pc[i] = "upsert" /\ coll[v] # "absent" /\ Writes(v, <<m.job, m.ver>>)
    \/ pc[i] = "write" /\ coll[v] # "absent" /\ Writes(v, <<m.doc, m.ver>>)
    \/ pc[i] = "collection" /\ Makes(v, "absent", "bare")
    \/ pc[i] = "bare" /\ Makes(v, "bare", "complete")
    \/ pc[i] = "switch" /\ coll[v] # "absent" /\ Names(v)
    \/ pc[i] = "compensate" /\ Names(Restored(i))
    \/ pc[i] = "dropping" /\ \E w \in NextDropped(i) : Drops(w)

Unanswered(i) ==
    /\ CarriedOut(i)
    /\ \E code \in Causes(pc[i]) : GiveUp(i, code)
    /\ Faulty(pc[i] = "switch", IF pc[i] = "dropping" THEN NextDropped(i) ELSE {})
    /\ UNCHANGED dbVars

-----------------------------------------------------------------------------
(* The system.                                                             *)

\* Documents that were just ingested, each with its reindex job, before the
\* first rebuild; or a hidden one and a duplicate.
Init ==
    /\ \E mixed \in BOOLEAN :
         docs = [d \in Docs |-> [ver |-> 1, chunk |-> 1, hidden |-> mixed /\ d = 1,
                                duplicate |-> mixed /\ d = 2, state |-> "NOT_INDEXED"]]
    /\ jobs = [k \in JobIds |-> IF k \in Docs THEN NewJob(None, None) ELSE NoJob]
    /\ versions = [v \in Versions |-> [status |-> "ABSENT", count |-> 0]]
    /\ entries = [v \in Versions |-> [d \in Docs |-> 0]]
    /\ fresh = [v \in Versions |-> {}]
    /\ coll = [v \in Versions |-> "absent"]
    /\ points = [v \in Versions |-> {}]
    /\ alias = None
    /\ pc = [i \in Indexers |-> "idle"]
    /\ mem = [i \in Indexers |-> Nothing]
    /\ spent = [requests |-> 0, faults |-> 0, crashed |-> FALSE, astray |-> FALSE,
              cleaned |-> {}]

Api ==
    \/ EnqueueFull \/ EnqueueFullFromCli \/ EnqueueCleanup
    \/ \E k \in JobIds : CancelJob(k) \/ RetryJob(k)
    \/ \E d \in Docs : \/ EditDocument(d) \/ HideDocument(d) \/ RestoreDocument(d)
                      \/ IngestUnchanged(d) \/ ReindexDocument(d)
                      \/ \E duplicate \in BOOLEAN : IngestDocument(d, duplicate)

Reindex(i) ==
    \/ Load(i) \/ CheckAlias(i) \/ DeletePoints(i) \/ ForgetEntry(i) \/ Upsert(i) \/ StoreEntry(i)

Rebuild(i) ==
    \/ Prepare(i) \/ CreateCollection(i) \/ CreateIndexes(i) \/ UseCollection(i)
    \/ CountEligible(i) \/ CountEntries(i) \/ LoadBatch(i) \/ WriteBatch(i) \/ RecordBatch(i)
    \/ Verify(i) \/ MarkReady(i) \/ SwitchAlias(i) \/ Activate(i) \/ ActivationFails(i)
    \/ Compensate(i)

Cleanup(i) == ListCollections(i) \/ ChooseCollections(i) \/ DropCollection(i)

Handler(i) == Reindex(i) \/ Rebuild(i) \/ Cleanup(i) \/ Refused(i)
              \/ MarkFailure(i) \/ Finish(i)

Next ==
    \/ Api
    \/ \E i \in Indexers : \/ \E k \in JobIds : Claim(i, k)
                          \/ Handler(i) \/ Error(i) \/ Unanswered(i)
                          \/ Crash(i) \/ LoseLease(i)

Spec == Init /\ [][Next]_vars

-----------------------------------------------------------------------------
(* Properties.                                                             *)

DocRows == [ver : 1 .. MaxVersion, chunk : 1 .. MaxVersion,
            hidden : BOOLEAN, duplicate : BOOLEAN, state : IndexStates]

JobRows == [status : JobStates, attempt : 0 .. MaxAttempts, cancel : BOOLEAN,
            owner : Indexers \cup {NoIndexer}, version : Versions \cup {None},
            last : Docs \cup {None}]

VersionRow == [status : BuildStates, count : Nat]

\* The document_version of an entry that is INDEXED; 0 where there is none.
EntryRow == 0 .. MaxVersion

Memory == [job : JobIds \cup {0}, target : Versions \cup {None}, ver : 0 .. MaxVersion,
           chunk : 0 .. MaxVersion, doc : Docs \cup {0}, last : Docs \cup {None},
           total : 0 .. DocCount, done : 0 .. DocCount, prev : Versions \cup {None},
           drop : SUBSET Versions, code : {"OK", "RETRY", "FATAL", "CANCELLED"}]

Places == Asking \cup Querying \cup {"idle", "activate", "failing", "finish"}

\* Types of the two stores and of the handlers; an interrupted rebuild never
\* counts a chunk twice.
IndexTypeOK ==
    /\ docs \in [Docs -> DocRows]
    /\ jobs \in [JobIds -> JobRows]
    /\ versions \in [Versions -> VersionRow]
    /\ entries \in [Versions -> [Docs -> EntryRow]]
    /\ fresh \in [Versions -> SUBSET Docs]
    /\ coll \in [Versions -> {"absent", "bare", "complete"}]
    /\ points \in [Versions -> SUBSET (Docs \X (1 .. MaxVersion))]
    /\ alias \in Versions \cup {None}
    /\ pc \in [Indexers -> Places]
    /\ mem \in [Indexers -> Memory]
    /\ spent \in Spending

\* docs/index-recovery.md:6: neither the collection of the ACTIVE version nor
\* the target of the alias is ever deleted or left half created, whatever
\* rebuild is interrupted, retried or cleaned up after.
ServedExists ==
    \A v \in Versions : v = alias \/ v \in ActiveVersions => coll[v] = "complete"

\* docs/index-recovery.md:4-5: the alias names the ACTIVE version, except between
\* the switch and its transaction or compensation: an activation that fails is
\* compensated, and every other failure of a rebuild comes before the switch.
\* Nothing reconciles the two afterwards, so it holds as long as no indexer
\* crashed or lost its job, no switch was carried out and reported as failed, and
\* no compensation failed.
AliasFollows ==
    \/ spent.crashed \/ spent.astray
    \/ \E i \in Indexers : pc[i] \in {"activate", "compensate"}
    \/ ActiveVersions = (IF alias = None THEN {} ELSE {alias})

\* docs/stage6-search-index.md:3, "one current chunk becomes one point": a
\* rebuild is verified only if it recorded every eligible document that nobody
\* touched since its snapshot, and its collection holds their current points,
\* however often it was interrupted and resumed from a checkpoint; unless a
\* cleanup deleted the collection meanwhile, which the counts may not show.
ReadyIsComplete ==
    [][\A v \in Versions :
         versions[v].status # "READY" /\ versions'[v].status = "READY" =>
            \A d \in fresh[v] : Eligible(d) =>
               /\ entries[v][d] = docs[d].ver
               /\ v \notin spent.cleaned => <<d, docs[d].ver>> \in points[v]]_vars

PointsOf(v, d) == {p \in points[v] : p[1] = d}

\* Which step calls a document READY or NOT_INDEXED, and on what grounds.  Its own
\* reindex: the ACTIVE version holds its current point and no other of it (docs/
\* indexer-worker.md:7), although the document may be edited at every step.  An
\* activation: the document has an entry in the new version, with its current
\* point unless somebody wrote the document since the snapshot; such a document
\* is called READY too, with the point it had in its batch.
StatusEarned ==
    [][\A d \in Docs :
        /\ docs[d].state # "READY" /\ docs'[d].state = "READY" =>
              \E i \in Indexers : LET v == mem[i].target IN
                 \/ /\ pc[i] = "stored" /\ pc'[i] = "finish" /\ mem[i].job = d
                    /\ Eligible(d) /\ PointsOf(v, d) = {<<d, docs[d].ver>>}
                 \/ /\ pc[i] = "activate" /\ pc'[i] = "finish" /\ d \in Indexed(v)
                    /\ d \in fresh[v] /\ Eligible(d) /\ v \notin spent.cleaned =>
                          <<d, docs[d].ver>> \in points[v]
        /\ docs[d].state # "NOT_INDEXED" /\ docs'[d].state = "NOT_INDEXED" =>
              \E i \in Indexers : /\ pc[i] = "forget" /\ pc'[i] = "finish" /\ mem[i].job = d
                                  /\ PointsOf(mem[i].target, d) = {}]_vars

\* How far a handler is from its end.
Rest(m) == DocCount - m.last

Left(place, m) ==
    CASE place = "idle" -> 0
      [] place = "finish" -> 1
      [] place = "failing" -> 2
      [] place \in {"stored", "forget"} -> 3
      [] place \in {"upsert", "remove"} -> 4
      [] place \in {"delete", "compensate"} -> 5
      [] place \in {"alias", "activate"} -> 6
      [] place \in {"load", "switch"} -> 7
      [] place = "verified" -> 8
      [] place = "count" -> 9
      [] place = "written" -> 10 + 3 * Rest(m)
      [] place = "write" -> 11 + 3 * Rest(m)
      [] place = "batch" -> 12 + 3 * Rest(m)
      [] place = "resume" -> 13 + 3 * Rest(m)
      [] place = "total" -> 14 + 3 * Rest(m)
      [] place = "bare" -> 15 + 3 * Rest(m)
      [] place = "collection" -> 16 + 3 * Rest(m)
      [] place = "prepare" -> 17 + 3 * DocCount
      [] place = "dropping" -> 3 + Cardinality(m.drop)
      [] place = "choosing" -> 4 + Cardinality(m.drop)
      [] OTHER -> 5 + Builds

Distance(i) == Left(pc[i], mem[i])

\* A handler comes to its end, whatever the API does to its documents and
\* however its requests fail, since every step of it brings it nearer: the
\* queue takes that for granted.
HandlerAdvances ==
    [][\A i \in Indexers :
         pc[i] # "idle" /\ <<pc[i], mem[i]>>' # <<pc[i], mem[i]>> => Distance(i)' < Distance(i)]_vars

\* docs/final/report-source.md:62, "indexing restart-safe": a rebuild that is
\* repeated after its version became ACTIVE does not declare that version FAILED.
ActiveIsKept ==
    [][\A v \in ActiveVersions : versions'[v].status # "FAILED"]_vars

=============================================================================
