----------------------------- MODULE Documents ------------------------------
(***************************************************************************)
(* The table of documents and the transactions that write it: the          *)
(* ingestion of a thread (services/document_ingestion.py) by the tasks of  *)
(* the dump importer (scripts/import_stackexchange_dump.py) and by the     *)
(* synchronisation, and the changes of the editor (services/editor.py).    *)
(*                                                                         *)
(* A transaction is cut where it waits: at the row of its document, at the *)
(* advisory lock on the hash of its content, and at the row of the         *)
(* original that a duplicate refers to (a foreign key takes a shared lock  *)
(* there).  It sees what is committed, and writes when it commits.  The    *)
(* locks are read off the places of the transactions.  PostgreSQL is       *)
(* external: it grants locks, and ends one transaction of a deadlock.      *)
(***************************************************************************)
EXTENDS Integers, FiniteSets, Sequences

CONSTANTS
    Ids,          \* questions of the source, and the documents made of them
    None,         \* no document
    Tasks,        \* tasks of the dump importer
    Sync,         \* the ingestion worker
    Bulk,         \* the editor's bulk operation
    Dump,         \* content of each question in the dump
    Live,         \* contents of each question on the site, over time
    Unusable,     \* questions that prepare_question_thread skips
    Target,       \* target_total of an import
    Reserve,      \* questions that a small import selects beyond its target, 10 in the code
    MaxFailures,  \* --max-failures
    SyncBudget,   \* bound: threads that the synchronisation ingests
    EventBudget,  \* bound: changes by editors, database errors and importer crashes
    ImportBudget  \* bound: runs of the importer

Writers == Tasks \cup {Sync}
Processes == Writers \cup {Bulk}

ASSUME DocumentsAssumption ==
    /\ IsFiniteSet(Ids) /\ IsFiniteSet(Tasks) /\ None \notin Ids /\ Unusable \subseteq Ids
    /\ Tasks # {}                                 \* --concurrency is 1..16
    /\ Sync \notin Tasks /\ Bulk \notin Writers
    /\ DOMAIN Dump = Ids /\ DOMAIN Live = Ids
    /\ Target \in Nat /\ Reserve \in Nat /\ MaxFailures \in Nat \ {0}
    /\ ImportBudget \in Nat /\ SyncBudget \in Nat /\ EventBudget \in Nat

VARIABLES
    docs,     \* committed documents, with their chunks and their last revision
    pc,       \* where the transaction of each writer is
    tx,       \* what it has read
    bulk,     \* the rows a bulk operation holds, and those it still wants
    import,   \* the run of the importer
    initial,  \* source_sync_states.initial_sync_completed_at is set
    spent     \* the budgets used up

vars == <<docs, pc, tx, bulk, import, initial, spent>>

Contents == {Dump[d] : d \in Ids} \cup UNION {Live[d] : d \in Ids}
Titles == {"source", "edited"}
Hashes == Contents \X Titles     \* content_hash covers the title in use and the texts

ASSUME HashAssumption == None \notin Hashes

\* What document_chunks and document_revisions hold for a document.
ChunkRows == [version : Nat \ {0}, of : Contents]
RevisionRow == [version : Nat \ {0}, of : Hashes]

DocumentRow == [version : Nat, hash : Hashes \cup {None}, title : Titles, hidden : BOOLEAN,
                duplicate : Ids \cup {None}, chunks : ChunkRows \cup {None},
                revision : RevisionRow \cup {None}]

NoDoc == [version |-> 0, hash |-> None, title |-> "source", hidden |-> FALSE,
          duplicate |-> None, chunks |-> None, revision |-> None]

Exists(d) == docs[d].version > 0

Spend(budget, limit) == spent[budget] < limit /\ spent' = [spent EXCEPT ![budget] = @ + 1]

-----------------------------------------------------------------------------
(* Locks.                                                                  *)

NoTx == [id |-> None, content |-> None, new |-> FALSE, original |-> None]

\* SELECT ... FOR UPDATE, or a row that was inserted and not committed.
HoldsRow(p, d) ==
    IF p = Bulk THEN d \in bulk.held
    ELSE tx[p].id = d /\ pc[p] \in {"hash", "commit"}

\* Mutant: no foreign key.
RefersFreely(p) == FALSE

\* A new value of duplicate_of_document_id is checked under a shared lock.
RefersAnew(p) ==
    tx[p].original # None /\ (tx[p].new \/ docs[tx[p].id].duplicate # tx[p].original)

RowTaken(p, d) == {q \in Processes \ {p} : HoldsRow(q, d)}

\* The title an editor gave is kept, and is part of what is hashed.
HashOf(p) ==
    <<tx[p].content,
      IF ~tx[p].new /\ docs[tx[p].id].title = "edited" THEN "edited" ELSE "source">>

HoldsHash(p, hash) == p # Bulk /\ pc[p] = "commit" /\ HashOf(p) = hash

\* Mutant: exact duplicates are looked for without the advisory lock.
NoHashTaken(p) == {}

HashTaken(p) == {q \in Writers \ {p} : HoldsHash(q, HashOf(p))}

WaitsFor(p) ==
    IF p = Bulk THEN IF bulk.todo = <<>> THEN {} ELSE RowTaken(p, Head(bulk.todo))
    ELSE CASE pc[p] = "row" -> RowTaken(p, tx[p].id)
           [] pc[p] = "hash" -> HashTaken(p)
           [] pc[p] = "commit" /\ RefersAnew(p) -> RowTaken(p, tx[p].original)
           [] OTHER -> {}

Deadlocked(p) ==
    \E S \in SUBSET Processes :
        /\ p \in S
        /\ \A q \in S : WaitsFor(q) \cap S # {} /\ \E r \in S : q \in WaitsFor(r)

-----------------------------------------------------------------------------
(* ingest_question_thread                                                  *)

Goto(w, place) == pc' = [pc EXCEPT ![w] = place]

Ingest(w, d, content) ==
    /\ Goto(w, "row")
    /\ tx' = [tx EXCEPT ![w] = [id |-> d, content |-> content, new |-> ~Exists(d),
                               original |-> None]]

LockRow(w) ==
    /\ pc[w] = "row" /\ WaitsFor(w) = {}
    /\ tx[w].new => ~Exists(tx[w].id)
    /\ Goto(w, "hash")
    /\ UNCHANGED <<docs, tx, bulk, import, initial, spent>>

\* Mutant: the document itself is among the originals.
OriginalsWithItself(d, hash) == {o \in Ids : docs[o].hash = hash /\ docs[o].duplicate = None}

\* _apply_exact_deduplication; among several originals it takes the oldest.
Originals(d, hash) == {o \in Ids \ {d} : docs[o].hash = hash /\ docs[o].duplicate = None}

FindOriginal(w) ==
    LET originals == Originals(tx[w].id, HashOf(w)) IN
    /\ pc[w] = "hash" /\ WaitsFor(w) = {}
    /\ \E original \in IF originals = {} THEN {None} ELSE originals :
         tx' = [tx EXCEPT ![w].original = original]
    /\ Goto(w, "commit")
    /\ UNCHANGED <<docs, bulk, import, initial, spent>>

\* The chunker is a function of the text; a chunk's key names the version it was cut for.
Chunked(version, content) == [version |-> version, of |-> content]

\* Mutant: the chunks of a changed document are kept.
IngestedWithOldChunks(w) ==
    LET old == docs[tx[w].id]
        hash == HashOf(w)
        seen == [old EXCEPT !.duplicate = tx[w].original]
        version == old.version + 1
    IN IF hash = old.hash THEN seen
       ELSE [seen EXCEPT !.version = version, !.hash = hash,
                         !.chunks = IF old.version = 0 THEN Chunked(version, hash[1]) ELSE @,
                         !.revision = [version |-> version, of |-> hash]]

\* A changed content makes a version, a revision and new chunks; an unchanged one
\* may only change what the document duplicates.
Ingested(w) ==
    LET old == docs[tx[w].id]
        hash == HashOf(w)
        seen == [old EXCEPT !.duplicate = tx[w].original]
        version == old.version + 1
    IN IF hash = old.hash THEN seen
       ELSE [seen EXCEPT !.version = version, !.hash = hash,
                         !.chunks = Chunked(version, hash[1]),
                         !.revision = [version |-> version, of |-> hash]]

\* The end of a transaction, for the one who started it.
Counted(w, failed) ==
    IF w = Sync THEN import
    ELSE LET failures == import.failed + (IF failed THEN 1 ELSE 0)
         IN [import EXCEPT !.failed = failures, !.stop = @ \/ failures >= MaxFailures]

End(w, failed) ==
    /\ Goto(w, "idle")
    /\ tx' = [tx EXCEPT ![w] = NoTx]
    /\ import' = Counted(w, failed)

Commit(w) ==
    /\ pc[w] = "commit" /\ WaitsFor(w) = {}
    /\ docs' = [docs EXCEPT ![tx[w].id] = Ingested(w)]
    /\ End(w, FALSE)
    /\ UNCHANGED <<bulk, initial, spent>>

\* Two transactions inserted the same question: the later one violates the key.
InsertConflicts(w) ==
    /\ pc[w] = "row" /\ WaitsFor(w) = {}
    /\ tx[w].new /\ Exists(tx[w].id)
    /\ End(w, TRUE)
    /\ UNCHANGED <<docs, bulk, initial, spent>>

Victim(w) ==
    /\ Deadlocked(w)
    /\ End(w, TRUE)
    /\ UNCHANGED <<docs, bulk, initial, spent>>

DatabaseFails(w) ==
    /\ pc[w] \notin {"idle", "ended"} /\ Spend("events", EventBudget)
    /\ End(w, TRUE)
    /\ UNCHANGED <<docs, bulk, initial>>

Transaction(w) ==
    \/ LockRow(w) \/ FindOriginal(w) \/ Commit(w)
    \/ InsertConflicts(w) \/ Victim(w)

\* The synchronisation brings the thread as it is on the site at that time.
SyncThread ==
    /\ pc[Sync] = "idle" /\ Spend("syncs", SyncBudget)
    /\ \E d \in Ids \ Unusable : \E content \in Live[d] : Ingest(Sync, d, content)
    /\ UNCHANGED <<docs, bulk, import, initial>>

-----------------------------------------------------------------------------
(* The importer: tasks that drain a queue.                                 *)

NoImport == [running |-> FALSE, repair |-> FALSE, selection |-> {}, queue |-> {},
             failed |-> 0, stop |-> FALSE]

Importing == import.running

Count == Cardinality({d \in Ids : Exists(d)})

\* run: some questions more than the target asks for.
Needed == IF Count < Target THEN Target - Count + Reserve ELSE 0

\* collect_question_threads: questions of the tag without a document, in the order of
\* the dump, up to the number needed.
NewQuestions(needed) == {S \in SUBSET {d \in Ids : ~Exists(d)} : Cardinality(S) <= needed}

\* With --repair-answer-gaps: documents that lack answers; without any there is no run.
GapDocuments == {S \in SUBSET Ids : S # {} /\ \A d \in S : Exists(d)}

\* collect_threads_by_question_ids: those that the dump has.
KnownQuestions(wanted) == SUBSET wanted

Selections(repair) ==
    IF repair THEN UNION {KnownQuestions(wanted) : wanted \in GapDocuments}
    ELSE NewQuestions(Needed)

\* A run goes through to its end also if the dump has nothing of what it selects.
StartImport ==
    /\ ~Importing /\ Spend("imports", ImportBudget)
    /\ \E repair \in BOOLEAN : \E S \in Selections(repair) :
         /\ repair \/ Needed > 0
         /\ import' = [NoImport EXCEPT !.running = TRUE, !.repair = repair,
                                       !.selection = S, !.queue = S]
    /\ UNCHANGED <<docs, pc, tx, bulk, initial>>

\* Mutant: a task leaves when it sees the stop, and the queue is never joined.
DrainsUnlessStopped(t) == pc[t] = "idle" /\ Importing /\ ~import.stop

\* A task takes threads also after the stop, to empty the queue for queue.join.
Drains(t) == pc[t] = "idle" /\ Importing

TakeThread(t) ==
    /\ Drains(t)
    /\ \E d \in import.queue :
         LET rest == [import EXCEPT !.queue = @ \ {d}] IN
         /\ import' = rest
         /\ IF import.stop \/ d \in Unusable THEN UNCHANGED <<pc, tx>>
            ELSE Ingest(t, d, Dump[d])
    /\ UNCHANGED <<docs, bulk, initial, spent>>

\* The sentinel None; the queue is first in, first out.
EndTask(t) ==
    /\ Drains(t) /\ import.queue = {}
    /\ Goto(t, "ended")
    /\ UNCHANGED <<docs, tx, bulk, import, initial, spent>>

Joined == Importing /\ \A t \in Tasks : pc[t] = "ended"

TasksLeave == pc' = [w \in Writers |-> IF w \in Tasks THEN "idle" ELSE pc[w]]

\* Mutant: failures do not keep the initial synchronisation from being complete.
CompleteByCount == Count >= Target

CompletesInitial == Count >= Target /\ import.failed = 0

\* _finalize_source, which only a run without --repair-answer-gaps reaches.
FinishImport ==
    /\ Joined
    /\ TasksLeave
    /\ import' = NoImport
    /\ initial' = (initial \/ (~import.stop /\ ~import.repair /\ CompletesInitial))
    /\ UNCHANGED <<docs, tx, bulk, spent>>

\* The process ends; its transactions are rolled back.
CrashImport ==
    /\ Importing /\ Spend("events", EventBudget)
    /\ TasksLeave
    /\ tx' = [w \in Writers |-> IF w \in Tasks THEN NoTx ELSE tx[w]]
    /\ import' = NoImport
    /\ UNCHANGED <<docs, bulk, initial>>

-----------------------------------------------------------------------------
(* The editor.                                                             *)

\* A change of the editor makes a version, and _rebase_chunks_after_editor_change
\* gives it the chunks.
Edited(d, document) ==
    [document EXCEPT !.version = @ + 1,
                     !.chunks = Chunked(document.version + 1, @.of)]

Edit(d, document) ==
    /\ Exists(d) /\ RowTaken(Bulk, d) = {} /\ d \notin bulk.held
    /\ Spend("events", EventBudget)
    /\ docs' = [docs EXCEPT ![d] = Edited(d, document)]
    /\ UNCHANGED <<pc, tx, bulk, import, initial>>

UpdateMetadata(d) == Edit(d, [docs[d] EXCEPT !.title = "edited"])

\* Any change of the editor makes later ingestions keep the title in use; as titles of
\* the source do not change here, that shows only if the editor wrote one.
\* hide_document refuses a hidden document, restore_document one that is not.
HideOrRestore(d) == Edit(d, [docs[d] EXCEPT !.hidden = ~@])

NoBulk == [hide |-> FALSE, held |-> {}, todo |-> <<>>]

\* bulk_documents: one transaction that locks the rows in the order of the request.
StartBulk ==
    /\ bulk = NoBulk /\ Spend("events", EventBudget)
    /\ \E hide \in BOOLEAN : \E d, e \in Ids :
         /\ d # e /\ Exists(d) /\ Exists(e)
         /\ bulk' = [hide |-> hide, held |-> {}, todo |-> <<d, e>>]
    /\ UNCHANGED <<docs, pc, tx, import, initial>>

LockNext ==
    /\ bulk.todo # <<>> /\ WaitsFor(Bulk) = {}
    /\ bulk' = [bulk EXCEPT !.held = @ \cup {Head(bulk.todo)}, !.todo = Tail(@)]
    /\ UNCHANGED <<docs, pc, tx, import, initial, spent>>

\* A document that is already hidden, or not, is skipped.
CommitBulk ==
    /\ bulk.held # {} /\ bulk.todo = <<>>
    /\ docs' = [d \in Ids |->
                 IF d \in bulk.held /\ docs[d].hidden # bulk.hide
                 THEN Edited(d, [docs[d] EXCEPT !.hidden = bulk.hide]) ELSE docs[d]]
    /\ bulk' = NoBulk
    /\ UNCHANGED <<pc, tx, import, initial, spent>>

BulkVictim ==
    /\ Deadlocked(Bulk)
    /\ bulk' = NoBulk
    /\ UNCHANGED <<docs, pc, tx, import, initial, spent>>

BulkOperation == LockNext \/ CommitBulk \/ BulkVictim

Editor ==
    \/ \E d \in Ids : UpdateMetadata(d) \/ HideOrRestore(d)
    \/ StartBulk

-----------------------------------------------------------------------------
Init ==
    /\ docs = [d \in Ids |-> NoDoc]
    /\ pc = [w \in Writers |-> "idle"] /\ tx = [w \in Writers |-> NoTx]
    /\ bulk = NoBulk /\ import = NoImport /\ initial = FALSE
    /\ spent = [syncs |-> 0, events |-> 0, imports |-> 0]

Task(t) == TakeThread(t) \/ EndTask(t) \/ Transaction(t)

Next ==
    \/ \E t \in Tasks : Task(t)
    \/ Transaction(Sync) \/ SyncThread
    \/ \E w \in Writers : DatabaseFails(w)
    \/ StartImport \/ FinishImport \/ CrashImport
    \/ Editor \/ BulkOperation

\* The tasks run on an event loop, PostgreSQL grants locks and breaks deadlocks; the
\* starts, the editor and the faults are never owed.
Fairness ==
    /\ \A t \in Tasks : WF_vars(Task(t))
    /\ WF_vars(Transaction(Sync)) /\ WF_vars(BulkOperation) /\ WF_vars(FinishImport)

Spec == Init /\ [][Next]_vars /\ Fairness

-----------------------------------------------------------------------------
(* Properties.                                                             *)

\* Types; a transaction that waits for a hash or beyond holds the row of its document.
DocTypeOK ==
    /\ docs \in [Ids -> DocumentRow]
    /\ \A d \in Ids : docs[d].duplicate # d
                      /\ (docs[d].duplicate # None => Exists(docs[d].duplicate))
    /\ pc \in [Writers -> {"idle", "row", "hash", "commit", "ended"}]
    /\ pc[Sync] # "ended"
    /\ \A w \in Writers : tx[w].id \in Ids \cup {None} /\ (tx[w] = NoTx <=> pc[w] \in {"idle", "ended"})
    /\ import.queue \subseteq import.selection /\ import.selection \subseteq Ids
    /\ bulk.held \subseteq Ids

\* Of the documents with one content at most one is an original, whoever ingests
\* them at the same time, and whatever was edited or ingested again before.
OneOriginal ==
    \A d, e \in Ids :
        d # e /\ Exists(d) /\ Exists(e) /\ docs[d].hash = docs[e].hash
            => docs[d].duplicate # None \/ docs[e].duplicate # None

\* The chunks of a document are those of its content and carry its version, and the
\* last revision records the content, whatever editors did between two ingestions.
ChunksAreCurrent ==
    \A d \in Ids : Exists(d) =>
        /\ docs[d].chunks = [version |-> docs[d].version, of |-> docs[d].hash[1]]
        /\ docs[d].revision.of = docs[d].hash /\ docs[d].revision.version <= docs[d].version

\* No two documents are duplicates of each other: of every pair one may be indexed, in
\* whatever order their transactions look for originals and commit.
NoMutualDuplicates ==
    \A d, e \in Ids : ~(docs[d].duplicate = e /\ docs[e].duplicate = d)

\* Only an import whose every thread has a document, or cannot have one, completes
\* the initial synchronisation.
ImportCovers ==
    [][~initial /\ initial' => \A d \in import.selection \ Unusable : Exists(d)]_vars

\* Every import comes to an end, also after too many failures, among locks, deadlocks
\* and failing transactions.
ImportEnds == Importing ~> ~Importing

=============================================================================
