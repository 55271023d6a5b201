-------------------------- MODULE DocumentsProofs ---------------------------
(***************************************************************************)
(* What holds of Documents for any finite number of questions and tasks,   *)
(* any contents and any budgets: one original of every content, no two     *)
(* documents that are duplicates of each other, chunks of the current      *)
(* version, and imports that complete only what they covered.              *)
(***************************************************************************)
EXTENDS Documents, FiniteSetTheorems, TLAPS

TxRow == [id : Ids \cup {None}, content : Contents \cup {None}, new : BOOLEAN,
          original : Ids \cup {None}]

BulkRow == [hide : BOOLEAN, held : SUBSET Ids, todo : Seq(Ids)]

ImportRow == [running : BOOLEAN, repair : BOOLEAN, selection : SUBSET Ids, queue : SUBSET Ids,
              failed : Nat, stop : BOOLEAN]

Working(w) == pc[w] \in {"row", "hash", "commit"}

\* The types of all the state but the budgets, and what a row without a document is.
Typed ==
    /\ docs \in [Ids -> DocumentRow]
    /\ \A d \in Ids : IF Exists(d) THEN docs[d].hash # None /\ docs[d].revision \in RevisionRow
                      ELSE docs[d] = NoDoc
    /\ pc \in [Writers -> {"idle", "row", "hash", "commit", "ended"}] /\ pc[Sync] # "ended"
    /\ tx \in [Writers -> TxRow]
    /\ \A w \in Writers : IF Working(w) THEN tx[w].id \in Ids /\ tx[w].content \in Contents
                          ELSE tx[w] = NoTx
    /\ bulk \in BulkRow
    /\ import \in ImportRow /\ import.queue \subseteq import.selection
    /\ initial \in BOOLEAN

\* A transaction that waits for a hash or beyond holds the row of its document, and
\* knows whether the document is there; a bulk edit holds documents that are.
RowLocks ==
    /\ \A w \in Writers : pc[w] \in {"hash", "commit"} => tx[w].new = ~Exists(tx[w].id)
    /\ \A w \in Writers : pc[w] = "row" => tx[w].new \/ Exists(tx[w].id)
    /\ \A d \in bulk.held : Exists(d)
    /\ \A i \in 1..Len(bulk.todo) : Exists(bulk.todo[i])
    /\ \A w \in Writers : \A p \in Processes \ {w} : \A d \in Ids :
         ~(HoldsRow(w, d) /\ HoldsRow(p, d))

\* Two transactions that are about to commit do not commit the same content.
HashLocks ==
    \A w, v \in Writers : w # v /\ pc[w] = "commit" /\ pc[v] = "commit" => HashOf(w) # HashOf(v)

\* What a transaction found out about originals is still so when it commits.
Judged ==
    \A w \in Writers : pc[w] = "commit" =>
        IF tx[w].original = None THEN Originals(tx[w].id, HashOf(w)) = {}
        ELSE /\ tx[w].original # tx[w].id /\ Exists(tx[w].original)
             /\ docs[tx[w].original].duplicate # tx[w].id

Duplicates ==
    \A d \in Ids : docs[d].duplicate # d
                   /\ (docs[d].duplicate # None => Exists(docs[d].duplicate))

\* An import that has not failed has every thread behind it, in a task, or before it.
Covered ==
    /\ \A t \in Tasks : pc[t] = "ended" => import.queue = {} /\ Importing
    /\ Importing /\ import.failed = 0 /\ ~import.stop =>
         \A d \in import.selection \ Unusable :
            Exists(d) \/ d \in import.queue \/ \E t \in Tasks : tx[t].id = d

DocInv ==
    /\ Typed /\ RowLocks /\ HashLocks /\ Judged /\ Duplicates /\ Covered
    /\ ChunksAreCurrent /\ OneOriginal /\ NoMutualDuplicates

-----------------------------------------------------------------------------
(* What the operators give.                                                *)

\* The rows that are nothing yet, and the contents and hashes.
LEMMA Rows ==
    /\ NoDoc \in DocumentRow /\ NoTx \in TxRow /\ NoBulk \in BulkRow /\ NoImport \in ImportRow
    /\ \A d \in Ids : Dump[d] \in Contents /\ Live[d] \subseteq Contents
  BY DEF NoDoc, DocumentRow, Titles, NoTx, TxRow, NoBulk, BulkRow, NoImport, ImportRow, Contents

\* The hash of a transaction that has a thread.
LEMMA HashTyped ==
    ASSUME Typed, NEW w \in Writers, tx[w].content \in Contents
    PROVE  HashOf(w) \in Hashes /\ HashOf(w) # None /\ HashOf(w)[1] \in Contents
<1>1. HashOf(w) \in Hashes
  BY DEF HashOf, Hashes, Titles
<1> QED BY <1>1, HashAssumption DEF Hashes

\* ingest_question_thread leaves a document with the content it brought, referring to what
\* it found, and cuts and records a content that changed.
LEMMA IngestedFacts ==
    ASSUME Typed, NEW w \in Writers, Working(w)
    PROVE  /\ Ingested(w) \in DocumentRow
           /\ Ingested(w).version > 0
           /\ Ingested(w).hash = HashOf(w) /\ Ingested(w).revision \in RevisionRow
           /\ Ingested(w).duplicate = tx[w].original
           /\ ChunksAreCurrent =>
                /\ Ingested(w).chunks = [version |-> Ingested(w).version, of |-> HashOf(w)[1]]
                /\ Ingested(w).revision.of = HashOf(w)
                /\ Ingested(w).revision.version <= Ingested(w).version
<1> DEFINE d == tx[w].id
           old == docs[d]
           hash == HashOf(w)
           seen == [old EXCEPT !.duplicate = tx[w].original]
           version == old.version + 1
<1>1. /\ d \in Ids /\ old \in DocumentRow /\ hash \in Hashes /\ hash # None
      /\ hash[1] \in Contents /\ tx[w].original \in Ids \cup {None}
  BY HashTyped DEF Typed, TxRow
<1>2. /\ seen \in DocumentRow /\ seen.version = old.version /\ seen.hash = old.hash
      /\ seen.duplicate = tx[w].original /\ seen.chunks = old.chunks
      /\ seen.revision = old.revision
  BY <1>1 DEF DocumentRow
<1>3. version \in Nat \ {0}
  BY <1>1 DEF DocumentRow
<1>4. CASE hash = old.hash
  <2>1. Ingested(w) = seen
    BY <1>4 DEF Ingested
  <2>2. Exists(d) /\ old.revision \in RevisionRow
    BY <1>1, <1>4 DEF Typed, NoDoc
  <2>3. /\ Ingested(w) \in DocumentRow /\ Ingested(w).version > 0
        /\ Ingested(w).hash = hash /\ Ingested(w).revision \in RevisionRow
        /\ Ingested(w).duplicate = tx[w].original
    BY <1>1, <1>2, <1>4, <2>1, <2>2 DEF Exists
  <2> QED BY <1>1, <1>2, <1>4, <2>1, <2>2, <2>3 DEF ChunksAreCurrent
<1>5. CASE hash # old.hash
  <2>1. Ingested(w) = [seen EXCEPT !.version = version, !.hash = hash,
                         !.chunks = Chunked(version, hash[1]),
                         !.revision = [version |-> version, of |-> hash]]
    BY <1>5 DEF Ingested
  <2>2. /\ Chunked(version, hash[1]) \in ChunkRows
        /\ Chunked(version, hash[1]) = [version |-> version, of |-> hash[1]]
    BY <1>1, <1>3 DEF Chunked, ChunkRows
  <2>3. [version |-> version, of |-> hash] \in RevisionRow
    BY <1>1, <1>3 DEF RevisionRow
  <2>4. [version |-> version, of |-> hash].of = hash /\ version <= version
    BY <1>3
  <2> HIDE DEF version, hash, seen
  <2>5. /\ Ingested(w) \in DocumentRow /\ Ingested(w).version = version
        /\ Ingested(w).hash = hash /\ Ingested(w).duplicate = seen.duplicate
        /\ Ingested(w).chunks = Chunked(version, hash[1])
        /\ Ingested(w).revision = [version |-> version, of |-> hash]
    BY <1>1, <1>2, <1>3, <2>1, <2>2, <2>3 DEF DocumentRow
  <2> QED BY <1>2, <1>3, <2>2, <2>3, <2>5, <2>4 DEF hash
<1> QED BY <1>4, <1>5

\* The title and the visibility of a row can be changed without the rest.
LEMMA RowFields ==
    ASSUME NEW row \in DocumentRow
    PROVE  /\ \A title \in Titles :
                LET new == [row EXCEPT !.title = title]
                IN /\ new \in DocumentRow
                   /\ new.version = row.version /\ new.hash = row.hash
                   /\ new.duplicate = row.duplicate /\ new.chunks = row.chunks
                   /\ new.revision = row.revision
           /\ \A hidden \in BOOLEAN :
                LET new == [row EXCEPT !.hidden = hidden]
                IN /\ new \in DocumentRow
                   /\ new.version = row.version /\ new.hash = row.hash
                   /\ new.duplicate = row.duplicate /\ new.chunks = row.chunks
                   /\ new.revision = row.revision
  BY DEF DocumentRow

\* A change of the editor.
EditOf(old, new) ==
    /\ new \in DocumentRow
    /\ new.version = old.version + 1 /\ new.hash = old.hash /\ new.duplicate = old.duplicate
    /\ new.chunks = [version |-> new.version, of |-> old.chunks.of] /\ new.revision = old.revision

\* _rebase_chunks_after_editor_change gives the new version the chunks of the old one.
LEMMA EditedFacts ==
    ASSUME Typed, ChunksAreCurrent, NEW d \in Ids, Exists(d), NEW document \in DocumentRow,
           document.version = docs[d].version, document.hash = docs[d].hash,
           document.duplicate = docs[d].duplicate, document.chunks = docs[d].chunks,
           document.revision = docs[d].revision
    PROVE  EditOf(docs[d], Edited(d, document))
<1> DEFINE version == document.version + 1
<1>1. version \in Nat \ {0} /\ docs[d].hash \in Hashes
  BY DEF DocumentRow, Typed, Exists
<1>2. docs[d].chunks.of \in Contents
  <2>1. docs[d].chunks = [version |-> docs[d].version, of |-> docs[d].hash[1]]
    BY DEF ChunksAreCurrent
  <2> QED BY <1>1, <2>1 DEF Hashes
<1>3. /\ Chunked(version, document.chunks.of) = [version |-> version, of |-> docs[d].chunks.of]
      /\ Chunked(version, document.chunks.of) \in ChunkRows
  BY <1>1, <1>2 DEF Chunked, ChunkRows
<1>4. Edited(d, document) = [document EXCEPT !.version = version,
                                !.chunks = Chunked(version, document.chunks.of)]
  BY DEF Edited
<1> HIDE DEF version
<1>5. /\ Edited(d, document) \in DocumentRow /\ Edited(d, document).version = version
      /\ Edited(d, document).hash = document.hash
      /\ Edited(d, document).duplicate = document.duplicate
      /\ Edited(d, document).revision = document.revision
      /\ Edited(d, document).chunks = Chunked(version, document.chunks.of)
  BY <1>1, <1>3, <1>4 DEF DocumentRow
<1> QED BY <1>3, <1>5 DEF EditOf, version

-----------------------------------------------------------------------------
(* What a step does, to a document and to a transaction.                   *)

\* A transaction waits at the row for the row, at the hash for the hash, and before it
\* commits for the row of a document it did not refer to.
LEMMA Waits ==
    ASSUME NEW w \in Writers
    PROVE  /\ pc[w] = "row" => WaitsFor(w) = RowTaken(w, tx[w].id)
           /\ pc[w] = "hash" => WaitsFor(w) = HashTaken(w)
           /\ pc[w] = "commit" /\ RefersAnew(w) => WaitsFor(w) = RowTaken(w, tx[w].original)
  BY DocumentsAssumption DEF WaitsFor, Writers

\* A document changes only by an editor, who waits for whoever holds its row, and by the
\* commit of the transaction that ingests it.
LEMMA DocumentSteps ==
    ASSUME Typed, RowLocks, ChunksAreCurrent, [Next]_vars, NEW d \in Ids
    PROVE  \/ docs'[d] = docs[d]
           \/ Exists(d) /\ EditOf(docs[d], docs'[d]) /\ \A w \in Writers : ~HoldsRow(w, d)
           \/ \E w \in Writers : Commit(w) /\ tx[w].id = d /\ docs'[d] = Ingested(w)
<1> USE DEF Typed
<1>1. ASSUME NEW w \in Writers, Commit(w)
      PROVE  docs'[d] = docs[d] \/ (tx[w].id = d /\ docs'[d] = Ingested(w))
  BY <1>1 DEF Commit
<1>2. ASSUME NEW e \in Ids, NEW document \in DocumentRow, Edit(e, document),
             document.version = docs[e].version, document.hash = docs[e].hash,
             document.duplicate = docs[e].duplicate, document.chunks = docs[e].chunks,
             document.revision = docs[e].revision
      PROVE  \/ docs'[d] = docs[d]
             \/ Exists(d) /\ EditOf(docs[d], docs'[d]) /\ \A w \in Writers : ~HoldsRow(w, d)
  <2>1. /\ Exists(e) /\ docs' = [docs EXCEPT ![e] = Edited(e, document)]
        /\ RowTaken(Bulk, e) = {}
    BY <1>2 DEF Edit
  <2>2. \A w \in Writers : ~HoldsRow(w, e)
    BY <2>1, DocumentsAssumption DEF RowTaken, Processes
  <2> QED BY <1>2, <2>1, <2>2, EditedFacts
<1>3. ASSUME NEW e \in Ids, UpdateMetadata(e) \/ HideOrRestore(e)
      PROVE  \/ docs'[d] = docs[d]
             \/ Exists(d) /\ EditOf(docs[d], docs'[d]) /\ \A w \in Writers : ~HoldsRow(w, d)
  <2>1. "edited" \in Titles /\ (~docs[e].hidden) \in BOOLEAN /\ docs[e] \in DocumentRow
    BY DEF Titles
  <2>2. CASE UpdateMetadata(e)
    BY <1>2, <2>1, <2>2, RowFields DEF UpdateMetadata
  <2>3. CASE HideOrRestore(e)
    <3>1. Edit(e, [docs[e] EXCEPT !.hidden = ~docs[e].hidden])
      BY <2>3 DEF HideOrRestore
    <3> DEFINE hidden == ~docs[e].hidden
    <3> HIDE DEF hidden
    <3>2. hidden \in BOOLEAN /\ Edit(e, [docs[e] EXCEPT !.hidden = hidden])
      BY <2>1, <3>1 DEF hidden
    <3> QED BY <1>2, <2>1, <3>2, RowFields
  <2> QED BY <1>3, <2>2, <2>3
<1>4. CASE CommitBulk
  <2> DEFINE document == [docs[d] EXCEPT !.hidden = bulk.hide]
  <2>1. docs'[d] = docs[d] \/ (d \in bulk.held /\ docs'[d] = Edited(d, document))
    BY <1>4 DEF CommitBulk
  <2>2. ASSUME d \in bulk.held
        PROVE  Exists(d) /\ \A w \in Writers : ~HoldsRow(w, d)
    BY <2>2, DocumentsAssumption DEF RowLocks, HoldsRow, Processes
  <2>3. /\ document \in DocumentRow /\ document.version = docs[d].version
        /\ document.hash = docs[d].hash /\ document.duplicate = docs[d].duplicate
        /\ document.chunks = docs[d].chunks /\ document.revision = docs[d].revision
    BY RowFields DEF BulkRow
  <2> HIDE DEF document
  <2> QED BY <2>1, <2>2, <2>3, EditedFacts
<1>5. CASE UNCHANGED docs
  BY <1>5
<1> QED BY <1>1, <1>3, <1>4, <1>5
        DEF Next, vars, Task, TakeThread, EndTask, Transaction, LockRow, FindOriginal,
            InsertConflicts, Victim, SyncThread, DatabaseFails, StartImport, FinishImport,
            CrashImport, Editor, StartBulk, BulkOperation, LockNext, BulkVictim, Writers

\* So nobody else changes a document whose row a transaction holds.
LEMMA HeldStays ==
    ASSUME Typed, RowLocks, ChunksAreCurrent, [Next]_vars, NEW v \in Writers, NEW d \in Ids,
           HoldsRow(v, d), ~Commit(v)
    PROVE  docs'[d] = docs[d]
<1>1. ASSUME NEW w \in Writers, Commit(w), tx[w].id = d
      PROVE  FALSE
  <2>1. HoldsRow(w, d) /\ w # v /\ w \in Processes /\ v \in Processes
    BY <1>1, DocumentsAssumption DEF Commit, HoldsRow, Processes, Writers
  <2> QED BY <2>1 DEF RowLocks
<1> QED BY <1>1, DocumentSteps

\* The places of a transaction.
LEMMA WriterSteps ==
    ASSUME Typed, [Next]_vars, NEW v \in Writers
    PROVE  \/ pc'[v] = pc[v] /\ tx'[v] = tx[v] /\ ~Commit(v)
           \/ pc'[v] = "idle" /\ tx'[v] = NoTx
           \/ v \in Tasks /\ EndTask(v) /\ pc'[v] = "ended" /\ tx'[v] = NoTx
           \/ /\ pc[v] = "idle" /\ pc'[v] = "row" /\ UNCHANGED <<docs, bulk>>
              /\ \E d \in Ids, content \in Contents :
                    tx'[v] = [id |-> d, content |-> content, new |-> ~Exists(d), original |-> None]
           \/ LockRow(v) /\ pc'[v] = "hash" /\ tx'[v] = tx[v]
           \/ FindOriginal(v) /\ pc'[v] = "commit"
<1> USE DEF Typed
<1>1. ASSUME NEW w \in Writers, NEW failed, End(w, failed)
      PROVE  IF w = v THEN pc'[v] = "idle" /\ tx'[v] = NoTx
             ELSE pc'[v] = pc[v] /\ tx'[v] = tx[v]
  BY <1>1 DEF End, Goto
<1>2. ASSUME NEW w \in Writers, NEW d \in Ids, NEW content \in Contents, Ingest(w, d, content)
      PROVE  IF w = v
             THEN /\ pc'[v] = "row"
                  /\ tx'[v] = [id |-> d, content |-> content, new |-> ~Exists(d), original |-> None]
             ELSE pc'[v] = pc[v] /\ tx'[v] = tx[v]
  BY <1>2 DEF Ingest, Goto
<1>3. Commit(v) => pc[v] = "commit" /\ pc'[v] = "idle"
  BY DEF Commit, End, Goto
<1>4. ASSUME NEW w \in Writers,
             Commit(w) \/ InsertConflicts(w) \/ Victim(w) \/ DatabaseFails(w)
      PROVE  \/ pc'[v] = pc[v] /\ tx'[v] = tx[v]
             \/ pc'[v] = "idle" /\ tx'[v] = NoTx
  BY <1>1, <1>4 DEF Commit, InsertConflicts, Victim, DatabaseFails
<1>5. ASSUME NEW w \in Writers, LockRow(w)
      PROVE  \/ pc'[v] = pc[v] /\ tx'[v] = tx[v]
             \/ LockRow(v) /\ pc'[v] = "hash" /\ tx'[v] = tx[v]
  BY <1>5 DEF LockRow, Goto
<1>6. ASSUME NEW w \in Writers, FindOriginal(w)
      PROVE  \/ pc'[v] = pc[v] /\ tx'[v] = tx[v]
             \/ FindOriginal(v) /\ pc'[v] = "commit"
  BY <1>6 DEF FindOriginal, Goto
<1>7. CASE SyncThread
  <2>1. PICK d \in Ids, content \in Contents : Ingest(Sync, d, content)
    BY <1>7, Rows DEF SyncThread
  <2> QED BY <1>2, <1>3, <1>7, <2>1 DEF SyncThread, Writers
<1>8. ASSUME NEW t \in Tasks, TakeThread(t)
      PROVE  \/ pc'[v] = pc[v] /\ tx'[v] = tx[v]
             \/ /\ pc[v] = "idle" /\ pc'[v] = "row" /\ UNCHANGED <<docs, bulk>>
                /\ \E d \in Ids, content \in Contents :
                     tx'[v] = [id |-> d, content |-> content, new |-> ~Exists(d), original |-> None]
  <2>1. CASE UNCHANGED <<pc, tx>>
    BY <2>1
  <2>2. ASSUME NEW d \in import.queue, Ingest(t, d, Dump[d])
        PROVE  \/ pc'[v] = pc[v] /\ tx'[v] = tx[v]
               \/ /\ v = t /\ pc'[v] = "row"
                  /\ tx'[v] = [id |-> d, content |-> Dump[d], new |-> ~Exists(d), original |-> None]
    <3>1. d \in Ids /\ Dump[d] \in Contents /\ t \in Writers
      BY Rows DEF ImportRow, Writers
    <3> QED BY <1>2, <2>2, <3>1
  <2>3. import.queue \subseteq Ids /\ pc[t] = "idle" /\ UNCHANGED <<docs, bulk>>
    BY <1>8 DEF ImportRow, TakeThread, Drains
  <2>4. UNCHANGED <<pc, tx>> \/ \E d \in import.queue : Ingest(t, d, Dump[d])
    BY <1>8 DEF TakeThread
  <2> QED BY <2>1, <2>2, <2>3, <2>4, Rows
<1>9. ASSUME NEW t \in Tasks, EndTask(t)
      PROVE  \/ pc'[v] = pc[v] /\ tx'[v] = tx[v]
             \/ v = t /\ pc'[v] = "ended" /\ tx'[v] = NoTx
  BY <1>9 DEF EndTask, Goto, Drains, Working, Writers
<1>10. CASE FinishImport
  BY <1>3, <1>10 DEF FinishImport, Joined, TasksLeave, Working, Writers
<1>11. CASE CrashImport
  BY <1>3, <1>11 DEF CrashImport, TasksLeave
<1>12. CASE UNCHANGED <<pc, tx>>
  BY <1>3, <1>12
<1>13. \/ \E w \in Writers : Transaction(w) \/ DatabaseFails(w)
       \/ SyncThread \/ FinishImport \/ CrashImport
       \/ \E t \in Tasks : TakeThread(t) \/ EndTask(t)
       \/ UNCHANGED <<pc, tx>>
  BY DEF Next, vars, Task, StartImport, Editor, UpdateMetadata, HideOrRestore, Edit, StartBulk,
         BulkOperation, LockNext, CommitBulk, BulkVictim, Writers
<1> QED BY <1>3, <1>4, <1>5, <1>6, <1>7, <1>8, <1>9, <1>10, <1>11, <1>12, <1>13 DEF Transaction

\* No document vanishes.
LEMMA ExistsStays ==
    ASSUME Typed, RowLocks, ChunksAreCurrent, [Next]_vars, NEW d \in Ids, Exists(d)
    PROVE  Exists(d)'
<1>1. docs[d].version \in Nat
  BY DEF Typed, DocumentRow
<1>2. \A w \in Writers : Commit(w) => Ingested(w).version > 0
  BY IngestedFacts DEF Commit, Working
<1>3. \/ docs'[d].version = docs[d].version \/ docs'[d].version = docs[d].version + 1
      \/ \E w \in Writers : Commit(w) /\ docs'[d] = Ingested(w)
  BY DocumentSteps DEF EditOf
<1> QED BY <1>1, <1>2, <1>3 DEF Exists

\* The content a transaction is about to commit stays the content it locked.
LEMMA HashStays ==
    ASSUME Typed, RowLocks, ChunksAreCurrent, [Next]_vars, NEW w \in Writers, pc'[w] = "commit"
    PROVE  /\ HashOf(w)' = HashOf(w) /\ tx'[w].id = tx[w].id /\ tx[w].id \in Ids
           /\ HoldsRow(w, tx[w].id) /\ docs'[tx[w].id] = docs[tx[w].id] /\ Working(w)
           /\ \/ pc[w] = "commit" /\ tx'[w] = tx[w] /\ ~Commit(w)
              \/ FindOriginal(w)
<1> USE DEF Typed
<1>1. CASE FindOriginal(w)
  <2>1. /\ pc[w] = "hash" /\ UNCHANGED docs
        /\ \E original : tx' = [tx EXCEPT ![w].original = original]
    BY <1>1 DEF FindOriginal
  <2>2. tx'[w].id = tx[w].id /\ tx'[w].content = tx[w].content /\ tx'[w].new = tx[w].new
    BY <2>1 DEF TxRow
  <2> QED BY <1>1, <2>1, <2>2, DocumentsAssumption DEF HashOf, Working, HoldsRow, Writers
<1>2. CASE pc[w] = "commit" /\ tx'[w] = tx[w] /\ ~Commit(w)
  <2>1. tx[w].id \in Ids /\ Working(w) /\ HoldsRow(w, tx[w].id)
    BY <1>2, DocumentsAssumption DEF Working, HoldsRow, Writers
  <2>2. docs'[tx[w].id] = docs[tx[w].id]
    BY <1>2, <2>1, HeldStays
  <2> QED BY <1>2, <2>1, <2>2 DEF HashOf
<1> QED BY <1>1, <1>2, WriterSteps

-----------------------------------------------------------------------------
(* Every part of the invariant holds after every step.                     *)

\* Types.
LEMMA NextTyped ==
    ASSUME Typed, RowLocks, ChunksAreCurrent, [Next]_vars
    PROVE  Typed'
<1> USE DEF Typed
<1>1. /\ docs' = [d \in Ids |-> docs'[d]]
      /\ pc' = [w \in Writers |-> pc'[w]] /\ tx' = [w \in Writers |-> tx'[w]]
  BY DEF Next, vars, Task, TakeThread, EndTask, Transaction, LockRow, FindOriginal, Commit,
         InsertConflicts, Victim, SyncThread, DatabaseFails, StartImport, FinishImport,
         CrashImport, TasksLeave, Editor, UpdateMetadata, HideOrRestore, Edit, StartBulk,
         BulkOperation, LockNext, CommitBulk, BulkVictim, End, Goto, Ingest
<1>2. ASSUME NEW d \in Ids
      PROVE  /\ docs'[d] \in DocumentRow
             /\ IF docs'[d].version > 0
                THEN docs'[d].hash # None /\ docs'[d].revision \in RevisionRow
                ELSE docs'[d] = NoDoc
  <2>1. ASSUME NEW w \in Writers, Commit(w)
        PROVE  /\ Ingested(w) \in DocumentRow /\ Ingested(w).version > 0
               /\ Ingested(w).hash # None /\ Ingested(w).revision \in RevisionRow
    BY <2>1, IngestedFacts, HashTyped DEF Commit, Working
  <2>2. docs[d].version \in Nat
    BY DEF DocumentRow
  <2>3. CASE docs'[d] = docs[d]
    BY <2>3 DEF Exists
  <2>4. CASE Exists(d) /\ EditOf(docs[d], docs'[d])
    BY <2>2, <2>4 DEF EditOf, Exists
  <2> QED BY <2>1, <2>3, <2>4, DocumentSteps
<1>3. ASSUME NEW w \in Writers
      PROVE  /\ pc'[w] \in {"idle", "row", "hash", "commit", "ended"}
             /\ pc'[w] = "ended" => w \in Tasks \/ pc[w] = "ended"
             /\ tx'[w] \in TxRow
             /\ IF pc'[w] \in {"row", "hash", "commit"}
                THEN tx'[w].id \in Ids /\ tx'[w].content \in Contents ELSE tx'[w] = NoTx
  <2>1. CASE FindOriginal(w) /\ pc'[w] = "commit"
    <3>1. PICK original \in Ids \cup {None} : tx' = [tx EXCEPT ![w].original = original]
      BY <2>1 DEF FindOriginal, Originals
    <3>2. tx'[w] \in TxRow /\ tx'[w].id = tx[w].id /\ tx'[w].content = tx[w].content
      BY <3>1 DEF TxRow
    <3> QED BY <2>1, <3>2 DEF Working, FindOriginal
  <2>2. CASE LockRow(w) /\ pc'[w] = "hash" /\ tx'[w] = tx[w]
    BY <2>2 DEF LockRow, Working
  <2>3. ASSUME NEW d \in Ids, NEW content \in Contents, pc'[w] = "row",
               tx'[w] = [id |-> d, content |-> content, new |-> ~Exists(d), original |-> None]
        PROVE  tx'[w] \in TxRow /\ tx'[w].id \in Ids /\ tx'[w].content \in Contents
    <3>1. (~Exists(d)) \in BOOLEAN
      OBVIOUS
    <3> QED BY <2>3, <3>1 DEF TxRow
  <2>4. CASE pc'[w] = pc[w] /\ tx'[w] = tx[w]
    BY <2>4 DEF Working
  <2>5. CASE pc'[w] \in {"idle", "ended"} /\ tx'[w] = NoTx /\ (pc'[w] = "ended" => w \in Tasks)
    BY <2>5, Rows
  <2> QED BY <2>1, <2>2, <2>3, <2>4, <2>5, WriterSteps
<1>4. bulk' \in BulkRow
  <2>1. CASE LockNext
    <3>1. /\ bulk.todo # <<>>
          /\ bulk' = [bulk EXCEPT !.held = bulk.held \cup {Head(bulk.todo)},
                                 !.todo = Tail(bulk.todo)]
      BY <2>1 DEF LockNext
    <3>2. Head(bulk.todo) \in Ids /\ Tail(bulk.todo) \in Seq(Ids)
      BY <3>1 DEF BulkRow
    <3> QED BY <3>1, <3>2 DEF BulkRow
  <2>2. CASE StartBulk
    <3>1. PICK hide \in BOOLEAN, d \in Ids, e \in Ids :
             bulk' = [hide |-> hide, held |-> {}, todo |-> <<d, e>>]
      BY <2>2 DEF StartBulk
    <3> QED BY <3>1 DEF BulkRow
  <2>3. CASE bulk' = NoBulk \/ UNCHANGED bulk
    BY <2>3, Rows
  <2> QED BY <2>1, <2>2, <2>3
          DEF Next, vars, Task, TakeThread, EndTask, Transaction, LockRow, FindOriginal, Commit,
              InsertConflicts, Victim, SyncThread, DatabaseFails, StartImport, FinishImport,
              CrashImport, Editor, UpdateMetadata, HideOrRestore, Edit, BulkOperation,
              CommitBulk, BulkVictim
<1>5. ASSUME NEW w, NEW failed
      PROVE  /\ Counted(w, failed) \in ImportRow
             /\ Counted(w, failed).queue = import.queue
             /\ Counted(w, failed).selection = import.selection
  <2>1. PICK f \in Nat, b \in BOOLEAN :
           Counted(w, failed) \in {import, [import EXCEPT !.failed = f, !.stop = b]}
    <3> DEFINE failures == import.failed + (IF failed THEN 1 ELSE 0)
    <3>1. failures \in Nat /\ (import.stop \/ failures >= MaxFailures) \in BOOLEAN
      BY DEF ImportRow
    <3>2. Counted(w, failed) \in {import, [import EXCEPT !.failed = failures,
                                     !.stop = import.stop \/ failures >= MaxFailures]}
      BY DEF Counted
    <3> QED BY <3>1, <3>2
  <2> QED BY <2>1 DEF ImportRow
<1>6. import' \in ImportRow /\ import'.queue \subseteq import'.selection
  <2>1. ASSUME NEW w \in Writers,
               Commit(w) \/ InsertConflicts(w) \/ Victim(w) \/ DatabaseFails(w)
        PROVE  import' \in ImportRow /\ import'.queue \subseteq import'.selection
    <3>1. \E failed : import' = Counted(w, failed)
      BY <2>1 DEF Commit, InsertConflicts, Victim, DatabaseFails, End
    <3> QED BY <1>5, <3>1
  <2>2. ASSUME NEW t \in Tasks, TakeThread(t)
        PROVE  import' \in ImportRow /\ import'.queue \subseteq import'.selection
    <3>1. PICK d \in import.queue : import' = [import EXCEPT !.queue = import.queue \ {d}]
      BY <2>2 DEF TakeThread
    <3> QED BY <3>1 DEF ImportRow
  <2>3. CASE StartImport
    <3>1. PICK repair \in BOOLEAN, S \in SUBSET Ids :
             import' = [NoImport EXCEPT !.running = TRUE, !.repair = repair,
                                        !.selection = S, !.queue = S]
      BY <2>3, ZenonT(40) DEF StartImport, Selections, KnownQuestions, GapDocuments, NewQuestions
    <3> QED BY <3>1, Rows DEF ImportRow
  <2>4. CASE import' = NoImport
    BY <2>4, Rows DEF NoImport
  <2>5. CASE UNCHANGED import
    BY <2>5
  <2> QED BY <2>1, <2>2, <2>3, <2>4, <2>5
          DEF Next, vars, Task, EndTask, Transaction, LockRow, FindOriginal, SyncThread,
              FinishImport, CrashImport, Editor, UpdateMetadata, HideOrRestore, Edit, StartBulk,
              BulkOperation, LockNext, CommitBulk, BulkVictim, Writers
<1>7. initial' \in BOOLEAN
  BY DEF Next, vars, Task, TakeThread, EndTask, Transaction, LockRow, FindOriginal, Commit,
         InsertConflicts, Victim, SyncThread, DatabaseFails, StartImport, FinishImport,
         CrashImport, Editor, UpdateMetadata, HideOrRestore, Edit, StartBulk,
         BulkOperation, LockNext, CommitBulk, BulkVictim
<1>8. docs' \in [Ids -> DocumentRow] /\ tx' \in [Writers -> TxRow]
      /\ pc' \in [Writers -> {"idle", "row", "hash", "commit", "ended"}] /\ pc'[Sync] # "ended"
  BY <1>1, <1>2, <1>3, DocumentsAssumption DEF Writers
<1> QED BY <1>2, <1>3, <1>4, <1>6, <1>7, <1>8 DEF Exists, Working

\* Row locks: a row is taken only when nobody has it, and given back when the
\* transaction ends.
LEMMA NextRowLocks ==
    ASSUME Typed, RowLocks, ChunksAreCurrent, [Next]_vars
    PROVE  RowLocks'
<1> USE DEF Typed
<1>1. ASSUME NEW w \in Writers, pc'[w] \in {"hash", "commit"}
      PROVE  tx'[w].new = ~Exists(tx[w].id)'
  <2>1. CASE pc'[w] = pc[w] /\ tx'[w] = tx[w] /\ ~Commit(w)
    <3>1. HoldsRow(w, tx[w].id) /\ tx[w].id \in Ids /\ tx[w].new = ~Exists(tx[w].id)
      BY <1>1, <2>1, DocumentsAssumption DEF HoldsRow, Working, RowLocks, Writers
    <3>2. docs'[tx[w].id] = docs[tx[w].id]
      BY <2>1, <3>1, HeldStays
    <3> QED BY <2>1, <3>1, <3>2 DEF Exists
  <2>2. CASE LockRow(w) /\ tx'[w] = tx[w]
    <3>1. (tx[w].new => ~Exists(tx[w].id)) /\ (tx[w].new \/ Exists(tx[w].id)) /\ UNCHANGED docs
      BY <2>2 DEF LockRow, RowLocks
    <3> QED BY <2>2, <3>1 DEF Exists, TxRow
  <2>3. CASE FindOriginal(w)
    <3>1. PICK original : tx' = [tx EXCEPT ![w].original = original]
      BY <2>3 DEF FindOriginal
    <3>2. tx'[w].id = tx[w].id /\ tx'[w].new = tx[w].new
      BY <3>1 DEF TxRow
    <3> QED BY <2>3, <3>2 DEF FindOriginal, RowLocks, Exists
  <2> QED BY <1>1, <2>1, <2>2, <2>3, WriterSteps
<1>2. ASSUME NEW w \in Writers, pc'[w] = "row"
      PROVE  tx'[w].new \/ Exists(tx[w].id)'
  <2>1. CASE pc'[w] = pc[w] /\ tx'[w] = tx[w]
    BY <1>2, <2>1, ExistsStays DEF RowLocks, Working
  <2>2. ASSUME NEW d \in Ids, NEW content, UNCHANGED docs,
               tx'[w] = [id |-> d, content |-> content, new |-> ~Exists(d), original |-> None]
        PROVE  tx'[w].new \/ Exists(tx[w].id)'
    <3>1. tx'[w].id = d /\ tx'[w].new = ~Exists(d)
      BY <2>2
    <3> QED BY <2>2, <3>1 DEF Exists
  <2> QED BY <1>2, <2>1, <2>2, WriterSteps
<1>3. \/ LockNext
      \/ StartBulk
      \/ bulk' = NoBulk
      \/ UNCHANGED bulk
  BY DEF Next, vars, Task, TakeThread, EndTask, Transaction, LockRow, FindOriginal, Commit,
         InsertConflicts, Victim, SyncThread, DatabaseFails, StartImport, FinishImport,
         CrashImport, Editor, UpdateMetadata, HideOrRestore, Edit, BulkOperation,
         CommitBulk, BulkVictim
<1>4. LockNext => /\ Head(bulk.todo) \in Ids /\ Exists(Head(bulk.todo)) /\ UNCHANGED <<docs, pc, tx>>
                  /\ RowTaken(Bulk, Head(bulk.todo)) = {}
                  /\ bulk'.held = bulk.held \cup {Head(bulk.todo)}
                  /\ bulk'.todo = Tail(bulk.todo) /\ bulk.todo # <<>>
  BY DEF LockNext, WaitsFor, BulkRow, RowLocks
<1>5. StartBulk => /\ bulk'.held = {} /\ UNCHANGED docs
                   /\ \E d, e \in Ids : Exists(d) /\ Exists(e) /\ bulk'.todo = <<d, e>>
  BY DEF StartBulk
<1>6. (\A d \in bulk'.held : Exists(d)') /\ \A i \in 1..Len(bulk'.todo) : Exists(bulk.todo[i])'
  <2>1. CASE LockNext
    <3>1. bulk.todo \in Seq(Ids) /\ bulk.todo # <<>> /\ bulk'.todo = Tail(bulk.todo)
      BY <1>4, <2>1 DEF BulkRow
    <3>2. \A i \in 1..Len(bulk'.todo) : i + 1 \in 1..Len(bulk.todo) /\ bulk'.todo[i] = bulk.todo[i + 1]
      BY <3>1
    <3> QED BY <1>4, <2>1, <3>2 DEF RowLocks, Exists
  <2>2. CASE StartBulk
    BY <1>5, <2>2 DEF Exists
  <2>3. CASE bulk' = NoBulk
    BY <2>3 DEF NoBulk
  <2>4. CASE UNCHANGED bulk
    <3>1. bulk.held \subseteq Ids /\ \A i \in 1..Len(bulk.todo) : bulk.todo[i] \in Ids
      BY DEF BulkRow
    <3> QED BY <2>4, <3>1, ExistsStays DEF RowLocks
  <2> QED BY <1>3, <2>1, <2>2, <2>3, <2>4
<1>7. ASSUME NEW w \in Writers, NEW d \in Ids, HoldsRow(w, d)', ~HoldsRow(w, d)
      PROVE  LockRow(w) /\ RowTaken(w, d) = {}
  <2>1. tx'[w].id = d /\ pc'[w] \in {"hash", "commit"} /\ (tx[w].id # d \/ pc[w] \notin {"hash", "commit"})
    BY <1>7, DocumentsAssumption DEF HoldsRow, Writers
  <2>2. ~FindOriginal(w)
    BY <2>1 DEF FindOriginal, TxRow
  <2>3. LockRow(w) /\ tx'[w] = tx[w]
    BY <2>1, <2>2, WriterSteps
  <2> QED BY <2>1, <2>3, Waits DEF LockRow
<1>8. ASSUME NEW d \in Ids, HoldsRow(Bulk, d)', ~HoldsRow(Bulk, d)
      PROVE  LockNext /\ RowTaken(Bulk, d) = {}
  BY <1>3, <1>4, <1>5, <1>8 DEF HoldsRow, NoBulk
<1>9. ASSUME NEW w \in Writers, LockRow(w)
      PROVE  \A p \in Processes \ {w} : \A d \in Ids : HoldsRow(p, d)' => HoldsRow(p, d)
  BY <1>9 DEF LockRow, Goto, HoldsRow, Processes
<1>10. ASSUME LockNext
       PROVE  \A p \in Writers : \A d \in Ids : HoldsRow(p, d)' => HoldsRow(p, d)
  BY <1>10, DocumentsAssumption DEF LockNext, HoldsRow, Writers
<1>11. ASSUME NEW w \in Writers, NEW p \in Processes \ {w}, NEW d \in Ids,
              HoldsRow(w, d)', HoldsRow(p, d)'
       PROVE  FALSE
  <2>1. CASE HoldsRow(w, d) /\ HoldsRow(p, d)
    BY <2>1 DEF RowLocks
  <2>2. CASE ~HoldsRow(w, d)
    BY <1>7, <1>9, <1>11, <2>2 DEF RowTaken
  <2>3. CASE HoldsRow(w, d) /\ ~HoldsRow(p, d) /\ p \in Writers
    BY <1>7, <1>11, <2>3 DEF RowTaken, Processes
  <2>4. CASE HoldsRow(w, d) /\ ~HoldsRow(p, d) /\ p = Bulk
    BY <1>8, <1>11, <2>4 DEF RowTaken, Processes
  <2> QED BY <2>1, <2>2, <2>3, <2>4 DEF Processes
<1> QED BY <1>1, <1>2, <1>6, <1>11 DEF RowLocks

\* The advisory lock on the content hash.
LEMMA NextHashLocks ==
    ASSUME Typed, RowLocks, HashLocks, ChunksAreCurrent, [Next]_vars
    PROVE  HashLocks'
<1>1. ASSUME NEW w \in Writers, NEW v \in Writers, w # v, FindOriginal(w), pc[v] = "commit"
      PROVE  HashOf(w) # HashOf(v)
  <2>1. HashTaken(w) = {}
    BY <1>1, Waits DEF FindOriginal
  <2> QED BY <1>1, <2>1, DocumentsAssumption DEF HashTaken, HoldsHash, Writers
<1>2. ASSUME NEW w \in Writers, NEW v \in Writers, w # v, FindOriginal(w), FindOriginal(v)
      PROVE  FALSE
  BY <1>2 DEF FindOriginal, Goto, Typed
<1> QED BY <1>1, <1>2, HashStays DEF HashLocks

\* One transaction commits at a time.
LEMMA OneCommit ==
    ASSUME Typed, NEW w \in Writers, NEW v \in Writers, Commit(w), Commit(v)
    PROVE  w = v
  BY DEF Commit, End, Goto, Typed

\* What was found out about originals: nobody commits the content meanwhile, and a
\* document that is to refer to this one waits for its row.
LEMMA NextJudged ==
    ASSUME Typed, RowLocks, HashLocks, Judged, ChunksAreCurrent, [Next]_vars
    PROVE  Judged'
<1> USE DEF Typed
<1> SUFFICES ASSUME NEW w \in Writers, pc'[w] = "commit"
             PROVE  IF tx'[w].original = None THEN Originals(tx[w].id, HashOf(w))' = {}
                    ELSE /\ tx'[w].original # tx[w].id /\ Exists(tx[w].original)'
                         /\ docs'[tx'[w].original].duplicate # tx[w].id
  BY HashStays DEF Judged, Originals
<1> DEFINE d == tx[w].id
           hash == HashOf(w)
<1>1. /\ HashOf(w)' = hash /\ tx'[w].id = d /\ d \in Ids /\ HoldsRow(w, d) /\ hash # None
      /\ Working(w)
  BY HashStays, HashTyped
<1>2. CASE pc[w] = "commit" /\ tx'[w] = tx[w] /\ ~Commit(w)
  <2>1. ASSUME NEW o \in Ids, NEW v \in Writers, Commit(v), tx[v].id = o, docs'[o] = Ingested(v)
        PROVE  docs'[o].hash # hash /\ docs'[o].duplicate = tx[v].original /\ v # w
    <3>1. v # w /\ pc[v] = "commit" /\ Working(v)
      BY <1>2, <2>1 DEF Commit, Working
    <3>2. HashOf(v) # hash
      BY <1>2, <3>1 DEF HashLocks
    <3> QED BY <2>1, <3>1, <3>2, IngestedFacts
  <2>2. CASE tx[w].original = None
    <3>1. \A o \in Ids \ {d} : ~(docs[o].hash = hash /\ docs[o].duplicate = None)
      BY <1>2, <2>2 DEF Judged, Originals
    <3>2. \A o \in Ids \ {d} : ~(docs'[o].hash = hash /\ docs'[o].duplicate = None)
      BY <2>1, <3>1, DocumentSteps DEF EditOf
    <3> QED BY <1>1, <1>2, <2>2, <3>2 DEF Originals
  <2>3. CASE tx[w].original # None
    <3> DEFINE o == tx[w].original
    <3>1. o \in Ids /\ o # d /\ Exists(o) /\ docs[o].duplicate # d
      BY <1>2, <2>3 DEF Judged, TxRow
    <3>2. docs'[o].version > 0
      BY <3>1, ExistsStays DEF Exists
    <3>3. ASSUME NEW v \in Writers, Commit(v), tx[v].id = o, tx[v].original = d, v # w
          PROVE  FALSE
      <4>1. pc[v] = "commit" /\ RefersAnew(v) /\ WaitsFor(v) = {}
        BY <1>1, <3>1, <3>3, DocumentsAssumption DEF Commit, RefersAnew
      <4>2. RowTaken(v, d) = {}
        BY <3>3, <4>1, Waits
      <4> QED BY <1>1, <3>3, <4>2 DEF RowTaken, Processes
    <3>4. docs'[o].duplicate # d
      BY <2>1, <3>1, <3>3, DocumentSteps, ZenonT(40) DEF EditOf
    <3> QED BY <1>2, <2>3, <3>1, <3>2, <3>4 DEF Exists
  <2> QED BY <2>2, <2>3
<1>3. CASE FindOriginal(w)
  <2>1. PICK original \in IF Originals(d, hash) = {} THEN {None} ELSE Originals(d, hash) :
           tx' = [tx EXCEPT ![w].original = original]
    BY <1>3 DEF FindOriginal
  <2>2. UNCHANGED docs
    BY <1>3 DEF FindOriginal
  <2>3. original \in Ids \cup {None}
    BY <2>1 DEF Originals
  <2>4. tx'[w].original = original
    BY <2>1, <2>3 DEF TxRow
  <2>5. CASE Originals(d, hash) = {}
    BY <1>1, <2>1, <2>2, <2>4, <2>5 DEF Originals
  <2>6. CASE Originals(d, hash) # {}
    <3>1. original \in Ids /\ original # d /\ docs[original].hash = hash /\ docs[original].duplicate = None
      BY <2>1, <2>6 DEF Originals
    <3>2. Exists(original)
      BY <1>1, <3>1 DEF NoDoc
    <3> QED BY <1>1, <2>2, <2>4, <3>1, <3>2, DocumentsAssumption DEF Exists
  <2> QED BY <2>5, <2>6
<1> QED BY <1>2, <1>3, HashStays

\* Duplicates refer to other documents that are there.
LEMMA NextDuplicates ==
    ASSUME Typed, RowLocks, Judged, Duplicates, ChunksAreCurrent, [Next]_vars
    PROVE  Duplicates'
<1> SUFFICES ASSUME NEW d \in Ids
             PROVE  /\ docs'[d].duplicate # d
                    /\ docs'[d].duplicate # None => docs'[docs'[d].duplicate].version > 0
  BY DEF Duplicates, Exists
<1>1. ASSUME NEW e \in Ids, Exists(e) PROVE docs'[e].version > 0
  BY <1>1, ExistsStays DEF Exists
<1>2. docs[d].duplicate \in Ids \cup {None}
  BY DEF Typed, DocumentRow
<1>3. CASE docs'[d].duplicate = docs[d].duplicate
  BY <1>1, <1>2, <1>3 DEF Duplicates
<1>4. ASSUME NEW w \in Writers, Commit(w), tx[w].id = d, docs'[d] = Ingested(w)
      PROVE  /\ docs'[d].duplicate # d
             /\ docs'[d].duplicate # None => docs'[docs'[d].duplicate].version > 0
  <2>1. pc[w] = "commit" /\ docs'[d].duplicate = tx[w].original /\ tx[w].original \in Ids \cup {None}
    BY <1>4, IngestedFacts DEF Commit, Working, Typed, TxRow
  <2> QED BY <1>1, <1>4, <2>1, DocumentsAssumption DEF Judged
<1> QED BY <1>3, <1>4, DocumentSteps DEF EditOf

\* Chunks and the last revision.
LEMMA NextChunks ==
    ASSUME Typed, RowLocks, ChunksAreCurrent, [Next]_vars
    PROVE  ChunksAreCurrent'
<1> SUFFICES ASSUME NEW d \in Ids, docs'[d].version > 0
             PROVE  /\ docs'[d].chunks = [version |-> docs'[d].version, of |-> docs'[d].hash[1]]
                    /\ docs'[d].revision.of = docs'[d].hash
                    /\ docs'[d].revision.version <= docs'[d].version
  BY DEF ChunksAreCurrent, Exists
<1>1. CASE docs'[d] = docs[d]
  BY <1>1 DEF ChunksAreCurrent, Exists
<1>2. CASE Exists(d) /\ EditOf(docs[d], docs'[d])
  <2>1. /\ docs[d].chunks = [version |-> docs[d].version, of |-> docs[d].hash[1]]
        /\ docs[d].revision.of = docs[d].hash /\ docs[d].revision.version <= docs[d].version
    BY <1>2 DEF ChunksAreCurrent
  <2>2. docs[d].version \in Nat /\ docs[d].revision \in RevisionRow \cup {None}
        /\ docs[d].hash \in Hashes \cup {None}
    BY DEF Typed, DocumentRow
  <2>3. docs[d].revision.version \in Int
    BY <1>2, <2>1, <2>2 DEF RevisionRow, Typed
  <2> QED BY <1>2, <2>1, <2>2, <2>3 DEF EditOf
<1>3. ASSUME NEW w \in Writers, Commit(w), docs'[d] = Ingested(w)
      PROVE  /\ docs'[d].chunks = [version |-> docs'[d].version, of |-> docs'[d].hash[1]]
             /\ docs'[d].revision.of = docs'[d].hash
             /\ docs'[d].revision.version <= docs'[d].version
  BY <1>3, IngestedFacts DEF Commit, Working
<1> QED BY <1>1, <1>2, <1>3, DocumentSteps

\* A transaction that found no original commits the only one; one that found an original
\* refers to it.
LEMMA NextOriginal ==
    ASSUME Typed, RowLocks, HashLocks, Judged, OneOriginal, ChunksAreCurrent, [Next]_vars
    PROVE  OneOriginal'
<1>1. ASSUME NEW d \in Ids, NEW e \in Ids, d # e, docs'[d].hash = docs'[e].hash,
             docs'[d].duplicate = None, docs'[e].duplicate = None,
             NEW w \in Writers, Commit(w), tx[w].id = d, docs'[d] = Ingested(w)
      PROVE  FALSE
  <2>1. /\ pc[w] = "commit" /\ docs'[d].hash = HashOf(w) /\ tx[w].original = None
    BY <1>1, IngestedFacts DEF Commit, Working
  <2>2. ~(docs[e].hash = HashOf(w) /\ docs[e].duplicate = None)
    BY <1>1, <2>1 DEF Judged, Originals
  <2>3. \A v \in Writers : Commit(v) => tx[v].id # e
    BY <1>1, OneCommit
  <2> QED BY <1>1, <2>1, <2>2, <2>3, DocumentSteps DEF EditOf
<1>2. ASSUME NEW d \in Ids, NEW e \in Ids, d # e, docs'[d].version > 0, docs'[e].version > 0,
             docs'[d].hash = docs'[e].hash, docs'[d].duplicate = None, docs'[e].duplicate = None
      PROVE  FALSE
  <2>1. ASSUME NEW a \in Ids, a \in {d, e}
        PROVE  Exists(a) /\ docs'[a].hash = docs[a].hash /\ docs'[a].duplicate = docs[a].duplicate
    <3>1. \A w \in Writers : ~(Commit(w) /\ tx[w].id = a /\ docs'[a] = Ingested(w))
      BY <1>1, <1>2, <2>1
    <3> QED BY <1>2, <2>1, <3>1, DocumentSteps DEF EditOf, Exists
  <2> QED BY <1>2, <2>1 DEF OneOriginal
<1> QED BY <1>2 DEF OneOriginal, Exists

\* A document does not come to refer to one that refers to it.
LEMMA NextMutual ==
    ASSUME Typed, RowLocks, Judged, NoMutualDuplicates, ChunksAreCurrent, [Next]_vars
    PROVE  NoMutualDuplicates'
<1>1. ASSUME NEW d \in Ids, NEW e \in Ids, docs'[d].duplicate = e, docs'[e].duplicate = d,
             NEW w \in Writers, Commit(w), tx[w].id = d, docs'[d] = Ingested(w)
      PROVE  FALSE
  <2>1. pc[w] = "commit" /\ tx[w].original = e
    BY <1>1, IngestedFacts DEF Commit, Working
  <2>2. e # d /\ docs[e].duplicate # d
    BY <1>1, <2>1, DocumentsAssumption DEF Judged
  <2>3. \A v \in Writers : Commit(v) => tx[v].id # e
    BY <1>1, <2>2, OneCommit
  <2> QED BY <1>1, <2>2, <2>3, DocumentSteps DEF EditOf
<1>2. ASSUME NEW d \in Ids, NEW e \in Ids, docs'[d].duplicate = e, docs'[e].duplicate = d
      PROVE  FALSE
  <2>1. ASSUME NEW a \in Ids, a \in {d, e}
        PROVE  docs'[a].duplicate = docs[a].duplicate
    <3>1. \A w \in Writers : ~(Commit(w) /\ tx[w].id = a /\ docs'[a] = Ingested(w))
      BY <1>1, <1>2, <2>1
    <3> QED BY <3>1, DocumentSteps DEF EditOf
  <2> QED BY <1>2, <2>1 DEF NoMutualDuplicates
<1> QED BY <1>2 DEF NoMutualDuplicates

\* The end of a transaction counts a failure of a task, and leaves the queue.
LEMMA CountedFacts ==
    ASSUME Typed, NEW w \in Writers, NEW failed \in BOOLEAN
    PROVE  /\ Counted(w, failed).running = import.running
           /\ Counted(w, failed).queue = import.queue
           /\ Counted(w, failed).selection = import.selection
           /\ Counted(w, failed).failed = 0 => import.failed = 0 /\ (failed => w = Sync)
           /\ ~Counted(w, failed).stop => ~import.stop
<1>1. CASE w = Sync
  BY <1>1 DEF Counted
<1>2. CASE w # Sync /\ ~failed
  BY <1>2 DEF Counted, Typed, ImportRow
<1>3. CASE w # Sync /\ failed
  <2>1. /\ Counted(w, failed).running = import.running
        /\ Counted(w, failed).queue = import.queue
        /\ Counted(w, failed).selection = import.selection
        /\ Counted(w, failed).failed = import.failed + 1
    BY <1>3 DEF Counted, Typed, ImportRow
  <2>2. ~Counted(w, failed).stop => ~import.stop
    BY <1>3 DEF Counted, Typed, ImportRow
  <2>3. import.failed + 1 # 0
    BY DEF Typed, ImportRow
  <2> QED BY <2>1, <2>2, <2>3
<1> QED BY <1>1, <1>2, <1>3

\* A thread leaves the queue for a task, and a task that did not fail leaves it a document.
LEMMA NextCovered ==
    ASSUME Typed, RowLocks, Covered, ChunksAreCurrent, [Next]_vars
    PROVE  Covered'
<1> USE DEF Typed
<1> DEFINE Behind(d) == Exists(d) \/ d \in import.queue \/ \E t \in Tasks : tx[t].id = d
           Clean == Importing /\ import.failed = 0 /\ ~import.stop
           EndsRight == \A t \in Tasks : pc[t] = "ended" => import.queue = {} /\ Importing
           Covers == Clean => \A d \in import.selection \ Unusable : Behind(d)
<1>1. ASSUME NEW d \in Ids, Exists(d) PROVE docs'[d].version > 0
  BY <1>1, ExistsStays DEF Exists
<1>2. ASSUME NEW w \in Writers, NEW failed \in BOOLEAN, End(w, failed),
             ~failed => docs'[tx[w].id].version > 0
      PROVE  Covered'
  <2>1. /\ \A v \in Writers \ {w} : pc'[v] = pc[v] /\ tx'[v] = tx[v]
        /\ pc'[w] = "idle" /\ import' = Counted(w, failed)
    BY <1>2 DEF End, Goto
  <2>2. EndsRight'
    BY <2>1, CountedFacts, SMTT(20) DEF Covered, Importing, Writers
  <2>3. ASSUME Clean', NEW d \in import'.selection \ Unusable
        PROVE  docs'[d].version > 0 \/ d \in import'.queue \/ \E t \in Tasks : tx'[t].id = d
    <3>1. Clean /\ import'.selection = import.selection /\ import'.queue = import.queue
          /\ d \in Ids /\ (failed => w = Sync)
      BY <2>1, <2>3, CountedFacts DEF Importing, ImportRow
    <3>2. Exists(d) \/ d \in import.queue \/ \E t \in Tasks : tx[t].id = d
      BY <2>3, <3>1 DEF Covered
    <3>3. ASSUME NEW t \in Tasks, tx[t].id = d
          PROVE  docs'[d].version > 0 \/ tx'[t].id = d
      BY <1>2, <2>1, <3>1, <3>3, DocumentsAssumption DEF Writers
    <3> QED BY <1>1, <3>1, <3>2, <3>3
  <2> QED BY <2>2, <2>3 DEF Covered, Exists
<1>3. ASSUME NEW w \in Writers,
             Commit(w) \/ InsertConflicts(w) \/ Victim(w) \/ DatabaseFails(w)
      PROVE  Covered'
  <2>1. CASE Commit(w)
    <3>1. tx[w].id \in Ids /\ Working(w) /\ Ingested(w).version > 0
      BY <2>1, IngestedFacts DEF Commit, Working
    <3>2. End(w, FALSE) /\ docs'[tx[w].id].version > 0
      BY <2>1, <3>1 DEF Commit
    <3> QED BY <1>2, <3>2
  <2>2. CASE End(w, TRUE)
    BY <1>2, <2>2
  <2> QED BY <1>3, <2>1, <2>2 DEF InsertConflicts, Victim, DatabaseFails
<1>4. ASSUME UNCHANGED import, \A t \in Tasks : pc'[t] = "ended" => pc[t] = "ended",
             \A t \in Tasks : tx'[t].id = tx[t].id
      PROVE  Covered'
  <2>1. EndsRight'
    BY <1>4 DEF Covered, Importing
  <2>2. import.selection \subseteq Ids
    BY DEF ImportRow
  <2>3. Covers'
    BY <1>1, <1>4, <2>2 DEF Covered, Importing, Exists
  <2> QED BY <2>1, <2>3 DEF Covered
<1>5. ASSUME NEW w \in Writers, LockRow(w) \/ FindOriginal(w)
      PROVE  Covered'
  <2>1. /\ \A v \in Writers : pc'[v] = "ended" => pc[v] = "ended"
        /\ \A v \in Writers : tx'[v].id = tx[v].id
    BY <1>5 DEF LockRow, FindOriginal, Goto, TxRow
  <2> QED BY <1>4, <1>5, <2>1 DEF LockRow, FindOriginal, Writers
<1>6. CASE SyncThread
  <2>1. \A t \in Tasks : pc'[t] = pc[t] /\ tx'[t] = tx[t]
    BY <1>6, DocumentsAssumption DEF SyncThread, Ingest, Goto, Writers
  <2> QED BY <1>4, <1>6, <2>1 DEF SyncThread
<1>7. CASE StartImport
  <2>1. PICK S \in SUBSET Ids, repair \in BOOLEAN :
           import' = [NoImport EXCEPT !.running = TRUE, !.repair = repair,
                                      !.selection = S, !.queue = S]
    BY <1>7, ZenonT(40) DEF StartImport, Selections, KnownQuestions, GapDocuments, NewQuestions
  <2>2. import'.selection = S /\ import'.queue = S
    BY <2>1 DEF NoImport
  <2>3. \A t \in Tasks : pc'[t] # "ended"
    BY <1>7 DEF StartImport, Covered
  <2> QED BY <2>2, <2>3 DEF Covered
<1>8. ASSUME NEW t \in Tasks, TakeThread(t)
      PROVE  Covered'
  <2>1. PICK d \in import.queue :
           /\ import' = [import EXCEPT !.queue = import.queue \ {d}]
           /\ IF import.stop \/ d \in Unusable THEN UNCHANGED <<pc, tx>> ELSE Ingest(t, d, Dump[d])
    BY <1>8 DEF TakeThread
  <2>2. pc[t] = "idle" /\ UNCHANGED docs /\ t \in Writers
    BY <1>8 DEF TakeThread, Drains, Writers
  <2>3. /\ import'.queue = import.queue \ {d} /\ import'.selection = import.selection
        /\ import'.running = import.running /\ import'.failed = import.failed
        /\ import'.stop = import.stop
    BY <2>1 DEF ImportRow
  <2>4. /\ \A v \in Writers \ {t} : pc'[v] = pc[v] /\ tx'[v] = tx[v]
        /\ pc'[t] \in {"idle", "row"}
        /\ ~import.stop /\ d \notin Unusable => tx'[t].id = d
    BY <2>1, <2>2 DEF Ingest, Goto
  <2>5. tx[t].id \notin Ids
    BY <2>2, DocumentsAssumption DEF Working, NoTx
  <2>6. import.selection \subseteq Ids
    BY DEF ImportRow
  <2>7. EndsRight'
    BY <2>3, <2>4 DEF Covered, Importing, Writers
  <2>8. ASSUME Clean', NEW e \in import'.selection \ Unusable
        PROVE  docs'[e].version > 0 \/ e \in import'.queue \/ \E o \in Tasks : tx'[o].id = e
    <3>1. Clean /\ e \in Ids /\ e \in import.selection
      BY <2>3, <2>6, <2>8 DEF Importing
    <3>2. Exists(e) \/ e \in import.queue \/ \E o \in Tasks : tx[o].id = e
      BY <2>8, <3>1 DEF Covered
    <3>3. ASSUME NEW o \in Tasks, tx[o].id = e
          PROVE  tx'[o].id = e
      BY <2>4, <2>5, <3>1, <3>3 DEF Writers
    <3>4. CASE e = d
      BY <2>4, <2>8, <3>1, <3>4
    <3> QED BY <1>1, <2>3, <3>1, <3>2, <3>3, <3>4
  <2> QED BY <2>7, <2>8 DEF Covered, Exists
<1>9. ASSUME NEW t \in Tasks, EndTask(t)
      PROVE  Covered'
  <2>1. UNCHANGED <<docs, tx, import>> /\ import.queue = {} /\ Importing
    BY <1>9 DEF EndTask, Drains
  <2> QED BY <2>1 DEF Covered, Importing, Exists
<1>10. CASE FinishImport \/ CrashImport
  <2>1. import' = NoImport /\ \A t \in Tasks : pc'[t] = "idle"
    BY <1>10 DEF FinishImport, CrashImport, TasksLeave, Writers
  <2> QED BY <2>1 DEF Covered, Importing, NoImport
<1>11. CASE UNCHANGED <<pc, tx, import>>
  BY <1>4, <1>11
<1> QED BY <1>3, <1>5, <1>6, <1>7, <1>8, <1>9, <1>10, <1>11
        DEF Next, vars, Task, Transaction, Editor, UpdateMetadata, HideOrRestore, Edit, StartBulk,
            BulkOperation, LockNext, CommitBulk, BulkVictim, Writers

-----------------------------------------------------------------------------
(* The theorems.                                                           *)

\* An empty table and nobody at work.
LEMMA InitInv == Init => DocInv
<1> SUFFICES ASSUME Init PROVE DocInv
  OBVIOUS
<1> USE DEF Init
<1>1. \A d \in Ids : docs[d] = NoDoc /\ ~Exists(d) /\ docs[d].duplicate = None
  BY DEF NoDoc, Exists
<1>2. \A w \in Writers : pc[w] = "idle" /\ tx[w] = NoTx
  OBVIOUS
<1>3. Typed
  BY <1>1, <1>2, Rows, DocumentsAssumption DEF Typed, Working, NoImport, Writers
<1>4. RowLocks
  BY <1>2, DocumentsAssumption DEF RowLocks, HoldsRow, NoBulk, Writers
<1>5. HashLocks /\ Judged /\ Duplicates
  BY <1>1, <1>2, DocumentsAssumption DEF HashLocks, Judged, Duplicates
<1>6. Covered
  BY <1>2 DEF Covered, Importing, NoImport, Writers
<1>7. ChunksAreCurrent /\ OneOriginal /\ NoMutualDuplicates
  BY <1>1, DocumentsAssumption DEF ChunksAreCurrent, OneOriginal, NoMutualDuplicates
<1> QED BY <1>3, <1>4, <1>5, <1>6, <1>7 DEF DocInv

\* The inductive invariant of the documents.
LEMMA DocumentsInductive == Spec => []DocInv
<1>1. DocInv /\ [Next]_vars => DocInv'
  BY NextTyped, NextRowLocks, NextHashLocks, NextJudged, NextDuplicates, NextCovered, NextChunks,
     NextOriginal, NextMutual DEF DocInv
<1> QED BY <1>1, InitInv, PTL DEF Spec

\* The types hold, and a duplicate refers to another document that is there.
THEOREM DocTypeCorrect == Spec => []DocTypeOK
<1>1. DocInv => DocTypeOK
  BY DocumentsAssumption DEF DocInv, DocTypeOK, Typed, Duplicates, Working, NoTx, TxRow, BulkRow,
                             ImportRow
<1> QED BY <1>1, DocumentsInductive, PTL

\* Of the documents with one content at most one is an original, for any number of
\* transactions at the same time.
THEOREM OneOriginalCorrect == Spec => []OneOriginal
<1>1. DocInv => OneOriginal
  BY DEF DocInv
<1> QED BY <1>1, DocumentsInductive, PTL

\* No two documents are duplicates of each other.
THEOREM NoMutualCorrect == Spec => []NoMutualDuplicates
<1>1. DocInv => NoMutualDuplicates
  BY DEF DocInv
<1> QED BY <1>1, DocumentsInductive, PTL

\* Chunks and the last revision are those of the content and version of their document.
THEOREM ChunksCorrect == Spec => []ChunksAreCurrent
<1>1. DocInv => ChunksAreCurrent
  BY DEF DocInv
<1> QED BY <1>1, DocumentsInductive, PTL

\* An import that completes the initial synchronisation has a document of every thread
\* it selected and could use.
THEOREM ImportCoversCorrect == Spec => ImportCovers
<1>1. ASSUME DocInv, [Next]_vars, ~initial, initial', NEW d \in import.selection \ Unusable
      PROVE  Exists(d)
  <2>1. FinishImport
    BY <1>1 DEF Next, vars, Task, TakeThread, EndTask, Transaction, LockRow, FindOriginal, Commit,
                InsertConflicts, Victim, SyncThread, DatabaseFails, StartImport, CrashImport,
                Editor, UpdateMetadata, HideOrRestore, Edit, StartBulk, BulkOperation, LockNext,
                CommitBulk, BulkVictim
  <2>2. Importing /\ import.failed = 0 /\ ~import.stop /\ \A t \in Tasks : pc[t] = "ended"
    BY <1>1, <2>1 DEF FinishImport, CompletesInitial, Joined
  <2>3. import.queue = {}
    BY <1>1, <2>2, DocumentsAssumption DEF DocInv, Covered
  <2>4. d \in Ids /\ \A t \in Tasks : tx[t].id = None
    BY <1>1, <2>2 DEF DocInv, Typed, Working, NoTx, ImportRow, Writers
  <2> QED BY <1>1, <2>2, <2>3, <2>4, DocumentsAssumption DEF DocInv, Covered
<1>2. DocInv /\ [Next]_vars =>
        [~initial /\ initial' => \A d \in import.selection \ Unusable : Exists(d)]_vars
  BY <1>1
<1> QED BY <1>2, DocumentsInductive, PTL DEF Spec, ImportCovers

=============================================================================
