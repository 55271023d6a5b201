----------------------------- MODULE SourceSync -----------------------------
(***************************************************************************)
(* The synchronisation of one source (workers/source_sync.py) with the     *)
(* Stack Exchange API: pages of a listing, a checkpoint after each batch,  *)
(* the state of the source that later jobs go on from, and the watermark   *)
(* of incremental runs (workers/runner.py).                                *)
(*                                                                         *)
(* The site is external: a listing holds the questions whose date of the   *)
(* sort lies between fromdate and todate, newest first, as the handler     *)
(* takes it to.  Time advances with every event of the site.  A thread is  *)
(* its question and the time of its last activity; the documents remember  *)
(* that time.  The queue is reduced to one active job and its owner; the   *)
(* retry copies the job that failed last.                                  *)
(***************************************************************************)
EXTENDS Integers, FiniteSets, Sequences

CONSTANTS
    Workers,       \* ingestion workers; the deployment has one
    NoWorker,      \* SQL NULL in jobs.claimed_by
    Created,       \* creation times of the questions, in the order of their ids
    Unusable,      \* questions that prepare_question_thread skips
    PageSize,      \* sources.page_size
    MaxPages,      \* max_pages of a job
    Caps,          \* max_documents of a job, one of these
    Target,        \* sources.target_documents
    KeylessPages,  \* the last page the API serves without a key
    Overlap,       \* stackexchange_incremental_overlap_seconds
    Starts,        \* who starts with which mode: pairs of {"api", "cli"} and Modes
    Today,         \* the time of the first start
    Horizon,       \* bound: the last moment of the site
    Calm,          \* whether questions behind an incremental traversal stay as they are
    FaultBudget,   \* bound: crashes, lost leases, signals, errors of the API, cancellations
    StartBudget    \* bound: jobs that are started or retried

Modes == {"AUTO", "INITIAL", "INCREMENTAL"}
Questions == DOMAIN Created

ASSUME SyncAssumption ==
    /\ NoWorker \notin Workers
    /\ Created \in Seq(0 .. Horizon) /\ Unusable \subseteq Questions
    /\ PageSize \in Nat \ {0} /\ MaxPages \in Nat \ {0} /\ KeylessPages \in Nat
    /\ Caps \subseteq Nat /\ Target \in Nat /\ Overlap \in Nat
    /\ Starts \subseteq {"api", "cli"} \X Modes
    /\ Horizon \in Nat /\ Today \in 0 .. Horizon /\ Calm \in BOOLEAN
    /\ FaultBudget \in Nat /\ StartBudget \in Nat

None == -1
Times == 0 .. Horizon

VARIABLES
    now,       \* the time of the site
    activity,  \* last activity of each question
    docs,      \* documents: the activity that was ingested, or None
    job,       \* the job of the source that is active or ended last
    ended,     \* payload and checkpoint of the job that failed or was cancelled last
    sync,      \* source_sync_states and sources.documents_count
    pc,        \* where each worker is in the handler
    mem,       \* the local variables of its run
    spent      \* the budgets used up

site == <<now, activity>>
rows == <<docs, job, ended, sync>>
vars == <<site, rows, pc, mem, spent>>

-----------------------------------------------------------------------------
(* The listing of the site.                                                *)

Published == {q \in Questions : Created[q] <= now}

Date(sort, q) == IF sort = "creation" THEN Created[q] ELSE activity[q]

Newer(sort, q, r) ==
    Date(sort, q) > Date(sort, r) \/ (Date(sort, q) = Date(sort, r) /\ q > r)

\* The place of a question is given by the number of newer ones.
Listing(sort, fromdate, todate) ==
    LET window == {q \in Published : fromdate <= Date(sort, q) /\ Date(sort, q) <= todate}
    IN [n \in 1 .. Cardinality(window) |->
          CHOOSE q \in window : Cardinality({r \in window : Newer(sort, r, q)}) = n - 1]

Least(a, b) == IF a <= b THEN a ELSE b

PageOf(listing, page) ==
    SubSeq(listing, (page - 1) * PageSize + 1, Least(page * PageSize, Len(listing)))

\* What the handler has behind it at a page and an offset of a listing.
Visited(listing, page, offset) ==
    {listing[n] : n \in 1 .. Least((page - 1) * PageSize + offset, Len(listing))}

-----------------------------------------------------------------------------
(* Jobs.                                                                   *)

NoCheckpoint ==
    [mode |-> "AUTO", page |-> None, offset |-> 0, todate |-> None, questions |-> 0]

NewJob(payload, checkpoint) ==
    [id |-> spent.starts + 1, status |-> "QUEUED", owner |-> NoWorker, cancel |-> FALSE,
     payload |-> payload, checkpoint |-> checkpoint]

NoPayload == [mode |-> "NONE", cap |-> 0, dry |-> FALSE]

Active == job.status \in {"QUEUED", "RUNNING"}

Owner(w) == job.owner = w

Requested == spent.starts < StartBudget /\ spent' = [spent EXCEPT !.starts = @ + 1]
Faulted == spent.faults < FaultBudget /\ spent' = [spent EXCEPT !.faults = @ + 1]

\* start_source_sync notes the requested mode in the state of the source, and
\* keeps the rest of it; enqueue_sync leaves the state alone.
StateAfterStart(by, payload) ==
    IF by = "api" /\ ~payload.dry THEN [sync EXCEPT !.mode = payload.mode] ELSE sync

StartSync(by, mode, cap, dry) ==
    LET payload == [mode |-> mode, cap |-> cap, dry |-> dry] IN
    /\ ~Active /\ Requested
    /\ job' = NewJob(payload, NoCheckpoint)
    /\ sync' = StateAfterStart(by, payload)
    /\ UNCHANGED <<site, docs, ended, pc, mem>>

\* retry_job copies payload and checkpoint.
RetryJob ==
    /\ ~Active /\ Requested
    /\ ended.payload # NoPayload
    /\ job' = NewJob(ended.payload, ended.checkpoint)
    /\ UNCHANGED <<site, docs, ended, sync, pc, mem>>

\* Mutant: the claim stays on a job that ended.
ClosedClaimed(status) == [job EXCEPT !.status = status, !.cancel = FALSE]

\* A queued job ends at once; for a running one the handler ends it.
Closed(status) == [job EXCEPT !.status = status, !.owner = NoWorker, !.cancel = FALSE]

Remembered(status) ==
    IF status \in {"FAILED", "CANCELLED"}
    THEN [payload |-> job.payload, checkpoint |-> job.checkpoint] ELSE ended

CancelJob ==
    /\ Active /\ ~job.cancel /\ Faulted
    /\ IF job.status = "QUEUED"
       THEN job' = Closed("CANCELLED") /\ ended' = Remembered("CANCELLED")
       ELSE job' = [job EXCEPT !.cancel = TRUE] /\ UNCHANGED ended
    /\ UNCHANGED <<site, docs, sync, pc, mem>>

-----------------------------------------------------------------------------
(* A run of the handler.                                                   *)

Nothing == [id |-> 0, mode |-> "AUTO", dry |-> FALSE, cap |-> 0, start |-> 0, page |-> 0, offset |-> 0,
            todate |-> None, fromdate |-> 0, questions |-> 0, count |-> 0,
            batch |-> <<>>, took |-> 0, more |-> FALSE, consumed |-> FALSE, left |-> 0,
            yielded |-> FALSE, lastMore |-> FALSE, complete |-> FALSE, code |-> "OK"]

Goto(w, place) == pc' = [pc EXCEPT ![w] = place]
Learn(w, m) == mem' = [mem EXCEPT ![w] = m]

\* WorkerJobLost leaves the handler, and nothing of the run is kept.
Escape(w) == Goto(w, "idle") /\ Learn(w, Nothing)

Claim(w) ==
    /\ pc[w] = "idle" /\ job.status = "QUEUED"
    /\ job' = [job EXCEPT !.status = "RUNNING", !.owner = w]
    /\ Goto(w, "load")
    /\ Learn(w, [Nothing EXCEPT !.id = job.id])
    /\ UNCHANGED <<site, docs, ended, sync, spent>>

\* _resolve_mode
Resolved(mode) ==
    IF mode # "AUTO" THEN mode ELSE IF sync.initial THEN "INCREMENTAL" ELSE "INITIAL"

Continues(payload) == ~payload.dry /\ sync.mode = Resolved(payload.mode)

\* _start_page, _item_offset, _fixed_todate: the checkpoint of the job, else the
\* state of the source if it is about the same mode, else the beginning.
Position(payload, checkpoint) ==
    IF checkpoint.page # None
    THEN [page |-> checkpoint.page, offset |-> checkpoint.offset, todate |-> checkpoint.todate]
    ELSE IF Continues(payload)
    THEN [page |-> sync.page, offset |-> sync.offset,
          todate |-> IF sync.todate # None THEN sync.todate ELSE now]
    ELSE [page |-> 1, offset |-> 0, todate |-> now]

Stored == {q \in Questions : docs[q] # None}

\* _initial_rollover_todate: without a key the API serves so many pages, and a
\* deeper initial run goes on with a window that ends before the oldest document.
\* The ingestion leaves every document CHUNKED, the status that is asked for.
RolledOver(mode, position) ==
    IF mode = "INITIAL" /\ position.page > KeylessPages /\ Stored # {}
    THEN LET oldest == CHOOSE q \in Stored : \A r \in Stored : Created[q] <= Created[r]
             last == Created[oldest] - 1
         IN [page |-> 1, offset |-> 0, todate |-> IF last < 0 THEN 0 ELSE last]
    ELSE position

\* _incremental_fromdate
FromDate(mode) ==
    IF mode = "INCREMENTAL" /\ sync.watermark # None /\ sync.watermark > Overlap
    THEN sync.watermark - Overlap ELSE 0

TargetReached(m) == m.mode = "INITIAL" /\ m.count >= Target

\* _load_context and _set_source_syncing
Load(w) ==
    LET payload == job.payload
        mode == Resolved(payload.mode)
        at == RolledOver(mode, Position(payload, job.checkpoint))
        m == [Nothing EXCEPT
                !.id = job.id, !.mode = mode, !.dry = payload.dry, !.cap = payload.cap, !.start = at.page,
                !.page = at.page, !.offset = at.offset, !.todate = at.todate,
                !.fromdate = FromDate(mode), !.questions = job.checkpoint.questions,
                !.count = sync.count, !.left = MaxPages]
    IN
    /\ pc[w] = "load"
    /\ IF ~Owner(w) THEN Escape(w)
       ELSE /\ Learn(w, [m EXCEPT !.complete = TargetReached(m)])
            /\ Goto(w, IF TargetReached(m) \/ m.questions >= m.cap THEN "finish" ELSE "fetch")
    /\ UNCHANGED <<site, rows, spent>>

Sort(m) == IF m.mode = "INITIAL" THEN "creation" ELSE "activity"

\* The end of iterate_questions, and of the loop over it.
Traversed(m) == [m EXCEPT !.complete = @ \/ ~m.yielded \/ ~m.lastMore]

\* _remaining_documents
Remaining(m) ==
    LET capped == m.cap - m.questions
        short == IF m.mode = "INITIAL" THEN Least(capped, Target - m.count) ELSE capped
    IN IF short < 0 THEN 0 ELSE short

\* A page of questions and, if the handler wants any of them, the part it takes.
Fetch(w) ==
    LET m == mem[w]
        listing == Listing(Sort(m), m.fromdate, m.todate)
        items == PageOf(listing, m.page)
        more == Len(listing) > m.page * PageSize
        offset == IF m.page = m.start THEN m.offset ELSE 0
        taken == SubSeq(items, offset + 1, Least(Len(items), offset + Remaining(m)))
        consumed == offset + Len(taken) >= Len(items)
    IN
    /\ pc[w] = "fetch" /\ Owner(w) /\ ~job.cancel
    /\ m.page <= KeylessPages
    /\ IF m.left = 0 \/ items = <<>> THEN Learn(w, Traversed(m)) /\ Goto(w, "finish")
       ELSE IF taken # <<>>
       THEN /\ Learn(w, [m EXCEPT !.yielded = TRUE, !.left = @ - 1, !.offset = offset,
                                  !.batch = [n \in 1 .. Len(taken) |->
                                               <<taken[n], activity[taken[n]]>>],
                                  !.took = Len(taken), !.more = more, !.consumed = consumed,
                                  !.lastMore = more \/ ~consumed])
            /\ Goto(w, "answers")
       ELSE LET skipped == [m EXCEPT !.yielded = TRUE, !.left = @ - 1, !.offset = 0,
                                     !.lastMore = more, !.page = @ + 1]
            IN IF more THEN Learn(w, skipped) /\ UNCHANGED pc
               ELSE Learn(w, Traversed(skipped)) /\ Goto(w, "finish")
    /\ UNCHANGED <<site, rows, spent>>

\* fetch_answers_for_question_ids, and the stage PROCESSING
FetchAnswers(w) ==
    /\ pc[w] = "answers" /\ Owner(w) /\ ~job.cancel
    /\ Goto(w, IF mem[w].dry THEN "save" ELSE "next")
    /\ UNCHANGED <<site, rows, mem, spent>>

\* _process_batch looks at the status of the job, not at its owner, before it
\* gives a question to _ingest_one, which is a transaction of its own.
Going(w) == job.id = mem[w].id /\ job.status = "RUNNING" /\ ~job.cancel

NextQuestion(w) ==
    /\ pc[w] = "next" /\ Going(w)
    /\ Goto(w, "ingest")
    /\ UNCHANGED <<site, rows, mem, spent>>

IngestOne(w) ==
    LET question == Head(mem[w].batch) IN
    /\ pc[w] = "ingest"
    /\ docs' = IF question[1] \in Unusable THEN docs
               ELSE [docs EXCEPT ![question[1]] = question[2]]
    /\ Learn(w, [mem[w] EXCEPT !.batch = Tail(@)])
    /\ Goto(w, IF Len(mem[w].batch) = 1 THEN "save" ELSE "next")
    /\ UNCHANGED <<site, job, ended, sync, spent>>

\* Mutant: a page that was cut by max_documents counts as done.
CheckpointWithoutOffset(m) ==
    [mode |-> m.mode, page |-> m.page + 1, offset |-> 0,
     todate |-> m.todate, questions |-> m.questions + m.took]

\* The next position: the rest of the page, or the page after it.
Checkpoint(m) ==
    [mode |-> m.mode, page |-> IF m.consumed THEN m.page + 1 ELSE m.page,
     offset |-> IF m.consumed THEN 0 ELSE m.offset + m.took,
     todate |-> m.todate, questions |-> m.questions + m.took]

\* What the state of the source takes from a checkpoint; the first window of the
\* initial run is kept as its snapshot.
Progressed(m, checkpoint) ==
    [sync EXCEPT !.mode = m.mode, !.page = checkpoint.page, !.offset = checkpoint.offset,
                 !.todate = m.todate, !.count = Cardinality(Stored),
                 !.snapshot = IF m.mode = "INITIAL" /\ @ = None THEN m.todate ELSE @]

\* _save_checkpoint: the job, and unless it is a dry run the state of the source.
\* Then the loop ends, or the iterator turns the page.
SaveCheckpoint(w) ==
    LET m == mem[w]
        checkpoint == Checkpoint(m)
        saved == [m EXCEPT !.batch = <<>>, !.took = 0, !.questions = checkpoint.questions,
                           !.count = IF m.dry THEN @ ELSE Cardinality(Stored),
                           !.offset = checkpoint.offset, !.complete = ~m.lastMore]
    IN
    /\ pc[w] = "save"
    /\ IF ~Owner(w) THEN Escape(w) /\ UNCHANGED <<job, sync>>
       ELSE /\ job' = [job EXCEPT !.checkpoint = checkpoint]
            /\ sync' = IF m.dry THEN sync ELSE Progressed(m, checkpoint)
            /\ IF Remaining(saved) = 0 \/ ~m.more
               THEN Learn(w, saved) /\ Goto(w, "finish")
               ELSE Learn(w, [saved EXCEPT !.page = @ + 1]) /\ Goto(w, "fetch")
    /\ UNCHANGED <<site, docs, ended, spent>>

-----------------------------------------------------------------------------
(* How a run ends.                                                         *)

Ends(w, code) == Learn(w, [mem[w] EXCEPT !.code = code]) /\ Goto(w, "finish")

\* _is_cancelled: a cancellation, a signal, or a job that another process ended.
Stopped(w) ==
    /\ pc[w] \in {"fetch", "answers", "next"}
    /\ \/ job.cancel /\ UNCHANGED spent
       \/ (job.id # mem[w].id \/ job.status # "RUNNING") /\ UNCHANGED spent
       \/ Faulted
    /\ Ends(w, IF job.cancel THEN "CANCELLED" ELSE "REQUEUED")
    /\ UNCHANGED <<site, rows>>

\* Transactions that check the lease: the metrics of a response, a stage.
Lost(w) ==
    /\ pc[w] \in {"fetch", "answers"} /\ ~Owner(w)
    /\ Escape(w)
    /\ UNCHANGED <<site, rows, spent>>

\* Retries used up, quota at its reserve, an error of the database: later again;
\* an answer that cannot be right: failed.
RequestFails(w) ==
    /\ pc[w] \in {"fetch", "answers", "ingest", "save"} /\ Faulted
    /\ \E code \in {"REQUEUED", "FAILED"} : Ends(w, code)
    /\ UNCHANGED <<site, rows>>

\* Without a key the API refuses a deep page for good.
PageRefused(w) ==
    /\ pc[w] = "fetch" /\ Owner(w) /\ ~job.cancel
    /\ mem[w].page > KeylessPages
    /\ Ends(w, "FAILED")
    /\ UNCHANGED <<site, rows, spent>>

\* Mutant: every successful run completes the synchronisation.
AlwaysComplete(m) == ~m.dry

SyncComplete(m) == ~m.dry /\ (m.complete \/ TargetReached(m))

\* Mutant: the watermark is the end of the run, not its fixed todate.
WatermarkAtEnd(m) ==
    IF ~SyncComplete(m) THEN sync
    ELSE [sync EXCEPT !.initial = @ \/ m.mode = "INITIAL",
                      !.watermark = IF m.mode = "INCREMENTAL" THEN now ELSE @,
                      !.page = 1, !.offset = 0, !.mode = "NONE", !.todate = m.todate]

\* _update_sync_completion.  The first checkpoint makes the row of the state; a source
\* whose first run finds an empty listing has none yet, and is left alone, which is not
\* told apart here.
Completed(m) ==
    IF ~SyncComplete(m) THEN sync
    ELSE [sync EXCEPT !.initial = @ \/ m.mode = "INITIAL",
                      !.watermark = IF m.mode = "INCREMENTAL" THEN m.todate ELSE @,
                      !.page = 1, !.offset = 0, !.mode = "NONE", !.todate = m.todate]

\* _finalize; a job that asks for another attempt may have none left.
Finish(w) ==
    LET m == mem[w] IN
    /\ pc[w] = "finish"
    /\ IF ~Owner(w) THEN UNCHANGED <<job, ended, sync>>
       ELSE \E status \in CASE m.code = "OK" -> {"COMPLETED"}
                            [] m.code = "REQUEUED" /\ ~job.cancel -> {"QUEUED", "FAILED"}
                            [] m.code = "REQUEUED" -> {"CANCELLED"}
                            [] OTHER -> {m.code} :
              /\ job' = Closed(status)
              /\ ended' = Remembered(status)
              /\ sync' = IF status = "COMPLETED" THEN Completed(m) ELSE sync
    /\ Escape(w)
    /\ UNCHANGED <<site, docs, spent>>

\* recover_stale_jobs
Recovered == Closed(IF job.cancel THEN "CANCELLED" ELSE "QUEUED")

Crash(w) ==
    /\ pc[w] # "idle" /\ Faulted
    /\ IF Owner(w) THEN job' = Recovered /\ ended' = Remembered(Recovered.status)
       ELSE UNCHANGED <<job, ended>>
    /\ Escape(w)
    /\ UNCHANGED <<site, docs, sync>>

\* A worker that stalls until its job is recovered, and then goes on.
LoseLease(w) ==
    /\ pc[w] # "idle" /\ Owner(w) /\ Faulted
    /\ job' = Recovered /\ ended' = Remembered(Recovered.status)
    /\ UNCHANGED <<site, docs, sync, pc, mem>>

-----------------------------------------------------------------------------
(* The site: time goes on, and a question gets an answer or an edit.       *)

\* Where the traversals stand that are not over: that of the job, of the one that a
\* retry continues, of the state, and of the workers, with the batch they hold.
Unfinished ==
    LET At(r, offset) == [mode |-> r.mode, page |-> r.page, offset |-> offset, todate |-> r.todate]
        running == {w \in Workers : pc[w] # "idle" /\ ~mem[w].dry}
        retried == {r \in {job, ended} : (r = job => Active) /\ ~r.payload.dry}
    IN {At(sync, sync.offset)} \cup {At(r.checkpoint, r.checkpoint.offset) : r \in retried}
       \cup {At(mem[w], mem[w].offset + mem[w].took) : w \in running}

\* A question that an unfinished incremental traversal has behind it; when it
\* leaves the window, the pages ahead shift.
Behind(q) ==
    \E at \in Unfinished :
        /\ at.mode = "INCREMENTAL"
        /\ q \in Visited(Listing("activity", 0, at.todate), at.page, at.offset)

SiteActivity(q) ==
    /\ now < Horizon /\ now' = now + 1
    /\ q \in Published
    /\ Calm => ~Behind(q)
    /\ activity' = [activity EXCEPT ![q] = now']
    /\ UNCHANGED <<rows, pc, mem, spent>>

Tick ==
    /\ now < Horizon /\ now' = now + 1
    /\ UNCHANGED <<activity, rows, pc, mem, spent>>

Init ==
    /\ now = Today
    /\ activity = Created
    /\ docs = [q \in Questions |-> None]
    /\ job = [id |-> 0, status |-> "COMPLETED", owner |-> NoWorker, cancel |-> FALSE,
              payload |-> NoPayload, checkpoint |-> NoCheckpoint]
    /\ ended = [payload |-> NoPayload, checkpoint |-> NoCheckpoint]
    /\ sync = [mode |-> "NONE", page |-> 1, offset |-> 0, todate |-> None, snapshot |-> None,
               initial |-> FALSE, watermark |-> None, count |-> 0]
    /\ pc = [w \in Workers |-> "idle"]
    /\ mem = [w \in Workers |-> Nothing]
    /\ spent = [starts |-> 0, faults |-> 0]

Api ==
    \/ \E start \in Starts, cap \in Caps, dry \in BOOLEAN : StartSync(start[1], start[2], cap, dry)
    \/ RetryJob
    \/ CancelJob

Handler(w) ==
    \/ Claim(w) \/ Load(w) \/ Fetch(w) \/ FetchAnswers(w) \/ NextQuestion(w) \/ IngestOne(w)
    \/ SaveCheckpoint(w) \/ Stopped(w) \/ Lost(w) \/ RequestFails(w) \/ PageRefused(w) \/ Finish(w)

Faults(w) == Crash(w) \/ LoseLease(w)

Next ==
    \/ \E q \in Questions : SiteActivity(q)
    \/ Tick
    \/ Api
    \/ \E w \in Workers : Handler(w) \/ Faults(w)

Spec == Init /\ [][Next]_vars

-----------------------------------------------------------------------------
(* Properties.                                                             *)

Checkpoints ==
    [mode : Modes, page : Nat \cup {None}, offset : Nat, todate : Times \cup {None}, questions : Nat]

Payloads == [mode : Modes, cap : Caps, dry : BOOLEAN] \cup {NoPayload}

\* source_sync_states; offset and todate are keys of its column state.
SyncRow ==
    [mode : Modes \cup {"NONE"}, page : Nat \ {0}, offset : Nat,
     todate : Times \cup {None}, snapshot : Times \cup {None},
     initial : BOOLEAN, watermark : Times \cup {None}, count : 0 .. Len(Created)]

\* The types of the tables and of the places of the handler.
SyncTypeOK ==
    /\ now \in Times /\ activity \in [Questions -> Times]
    /\ docs \in [Questions -> Times \cup {None}]
    /\ job.status \in {"QUEUED", "RUNNING", "COMPLETED", "FAILED", "CANCELLED"}
    /\ job.owner \in Workers \cup {NoWorker} /\ (job.owner # NoWorker <=> job.status = "RUNNING")
    /\ job.payload \in Payloads /\ job.checkpoint \in Checkpoints
    /\ ended.payload \in Payloads /\ ended.checkpoint \in Checkpoints
    /\ sync \in SyncRow
    /\ pc \in [Workers -> {"idle", "load", "fetch", "answers", "next", "ingest", "save", "finish"}]
    /\ \A w \in Workers : pc[w] = "idle" => mem[w] = Nothing

Usable == Published \ Unusable

\* The watermark is a promise: of everything that happened on the site before it,
\* less the overlap, the documents hold the last version.  It must survive caps,
\* crashes between two documents, retries of old jobs and pages cut in two.
NothingLost ==
    sync.watermark # None =>
        \A q \in Usable : docs[q] = activity[q] \/ activity[q] >= sync.watermark - Overlap

\* What an initial position has behind it was stored, or can never be, so that a
\* run that goes on from there skips nothing.  It holds as long as the target cuts no
\* page that questions to be skipped lie on and that another page follows: see
\* CappedRunSkipsNothing.
CheckpointSafe ==
    \A at \in {[mode |-> job.checkpoint.mode, page |-> job.checkpoint.page,
               offset |-> job.checkpoint.offset, todate |-> job.checkpoint.todate,
               dry |-> job.payload.dry],
              [mode |-> sync.mode, page |-> sync.page, offset |-> sync.offset,
               todate |-> sync.todate, dry |-> FALSE]} :
        at.mode = "INITIAL" /\ ~at.dry =>
            Visited(Listing("creation", 0, at.todate), at.page, at.offset) \subseteq Stored \cup Unusable

\* docs/worker-architecture.md:53 and docs/stage5-ingestion.md:15: a capped run
\* does not skip the rest of a page it has fetched.  When the handler turns the page
\* in an initial run, all it leaves behind was stored, or can never be.
CappedRunSkipsNothing ==
    [][\A w \in Workers :
          pc[w] = "save" /\ pc'[w] = "fetch" /\ mem[w].mode = "INITIAL" /\ ~mem[w].dry =>
              Visited(Listing("creation", 0, mem[w].todate), mem'[w].page, mem'[w].offset)
                  \subseteq Stored \cup Unusable]_vars

\* When the initial synchronisation is complete and the target was not reached,
\* every question that existed at its start was stored, in however many jobs and
\* windows it was done.  The limit of CheckpointSafe is its limit too.
InitialCovers ==
    [][~sync.initial /\ sync'.initial /\ sync.count < Target =>
        \A q \in Usable : Created[q] <= sync.snapshot => q \in Stored]_vars

=============================================================================
