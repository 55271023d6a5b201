------------------------------ MODULE JobQueue ------------------------------
(***************************************************************************)
(* The durable job queue of the backend: the tables jobs and               *)
(* worker_instances with the functions of db/repositories/jobs.py, and the *)
(* processes that drive them, the ingestion worker (workers/runner.py) and *)
(* the search indexer (workers/indexer.py).  What a handler does inside a  *)
(* job is left open here: it saves progress and returns a disposition.     *)
(*                                                                         *)
(* Every database transaction is one atomic action.  Timestamps are kept   *)
(* as the time that is left until them (lease, wait, beat), so that the    *)
(* clock itself needs no bound; 0 means "due" or "none".                   *)
(***************************************************************************)
EXTENDS Integers

CONSTANTS
    Workers,          \* rows of worker_instances, one per process instance_id
    NoWorker,         \* SQL NULL in jobs.claimed_by
    Kind,             \* which program each process runs: "WORKER" or "INDEXER"
    MaxJobs,          \* bound: how many rows of jobs are ever inserted
    Requests,         \* the (type, target) pairs that can be enqueued
    MaxAttempts,      \* jobs.max_attempts
    LeaseTime,        \* WORKER_LEASE_SECONDS
    HeartbeatPeriod,  \* WORKER_HEARTBEAT_SECONDS
    RetryDelay,       \* retry_delay_seconds of recover_stale_jobs
    Backoffs,         \* delays a handler may ask for when it requeues
    FullProgress,     \* progress = 100
    FaultBudget       \* bound: crashes, signals and escaping errors in a behaviour

JobTypes == {"SOURCE_SYNC", "DOCUMENT_REINDEX", "FULL_REINDEX",
             "SEARCH_INDEX_VALIDATE", "SEARCH_INDEX_CLEANUP"}

ASSUME QueueAssumption ==
    /\ NoWorker \notin Workers
    /\ Kind \in [Workers -> {"WORKER", "INDEXER"}]
    /\ MaxJobs \in Nat \ {0}
    /\ \A r \in Requests : r = [type |-> r.type, target |-> r.target] /\ r.type \in JobTypes
    /\ MaxAttempts \in Nat \ {0}
    /\ LeaseTime \in Nat
    /\ HeartbeatPeriod \in Nat
    /\ HeartbeatPeriod < LeaseTime       \* config.py:383 refuses anything else
    /\ RetryDelay \in Nat
    /\ Backoffs \subseteq Nat
    /\ FullProgress \in Nat \ {0}
    /\ FaultBudget \in Nat

Jobs == 1 .. MaxJobs                     \* in the order of jobs.created_at
NoJob == 0                               \* SQL NULL in worker_instances.current_job_id
NoRequest == [type |-> "NONE", target |-> "NONE"]

VARIABLES
    jobs,      \* table jobs
    workers,   \* table worker_instances
    pc,        \* where each process is in its loop
    cur,       \* self._current_job_id of each process
    outcome,   \* disposition of the HandlerOutcome waiting for _finalize
    stop,      \* self._shutdown_requested
    beat,      \* time left until the heartbeat task must run again
    late,      \* history: the task missed a beat during the job in hand
    asked,     \* history: jobs whose cancellation somebody requested
    faults     \* faults so far, for FaultBudget

queueVars == <<jobs, workers>>
procVars == <<pc, cur, outcome, stop, beat, late>>
vars == <<jobs, workers, pc, cur, outcome, stop, beat, late, asked, faults>>

-----------------------------------------------------------------------------
(* Rows.                                                                   *)

Active == {"QUEUED", "RUNNING"}
Terminal == {"COMPLETED", "FAILED", "CANCELLED"}
JobStatus == Active \cup Terminal \cup {"ABSENT"}
Dispositions == {"COMPLETED", "CANCELLED", "REQUEUED", "FAILED"}
Delays == Backoffs \cup {RetryDelay}

UnclaimedRow(status, r) ==
    [status |-> status, req |-> r, claimedBy |-> NoWorker, lease |-> 0, wait |-> 0,
     attempt |-> 0, cancelReq |-> FALSE, progress |-> 0]

AbsentJob == UnclaimedRow("ABSENT", NoRequest)

NewJob(r) == UnclaimedRow("QUEUED", r)

\* The demonstration data: a synchronisation RUNNING that nobody claimed.
SeededJob(r) == UnclaimedRow("RUNNING", r)

NoInstance == [status |-> "ABSENT", current |-> NoJob]

\* The partial unique indexes of jobs: two active rows they refuse.
Conflict(r, s) ==
    \/ r.type = "SOURCE_SYNC" /\ r = s
    \/ r.type = "DOCUMENT_REINDEX" /\ r = s
    \/ r.type = "FULL_REINDEX" /\ s.type = "FULL_REINDEX"

Supported(w) == IF Kind[w] = "WORKER" THEN {"SOURCE_SYNC"}
                                      ELSE JobTypes \ {"SOURCE_SYNC"}

\* Mutant: the lock does not look at claimed_by.
OwnsAny(w, j) == jobs[j].status = "RUNNING"

\* _lock_running_job_for_worker: the row, if it is still this worker's.
Owns(w, j) == jobs[j].status = "RUNNING" /\ jobs[j].claimedBy = w

\* Mutant: the worker row keeps the job.
ReleaseNothing(w, j) == workers

\* _release_worker_job.  The worker row forgets the job it was released from.
Release(w, j) ==
    [v \in Workers |-> IF v = w /\ workers[v].current = j
                       THEN [workers[v] EXCEPT !.current = NoJob]
                       ELSE workers[v]]

\* complete_job, _fail_locked_job and _cancel_locked_job on the row of the job:
\* the lease and the delay go, the owner stays on record.
EndedRow(row, status) ==
    [status |-> status, req |-> row.req, claimedBy |-> row.claimedBy,
     lease |-> 0, wait |-> 0, attempt |-> row.attempt,
     cancelReq |-> row.cancelReq \/ status = "CANCELLED",
     progress |-> IF status = "COMPLETED" THEN FullProgress ELSE row.progress]

\* Back to the queue, for requeue_job and recover_stale_jobs.
RequeuedRow(row, delay) ==
    [status |-> "QUEUED", req |-> row.req, claimedBy |-> NoWorker,
     lease |-> 0, wait |-> delay, attempt |-> row.attempt,
     cancelReq |-> row.cancelReq, progress |-> row.progress]

\* Mutant: the attempt is not counted.
ClaimedRowUncounted(row, w) ==
    [status |-> "RUNNING", req |-> row.req, claimedBy |-> w,
     lease |-> LeaseTime, wait |-> 0, attempt |-> row.attempt,
     cancelReq |-> row.cancelReq, progress |-> row.progress]

ClaimedRow(row, w) ==
    [status |-> "RUNNING", req |-> row.req, claimedBy |-> w,
     lease |-> LeaseTime, wait |-> 0, attempt |-> row.attempt + 1,
     cancelReq |-> row.cancelReq, progress |-> row.progress]

-----------------------------------------------------------------------------
(* The API process: rows are inserted and cancellation is requested.       *)

\* Mutant: an index over QUEUED rows only.
IndexesAllowQueued(r) == \A k \in Jobs : jobs[k].status = "QUEUED" => ~Conflict(jobs[k].req, r)

IndexesAllow(r) == \A k \in Jobs : jobs[k].status \in Active => ~Conflict(jobs[k].req, r)

Insert(j, r) ==
    /\ jobs[j].status = "ABSENT"
    /\ \A k \in Jobs : k < j => jobs[k].status # "ABSENT"
    /\ IndexesAllow(r)
    /\ jobs' = [jobs EXCEPT ![j] = NewJob(r)]
    /\ UNCHANGED <<workers, procVars, asked, faults>>

Enqueue(j) == \E r \in Requests : Insert(j, r)

\* admin_jobs.retry_job: a new row; the one that ended is left alone.
Retry(j, original) ==
    /\ jobs[original].status \in {"FAILED", "CANCELLED"}
    /\ Insert(j, jobs[original].req)

\* request_job_cancellation, reached by the job and the source endpoints.
RequestCancellation(j) ==
    /\ jobs[j].status \in Active
    /\ ~jobs[j].cancelReq
    /\ jobs' = [jobs EXCEPT ![j] =
                  IF @.status = "QUEUED" \/ @.claimedBy = NoWorker
                  THEN EndedRow(@, "CANCELLED")
                  ELSE [@ EXCEPT !.cancelReq = TRUE]]
    /\ workers' = IF jobs[j].status = "QUEUED" \/ jobs[j].claimedBy = NoWorker
                  THEN Release(jobs[j].claimedBy, j)
                  ELSE workers
    /\ asked' = asked \cup {j}
    /\ UNCHANGED <<procVars, faults>>

-----------------------------------------------------------------------------
(* A process: start, recover stale jobs, claim, run the handler, finalize. *)

Alive == {"top", "claim", "run", "finalize"}    \* the heartbeat task exists

\* start and register_worker_instance.  An instance_id that is used again
\* keeps its row, and the job named there.
Register(w) ==
    /\ pc[w] = "down"
    /\ workers' = [workers EXCEPT ![w].status = "RUNNING"]
    /\ pc' = [pc EXCEPT ![w] = "top"]
    /\ beat' = [beat EXCEPT ![w] = HeartbeatPeriod]
    /\ UNCHANGED <<jobs, cur, outcome, stop, late, asked, faults>>

\* Mutants: recovery one unit early, and recovery of unclaimed rows only.
StaleEarly == {j \in Jobs : jobs[j].status = "RUNNING" /\ jobs[j].lease <= 1}
StaleUnclaimed == {j \in Jobs : jobs[j].status = "RUNNING" /\ jobs[j].claimedBy = NoWorker}

Stale == {j \in Jobs : jobs[j].status = "RUNNING" /\ jobs[j].lease = 0}

\* Mutant: recovery forgets the cancellation.
RecoveredRowUncancelled(row) ==
    IF row.attempt < MaxAttempts THEN RequeuedRow(row, RetryDelay) ELSE EndedRow(row, "FAILED")

RecoveredRow(row) ==
    IF row.cancelReq THEN EndedRow(row, "CANCELLED")
    ELSE IF row.attempt < MaxAttempts THEN RequeuedRow(row, RetryDelay)
    ELSE EndedRow(row, "FAILED")

\* Mutant: the loop does not look at the signal.
KeepsRunningAlways(w) == TRUE

\* The while condition of run.
KeepsRunning(w) == ~stop[w]

\* recover_stale_jobs, run by any process for jobs of every type.
RecoverStale(w) ==
    /\ pc[w] = "top" /\ KeepsRunning(w)
    /\ jobs' = [j \in Jobs |-> IF j \in Stale THEN RecoveredRow(jobs[j]) ELSE jobs[j]]
    /\ workers' = [v \in Workers |->
                     IF \E j \in Stale : jobs[j].claimedBy = v /\ workers[v].current = j
                     THEN [workers[v] EXCEPT !.current = NoJob]
                     ELSE workers[v]]
    /\ pc' = [pc EXCEPT ![w] = "claim"]
    /\ UNCHANGED <<cur, outcome, stop, beat, late, asked, faults>>

\* Mutant: a row that is RUNNING can be claimed too.
ClaimableActive(w) == {j \in Jobs : /\ jobs[j].status \in Active
                                    /\ jobs[j].req.type \in Supported(w)
                                    /\ jobs[j].wait = 0
                                    /\ ~jobs[j].cancelReq
                                    /\ jobs[j].attempt < MaxAttempts}

Claimable(w) == {j \in Jobs : /\ jobs[j].status = "QUEUED"
                              /\ jobs[j].req.type \in Supported(w)
                              /\ jobs[j].wait = 0
                              /\ ~jobs[j].cancelReq
                              /\ jobs[j].attempt < MaxAttempts}

NextClaim(w, j) == j \in Claimable(w) /\ \A k \in Claimable(w) : j <= k

MayClaim(w, j) == /\ workers[w].status \notin {"STOPPING", "STOPPED"}
                  /\ workers[w].current \in {NoJob, j}

\* claim_next_job finds a row and the worker row lets it be taken.
Claim(w, j) ==
    /\ pc[w] = "claim"
    /\ NextClaim(w, j)
    /\ MayClaim(w, j)
    /\ jobs' = [jobs EXCEPT ![j] = ClaimedRow(@, w)]
    /\ workers' = [workers EXCEPT ![w] = [status |-> "RUNNING", current |-> j]]
    /\ pc' = [pc EXCEPT ![w] = "run"]
    /\ cur' = [cur EXCEPT ![w] = j]
    /\ late' = [late EXCEPT ![w] = FALSE]
    /\ UNCHANGED <<outcome, stop, beat, asked, faults>>

\* claim_next_job returns None: the process waits for its poll interval.
ClaimNothing(w) ==
    /\ pc[w] = "claim"
    /\ \A j \in Jobs : NextClaim(w, j) => ~MayClaim(w, j)
    /\ pc' = [pc EXCEPT ![w] = "top"]
    /\ UNCHANGED <<queueVars, cur, outcome, stop, beat, late, asked, faults>>

\* Mutant: the lease grows from its old end.
ExtendedFromEnd(lease) == lease + LeaseTime

\* _later_datetime(lease_expires_at, now + lease_seconds): no lease is longer.
Extended(lease) == LeaseTime

\* _heartbeat_loop, concurrent with the main loop of the same process.
Heartbeat(w) ==
    /\ pc[w] \in Alive
    /\ IF cur[w] # NoJob /\ Owns(w, cur[w])
       THEN /\ jobs' = [jobs EXCEPT ![cur[w]].lease = Extended(@)]
            /\ workers' = IF workers[w].status # "STOPPED"
                          THEN [workers EXCEPT ![w].current = cur[w]]
                          ELSE workers
       ELSE UNCHANGED queueVars
    /\ beat' = [beat EXCEPT ![w] = HeartbeatPeriod]
    /\ UNCHANGED <<pc, cur, outcome, stop, late, asked, faults>>

EndHandler(w, disposition) ==
    /\ pc' = [pc EXCEPT ![w] = "finalize"]
    /\ outcome' = [outcome EXCEPT ![w] = disposition]

\* update_job_progress called by a handler, which never reports 100 itself;
\* without the job WorkerJobLost or INDEX_JOB_LOST ends the handler and the
\* runner reports FAILED.
HandlerSaves(w, progress) ==
    /\ pc[w] = "run"
    /\ IF Owns(w, cur[w])
       THEN /\ jobs' = [jobs EXCEPT ![cur[w]].progress =
                          IF @ < progress THEN progress ELSE @]
            /\ UNCHANGED <<pc, outcome>>
       ELSE EndHandler(w, "FAILED") /\ UNCHANGED jobs
    /\ UNCHANGED <<workers, cur, stop, beat, late, asked, faults>>

\* Mutant: a shutdown of the worker is taken for a cancellation.
MayReportShutdown(w) == jobs[cur[w]].cancelReq \/ stop[w]

\* The handler reports CANCELLED: SourceSyncHandler once it has read the
\* request, SearchIndexJobHandler for a request or a shutdown while the row
\* still names it.
MayReportCancelled(w) ==
    IF Kind[w] = "WORKER"
    THEN jobs[cur[w]].cancelReq
    ELSE jobs[cur[w]].claimedBy = w /\ (jobs[cur[w]].cancelReq \/ stop[w])

HandlerReturns(w, disposition) ==
    /\ pc[w] = "run"
    /\ disposition = "CANCELLED" => MayReportCancelled(w)
    /\ EndHandler(w, disposition)
    /\ UNCHANGED <<queueVars, cur, stop, beat, late, asked, faults>>

\* The rest of process_once after the transaction of _finalize.
EndJob(w, next) ==
    /\ pc' = [pc EXCEPT ![w] = next]
    /\ cur' = [cur EXCEPT ![w] = NoJob]
    /\ outcome' = [outcome EXCEPT ![w] = "NONE"]
    /\ late' = [late EXCEPT ![w] = FALSE]
    /\ UNCHANGED <<stop, beat, asked, faults>>

Finalizing(w, disposition) == pc[w] = "finalize" /\ outcome[w] = disposition

\* The row is written and the worker row lets go of it.
Settle(w, row) ==
    /\ jobs' = [jobs EXCEPT ![cur[w]] = row]
    /\ workers' = Release(jobs[cur[w]].claimedBy, cur[w])

\* complete_job
FinishCompleted(w) ==
    /\ Finalizing(w, "COMPLETED")
    /\ IF Owns(w, cur[w])
       THEN Settle(w, EndedRow(jobs[cur[w]], "COMPLETED"))
       ELSE UNCHANGED queueVars
    /\ EndJob(w, "top")

\* fail_job
FinishFailed(w) ==
    /\ Finalizing(w, "FAILED")
    /\ IF Owns(w, cur[w])
       THEN Settle(w, EndedRow(jobs[cur[w]], "FAILED"))
       ELSE UNCHANGED queueVars
    /\ EndJob(w, "top")

\* requeue_job
FinishRequeued(w, delay) ==
    /\ Finalizing(w, "REQUEUED")
    /\ IF Owns(w, cur[w])
       THEN Settle(w, IF jobs[cur[w]].cancelReq THEN EndedRow(jobs[cur[w]], "CANCELLED")
                      ELSE IF jobs[cur[w]].attempt >= MaxAttempts
                           THEN EndedRow(jobs[cur[w]], "FAILED")
                           ELSE RequeuedRow(jobs[cur[w]], delay))
       ELSE UNCHANGED queueVars
    /\ EndJob(w, "top")

\* cancel_job, which asks for the owner only while the row is RUNNING, and
\* raises JobQueueStateError for a job that ended otherwise: the error leaves
\* process_once and takes the process down.
FinishCancelled(w) ==
    /\ Finalizing(w, "CANCELLED")
    /\ LET row == jobs[cur[w]] IN
       CASE row.status \in {"COMPLETED", "FAILED"} ->
              UNCHANGED queueVars /\ EndJob(w, "closing")
         [] row.status = "CANCELLED" \/ (row.status = "RUNNING" /\ row.claimedBy # w) ->
              UNCHANGED queueVars /\ EndJob(w, "top")
         [] OTHER ->
              Settle(w, EndedRow(row, "CANCELLED")) /\ EndJob(w, "top")

-----------------------------------------------------------------------------
(* Shutdown and failure of a process.                                      *)

Fault == faults < FaultBudget /\ faults' = faults + 1

\* SIGTERM or SIGINT: request_shutdown.
Signal(w) ==
    /\ pc[w] # "down" /\ ~stop[w]
    /\ Fault
    /\ stop' = [stop EXCEPT ![w] = TRUE]
    /\ UNCHANGED <<queueVars, pc, cur, outcome, beat, late, asked>>

LeaveLoop(w) ==
    /\ pc[w] = "top" /\ ~KeepsRunning(w)
    /\ pc' = [pc EXCEPT ![w] = "closing"]
    /\ UNCHANGED <<queueVars, cur, outcome, stop, beat, late, asked, faults>>

\* An exception that process_once does not catch: a database error in one of
\* the loop's own transactions (the heartbeat ahead of the handler is one), or
\* in an indexer's handler.
Escape(w) ==
    /\ pc[w] \in Alive
    /\ Fault
    /\ pc' = [pc EXCEPT ![w] = "closing"]
    /\ cur' = [cur EXCEPT ![w] = NoJob]
    /\ outcome' = [outcome EXCEPT ![w] = "NONE"]
    /\ late' = [late EXCEPT ![w] = FALSE]
    /\ UNCHANGED <<queueVars, stop, beat, asked>>

\* mark_worker_stopping
MarkStopping(w) ==
    /\ pc[w] = "closing"
    /\ workers' = [workers EXCEPT ![w].status = IF @ = "STOPPED" THEN @ ELSE "STOPPING"]
    /\ pc' = [pc EXCEPT ![w] = "stopping"]
    /\ UNCHANGED <<jobs, cur, outcome, stop, beat, late, asked, faults>>

\* The process and everything it holds in memory is gone.
Forget(w) ==
    /\ pc' = [pc EXCEPT ![w] = "down"]
    /\ cur' = [cur EXCEPT ![w] = NoJob]
    /\ outcome' = [outcome EXCEPT ![w] = "NONE"]
    /\ stop' = [stop EXCEPT ![w] = FALSE]
    /\ beat' = [beat EXCEPT ![w] = 0]
    /\ late' = [late EXCEPT ![w] = FALSE]

\* stop_worker_instance and the end of the process.
StopInstance(w) ==
    /\ pc[w] = "stopping"
    /\ workers' = [workers EXCEPT ![w] = [status |-> "STOPPED", current |-> NoJob]]
    /\ Forget(w)
    /\ UNCHANGED <<jobs, asked, faults>>

\* The process is killed between two transactions; its rows stay as they are.
Crash(w) ==
    /\ pc[w] # "down"
    /\ Fault
    /\ Forget(w)
    /\ UNCHANGED <<queueVars, asked>>

Less(n) == IF n = 0 THEN 0 ELSE n - 1

AgedRow(row) == [status |-> row.status, req |-> row.req, claimedBy |-> row.claimedBy,
                 lease |-> Less(row.lease), wait |-> Less(row.wait),
                 attempt |-> row.attempt, cancelReq |-> row.cancelReq,
                 progress |-> row.progress]

\* One unit of time passes.  A heartbeat that is due and has not run is late.
Tick ==
    /\ jobs' = [j \in Jobs |-> AgedRow(jobs[j])]
    /\ beat' = [w \in Workers |-> Less(beat[w])]
    /\ late' = [w \in Workers |-> late[w] \/ (cur[w] # NoJob /\ beat[w] = 0)]
    /\ UNCHANGED <<workers, pc, cur, outcome, stop, asked, faults>>

-----------------------------------------------------------------------------
Init ==
    /\ jobs \in {[j \in Jobs |-> AbsentJob]} \cup
                {[j \in Jobs |-> IF j = 1 THEN SeededJob(r) ELSE AbsentJob] :
                    r \in {s \in Requests : s.type = "SOURCE_SYNC"}}
    /\ workers = [w \in Workers |-> NoInstance]
    /\ pc = [w \in Workers |-> "down"]
    /\ cur = [w \in Workers |-> NoJob]
    /\ outcome = [w \in Workers |-> "NONE"]
    /\ stop = [w \in Workers |-> FALSE]
    /\ beat = [w \in Workers |-> 0]
    /\ late = [w \in Workers |-> FALSE]
    /\ asked = {}
    /\ faults = 0

Api == \E j \in Jobs : \/ Enqueue(j)
                       \/ \E k \in Jobs : Retry(j, k)
                       \/ RequestCancellation(j)

Finalize(w) == \/ FinishCompleted(w)
               \/ FinishFailed(w)
               \/ \E d \in Backoffs : FinishRequeued(w, d)
               \/ FinishCancelled(w)

Loop(w) == \/ Register(w)
           \/ RecoverStale(w)
           \/ \E j \in Jobs : Claim(w, j)
           \/ ClaimNothing(w)
           \/ \E d \in Dispositions : HandlerReturns(w, d)
           \/ Finalize(w)
           \/ LeaveLoop(w)
           \/ MarkStopping(w)
           \/ StopInstance(w)

Process(w) == \/ Loop(w)
              \/ Heartbeat(w)
              \/ \E p \in 0 .. FullProgress - 1 : HandlerSaves(w, p)
              \/ Signal(w)
              \/ Escape(w)
              \/ Crash(w)

Next == Api \/ (\E w \in Workers : Process(w)) \/ Tick

Spec == Init /\ [][Next]_vars

\* Docker restarts a process that ends (restart: unless-stopped), its loop has
\* a bounded wait at every step, handlers have timeouts, and time passes.
FairSpec == Spec /\ WF_vars(Tick) /\ \A w \in Workers : WF_vars(Loop(w))

-----------------------------------------------------------------------------
(* What the queue promises.                                                *)

JobRow == [status : JobStatus, req : Requests \cup {NoRequest},
           claimedBy : Workers \cup {NoWorker}, lease : 0 .. LeaseTime,
           wait : Nat, attempt : 0 .. MaxAttempts,
           cancelReq : BOOLEAN, progress : 0 .. FullProgress]

WorkerRow == [status : {"ABSENT", "RUNNING", "STOPPING", "STOPPED"},
              current : Jobs \cup {NoJob}]

\* Every row and every variable of a process has a value the schema and the
\* program allow (the CHECK constraints of jobs, enums.py).
TypeOK ==
    /\ jobs \in [Jobs -> JobRow]
    /\ workers \in [Workers -> WorkerRow]
    /\ pc \in [Workers -> Alive \cup {"down", "closing", "stopping"}]
    /\ cur \in [Workers -> Jobs \cup {NoJob}]
    /\ outcome \in [Workers -> Dispositions \cup {"NONE"}]
    /\ stop \in [Workers -> BOOLEAN]
    /\ beat \in [Workers -> 0 .. HeartbeatPeriod]
    /\ late \in [Workers -> BOOLEAN]
    /\ asked \subseteq Jobs
    /\ faults \in 0 .. FaultBudget

\* A job that waits in the queue can be claimed once its delay is over.  A row
\* left QUEUED with a cancellation, an owner or no attempt left would never be
\* claimed (the WHERE of claim_next_job) nor recovered, and would block its
\* unique index for ever.
QueuedIsClaimable ==
    \A j \in Jobs : jobs[j].status = "QUEUED" =>
        /\ ~jobs[j].cancelReq
        /\ jobs[j].claimedBy = NoWorker
        /\ jobs[j].attempt < MaxAttempts

\* worker_instances.current_job_id names a job only while that job is RUNNING
\* and claimed by this worker; a stale name would stop claim_next_job from
\* giving the worker anything else.
CurrentJobIsOwned ==
    \A w \in Workers : workers[w].current # NoJob => Owns(w, workers[w].current)

\* At most one job of a source, of a document, or of the full rebuild is
\* active, however many times rows were requeued, recovered and retried.
OneActivePerTarget ==
    \A j, k \in Jobs :
        j # k /\ jobs[j].status \in Active /\ jobs[k].status \in Active
            => ~Conflict(jobs[j].req, jobs[k].req)

\* A process whose heartbeat task has kept its period still owns the job it
\* works on: nobody recovers, ends or takes it over before it finalizes.  The
\* lease left is at least what the heartbeats guarantee.
TimelyOwner ==
    \A w \in Workers : cur[w] # NoJob /\ ~late[w] =>
        /\ Owns(w, cur[w])
        /\ jobs[cur[w]].lease + HeartbeatPeriod >= LeaseTime + beat[w]

\* Two processes that keep their heartbeats never work on the same job, nor on
\* two jobs of the same source, document or full rebuild.
TimelyExclusive ==
    \A v, w \in Workers :
        v # w /\ cur[v] # NoJob /\ cur[w] # NoJob /\ ~late[v] /\ ~late[w]
            => /\ cur[v] # cur[w]
               /\ ~Conflict(jobs[cur[v]].req, jobs[cur[w]].req)

\* A synchronisation is CANCELLED only if somebody asked for it, whatever
\* shutdowns, lost leases and recoveries happened meanwhile: the handler
\* requeues on shutdown (WORKER_SHUTDOWN).
SyncCancelledOnRequest ==
    \A j \in Jobs : jobs[j].status = "CANCELLED" /\ jobs[j].req.type = "SOURCE_SYNC"
                        => j \in asked

\* Who may touch a claimed row.  Until its lease is over it stays as it is, save
\* for what its owner does: a heartbeat of the owner makes the lease longer, the
\* progress grows while the handler of the owner runs, and the row ends or goes
\* back to the queue only in the very step in which the owner, finalizing, lets
\* go of the job.  Once the lease is over recovery may take the row, and keeps
\* the progress.  A row that ended never changes.
FencedStep ==
    \A j \in Jobs :
        LET was == jobs[j]
            is == jobs'[j]
            owner == was.claimedBy
        IN
        /\ was.status \in Terminal => is = was
        /\ was.status = "RUNNING" /\ owner # NoWorker =>
              \/ /\ is.status = "RUNNING" /\ is.claimedBy = owner
                 /\ is.progress = was.progress
                 /\ is.lease > was.lease => cur[owner] = j /\ beat'[owner] = HeartbeatPeriod
              \/ /\ cur[owner] = j /\ pc[owner] = "run"
                 /\ is.progress > was.progress
                 /\ is = [was EXCEPT !.progress = is.progress]
              \/ /\ cur[owner] = j /\ pc[owner] = "finalize" /\ cur'[owner] = NoJob
                 /\ is.status \in Terminal \cup {"QUEUED"}
                 /\ is.progress >= was.progress
              \/ was.lease = 0 /\ is = RecoveredRow(was)

Fenced == [][FencedStep]_vars

\* Every job ends: whatever crashes, lost leases and requeues happen, a job
\* that is queued is eventually COMPLETED, FAILED or CANCELLED.
EveryJobEnds ==
    \A j \in Jobs : jobs[j].status \in Active ~> jobs[j].status \in Terminal

\* A process that was told to stop stops.
ShutdownEnds == \A w \in Workers : stop[w] ~> pc[w] = "down"

-----------------------------------------------------------------------------
(* The queue implements the life cycle of each of its jobs.                *)

Lifecycle == INSTANCE JobLifecycle WITH
    Owners <- Workers,
    Nobody <- NoWorker,
    state <- [j \in Jobs |-> jobs[j].status],
    owner <- [j \in Jobs |-> jobs[j].claimedBy],
    attempts <- [j \in Jobs |-> jobs[j].attempt]

\* Whatever processes do, a job starts at most MaxAttempts times, ends once,
\* and only a claim changes its owner.
ImplementsLifecycle == Lifecycle!Spec

=============================================================================
