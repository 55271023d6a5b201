---------------------------- MODULE SourceStatus ----------------------------
(***************************************************************************)
(* The table sources beside the job queue: the endpoints that start, stop, *)
(* test and update a source (services/admin_sources.py), what retry_job    *)
(* and cancel_job write to it, and what the ingestion worker writes in the *)
(* transactions that claim, finalize and recover jobs.  The indexer runs   *)
(* the same queue and never writes this table.                             *)
(*                                                                         *)
(* Each action is the action of JobQueue it belongs to together with what  *)
(* the same transaction does to sources.                                   *)
(***************************************************************************)
EXTENDS JobQueue

CONSTANTS
    Sources,         \* rows of sources
    NoSource,        \* SQL NULL in jobs.source_id
    SourceOfTarget,  \* the source of each target a request can have
    Tested           \* bound: the sources whose connection is ever tested

ASSUME SourceAssumption ==
    /\ NoSource \notin Sources
    /\ Tested \subseteq Sources
    /\ SourceOfTarget \in [{r.target : r \in Requests} -> Sources \cup {NoSource}]

\* The target of a synchronisation is its source.
ASSUME SyncAssumption ==
    \A r, q \in Requests :
        /\ r.type = "SOURCE_SYNC" /\ q.type = "SOURCE_SYNC"
        /\ SourceOfTarget[r.target] = SourceOfTarget[q.target]
        => r = q

VARIABLES
    sources,   \* table sources: status, current_job_id, enabled
    begun,     \* the synchronisation of each process is past _set_source_syncing
    probe      \* the row that a test of the connection has read, per source

sourceVars == <<vars, sources, begun, probe>>

\* jobs.source_id: a synchronisation's source, or that of the document.
SourceOf(j) ==
    IF jobs[j].req = NoRequest THEN NoSource ELSE SourceOfTarget[jobs[j].req.target]

IsSync(j) == jobs[j].req.type = "SOURCE_SYNC"

ActiveSync(s) ==
    {j \in Jobs : jobs[j].status \in Active /\ IsSync(j) /\ SourceOf(j) = s}

Row(status, current, enabled) ==
    [status |-> status, current |-> current, enabled |-> enabled]

\* The source lets go of a job: no current job, and a status of its own.
HandsOff(row, j, status) == Row(status, NoJob, row.enabled)

\* The source waits for this job or runs it.
HandsOn(row, j, status) == Row(status, j, row.enabled)

\* UPDATE of one row; NULL and a source that does not exist are skipped.
SetSource(s, row) == sources' = [t \in Sources |-> IF t = s THEN row ELSE sources[t]]

NoProbe == [status |-> "NONE", enabled |-> FALSE]

\* A handler that is gone has not begun.
NotBegun(w) == begun' = [begun EXCEPT ![w] = FALSE]

-----------------------------------------------------------------------------
(* Endpoints.                                                              *)

\* A synchronisation is queued and its source waits for it.  The unique index
\* makes the insert fail with 409.
QueueSync(s, j) ==
    /\ \E r \in Requests :
          /\ r.type = "SOURCE_SYNC" /\ SourceOfTarget[r.target] = s
          /\ Insert(j, r)
    /\ SetSource(s, HandsOn(sources[s], j, "SYNCING"))
    /\ UNCHANGED <<begun, probe>>

\* start_source_sync
StartSync(s, j) ==
    /\ sources[s].enabled /\ sources[s].status # "DISABLED"
    /\ QueueSync(s, j)

\* The command enqueue_sync looks at the flag only.
EnqueueSync(s, j) ==
    /\ sources[s].enabled
    /\ QueueSync(s, j)

\* Jobs of the index are enqueued without a look at the source.
EnqueueIndexJob(j) ==
    /\ \E r \in Requests : r.type # "SOURCE_SYNC" /\ Insert(j, r)
    /\ UNCHANGED <<sources, begun, probe>>

\* retry_job, for a job of any type and a source in any state.
RetryJob(j, original) ==
    /\ Retry(j, original)
    /\ LET s == SourceOf(original) IN SetSource(s, HandsOn(sources[s], j, "SYNCING"))
    /\ UNCHANGED <<begun, probe>>

\* stop_source_sync releases the source when the job ends at once.
StopSync(s, j) ==
    /\ j \in ActiveSync(s)
    /\ RequestCancellation(j)
    /\ IF jobs'[j].status = "CANCELLED"
       THEN SetSource(s, HandsOff(sources[s], j, "PAUSED"))
       ELSE UNCHANGED sources
    /\ UNCHANGED <<begun, probe>>

\* cancel_job releases the source only from this job.
CancelJob(j) ==
    /\ RequestCancellation(j)
    /\ LET s == SourceOf(j) IN
       IF jobs'[j].status = "CANCELLED" /\ s \in Sources /\ sources[s].current = j
       THEN SetSource(s, HandsOff(sources[s], j, "PAUSED"))
       ELSE UNCHANGED sources
    /\ UNCHANGED <<begun, probe>>

\* update_source with enabled = false; 409 while a synchronisation is active.
Disable(s) ==
    /\ ActiveSync(s) = {}
    /\ SetSource(s, Row("DISABLED", sources[s].current, FALSE))
    /\ UNCHANGED <<vars, begun, probe>>

\* update_source with enabled = true.
Enable(s) ==
    /\ SetSource(s, Row(IF sources[s].status = "DISABLED" THEN "IDLE" ELSE sources[s].status,
                        sources[s].current, TRUE))
    /\ UNCHANGED <<vars, begun, probe>>

\* test_source_connection reads the row, commits, and asks the service.  Bound:
\* one test of a source at a time.
BeginTest(s) ==
    /\ s \in Tested
    /\ probe[s] = NoProbe
    /\ probe' = [probe EXCEPT ![s] = [status |-> sources[s].status,
                                     enabled |-> sources[s].enabled]]
    /\ UNCHANGED <<vars, sources, begun>>

Verdict(enabled, success) ==
    IF ~enabled THEN "DISABLED" ELSE IF success THEN "IDLE" ELSE "ERROR"

\* Its second transaction.  The session still holds the object it loaded and
\* does not load it again (expire_on_commit is off): the flag is the old one,
\* and the status is written only if it differs from the old one.
EndTest(s, success) ==
    /\ probe[s] # NoProbe
    /\ LET verdict == Verdict(probe[s].enabled, success) IN
       SetSource(s, Row(IF verdict = probe[s].status THEN sources[s].status ELSE verdict,
                        sources[s].current, sources[s].enabled))
    /\ probe' = [probe EXCEPT ![s] = NoProbe]
    /\ UNCHANGED <<vars, begun>>

-----------------------------------------------------------------------------
(* What the processes write.                                               *)

\* Claim of the worker; the indexer leaves the source alone.
ClaimJob(w, j) ==
    /\ Claim(w, j)
    /\ LET s == SourceOf(j) IN
       IF Kind[w] = "WORKER" THEN SetSource(s, HandsOn(sources[s], j, "SYNCING"))
                             ELSE UNCHANGED sources
    /\ UNCHANGED begun

\* _set_source_syncing, the first thing a synchronisation does.
SyncBegins(w) ==
    /\ Kind[w] = "WORKER" /\ ~begun[w]
    /\ HandlerSaves(w, 0)
    /\ LET s == SourceOf(cur[w]) IN
       IF Owns(w, cur[w])
       THEN /\ SetSource(s, Row("SYNCING", sources[s].current, sources[s].enabled))
            /\ begun' = [begun EXCEPT ![w] = TRUE]
       ELSE UNCHANGED <<sources, begun>>

HandlerSavesMore(w, progress) ==
    /\ Kind[w] = "WORKER" => begun[w]
    /\ HandlerSaves(w, progress)
    /\ UNCHANGED <<sources, begun>>

\* Before it has begun a synchronisation can fail or meet a database error.
HandlerEnds(w, disposition) ==
    /\ Kind[w] = "WORKER" /\ ~begun[w] => disposition \in {"FAILED", "REQUEUED"}
    /\ HandlerReturns(w, disposition)
    /\ UNCHANGED <<sources, begun>>

\* Mutants: a requeued job is no longer current, and the status of the job is
\* copied to the source.
AfterJobForgetting(row, j, status) ==
    CASE status = "COMPLETED" -> HandsOff(row, j, "IDLE")
      [] status = "FAILED" -> HandsOff(row, j, "ERROR")
      [] OTHER -> HandsOff(row, j, "PAUSED")
AfterJobCopying(row, j, status) ==
    IF status = "QUEUED" THEN HandsOn(row, j, status) ELSE HandsOff(row, j, status)

\* _update_source_after_job
AfterJob(row, j, status) ==
    CASE status = "COMPLETED" -> HandsOff(row, j, "IDLE")
      [] status = "CANCELLED" -> HandsOff(row, j, "PAUSED")
      [] status = "FAILED" -> HandsOff(row, j, "ERROR")
      [] OTHER -> HandsOn(row, j, "PAUSED")

\* Does the queue function that _finalize calls return the job?  cancel_job
\* also returns a job that is CANCELLED already, whoever claimed it.
Returned(w) ==
    IF outcome[w] = "CANCELLED"
    THEN jobs[cur[w]].status \in {"CANCELLED", "QUEUED"} \/ Owns(w, cur[w])
    ELSE Owns(w, cur[w])

\* _finalize of the worker: queue and source in one transaction.
FinalizeJob(w) ==
    /\ Finalize(w)
    /\ LET j == cur[w]
           s == SourceOf(j)
       IN IF Kind[w] = "WORKER" /\ Returned(w)
          THEN SetSource(s, AfterJob(sources[s], j, jobs'[j].status))
          ELSE UNCHANGED sources
    /\ NotBegun(w)

\* Mutant: recovery by the worker leaves the sources of ended jobs alone.
RecoveredSourceKept(s, last) ==
    IF last # NoJob THEN HandsOn(sources[s], last, "PAUSED") ELSE sources[s]

\* _recover_stale of the worker on one source: first the jobs that ended, if
\* one of them is current, then the jobs put back; the last of these wins.
RecoveredSource(s, last) ==
    IF last # NoJob THEN HandsOn(sources[s], last, "PAUSED")
    ELSE IF sources[s].current \in Stale
         THEN HandsOff(sources[s], sources[s].current,
                       IF jobs'[sources[s].current].status = "FAILED" THEN "ERROR" ELSE "PAUSED")
    ELSE sources[s]

Requeued(s) == {j \in Stale : SourceOf(j) = s /\ jobs'[j].status = "QUEUED"}

RecoverJobs(w) ==
    /\ RecoverStale(w)
    /\ IF Kind[w] = "WORKER"
       THEN \E last \in [Sources -> Jobs \cup {NoJob}] :
               /\ \A s \in Sources : IF Requeued(s) = {} THEN last[s] = NoJob
                                                         ELSE last[s] \in Requeued(s)
               /\ sources' = [s \in Sources |-> RecoveredSource(s, last[s])]
       ELSE UNCHANGED sources
    /\ UNCHANGED begun

\* Everything else a process does leaves the table alone: the rest of its loop,
\* and what happens beside the loop.
Elsewhere(w) ==
    /\ \/ Register(w) \/ ClaimNothing(w) \/ LeaveLoop(w)
       \/ MarkStopping(w) \/ StopInstance(w)
    /\ UNCHANGED <<sources, begun>>

Beside(w) ==
    /\ Heartbeat(w) \/ Signal(w)
    /\ UNCHANGED <<sources, begun>>

LosesJob(w) ==
    /\ Escape(w) \/ Crash(w)
    /\ UNCHANGED sources /\ NotBegun(w)

TimePasses == Tick /\ UNCHANGED <<sources, begun, probe>>

-----------------------------------------------------------------------------
\* bootstrap creates the source IDLE; the demo data makes its job current.
SourceInit ==
    /\ Init
    /\ sources = [s \in Sources |->
                    IF \E j \in Jobs : jobs[j].status = "RUNNING" /\ SourceOf(j) = s
                    THEN Row("SYNCING", 1, TRUE)
                    ELSE Row("IDLE", NoJob, TRUE)]
    /\ begun = [w \in Workers |-> FALSE]
    /\ probe = [s \in Sources |-> NoProbe]

SourceApi ==
    \/ \E j \in Jobs : EnqueueIndexJob(j) \/ CancelJob(j)
    \/ \E j, original \in Jobs : RetryJob(j, original)
    \/ \E s \in Sources, j \in Jobs : StartSync(s, j) \/ EnqueueSync(s, j) \/ StopSync(s, j)
    \/ \E s \in Sources : Disable(s) \/ Enable(s) \/ BeginTest(s)
    \/ \E s \in Sources, success \in BOOLEAN : EndTest(s, success)

SourceLoop(w) ==
    /\ \/ \E j \in Jobs : ClaimJob(w, j)
       \/ \E d \in Dispositions : HandlerEnds(w, d)
       \/ FinalizeJob(w)
       \/ RecoverJobs(w)
       \/ Elsewhere(w)
    /\ UNCHANGED probe

SourceProcess(w) ==
    \/ SourceLoop(w)
    \/ /\ \/ SyncBegins(w)
          \/ \E p \in 0 .. FullProgress - 1 : HandlerSavesMore(w, p)
          \/ Beside(w)
          \/ LosesJob(w)
       /\ UNCHANGED probe

SourceNext == SourceApi \/ (\E w \in Workers : SourceProcess(w)) \/ TimePasses

SourceSpec == SourceInit /\ [][SourceNext]_sourceVars

\* The fairness of the queue (FairSpec), beside the sources.
SourceFairSpec ==
    SourceSpec /\ WF_sourceVars(TimePasses) /\ \A w \in Workers : WF_sourceVars(SourceLoop(w))

-----------------------------------------------------------------------------
SourceStatuses == {"IDLE", "SYNCING", "PAUSED", "ERROR", "DISABLED"}

SourceRow == [status : SourceStatuses, current : Jobs \cup {NoJob}, enabled : BOOLEAN]

SourceTypeOK ==
    /\ sources \in [Sources -> SourceRow]
    /\ begun \in [Workers -> BOOLEAN]
    /\ probe \in [Sources -> [status : SourceStatuses \cup {"NONE"}, enabled : BOOLEAN]]

\* The current job of a source is a job of that source that is still active:
\* whoever ended it, worker, recovery or endpoint, released the source.
CurrentIsActive ==
    \A s \in Sources : sources[s].current # NoJob =>
        /\ SourceOf(sources[s].current) = s
        /\ jobs[sources[s].current].status \in Active

\* Who may take an active synchronisation from its source.  Neither endpoints
\* nor recoveries do: only the retry of another job, which puts that job in its
\* place, and a process that finalizes CANCELLED a job it has lost.
ActiveKeepsItsSource ==
    [][\A s \in Sources :
          LET j == sources[s].current IN
          sources'[s].current # j /\ j \in ActiveSync(s) /\ j \in ActiveSync(s)' =>
             \/ sources'[s].current # NoJob /\ jobs[sources'[s].current].status = "ABSENT"
             \/ \E w \in Workers : Finalizing(w, "CANCELLED") /\ ~Owns(w, cur[w])]_sourceVars

\* A source is not SYNCING for ever: through crashes, shutdowns, recoveries, tests
\* and requests in any order, whoever ends the synchronisation also writes the
\* source.  It needs that every process that ends a job is an ingestion worker.
SyncingEnds ==
    \A s \in Sources : sources[s].status = "SYNCING" ~> sources[s].status # "SYNCING"

\* A source that was asked to stop, and whose synchronisation is CANCELLED, is
\* no longer SYNCING once no synchronisation of it is active.
CancelledSyncLeavesSource ==
    \A s \in Sources :
        ActiveSync(s) = {}
            /\ (\E j \in Jobs : IsSync(j) /\ SourceOf(j) = s /\ jobs[j].status = "CANCELLED")
            => sources[s].status # "SYNCING"

=============================================================================
