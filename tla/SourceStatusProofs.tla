------------------------- MODULE SourceStatusProofs -------------------------
(***************************************************************************)
(* The table sources keeps the queue what it is, is well typed, and names  *)
(* only active jobs while every process is an ingestion worker.            *)
(***************************************************************************)
EXTENDS SourceStatus, LifecycleProofs

-----------------------------------------------------------------------------
(* The queue beside the sources is the queue.                              *)

\* Every step of an endpoint is a step of the queue or leaves it alone.
LEMMA ApiRefines == SourceApi => Api \/ UNCHANGED vars
<1> USE DEF SourceApi, Api
<1>1. ASSUME NEW j \in Jobs, EnqueueIndexJob(j) PROVE Api
  BY <1>1 DEF EnqueueIndexJob, Enqueue
<1>2. ASSUME NEW s \in Sources, NEW j \in Jobs, StartSync(s, j) \/ EnqueueSync(s, j)
      PROVE  Api
  BY <1>2 DEF StartSync, EnqueueSync, QueueSync, Enqueue
<1>3. ASSUME NEW j \in Jobs, NEW k \in Jobs, RetryJob(j, k) PROVE Api
  BY <1>3 DEF RetryJob
<1>4. ASSUME NEW s \in Sources, NEW j \in Jobs, StopSync(s, j) PROVE Api
  BY <1>4 DEF StopSync
<1>5. ASSUME NEW j \in Jobs, CancelJob(j) PROVE Api
  BY <1>5 DEF CancelJob
<1>6. ASSUME NEW s \in Sources, Disable(s) \/ Enable(s) PROVE UNCHANGED vars
  BY <1>6 DEF Disable, Enable
<1>7. ASSUME NEW s \in Sources, NEW ok \in BOOLEAN, BeginTest(s) \/ EndTest(s, ok)
      PROVE  UNCHANGED vars
  BY <1>7 DEF BeginTest, EndTest
<1> QED BY <1>1, <1>2, <1>3, <1>4, <1>5, <1>6, <1>7

\* Every step of a process is a step of that process in the queue.
LEMMA ProcessRefines ==
    ASSUME NEW w \in Workers, SourceProcess(w)
    PROVE  Process(w)
<1>1. ASSUME NEW j \in Jobs, ClaimJob(w, j) PROVE Process(w)
  BY <1>1 DEF ClaimJob, Process, Loop
<1>2. CASE SyncBegins(w)
  <2>1. 0 \in 0 .. FullProgress - 1
    BY QueueAssumption
  <2> QED BY <1>2, <2>1 DEF SyncBegins, Process
<1>3. ASSUME NEW p \in 0 .. FullProgress - 1, HandlerSavesMore(w, p) PROVE Process(w)
  BY <1>3 DEF HandlerSavesMore, Process
<1>4. ASSUME NEW d \in Dispositions, HandlerEnds(w, d) PROVE Process(w)
  BY <1>4 DEF HandlerEnds, Process, Loop
<1>5. CASE FinalizeJob(w)
  BY <1>5 DEF FinalizeJob, Process, Loop
<1>6. CASE RecoverJobs(w)
  BY <1>6 DEF RecoverJobs, Process, Loop
<1>7. CASE Elsewhere(w)
  BY <1>7 DEF Elsewhere, Process, Loop
<1>8. CASE LosesJob(w) \/ Beside(w)
  BY <1>8 DEF LosesJob, Beside, Process
<1> QED BY <1>1, <1>2, <1>3, <1>4, <1>5, <1>6, <1>7, <1>8 DEF SourceProcess, SourceLoop

\* So whatever is proved of the queue holds beside the sources.
THEOREM SourcesRefineQueue == SourceSpec => Spec
<1>1. SourceInit => Init
  BY DEF SourceInit
<1>2. [SourceNext]_sourceVars => [Next]_vars
  BY ApiRefines, ProcessRefines DEF SourceNext, Next, TimePasses, sourceVars
<1> QED BY <1>1, <1>2, PTL DEF SourceSpec, Spec

\* The types and the tables of the queue, beside the sources.
LEMMA QueueBesideSources ==
    SourceSpec => [](TypeOK /\ InJob /\ OneActivePerTarget)
  BY SourcesRefineQueue, TypeCorrect, QueueCorrect, PTL

-----------------------------------------------------------------------------
(* Rows of sources stay rows.                                              *)

\* Letting go of a job, taking one on, and the row after a job ended.
LEMMA SourceRowsTyped ==
    ASSUME NEW row \in SourceRow, NEW j \in Jobs
    PROVE  /\ \A st \in {"IDLE", "PAUSED", "ERROR"} : HandsOff(row, j, st) \in SourceRow
           /\ \A st \in {"SYNCING", "PAUSED"} : HandsOn(row, j, st) \in SourceRow
           /\ \A st : AfterJob(row, j, st) \in SourceRow
<1>1. \A st \in {"IDLE", "PAUSED", "ERROR"} : HandsOff(row, j, st) \in SourceRow
  BY DEF HandsOff, Row, SourceRow, SourceStatuses
<1>2. \A st \in {"SYNCING", "PAUSED"} : HandsOn(row, j, st) \in SourceRow
  BY DEF HandsOn, Row, SourceRow, SourceStatuses
<1> QED BY <1>1, <1>2 DEF AfterJob

\* Writing one row, or a row that does not exist, keeps the table typed.
LEMMA SetSourceTyped ==
    ASSUME SourceTypeOK, NEW s, NEW row, s \in Sources => row \in SourceRow,
           SetSource(s, row)
    PROVE  sources' \in [Sources -> SourceRow]
  BY DEF SourceTypeOK, SetSource

\* The endpoints keep the table typed.
LEMMA ApiSourceTyped ==
    ASSUME SourceTypeOK, SourceApi
    PROVE  SourceTypeOK'
<1> USE DEF SourceTypeOK
<1>1. ASSUME NEW j \in Jobs, EnqueueIndexJob(j) PROVE SourceTypeOK'
  BY <1>1 DEF EnqueueIndexJob
<1>2. ASSUME NEW j \in Jobs, CancelJob(j) PROVE SourceTypeOK'
  <2>1. SourceOf(j) \in Sources => HandsOff(sources[SourceOf(j)], j, "PAUSED") \in SourceRow
    BY SourceRowsTyped
  <2> QED BY <1>2, <2>1, SetSourceTyped DEF CancelJob
<1>3. ASSUME NEW j \in Jobs, NEW k \in Jobs, RetryJob(j, k) PROVE SourceTypeOK'
  <2>1. SourceOf(k) \in Sources => HandsOn(sources[SourceOf(k)], j, "SYNCING") \in SourceRow
    BY SourceRowsTyped
  <2> QED BY <1>3, <2>1, SetSourceTyped DEF RetryJob
<1>4. ASSUME NEW s \in Sources, NEW j \in Jobs,
             StartSync(s, j) \/ EnqueueSync(s, j) \/ StopSync(s, j)
      PROVE  SourceTypeOK'
  <2>1. /\ HandsOn(sources[s], j, "SYNCING") \in SourceRow
        /\ HandsOff(sources[s], j, "PAUSED") \in SourceRow
    BY SourceRowsTyped
  <2>2. CASE StartSync(s, j) \/ EnqueueSync(s, j)
    BY <2>1, <2>2, SetSourceTyped DEF StartSync, EnqueueSync, QueueSync
  <2>3. CASE StopSync(s, j)
    BY <2>1, <2>3, SetSourceTyped DEF StopSync
  <2> QED BY <1>4, <2>2, <2>3
<1>5. ASSUME NEW s \in Sources, Disable(s) \/ Enable(s) PROVE SourceTypeOK'
  <2>1. /\ Row("DISABLED", sources[s].current, FALSE) \in SourceRow
        /\ Row(IF sources[s].status = "DISABLED" THEN "IDLE" ELSE sources[s].status,
               sources[s].current, TRUE) \in SourceRow
    BY DEF Row, SourceRow, SourceStatuses
  <2> QED BY <1>5, <2>1, SetSourceTyped DEF Disable, Enable
<1>6. ASSUME NEW s \in Sources, BeginTest(s) PROVE SourceTypeOK'
  <2>1. [status |-> sources[s].status, enabled |-> sources[s].enabled]
            \in [status : SourceStatuses \cup {"NONE"}, enabled : BOOLEAN]
    BY DEF SourceRow
  <2> QED BY <1>6, <2>1 DEF BeginTest
<1>7. ASSUME NEW s \in Sources, NEW ok \in BOOLEAN, EndTest(s, ok) PROVE SourceTypeOK'
  <2> DEFINE verdict == Verdict(probe[s].enabled, ok)
             row == Row(IF verdict = probe[s].status THEN sources[s].status ELSE verdict,
                        sources[s].current, sources[s].enabled)
  <2>1. verdict \in SourceStatuses
    BY DEF Verdict, SourceStatuses
  <2>2. row \in SourceRow
    BY <2>1 DEF Row, SourceRow
  <2>3. sources' \in [Sources -> SourceRow]
    BY <1>7, <2>2, SetSourceTyped DEF EndTest
  <2>4. NoProbe \in [status : SourceStatuses \cup {"NONE"}, enabled : BOOLEAN]
    BY DEF NoProbe
  <2> QED BY <1>7, <2>3, <2>4 DEF EndTest
<1> QED BY <1>1, <1>2, <1>3, <1>4, <1>5, <1>6, <1>7 DEF SourceApi

\* The processes keep the table typed.
LEMMA ProcessSourceTyped ==
    ASSUME SourceTypeOK, TypeOK, InJob, NEW w \in Workers, SourceProcess(w)
    PROVE  SourceTypeOK'
<1> USE DEF SourceTypeOK
<1>0. UNCHANGED probe
  BY DEF SourceProcess, SourceLoop
<1>1. ASSUME NEW j \in Jobs, ClaimJob(w, j) PROVE SourceTypeOK'
  <2>1. SourceOf(j) \in Sources => HandsOn(sources[SourceOf(j)], j, "SYNCING") \in SourceRow
    BY SourceRowsTyped
  <2> QED BY <1>1, <2>1, <1>0, SetSourceTyped DEF ClaimJob
<1>2. CASE SyncBegins(w)
  <2> DEFINE s == SourceOf(cur[w])
  <2>1. s \in Sources => Row("SYNCING", sources[s].current, sources[s].enabled) \in SourceRow
    BY DEF Row, SourceRow, SourceStatuses
  <2>2. sources' \in [Sources -> SourceRow]
    BY <1>2, <2>1, SetSourceTyped DEF SyncBegins
  <2>3. begun' \in [Workers -> BOOLEAN]
    BY <1>2 DEF SyncBegins
  <2> QED BY <1>0, <2>2, <2>3
<1>3. ASSUME NEW p \in 0 .. FullProgress - 1, HandlerSavesMore(w, p) PROVE SourceTypeOK'
  BY <1>0, <1>3 DEF HandlerSavesMore
<1>4. ASSUME NEW d \in Dispositions, HandlerEnds(w, d) PROVE SourceTypeOK'
  BY <1>0, <1>4 DEF HandlerEnds
<1>5. CASE FinalizeJob(w)
  <2> DEFINE j == cur[w]
             s == SourceOf(j)
  <2>1. j \in Jobs
    BY <1>5 DEF FinalizeJob, Finalize, FinishCompleted, FinishFailed, FinishRequeued,
                FinishCancelled, Finalizing, InJob, TypeOK
  <2>2. s \in Sources => AfterJob(sources[s], j, jobs'[j].status) \in SourceRow
    BY <2>1, SourceRowsTyped
  <2>3. sources' \in [Sources -> SourceRow]
    BY <1>5, <2>2, SetSourceTyped DEF FinalizeJob
  <2> QED BY <1>0, <1>5, <2>3 DEF FinalizeJob, NotBegun
<1>6. CASE RecoverJobs(w)
  <2>1. CASE Kind[w] = "WORKER"
    <3>1. PICK last \in [Sources -> Jobs \cup {NoJob}] :
             sources' = [s \in Sources |-> RecoveredSource(s, last[s])]
      BY <1>6, <2>1 DEF RecoverJobs
    <3>2. ASSUME NEW s \in Sources PROVE RecoveredSource(s, last[s]) \in SourceRow
      BY SourceRowsTyped DEF RecoveredSource, Stale
    <3> QED BY <1>0, <1>6, <3>1, <3>2 DEF RecoverJobs
  <2>2. CASE Kind[w] # "WORKER"
    BY <1>0, <1>6, <2>2 DEF RecoverJobs
  <2> QED BY <2>1, <2>2
<1>7. CASE Elsewhere(w) \/ Beside(w)
  BY <1>0, <1>7 DEF Elsewhere, Beside
<1>8. CASE LosesJob(w)
  BY <1>0, <1>8 DEF LosesJob, NotBegun
<1> QED BY <1>1, <1>2, <1>3, <1>4, <1>5, <1>6, <1>7, <1>8 DEF SourceProcess, SourceLoop

\* The table sources holds only rows the schema allows.
THEOREM SourceTypeCorrect == SourceSpec => []SourceTypeOK
<1>1. SourceInit => SourceTypeOK
  BY QueueAssumption DEF SourceInit, SourceTypeOK, SourceRow, SourceStatuses,
     NoProbe, Row, Jobs
<1>2. SourceTypeOK /\ TypeOK /\ InJob /\ [SourceNext]_sourceVars => SourceTypeOK'
  <2>1. UNCHANGED <<sources, begun, probe>> /\ SourceTypeOK => SourceTypeOK'
    BY DEF SourceTypeOK
  <2> QED BY <2>1, ApiSourceTyped, ProcessSourceTyped DEF SourceNext, TimePasses, sourceVars
<1> QED BY <1>1, <1>2, QueueBesideSources, PTL DEF SourceSpec

-----------------------------------------------------------------------------
(* The current job of a source is active, among ingestion workers.         *)

\* The part of CurrentIsActive that is about one source.
CurrentAt(s) ==
    sources[s].current # NoJob =>
        /\ sources[s].current \in Jobs
        /\ SourceOf(sources[s].current) = s
        /\ jobs[sources[s].current].status \in Active

\* A source whose current job stays, stays right if that job stays active.
LEMMA CurrentStays ==
    ASSUME TypeOK, CurrentIsActive, SourceTypeOK, NEW s \in Sources,
           sources'[s].current \in {NoJob, sources[s].current},
           \A j \in Jobs : sources'[s].current = j /\ jobs[j].status \in Active =>
               jobs'[j].req = jobs[j].req /\ jobs'[j].status \in Active
    PROVE  CurrentAt(s)'
  BY DEF CurrentIsActive, CurrentAt, SourceTypeOK, SourceRow, SourceOf

\* Ending, claiming, putting back and ageing a row keep what it asks for.
LEMMA RowsKeepRequest ==
    ASSUME NEW row
    PROVE  /\ \A st : EndedRow(row, st).req = row.req /\ EndedRow(row, st).status = st
           /\ \A d : RequeuedRow(row, d).req = row.req /\ RequeuedRow(row, d).status = "QUEUED"
           /\ \A w : ClaimedRow(row, w).req = row.req /\ ClaimedRow(row, w).status = "RUNNING"
           /\ AgedRow(row).req = row.req /\ AgedRow(row).status = row.status
           /\ RecoveredRow(row).req = row.req
           /\ RecoveredRow(row).status \in {"QUEUED", "FAILED", "CANCELLED"}
  BY DEF EndedRow, RequeuedRow, ClaimedRow, AgedRow, RecoveredRow

\* The endpoints name only active jobs and release the jobs they end.
LEMMA ApiCurrent ==
    ASSUME TypeOK, SourceTypeOK, CurrentIsActive, SourceApi, NEW t \in Sources
    PROVE  CurrentAt(t)'
<1> USE DEF TypeOK, SourceTypeOK
<1>0. \A j \in Jobs : j # NoJob
  BY QueueAssumption DEF Jobs, NoJob
<1>1. ASSUME NEW j \in Jobs, NEW r, Insert(j, r)
      PROVE  /\ \A k \in Jobs : jobs[k].status \in Active => jobs'[k] = jobs[k]
             /\ jobs'[j].status \in Active /\ jobs'[j].req = r
  BY <1>1 DEF Insert, NewJob, UnclaimedRow, Active
<1>2. ASSUME NEW j \in Jobs, EnqueueIndexJob(j) PROVE CurrentAt(t)'
  BY <1>1, <1>2, CurrentStays DEF EnqueueIndexJob
<1>3. ASSUME NEW s \in Sources, NEW j \in Jobs, StartSync(s, j) \/ EnqueueSync(s, j)
      PROVE  CurrentAt(t)'
  <2>0. QueueSync(s, j)
    BY <1>3 DEF StartSync, EnqueueSync
  <2>1. PICK r \in Requests : SourceOfTarget[r.target] = s /\ Insert(j, r)
    BY <2>0 DEF QueueSync
  <2>2. CASE t = s
    <3>1. sources'[t].current = j
      BY <2>0, <2>2 DEF QueueSync, SetSource, HandsOn, Row
    <3>2. jobs'[j].req # NoRequest
      BY <1>1, <2>1, QueueAssumption DEF NoRequest, JobTypes
    <3> QED BY <1>1, <2>1, <2>2, <3>1, <3>2 DEF CurrentAt, SourceOf
  <2>3. CASE t # s
    BY <1>1, <2>0, <2>1, <2>3, CurrentStays DEF QueueSync, SetSource
  <2> QED BY <2>2, <2>3
<1>4. ASSUME NEW j \in Jobs, NEW k \in Jobs, RetryJob(j, k) PROVE CurrentAt(t)'
  <2>1. Insert(j, jobs[k].req) /\ SetSource(SourceOf(k), HandsOn(sources[SourceOf(k)], j, "SYNCING"))
    BY <1>4 DEF RetryJob, Retry
  <2>2. CASE t = SourceOf(k)
    <3>1. sources'[t].current = j
      BY <2>1, <2>2 DEF SetSource, HandsOn, Row
    <3> QED BY <1>1, <2>1, <2>2, <3>1 DEF CurrentAt, SourceOf
  <2>3. CASE t # SourceOf(k)
    BY <1>1, <2>1, <2>3, CurrentStays DEF SetSource
  <2> QED BY <2>2, <2>3
<1>5. ASSUME NEW j \in Jobs, RequestCancellation(j)
      PROVE  \A k \in Jobs : /\ jobs'[k].req = jobs[k].req
                             /\ k # j \/ jobs'[k].status # "CANCELLED" =>
                                   jobs'[k].status = jobs[k].status
  <2>1. [jobs[j] EXCEPT !.cancelReq = TRUE].req = jobs[j].req
    BY DEF JobRow
  <2>2. [jobs[j] EXCEPT !.cancelReq = TRUE].status = jobs[j].status
    BY DEF JobRow
  <2>3. /\ \A k \in Jobs : k # j => jobs'[k] = jobs[k]
        /\ jobs'[j] \in {EndedRow(jobs[j], "CANCELLED"), [jobs[j] EXCEPT !.cancelReq = TRUE]}
    BY <1>5 DEF RequestCancellation
  <2>4. jobs'[j].req = jobs[j].req /\ (jobs'[j].status # "CANCELLED" => jobs'[j].status = jobs[j].status)
    <3>1. CASE jobs'[j] = EndedRow(jobs[j], "CANCELLED")
      BY <3>1 DEF EndedRow
    <3>2. CASE jobs'[j] = [jobs[j] EXCEPT !.cancelReq = TRUE]
      BY <2>1, <2>2, <3>2
    <3> QED BY <2>3, <3>1, <3>2
  <2> QED BY <2>3, <2>4
<1>6. ASSUME NEW s \in Sources, NEW j \in Jobs, StopSync(s, j) PROVE CurrentAt(t)'
  <2>1. RequestCancellation(j) /\ SourceOf(j) = s
    BY <1>6 DEF StopSync, ActiveSync
  <2>2. CASE jobs'[j].status = "CANCELLED"
    <3>1. CASE t = s
      BY <1>6, <2>2, <3>1 DEF StopSync, SetSource, HandsOff, Row, CurrentAt
    <3>2. CASE t # s
      <4>1. sources'[t] = sources[t]
        BY <1>6, <2>2, <3>2 DEF StopSync, SetSource
      <4>2. sources[t].current # j
        BY <1>0, <2>1, <3>2 DEF CurrentIsActive
      <4> QED BY <1>5, <2>1, <4>1, <4>2, CurrentStays
    <3> QED BY <3>1, <3>2
  <2>3. CASE jobs'[j].status # "CANCELLED"
    BY <1>5, <1>6, <2>1, <2>3, CurrentStays DEF StopSync
  <2> QED BY <2>2, <2>3
<1>7. ASSUME NEW j \in Jobs, CancelJob(j) PROVE CurrentAt(t)'
  <2>1. RequestCancellation(j)
    BY <1>7 DEF CancelJob
  <2>2. CASE sources[t].current = j /\ jobs'[j].status = "CANCELLED"
    <3>1. SourceOf(j) = t
      BY <1>0, <2>2 DEF CurrentIsActive
    <3> QED BY <1>7, <2>2, <3>1 DEF CancelJob, SetSource, HandsOff, Row, CurrentAt
  <2>3. CASE ~(sources[t].current = j /\ jobs'[j].status = "CANCELLED")
    <3>1. sources'[t].current \in {NoJob, sources[t].current}
      BY <1>7 DEF CancelJob, SetSource, HandsOff, Row
    <3>2. sources'[t].current # NoJob => sources'[t].current = sources[t].current
      BY <3>1
    <3>3. ASSUME NEW k \in Jobs, sources'[t].current = k, jobs[k].status \in Active
          PROVE  jobs'[k].req = jobs[k].req /\ jobs'[k].status \in Active
      BY <1>0, <1>5, <2>1, <2>3, <3>2, <3>3
    <3> QED BY <3>1, <3>3, CurrentStays
  <2> QED BY <2>2, <2>3
<1>8. ASSUME NEW s \in Sources, NEW ok \in BOOLEAN,
             Disable(s) \/ Enable(s) \/ BeginTest(s) \/ EndTest(s, ok)
      PROVE  CurrentAt(t)'
  <2>1. sources'[t].current = sources[t].current
    BY <1>8 DEF Disable, Enable, BeginTest, EndTest, SetSource, Row
  <2>2. jobs' = jobs
    BY <1>8 DEF Disable, Enable, BeginTest, EndTest, vars
  <2> QED BY <2>1, <2>2, CurrentStays
<1> QED BY <1>2, <1>3, <1>4, <1>6, <1>7, <1>8 DEF SourceApi

\* What the end of a job does to the tables: if the process still has the job,
\* or is told that it was cancelled, the source is written; if not, nothing is.
LEMMA FinalizeRows ==
    ASSUME TypeOK, InJob, NEW w \in Workers, Finalize(w)
    PROVE  /\ cur[w] \in Jobs /\ jobs[cur[w]].status # "ABSENT"
           /\ \A k \in Jobs : k # cur[w] => jobs'[k] = jobs[k]
           /\ jobs'[cur[w]].req = jobs[cur[w]].req
           /\ ~Returned(w) => jobs' = jobs
<1> USE DEF TypeOK
<1>1. cur[w] \in Jobs /\ jobs[cur[w]].status # "ABSENT"
  BY DEF Finalize, FinishCompleted, FinishFailed, FinishRequeued, FinishCancelled,
         Finalizing, InJob
<1>2. ASSUME NEW row, row.req = jobs[cur[w]].req, Settle(w, row)
      PROVE  /\ \A k \in Jobs : k # cur[w] => jobs'[k] = jobs[k]
             /\ jobs'[cur[w]].req = jobs[cur[w]].req
  BY <1>1, <1>2 DEF Settle
<1>3. CASE FinishCompleted(w)
  BY <1>1, <1>2, <1>3, RowsKeepRequest DEF FinishCompleted, Finalizing, Returned, queueVars
<1>4. CASE FinishFailed(w)
  <2>1. CASE Owns(w, cur[w])
    <3>1. Settle(w, EndedRow(jobs[cur[w]], "FAILED")) /\ Returned(w)
      BY <1>4, <2>1 DEF FinishFailed, Finalizing, Returned
    <3> QED BY <1>1, <1>2, <3>1, RowsKeepRequest
  <2>2. CASE ~Owns(w, cur[w])
    BY <1>1, <1>4, <2>2 DEF FinishFailed, queueVars
  <2> QED BY <2>1, <2>2
<1>5. ASSUME NEW d \in Backoffs, FinishRequeued(w, d)
      PROVE  /\ \A k \in Jobs : k # cur[w] => jobs'[k] = jobs[k]
             /\ jobs'[cur[w]].req = jobs[cur[w]].req
             /\ ~Returned(w) => jobs' = jobs
  BY <1>1, <1>2, <1>5, RowsKeepRequest DEF FinishRequeued, Finalizing, Returned, queueVars
<1>6. CASE FinishCancelled(w)
  <2>1. CASE UNCHANGED queueVars
    BY <1>1, <2>1 DEF queueVars
  <2>2. CASE ~UNCHANGED queueVars
    <3>1. /\ jobs[cur[w]].status \notin Terminal
          /\ jobs[cur[w]].status = "RUNNING" => Owns(w, cur[w])
          /\ Settle(w, EndedRow(jobs[cur[w]], "CANCELLED"))
      BY <1>6, <2>2 DEF FinishCancelled, Owns, Terminal
    <3>2. jobs[cur[w]].status \in {"QUEUED", "RUNNING"}
      BY <1>1, <3>1 DEF JobRow, JobStatus, Active
    <3>3. Returned(w)
      BY <1>6, <3>1, <3>2 DEF FinishCancelled, Finalizing, Returned
    <3> QED BY <1>1, <1>2, <3>1, <3>3, RowsKeepRequest
  <2> QED BY <2>1, <2>2
<1> QED BY <1>1, <1>3, <1>4, <1>5, <1>6 DEF Finalize

\* A worker names only the job it claims, or one it puts back, and releases
\* the source of a job it ends.
LEMMA ProcessCurrent ==
    ASSUME TypeOK, TypeOK', InJob, InJob', SourceTypeOK, CurrentIsActive,
           NEW w \in Workers, Kind[w] = "WORKER", SourceProcess(w), NEW t \in Sources,
           \A j \in Jobs : jobs[j].status # "ABSENT" => jobs'[j].status # "ABSENT"
    PROVE  CurrentAt(t)'
<1> USE DEF TypeOK, SourceTypeOK
<1>0. \A j \in Jobs : j # NoJob
  BY QueueAssumption DEF Jobs, NoJob
<1>1. ASSUME NEW j \in Jobs, ClaimJob(w, j) PROVE CurrentAt(t)'
  <2>1. /\ jobs' = [jobs EXCEPT ![j] = ClaimedRow(jobs[j], w)]
        /\ SetSource(SourceOf(j), HandsOn(sources[SourceOf(j)], j, "SYNCING"))
    BY <1>1 DEF ClaimJob, Claim
  <2>2. \A k \in Jobs : /\ jobs'[k].req = jobs[k].req
                        /\ k = j \/ jobs[k].status \in Active => jobs'[k].status \in Active
    <3>1. jobs'[j].req = jobs[j].req /\ jobs'[j].status = "RUNNING"
      BY <2>1 DEF ClaimedRow
    <3>2. \A k \in Jobs : k # j => jobs'[k] = jobs[k]
      BY <2>1
    <3> QED BY <3>1, <3>2 DEF Active
  <2>3. CASE t = SourceOf(j)
    <3>1. sources'[t].current = j
      BY <2>1, <2>3 DEF SetSource, HandsOn, Row
    <3> QED BY <2>2, <2>3, <3>1 DEF CurrentAt, SourceOf
  <2>4. CASE t # SourceOf(j)
    BY <2>1, <2>2, <2>4, CurrentStays DEF SetSource
  <2> QED BY <2>3, <2>4
<1>2. ASSUME NEW p \in 0 .. FullProgress - 1, HandlerSaves(w, p),
             sources'[t].current = sources[t].current
      PROVE  CurrentAt(t)'
  <2>1. \A k \in Jobs : jobs'[k].req = jobs[k].req /\ jobs'[k].status = jobs[k].status
    BY <1>2 DEF HandlerSaves, JobRow
  <2> QED BY <1>2, <2>1, CurrentStays
<1>3. CASE SyncBegins(w)
  <2>1. 0 \in 0 .. FullProgress - 1
    BY QueueAssumption
  <2>2. sources'[t].current = sources[t].current
    BY <1>3 DEF SyncBegins, SetSource, Row
  <2>3. HandlerSaves(w, 0)
    BY <1>3 DEF SyncBegins
  <2> QED BY <1>2, <2>1, <2>2, <2>3
<1>4. ASSUME NEW p \in 0 .. FullProgress - 1, HandlerSavesMore(w, p) PROVE CurrentAt(t)'
  BY <1>2, <1>4 DEF HandlerSavesMore
<1>5. ASSUME jobs' = jobs, sources' = sources PROVE CurrentAt(t)'
  BY <1>5, CurrentStays
<1>6. ASSUME NEW d \in Dispositions, HandlerEnds(w, d) PROVE CurrentAt(t)'
  BY <1>5, <1>6 DEF HandlerEnds, HandlerReturns, queueVars
<1>7. CASE FinalizeJob(w)
  <2> DEFINE j == cur[w]
  <2>1. /\ j \in Jobs /\ jobs[j].status # "ABSENT"
        /\ \A k \in Jobs : k # j => jobs'[k] = jobs[k]
        /\ jobs'[j].req = jobs[j].req
        /\ ~Returned(w) => jobs' = jobs
    BY <1>7, FinalizeRows DEF FinalizeJob
  <2>2. CASE ~Returned(w)
    BY <1>5, <1>7, <2>1, <2>2 DEF FinalizeJob
  <2>3. CASE Returned(w) /\ t = SourceOf(j)
    <3>1. sources'[t] = AfterJob(sources[t], j, jobs'[j].status)
      BY <1>7, <2>3 DEF FinalizeJob, SetSource
    <3>2. CASE jobs'[j].status \in Terminal
      BY <3>1, <3>2 DEF AfterJob, HandsOff, Row, CurrentAt, Terminal
    <3>3. CASE jobs'[j].status \notin Terminal
      <4>1. jobs'[j].status \in Active
        BY <2>1, <3>3 DEF JobRow, JobStatus
      <4>2. sources'[t].current = j
        BY <3>1, <3>3 DEF AfterJob, HandsOn, Row, Terminal
      <4> QED BY <2>1, <2>3, <4>1, <4>2 DEF CurrentAt, SourceOf
    <3> QED BY <3>2, <3>3
  <2>4. CASE Returned(w) /\ t # SourceOf(j)
    <3>1. sources'[t] = sources[t]
      BY <1>7, <2>4 DEF FinalizeJob, SetSource
    <3>2. sources[t].current # j
      BY <1>0, <2>1, <2>4 DEF CurrentIsActive
    <3> QED BY <2>1, <3>1, <3>2, CurrentStays
  <2> QED BY <2>2, <2>3, <2>4
<1>8. CASE RecoverJobs(w)
  <2>1. PICK last \in [Sources -> Jobs \cup {NoJob}] :
           /\ \A s \in Sources : IF Requeued(s) = {} THEN last[s] = NoJob
                                                     ELSE last[s] \in Requeued(s)
           /\ sources' = [s \in Sources |-> RecoveredSource(s, last[s])]
    BY <1>8 DEF RecoverJobs
  <2>2. jobs' = [j \in Jobs |-> IF j \in Stale THEN RecoveredRow(jobs[j]) ELSE jobs[j]]
    BY <1>8 DEF RecoverJobs, RecoverStale
  <2>3. \A k \in Jobs : /\ jobs'[k].req = jobs[k].req
                        /\ k \notin Stale => jobs'[k].status = jobs[k].status
    BY <2>2, RowsKeepRequest
  <2>4. sources'[t] = RecoveredSource(t, last[t])
    BY <2>1
  <2>5. CASE Requeued(t) # {}
    <3>1. last[t] \in Requeued(t)
      BY <2>1, <2>5
    <3>2. sources'[t].current = last[t]
      BY <1>0, <2>4, <3>1 DEF RecoveredSource, HandsOn, Row, Requeued, Stale
    <3> QED BY <2>3, <3>1, <3>2 DEF CurrentAt, SourceOf, Requeued, Stale, Active
  <2>6. CASE Requeued(t) = {} /\ sources[t].current \in Stale
    BY <2>1, <2>4, <2>6 DEF RecoveredSource, HandsOff, Row, CurrentAt
  <2>7. CASE Requeued(t) = {} /\ sources[t].current \notin Stale
    <3>1. sources'[t] = sources[t]
      BY <2>1, <2>4, <2>7 DEF RecoveredSource
    <3> QED BY <2>3, <2>7, <3>1, CurrentStays
  <2> QED BY <2>5, <2>6, <2>7
<1>9. CASE Elsewhere(w) \/ Beside(w)
  <2>1. \A k \in Jobs : jobs'[k].req = jobs[k].req /\ jobs'[k].status = jobs[k].status
    BY <1>9 DEF Elsewhere, Beside, Register, ClaimNothing, Heartbeat, LeaveLoop, MarkStopping,
                StopInstance, Signal, queueVars, JobRow
  <2> QED BY <1>9, <2>1, CurrentStays DEF Elsewhere, Beside
<1>10. CASE LosesJob(w)
  BY <1>5, <1>10 DEF LosesJob, Escape, Crash, queueVars
<1> QED BY <1>1, <1>3, <1>4, <1>6, <1>7, <1>8, <1>9, <1>10
       DEF SourceProcess, SourceLoop

\* However workers crash, lose leases and come back, the current job of a source
\* is one of its own that is still active: whoever ends it releases the source.
\* The assumption is needed: an indexer recovers a synchronisation and leaves
\* the source alone.
THEOREM CurrentActiveCorrect ==
    (\A w \in Workers : Kind[w] = "WORKER") => (SourceSpec => []CurrentIsActive)
<1> SUFFICES ASSUME \A w \in Workers : Kind[w] = "WORKER"
             PROVE  SourceSpec => []CurrentIsActive
  OBVIOUS
<1>1. SourceInit => CurrentIsActive
  <2> SUFFICES ASSUME SourceInit, NEW s \in Sources, sources[s].current # NoJob
               PROVE  /\ SourceOf(sources[s].current) = s
                      /\ jobs[sources[s].current].status \in Active
    BY DEF CurrentIsActive
  <2>1. PICK j \in Jobs : jobs[j].status = "RUNNING" /\ SourceOf(j) = s
    BY DEF SourceInit, Row
  <2>2. j = 1 /\ sources[s].current = 1
    <3>1. ASSUME NEW k \in Jobs, k # 1 PROVE jobs[k].status = "ABSENT"
      BY <3>1 DEF SourceInit, Init, AbsentJob, UnclaimedRow
    <3> QED BY <2>1, <3>1 DEF SourceInit, Row
  <2> QED BY <2>1, <2>2 DEF Active
<1>2. /\ TypeOK /\ InJob /\ SourceTypeOK /\ CurrentIsActive
      /\ (TypeOK /\ InJob)' /\ [SourceNext]_sourceVars
      => CurrentIsActive'
  <2> SUFFICES ASSUME TypeOK, InJob, SourceTypeOK, CurrentIsActive, TypeOK', InJob',
                      [SourceNext]_sourceVars, NEW t \in Sources
               PROVE  CurrentAt(t)'
    BY DEF CurrentIsActive, CurrentAt
  <2>1. CASE SourceApi
    BY <2>1, ApiCurrent
  <2>2. ASSUME NEW w \in Workers, SourceProcess(w) PROVE CurrentAt(t)'
    <3>1. \A j \in Jobs : jobs[j].status # "ABSENT" => jobs'[j].status # "ABSENT"
      BY <2>2, ProcessRefines, RowsStay DEF Next
    <3> QED BY <2>2, <3>1, ProcessCurrent
  <2>3. CASE TimePasses
    <3>1. \A k \in Jobs : jobs'[k].req = jobs[k].req /\ jobs'[k].status = jobs[k].status
      BY <2>3, RowsKeepRequest DEF TimePasses, Tick
    <3> QED BY <2>3, <3>1, CurrentStays DEF TimePasses
  <2>4. CASE UNCHANGED sourceVars
    BY <2>4, CurrentStays DEF sourceVars, vars
  <2> QED BY <2>1, <2>2, <2>3, <2>4 DEF SourceNext
<1> QED BY <1>1, <1>2, QueueBesideSources, SourceTypeCorrect, PTL DEF SourceSpec

-----------------------------------------------------------------------------
(* An active synchronisation keeps its source.                             *)

AllWorkers == \A w \in Workers : Kind[w] = "WORKER"

\* Where all processes are workers, only synchronisations run.
OnlySyncsRun == \A j \in Jobs : jobs[j].status = "RUNNING" => IsSync(j)

\* A step of the queue starts nothing else.
LEMMA NextOnlySyncs ==
    ASSUME AllWorkers, TypeOK, InJob, EndedAtRest, OnlySyncsRun, [Next]_vars
    PROVE  OnlySyncsRun'
<1> SUFFICES ASSUME NEW j \in Jobs, jobs'[j].status = "RUNNING"
             PROVE  jobs'[j].req.type = "SOURCE_SYNC"
  BY DEF OnlySyncsRun, IsSync
<1>1. Way(j) /\ jobs[j] \in JobRow
  BY Ways DEF TypeOK
<1>2. CASE Same(j)
  BY <1>2 DEF Same, OnlySyncsRun, IsSync
<1>3. CASE Claimed(j)
  BY <1>1, <1>3, Written DEF Claimed, Supported, AllWorkers
<1>4. CASE Saved(j)
  BY <1>1, <1>4 DEF Saved, InHand, JobRow, OnlySyncsRun, IsSync
<1>5. CASE Submitted(j)
  BY <1>5 DEF Submitted, NewJob, UnclaimedRow
<1>6. CASE Ended(j) \/ Withdrawn(j)
  BY <1>1, <1>6, Written DEF Ended, Withdrawn, Terminal
<1>7. CASE PutBack(j)
  BY <1>1, <1>7, Written DEF PutBack
<1>8. CASE Recovered(j)
  BY <1>1, <1>8, Written DEF Recovered, RecoveredRow
<1> QED BY <1>1, <1>2, <1>3, <1>4, <1>5, <1>6, <1>7, <1>8 DEF Way

\* A source has one active synchronisation at most.
LEMMA OneSyncPerSource ==
    ASSUME TypeOK, OneActivePerTarget, NEW s \in Sources,
           NEW j \in ActiveSync(s), NEW k \in ActiveSync(s)
    PROVE  j = k
<1>1. /\ j \in Jobs /\ jobs[j].status \in Active /\ jobs[j].req.type = "SOURCE_SYNC"
      /\ k \in Jobs /\ jobs[k].status \in Active /\ jobs[k].req.type = "SOURCE_SYNC"
      /\ SourceOf(j) = s /\ SourceOf(k) = s
  BY DEF ActiveSync, IsSync
<1>2. jobs[j].req \in Requests /\ jobs[k].req \in Requests
      /\ jobs[j].req # NoRequest /\ jobs[k].req # NoRequest
  BY <1>1 DEF TypeOK, JobRow, NoRequest
<1>3. SourceOfTarget[jobs[j].req.target] = SourceOfTarget[jobs[k].req.target]
  BY <1>1, <1>2 DEF SourceOf
<1>4. jobs[j].req = jobs[k].req
  BY <1>1, <1>2, <1>3, SyncAssumption
<1> QED BY <1>1, <1>4 DEF OneActivePerTarget, Conflict

\* A synchronisation that is active, whose source names it, and stays active.
Held(s, j) ==
    /\ j \in ActiveSync(s) /\ sources[s].current = j
    /\ jobs'[j].status \in Active

\* What may become of the source meanwhile.
KeptOrReplaced(s, j) ==
    \/ sources'[s].current = j
    \/ sources'[s].current # NoJob /\ jobs[sources'[s].current].status = "ABSENT"
    \/ \E w \in Workers : Finalizing(w, "CANCELLED") /\ ~Owns(w, cur[w])

\* The row of a source after an endpoint or a worker has written it.
LEMMA CurrentWritten ==
    ASSUME NEW s \in Sources, NEW t, NEW row, SetSource(t, row)
    PROVE  /\ t = s => sources'[s] = row
           /\ t # s => sources'[s] = sources[s]
BY DEF SetSource

\* A step of an endpoint.
LEMMA ApiKeeps ==
    ASSUME TypeOK, OneActivePerTarget, SourceTypeOK, SourceApi,
           NEW s \in Sources, NEW j, Held(s, j)
    PROVE  KeptOrReplaced(s, j)
<1> USE DEF HandsOn, HandsOff, Row
<1>1. CASE sources'[s].current = sources[s].current
  BY <1>1 DEF Held, KeptOrReplaced
<1>2. ASSUME NEW t, NEW k \in Jobs, jobs[k].status = "ABSENT",
             SetSource(t, HandsOn(sources[t], k, "SYNCING"))
      PROVE  KeptOrReplaced(s, j)
  <2>1. CASE t = s
    <3>1. sources'[s].current = k
      BY <1>2, <2>1, CurrentWritten
    <3> QED BY <1>2, <3>1 DEF KeptOrReplaced, Jobs, NoJob
  <2>2. CASE t # s
    BY <1>1, <1>2, <2>2, CurrentWritten
  <2> QED BY <2>1, <2>2
<1>3. ASSUME NEW k \in Jobs, EnqueueIndexJob(k)
      PROVE  KeptOrReplaced(s, j)
  BY <1>1, <1>3 DEF EnqueueIndexJob
<1>4. ASSUME NEW k \in Jobs, CancelJob(k)
      PROVE  KeptOrReplaced(s, j)
  <2>1. CASE UNCHANGED sources
    BY <1>1, <2>1
  <2>2. CASE /\ jobs'[k].status = "CANCELLED" /\ sources[SourceOf(k)].current = k
             /\ SetSource(SourceOf(k), HandsOff(sources[SourceOf(k)], k, "PAUSED"))
    <3>1. CASE SourceOf(k) = s
      BY <2>2, <3>1 DEF Held, Active
    <3>2. CASE SourceOf(k) # s
      BY <1>1, <2>2, <3>2, CurrentWritten
    <3> QED BY <3>1, <3>2
  <2> QED BY <1>4, <2>1, <2>2 DEF CancelJob
<1>5. ASSUME NEW k \in Jobs, NEW original \in Jobs, RetryJob(k, original)
      PROVE  KeptOrReplaced(s, j)
  BY <1>2, <1>5 DEF RetryJob, Retry, Insert
<1>6. ASSUME NEW t \in Sources, NEW k \in Jobs, StartSync(t, k) \/ EnqueueSync(t, k)
      PROVE  KeptOrReplaced(s, j)
  BY <1>2, <1>6 DEF StartSync, EnqueueSync, QueueSync, Insert
<1>7. ASSUME NEW t \in Sources, NEW k \in Jobs, StopSync(t, k)
      PROVE  KeptOrReplaced(s, j)
  <2>1. CASE UNCHANGED sources
    BY <1>1, <2>1
  <2>2. CASE jobs'[k].status = "CANCELLED" /\ SetSource(t, HandsOff(sources[t], k, "PAUSED"))
    <3>1. CASE t = s
      <4>1. k = j
        BY <1>7, <3>1, OneSyncPerSource DEF StopSync, Held
      <4> QED BY <2>2, <4>1 DEF Held, Active
    <3>2. CASE t # s
      BY <1>1, <2>2, <3>2, CurrentWritten
    <3> QED BY <3>1, <3>2
  <2> QED BY <1>7, <2>1, <2>2 DEF StopSync
<1>8. ASSUME NEW t \in Sources, Disable(t) \/ Enable(t) \/ BeginTest(t)
      PROVE  KeptOrReplaced(s, j)
  <2>1. sources'[s].current = sources[s].current
    BY <1>8 DEF Disable, Enable, BeginTest, SetSource
  <2> QED BY <1>1, <2>1
<1>9. ASSUME NEW t \in Sources, NEW success \in BOOLEAN, EndTest(t, success)
      PROVE  KeptOrReplaced(s, j)
  <2>1. sources'[s].current = sources[s].current
    BY <1>9 DEF EndTest, SetSource
  <2> QED BY <1>1, <2>1
<1> QED BY <1>3, <1>4, <1>5, <1>6, <1>7, <1>8, <1>9 DEF SourceApi

\* A step of a process.
LEMMA ProcessKeeps ==
    ASSUME AllWorkers, TypeOK, InJob, OneActivePerTarget, SourceTypeOK, Supports, OnlySyncsRun,
           NEW w \in Workers, SourceProcess(w),
           NEW s \in Sources, NEW j, Held(s, j)
    PROVE  KeptOrReplaced(s, j)
<1> USE DEF HandsOn, HandsOff, Row
<1>1. CASE sources'[s].current = sources[s].current
  BY <1>1 DEF Held, KeptOrReplaced
<1>2. ASSUME NEW k \in Jobs, ClaimJob(w, k)
      PROVE  KeptOrReplaced(s, j)
  <2>1. /\ k \in Claimable(w) /\ Kind[w] = "WORKER"
        /\ SetSource(SourceOf(k), HandsOn(sources[SourceOf(k)], k, "SYNCING"))
    BY <1>2 DEF ClaimJob, Claim, NextClaim, AllWorkers
  <2>2. CASE SourceOf(k) = s
    <3>1. k \in ActiveSync(s)
      BY <2>1, <2>2 DEF Claimable, Supported, ActiveSync, IsSync, Active
    <3>2. k = j
      BY <3>1, OneSyncPerSource DEF Held
    <3>3. sources'[s].current = j
      BY <2>1, <2>2, <3>2, CurrentWritten
    <3> QED BY <3>3 DEF KeptOrReplaced
  <2>3. CASE SourceOf(k) # s
    BY <1>1, <2>1, <2>3, CurrentWritten
  <2> QED BY <2>2, <2>3
<1>3. CASE SyncBegins(w)
  <2>1. sources'[s].current = sources[s].current
    BY <1>3 DEF SyncBegins, SetSource
  <2> QED BY <1>1, <2>1
<1>4. CASE FinalizeJob(w)
  <2> DEFINE k == cur[w]
  <2>1. CASE UNCHANGED sources
    BY <1>1, <2>1
  <2>2. CASE /\ Returned(w)
             /\ SetSource(SourceOf(k), AfterJob(sources[SourceOf(k)], k, jobs'[k].status))
    <3>1. CASE SourceOf(k) # s
      BY <1>1, <2>2, <3>1, CurrentWritten
    <3>2. CASE ~Owns(w, k)
      <4>1. Finalizing(w, "CANCELLED")
        BY <1>4, <2>2, <3>2 DEF Returned, FinalizeJob, Finalize, FinishCompleted, FinishFailed,
                             FinishRequeued, FinishCancelled, Finalizing
      <4> QED BY <3>2, <4>1 DEF KeptOrReplaced
    <3>3. CASE SourceOf(k) = s /\ Owns(w, k)
      <4>1. k \in Jobs /\ k # NoJob
        BY <1>4 DEF InJob, TypeOK, FinalizeJob, Finalize, FinishCompleted, FinishFailed,
                    FinishRequeued, FinishCancelled, Finalizing
      <4>2. k \in ActiveSync(s)
        BY <3>3, <4>1 DEF ActiveSync, Owns, Active, OnlySyncsRun
      <4>3. k = j
        BY <4>2, OneSyncPerSource DEF Held
      <4>4. jobs'[k].status \notin {"COMPLETED", "CANCELLED", "FAILED"}
        BY <4>3 DEF Held, Active
      <4>5. sources'[s] = AfterJob(sources[s], k, jobs'[k].status)
        BY <2>2, <3>3, CurrentWritten
      <4>6. sources'[s].current = j
        BY <4>3, <4>4, <4>5 DEF AfterJob
      <4> QED BY <4>6 DEF KeptOrReplaced
    <3> QED BY <3>1, <3>2, <3>3
  <2> QED BY <1>4, <2>1, <2>2 DEF FinalizeJob
<1>5. CASE RecoverJobs(w)
  <2>1. PICK last \in [Sources -> Jobs \cup {NoJob}] :
          /\ IF Requeued(s) = {} THEN last[s] = NoJob ELSE last[s] \in Requeued(s)
          /\ sources'[s] = RecoveredSource(s, last[s])
    BY <1>5 DEF RecoverJobs, AllWorkers
  <2>2. CASE Requeued(s) # {}
    <3>1. last[s] \in Requeued(s)
      BY <2>1, <2>2
    <3>2. last[s] \in ActiveSync(s)
      BY <3>1 DEF Requeued, Stale, ActiveSync, Active, OnlySyncsRun
    <3>3. last[s] = j /\ last[s] # NoJob
      BY <3>2, OneSyncPerSource DEF Held, ActiveSync, Jobs, NoJob
    <3>4. sources'[s].current = j
      BY <2>1, <3>3 DEF RecoveredSource
    <3> QED BY <3>4 DEF KeptOrReplaced
  <2>3. CASE Requeued(s) = {} /\ j \notin Stale
    <3>1. sources'[s] = sources[s]
      BY <2>1, <2>3 DEF RecoveredSource, Held
    <3> QED BY <1>1, <3>1
  <2>4. CASE Requeued(s) = {} /\ j \in Stale
    <3>1. j \in Jobs /\ SourceOf(j) = s /\ jobs'[j].status # "QUEUED"
      BY <2>4 DEF Requeued, Held, ActiveSync
    <3>2. jobs'[j] = RecoveredRow(jobs[j])
      BY <1>5, <2>4, <3>1 DEF RecoverJobs, RecoverStale
    <3>3. jobs'[j].status \in Terminal
      BY <3>1, <3>2 DEF RecoveredRow, RequeuedRow, EndedRow, Terminal
    <3> QED BY <3>3 DEF Held, Active, Terminal
  <2> QED BY <2>2, <2>3, <2>4
<1>6. ASSUME UNCHANGED sources
      PROVE  KeptOrReplaced(s, j)
  BY <1>1, <1>6
<1> QED BY <1>2, <1>3, <1>4, <1>5, <1>6
       DEF SourceProcess, SourceLoop, HandlerEnds, Elsewhere, HandlerSavesMore, Beside, LosesJob

\* While every process is a worker, no endpoint and no recovery takes an active
\* synchronisation from its source.  A worker beside an indexer does: the recovery of
\* a reindex makes that job the current one.
THEOREM ActiveKeepsCorrect == AllWorkers => (SourceSpec => ActiveKeepsItsSource)
<1> SUFFICES ASSUME AllWorkers
             PROVE  SourceSpec => ActiveKeepsItsSource
  OBVIOUS
<1> DEFINE Keeps == \A s \in Sources :
                       LET j == sources[s].current IN
                       sources'[s].current # j /\ j \in ActiveSync(s) /\ j \in ActiveSync(s)' =>
                          \/ sources'[s].current # NoJob /\ jobs[sources'[s].current].status = "ABSENT"
                          \/ \E w \in Workers : Finalizing(w, "CANCELLED") /\ ~Owns(w, cur[w])
<1>1. Init => OnlySyncsRun
  BY DEF Init, OnlySyncsRun, IsSync, AbsentJob, SeededJob, UnclaimedRow
<1>2. TypeOK /\ InJob /\ EndedAtRest /\ OnlySyncsRun /\ [Next]_vars => OnlySyncsRun'
  BY NextOnlySyncs
<1>3. Spec => []OnlySyncsRun
  BY <1>1, <1>2, TypeCorrect, LifeInvariant, PTL DEF Spec
<1>4. ASSUME TypeOK, InJob, OneActivePerTarget, SourceTypeOK, Supports, OnlySyncsRun, SourceNext
      PROVE  Keeps
  <2> SUFFICES ASSUME NEW s \in Sources, NEW j \in ActiveSync(s), j \in ActiveSync(s)',
                      sources[s].current = j
               PROVE  KeptOrReplaced(s, j)
    BY DEF KeptOrReplaced
  <2>1. Held(s, j)
    BY DEF Held, ActiveSync
  <2>2. CASE SourceApi
    BY <1>4, <2>1, <2>2, ApiKeeps
  <2>3. CASE \E w \in Workers : SourceProcess(w)
    BY <1>4, <2>1, <2>3, ProcessKeeps
  <2>4. CASE TimePasses
    BY <2>4 DEF TimePasses, KeptOrReplaced
  <2> QED BY <1>4, <2>2, <2>3, <2>4 DEF SourceNext
<1>5. /\ TypeOK /\ InJob /\ OneActivePerTarget /\ SourceTypeOK /\ Supports /\ OnlySyncsRun
      /\ [SourceNext]_sourceVars
      => [Keeps]_sourceVars
  BY <1>4
<1>6. AskedInv => Supports
  BY DEF AskedInv
<1> QED BY <1>3, <1>5, <1>6, SourcesRefineQueue, QueueBesideSources, SourceTypeCorrect,
           LifeInvariant, PTL DEF SourceSpec, ActiveKeepsItsSource

=============================================================================
