-------------------------- MODULE LifecycleProofs ---------------------------
(***************************************************************************)
(* What becomes of one row of jobs: every step of JobQueue moves it along  *)
(* its life cycle, whoever takes the step.  Hence the queue implements     *)
(* JobLifecycle, a row with an owner is fenced, and a synchronisation is   *)
(* cancelled only on request.                                              *)
(***************************************************************************)
EXTENDS JobQueueProofs

-----------------------------------------------------------------------------
(* The ways of a row.                                                      *)

\* Whoever works on the row has the disposition CANCELLED to deliver.
CancelDue(j) == \E w \in Workers : cur[w] = j /\ outcome[w] = "CANCELLED"

\* The owner's heartbeat has run.
Renewed(j) ==
    cur[jobs[j].claimedBy] = j /\ beat'[jobs[j].claimedBy] = HeartbeatPeriod

Same(j) ==
    /\ jobs'[j].status = jobs[j].status /\ jobs'[j].claimedBy = jobs[j].claimedBy
    /\ jobs'[j].req = jobs[j].req /\ jobs'[j].attempt = jobs[j].attempt
    /\ jobs'[j].progress = jobs[j].progress
    /\ jobs'[j].cancelReq => jobs[j].cancelReq \/ j \in asked'
    /\ jobs[j].status \in Terminal => jobs'[j] = jobs[j]
    /\ jobs'[j].lease > jobs[j].lease => Renewed(j)

Submitted(j) ==
    /\ jobs[j].status = "ABSENT"
    /\ \E r \in Requests \cup {NoRequest} : jobs'[j] = NewJob(r)

Claimed(j) ==
    /\ jobs[j].status = "QUEUED" /\ jobs[j].attempt < MaxAttempts
    /\ \E w \in Workers : jobs'[j] = ClaimedRow(jobs[j], w) /\ jobs[j].req.type \in Supported(w)

\* The process that works on the row writes its progress or lets go of it.
InHand(j) ==
    /\ jobs[j].status = "RUNNING" /\ jobs[j].claimedBy \in Workers
    /\ cur[jobs[j].claimedBy] = j

\* Its owner finalizes: this step ends what that process does with the job.
LetGo(j) ==
    /\ InHand(j)
    /\ pc[jobs[j].claimedBy] = "finalize" /\ cur'[jobs[j].claimedBy] = NoJob

Saved(j) ==
    /\ InHand(j) /\ pc[jobs[j].claimedBy] = "run"
    /\ \E p \in 0 .. FullProgress :
          p > jobs[j].progress /\ jobs'[j] = [jobs[j] EXCEPT !.progress = p]

Ended(j) ==
    /\ LetGo(j)
    /\ \E s \in Terminal : /\ jobs'[j] = EndedRow(jobs[j], s)
                           /\ s = "CANCELLED" => jobs[j].cancelReq \/ CancelDue(j)

PutBack(j) ==
    /\ LetGo(j) /\ ~jobs[j].cancelReq /\ jobs[j].attempt < MaxAttempts
    /\ \E d \in Nat : jobs'[j] = RequeuedRow(jobs[j], d)

Recovered(j) ==
    jobs[j].status = "RUNNING" /\ jobs[j].lease = 0 /\ jobs'[j] = RecoveredRow(jobs[j])

\* Nobody holds the row.
Withdrawn(j) ==
    /\ jobs[j].status = "QUEUED" \/ (jobs[j].status = "RUNNING" /\ jobs[j].claimedBy = NoWorker)
    /\ jobs'[j] = EndedRow(jobs[j], "CANCELLED")
    /\ j \in asked' \/ CancelDue(j)

Way(j) == \/ Same(j) \/ Submitted(j) \/ Claimed(j) \/ Saved(j) \/ Ended(j) \/ PutBack(j)
          \/ Recovered(j) \/ Withdrawn(j)

\* A row that ended has neither lease nor delay left for the clock to change.
EndedAtRest == \A j \in Jobs : jobs[j].status \in Terminal => jobs[j].lease = 0 /\ jobs[j].wait = 0

\* What jobs.py writes when it lets go of a row or takes it.
LEMMA Written ==
    ASSUME NEW row \in JobRow
    PROVE  /\ \A s : /\ EndedRow(row, s).status = s /\ EndedRow(row, s).req = row.req
                     /\ EndedRow(row, s).lease = 0 /\ EndedRow(row, s).wait = 0
                     /\ EndedRow(row, s).cancelReq => row.cancelReq \/ s = "CANCELLED"
           /\ \A d : /\ RequeuedRow(row, d).status = "QUEUED" /\ RequeuedRow(row, d).req = row.req
                     /\ RequeuedRow(row, d).cancelReq = row.cancelReq
           /\ \A w : /\ ClaimedRow(row, w).status = "RUNNING" /\ ClaimedRow(row, w).req = row.req
                     /\ ClaimedRow(row, w).cancelReq = row.cancelReq
BY DEF EndedRow, RequeuedRow, ClaimedRow

\* A row that a step leaves alone, or of which the clock moves lease and delay.
LEMMA RowsRest ==
    ASSUME TypeOK, EndedAtRest, NEW j \in Jobs,
           jobs'[j] = jobs[j] \/ jobs'[j] = AgedRow(jobs[j])
    PROVE  Same(j)
<1>1. jobs[j] \in JobRow
  BY DEF TypeOK
<1>2. jobs[j].status \in Terminal => AgedRow(jobs[j]) = jobs[j]
  BY <1>1 DEF EndedAtRest, AgedRow, Less, JobRow
<1>3. ~(jobs'[j].lease > jobs[j].lease)
  <2>1. jobs[j].lease \in Nat
    BY <1>1, QueueAssumption DEF JobRow
  <2> QED BY <2>1 DEF AgedRow, Less
<1> QED BY <1>1, <1>2, <1>3 DEF Same, AgedRow

\* Every step takes each row along one of its ways.
LEMMA Ways ==
    ASSUME TypeOK, InJob, EndedAtRest, [Next]_vars, NEW j \in Jobs
    PROVE  Way(j)
<1> USE DEF TypeOK
<1>1. CASE jobs' = jobs
  BY <1>1, RowsRest DEF Way
<1>2. ASSUME NEW k \in Jobs, NEW r \in Requests \cup {NoRequest}, Insert(k, r)
      PROVE  Way(j)
  <2>1. jobs' = [jobs EXCEPT ![k] = NewJob(r)] /\ jobs[k].status = "ABSENT"
    BY <1>2 DEF Insert
  <2>2. CASE j = k
    BY <2>1, <2>2 DEF Way, Submitted
  <2>3. CASE j # k
    BY <2>1, <2>3, RowsRest DEF Way
  <2> QED BY <2>2, <2>3
<1>3. ASSUME NEW k \in Jobs, RequestCancellation(k)
      PROVE  Way(j)
  <2>1. asked' = asked \cup {k} /\ jobs[k].status \in Active
    BY <1>3 DEF RequestCancellation
  <2>2. CASE j # k
    <3>1. jobs'[j] = jobs[j]
      BY <1>3, <2>2 DEF RequestCancellation
    <3> QED BY <3>1, RowsRest DEF Way
  <2>3. CASE j = k /\ (jobs[k].status = "QUEUED" \/ jobs[k].claimedBy = NoWorker)
    <3>1. jobs'[j] = EndedRow(jobs[j], "CANCELLED")
      BY <1>3, <2>3 DEF RequestCancellation
    <3>2. jobs[j].status = "QUEUED" \/ (jobs[j].status = "RUNNING" /\ jobs[j].claimedBy = NoWorker)
      BY <2>1, <2>3 DEF Active
    <3>3. Withdrawn(j)
      BY <2>1, <2>3, <3>1, <3>2 DEF Withdrawn
    <3> QED BY <3>3 DEF Way
  <2>4. CASE j = k /\ ~(jobs[k].status = "QUEUED" \/ jobs[k].claimedBy = NoWorker)
    <3>1. jobs'[j] = [jobs[j] EXCEPT !.cancelReq = TRUE]
      BY <1>3, <2>4 DEF RequestCancellation
    <3>2. Same(j)
      BY <2>1, <2>4, <3>1 DEF Same, JobRow, Active, Terminal
    <3> QED BY <3>2 DEF Way
  <2> QED BY <2>2, <2>3, <2>4
<1>4. ASSUME NEW w \in Workers, RecoverStale(w)
      PROVE  Way(j)
  <2>1. CASE j \in Stale
    BY <1>4, <2>1 DEF RecoverStale, Stale, Way, Recovered
  <2>2. CASE j \notin Stale
    <3>1. jobs'[j] = jobs[j]
      BY <1>4, <2>2 DEF RecoverStale
    <3> QED BY <3>1, RowsRest DEF Way
  <2> QED BY <2>1, <2>2
<1>5. ASSUME NEW w \in Workers, NEW k \in Jobs, Claim(w, k)
      PROVE  Way(j)
  <2>1. /\ jobs' = [jobs EXCEPT ![k] = ClaimedRow(jobs[k], w)]
        /\ jobs[k].status = "QUEUED" /\ jobs[k].attempt < MaxAttempts
        /\ jobs[k].req.type \in Supported(w)
    BY <1>5 DEF Claim, NextClaim, Claimable
  <2>2. CASE j = k
    BY <2>1, <2>2 DEF Way, Claimed
  <2>3. CASE j # k
    BY <2>1, <2>3, RowsRest DEF Way
  <2> QED BY <2>2, <2>3
<1>6. ASSUME NEW w \in Workers, Heartbeat(w)
      PROVE  Way(j)
  <2>1. CASE jobs' = [jobs EXCEPT ![cur[w]].lease = Extended(jobs[cur[w]].lease)] /\ Owns(w, cur[w])
    <3>1. CASE j = cur[w]
      <4>1. jobs'[j] = [jobs[j] EXCEPT !.lease = LeaseTime]
        BY <2>1, <3>1 DEF Extended
      <4>2. Renewed(j)
        BY <1>6, <2>1, <3>1 DEF Heartbeat, Owns, Renewed
      <4>3. Same(j)
        BY <2>1, <3>1, <4>1, <4>2 DEF Same, JobRow, Owns, Terminal
      <4> QED BY <4>3 DEF Way
    <3>2. CASE j # cur[w]
      BY <2>1, <3>2, RowsRest DEF Way
    <3> QED BY <3>1, <3>2
  <2> QED BY <1>1, <1>6, <2>1 DEF Heartbeat, queueVars
<1>7. ASSUME NEW w \in Workers, NEW p \in 0 .. FullProgress - 1, HandlerSaves(w, p)
      PROVE  Way(j)
  <2>1. CASE Owns(w, cur[w]) /\ j = cur[w]
    <3>1. CASE jobs[j].progress < p
      <4>1. jobs'[j] = [jobs[j] EXCEPT !.progress = p]
        BY <1>7, <2>1, <3>1 DEF HandlerSaves
      <4>2. p \in 0 .. FullProgress /\ p > jobs[j].progress
        BY <3>1, QueueAssumption DEF JobRow
      <4>3. Saved(j)
        BY <1>7, <2>1, <4>1, <4>2 DEF Saved, InHand, Owns, HandlerSaves
      <4> QED BY <4>3 DEF Way
    <3>2. CASE ~(jobs[j].progress < p)
      <4>1. jobs'[j] = [jobs[j] EXCEPT !.progress = jobs[j].progress]
        BY <1>7, <2>1, <3>2 DEF HandlerSaves
      <4>2. jobs'[j] = jobs[j]
        BY <4>1 DEF JobRow
      <4> QED BY <4>2, RowsRest DEF Way
    <3> QED BY <3>1, <3>2
  <2>2. CASE ~(Owns(w, cur[w]) /\ j = cur[w])
    <3>1. jobs'[j] = jobs[j]
      BY <1>7, <2>2 DEF HandlerSaves
    <3> QED BY <3>1, RowsRest DEF Way
  <2> QED BY <2>1, <2>2
<1>8. ASSUME NEW w \in Workers, Finalize(w)
      PROVE  Way(j)
  <2>1. cur[w] \in Jobs /\ jobs[cur[w]].status # "ABSENT"
    BY <1>8 DEF InJob, Finalize, FinishCompleted, FinishFailed, FinishRequeued,
                FinishCancelled, Finalizing
  <2> DEFINE row == jobs[cur[w]]
  <2>10. pc[w] = "finalize"
    BY <1>8 DEF Finalize, FinishCompleted, FinishFailed, FinishRequeued, FinishCancelled,
                Finalizing
  <2>11. cur'[w] = NoJob
    BY <1>8 DEF Finalize, FinishCompleted, FinishFailed, FinishRequeued, FinishCancelled, EndJob
  <2>2. ASSUME NEW new, Settle(w, new), j # cur[w]
        PROVE  Way(j)
    <3>1. jobs'[j] = jobs[j]
      BY <2>2 DEF Settle
    <3> QED BY <3>1, RowsRest DEF Way
  <2>3. ASSUME NEW s \in Terminal, Owns(w, cur[w]), Settle(w, EndedRow(row, s)),
               s = "CANCELLED" => row.cancelReq \/ outcome[w] = "CANCELLED"
        PROVE  Way(j)
    <3>1. CASE j = cur[w]
      <4>1. jobs'[j] = EndedRow(jobs[j], s)
        BY <2>1, <2>3, <3>1 DEF Settle
      <4>2. Ended(j)
        BY <2>3, <2>10, <2>11, <3>1, <4>1 DEF Ended, LetGo, InHand, Owns, CancelDue
      <4> QED BY <4>2 DEF Way
    <3> QED BY <2>2, <2>3, <3>1
  <2>4. CASE FinishCompleted(w)
    BY <1>1, <2>3, <2>4 DEF FinishCompleted, queueVars, Terminal
  <2>5. CASE FinishFailed(w)
    BY <1>1, <2>3, <2>5 DEF FinishFailed, queueVars, Terminal
  <2>6. ASSUME NEW d \in Backoffs, FinishRequeued(w, d)
        PROVE  Way(j)
    <3>1. CASE ~Owns(w, cur[w])
      BY <1>1, <2>6, <3>1 DEF FinishRequeued, queueVars
    <3>2. CASE Owns(w, cur[w]) /\ row.cancelReq
      BY <2>3, <2>6, <3>2 DEF FinishRequeued, Terminal
    <3>3. CASE Owns(w, cur[w]) /\ ~row.cancelReq /\ row.attempt >= MaxAttempts
      BY <2>3, <2>6, <3>3 DEF FinishRequeued, Terminal
    <3>4. CASE Owns(w, cur[w]) /\ ~row.cancelReq /\ ~(row.attempt >= MaxAttempts)
      <4>1. Settle(w, RequeuedRow(row, d)) /\ d \in Nat /\ row.attempt < MaxAttempts
        BY <2>1, <2>6, <3>4, QueueAssumption DEF FinishRequeued, JobRow
      <4>2. CASE j = cur[w]
        <5>1. jobs'[j] = RequeuedRow(jobs[j], d)
          BY <2>1, <4>1, <4>2 DEF Settle
        <5>2. PutBack(j)
          BY <2>10, <2>11, <3>4, <4>1, <4>2, <5>1 DEF PutBack, LetGo, InHand, Owns
        <5> QED BY <5>2 DEF Way
      <4> QED BY <2>2, <4>1, <4>2
    <3> QED BY <3>1, <3>2, <3>3, <3>4
  <2>7. CASE FinishCancelled(w)
    <3>1. outcome[w] = "CANCELLED"
      BY <2>7 DEF FinishCancelled, Finalizing
    <3>2. CASE row.status \in Terminal \/ (row.status = "RUNNING" /\ row.claimedBy # w)
      BY <1>1, <2>7, <3>2 DEF FinishCancelled, queueVars, Terminal
    <3>3. CASE Owns(w, cur[w])
      <4>1. Settle(w, EndedRow(row, "CANCELLED"))
        BY <2>7, <3>3 DEF FinishCancelled, Owns
      <4> QED BY <2>3, <3>1, <3>3, <4>1 DEF Terminal
    <3>4. CASE row.status = "QUEUED"
      <4>1. Settle(w, EndedRow(row, "CANCELLED"))
        BY <2>7, <3>4 DEF FinishCancelled
      <4>2. CASE j = cur[w]
        <5>1. jobs'[j] = EndedRow(jobs[j], "CANCELLED")
          BY <2>1, <4>1, <4>2 DEF Settle
        <5>2. jobs[j].status = "QUEUED" /\ CancelDue(j)
          BY <3>1, <3>4, <4>2 DEF CancelDue
        <5>3. Withdrawn(j)
          BY <5>1, <5>2 DEF Withdrawn
        <5> QED BY <5>3 DEF Way
      <4> QED BY <2>2, <4>1, <4>2
    <3>5. row.status \in Terminal \cup {"QUEUED", "RUNNING"}
      BY <2>1 DEF JobRow, JobStatus, Active, Terminal
    <3>6. row.status = "RUNNING" => Owns(w, cur[w]) \/ row.claimedBy # w
      BY DEF Owns
    <3> QED BY <3>2, <3>3, <3>4, <3>5, <3>6
  <2> QED BY <1>8, <2>4, <2>5, <2>6, <2>7 DEF Finalize
<1>9. CASE Tick
  BY <1>9, RowsRest DEF Tick, Way
<1>10. ASSUME NEW w \in Workers, Process(w)
       PROVE  Way(j)
  <2>1. CASE Register(w) \/ ClaimNothing(w) \/ LeaveLoop(w) \/ MarkStopping(w)
             \/ StopInstance(w) \/ Signal(w) \/ Escape(w) \/ Crash(w)
             \/ \E d \in Dispositions : HandlerReturns(w, d)
    <3>1. jobs' = jobs
      BY <2>1 DEF Register, ClaimNothing, LeaveLoop, MarkStopping, StopInstance, Signal,
                  Escape, Crash, HandlerReturns, queueVars
    <3> QED BY <1>1, <3>1
  <2> QED BY <1>10, <1>4, <1>5, <1>6, <1>7, <1>8, <2>1 DEF Process, Loop
<1>11. CASE Api
  <2>1. \A k \in Jobs : jobs[k].req \in Requests \cup {NoRequest}
    BY DEF JobRow
  <2> QED BY <1>11, <2>1, <1>2, <1>3 DEF Api, Enqueue, Retry
<1>12. CASE UNCHANGED vars
  BY <1>1, <1>12 DEF vars
<1> QED BY <1>9, <1>10, <1>11, <1>12 DEF Next

\* The clock has nothing to do for a row that ended.
LEMMA NextAtRest ==
    ASSUME TypeOK, InJob, EndedAtRest, [Next]_vars
    PROVE  EndedAtRest'
<1> SUFFICES ASSUME NEW j \in Jobs, jobs'[j].status \in Terminal
             PROVE  jobs'[j].lease = 0 /\ jobs'[j].wait = 0
  BY DEF EndedAtRest
<1>1. Way(j) /\ jobs[j] \in JobRow
  BY Ways DEF TypeOK
<1>2. CASE Same(j)
  BY <1>2 DEF Same, EndedAtRest
<1>3. CASE Submitted(j) \/ Claimed(j)
  <2>1. Submitted(j) => jobs'[j].status = "QUEUED"
    BY DEF Submitted, NewJob, UnclaimedRow
  <2>2. Claimed(j) => jobs'[j].status = "RUNNING"
    BY <1>1, Written DEF Claimed
  <2> QED BY <1>3, <2>1, <2>2 DEF Terminal
<1>4. CASE Saved(j)
  BY <1>1, <1>4 DEF Saved, InHand, JobRow, Terminal
<1>5. CASE Ended(j) \/ PutBack(j) \/ Withdrawn(j)
  <2>1. CASE PutBack(j)
    BY <1>1, <2>1, Written DEF PutBack, Terminal
  <2>2. PICK s : jobs'[j] = EndedRow(jobs[j], s) \/ PutBack(j)
    BY <1>5 DEF Ended, Withdrawn
  <2> QED BY <1>1, <2>1, <2>2, Written
<1>6. CASE Recovered(j)
  BY <1>6 DEF Recovered, RecoveredRow, EndedRow, RequeuedRow, Terminal
<1> QED BY <1>1, <1>2, <1>3, <1>4, <1>5, <1>6 DEF Way

-----------------------------------------------------------------------------
(* Cancellation on request.                                                *)

Sync(j) == jobs[j].req.type = "SOURCE_SYNC"

\* A cancellation on record was asked for.
Recorded ==
    \A j \in Jobs : Sync(j) /\ (jobs[j].cancelReq \/ jobs[j].status = "CANCELLED") => j \in asked

\* A process works on what its program supports.
Supports == \A w \in Workers : cur[w] # NoJob => jobs[cur[w]].req.type \in Supported(w)

\* A cancellation that a handler reported was asked for.
Reported ==
    \A w \in Workers : outcome[w] = "CANCELLED" =>
        pc[w] = "finalize" /\ (Sync(cur[w]) => cur[w] \in asked)

AskedInv == Recorded /\ Supports /\ Reported

\* A request is not forgotten, and a row keeps what it was inserted for.
LEMMA Grows ==
    ASSUME TypeOK, InJob, EndedAtRest, [Next]_vars
    PROVE  /\ asked \subseteq asked'
           /\ \A j \in Jobs : jobs[j].status # "ABSENT" => jobs'[j].req = jobs[j].req
<1>1. asked \subseteq asked'
  <2>1. Api \/ Tick => asked \subseteq asked'
    BY DEF Api, Enqueue, Retry, Insert, RequestCancellation, Tick
  <2>2. \A w \in Workers : Process(w) => asked' = asked
    <3>1. \A w \in Workers : Finalize(w) => asked' = asked
      BY DEF Finalize, FinishCompleted, FinishFailed, FinishRequeued, FinishCancelled, EndJob
    <3> QED BY <3>1 DEF Process, Loop, Register, RecoverStale, Claim, ClaimNothing,
                        HandlerReturns, LeaveLoop, MarkStopping, StopInstance, Heartbeat,
                        HandlerSaves, Signal, Escape, Crash
  <2> QED BY <2>1, <2>2 DEF Next, vars
<1>2. ASSUME NEW j \in Jobs, jobs[j].status # "ABSENT"
      PROVE  jobs'[j].req = jobs[j].req
  <2>1. Way(j) /\ jobs[j] \in JobRow
    BY Ways DEF TypeOK
  <2>2. Saved(j) => jobs'[j].req = jobs[j].req
    BY <2>1 DEF Saved, JobRow
  <2>3. Claimed(j) \/ Ended(j) \/ PutBack(j) \/ Withdrawn(j) => jobs'[j].req = jobs[j].req
    BY <2>1, Written DEF Claimed, Ended, PutBack, Withdrawn
  <2>4. Recovered(j) => jobs'[j].req = jobs[j].req
    BY <2>1, Written DEF Recovered, RecoveredRow
  <2> QED BY <1>2, <2>1, <2>2, <2>3, <2>4 DEF Way, Same, Submitted
<1> QED BY <1>1, <1>2

\* The process comes upon no cancellation in this step.
NoReport(w) ==
    /\ outcome'[w] # "CANCELLED"
    /\ cur'[w] \in {cur[w], NoJob} \/ cur'[w] \in Claimable(w)

\* Its handler reports one.
Reports(w) ==
    /\ cur'[w] = cur[w] /\ pc[w] = "run" /\ pc'[w] = "finalize"
    /\ MayReportCancelled(w)

\* Every step leaves a process as it is, or is one of these.
LEMMA ProcessWays ==
    ASSUME TypeOK, Reported, [Next]_vars, NEW w \in Workers
    PROVE  \/ cur'[w] = cur[w] /\ outcome'[w] = outcome[w] /\ pc'[w] = pc[w]
           \/ NoReport(w) \/ Reports(w)
<1> DEFINE Still == cur'[w] = cur[w] /\ outcome'[w] = outcome[w] /\ pc'[w] = pc[w]
           Goal == Still \/ NoReport(w) \/ Reports(w)
<1> USE DEF TypeOK
<1>1. CASE Api \/ Tick \/ UNCHANGED vars
  BY <1>1 DEF Api, Enqueue, Retry, Insert, RequestCancellation, Tick, vars, procVars
<1>2. ASSUME NEW v \in Workers, Process(v)
      PROVE  Goal
  <2>1. CASE Register(v) \/ RecoverStale(v) \/ ClaimNothing(v) \/ LeaveLoop(v) \/ MarkStopping(v)
    <3>1. /\ cur' = cur /\ outcome' = outcome /\ pc[v] # "finalize"
          /\ \A u \in Workers : u # v => pc'[u] = pc[u]
      BY <2>1 DEF Register, RecoverStale, ClaimNothing, LeaveLoop, MarkStopping
    <3> QED BY <3>1 DEF Reported, NoReport
  <2>2. ASSUME NEW j \in Jobs, Claim(v, j)
        PROVE  Goal
    <3>1. /\ cur' = [cur EXCEPT ![v] = j] /\ outcome' = outcome /\ pc[v] # "finalize"
          /\ pc' = [pc EXCEPT ![v] = "run"] /\ j \in Claimable(v)
      BY <2>2 DEF Claim, NextClaim
    <3> QED BY <3>1 DEF Reported, NoReport
  <2>3. ASSUME NEW d \in Dispositions, HandlerReturns(v, d)
        PROVE  Goal
    BY <2>3 DEF HandlerReturns, EndHandler, NoReport, Reports
  <2>4. CASE Finalize(v)
    <3>1. \E next \in {"top", "closing"} : EndJob(v, next)
      BY <2>4 DEF Finalize, FinishCompleted, FinishFailed, FinishRequeued, FinishCancelled
    <3> QED BY <3>1 DEF EndJob, NoReport
  <2>5. CASE StopInstance(v) \/ Escape(v) \/ Crash(v)
    BY <2>5 DEF StopInstance, Escape, Crash, Forget, NoReport
  <2>6. CASE Heartbeat(v) \/ Signal(v)
    BY <2>6 DEF Heartbeat, Signal
  <2>7. ASSUME NEW p \in 0 .. FullProgress - 1, HandlerSaves(v, p)
        PROVE  Goal
    BY <2>7 DEF HandlerSaves, EndHandler, NoReport
  <2> QED BY <1>2, <2>1, <2>2, <2>3, <2>4, <2>5, <2>6, <2>7 DEF Process, Loop
<1> QED BY <1>1, <1>2 DEF Next

\* Every step keeps it so.
LEMMA NextAsked ==
    ASSUME TypeOK, InJob, EndedAtRest, AskedInv, [Next]_vars
    PROVE  AskedInv'
<1> USE DEF AskedInv
<1>1. /\ asked \subseteq asked'
      /\ \A j \in Jobs : jobs[j].status # "ABSENT" => jobs'[j].req = jobs[j].req
  BY Grows
<1>2. \A w \in Workers : cur[w] # NoJob =>
          cur[w] \in Jobs /\ jobs[cur[w]].status # "ABSENT" /\ jobs'[cur[w]].req = jobs[cur[w]].req
  BY <1>1 DEF TypeOK, InJob
<1>3. \A j \in Jobs : CancelDue(j) /\ Sync(j) => j \in asked
  BY DEF CancelDue, Reported
<1>4. Recorded'
  <2> SUFFICES ASSUME NEW j \in Jobs, jobs'[j].req.type = "SOURCE_SYNC",
                      jobs'[j].cancelReq \/ jobs'[j].status = "CANCELLED"
               PROVE  j \in asked'
    BY DEF Recorded, Sync
  <2>1. Way(j) /\ jobs[j] \in JobRow
    BY Ways DEF TypeOK
  <2>2. jobs[j].status # "ABSENT" => Sync(j)
    BY <1>1 DEF Sync
  <2>3. Sync(j) /\ (jobs[j].cancelReq \/ jobs[j].status = "CANCELLED") => j \in asked'
    BY <1>1 DEF Recorded
  <2>4. CASE Same(j)
    <3>1. Sync(j)
      BY <2>4 DEF Same, Sync
    <3> QED BY <2>3, <2>4, <3>1 DEF Same
  <2>5. CASE Submitted(j)
    BY <2>5 DEF Submitted, NewJob, UnclaimedRow
  <2>6. CASE Claimed(j)
    BY <2>2, <2>3, <2>6 DEF Claimed, ClaimedRow
  <2>7. CASE Saved(j)
    BY <2>1, <2>2, <2>3, <2>7 DEF Saved, InHand, JobRow
  <2>8. CASE Ended(j)
    <3>1. PICK s \in Terminal : /\ jobs'[j] = EndedRow(jobs[j], s)
                                /\ s = "CANCELLED" => jobs[j].cancelReq \/ CancelDue(j)
      BY <2>8 DEF Ended
    <3>2. jobs[j].cancelReq \/ CancelDue(j)
      BY <2>1, <3>1, Written
    <3>3. Sync(j)
      BY <2>2, <2>8 DEF Ended, LetGo, InHand
    <3> QED BY <1>1, <1>3, <2>3, <3>2, <3>3
  <2>9. CASE PutBack(j)
    BY <2>9 DEF PutBack, RequeuedRow
  <2>10. CASE Recovered(j)
    <3>1. Sync(j)
      BY <2>2, <2>10 DEF Recovered
    <3>2. CASE jobs[j].cancelReq
      BY <2>3, <3>1, <3>2
    <3>3. CASE ~jobs[j].cancelReq
      <4>1. RecoveredRow(jobs[j]).status # "CANCELLED" /\ ~RecoveredRow(jobs[j]).cancelReq
        BY <2>1, <3>3, Written DEF RecoveredRow
      <4> QED BY <2>10, <4>1 DEF Recovered
    <3> QED BY <3>2, <3>3
  <2>11. CASE Withdrawn(j)
    BY <1>1, <1>3, <2>2, <2>11 DEF Withdrawn
  <2> QED BY <2>1, <2>4, <2>5, <2>6, <2>7, <2>8, <2>9, <2>10, <2>11 DEF Way
<1>5. Supports'
  <2> SUFFICES ASSUME NEW w \in Workers, cur'[w] # NoJob
               PROVE  jobs'[cur'[w]].req.type \in Supported(w)
    BY DEF Supports, Supported
  <2>1. CASE cur'[w] = cur[w]
    BY <1>2, <2>1 DEF Supports
  <2>2. CASE cur'[w] \in Claimable(w)
    BY <1>1, <2>2 DEF Claimable
  <2> QED BY <2>1, <2>2, ProcessWays DEF NoReport, Reports
<1>6. Reported'
  <2> SUFFICES ASSUME NEW w \in Workers, outcome'[w] = "CANCELLED"
               PROVE  /\ pc'[w] = "finalize"
                      /\ jobs'[cur'[w]].req.type = "SOURCE_SYNC" => cur'[w] \in asked'
    BY DEF Reported, Sync
  <2>1. CASE cur'[w] = cur[w] /\ outcome'[w] = outcome[w] /\ pc'[w] = pc[w]
    <3>1. pc[w] = "finalize" /\ (Sync(cur[w]) => cur[w] \in asked)
      BY <2>1 DEF Reported
    <3>2. cur[w] # NoJob
      BY <3>1 DEF InJob
    <3> QED BY <1>1, <1>2, <2>1, <3>1, <3>2 DEF Sync
  <2>2. CASE Reports(w)
    <3>1. cur[w] # NoJob
      BY <2>2 DEF InJob, Reports
    <3>2. CASE Kind[w] = "WORKER"
      <4>1. jobs[cur[w]].cancelReq
        BY <2>2, <3>2 DEF Reports, MayReportCancelled
      <4> QED BY <1>1, <1>2, <2>2, <3>1, <4>1 DEF Recorded, Sync, Reports
    <3>3. CASE Kind[w] # "WORKER"
      <4>1. jobs[cur[w]].req.type # "SOURCE_SYNC"
        BY <3>1, <3>3 DEF Supports, Supported
      <4> QED BY <1>2, <2>2, <3>1, <4>1 DEF Reports
    <3> QED BY <3>2, <3>3
  <2> QED BY <2>1, <2>2, ProcessWays DEF NoReport
<1> QED BY <1>4, <1>5, <1>6

\* Rows at rest and cancellations on request, in every reachable state.
LEMMA LifeInvariant == Spec => [](EndedAtRest /\ AskedInv)
<1>1. Init => EndedAtRest /\ AskedInv
  <2> SUFFICES ASSUME Init
               PROVE  EndedAtRest /\ AskedInv
    OBVIOUS
  <2>1. \A j \in Jobs : /\ jobs[j].status \in {"ABSENT", "RUNNING"} /\ ~jobs[j].cancelReq
    BY DEF Init, AbsentJob, SeededJob, UnclaimedRow
  <2>2. \A w \in Workers : cur[w] = NoJob /\ outcome[w] = "NONE"
    BY DEF Init
  <2> QED BY <2>1, <2>2 DEF EndedAtRest, AskedInv, Recorded, Supports, Reported, Terminal
<1>2. TypeOK /\ InJob /\ EndedAtRest /\ AskedInv /\ [Next]_vars => (EndedAtRest /\ AskedInv)'
  BY NextAtRest, NextAsked
<1> QED BY <1>1, <1>2, TypeCorrect, PTL DEF Spec

-----------------------------------------------------------------------------
(* The theorems.                                                           *)

\* A synchronisation is never cancelled unless somebody asked for it, through any
\* shutdown, lost lease or recovery.
THEOREM SyncCancelledCorrect == Spec => []SyncCancelledOnRequest
<1>1. AskedInv => SyncCancelledOnRequest
  BY DEF AskedInv, Recorded, Sync, SyncCancelledOnRequest
<1> QED BY <1>1, LifeInvariant, PTL

\* A row that ended never changes; one with an owner ends or goes back to the queue only
\* in the step in which that owner finalizes it, or by recovery once its lease is over,
\* and only the owner prolongs the lease or adds progress before that.
THEOREM FencedCorrect == Spec => Fenced
<1>1. ASSUME TypeOK, InJob, EndedAtRest, Next
      PROVE  FencedStep
  <2> SUFFICES ASSUME NEW j \in Jobs
               PROVE  LET was == jobs[j]
                          is == jobs'[j]
                          owner == was.claimedBy
                      IN
                      /\ was.status \in Terminal => is = was
                      /\ was.status = "RUNNING" /\ owner # NoWorker =>
                            \/ /\ is.status = "RUNNING" /\ is.claimedBy = owner
                               /\ is.progress = was.progress
                               /\ is.lease > was.lease =>
                                     cur[owner] = j /\ beat'[owner] = HeartbeatPeriod
                            \/ /\ cur[owner] = j /\ pc[owner] = "run"
                               /\ is.progress > was.progress
                               /\ is = [was EXCEPT !.progress = is.progress]
                            \/ /\ cur[owner] = j /\ pc[owner] = "finalize" /\ cur'[owner] = NoJob
                               /\ is.status \in Terminal \cup {"QUEUED"}
                               /\ is.progress >= was.progress
                            \/ was.lease = 0 /\ is = RecoveredRow(was)
    BY DEF FencedStep
  <2>1. Way(j) /\ jobs[j] \in JobRow
    BY <1>1, Ways DEF TypeOK
  <2>2. jobs[j].progress \in 0 .. FullProgress
    BY <2>1 DEF JobRow
  <2>3. CASE Same(j)
    BY <2>3 DEF Same, Renewed
  <2>4. CASE Submitted(j) \/ Claimed(j) \/ Withdrawn(j)
    BY <2>4 DEF Submitted, Claimed, Withdrawn, Terminal
  <2>5. CASE Saved(j)
    <3>1. PICK p \in 0 .. FullProgress :
             p > jobs[j].progress /\ jobs'[j] = [jobs[j] EXCEPT !.progress = p]
      BY <2>5 DEF Saved
    <3>2. jobs'[j].progress = p
      BY <2>1, <3>1 DEF JobRow
    <3> QED BY <2>5, <3>1, <3>2 DEF Saved, InHand, Terminal
  <2>6. CASE Ended(j)
    BY <2>2, <2>6, QueueAssumption DEF Ended, LetGo, InHand, EndedRow, Terminal
  <2>7. CASE PutBack(j)
    BY <2>2, <2>7, QueueAssumption DEF PutBack, LetGo, InHand, RequeuedRow, Terminal
  <2>8. CASE Recovered(j)
    BY <2>8 DEF Recovered, Terminal
  <2> QED BY <2>1, <2>3, <2>4, <2>5, <2>6, <2>7, <2>8 DEF Way
<1>2. TypeOK /\ InJob /\ EndedAtRest /\ [Next]_vars => [FencedStep]_vars
  BY <1>1
<1> QED BY <1>2, TypeCorrect, LifeInvariant, PTL DEF Spec, Fenced

\* The queue implements the life cycle of its jobs.
THEOREM LifecycleCorrect == Spec => ImplementsLifecycle
<1>1. Init => Lifecycle!Init
  <2> SUFFICES ASSUME Init
               PROVE  Lifecycle!Init
    OBVIOUS
  <2>1. \A j \in Jobs : /\ jobs[j].status \in {"ABSENT", "RUNNING"}
                        /\ jobs[j].claimedBy = NoWorker /\ jobs[j].attempt = 0
    BY DEF Init, AbsentJob, SeededJob, UnclaimedRow
  <2> QED BY <2>1 DEF Lifecycle!Init
<1>2. ASSUME TypeOK, InJob, EndedAtRest, QueuedIsClaimable, [Next]_vars, NEW j \in Jobs
      PROVE  Lifecycle!Move(j)
  <2> DEFINE was == jobs[j]
             is == jobs'[j]
  <2>1. Way(j) /\ was \in JobRow
    BY <1>2, Ways DEF TypeOK
  <2>2. was.status = "QUEUED" => was.claimedBy = NoWorker
    BY <1>2 DEF QueuedIsClaimable
  <2> USE DEF Lifecycle!Move
  <2>3. CASE Same(j)
    BY <2>3 DEF Same, Lifecycle!Rest
  <2>4. CASE Submitted(j)
    BY <2>4 DEF Submitted, NewJob, UnclaimedRow, Lifecycle!Submit
  <2>5. CASE Claimed(j)
    BY <2>5 DEF Claimed, ClaimedRow, Lifecycle!Start
  <2>6. CASE Saved(j)
    BY <2>1, <2>6 DEF Saved, JobRow, Lifecycle!Rest
  <2>7. CASE Ended(j)
    BY <2>7 DEF Ended, LetGo, InHand, EndedRow, Terminal, Lifecycle!End, Lifecycle!Ended
  <2>8. CASE PutBack(j)
    BY <2>8 DEF PutBack, LetGo, InHand, RequeuedRow, Lifecycle!PutBack
  <2>9. CASE Recovered(j)
    BY <2>9 DEF Recovered, RecoveredRow, RequeuedRow, EndedRow, Lifecycle!PutBack,
                Lifecycle!End, Lifecycle!Ended
  <2>10. CASE Withdrawn(j)
    BY <2>2, <2>10 DEF Withdrawn, EndedRow, Lifecycle!Withdraw, Lifecycle!End, Lifecycle!Ended
  <2> QED BY <2>1, <2>3, <2>4, <2>5, <2>6, <2>7, <2>8, <2>9, <2>10 DEF Way
<1>3. TypeOK /\ InJob /\ EndedAtRest /\ QueuedIsClaimable /\ [Next]_vars
        => [Lifecycle!Next]_(Lifecycle!lifecycle)
  BY <1>2 DEF Lifecycle!Next
<1> QED BY <1>1, <1>3, TypeCorrect, LifeInvariant, QueueCorrect, PTL
    DEF Spec, ImplementsLifecycle, Lifecycle!Spec

=============================================================================
