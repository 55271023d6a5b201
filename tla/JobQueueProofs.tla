--------------------------- MODULE JobQueueProofs ---------------------------
(***************************************************************************)
(* What holds of JobQueue for every number of processes, jobs, attempts    *)
(* and faults, and every lease longer than the heartbeat period.           *)
(***************************************************************************)
EXTENDS JobQueue, TLAPS

-----------------------------------------------------------------------------
(* Rows stay rows.                                                         *)

\* Every way jobs.py rewrites a row gives a row again.
LEMMA RowsTyped ==
    ASSUME NEW row \in JobRow
    PROVE  /\ \A s \in Terminal : EndedRow(row, s) \in JobRow
           /\ \A d \in Nat : RequeuedRow(row, d) \in JobRow
           /\ \A w \in Workers : row.attempt < MaxAttempts => ClaimedRow(row, w) \in JobRow
           /\ RecoveredRow(row) \in JobRow
           /\ AgedRow(row) \in JobRow
<1> USE QueueAssumption DEF JobRow, JobStatus, Active, Terminal
<1>1. \A s \in Terminal : EndedRow(row, s) \in JobRow
  BY DEF EndedRow
<1>2. \A d \in Nat : RequeuedRow(row, d) \in JobRow
  BY DEF RequeuedRow
<1>3. \A w \in Workers : row.attempt < MaxAttempts => ClaimedRow(row, w) \in JobRow
  BY DEF ClaimedRow
<1>4. RecoveredRow(row) \in JobRow
  BY DEF RecoveredRow, EndedRow, RequeuedRow
<1>5. AgedRow(row) \in JobRow
  BY DEF AgedRow, Less
<1> QED BY <1>1, <1>2, <1>3, <1>4, <1>5

\* A released worker row is a worker row.
LEMMA ReleaseTyped ==
    ASSUME workers \in [Workers -> WorkerRow], NEW w, NEW j
    PROVE  Release(w, j) \in [Workers -> WorkerRow]
  BY DEF Release, WorkerRow

\* A new row is a row.
LEMMA NewRowsTyped ==
    ASSUME NEW r \in Requests \cup {NoRequest}
    PROVE  NewJob(r) \in JobRow /\ SeededJob(r) \in JobRow /\ AbsentJob \in JobRow
  BY QueueAssumption DEF NewJob, SeededJob, AbsentJob, UnclaimedRow, JobRow, JobStatus, Active, Terminal

-----------------------------------------------------------------------------
(* Type correctness.                                                       *)

\* The initial states are well typed.
LEMMA InitTyped == Init => TypeOK
<1> SUFFICES ASSUME Init PROVE TypeOK
  OBVIOUS
<1>1. jobs \in [Jobs -> JobRow]
  <2>1. CASE jobs = [j \in Jobs |-> AbsentJob]
    BY <2>1, NewRowsTyped
  <2>2. CASE \E r \in Requests : jobs = [j \in Jobs |-> IF j = 1 THEN SeededJob(r) ELSE AbsentJob]
    BY <2>2, NewRowsTyped
  <2> QED BY <2>1, <2>2 DEF Init
<1>2. workers \in [Workers -> WorkerRow]
  BY DEF Init, NoInstance, WorkerRow
<1> QED BY <1>1, <1>2, QueueAssumption DEF Init, TypeOK

\* The transaction that ends a job keeps the tables well typed.
LEMMA SettleTyped ==
    ASSUME TypeOK, NEW w \in Workers, cur[w] \in Jobs, NEW row \in JobRow, Settle(w, row)
    PROVE  jobs' \in [Jobs -> JobRow] /\ workers' \in [Workers -> WorkerRow]
  BY ReleaseTyped DEF TypeOK, Settle

\* A process is in a job exactly while it runs its handler or finalizes it,
\* and that job was inserted.
InJob ==
    /\ \A w \in Workers : cur[w] # NoJob <=> pc[w] \in {"run", "finalize"}
    /\ \A w \in Workers : cur[w] # NoJob => jobs[cur[w]].status # "ABSENT"

\* Every step keeps the types.
LEMMA NextTyped ==
    ASSUME TypeOK, InJob, [Next]_vars
    PROVE  TypeOK'
<1> USE DEF TypeOK
<1>1. ASSUME NEW j \in Jobs, NEW r \in Requests \cup {NoRequest}, Insert(j, r)
      PROVE  TypeOK'
  <2>1. NewJob(r) \in JobRow
    BY NewRowsTyped
  <2> QED BY <1>1, <2>1 DEF Insert, IndexesAllow, procVars
<1>2. ASSUME NEW j \in Jobs, RequestCancellation(j)
      PROVE  TypeOK'
  <2>1. EndedRow(jobs[j], "CANCELLED") \in JobRow
    BY RowsTyped DEF Terminal
  <2>2. [jobs[j] EXCEPT !.cancelReq = TRUE] \in JobRow
    BY DEF JobRow
  <2>3. jobs' \in [Jobs -> JobRow]
    BY <1>2, <2>1, <2>2 DEF RequestCancellation
  <2>4. workers' \in [Workers -> WorkerRow]
    BY <1>2, ReleaseTyped DEF RequestCancellation
  <2> QED BY <1>2, <2>3, <2>4 DEF RequestCancellation, procVars
<1>3. ASSUME NEW w \in Workers, Register(w)
      PROVE  TypeOK'
  BY <1>3, QueueAssumption DEF Register, WorkerRow, Alive
<1>4. ASSUME NEW w \in Workers, RecoverStale(w)
      PROVE  TypeOK'
  <2>1. \A j \in Jobs : RecoveredRow(jobs[j]) \in JobRow
    BY RowsTyped
  <2>2. jobs' \in [Jobs -> JobRow]
    BY <1>4, <2>1 DEF RecoverStale
  <2>3. workers' \in [Workers -> WorkerRow]
    BY <1>4 DEF RecoverStale, WorkerRow
  <2> QED BY <1>4, <2>2, <2>3 DEF RecoverStale, Alive
<1>5. ASSUME NEW w \in Workers, NEW j \in Jobs, Claim(w, j)
      PROVE  TypeOK'
  <2>1. ClaimedRow(jobs[j], w) \in JobRow
    BY <1>5, RowsTyped DEF Claim, NextClaim, Claimable
  <2>2. [status |-> "RUNNING", current |-> j] \in WorkerRow
    BY DEF WorkerRow
  <2> QED BY <1>5, <2>1, <2>2 DEF Claim, Alive
<1>6. ASSUME NEW w \in Workers, ClaimNothing(w)
      PROVE  TypeOK'
  BY <1>6 DEF ClaimNothing, queueVars, Alive
<1>7. ASSUME NEW w \in Workers, Heartbeat(w)
      PROVE  TypeOK'
  <2>1. beat' \in [Workers -> 0 .. HeartbeatPeriod]
    BY <1>7, QueueAssumption DEF Extended, Heartbeat
  <2>2. jobs' \in [Jobs -> JobRow]
    BY <1>7, QueueAssumption, SMTT(20) DEF Extended, Heartbeat, JobRow, queueVars
  <2>3. workers' \in [Workers -> WorkerRow]
    BY <1>7 DEF Extended, Heartbeat, WorkerRow, queueVars
  <2> QED BY <1>7, <2>1, <2>2, <2>3 DEF Extended, Heartbeat
<1>8. ASSUME NEW w \in Workers, NEW p \in 0 .. FullProgress - 1, HandlerSaves(w, p)
      PROVE  TypeOK'
  <2>1. p \in 0 .. FullProgress
    BY QueueAssumption
  <2>2. jobs' \in [Jobs -> JobRow]
    BY <1>8, <2>1 DEF HandlerSaves, JobRow
  <2> QED BY <1>8, <2>2 DEF HandlerSaves, EndHandler, Dispositions, Alive
<1>9. ASSUME NEW w \in Workers, NEW d \in Dispositions, HandlerReturns(w, d)
      PROVE  TypeOK'
  BY <1>9 DEF HandlerReturns, EndHandler, queueVars, Alive
<1>10. ASSUME NEW w \in Workers, Finalize(w)
       PROVE  TypeOK'
  <2>1. cur[w] \in Jobs
    BY <1>10 DEF InJob, Finalize, FinishCompleted, FinishFailed, FinishRequeued,
                 FinishCancelled, Finalizing
  <2>2. \A s \in Terminal : EndedRow(jobs[cur[w]], s) \in JobRow
    BY <2>1, RowsTyped
  <2>3. \A d \in Backoffs : RequeuedRow(jobs[cur[w]], d) \in JobRow
    BY <2>1, RowsTyped, QueueAssumption
  <2>4. jobs' \in [Jobs -> JobRow] /\ workers' \in [Workers -> WorkerRow]
    <3>1. CASE FinishCompleted(w)
      BY <3>1, <2>1, <2>2, SettleTyped DEF FinishCompleted, queueVars, Terminal
    <3>2. CASE FinishFailed(w)
      BY <3>2, <2>1, <2>2, SettleTyped DEF FinishFailed, queueVars, Terminal
    <3>3. ASSUME NEW d \in Backoffs, FinishRequeued(w, d)
          PROVE  jobs' \in [Jobs -> JobRow] /\ workers' \in [Workers -> WorkerRow]
      BY <3>3, <2>1, <2>2, <2>3, SettleTyped DEF FinishRequeued, queueVars, Terminal
    <3>4. CASE FinishCancelled(w)
      BY <3>4, <2>1, <2>2, SettleTyped DEF FinishCancelled, queueVars, Terminal
    <3> QED BY <1>10, <3>1, <3>2, <3>3, <3>4 DEF Finalize
  <2>5. \E next \in {"top", "closing"} : EndJob(w, next)
    BY <1>10 DEF Finalize, FinishCompleted, FinishFailed, FinishRequeued, FinishCancelled
  <2> QED BY <2>4, <2>5 DEF EndJob, Alive
<1>11. Fault => faults' \in 0 .. FaultBudget
  BY QueueAssumption DEF Fault
<1>12. ASSUME NEW w \in Workers, LeaveLoop(w) \/ Signal(w) \/ Escape(w)
       PROVE  TypeOK'
  <2>1. CASE LeaveLoop(w)
    BY <2>1 DEF LeaveLoop, queueVars, Alive
  <2>2. CASE Signal(w)
    BY <2>2, <1>11 DEF Signal, queueVars
  <2>3. CASE Escape(w)
    BY <2>3, <1>11 DEF Escape, queueVars, Alive
  <2> QED BY <1>12, <2>1, <2>2, <2>3
<1>13. ASSUME NEW w \in Workers, MarkStopping(w) \/ StopInstance(w) \/ Crash(w)
       PROVE  TypeOK'
  <2>1. CASE MarkStopping(w)
    BY <2>1 DEF MarkStopping, WorkerRow, Alive
  <2>2. CASE StopInstance(w)
    <3>1. [status |-> "STOPPED", current |-> NoJob] \in WorkerRow
      BY DEF WorkerRow
    <3> QED BY <2>2, <3>1, QueueAssumption DEF StopInstance, Forget
  <2>3. CASE Crash(w)
    BY <2>3, <1>11, QueueAssumption DEF Crash, Forget, queueVars
  <2> QED BY <1>13, <2>1, <2>2, <2>3
<1>14. CASE Tick
  <2>1. \A j \in Jobs : AgedRow(jobs[j]) \in JobRow
    BY RowsTyped
  <2>2. jobs' \in [Jobs -> JobRow]
    BY <1>14, <2>1 DEF Tick
  <2>3. beat' \in [Workers -> 0 .. HeartbeatPeriod]
    BY <1>14, QueueAssumption DEF Tick, Less
  <2>4. late' \in [Workers -> BOOLEAN]
    BY <1>14 DEF Tick
  <2> QED BY <1>14, <2>2, <2>3, <2>4 DEF Tick
<1>15. CASE UNCHANGED vars
  BY <1>15 DEF vars
<1>16. ASSUME NEW w \in Workers, Process(w)
       PROVE  TypeOK'
  BY <1>16, <1>3, <1>4, <1>5, <1>6, <1>7, <1>8, <1>9, <1>10, <1>12, <1>13
  DEF Process, Loop
<1>17. CASE Api
  <2>1. \A k \in Jobs : jobs[k].req \in Requests \cup {NoRequest}
    BY DEF JobRow
  <2> QED BY <1>17, <2>1, <1>1, <1>2 DEF Api, Enqueue, Retry
<1> QED BY <1>14, <1>15, <1>16, <1>17 DEF Next

-----------------------------------------------------------------------------
(* The main loop and the job it has in hand.                               *)

\* An inserted row is never deleted.
LEMMA RowsStay ==
    ASSUME TypeOK, InJob, [Next]_vars, NEW j \in Jobs, jobs[j].status # "ABSENT"
    PROVE  jobs'[j].status # "ABSENT"
<1> USE DEF TypeOK
<1>1. \A w \in Workers : Finalize(w) => jobs'[j].status # "ABSENT"
  BY DEF Finalize, FinishCompleted, FinishFailed, FinishRequeued, FinishCancelled,
         Settle, EndedRow, RequeuedRow, queueVars
<1>2. \A w \in Workers : Loop(w) => jobs'[j].status # "ABSENT"
  <2>1. \A w \in Workers : RecoverStale(w) => jobs'[j].status # "ABSENT"
    BY DEF RecoverStale, RecoveredRow, EndedRow, RequeuedRow
  <2>2. \A w \in Workers, k \in Jobs : Claim(w, k) => jobs'[j].status # "ABSENT"
    BY DEF Claim, ClaimedRow
  <2> QED BY <1>1, <2>1, <2>2 DEF Loop, Register, ClaimNothing, HandlerReturns, LeaveLoop,
                             MarkStopping, StopInstance, queueVars
<1>3. \A w \in Workers : Process(w) => jobs'[j].status # "ABSENT"
  <2>1. \A w \in Workers : Heartbeat(w) => jobs'[j].status # "ABSENT"
    BY DEF Extended, Heartbeat, queueVars, JobRow
  <2>2. \A w \in Workers, p \in 0 .. FullProgress - 1 : HandlerSaves(w, p) => jobs'[j].status # "ABSENT"
    BY DEF HandlerSaves, JobRow
  <2> QED BY <1>2, <2>1, <2>2 DEF Process, Signal, Escape, Crash, queueVars
<1>4. Api => jobs'[j].status # "ABSENT"
  BY DEF Api, Enqueue, Retry, Insert, IndexesAllow, NewJob, UnclaimedRow, RequestCancellation, EndedRow, JobRow
<1>5. Tick => jobs'[j].status # "ABSENT"
  BY DEF Tick, AgedRow
<1> QED BY <1>3, <1>4, <1>5 DEF Next, vars

\* A process has a job in hand exactly in the handler and in _finalize.
LEMMA NextInJob ==
    ASSUME TypeOK, InJob, [Next]_vars
    PROVE  InJob'
<1> USE DEF TypeOK
<1> DEFINE Hand == \A w \in Workers : cur[w] # NoJob <=> pc[w] \in {"run", "finalize"}
           Held == \A w \in Workers : cur[w] # NoJob => jobs[cur[w]].status # "ABSENT"
<1>1. CASE UNCHANGED <<pc, cur>>
  BY <1>1, RowsStay DEF InJob
<1>2. CASE Api
  BY <1>2, <1>1 DEF Api, Enqueue, Retry, Insert, IndexesAllow, RequestCancellation, procVars
<1>3. CASE Tick
  BY <1>3, <1>1 DEF Tick
<1>4. ASSUME NEW w \in Workers, Process(w)
      PROVE  InJob'
  <2>1. CASE Register(w) \/ RecoverStale(w) \/ ClaimNothing(w)
    <3>1. Hand' /\ cur' = cur
      BY <2>1 DEF Register, RecoverStale, ClaimNothing, InJob
    <3> QED BY <3>1, RowsStay DEF InJob
  <2>2. ASSUME NEW j \in Jobs, Claim(w, j)
        PROVE  InJob'
    <3>1. Hand' /\ cur' = [cur EXCEPT ![w] = j]
      BY <2>2 DEF Claim, Jobs, NoJob, InJob
    <3>2. jobs[j].status # "ABSENT"
      BY <2>2 DEF Claim, NextClaim, Claimable
    <3> QED BY <3>1, <3>2, RowsStay DEF InJob
  <2>3. ASSUME NEW d \in Dispositions, HandlerReturns(w, d)
        PROVE  InJob'
    BY <2>3, RowsStay DEF HandlerReturns, EndHandler, InJob
  <2>4. ASSUME NEW p \in 0 .. FullProgress - 1, HandlerSaves(w, p)
        PROVE  InJob'
    <3>1. Hand' /\ cur' = cur
      BY <2>4 DEF HandlerSaves, EndHandler, InJob
    <3> QED BY <3>1, RowsStay DEF InJob
  <2>5. CASE \/ Finalize(w) \/ LeaveLoop(w) \/ StopInstance(w) \/ Escape(w) \/ Crash(w)
    <3>1. Hand'
      <4>1. CASE Finalize(w)
        <5>1. \E next \in {"top", "closing"} : EndJob(w, next)
          BY <4>1 DEF Finalize, FinishCompleted, FinishFailed, FinishRequeued, FinishCancelled
        <5> QED BY <5>1 DEF EndJob, InJob
      <4>2. CASE LeaveLoop(w)
        BY <4>2 DEF LeaveLoop, InJob
      <4>3. CASE StopInstance(w) \/ Escape(w) \/ Crash(w)
        BY <4>3 DEF StopInstance, Escape, Crash, Forget, InJob
      <4> QED BY <2>5, <4>1, <4>2, <4>3
    <3>2. \A v \in Workers : cur'[v] \in {cur[v], NoJob}
      BY <2>5 DEF Finalize, FinishCompleted, FinishFailed, FinishRequeued, FinishCancelled,
                  EndJob, LeaveLoop, StopInstance, Escape, Crash, Forget
    <3> QED BY <3>1, <3>2, RowsStay DEF InJob
  <2>6. CASE MarkStopping(w)
    <3>1. Hand' /\ cur' = cur
      BY <2>6 DEF MarkStopping, InJob
    <3> QED BY <3>1, RowsStay DEF InJob
  <2>7. CASE Heartbeat(w) \/ Signal(w)
    BY <2>7, <1>1 DEF Extended, Heartbeat, Signal
  <2> QED BY <1>4, <2>1, <2>2, <2>3, <2>4, <2>5, <2>6, <2>7 DEF Process, Loop
<1> QED BY <1>1, <1>2, <1>3, <1>4 DEF Next, vars

\* Types and the main loop together.
THEOREM TypeCorrect == Spec => [](TypeOK /\ InJob)
<1>1. Init => TypeOK /\ InJob
  BY InitTyped DEF Init, InJob
<1>2. TypeOK /\ InJob /\ [Next]_vars => (TypeOK /\ InJob)'
  BY NextTyped, NextInJob
<1> QED BY <1>1, <1>2, PTL DEF Spec

-----------------------------------------------------------------------------
(* The tables.                                                             *)

QueueInv == QueuedIsClaimable /\ CurrentJobIsOwned /\ OneActivePerTarget

\* A row that ends or returns to the queue and is let go by its owner.
LeavesWell(row, new) ==
    /\ new.req = row.req
    /\ \/ new.status \in Terminal
       \/ /\ new.status = "QUEUED"
          /\ ~new.cancelReq
          /\ new.claimedBy = NoWorker
          /\ new.attempt < MaxAttempts

\* A row of which a step changes only lease, delay or progress.
SameHands(j) ==
    /\ jobs'[j].status = jobs[j].status
    /\ jobs'[j].req = jobs[j].req
    /\ jobs'[j].claimedBy = jobs[j].claimedBy
    /\ jobs'[j].attempt = jobs[j].attempt
    /\ jobs'[j].cancelReq = jobs[j].cancelReq

\* Letting go of a job that was active keeps the invariants of the tables.
LEMMA SettleQueue ==
    ASSUME TypeOK, QueueInv, NEW w \in Workers, cur[w] \in Jobs,
           jobs[cur[w]].status \in Active, NEW row \in JobRow,
           LeavesWell(jobs[cur[w]], row), Settle(w, row)
    PROVE  QueueInv'
<1> USE DEF TypeOK, QueueInv, Settle, LeavesWell, Active, Terminal, JobRow, WorkerRow
<1>1. QueuedIsClaimable'
  BY DEF QueuedIsClaimable
<1>2. CurrentJobIsOwned'
  BY DEF CurrentJobIsOwned, Owns, Release
<1>3. OneActivePerTarget'
  BY DEF OneActivePerTarget
<1> QED BY <1>1, <1>2, <1>3

\* The invariants of the tables are kept by every step.
LEMMA NextQueue ==
    ASSUME TypeOK, InJob, QueueInv, [Next]_vars
    PROVE  QueueInv'
<1> USE DEF TypeOK
<1>1. CASE UNCHANGED queueVars
  BY <1>1 DEF queueVars, QueueInv, QueuedIsClaimable, CurrentJobIsOwned, OneActivePerTarget, Owns
<1>2. ASSUME NEW j \in Jobs, NEW r \in Requests \cup {NoRequest}, Insert(j, r)
      PROVE  QueueInv'
  <2>1. QueuedIsClaimable'
    BY <1>2, QueueAssumption DEF Insert, IndexesAllow, QueueInv, QueuedIsClaimable, NewJob, UnclaimedRow
  <2>2. CurrentJobIsOwned'
    BY <1>2 DEF Insert, IndexesAllow, QueueInv, CurrentJobIsOwned, Owns, WorkerRow
  <2>3. OneActivePerTarget'
    BY <1>2 DEF Insert, IndexesAllow, QueueInv, OneActivePerTarget, Conflict, NewJob, UnclaimedRow
  <2> QED BY <2>1, <2>2, <2>3 DEF QueueInv
<1>3. ASSUME NEW j \in Jobs, RequestCancellation(j)
      PROVE  QueueInv'
  <2>1. QueuedIsClaimable'
    BY <1>3 DEF RequestCancellation, QueueInv, QueuedIsClaimable, EndedRow, JobRow
  <2>2. CurrentJobIsOwned'
    BY <1>3 DEF RequestCancellation, QueueInv, CurrentJobIsOwned, Owns, Release, EndedRow, JobRow, WorkerRow
  <2>3. OneActivePerTarget'
    BY <1>3 DEF RequestCancellation, QueueInv, OneActivePerTarget, EndedRow, JobRow, Active
  <2> QED BY <2>1, <2>2, <2>3 DEF QueueInv
<1>4. ASSUME NEW w \in Workers, Register(w) \/ MarkStopping(w)
      PROVE  QueueInv'
  <2>1. jobs' = jobs /\ \A v \in Workers : workers'[v].current = workers[v].current
    BY <1>4 DEF Register, MarkStopping, WorkerRow
  <2> QED BY <2>1 DEF QueueInv, QueuedIsClaimable, CurrentJobIsOwned, OneActivePerTarget, Owns
<1>5. ASSUME NEW w \in Workers, RecoverStale(w)
      PROVE  QueueInv'
  <2>1. \A j \in Jobs : j \in Stale => LeavesWell(jobs[j], RecoveredRow(jobs[j]))
    BY DEF LeavesWell, RecoveredRow, EndedRow, RequeuedRow, Terminal, JobRow
  <2>2. QueuedIsClaimable'
    BY <1>5, <2>1 DEF RecoverStale, QueueInv, QueuedIsClaimable, LeavesWell, Terminal
  <2>3. CurrentJobIsOwned'
    BY <1>5 DEF RecoverStale, QueueInv, CurrentJobIsOwned, Owns, WorkerRow, Stale
  <2>4. OneActivePerTarget'
    BY <1>5, <2>1 DEF RecoverStale, QueueInv, OneActivePerTarget, LeavesWell, Active, Terminal, Stale
  <2> QED BY <2>2, <2>3, <2>4 DEF QueueInv
<1>6. ASSUME NEW w \in Workers, NEW j \in Jobs, Claim(w, j)
      PROVE  QueueInv'
  <2>1. jobs[j].status = "QUEUED" /\ jobs'[j] = ClaimedRow(jobs[j], w)
    BY <1>6 DEF Claim, NextClaim, Claimable
  <2>2. QueuedIsClaimable'
    BY <1>6, <2>1 DEF Claim, QueueInv, QueuedIsClaimable, ClaimedRow
  <2>3. CurrentJobIsOwned'
    BY <1>6, <2>1 DEF Claim, QueueInv, CurrentJobIsOwned, Owns, ClaimedRow
  <2>4. OneActivePerTarget'
    BY <1>6, <2>1 DEF Claim, QueueInv, OneActivePerTarget, ClaimedRow, Active
  <2> QED BY <2>2, <2>3, <2>4 DEF QueueInv
<1>7. ASSUME NEW w \in Workers, Heartbeat(w)
      PROVE  QueueInv'
  <2>1. \A j \in Jobs : SameHands(j)
    BY <1>7 DEF SameHands, Extended, Heartbeat, queueVars, JobRow
  <2>2. \A v \in Workers : \/ workers'[v].current = workers[v].current
                           \/ workers'[v].current \in Jobs /\ Owns(v, workers'[v].current)
    BY <1>7 DEF Extended, Heartbeat, queueVars, WorkerRow
  <2>3. CurrentJobIsOwned'
    BY <2>1, <2>2 DEF QueueInv, CurrentJobIsOwned, Owns, SameHands, WorkerRow
  <2> QED BY <2>1, <2>3 DEF QueueInv, QueuedIsClaimable, OneActivePerTarget, SameHands
<1>8. ASSUME NEW w \in Workers, NEW p \in 0 .. FullProgress - 1, HandlerSaves(w, p)
      PROVE  QueueInv'
  <2>1. \A j \in Jobs : SameHands(j)
    BY <1>8 DEF SameHands, HandlerSaves, JobRow
  <2>2. CurrentJobIsOwned'
    BY <1>8, <2>1 DEF HandlerSaves, QueueInv, CurrentJobIsOwned, Owns, SameHands, WorkerRow
  <2> QED BY <2>1, <2>2 DEF QueueInv, QueuedIsClaimable, OneActivePerTarget, SameHands
<1>9. ASSUME NEW w \in Workers, Finalize(w)
      PROVE  QueueInv'
  <2>1. cur[w] \in Jobs
    BY <1>9 DEF InJob, Finalize, FinishCompleted, FinishFailed, FinishRequeued,
                FinishCancelled, Finalizing
  <2> DEFINE row == jobs[cur[w]]
  <2>2. \A s \in Terminal : EndedRow(row, s) \in JobRow /\ LeavesWell(row, EndedRow(row, s))
    BY <2>1, RowsTyped DEF LeavesWell, EndedRow
  <2>3. \A d \in Backoffs : /\ RequeuedRow(row, d) \in JobRow
                            /\ ~row.cancelReq /\ row.attempt < MaxAttempts
                                 => LeavesWell(row, RequeuedRow(row, d))
    BY <2>1, RowsTyped, QueueAssumption DEF LeavesWell, RequeuedRow
  <2>4. CASE FinishCompleted(w)
    BY <2>4, <2>1, <2>2, <1>1, SettleQueue DEF FinishCompleted, Terminal, Active, Owns
  <2>5. CASE FinishFailed(w)
    BY <2>5, <2>1, <2>2, <1>1, SettleQueue DEF FinishFailed, Terminal, Active, Owns
  <2>6. ASSUME NEW d \in Backoffs, FinishRequeued(w, d)
        PROVE  QueueInv'
    <3>1. CASE ~Owns(w, cur[w])
      BY <3>1, <2>6, <1>1 DEF FinishRequeued
    <3>2. CASE Owns(w, cur[w])
      <4>1. row.attempt \in Nat /\ MaxAttempts \in Nat
        BY <2>1, QueueAssumption DEF JobRow
      <4>2. PICK new \in JobRow : LeavesWell(row, new) /\ Settle(w, new)
        BY <3>2, <2>6, <2>2, <2>3, <4>1 DEF FinishRequeued, Terminal
      <4> QED BY <4>2, <3>2, <2>1, SettleQueue DEF Active, Owns
    <3> QED BY <3>1, <3>2
  <2>7. CASE FinishCancelled(w)
    <3>1. CASE UNCHANGED queueVars
      BY <3>1, <1>1
    <3>2. CASE ~UNCHANGED queueVars
      <4>1. Settle(w, EndedRow(row, "CANCELLED")) /\ row.status \notin Terminal
        <5>1. row.status \notin {"COMPLETED", "FAILED"}
          BY <3>2, <2>7 DEF FinishCancelled
        <5>2. ~(row.status = "CANCELLED" \/ (row.status = "RUNNING" /\ row.claimedBy # w))
          BY <3>2, <2>7, <5>1 DEF FinishCancelled
        <5> QED BY <2>7, <5>1, <5>2 DEF FinishCancelled, Terminal
      <4>2. row.status \in Active
        BY <4>1, <2>1 DEF InJob, Jobs, NoJob, JobRow, JobStatus
      <4> QED BY <4>1, <4>2, <2>1, <2>2, SettleQueue DEF Terminal
    <3> QED BY <3>1, <3>2
  <2> QED BY <1>9, <2>4, <2>5, <2>6, <2>7 DEF Finalize
<1>10. ASSUME NEW w \in Workers, StopInstance(w)
       PROVE  QueueInv'
  BY <1>10 DEF StopInstance, QueueInv, QueuedIsClaimable, CurrentJobIsOwned,
               OneActivePerTarget, Owns
<1>11. CASE Tick
  BY <1>11 DEF Tick, AgedRow, QueueInv, QueuedIsClaimable, CurrentJobIsOwned,
               OneActivePerTarget, Owns, WorkerRow
<1>12. ASSUME NEW w \in Workers, Process(w)
       PROVE  QueueInv'
  <2>1. ASSUME ClaimNothing(w) \/ LeaveLoop(w) \/ Signal(w) \/ Escape(w) \/ Crash(w)
                 \/ \E d \in Dispositions : HandlerReturns(w, d)
        PROVE  QueueInv'
    BY <2>1, <1>1 DEF ClaimNothing, LeaveLoop, Signal, Escape, Crash, HandlerReturns
  <2> QED BY <1>12, <2>1, <1>4, <1>5, <1>6, <1>7, <1>8, <1>9, <1>10 DEF Process, Loop
<1>13. CASE Api
  <2>1. \A k \in Jobs : jobs[k].req \in Requests \cup {NoRequest}
    BY DEF JobRow
  <2> QED BY <1>13, <2>1, <1>2, <1>3 DEF Api, Enqueue, Retry
<1>14. CASE UNCHANGED vars
  BY <1>14, <1>1 DEF vars, queueVars
<1> QED BY <1>11, <1>12, <1>13, <1>14 DEF Next

\* The tables agree in every reachable state.
THEOREM QueueCorrect == Spec => [](QueuedIsClaimable /\ CurrentJobIsOwned /\ OneActivePerTarget)
<1>1. Init => QueueInv
  <2> SUFFICES ASSUME Init PROVE QueueInv
    OBVIOUS
  <2>1. \A j, k \in Jobs : /\ jobs[j].status # "QUEUED"
                           /\ jobs[j].status \in Active /\ jobs[k].status \in Active => j = k
    BY DEF Init, AbsentJob, SeededJob, UnclaimedRow, Active
  <2>2. \A w \in Workers : workers[w].current = NoJob
    BY DEF Init, NoInstance
  <2> QED BY <2>1, <2>2 DEF QueueInv, QueuedIsClaimable, CurrentJobIsOwned, OneActivePerTarget
<1>2. TypeOK /\ InJob /\ QueueInv /\ [Next]_vars => QueueInv'
  BY NextQueue
<1> QED BY <1>1, <1>2, TypeCorrect, PTL DEF Spec, QueueInv

\* A row that waits can always be claimed once its delay is over.
THEOREM QueuedIsClaimableCorrect == Spec => []QueuedIsClaimable
BY QueueCorrect, PTL

\* A worker row names only a job that its worker holds.
THEOREM CurrentJobIsOwnedCorrect == Spec => []CurrentJobIsOwned
BY QueueCorrect, PTL

\* No two active jobs have the same source, document or rebuild.
THEOREM OneActivePerTargetCorrect == Spec => []OneActivePerTarget
BY QueueCorrect, PTL

-----------------------------------------------------------------------------
(* Heartbeats and leases.                                                  *)

\* What TimelyOwner says of one process.
Timely(w) ==
    cur[w] # NoJob /\ ~late[w] =>
        /\ Owns(w, cur[w])
        /\ jobs[cur[w]].lease + HeartbeatPeriod >= LeaseTime + beat[w]

\* A process that kept its heartbeats has a lease that is not over.
LEMMA TimelyLease ==
    ASSUME TypeOK, InJob, TimelyOwner, NEW v \in Workers, cur[v] # NoJob, ~late[v]
    PROVE  /\ cur[v] \in Jobs
           /\ Owns(v, cur[v])
           /\ jobs[cur[v]].lease # 0
  BY QueueAssumption DEF TypeOK, TimelyOwner, JobRow

\* Nothing that concerns the process or its row changes.
LEMMA Untouched ==
    ASSUME TimelyOwner, NEW v \in Workers,
           cur'[v] = cur[v], late'[v] = late[v], beat'[v] = beat[v],
           cur[v] # NoJob /\ ~late[v] =>
              /\ jobs'[cur[v]].status = jobs[cur[v]].status
              /\ jobs'[cur[v]].claimedBy = jobs[cur[v]].claimedBy
              /\ jobs'[cur[v]].lease = jobs[cur[v]].lease
    PROVE  Timely(v)'
  BY DEF TimelyOwner, Timely, Owns

\* The invariant of the lease is kept by every step.
LEMMA NextTimely ==
    ASSUME TypeOK, InJob, TimelyOwner, [Next]_vars
    PROVE  TimelyOwner'
<1> USE DEF TypeOK
<1> SUFFICES ASSUME NEW v \in Workers PROVE Timely(v)'
  BY DEF TimelyOwner, Timely
<1> DEFINE Hold == cur[v] # NoJob /\ ~late[v]
<1>0. Hold => cur[v] \in Jobs /\ Owns(v, cur[v]) /\ jobs[cur[v]].lease # 0
  BY TimelyLease
<1>1. CASE UNCHANGED <<jobs, cur, late, beat>>
  BY <1>1, Untouched
<1>2. ASSUME NEW j \in Jobs, NEW r \in Requests \cup {NoRequest}, Insert(j, r)
      PROVE  Timely(v)'
  <2>1. Hold => j # cur[v]
    BY <1>2, <1>0 DEF Insert, IndexesAllow, Owns
  <2> QED BY <1>2, <2>1, <1>0, Untouched DEF Insert, IndexesAllow, procVars
<1>3. ASSUME NEW j \in Jobs, RequestCancellation(j)
      PROVE  Timely(v)'
  <2>1. Hold => /\ jobs'[cur[v]].status = jobs[cur[v]].status
                /\ jobs'[cur[v]].claimedBy = jobs[cur[v]].claimedBy
                /\ jobs'[cur[v]].lease = jobs[cur[v]].lease
    BY <1>3, <1>0, QueueAssumption DEF RequestCancellation, Owns, JobRow
  <2> QED BY <1>3, <2>1, Untouched DEF RequestCancellation, procVars
<1>4. ASSUME NEW w \in Workers, Register(w)
      PROVE  Timely(v)'
  <2>1. CASE v = w
    BY <2>1, <1>4 DEF Register, InJob, Timely
  <2>2. CASE v # w
    BY <2>2, <1>4, Untouched DEF Register
  <2> QED BY <2>1, <2>2
<1>5. ASSUME NEW w \in Workers, RecoverStale(w)
      PROVE  Timely(v)'
  <2>1. Hold => cur[v] \notin Stale
    BY <1>0 DEF Stale
  <2> QED BY <1>5, <2>1, <1>0, Untouched DEF RecoverStale
<1>6. ASSUME NEW w \in Workers, NEW j \in Jobs, Claim(w, j)
      PROVE  Timely(v)'
  <2>1. CASE v = w
    <3>1. jobs'[j] = ClaimedRow(jobs[j], w) /\ cur'[w] = j /\ beat' = beat
      BY <1>6 DEF Claim
    <3> QED BY <2>1, <3>1, QueueAssumption DEF Timely, Owns, ClaimedRow
  <2>2. CASE v # w
    <3>1. Hold => j # cur[v]
      BY <1>6, <1>0 DEF Claim, NextClaim, Claimable, Owns
    <3> QED BY <2>2, <3>1, <1>0, <1>6, Untouched DEF Claim
  <2> QED BY <2>1, <2>2
<1>7. ASSUME NEW w \in Workers, Heartbeat(w)
      PROVE  Timely(v)'
  <2>1. CASE v = w /\ Hold
    <3>1. /\ jobs' = [jobs EXCEPT ![cur[v]].lease = LeaseTime]
          /\ beat'[v] = HeartbeatPeriod
          /\ cur' = cur
      BY <2>1, <1>0, <1>7 DEF Extended, Heartbeat
    <3>2. /\ jobs'[cur[v]].status = jobs[cur[v]].status
          /\ jobs'[cur[v]].claimedBy = jobs[cur[v]].claimedBy
          /\ jobs'[cur[v]].lease = LeaseTime
      BY <2>1, <3>1, <1>0 DEF JobRow
    <3> QED BY <2>1, <3>1, <3>2, <1>0, QueueAssumption DEF Timely, Owns
  <2>2. CASE ~Hold
    BY <2>2, <1>7 DEF Extended, Heartbeat, Timely
  <2>3. CASE v # w /\ Hold
    <3>1. Owns(w, cur[w]) => cur[w] # cur[v]
      BY <2>3, <1>0 DEF Owns
    <3> QED BY <2>3, <3>1, <1>0, <1>7, Untouched DEF Extended, Heartbeat, queueVars
  <2> QED BY <2>1, <2>2, <2>3
<1>8. ASSUME NEW w \in Workers, NEW p \in 0 .. FullProgress - 1, HandlerSaves(w, p)
      PROVE  Timely(v)'
  <2>1. Hold => /\ jobs'[cur[v]].status = jobs[cur[v]].status
                /\ jobs'[cur[v]].claimedBy = jobs[cur[v]].claimedBy
                /\ jobs'[cur[v]].lease = jobs[cur[v]].lease
    BY <1>8, <1>0 DEF HandlerSaves, JobRow
  <2> QED BY <1>8, <2>1, Untouched DEF HandlerSaves
<1>9. ASSUME NEW w \in Workers, Finalize(w)
      PROVE  Timely(v)'
  <2>1. CASE v = w
    BY <2>1, <1>9 DEF Finalize, FinishCompleted, FinishFailed, FinishRequeued,
                      FinishCancelled, EndJob, Timely
  <2>2. CASE v # w
    <3>1. Hold => jobs'[cur[v]] = jobs[cur[v]]
      <4>1. Hold /\ cur[w] = cur[v] => ~Owns(w, cur[w]) /\ jobs[cur[w]].status = "RUNNING"
                                       /\ jobs[cur[w]].claimedBy # w
        BY <2>2, <1>0 DEF Owns
      <4>2. \A row : Settle(w, row) => \A j \in Jobs : j # cur[w] => jobs'[j] = jobs[j]
        BY DEF Settle
      <4>3. CASE FinishCompleted(w) \/ FinishFailed(w) \/ \E d \in Backoffs : FinishRequeued(w, d)
        BY <4>1, <4>2, <4>3, <1>0 DEF FinishCompleted, FinishFailed, FinishRequeued, queueVars
      <4>4. CASE FinishCancelled(w)
        <5>1. CASE cur[w] = cur[v]
          BY <5>1, <4>1, <4>4 DEF FinishCancelled, queueVars
        <5>2. CASE cur[w] # cur[v]
          BY <5>2, <4>2, <4>4, <1>0 DEF FinishCancelled, queueVars
        <5> QED BY <5>1, <5>2
      <4> QED BY <1>9, <4>3, <4>4 DEF Finalize
    <3>2. cur'[v] = cur[v] /\ late'[v] = late[v] /\ beat' = beat
      <4>1. PICK next : EndJob(w, next)
        BY <1>9 DEF Finalize, FinishCompleted, FinishFailed, FinishRequeued, FinishCancelled
      <4> QED BY <2>2, <4>1, <1>0 DEF EndJob
    <3> QED BY <3>1, <3>2, Untouched
  <2> QED BY <2>1, <2>2
<1>10. ASSUME NEW w \in Workers, Escape(w) \/ StopInstance(w) \/ Crash(w)
       PROVE  Timely(v)'
  <2>1. CASE v = w
    BY <2>1, <1>10 DEF Escape, StopInstance, Crash, Forget, Timely
  <2>2. CASE v # w
    BY <2>2, <1>10, Untouched DEF Escape, StopInstance, Crash, Forget, queueVars
  <2> QED BY <2>1, <2>2
<1>11. CASE Tick
  <2>1. CASE Hold /\ beat[v] # 0
    <3>1. /\ jobs'[cur[v]] = AgedRow(jobs[cur[v]])
          /\ beat'[v] = beat[v] - 1
          /\ cur' = cur
      BY <1>11, <2>1, <1>0 DEF Tick, Less
    <3>2. /\ jobs[cur[v]].lease \in Nat
          /\ jobs'[cur[v]].lease = jobs[cur[v]].lease - 1
      BY <3>1, <2>1, <1>0, QueueAssumption DEF AgedRow, Less, JobRow
    <3>3. jobs[cur[v]].lease + HeartbeatPeriod >= LeaseTime + beat[v]
      BY <2>1 DEF TimelyOwner
    <3>4. Owns(v, cur[v])'
      BY <3>1, <2>1, <1>0 DEF Owns, AgedRow
    <3> QED BY <3>1, <3>2, <3>3, <3>4, QueueAssumption DEF Timely
  <2>2. CASE ~(Hold /\ beat[v] # 0)
    BY <2>2, <1>11 DEF Tick, Timely
  <2> QED BY <2>1, <2>2
<1>12. ASSUME NEW w \in Workers, Process(w)
       PROVE  Timely(v)'
  <2>1. ASSUME ClaimNothing(w) \/ LeaveLoop(w) \/ Signal(w) \/ MarkStopping(w)
                 \/ \E d \in Dispositions : HandlerReturns(w, d)
        PROVE  Timely(v)'
    BY <2>1, <1>1 DEF ClaimNothing, LeaveLoop, Signal, MarkStopping, HandlerReturns, queueVars
  <2> QED BY <1>12, <2>1, <1>4, <1>5, <1>6, <1>7, <1>8, <1>9, <1>10 DEF Process, Loop
<1>13. CASE Api
  <2>1. \A k \in Jobs : jobs[k].req \in Requests \cup {NoRequest}
    BY DEF JobRow
  <2> QED BY <1>13, <2>1, <1>2, <1>3 DEF Api, Enqueue, Retry
<1>14. CASE UNCHANGED vars
  BY <1>14, <1>1 DEF vars
<1> QED BY <1>11, <1>12, <1>13, <1>14 DEF Next

\* A process that keeps its heartbeats keeps its job, for every lease longer
\* than the heartbeat period.
THEOREM TimelyOwnerCorrect == Spec => []TimelyOwner
<1>1. Init => TimelyOwner
  BY DEF Init, TimelyOwner
<1>2. TypeOK /\ InJob /\ TimelyOwner /\ [Next]_vars => TimelyOwner'
  BY NextTimely
<1> QED BY <1>1, <1>2, TypeCorrect, PTL DEF Spec

\* Hence no two of them work on the same job, source, document or rebuild.
THEOREM TimelyExclusiveCorrect == Spec => []TimelyExclusive
<1>1. TypeOK /\ InJob /\ QueueInv /\ TimelyOwner => TimelyExclusive
  <2> SUFFICES ASSUME TypeOK, InJob, QueueInv, TimelyOwner,
                      NEW v \in Workers, NEW w \in Workers, v # w,
                      cur[v] # NoJob, cur[w] # NoJob, ~late[v], ~late[w]
               PROVE  cur[v] # cur[w] /\ ~Conflict(jobs[cur[v]].req, jobs[cur[w]].req)
    BY DEF TimelyExclusive
  <2>1. cur[v] \in Jobs /\ cur[w] \in Jobs /\ Owns(v, cur[v]) /\ Owns(w, cur[w])
    BY TimelyLease
  <2> QED BY <2>1 DEF Owns, QueueInv, OneActivePerTarget, Active
<1> QED BY <1>1, TypeCorrect, QueueCorrect, TimelyOwnerCorrect, PTL DEF QueueInv

=============================================================================
