------------------------- MODULE SearchIndexProofs -------------------------
(* Proofs about SearchIndex.                                               *)
EXTENDS SearchIndex, FiniteSetTheorems, TLAPS

-----------------------------------------------------------------------------
(* What holds of any number of indexers.                                   *)

Reindexing == {"load", "alias", "remove", "delete", "upsert", "stored", "forget"}
Filling == {"batch", "write", "written"}
Filled == {"count", "verified", "switch", "activate"}
Building == {"collection", "bare", "total", "resume"} \cup Filling \cup Filled
Rebuilding == {"prepare", "compensate"} \cup Building
Aiming == (Reindexing \ {"load"}) \cup (Rebuilding \ {"prepare"})
Cleaning == {"listing", "choosing", "dropping"}
Ending == {"failing", "finish"}

\* Every place belongs to a kind of job, and knows its target from there on.
Handles(place, m) ==
    /\ place \in Reindexing => m.job \in Docs
    /\ place \in Rebuilding => m.job = Full
    /\ place \in Cleaning => m.job = Clean
    /\ place \in Ending => m.job \in JobIds
    /\ place \notin Ending => m.code = "OK"
    /\ place = "prepare" => m.last = None
    /\ place \in {"write", "written"} => m.doc \in Docs /\ m.doc > m.last
    /\ place \in (Reindexing \ {"load"}) \cup {"write", "written"} => m.ver # 0

Handling == \A i \in Indexers : Handles(pc[i], mem[i])

Targeting ==
    \A i \in Indexers :
        pc[i] \in Aiming =>
            mem[i].target \in Versions /\ versions[mem[i].target].status # "ABSENT"

\* One version number for each write to the documents.
Numbered == \A d \in Docs : docs[d].ver <= 1 + spent.requests

\* An owned job is running; the payload and the checkpoint of the rebuild.
Payload ==
    /\ \A k \in JobIds : jobs[k].owner # NoIndexer => jobs[k].status = "RUNNING"
    /\ jobs[Full].version = None => jobs[Full].last = None
    /\ jobs[Full].version # None => versions[jobs[Full].version].status # "ABSENT"

\* A version that was not begun has no entries, and what the checkpoint leaves
\* to do has none in the version of the payload.
Unrecorded ==
    /\ \A v \in Versions : versions[v].status = "ABSENT" => Indexed(v) = {}
    /\ \A v \in Versions : v = jobs[Full].version =>
          \A d \in fresh[v] : d > jobs[Full].last => entries[v][d] = 0

\* The owner of the rebuild works on the version of the payload, from the
\* checkpoint on.
Tied ==
    \A i \in Indexers :
        pc[i] \in Building /\ Owner(i) =>
            mem[i].target = jobs[Full].version /\ mem[i].last = jobs[Full].last

\* The chunks counted so far are none of those that remain.
Ahead(S, d) == {e \in S : e > d}

Counted ==
    \A i \in Indexers :
        /\ pc[i] = "batch" /\ Owner(i) =>
              mem[i].done <= Cardinality(Docs \ Ahead(fresh[mem[i].target], mem[i].last))
        /\ pc[i] \in {"write", "written"} /\ Owner(i) =>
              mem[i].done + 1 <= Cardinality(Docs \ Ahead(fresh[mem[i].target], mem[i].doc))

-----------------------------------------------------------------------------
(* What holds of one indexer.                                              *)

OneAtATime == \A i, j \in Indexers : i = j

\* The collection that is being filled is there; a cleanup will not drop what
\* is served.
Serving ==
    \A i \in Indexers :
        /\ pc[i] \in (Building \ {"collection", "bare"}) => coll[mem[i].target] = "complete"
        /\ pc[i] \in {"activate", "compensate"} /\ mem[i].prev # None => coll[mem[i].prev] = "complete"
        /\ pc[i] = "choosing" => mem[i].prev = alias
        /\ pc[i] = "dropping" => alias \notin mem[i].drop /\ ActiveVersions \cap mem[i].drop = {}

\* Without a crash: who works owns its job, and the version of a rebuild that
\* is not over yet is not active.
Working ==
    spent.crashed \/
    /\ \A i \in Indexers : pc[i] # "idle" => Owner(i)
    /\ \A v \in Versions : v = jobs[Full].version /\ versions[v].status = "ACTIVE" =>
          \E i \in Indexers : pc[i] = "finish" /\ mem[i].job = Full /\ mem[i].code = "OK"

\* And unless a request that moves the alias went wrong: what the alias names
\* between the switch and its transaction or compensation.
Switching ==
    spent.crashed \/ spent.astray \/
    \A i \in Indexers : pc[i] \in {"activate", "compensate"} =>
        /\ alias = mem[i].target
        /\ ActiveVersions = IF mem[i].prev = None THEN {} ELSE {mem[i].prev}

OfDoc(S, d) == {p \in S : p[1] = d}

\* What a reindex has left of its document in the collection.
Reindexed ==
    \A i \in Indexers :
        /\ pc[i] \in {"upsert", "forget"} => OfDoc(points[mem[i].target], mem[i].job) = {}
        /\ pc[i] = "stored" =>
              OfDoc(points[mem[i].target], mem[i].job) = {<<mem[i].job, mem[i].ver>>}

Pending(v) == {d \in fresh[v] : Eligible(d)}

\* An entry of an eligible document that nobody touched is current, and so is
\* its point; what the checkpoint covers is recorded.
Recording ==
    \A v \in Versions : \A d \in Pending(v) :
        /\ entries[v][d] # 0 =>
              entries[v][d] = docs[d].ver
              /\ (v \notin spent.cleaned => <<d, docs[d].ver>> \in points[v])
        /\ v = jobs[Full].version /\ d <= jobs[Full].last => entries[v][d] # 0
        /\ versions[v].status # "ACTIVE"

\* The document in hand, and what is recorded at the end.
InHand ==
    \A i \in Indexers : \A v \in Versions : v = mem[i].target =>
        /\ pc[i] \in {"write", "written"} =>
              /\ \A e \in Pending(v) : e < mem[i].doc => e <= mem[i].last
              /\ \A e \in fresh[v] : e = mem[i].doc => Eligible(e) /\ docs[e].ver = mem[i].ver
        /\ pc[i] = "written" => <<mem[i].doc, mem[i].ver>> \in points[v]
        /\ pc[i] \in Filled => \A d \in Pending(v) : entries[v][d] # 0
        /\ pc[i] \in Reindexing \ {"load"} => Pending(v) = {}

-----------------------------------------------------------------------------
(* Types.                                                                  *)

\* The jobs of documents, the rebuild and the cleanup are different jobs.
LEMMA JobKinds ==
    /\ Docs \subseteq JobIds /\ Full \in JobIds /\ Clean \in JobIds
    /\ Full \notin Docs /\ Clean \notin Docs /\ Full # Clean
    /\ 0 \notin JobIds
    /\ None \notin Versions /\ None \notin Docs
    /\ DocCount \in Nat /\ Builds \in Nat /\ MaxAttempts \in Nat
    /\ RequestBudget \in Nat /\ FaultBudget \in Nat
BY IndexAssumption DEF JobIds, Docs, Full, Clean, None, Versions

\* New rows of jobs.
LEMMA NewRows ==
    /\ NoJob \in JobRows
    /\ \A version \in Versions \cup {None}, last \in Docs \cup {None} :
          NewJob(version, last) \in JobRows
    /\ NewJob(None, None) \in JobRows
<1>1. ASSUME NEW version \in Versions \cup {None}, NEW last \in Docs \cup {None}
      PROVE  NewJob(version, last) \in JobRows
  BY IndexAssumption DEF NewJob, JobRows, JobStates
<1>2. NewJob(None, None) \in JobRows
  BY <1>1
<1>3. NoJob \in JobRows
  BY <1>2 DEF NoJob, JobRows, JobStates
<1> QED
  BY <1>1, <1>2, <1>3

\* What the queue makes of a job.
LEMMA EndedRows ==
    ASSUME jobs \in [JobIds -> JobRows], NEW k \in JobIds
    PROVE  /\ \A status \in {"IDLE", "QUEUED", "ENDED"} : Released(k, status) \in JobRows
           /\ \A code : Outcome(k, code) \in JobRows
           /\ Recovered(k) \in JobRows
           /\ k \in Docs => Enqueued(k) \in JobRows
<1>1. jobs[k] \in JobRows
  OBVIOUS
<1>2. ASSUME NEW status \in {"QUEUED", "ENDED"}
      PROVE  Released(k, status) \in JobRows
  <2>1. PICK n \in 0 .. MaxAttempts : n = IF status = "ENDED" THEN 0 ELSE jobs[k].attempt
    BY <1>1, IndexAssumption DEF JobRows
  <2>2. Released(k, status) = [jobs[k] EXCEPT !.status = status, !.owner = NoIndexer,
                                              !.cancel = FALSE, !.attempt = n]
    BY <2>1 DEF Released
  <2> QED
    BY <1>1, <2>2 DEF JobRows, JobStates
<1>3. \A status \in {"IDLE", "QUEUED", "ENDED"} : Released(k, status) \in JobRows
  BY <1>2, NewRows DEF Released
<1> QED
  BY <1>3, NewRows DEF Outcome, Recovered, Enqueued

\* A set of documents has at most DocCount members.
LEMMA DocsCounted ==
    /\ IsFiniteSet(Docs) /\ Cardinality(Docs) = DocCount
    /\ \A S \in SUBSET Docs : IsFiniteSet(S) /\ Cardinality(S) \in 0 .. DocCount
<1>1. IsFiniteSet(Docs) /\ Cardinality(Docs) = DocCount
  BY FS_Interval, JobKinds, 1 \in Int, DocCount \in Int DEF Docs
<1>2. ASSUME NEW S \in SUBSET Docs
      PROVE  IsFiniteSet(S) /\ Cardinality(S) \in 0 .. DocCount
  <2>1. IsFiniteSet(S) /\ Cardinality(S) <= DocCount
    BY <1>1, FS_Subset
  <2>2. Cardinality(S) \in Nat
    BY <2>1, FS_CardinalityType
  <2> QED
    BY <2>1, <2>2, JobKinds
<1> QED
  BY <1>1, <1>2

\* A handler that gives up: an error is raised, or the job is lost.
Codes == {"OK", "RETRY", "FATAL", "CANCELLED"}

GivesUp(i) ==
    \/ /\ pc' = [pc EXCEPT ![i] = "failing"]
       /\ \E code \in Codes \ {"OK"} : mem' = [mem EXCEPT ![i].code = code]
    \/ /\ pc' = [pc EXCEPT ![i] = "idle"]
       /\ mem' = [mem EXCEPT ![i] = Nothing]

Strays == spent.faults < FaultBudget /\ spent' = [spent EXCEPT !.faults = @ + 1, !.astray = TRUE]

Spends == \/ spent' = spent \/ Strays
          \/ spent.faults < FaultBudget /\ spent' = [spent EXCEPT !.faults = @ + 1]

\* Nothing happened but that the handler gives up.
Fails(i) ==
    /\ pc[i] \in Asking \cup Querying
    /\ GivesUp(i) /\ Spends /\ (pc[i] = "compensate" => spent'.astray)
    /\ UNCHANGED <<dbVars, qdrantVars>>

\* Whoever gives up goes no further.
Stops(i) ==
    /\ pc[i] \in Asking \cup Querying /\ GivesUp(i)
    /\ pc'[i] \in {"idle", "failing"} /\ UNCHANGED dbVars

\* A handler that gives up at a place where an error is possible.
LEMMA GivingUp ==
    ASSUME IndexTypeOK, NEW i \in Indexers, NEW code \in Codes \ {"OK"}, GiveUp(i, code)
    PROVE  GivesUp(i) /\ pc'[i] \in {"idle", "failing"}
<1>1. mem[i] \in Memory /\ pc \in [Indexers -> Places]
  BY DEF IndexTypeOK
<1>2. [mem EXCEPT ![i] = [mem[i] EXCEPT !.code = code]] = [mem EXCEPT ![i].code = code]
  BY <1>1 DEF IndexTypeOK, Memory
<1> QED
  BY <1>1, <1>2 DEF GiveUp, GivesUp, Goto, Learn, Codes

\* What an error costs.
LEMMA Costs ==
    ASSUME IndexTypeOK, NEW stray \in BOOLEAN, NEW S \in SUBSET Versions, Faulty(stray, S)
    PROVE  /\ spent.faults < FaultBudget /\ spent' \in Spending
           /\ spent'.requests = spent.requests /\ spent'.crashed = spent.crashed
           /\ spent'.cleaned = spent.cleaned \cup S
           /\ spent'.astray = (spent.astray \/ stray)
           /\ S = {} => Spends
<1>1. spent \in Spending /\ FaultBudget \in Nat
  BY IndexAssumption DEF IndexTypeOK
<1>2. spent.faults + 1 \in 0 .. FaultBudget /\ spent.faults < FaultBudget
  BY <1>1 DEF Faulty, Spending
<1>3. spent' = [spent EXCEPT !.faults = spent.faults + 1, !.astray = spent.astray \/ stray,
                             !.cleaned = spent.cleaned \cup S]
  BY DEF Faulty
<1>4. /\ spent' \in Spending /\ spent'.requests = spent.requests /\ spent'.crashed = spent.crashed
      /\ spent'.cleaned = spent.cleaned \cup S /\ spent'.astray = (spent.astray \/ stray)
  BY <1>1, <1>2, <1>3, ZenonT(40) DEF Spending
<1>5. ASSUME S = {} PROVE Spends
  <2>1. spent.cleaned \cup S = spent.cleaned
    BY <1>5
  <2>2. spent' = [spent EXCEPT !.faults = spent.faults + 1, !.astray = spent.astray \/ stray]
    BY <1>1, <1>3, <2>1 DEF Spending
  <2>3. CASE spent.astray \/ stray
    <3>1. (spent.astray \/ stray) = TRUE
      BY <2>3
    <3> QED
      BY <1>2, <2>2, <3>1 DEF Spends, Strays
  <2>4. CASE ~(spent.astray \/ stray)
    <3>1. (spent.astray \/ stray) = spent.astray
      BY <1>1, <2>4 DEF Spending
    <3>2. spent' = [spent EXCEPT !.faults = spent.faults + 1]
      BY <1>1, <2>2, <3>1 DEF Spending
    <3> QED
      BY <1>2, <3>2 DEF Spends
  <2> QED
    BY <2>3, <2>4
<1> QED
  BY <1>2, <1>4, <1>5

\* The errors of the handlers.
LEMMA Failures ==
    ASSUME IndexTypeOK, NEW i \in Indexers
    PROVE  /\ \A code \in Codes \ {"OK"} :
                 pc[i] \in (Asking \cup Querying) \ {"compensate"} /\ Raise(i, code) => Fails(i)
           /\ Refused(i) => Fails(i)
           /\ Error(i) => Fails(i)
           /\ Fails(i) \/ Unanswered(i) => Stops(i)
<1>1. ASSUME NEW code \in Codes \ {"OK"}, Raise(i, code),
             pc[i] \in (Asking \cup Querying) \ {"compensate"}
      PROVE  Fails(i)
  BY <1>1, GivingUp DEF Raise, Fails, Spends
<1>2. ASSUME Error(i) PROVE Fails(i)
  <2>1. PICK code \in Causes(pc[i]) : GiveUp(i, code)
    BY <1>2 DEF Error
  <2>2. code \in Codes \ {"OK"}
    BY DEF Causes, Codes
  <2>3. Spends /\ (pc[i] = "compensate" => spent'.astray)
    <3>1. Faulty(pc[i] = "compensate", {}) /\ (pc[i] = "compensate") \in BOOLEAN
      BY <1>2 DEF Error
    <3> QED
      BY <3>1, Costs
  <2> QED
    BY <1>2, <2>1, <2>2, <2>3, GivingUp DEF Error, Fails
<1>3. ASSUME Refused(i) PROVE Fails(i)
  BY <1>1, <1>3 DEF Refused, Codes, Checking, Asking, Querying
<1>4. ASSUME Fails(i) PROVE Stops(i)
  BY <1>4 DEF Fails, Stops, GivesUp, IndexTypeOK
<1>5. ASSUME Unanswered(i) PROVE Stops(i)
  <2>1. PICK code \in Causes(pc[i]) : GiveUp(i, code)
    BY <1>5 DEF Unanswered
  <2>2. code \in Codes \ {"OK"}
    BY DEF Causes, Codes
  <2>3. pc[i] \in Asking
    BY <1>5 DEF Unanswered, CarriedOut, Deleting, Asking
  <2> QED
    BY <1>5, <2>1, <2>2, <2>3, GivingUp DEF Unanswered, Stops
<1> QED
  BY <1>1, <1>2, <1>3, <1>4, <1>5

\* Types hold in the initial states.
LEMMA InitTypes ==
    ASSUME Init
    PROVE  IndexTypeOK
<1>1. docs \in [Docs -> DocRows]
  BY JobKinds DEF Init, DocRows, MaxVersion, IndexStates
<1>2. jobs \in [JobIds -> JobRows]
  BY NewRows DEF Init
<1>3. versions \in [Versions -> VersionRow]
  BY DEF Init, VersionRow, BuildStates
<1>4. entries \in [Versions -> [Docs -> EntryRow]] /\ fresh \in [Versions -> SUBSET Docs]
  BY JobKinds DEF Init, EntryRow, MaxVersion
<1>5. /\ coll \in [Versions -> {"absent", "bare", "complete"}] /\ alias \in Versions \cup {None}
      /\ points \in [Versions -> SUBSET (Docs \X (1 .. MaxVersion))]
  BY DEF Init
<1>6. pc \in [Indexers -> Places]
  BY DEF Init, Places
<1>7. mem \in [Indexers -> Memory]
  BY JobKinds DEF Init, Memory, Nothing, MaxVersion, None
<1>8. spent \in Spending
  BY JobKinds DEF Init, Spending
<1> QED
  BY <1>1, <1>2, <1>3, <1>4, <1>5, <1>6, <1>7, <1>8 DEF IndexTypeOK

\* A request or a fault is spent within its budget.
LEMMA Spent ==
    ASSUME spent \in Spending
    PROVE  /\ Requested => spent' \in Spending /\ spent'.requests = spent.requests + 1
                            /\ spent'.crashed = spent.crashed /\ spent'.cleaned = spent.cleaned
                            /\ spent'.astray = spent.astray
           /\ Spends => spent' \in Spending /\ spent'.requests = spent.requests
                         /\ spent'.crashed = spent.crashed /\ spent'.cleaned = spent.cleaned
                         /\ (spent.astray => spent'.astray)
<1>1. ASSUME Requested
      PROVE  /\ spent' \in Spending /\ spent'.requests = spent.requests + 1
             /\ spent'.crashed = spent.crashed /\ spent'.cleaned = spent.cleaned
             /\ spent'.astray = spent.astray
  BY <1>1, IndexAssumption DEF Requested, Spending
<1>2. spent.faults < FaultBudget => spent.faults + 1 \in 0 .. FaultBudget
  BY IndexAssumption DEF Spending
<1>3. ASSUME Strays
      PROVE  /\ spent' \in Spending /\ spent'.requests = spent.requests
             /\ spent'.crashed = spent.crashed /\ spent'.cleaned = spent.cleaned
             /\ spent'.astray = TRUE
  BY <1>2, <1>3, ZenonT(40) DEF Strays, Spending
<1>4. ASSUME spent.faults < FaultBudget, spent' = [spent EXCEPT !.faults = @ + 1]
      PROVE  /\ spent' \in Spending /\ spent'.requests = spent.requests
             /\ spent'.crashed = spent.crashed /\ spent'.cleaned = spent.cleaned
             /\ spent'.astray = spent.astray
  BY <1>2, <1>4, ZenonT(40) DEF Spending
<1> QED
  BY <1>1, <1>3, <1>4 DEF Spends

\* A write to a document that gives it the next version number.
LEMMA NextVersion ==
    ASSUME IndexTypeOK, Numbered, NEW d \in Docs, spent.requests < RequestBudget
    PROVE  /\ docs[d] \in DocRows /\ docs[d].ver + 1 \in 1 .. MaxVersion
           /\ docs[d].ver + 1 \in EntryRow
           /\ docs[d].ver + 1 <= 1 + (spent.requests + 1)
BY IndexAssumption DEF IndexTypeOK, Numbered, DocRows, MaxVersion, EntryRow, Spending

\* A write to one document.
LEMMA DocWrites ==
    ASSUME IndexTypeOK, NEW d \in Docs, NEW row \in DocRows, docs' = [docs EXCEPT ![d] = row],
           NEW n \in Nat, \A e \in Docs : docs[e].ver <= n, row.ver <= n
    PROVE  docs' \in [Docs -> DocRows] /\ \A e \in Docs : docs'[e].ver <= n
BY DEF IndexTypeOK

\* Requests of the API and of the worker.
LEMMA ApiTypes ==
    ASSUME IndexTypeOK, Numbered, Api
    PROVE  IndexTypeOK' /\ Numbered'
<1> USE DEF IndexTypeOK
<1>1. CASE EnqueueFull
  <2>1. jobs' \in [JobIds -> JobRows]
    BY <1>1, NewRows, EndedRows, JobKinds DEF EnqueueFull, Abandoned
  <2>2. fresh' \in [Versions -> SUBSET Docs]
    BY <1>1 DEF EnqueueFull, Abandoned
  <2> QED
    BY <1>1, <2>1, <2>2 DEF EnqueueFull, qdrantVars, Numbered
<1>2. CASE EnqueueFullFromCli
  <2>1. jobs' \in [JobIds -> JobRows]
    BY <1>2, NewRows, ZenonT(40) DEF EnqueueFullFromCli, JobRows, JobStates
  <2>2. fresh' \in [Versions -> SUBSET Docs]
    BY <1>2 DEF EnqueueFullFromCli, Abandoned
  <2> QED
    BY <1>2, <2>1, <2>2 DEF EnqueueFullFromCli, qdrantVars, Numbered
<1>3. CASE EnqueueCleanup
  <2>1. jobs' \in [JobIds -> JobRows]
    BY <1>3, NewRows, EndedRows, JobKinds DEF EnqueueCleanup
  <2>2. spent' \in Spending
    BY <1>3, Spent DEF EnqueueCleanup
  <2>3. Numbered'
    BY <1>3, Spent, JobKinds DEF EnqueueCleanup, Spends, Numbered, DocRows, Requested, Spending
  <2> QED
    BY <1>3, <2>1, <2>2, <2>3 DEF EnqueueCleanup, qdrantVars
<1>4. ASSUME NEW k \in JobIds, CancelJob(k) PROVE IndexTypeOK' /\ Numbered'
  <2>1. jobs' \in [JobIds -> JobRows]
    <3>1. PICK status \in JobStates :
            jobs' = [jobs EXCEPT ![k] = [jobs[k] EXCEPT !.cancel = TRUE, !.status = status]]
      BY <1>4 DEF CancelJob, JobRows, JobStates
    <3> QED
      BY <3>1, ZenonT(40) DEF JobRows
  <2>2. spent' \in Spending
    BY <1>4, Spent DEF CancelJob, Spends
  <2>3. Numbered'
    BY <1>4, Spent, JobKinds DEF CancelJob, Spends, Numbered, DocRows, Requested, Spending
  <2> QED
    BY <1>4, <2>1, <2>2, <2>3 DEF CancelJob, qdrantVars
<1>5. ASSUME NEW k \in JobIds, RetryJob(k) PROVE IndexTypeOK' /\ Numbered'
  <2>1. jobs' \in [JobIds -> JobRows]
    BY <1>5, NewRows DEF RetryJob, JobRows
  <2>2. spent' \in Spending
    BY <1>5, Spent DEF RetryJob, Spends
  <2>3. Numbered'
    BY <1>5, Spent, JobKinds DEF RetryJob, Spends, Numbered, DocRows, Requested, Spending
  <2> QED
    BY <1>5, <2>1, <2>2, <2>3 DEF RetryJob, qdrantVars
<1>6. ASSUME NEW d \in Docs, NEW hidden \in BOOLEAN, EditorWrites(d, hidden)
      PROVE  IndexTypeOK' /\ Numbered'
  <2>1. docs' \in [Docs -> DocRows] /\ spent'.requests = spent.requests + 1
        /\ \A e \in Docs : docs'[e].ver <= 1 + (spent.requests + 1)
    <3>1. spent.requests \in Nat /\ spent.requests < RequestBudget /\ spent'.requests = spent.requests + 1
      BY <1>6, Spent DEF EditorWrites, Requested, Spending
    <3>2. \A e \in Docs : docs[e].ver <= 1 + (spent.requests + 1)
      BY <3>1 DEF Numbered, DocRows, MaxVersion
    <3> DEFINE row == [docs[d] EXCEPT !.ver = @ + 1, !.hidden = hidden, !.state = Outdated(@)]
    <3>3. docs[d] \in DocRows
      OBVIOUS
    <3>4. row \in DocRows /\ row.ver <= 1 + (spent.requests + 1)
      BY <3>1, <3>2, <3>3, NextVersion DEF DocRows, IndexStates, Outdated
    <3>5. docs' = [docs EXCEPT ![d] = row]
      BY <1>6, <3>3 DEF EditorWrites, DocRows
    <3> QED
      BY <3>1, <3>2, <3>4, <3>5, DocWrites
  <2>2. jobs' \in [JobIds -> JobRows]
    BY <1>6, NewRows, EndedRows, JobKinds DEF EditorWrites, Outdated, Touch
  <2>3. fresh' \in [Versions -> SUBSET Docs]
    BY <1>6 DEF EditorWrites, Outdated, Touch
  <2>4. spent' \in Spending
    BY <1>6, Spent DEF EditorWrites, Outdated, Touch
  <2>5. Numbered'
    BY <2>1, <2>4 DEF Numbered, Spending
  <2> QED
    BY <1>6, <2>1, <2>2, <2>3, <2>4, <2>5 DEF EditorWrites, qdrantVars
<1>7. ASSUME NEW d \in Docs, NEW duplicate \in BOOLEAN, IngestDocument(d, duplicate)
      PROVE  IndexTypeOK' /\ Numbered'
  <2>1. docs' \in [Docs -> DocRows] /\ spent'.requests = spent.requests + 1
        /\ \A e \in Docs : docs'[e].ver <= 1 + (spent.requests + 1)
    <3>1. spent.requests \in Nat /\ spent.requests < RequestBudget /\ spent'.requests = spent.requests + 1
      BY <1>7, Spent DEF IngestDocument, Requested, Spending
    <3>2. \A e \in Docs : docs[e].ver <= 1 + (spent.requests + 1)
      BY <3>1 DEF Numbered, DocRows, MaxVersion
    <3> DEFINE row == [docs[d] EXCEPT !.ver = @ + 1, !.chunk = docs[d].ver + 1, !.duplicate = duplicate,
                                   !.state = Outdated(@)]
    <3>3. docs[d] \in DocRows
      OBVIOUS
    <3>4. row \in DocRows /\ row.ver <= 1 + (spent.requests + 1)
      BY <3>1, <3>2, <3>3, NextVersion DEF DocRows, IndexStates, Outdated
    <3>5. docs' = [docs EXCEPT ![d] = row]
      BY <1>7, <3>3 DEF IngestDocument, DocRows
    <3> QED
      BY <3>1, <3>2, <3>4, <3>5, DocWrites
  <2>2. jobs' \in [JobIds -> JobRows]
    BY <1>7, NewRows, EndedRows, JobKinds DEF IngestDocument, Outdated, Touch
  <2>3. entries' \in [Versions -> [Docs -> EntryRow]]
    BY <1>7, JobKinds DEF IngestDocument, EntryRow, MaxVersion
  <2>4. fresh' \in [Versions -> SUBSET Docs]
    BY <1>7 DEF IngestDocument, Outdated, Touch
  <2>5. spent' \in Spending
    BY <1>7, Spent DEF IngestDocument, Outdated, Touch
  <2>6. Numbered'
    BY <2>1, <2>5 DEF Numbered, Spending
  <2> QED
    BY <1>7, <2>1, <2>2, <2>3, <2>4, <2>5, <2>6 DEF IngestDocument, qdrantVars
<1>8. ASSUME NEW d \in Docs, IngestUnchanged(d) PROVE IndexTypeOK' /\ Numbered'
  <2>1. docs' \in [Docs -> DocRows] /\ spent'.requests = spent.requests + 1
        /\ \A e \in Docs : docs'[e].ver <= 1 + (spent.requests + 1)
    <3>1. spent.requests \in Nat /\ spent.requests < RequestBudget /\ spent'.requests = spent.requests + 1
      BY <1>8, Spent DEF IngestUnchanged, Requested, Spending
    <3>2. \A e \in Docs : docs[e].ver <= 1 + (spent.requests + 1)
      BY <3>1 DEF Numbered, DocRows, MaxVersion
    <3>3. docs[d] \in DocRows /\ [docs[d] EXCEPT !.duplicate = FALSE] \in DocRows
      BY ZenonT(40) DEF DocRows
    <3>4. CASE UNCHANGED docs
      BY <3>1, <3>2, <3>4
    <3>5. CASE docs' = [docs EXCEPT ![d] = [docs[d] EXCEPT !.duplicate = FALSE]]
      BY <3>1, <3>2, <3>3, <3>5, DocWrites DEF DocRows
    <3> QED
      BY <1>8, <3>4, <3>5 DEF IngestUnchanged
  <2>2. fresh' \in [Versions -> SUBSET Docs]
    BY <1>8 DEF IngestUnchanged, Touch
  <2>3. spent' \in Spending
    BY <1>8, Spent DEF IngestUnchanged, Touch
  <2>4. Numbered'
    BY <2>1, <2>3 DEF Numbered, Spending
  <2> QED
    BY <1>8, <2>1, <2>2, <2>3, <2>4 DEF IngestUnchanged, qdrantVars
<1>9. ASSUME NEW d \in Docs, ReindexDocument(d) PROVE IndexTypeOK' /\ Numbered'
  <2>1. docs' \in [Docs -> DocRows] /\ spent'.requests = spent.requests + 1
        /\ \A e \in Docs : docs'[e].ver <= 1 + (spent.requests + 1)
    <3>1. spent.requests \in Nat /\ spent.requests < RequestBudget /\ spent'.requests = spent.requests + 1
      BY <1>9, Spent DEF ReindexDocument, Requested, Spending
    <3>2. \A e \in Docs : docs[e].ver <= 1 + (spent.requests + 1)
      BY <3>1 DEF Numbered, DocRows, MaxVersion
    <3> DEFINE row == [docs[d] EXCEPT !.state = "PENDING"]
    <3>3. docs[d] \in DocRows
      OBVIOUS
    <3>4. row \in DocRows /\ row.ver <= 1 + (spent.requests + 1)
      BY <3>1, <3>2, <3>3, NextVersion DEF DocRows, IndexStates
    <3>5. docs' = [docs EXCEPT ![d] = row]
      BY <1>9, <3>3 DEF ReindexDocument, DocRows
    <3> QED
      BY <3>1, <3>2, <3>4, <3>5, DocWrites
  <2>2. jobs' \in [JobIds -> JobRows]
    BY <1>9, NewRows, EndedRows, JobKinds DEF ReindexDocument, Touch
  <2>3. fresh' \in [Versions -> SUBSET Docs]
    BY <1>9 DEF ReindexDocument, Touch
  <2>4. spent' \in Spending
    BY <1>9, Spent DEF ReindexDocument, Touch
  <2>5. Numbered'
    BY <2>1, <2>4 DEF Numbered, Spending
  <2> QED
    BY <1>9, <2>1, <2>2, <2>3, <2>4, <2>5 DEF ReindexDocument, qdrantVars
<1>10. ASSUME NEW d \in Docs PROVE docs[d].hidden \in BOOLEAN
  BY DEF DocRows
<1> QED
  BY <1>1, <1>2, <1>3, <1>4, <1>5, <1>6, <1>7, <1>8, <1>9, <1>10 DEF Api, EditDocument, HideDocument, RestoreDocument

\* A handler that has read nothing yet, or has only a job.
LEMMA FirstMemory ==
    Nothing \in Memory /\ \A k \in JobIds : [Nothing EXCEPT !.job = k] \in Memory
BY JobKinds DEF Nothing, Memory, MaxVersion, None

\* A claim.
LEMMA ClaimTypes ==
    ASSUME IndexTypeOK, Numbered, NEW i \in Indexers, NEW k \in JobIds, Claim(i, k)
    PROVE  IndexTypeOK' /\ Numbered'
<1>1. mem' \in [Indexers -> Memory]
  BY FirstMemory DEF Claim, Learn, IndexTypeOK
<1>2. [jobs[k] EXCEPT !.status = "RUNNING", !.owner = i, !.attempt = @ + 1] \in JobRows
  BY JobKinds DEF Claim, IndexTypeOK, JobRows, JobStates
<1>3. jobs' \in [JobIds -> JobRows]
  BY <1>2 DEF Claim, IndexTypeOK
<1>4. pc' \in [Indexers -> Places]
  BY DEF Claim, Goto, IndexTypeOK, Places, Asking, Querying
<1> QED
  BY <1>1, <1>3, <1>4 DEF Claim, IndexTypeOK, Numbered, qdrantVars

\* A handler that gives up keeps the types of its own memory.
LEMMA StopTypes ==
    ASSUME IndexTypeOK, NEW i \in Indexers, Stops(i)
    PROVE  mem' \in [Indexers -> Memory] /\ pc' \in [Indexers -> Places]
<1>1. \A code \in Codes : [mem[i] EXCEPT !.code = code] \in Memory
  BY ZenonT(40) DEF IndexTypeOK, Memory, Codes
<1>2. mem' \in [Indexers -> Memory]
  BY <1>1, FirstMemory DEF Stops, GivesUp, IndexTypeOK
<1>3. pc' \in [Indexers -> Places]
  BY DEF Stops, GivesUp, IndexTypeOK, Places
<1> QED
  BY <1>2, <1>3

LEMMA FailTypes ==
    ASSUME IndexTypeOK, Numbered, NEW i \in Indexers, Fails(i)
    PROVE  IndexTypeOK' /\ Numbered'
<1>1. mem' \in [Indexers -> Memory] /\ pc' \in [Indexers -> Places]
  BY StopTypes, Failures
<1>2. spent' \in Spending /\ spent'.requests = spent.requests
  BY Spent DEF Fails, IndexTypeOK
<1> QED
  BY <1>1, <1>2 DEF Fails, IndexTypeOK, Numbered, dbVars, qdrantVars

\* What the steps that may fail do otherwise.
LEMMA Success ==
    ASSUME IndexTypeOK, NEW i \in Indexers, ~Fails(i)
    PROVE  /\ Load(i) =>
                /\ pc[i] = "load" /\ pc' = [pc EXCEPT ![i] = "alias"] /\ MayGoOn(i)
                /\ \E v \in ActiveVersions : mem' = [mem EXCEPT ![i] =
                      [mem[i] EXCEPT !.target = v, !.ver = docs[mem[i].job].ver,
                          !.chunk = IF Eligible(mem[i].job) THEN docs[mem[i].job].chunk ELSE 0]]
                /\ UNCHANGED <<dbVars, qdrantVars, spent>>
           /\ CheckAlias(i) =>
                /\ pc[i] = "alias" /\ alias = mem[i].target
                /\ pc' = [pc EXCEPT ![i] = IF mem[i].chunk = 0 THEN "remove" ELSE "delete"]
                /\ UNCHANGED <<dbVars, qdrantVars, mem, spent>>
           /\ DeletePoints(i) =>
                /\ \/ pc[i] = "remove" /\ pc' = [pc EXCEPT ![i] = "forget"]
                   \/ pc[i] = "delete" /\ pc' = [pc EXCEPT ![i] = "upsert"]
                /\ points' = [points EXCEPT ![mem[i].target] = {p \in @ : p[1] # mem[i].job}]
                /\ UNCHANGED <<dbVars, coll, alias, mem, spent>>
           /\ Upsert(i) =>
                /\ pc[i] = "upsert" /\ pc' = [pc EXCEPT ![i] = "stored"]
                /\ points' = [points EXCEPT ![mem[i].target] = @ \cup {<<mem[i].job, mem[i].ver>>}]
                /\ UNCHANGED <<dbVars, coll, alias, mem, spent>>
           /\ StoreEntry(i) =>
                /\ pc[i] = "stored" /\ pc' = [pc EXCEPT ![i] = "finish"]
                /\ MayGoOn(i) /\ Unchanged(i)
                /\ entries' = [entries EXCEPT ![mem[i].target][mem[i].job] = mem[i].ver]
                /\ \E n \in {0, 1} : versions' = [versions EXCEPT ![mem[i].target].count = Plus(@, n)]
                /\ docs' = [docs EXCEPT ![mem[i].job].state = "READY"]
                /\ Touch({mem[i].job})
                /\ UNCHANGED <<jobs, qdrantVars, mem, spent>>
           /\ UseCollection(i) =>
                /\ pc[i] = "collection" /\ pc' = [pc EXCEPT ![i] = "total"]
                /\ coll[mem[i].target] \notin {"absent", "bare"}
                /\ UNCHANGED <<dbVars, qdrantVars, mem, spent>>
           /\ WriteBatch(i) =>
                /\ pc[i] = "write" /\ pc' = [pc EXCEPT ![i] = "written"]
                /\ points' = [points EXCEPT ![mem[i].target] = @ \cup {<<mem[i].doc, mem[i].ver>>}]
                /\ UNCHANGED <<dbVars, coll, alias, mem, spent>>
           /\ RecordBatch(i) =>
                /\ pc[i] = "written" /\ pc' = [pc EXCEPT ![i] = "batch"] /\ MayGoOn(i)
                /\ entries' = [entries EXCEPT ![mem[i].target][mem[i].doc] = mem[i].ver]
                /\ jobs' = [jobs EXCEPT ![Full].last = mem[i].doc]
                /\ mem' = [mem EXCEPT ![i] = [mem[i] EXCEPT !.done = @ + 1, !.last = mem[i].doc,
                                                       !.doc = 0, !.ver = 0, !.chunk = 0]]
                /\ UNCHANGED <<docs, versions, fresh, qdrantVars, spent>>
           /\ Verify(i) =>
                /\ pc[i] = "count" /\ pc' = [pc EXCEPT ![i] = "verified"]
                /\ UNCHANGED <<dbVars, qdrantVars, mem, spent>>
           /\ SwitchAlias(i) =>
                /\ pc[i] = "switch" /\ pc' = [pc EXCEPT ![i] = "activate"]
                /\ alias' = mem[i].target
                /\ mem' = [mem EXCEPT ![i] = [@ EXCEPT !.prev = alias]]
                /\ UNCHANGED <<dbVars, coll, points, spent>>
<1> USE Failures DEF Asking, Querying, Codes, Goto, Learn
<1>1. mem[i] \in Memory
  BY DEF IndexTypeOK
<1>2. ASSUME Load(i)
      PROVE  /\ pc[i] = "load" /\ pc' = [pc EXCEPT ![i] = "alias"] /\ MayGoOn(i)
             /\ \E v \in ActiveVersions : mem' = [mem EXCEPT ![i] =
                   [mem[i] EXCEPT !.target = v, !.ver = docs[mem[i].job].ver,
                       !.chunk = IF Eligible(mem[i].job) THEN docs[mem[i].job].chunk ELSE 0]]
             /\ UNCHANGED <<dbVars, qdrantVars, spent>>
  BY <1>1, <1>2 DEF Load
<1>3. ASSUME CheckAlias(i)
      PROVE  /\ pc[i] = "alias" /\ alias = mem[i].target
             /\ pc' = [pc EXCEPT ![i] = IF mem[i].chunk = 0 THEN "remove" ELSE "delete"]
             /\ UNCHANGED <<dbVars, qdrantVars, mem, spent>>
  BY <1>1, <1>3 DEF CheckAlias
<1>4. ASSUME DeletePoints(i)
      PROVE  /\ \/ pc[i] = "remove" /\ pc' = [pc EXCEPT ![i] = "forget"]
                \/ pc[i] = "delete" /\ pc' = [pc EXCEPT ![i] = "upsert"]
             /\ points' = [points EXCEPT ![mem[i].target] = {p \in @ : p[1] # mem[i].job}]
             /\ UNCHANGED <<dbVars, coll, alias, mem, spent>>
  BY <1>1, <1>4 DEF DeletePoints, OnCollection, Deleting, Deletes
<1>5. ASSUME Upsert(i)
      PROVE  /\ pc[i] = "upsert" /\ pc' = [pc EXCEPT ![i] = "stored"]
             /\ points' = [points EXCEPT ![mem[i].target] = @ \cup {<<mem[i].job, mem[i].ver>>}]
             /\ UNCHANGED <<dbVars, coll, alias, mem, spent>>
  BY <1>1, <1>5 DEF Upsert, OnCollection, Writes
<1>6. ASSUME StoreEntry(i)
      PROVE  /\ pc[i] = "stored" /\ pc' = [pc EXCEPT ![i] = "finish"]
             /\ MayGoOn(i) /\ Unchanged(i)
             /\ entries' = [entries EXCEPT ![mem[i].target][mem[i].job] = mem[i].ver]
             /\ \E n \in {0, 1} : versions' = [versions EXCEPT ![mem[i].target].count = Plus(@, n)]
             /\ docs' = [docs EXCEPT ![mem[i].job].state = "READY"]
             /\ Touch({mem[i].job})
             /\ UNCHANGED <<jobs, qdrantVars, mem, spent>>
  BY <1>1, <1>6 DEF StoreEntry, Done
<1>7. ASSUME UseCollection(i)
      PROVE  /\ pc[i] = "collection" /\ pc' = [pc EXCEPT ![i] = "total"]
             /\ coll[mem[i].target] \notin {"absent", "bare"}
             /\ UNCHANGED <<dbVars, qdrantVars, mem, spent>>
  BY <1>1, <1>7 DEF UseCollection
<1>8. ASSUME WriteBatch(i)
      PROVE  /\ pc[i] = "write" /\ pc' = [pc EXCEPT ![i] = "written"]
             /\ points' = [points EXCEPT ![mem[i].target] = @ \cup {<<mem[i].doc, mem[i].ver>>}]
             /\ UNCHANGED <<dbVars, coll, alias, mem, spent>>
  BY <1>1, <1>8 DEF WriteBatch, OnCollection, Writes
<1>9. ASSUME RecordBatch(i)
      PROVE  /\ pc[i] = "written" /\ pc' = [pc EXCEPT ![i] = "batch"] /\ MayGoOn(i)
             /\ entries' = [entries EXCEPT ![mem[i].target][mem[i].doc] = mem[i].ver]
             /\ jobs' = [jobs EXCEPT ![Full].last = mem[i].doc]
             /\ mem' = [mem EXCEPT ![i] = [mem[i] EXCEPT !.done = @ + 1, !.last = mem[i].doc,
                                                    !.doc = 0, !.ver = 0, !.chunk = 0]]
             /\ UNCHANGED <<docs, versions, fresh, qdrantVars, spent>>
  BY <1>1, <1>9 DEF RecordBatch
<1>10. ASSUME Verify(i)
      PROVE  /\ pc[i] = "count" /\ pc' = [pc EXCEPT ![i] = "verified"]
             /\ UNCHANGED <<dbVars, qdrantVars, mem, spent>>
  BY <1>1, <1>10 DEF Verify
<1>11. ASSUME SwitchAlias(i)
      PROVE  /\ pc[i] = "switch" /\ pc' = [pc EXCEPT ![i] = "activate"]
             /\ alias' = mem[i].target
             /\ mem' = [mem EXCEPT ![i] = [@ EXCEPT !.prev = alias]]
             /\ UNCHANGED <<dbVars, coll, points, spent>>
  BY <1>1, <1>11 DEF SwitchAlias, OnCollection, Names
<1> QED
  BY <1>2, <1>3, <1>4, <1>5, <1>6, <1>7, <1>8, <1>9, <1>10, <1>11

\* A count plus one, or minus one but never below zero.
LEMMA PlusType == \A count \in Nat, n \in {-1, 0, 1} : Plus(count, n) \in Nat
BY DEF Plus

\* What the handlers write to their memory keeps its type.
LEMMA MemoryTypes ==
    ASSUME NEW m \in Memory
    PROVE  /\ \A v \in Versions \cup {None} :
                 [m EXCEPT !.target = v] \in Memory /\ [m EXCEPT !.prev = v] \in Memory
           /\ \A d \in Docs \cup {0} :
                 [m EXCEPT !.last = d] \in Memory /\ [m EXCEPT !.doc = d] \in Memory
           /\ \A n \in 0 .. DocCount :
                 [m EXCEPT !.total = n] \in Memory /\ [m EXCEPT !.done = n] \in Memory
           /\ \A n \in 0 .. MaxVersion :
                 [m EXCEPT !.ver = n] \in Memory /\ [m EXCEPT !.chunk = n] \in Memory
           /\ \A S \in SUBSET Versions : [m EXCEPT !.drop = S] \in Memory
           /\ \A code \in Codes : [m EXCEPT !.code = code] \in Memory
<1>1. ASSUME NEW v \in Versions \cup {None}
      PROVE  [m EXCEPT !.target = v] \in Memory /\ [m EXCEPT !.prev = v] \in Memory
  BY DEF Memory, None, Codes
<1>2. ASSUME NEW d \in Docs \cup {0}
      PROVE  [m EXCEPT !.last = d] \in Memory /\ [m EXCEPT !.doc = d] \in Memory
  BY DEF Memory, None, Codes
<1>3. ASSUME NEW n \in 0 .. DocCount
      PROVE  [m EXCEPT !.total = n] \in Memory /\ [m EXCEPT !.done = n] \in Memory
  BY DEF Memory, None, Codes
<1>4. ASSUME NEW n \in 0 .. MaxVersion
      PROVE  [m EXCEPT !.ver = n] \in Memory /\ [m EXCEPT !.chunk = n] \in Memory
  BY DEF Memory, None, Codes
<1>5. ASSUME NEW S \in SUBSET Versions
      PROVE  [m EXCEPT !.drop = S] \in Memory
  BY DEF Memory, None, Codes
<1>6. ASSUME NEW code \in Codes
      PROVE  [m EXCEPT !.code = code] \in Memory
  BY DEF Memory, None, Codes
<1> QED
  BY <1>1, <1>2, <1>3, <1>4, <1>5, <1>6

\* Where a handler is, its job, its target and its document are of the right kind.
LEMMA Kinds ==
    ASSUME IndexTypeOK, Handling, Targeting, NEW i \in Indexers
    PROVE  /\ mem[i] \in Memory
           /\ pc[i] \in Reindexing => mem[i].job \in Docs
           /\ pc[i] \in Rebuilding => mem[i].job = Full
           /\ pc[i] \in (Reindexing \ {"load"}) \cup (Rebuilding \ {"prepare"}) =>
                 mem[i].target \in Versions
           /\ pc[i] \in {"write", "written"} => mem[i].doc \in Docs
           /\ pc[i] # "idle" => mem[i].job \in JobIds
           /\ mem[i].ver \in 0 .. MaxVersion /\ mem[i].chunk \in 0 .. MaxVersion
           /\ mem[i].prev \in Versions \cup {None} /\ mem[i].drop \in SUBSET Versions
           /\ mem[i].target \in Versions \cup {None} /\ mem[i].last \in Docs \cup {None}
           /\ mem[i].done \in Nat /\ mem[i].total \in Nat
<1>1. mem[i] \in Memory /\ pc[i] \in Places
  BY DEF IndexTypeOK
<1>2. pc[i] # "idle" => pc[i] \in Reindexing \cup Rebuilding \cup Cleaning \cup Ending
  BY <1>1 DEF Places, Asking, Querying, Reindexing, Rebuilding, Building, Filling, Filled,
              Cleaning, Ending
<1>3. pc[i] # "idle" => mem[i].job \in JobIds
  BY <1>2, JobKinds DEF Handling, Handles
<1> QED
  BY <1>1, <1>3, JobKinds DEF Handling, Handles, Targeting, Aiming, Memory

\* A row of a document has versions of the right size.
LEMMA DocFields ==
    ASSUME IndexTypeOK, NEW d \in Docs
    PROVE  /\ docs[d] \in DocRows
           /\ docs[d].ver \in 0 .. MaxVersion /\ docs[d].chunk \in 0 .. MaxVersion
           /\ docs[d].ver # 0
BY DEF IndexTypeOK, DocRows

\* The memory of the handlers keeps its type.
LEMMA MemoryKept ==
    ASSUME IndexTypeOK, Handling, Targeting, Counted, NEW i \in Indexers,
           Handler(i) \/ Crash(i) \/ LoseLease(i), ~Fails(i)
    PROVE  mem' \in [Indexers -> Memory]
<1> DEFINE m == mem[i]
<1>1. m \in Memory /\ mem \in [Indexers -> Memory]
  BY DEF IndexTypeOK
<1>2. SUFFICES mem' = mem \/ \E n \in Memory : mem' = [mem EXCEPT ![i] = n]
  BY <1>1
<1>3. CASE Load(i)
  <2>1. PICK v \in Versions : mem' = [mem EXCEPT ![i] =
               [m EXCEPT !.target = v, !.ver = docs[m.job].ver,
                         !.chunk = IF Eligible(m.job) THEN docs[m.job].chunk ELSE 0]]
    BY <1>3, Success DEF ActiveVersions
  <2>2. m.job \in Docs
    BY <1>3, Kinds, Success DEF Reindexing
  <2>3. PICK chunk \in 0 .. MaxVersion : chunk = IF Eligible(m.job) THEN docs[m.job].chunk ELSE 0
    BY <2>2, DocFields, JobKinds DEF MaxVersion
  <2>4. [m EXCEPT !.target = v] \in Memory
    BY <1>1, MemoryTypes
  <2>5. [[m EXCEPT !.target = v] EXCEPT !.ver = docs[m.job].ver] \in Memory
    BY <2>2, <2>4, DocFields, MemoryTypes
  <2>6. [[[m EXCEPT !.target = v] EXCEPT !.ver = docs[m.job].ver] EXCEPT !.chunk = chunk] \in Memory
    BY <2>5, MemoryTypes
  <2> QED
    BY <2>1, <2>3, <2>6
<1>4. CASE Prepare(i)
  <2>1. CASE jobs[Full].version = None
    <3>1. PICK v \in Versions : mem' = [mem EXCEPT ![i] = [m EXCEPT !.target = v]]
      BY <1>4, <2>1 DEF Prepare, Learn
    <3> QED
      BY <1>1, <3>1, MemoryTypes
  <2>2. CASE jobs[Full].version # None
    <3>1. mem' = [mem EXCEPT ![i] = [m EXCEPT !.target = jobs[Full].version, !.last = LastChunk]]
      BY <1>4, <2>2 DEF Prepare, Learn
    <3>2. jobs[Full].version \in Versions \cup {None} /\ LastChunk \in Docs \cup {0}
      BY JobKinds DEF IndexTypeOK, JobRows, LastChunk, None
    <3>3. [m EXCEPT !.target = jobs[Full].version] \in Memory
      BY <1>1, <3>2, MemoryTypes
    <3>4. [[m EXCEPT !.target = jobs[Full].version] EXCEPT !.last = LastChunk] \in Memory
      BY <3>2, <3>3, MemoryTypes
    <3> QED
      BY <3>1, <3>4
  <2> QED
    BY <2>1, <2>2
<1>5. CASE CountEligible(i)
  <2>1. {d \in fresh[m.target] : Eligible(d)} \in SUBSET Docs
    BY <1>5, Kinds DEF CountEligible, IndexTypeOK, Rebuilding, Building
  <2>2. EligibleCount(m.target) \in 0 .. DocCount
    BY <2>1, DocsCounted DEF EligibleCount
  <2> QED
    BY <1>1, <1>5, <2>2, MemoryTypes DEF CountEligible, Learn
<1>6. CASE CountEntries(i)
  <2>1. Cardinality(Indexed(m.target)) \in 0 .. DocCount
    BY DocsCounted DEF Indexed
  <2> QED
    BY <1>1, <1>6, <2>1, MemoryTypes DEF CountEntries, Learn
<1>7. CASE LoadBatch(i)
  <2>1. CASE mem' = mem
    BY <2>1
  <2>2. ASSUME NEW d \in Docs,
               mem' = [mem EXCEPT ![i] = [m EXCEPT !.doc = d, !.ver = docs[d].ver,
                                                   !.chunk = docs[d].chunk]]
        PROVE  \E n \in Memory : mem' = [mem EXCEPT ![i] = n]
    <3>1. [m EXCEPT !.doc = d] \in Memory
      BY <1>1, MemoryTypes
    <3>2. [[m EXCEPT !.doc = d] EXCEPT !.ver = docs[d].ver] \in Memory
      BY <3>1, DocFields, MemoryTypes
    <3>3. [[[m EXCEPT !.doc = d] EXCEPT !.ver = docs[d].ver] EXCEPT !.chunk = docs[d].chunk] \in Memory
      BY <3>2, DocFields, MemoryTypes
    <3> QED
      BY <2>2, <3>3
  <2>3. Remaining(i) \subseteq Docs
    BY <1>7, Kinds DEF LoadBatch, Remaining, IndexTypeOK, Rebuilding, Building, Filling
  <2> QED
    BY <1>7, <2>1, <2>2, <2>3 DEF LoadBatch, Learn
<1>8. CASE RecordBatch(i)
  <2>1. /\ pc[i] = "written" /\ MayGoOn(i)
        /\ mem' = [mem EXCEPT ![i] = [m EXCEPT !.done = @ + 1, !.last = m.doc,
                                               !.doc = 0, !.ver = 0, !.chunk = 0]]
    BY <1>8, Success
  <2>2. m.doc \in Docs
    BY <2>1, Kinds
  <2>3. m.done + 1 \in 0 .. DocCount
    <3>1. m.done + 1 <= Cardinality(Docs \ Ahead(fresh[m.target], m.doc))
      BY <2>1 DEF Counted, MayGoOn
    <3>2. Cardinality(Docs \ Ahead(fresh[m.target], m.doc)) \in 0 .. DocCount
      BY DocsCounted
    <3> QED
      BY <3>1, <3>2, Kinds, JobKinds
  <2> DEFINE n1 == [m EXCEPT !.done = m.done + 1]
             n2 == [n1 EXCEPT !.last = m.doc]
             n3 == [n2 EXCEPT !.doc = 0]
             n4 == [n3 EXCEPT !.ver = 0]
             n5 == [n4 EXCEPT !.chunk = 0]
  <2>4. n1 \in Memory
    BY <1>1, <2>3, MemoryTypes
  <2>5. n2 \in Memory
    BY <2>2, <2>4, MemoryTypes
  <2>6. n3 \in Memory
    BY <2>5, MemoryTypes
  <2>10. 0 \in 0 .. MaxVersion
    BY JobKinds DEF MaxVersion
  <2>7. n4 \in Memory
    BY <2>6, <2>10, MemoryTypes
  <2>8. n5 \in Memory
    BY <2>7, <2>10, MemoryTypes
  <2>9. mem' = [mem EXCEPT ![i] = n5]
    BY <1>1, <2>1 DEF Memory
  <2> QED
    BY <2>8, <2>9
<1>9. CASE SwitchAlias(i)
  <2>1. alias \in Versions \cup {None}
    BY DEF IndexTypeOK
  <2> QED
    BY <1>1, <1>9, <2>1, Success, MemoryTypes
<1>10. CASE Compensate(i)
  BY <1>1, <1>10, FirstMemory, MemoryTypes DEF Compensate, GiveUp, Names, Learn, Codes
<1>11. CASE ListCollections(i)
  <2>1. [m EXCEPT !.prev = alias] \in Memory
    BY <1>1, MemoryTypes DEF IndexTypeOK
  <2>2. [[m EXCEPT !.prev = alias] EXCEPT !.drop = {v \in Versions : coll[v] # "absent"}] \in Memory
    BY <2>1, MemoryTypes
  <2> QED
    BY <1>11, <2>2 DEF ListCollections, Learn
<1>12. CASE ChooseCollections(i)
  <2>1. PICK recent : mem' = [mem EXCEPT ![i] = [m EXCEPT !.drop = @ \ Protected(i, recent)]]
    BY <1>12 DEF ChooseCollections, Learn
  <2>2. m.drop \ Protected(i, recent) \in SUBSET Versions
    BY Kinds
  <2>3. [m EXCEPT !.drop = m.drop \ Protected(i, recent)] \in Memory
    BY <1>1, <2>2, MemoryTypes
  <2> QED
    BY <2>1, <2>3
<1>13. CASE DropCollection(i)
  <2>1. CASE mem' = mem
    BY <2>1
  <2>2. ASSUME NEW v, mem' = [mem EXCEPT ![i] = [m EXCEPT !.drop = @ \ {v}]]
        PROVE  \E n \in Memory : mem' = [mem EXCEPT ![i] = n]
    <3>1. m.drop \ {v} \in SUBSET Versions
      BY Kinds
    <3>2. [m EXCEPT !.drop = m.drop \ {v}] \in Memory
      BY <1>1, <3>1, MemoryTypes
    <3> QED
      BY <2>2, <3>2
  <2> QED
    BY <1>13, <2>1, <2>2 DEF DropCollection, Drops, NextDropped, Learn
<1>14. CASE Finish(i) \/ Crash(i)
  BY <1>14, FirstMemory DEF Finish, Crash, Learn
<1>15. CASE CheckAlias(i) \/ DeletePoints(i) \/ Upsert(i) \/ StoreEntry(i) \/ UseCollection(i)
            \/ WriteBatch(i) \/ Verify(i)
  BY <1>15, Success
<1>16. CASE ForgetEntry(i) \/ CreateCollection(i) \/ CreateIndexes(i) \/ MarkReady(i)
            \/ Activate(i) \/ ActivationFails(i) \/ MarkFailure(i) \/ LoseLease(i)
  BY <1>16 DEF ForgetEntry, CreateCollection, Makes, CreateIndexes, MarkReady, Activate,
               ActivationFails, MarkFailure, LoseLease
<1> QED
  BY <1>3, <1>4, <1>5, <1>6, <1>7, <1>8, <1>9, <1>10, <1>11, <1>12, <1>13, <1>14, <1>15, <1>16,
     Failures DEF Handler, Reindex, Rebuild, Cleanup

\* A write to the row of a version, to the state of a document or to an entry.
LEMMA RowWrites ==
    ASSUME IndexTypeOK
    PROVE  /\ \A v \in Versions, status \in BuildStates :
                 /\ [versions EXCEPT ![v].status = status] \in [Versions -> VersionRow]
                 /\ \A n \in Nat : [versions EXCEPT ![v] = [status |-> status, count |-> n]]
                                   \in [Versions -> VersionRow]
           /\ \A v \in Versions, n \in {-1, 0, 1} :
                 [versions EXCEPT ![v].count = Plus(@, n)] \in [Versions -> VersionRow]
           /\ \A d \in Docs, state \in IndexStates :
                 [docs EXCEPT ![d].state = state] \in [Docs -> DocRows]
           /\ \A v \in Versions, d \in Docs, n \in 0 .. MaxVersion :
                 [entries EXCEPT ![v][d] = n] \in [Versions -> [Docs -> EntryRow]]
<1>1. ASSUME NEW v \in Versions, NEW status \in BuildStates
      PROVE  /\ [versions EXCEPT ![v].status = status] \in [Versions -> VersionRow]
             /\ \A n \in Nat : [versions EXCEPT ![v] = [status |-> status, count |-> n]]
                               \in [Versions -> VersionRow]
  BY DEF IndexTypeOK, VersionRow
<1>2. ASSUME NEW v \in Versions, NEW n \in {-1, 0, 1}
      PROVE  [versions EXCEPT ![v].count = Plus(@, n)] \in [Versions -> VersionRow]
  <2>1. versions[v] \in VersionRow /\ versions[v].count \in Nat
    BY DEF IndexTypeOK, VersionRow
  <2>2. [versions[v] EXCEPT !.count = Plus(versions[v].count, n)] \in VersionRow
    BY <2>1, PlusType DEF VersionRow
  <2> QED
    BY <2>2 DEF IndexTypeOK
<1>3. ASSUME NEW d \in Docs, NEW state \in IndexStates
      PROVE  [docs EXCEPT ![d].state = state] \in [Docs -> DocRows]
  BY DEF IndexTypeOK, DocRows
<1>4. ASSUME NEW v \in Versions, NEW d \in Docs, NEW n \in 0 .. MaxVersion
      PROVE  [entries EXCEPT ![v][d] = n] \in [Versions -> [Docs -> EntryRow]]
  BY DEF IndexTypeOK, EntryRow
<1> QED
  BY <1>1, <1>2, <1>3, <1>4

\* Which steps of a handler write what.
LEMMA Writers ==
    ASSUME IndexTypeOK, NEW i \in Indexers, Handler(i) \/ Crash(i) \/ LoseLease(i), ~Fails(i)
    PROVE  /\ docs' = docs \/ ForgetEntry(i) \/ StoreEntry(i) \/ Activate(i) \/ MarkFailure(i)
           /\ \/ jobs' = jobs \/ Prepare(i) \/ RecordBatch(i) \/ Finish(i) \/ Crash(i)
              \/ LoseLease(i)
           /\ \/ versions' = versions \/ ForgetEntry(i) \/ StoreEntry(i) \/ Prepare(i)
              \/ MarkReady(i) \/ Activate(i) \/ MarkFailure(i)
           /\ entries' = entries \/ ForgetEntry(i) \/ StoreEntry(i) \/ RecordBatch(i)
           /\ \/ fresh' = fresh \/ ForgetEntry(i) \/ StoreEntry(i) \/ Prepare(i)
              \/ Activate(i) \/ MarkFailure(i) \/ Finish(i)
           /\ coll' = coll \/ CreateCollection(i) \/ CreateIndexes(i) \/ DropCollection(i)
           /\ \/ points' = points \/ DeletePoints(i) \/ Upsert(i) \/ WriteBatch(i)
              \/ DropCollection(i)
           /\ alias' = alias \/ SwitchAlias(i) \/ Compensate(i) \/ DropCollection(i)
           /\ \/ spent' = spent \/ ActivationFails(i) \/ DropCollection(i) \/ Crash(i)
              \/ LoseLease(i)
<1> USE DEF dbVars, qdrantVars
<1>1. CASE Load(i) \/ CheckAlias(i) \/ UseCollection(i) \/ Verify(i)
  BY <1>1, Success
<1>2. CASE DeletePoints(i) \/ Upsert(i) \/ WriteBatch(i)
  BY <1>2, Success
<1>3. CASE StoreEntry(i) \/ RecordBatch(i) \/ SwitchAlias(i)
  BY <1>3, Success
<1>4. CASE ForgetEntry(i)
  BY <1>4 DEF ForgetEntry
<1>5. CASE Prepare(i)
  BY <1>5 DEF Prepare
<1>6. CASE CreateCollection(i) \/ CreateIndexes(i)
  BY <1>6 DEF CreateCollection, Makes, CreateIndexes
<1>7. CASE CountEligible(i) \/ CountEntries(i) \/ LoadBatch(i)
  BY <1>7 DEF CountEligible, CountEntries, LoadBatch
<1>8. CASE MarkReady(i)
  BY <1>8 DEF MarkReady
<1>9. CASE Activate(i)
  BY <1>9 DEF Activate
<1>10. CASE ActivationFails(i)
  BY <1>10 DEF ActivationFails
<1>11. CASE Compensate(i)
  BY <1>11 DEF Compensate, GiveUp, Names
<1>12. CASE ListCollections(i) \/ ChooseCollections(i)
  BY <1>12 DEF ListCollections, ChooseCollections
<1>13. CASE DropCollection(i)
  BY <1>13 DEF DropCollection, Drops, NextDropped
<1>14. CASE MarkFailure(i)
  BY <1>14 DEF MarkFailure
<1>15. CASE Finish(i)
  BY <1>15 DEF Finish
<1>16. CASE Crash(i) \/ LoseLease(i)
  BY <1>16 DEF Crash, LoseLease
<1>17. ~Refused(i)
  BY Failures
<1> QED
  BY <1>1, <1>2, <1>3, <1>4, <1>5, <1>6, <1>7, <1>8, <1>9, <1>10, <1>11, <1>12, <1>13, <1>14,
     <1>15, <1>16, <1>17 DEF Handler, Reindex, Rebuild, Cleanup

\* Where a step of a handler leads.
LEMMA Moves ==
    ASSUME IndexTypeOK, NEW i \in Indexers, Handler(i) \/ Crash(i) \/ LoseLease(i), ~Fails(i)
    PROVE  pc' = pc \/ \E place \in Places : pc' = [pc EXCEPT ![i] = place]
<1> USE DEF Places, Asking, Querying, Goto, Done
<1>1. CASE Load(i) \/ CheckAlias(i) \/ UseCollection(i) \/ Verify(i) \/ DeletePoints(i)
           \/ Upsert(i)
  BY <1>1, Success
<1>2. CASE WriteBatch(i) \/ StoreEntry(i) \/ RecordBatch(i) \/ SwitchAlias(i)
  BY <1>2, Success
<1>3. CASE ForgetEntry(i) \/ Prepare(i) \/ CreateCollection(i) \/ CreateIndexes(i)
  BY <1>3 DEF ForgetEntry, Prepare, CreateCollection, Makes, CreateIndexes
<1>4. CASE CountEligible(i) \/ CountEntries(i) \/ LoadBatch(i) \/ MarkReady(i) \/ Activate(i)
  BY <1>4 DEF CountEligible, CountEntries, LoadBatch, MarkReady, Activate
<1>5. CASE ActivationFails(i) \/ Compensate(i) \/ ListCollections(i) \/ ChooseCollections(i)
  BY <1>5 DEF ActivationFails, Compensate, GiveUp, Names, ListCollections, ChooseCollections
<1>6. CASE DropCollection(i) \/ MarkFailure(i) \/ Finish(i) \/ Crash(i) \/ LoseLease(i)
  BY <1>6 DEF DropCollection, Drops, NextDropped, MarkFailure, Finish, Crash, LoseLease
<1>7. ~Refused(i)
  BY Failures
<1> QED
  BY <1>1, <1>2, <1>3, <1>4, <1>5, <1>6, <1>7 DEF Handler, Reindex, Rebuild, Cleanup

\* An answer that is lost: the handler gives up, and its request is carried out.
LEMMA Unheard ==
    ASSUME IndexTypeOK, Handling, Targeting, NEW i \in Indexers, Unanswered(i)
    PROVE  /\ Stops(i) /\ CarriedOut(i) /\ spent' \in Spending
           /\ spent'.requests = spent.requests /\ spent'.crashed = spent.crashed
           /\ spent.astray => spent'.astray
           /\ pc[i] = "switch" => spent'.astray
           /\ spent.cleaned \subseteq spent'.cleaned
           /\ pc[i] = "dropping" => spent'.cleaned = spent.cleaned \cup NextDropped(i)
           /\ pc[i] # "dropping" => spent'.cleaned = spent.cleaned
<1> DEFINE S == IF pc[i] = "dropping" THEN NextDropped(i) ELSE {}
           stray == pc[i] = "switch"
<1>1. S \in SUBSET Versions /\ stray \in BOOLEAN
  BY Kinds DEF NextDropped
<1>2. Faulty(stray, S)
  BY DEF Unanswered
<1>3. Stops(i) /\ CarriedOut(i)
  BY Failures DEF Unanswered
<1> HIDE DEF S, stray
<1>4. /\ spent' \in Spending /\ spent'.requests = spent.requests /\ spent'.crashed = spent.crashed
      /\ spent'.cleaned = spent.cleaned \cup S /\ spent'.astray = (spent.astray \/ stray)
  BY <1>1, <1>2, Costs
<1> QED
  BY <1>3, <1>4 DEF S, stray

\* What Qdrant does with such a request.
LEMMA Answers ==
    ASSUME IndexTypeOK, NEW i \in Indexers, CarriedOut(i)
    PROVE  \/ /\ pc[i] \in {"remove", "delete"}
              /\ points' = [points EXCEPT ![mem[i].target] = {p \in @ : p[1] # mem[i].job}]
              /\ UNCHANGED <<coll, alias>>
           \/ /\ pc[i] = "upsert"
              /\ points' = [points EXCEPT ![mem[i].target] = @ \cup {<<mem[i].job, mem[i].ver>>}]
              /\ UNCHANGED <<coll, alias>>
           \/ /\ pc[i] = "write"
              /\ points' = [points EXCEPT ![mem[i].target] = @ \cup {<<mem[i].doc, mem[i].ver>>}]
              /\ UNCHANGED <<coll, alias>>
           \/ /\ pc[i] \in {"collection", "bare"} /\ coll[mem[i].target] # "complete"
              /\ \E to \in {"bare", "complete"} : coll' = [coll EXCEPT ![mem[i].target] = to]
              /\ UNCHANGED <<points, alias>>
           \/ /\ pc[i] = "switch" /\ coll[mem[i].target] # "absent" /\ alias' = mem[i].target
              /\ UNCHANGED <<coll, points>>
           \/ /\ pc[i] = "compensate" /\ alias' = mem[i].prev /\ UNCHANGED <<coll, points>>
           \/ /\ pc[i] = "dropping"
              /\ \E w \in NextDropped(i) : /\ w \in mem[i].drop
                                           /\ coll' = [coll EXCEPT ![w] = "absent"]
                                           /\ points' = [points EXCEPT ![w] = {}]
                                           /\ alias' = IF alias = w THEN None ELSE alias
<1>1. CASE Deleting(i) /\ Deletes(mem[i].target, mem[i].job)
  BY <1>1 DEF Deleting, Deletes
<1>2. CASE pc[i] = "upsert" /\ Writes(mem[i].target, <<mem[i].job, mem[i].ver>>)
  BY <1>2 DEF Writes
<1>3. CASE pc[i] = "write" /\ Writes(mem[i].target, <<mem[i].doc, mem[i].ver>>)
  BY <1>3 DEF Writes
<1>4. CASE \/ pc[i] = "collection" /\ Makes(mem[i].target, "absent", "bare")
           \/ pc[i] = "bare" /\ Makes(mem[i].target, "bare", "complete")
  BY <1>4 DEF Makes
<1>5. CASE pc[i] = "switch" /\ coll[mem[i].target] # "absent" /\ Names(mem[i].target)
  BY <1>5 DEF Names
<1>6. CASE pc[i] = "compensate" /\ Names(Restored(i))
  BY <1>6 DEF Names, Restored
<1>7. CASE pc[i] = "dropping" /\ \E w \in NextDropped(i) : Drops(w)
  BY <1>7 DEF NextDropped, Drops
<1> QED
  BY <1>1, <1>2, <1>3, <1>4, <1>5, <1>6, <1>7 DEF CarriedOut

\* The types of Qdrant when a request is carried out.
LEMMA UnheardTypes ==
    ASSUME IndexTypeOK, Numbered, Handling, Targeting, NEW i \in Indexers, Unanswered(i)
    PROVE  IndexTypeOK' /\ Numbered'
<1>1. Stops(i) /\ CarriedOut(i) /\ spent' \in Spending /\ spent'.requests = spent.requests
  BY Unheard
<1>2. mem' \in [Indexers -> Memory] /\ pc' \in [Indexers -> Places]
  BY <1>1, StopTypes
<1>3. /\ coll \in [Versions -> {"absent", "bare", "complete"}]
      /\ points \in [Versions -> SUBSET (Docs \X (1 .. MaxVersion))]
      /\ alias \in Versions \cup {None}
  BY DEF IndexTypeOK
<1>4. coll' \in [Versions -> {"absent", "bare", "complete"}]
  BY <1>1, <1>3, Answers
<1>5. alias' \in Versions \cup {None}
  <2>1. \/ alias' = alias \/ alias' = None \/ alias' = mem[i].prev
        \/ pc[i] = "switch" /\ alias' = mem[i].target
    BY <1>1, Answers
  <2> QED
    BY <1>3, <2>1, Kinds
<1>6. points' \in [Versions -> SUBSET (Docs \X (1 .. MaxVersion))]
  <2>1. \/ points' = points
        \/ points' = [points EXCEPT ![mem[i].target] = {p \in @ : p[1] # mem[i].job}]
        \/ \E w : points' = [points EXCEPT ![w] = {}]
        \/ /\ pc[i] = "upsert"
           /\ points' = [points EXCEPT ![mem[i].target] = @ \cup {<<mem[i].job, mem[i].ver>>}]
        \/ /\ pc[i] = "write"
           /\ points' = [points EXCEPT ![mem[i].target] = @ \cup {<<mem[i].doc, mem[i].ver>>}]
    BY <1>1, Answers
  <2>2. ASSUME NEW p \in Docs \X (1 .. MaxVersion), NEW w,
               points' = [points EXCEPT ![w] = @ \cup {p}]
        PROVE  points' \in [Versions -> SUBSET (Docs \X (1 .. MaxVersion))]
    BY <1>3, <2>2
  <2>3. pc[i] \in {"upsert", "write"} => mem[i].ver \in 1 .. MaxVersion
    BY Kinds DEF Handling, Handles, Reindexing
  <2>4. CASE pc[i] = "upsert"
             /\ points' = [points EXCEPT ![mem[i].target] = @ \cup {<<mem[i].job, mem[i].ver>>}]
    <3>1. <<mem[i].job, mem[i].ver>> \in Docs \X (1 .. MaxVersion)
      BY <2>3, <2>4, Kinds DEF Reindexing
    <3> QED
      BY <2>2, <2>4, <3>1
  <2>5. CASE pc[i] = "write"
             /\ points' = [points EXCEPT ![mem[i].target] = @ \cup {<<mem[i].doc, mem[i].ver>>}]
    <3>1. <<mem[i].doc, mem[i].ver>> \in Docs \X (1 .. MaxVersion)
      BY <2>3, <2>5, Kinds
    <3> QED
      BY <2>2, <2>5, <3>1
  <2>6. CASE \/ points' = points
             \/ points' = [points EXCEPT ![mem[i].target] = {p \in @ : p[1] # mem[i].job}]
             \/ \E w : points' = [points EXCEPT ![w] = {}]
    BY <1>3, <2>6
  <2> QED
    BY <2>1, <2>4, <2>5, <2>6
<1> QED
  BY <1>1, <1>2, <1>4, <1>5, <1>6 DEF Stops, IndexTypeOK, Numbered, dbVars

\* Steps of the handlers.
LEMMA HandlerTypes ==
    ASSUME IndexTypeOK, Numbered, Handling, Targeting, Counted, NEW i \in Indexers,
           Handler(i) \/ Error(i) \/ Unanswered(i) \/ Crash(i) \/ LoseLease(i)
    PROVE  IndexTypeOK' /\ Numbered'
<1>1. CASE Fails(i) \/ Unanswered(i)
  BY <1>1, FailTypes, UnheardTypes
<1>2. SUFFICES ASSUME ~Fails(i), ~Unanswered(i) PROVE IndexTypeOK' /\ Numbered'
  BY <1>1
<1>3. Handler(i) \/ Crash(i) \/ LoseLease(i)
  BY <1>2, Failures
<1>4. mem' \in [Indexers -> Memory]
  BY <1>2, <1>3, MemoryKept
<1>5. pc' \in [Indexers -> Places]
  BY <1>2, <1>3, Moves DEF IndexTypeOK
<1>6. docs' \in [Docs -> DocRows] /\ \A d \in Docs : docs'[d].ver = docs[d].ver
  <2>1. docs \in [Docs -> DocRows]
    BY DEF IndexTypeOK
  <2>2. \A d \in Docs, state \in IndexStates :
            /\ [docs EXCEPT ![d].state = state] \in [Docs -> DocRows]
            /\ \A e \in Docs : [docs EXCEPT ![d].state = state][e].ver = docs[e].ver
    BY <2>1 DEF DocRows
  <2>3. CASE ForgetEntry(i)
    <3>1. mem[i].job \in Docs
      BY <2>3, Kinds DEF ForgetEntry, Reindexing
    <3> QED
      BY <2>2, <2>3, <3>1 DEF ForgetEntry, IndexStates
  <2>4. CASE StoreEntry(i)
    <3>1. mem[i].job \in Docs /\ docs' = [docs EXCEPT ![mem[i].job].state = "READY"]
      BY <1>2, <2>4, Success, Kinds DEF Reindexing
    <3> QED
      BY <2>2, <3>1 DEF IndexStates
  <2>5. CASE Activate(i)
    <3>1. \A d \in Docs : [docs[d] EXCEPT !.state = "READY"] \in DocRows
      BY <2>1 DEF DocRows, IndexStates
    <3>2. docs' = [d \in Docs |-> IF d \in Indexed(mem[i].target)
                                  THEN [docs[d] EXCEPT !.state = "READY"] ELSE docs[d]]
      BY <2>5 DEF Activate
    <3> QED
      BY <2>1, <3>1, <3>2 DEF DocRows
  <2>6. CASE MarkFailure(i)
    <3>1. docs' = docs \/ \E state \in IndexStates, d \in Docs : docs' = [docs EXCEPT ![d].state = state]
      BY <2>6 DEF MarkFailure, IndexStates
    <3>2. CASE docs' = docs
      BY <2>1, <3>2
    <3>3. ASSUME NEW state \in IndexStates, NEW d \in Docs, docs' = [docs EXCEPT ![d].state = state]
          PROVE  docs' \in [Docs -> DocRows] /\ \A e \in Docs : docs'[e].ver = docs[e].ver
      BY <2>2, <3>3
    <3> QED
      BY <3>1, <3>2, <3>3
  <2> QED
    BY <1>2, <1>3, <2>1, <2>3, <2>4, <2>5, <2>6, Writers
<1>7. jobs' \in [JobIds -> JobRows]
  <2>1. jobs \in [JobIds -> JobRows]
    BY DEF IndexTypeOK
  <2>2. CASE Prepare(i)
    <3>1. \A v \in Versions : [jobs[Full] EXCEPT !.version = v] \in JobRows
      BY <2>1, JobKinds DEF JobRows
    <3> QED
      BY <2>1, <2>2, <3>1, JobKinds DEF Prepare
  <2>3. CASE RecordBatch(i)
    <3>1. mem[i].doc \in Docs /\ jobs' = [jobs EXCEPT ![Full].last = mem[i].doc]
      BY <1>2, <2>3, Success, Kinds
    <3>2. [jobs[Full] EXCEPT !.last = mem[i].doc] \in JobRows
      BY <2>1, <3>1, JobKinds DEF JobRows
    <3> QED
      BY <2>1, <3>1, <3>2
  <2>4. CASE Finish(i)
    <3>1. mem[i].job \in JobIds
      BY <2>4, Kinds DEF Finish
    <3> QED
      BY <2>1, <2>4, <3>1, EndedRows DEF Finish
  <2>5. CASE Crash(i)
    <3>1. mem[i].job \in JobIds
      BY <2>5, Kinds DEF Crash
    <3> QED
      BY <2>1, <2>5, <3>1, EndedRows DEF Crash
  <2>6. CASE LoseLease(i)
    <3>1. mem[i].job \in JobIds
      BY <2>6, Kinds DEF LoseLease
    <3> QED
      BY <2>1, <2>6, <3>1, EndedRows DEF LoseLease
  <2> QED
    BY <1>2, <1>3, <2>1, <2>2, <2>3, <2>4, <2>5, <2>6, Writers
<1>8. versions' \in [Versions -> VersionRow]
  <2>1. versions \in [Versions -> VersionRow]
    BY DEF IndexTypeOK
  <2>2. CASE ForgetEntry(i)
    <3>1. mem[i].target \in Versions
      BY <2>2, Kinds DEF ForgetEntry, Reindexing
    <3>2. PICK n \in {-1, 0} : versions' = [versions EXCEPT ![mem[i].target].count = Plus(@, n)]
      BY <2>2 DEF ForgetEntry
    <3>3. n \in {-1, 0, 1}
      OBVIOUS
    <3> QED
      BY <3>1, <3>2, <3>3, RowWrites
  <2>3. CASE StoreEntry(i)
    <3>1. mem[i].target \in Versions
      BY <1>2, <2>3, Success, Kinds DEF Reindexing
    <3>2. PICK n \in {0, 1} : versions' = [versions EXCEPT ![mem[i].target].count = Plus(@, n)]
      BY <1>2, <2>3, Success
    <3>3. n \in {-1, 0, 1}
      OBVIOUS
    <3> QED
      BY <3>1, <3>2, <3>3, RowWrites
  <2>4. CASE Prepare(i)
    <3>1. \/ versions' = versions
          \/ \E v \in Versions : versions' = [versions EXCEPT ![v].status = "BUILDING"]
      BY <2>4 DEF Prepare
    <3>2. "BUILDING" \in BuildStates
      BY DEF BuildStates
    <3> QED
      BY <2>1, <3>1, <3>2, RowWrites
  <2>5. CASE MarkReady(i)
    <3>1. mem[i].target \in Versions /\ mem[i].total \in Nat
      BY <2>5, Kinds DEF MarkReady, Rebuilding, Building, Filled
    <3> QED
      BY <2>5, <3>1, RowWrites DEF MarkReady, BuildStates
  <2>6. CASE Activate(i)
    <3>1. \A w \in Versions : [versions[w] EXCEPT !.status = "ACTIVE"] \in VersionRow
                             /\ [versions[w] EXCEPT !.status = "RETIRED"] \in VersionRow
      BY <2>1 DEF VersionRow, BuildStates
    <3> QED
      BY <2>1, <2>6, <3>1 DEF Activate, ActivatedRows
  <2>7. CASE MarkFailure(i)
    <3>1. jobs[Full].version \in Versions \cup {None}
      BY JobKinds DEF IndexTypeOK, JobRows
    <3>2. \/ versions' = versions
          \/ \E v \in Versions : versions' = [versions EXCEPT ![v].status = "FAILED"]
      BY <2>7, <3>1 DEF MarkFailure
    <3>3. "FAILED" \in BuildStates
      BY DEF BuildStates
    <3> QED
      BY <2>1, <3>2, <3>3, RowWrites
  <2> QED
    BY <1>2, <1>3, <2>1, <2>2, <2>3, <2>4, <2>5, <2>6, <2>7, Writers
<1>9. entries' \in [Versions -> [Docs -> EntryRow]]
  <2>1. CASE ForgetEntry(i)
    <3>1. mem[i].target \in Versions /\ mem[i].job \in Docs /\ 0 \in 0 .. MaxVersion
      BY <2>1, Kinds, JobKinds DEF ForgetEntry, Reindexing, MaxVersion
    <3> QED
      BY <2>1, <3>1, RowWrites DEF ForgetEntry
  <2>2. CASE StoreEntry(i)
    <3>1. mem[i].target \in Versions /\ mem[i].job \in Docs /\ mem[i].ver \in 0 .. MaxVersion
      BY <1>2, <2>2, Success, Kinds DEF Reindexing
    <3>2. entries' = [entries EXCEPT ![mem[i].target][mem[i].job] = mem[i].ver]
      BY <1>2, <2>2, Success
    <3> QED
      BY <3>1, <3>2, RowWrites
  <2>3. CASE RecordBatch(i)
    <3>1. pc[i] = "written" /\ entries' = [entries EXCEPT ![mem[i].target][mem[i].doc] = mem[i].ver]
      BY <1>2, <2>3, Success
    <3>2. mem[i].target \in Versions /\ mem[i].doc \in Docs /\ mem[i].ver \in 0 .. MaxVersion
      BY <3>1, Kinds DEF Rebuilding, Building, Filling
    <3> QED
      BY <3>1, <3>2, RowWrites
  <2> QED
    BY <1>2, <1>3, <2>1, <2>2, <2>3, Writers DEF IndexTypeOK
<1>10. fresh' \in [Versions -> SUBSET Docs]
  <2>1. fresh \in [Versions -> SUBSET Docs] /\ Abandoned \in [Versions -> SUBSET Docs]
    BY DEF IndexTypeOK, Abandoned
  <2>2. \A ds : Touch(ds) => fresh' \in [Versions -> SUBSET Docs]
    BY <2>1 DEF Touch
  <2>3. CASE ForgetEntry(i)
    BY <2>2, <2>3 DEF ForgetEntry
  <2>4. CASE StoreEntry(i)
    BY <1>2, <2>2, <2>4, Success
  <2>5. CASE Prepare(i)
    BY <2>1, <2>5 DEF Prepare
  <2>6. CASE Activate(i)
    BY <2>2, <2>6 DEF Activate
  <2>7. CASE MarkFailure(i)
    BY <2>1, <2>2, <2>7 DEF MarkFailure
  <2>8. CASE Finish(i)
    BY <2>1, <2>8 DEF Finish
  <2> QED
    BY <1>2, <1>3, <2>1, <2>3, <2>4, <2>5, <2>6, <2>7, <2>8, Writers
<1>11. coll' \in [Versions -> {"absent", "bare", "complete"}]
  BY <1>2, <1>3, Writers DEF IndexTypeOK, CreateCollection, Makes, CreateIndexes, DropCollection, Drops, NextDropped, qdrantVars
<1>12. points' \in [Versions -> SUBSET (Docs \X (1 .. MaxVersion))]
  <2>1. points \in [Versions -> SUBSET (Docs \X (1 .. MaxVersion))]
    BY DEF IndexTypeOK
  <2>2. CASE DeletePoints(i)
    <3>1. points' = [points EXCEPT ![mem[i].target] = {p \in @ : p[1] # mem[i].job}]
      BY <1>2, <2>2, Success
    <3> QED
      BY <2>1, <3>1
  <2>3. CASE Upsert(i)
    <3>1. pc[i] = "upsert"
          /\ points' = [points EXCEPT ![mem[i].target] = @ \cup {<<mem[i].job, mem[i].ver>>}]
      BY <1>2, <2>3, Success
    <3>2. mem[i].job \in Docs /\ mem[i].ver \in 1 .. MaxVersion
      BY <3>1, Kinds DEF Handling, Handles, Reindexing
    <3>3. <<mem[i].job, mem[i].ver>> \in Docs \X (1 .. MaxVersion)
      BY <3>2
    <3> DEFINE p == <<mem[i].job, mem[i].ver>>
    <3> HIDE DEF p
    <3> QED
      BY <2>1, <3>1, <3>3 DEF p
  <2>4. CASE WriteBatch(i)
    <3>1. pc[i] = "write"
          /\ points' = [points EXCEPT ![mem[i].target] = @ \cup {<<mem[i].doc, mem[i].ver>>}]
      BY <1>2, <2>4, Success
    <3>2. mem[i].doc \in Docs /\ mem[i].ver \in 1 .. MaxVersion
      BY <3>1, Kinds DEF Handling, Handles
    <3>3. <<mem[i].doc, mem[i].ver>> \in Docs \X (1 .. MaxVersion)
      BY <3>2
    <3> DEFINE p == <<mem[i].doc, mem[i].ver>>
    <3> HIDE DEF p
    <3> QED
      BY <2>1, <3>1, <3>3 DEF p
  <2>5. CASE DropCollection(i)
    BY <2>1, <2>5 DEF DropCollection, Drops, NextDropped, qdrantVars
  <2> QED
    BY <1>2, <1>3, <2>1, <2>2, <2>3, <2>4, <2>5, Writers
<1>13. alias' \in Versions \cup {None}
  <2>1. CASE SwitchAlias(i)
    BY <1>2, <2>1, Success, Kinds
  <2>2. CASE Compensate(i)
    BY <2>2, Kinds DEF Compensate, GiveUp, Names, Restored
  <2>3. CASE DropCollection(i)
    BY <2>3 DEF DropCollection, Drops, NextDropped, IndexTypeOK, qdrantVars
  <2> QED
    BY <1>2, <1>3, <2>1, <2>2, <2>3, Writers DEF IndexTypeOK
<1>14. spent' \in Spending /\ spent'.requests = spent.requests
  <2>1. spent \in Spending
    BY DEF IndexTypeOK
  <2>2. CASE ActivationFails(i)
    BY <2>1, <2>2, Spent DEF ActivationFails, Spends
  <2>3. CASE DropCollection(i)
    <3>1. spent' = spent \/ \E v \in mem[i].drop : spent' = [spent EXCEPT !.cleaned = @ \cup {v}]
      BY <2>3 DEF DropCollection, Drops, NextDropped
    <3>2. mem[i].drop \in SUBSET Versions
      BY Kinds
    <3> QED
      BY <2>1, <3>1, <3>2 DEF Spending
  <2>4. CASE Crash(i) \/ LoseLease(i)
    <3>1. spent.faults < FaultBudget /\ spent' = [spent EXCEPT !.faults = @ + 1, !.crashed = TRUE]
      BY <2>4 DEF Crash, LoseLease
    <3>2. spent.faults + 1 \in 0 .. FaultBudget
      BY <2>1, <3>1, JobKinds DEF Spending
    <3> QED
      BY <2>1, <3>1, <3>2 DEF Spending
  <2> QED
    BY <1>2, <1>3, <2>1, <2>2, <2>3, <2>4, Writers
<1>15. Numbered'
  BY <1>6, <1>14 DEF Numbered
<1> QED
  BY <1>4, <1>5, <1>6, <1>7, <1>8, <1>9, <1>10, <1>11, <1>12, <1>13, <1>14, <1>15 DEF IndexTypeOK

-----------------------------------------------------------------------------
(* What the steps leave as it was.                                         *)

\* A job that is still owned keeps owner and payload; the payload goes only as
\* a whole, with a new job.
Kept(k, row) ==
    /\ row.owner # NoIndexer =>
          /\ row.owner = jobs[k].owner /\ row.status = "RUNNING"
          /\ row.version = jobs[k].version /\ row.last = jobs[k].last
    /\ \/ row.version = jobs[k].version /\ row.last = jobs[k].last
       \/ row.version = None /\ row.last = None

JobsKept == \A k \in JobIds : Kept(k, jobs'[k])

\* A document that still counts as untouched is as it was, and so is its entry.
FreshKept ==
    \A v \in Versions : \A d \in fresh'[v] :
        /\ d \in fresh[v] /\ entries'[v][d] = entries[v][d]
        /\ docs'[d].ver = docs[d].ver
        /\ docs'[d].hidden = docs[d].hidden /\ docs'[d].duplicate = docs[d].duplicate

\* A version is begun once, and has entries only after that.
BegunKept ==
    \A v \in Versions :
        /\ versions'[v].status = "ABSENT" <=> versions[v].status = "ABSENT"
        /\ versions[v].status = "ABSENT" => Indexed(v)' \subseteq Indexed(v)

Keeps == JobsKept /\ FreshKept /\ BegunKept

\* Rows that keep what they should.
LEMMA KeptRows ==
    ASSUME IndexTypeOK, Payload, NEW k \in JobIds
    PROVE  /\ Kept(k, jobs[k]) /\ Kept(k, NewJob(None, None))
           /\ Kept(k, NewJob(jobs[k].version, jobs[k].last))
           /\ \A status \in {"IDLE", "QUEUED", "ENDED"} : Kept(k, Released(k, status))
           /\ \A code : Kept(k, Outcome(k, code))
           /\ Kept(k, Recovered(k))
           /\ Kept(k, Enqueued(k))
<1>1. jobs[k] \in JobRows
  BY DEF IndexTypeOK
<1>2. Kept(k, jobs[k]) /\ Kept(k, NewJob(None, None))
  BY DEF Kept, NewJob, Payload
<1>3. Kept(k, NewJob(jobs[k].version, jobs[k].last))
  BY DEF Kept, NewJob
<1>4. Kept(k, NoJob)
  BY DEF Kept, NoJob, NewJob
<1>5. ASSUME NEW status \in {"QUEUED", "ENDED"}
      PROVE  Kept(k, Released(k, status))
  BY <1>1, <1>5 DEF Kept, Released, JobRows
<1>6. \A status \in {"IDLE", "QUEUED", "ENDED"} : Kept(k, Released(k, status))
  BY <1>4, <1>5 DEF Released
<1> QED
  BY <1>2, <1>3, <1>6 DEF Outcome, Recovered, Enqueued

\* What the API and the worker do to jobs and documents.
LEMMA ApiKeeps ==
    ASSUME IndexTypeOK, Payload, Api
    PROVE  Keeps /\ UNCHANGED <<versions, qdrantVars, pc, mem>>
<1> DEFINE Goal == Keeps /\ UNCHANGED <<versions, qdrantVars, pc, mem>>
<1>1. jobs \in [JobIds -> JobRows] /\ fresh \in [Versions -> SUBSET Docs]
      /\ entries \in [Versions -> [Docs -> EntryRow]] /\ docs \in [Docs -> DocRows]
  BY DEF IndexTypeOK
<1>2. /\ \A k \in JobIds : Kept(k, jobs[k]) /\ Kept(k, NewJob(None, None))
      /\ \A k \in JobIds : Kept(k, NewJob(jobs[k].version, jobs[k].last))
      /\ \A d \in Docs : Kept(d, Enqueued(d))
  BY KeptRows, JobKinds
<1>3. ASSUME UNCHANGED <<docs, entries>>, \A v \in Versions : fresh'[v] \subseteq fresh[v]
      PROVE  FreshKept
  BY <1>3 DEF FreshKept
<1>4. ASSUME UNCHANGED <<versions, entries>>
      PROVE  BegunKept
  BY <1>4 DEF BegunKept, Indexed
<1>5. Abandoned \in [Versions -> SUBSET Docs] /\ \A v \in Versions : Abandoned[v] \subseteq fresh[v]
  BY DEF Abandoned
<1>6. CASE EnqueueFull
  <2>1. JobsKept
    BY <1>1, <1>2, <1>6 DEF EnqueueFull, JobsKept
  <2>2. UNCHANGED <<docs, entries, versions, qdrantVars, pc, mem>> /\ fresh' = Abandoned
    BY <1>6 DEF EnqueueFull
  <2> QED
    BY <1>3, <1>4, <1>5, <2>1, <2>2 DEF Keeps
<1>7. CASE EnqueueFullFromCli
  <2>1. ASSUME NEW k \in Docs, jobs[k].status = "QUEUED"
        PROVE  Kept(k, [jobs[k] EXCEPT !.status = "ENDED"])
    BY <1>1, <2>1, JobKinds DEF Kept, Payload, JobRows
  <2>2. JobsKept
    BY <1>1, <1>2, <1>7, <2>1 DEF EnqueueFullFromCli, JobsKept
  <2>3. UNCHANGED <<docs, entries, versions, qdrantVars, pc, mem>> /\ fresh' = Abandoned
    BY <1>7 DEF EnqueueFullFromCli
  <2> QED
    BY <1>3, <1>4, <1>5, <2>2, <2>3 DEF Keeps
<1>8. CASE EnqueueCleanup
  <2>1. JobsKept
    BY <1>1, <1>2, <1>8 DEF EnqueueCleanup, JobsKept
  <2> QED
    BY <1>3, <1>4, <1>8, <2>1 DEF EnqueueCleanup, Keeps
<1>9. ASSUME NEW k \in JobIds, CancelJob(k) PROVE Goal
  <2>1. PICK status : /\ status = IF jobs[k].status = "QUEUED" THEN "ENDED" ELSE jobs[k].status
                      /\ jobs' = [jobs EXCEPT ![k] = [jobs[k] EXCEPT !.cancel = TRUE, !.status = status]]
    BY <1>1, <1>9 DEF CancelJob, JobRows
  <2>2. Kept(k, [jobs[k] EXCEPT !.cancel = TRUE, !.status = status])
    BY <1>1, <2>1 DEF Kept, Payload, JobRows
  <2>3. JobsKept
    BY <1>1, <1>2, <2>1, <2>2 DEF JobsKept
  <2> QED
    BY <1>3, <1>4, <1>9, <2>3 DEF CancelJob, Keeps
<1>10. ASSUME NEW k \in JobIds, RetryJob(k) PROVE Goal
  <2>1. JobsKept
    BY <1>1, <1>2, <1>10 DEF RetryJob, JobsKept
  <2> QED
    BY <1>3, <1>4, <1>10, <2>1 DEF RetryJob, Keeps
<1>11. ASSUME NEW d \in Docs, NEW hidden, EditorWrites(d, hidden) PROVE Goal
  <2>1. JobsKept
    BY <1>1, <1>2, <1>11 DEF EditorWrites, JobsKept
  <2>2. FreshKept
    BY <1>1, <1>11 DEF EditorWrites, Touch, FreshKept
  <2> QED
    BY <1>4, <1>11, <2>1, <2>2 DEF EditorWrites, Keeps
<1>12. ASSUME NEW d \in Docs, NEW duplicate, IngestDocument(d, duplicate) PROVE Goal
  <2>1. JobsKept
    BY <1>1, <1>2, <1>12 DEF IngestDocument, JobsKept
  <2>2. FreshKept
    <3>1. \A v \in Versions : fresh'[v] = fresh[v] \ {d}
      BY <1>12 DEF IngestDocument, Touch
    <3>2. \A e \in Docs \ {d} : docs'[e] = docs[e] /\ \A v \in Versions : entries'[v][e] = entries[v][e]
      BY <1>1, <1>12 DEF IngestDocument
    <3> QED
      BY <1>1, <3>1, <3>2 DEF FreshKept
  <2>3. BegunKept
    BY <1>1, <1>12 DEF IngestDocument, BegunKept, Indexed
  <2> QED
    BY <1>12, <2>1, <2>2, <2>3 DEF IngestDocument, Keeps
<1>13. ASSUME NEW d \in Docs, IngestUnchanged(d) PROVE Goal
  <2>1. JobsKept
    BY <1>1, <1>2, <1>13 DEF IngestUnchanged, JobsKept
  <2>2. FreshKept
    BY <1>1, <1>13 DEF IngestUnchanged, Touch, FreshKept
  <2> QED
    BY <1>4, <1>13, <2>1, <2>2 DEF IngestUnchanged, Keeps
<1>14. ASSUME NEW d \in Docs, ReindexDocument(d) PROVE Goal
  <2>1. JobsKept
    BY <1>1, <1>2, <1>14 DEF ReindexDocument, JobsKept
  <2>2. FreshKept
    BY <1>1, <1>14 DEF ReindexDocument, Touch, FreshKept
  <2> QED
    BY <1>4, <1>14, <2>1, <2>2 DEF ReindexDocument, Keeps
<1> QED
  BY <1>6, <1>7, <1>8, <1>9, <1>10, <1>11, <1>12, <1>13, <1>14
     DEF Api, EditDocument, HideDocument, RestoreDocument

\* Whoever gives up changes nothing in PostgreSQL.
LEMMA FailKeeps ==
    ASSUME IndexTypeOK, Payload, NEW i \in Indexers, Stops(i)
    PROVE  Keeps
<1>1. UNCHANGED <<docs, jobs, versions, entries, fresh>>
  BY DEF Stops, dbVars
<1> QED
  BY <1>1, KeptRows DEF Keeps, JobsKept, FreshKept, BegunKept, Indexed

\* What the handlers do to jobs and documents, but for the steps that begin a
\* version and record a batch.
LEMMA HandlerKeeps ==
    ASSUME IndexTypeOK, Handling, Targeting, Payload, NEW i \in Indexers,
           Handler(i) \/ Crash(i) \/ LoseLease(i), ~Fails(i), ~Prepare(i), ~RecordBatch(i)
    PROVE  Keeps
<1>1. jobs \in [JobIds -> JobRows] /\ fresh \in [Versions -> SUBSET Docs]
      /\ entries \in [Versions -> [Docs -> EntryRow]] /\ docs \in [Docs -> DocRows]
      /\ versions \in [Versions -> VersionRow]
  BY DEF IndexTypeOK
<1>2. JobsKept
  <2>1. \A k \in JobIds : Kept(k, jobs[k]) /\ Kept(k, Recovered(k)) /\ \A code : Kept(k, Outcome(k, code))
    BY KeptRows
  <2>2. CASE Finish(i)
    BY <1>1, <2>1, <2>2 DEF Finish, JobsKept
  <2>3. CASE Crash(i)
    BY <1>1, <2>1, <2>3 DEF Crash, JobsKept
  <2>4. CASE LoseLease(i)
    BY <1>1, <2>1, <2>4 DEF LoseLease, JobsKept
  <2>5. CASE jobs' = jobs
    BY <2>1, <2>5 DEF JobsKept
  <2> QED
    BY <2>2, <2>3, <2>4, <2>5, Writers
<1>3. FreshKept
  <2>1. ASSUME NEW d \in Docs, NEW state, NEW v, NEW n,
               docs' = docs \/ docs' = [docs EXCEPT ![d].state = state],
               entries' = entries \/ entries' = [entries EXCEPT ![v][d] = n], Touch({d})
        PROVE  FreshKept
    <3>1. \A w \in Versions : fresh'[w] = fresh[w] \ {d}
      BY <2>1 DEF Touch
    <3>2. \A e \in Docs \ {d} : docs'[e] = docs[e]
      BY <1>1, <2>1
    <3>3. \A e \in Docs \ {d} : \A w \in Versions : entries'[w][e] = entries[w][e]
      BY <1>1, <2>1
    <3> QED
      BY <1>1, <3>1, <3>2, <3>3 DEF FreshKept
  <2>2. CASE ForgetEntry(i)
    <3>1. mem[i].job \in Docs
      BY <2>2, Kinds DEF ForgetEntry, Reindexing
    <3> QED
      BY <2>1, <2>2, <3>1 DEF ForgetEntry
  <2>3. CASE StoreEntry(i)
    <3>1. mem[i].job \in Docs
      BY <2>3, Success, Kinds DEF Reindexing
    <3>2. /\ docs' = [docs EXCEPT ![mem[i].job].state = "READY"] /\ Touch({mem[i].job})
          /\ entries' = [entries EXCEPT ![mem[i].target][mem[i].job] = mem[i].ver]
      BY <2>3, Success
    <3> QED
      BY <2>1, <3>1, <3>2
  <2>4. CASE MarkFailure(i)
    <3>1. CASE mem[i].job \in Docs /\ Touch({mem[i].job})
      BY <2>1, <2>4, <3>1 DEF MarkFailure
    <3>2. CASE UNCHANGED <<docs, fresh>>
      BY <2>4, <3>2 DEF MarkFailure, FreshKept
    <3> QED
      BY <2>4, <3>1, <3>2 DEF MarkFailure
  <2>5. CASE Activate(i)
    <3>1. \A v \in Versions : fresh'[v] \subseteq fresh[v]
      BY <2>5 DEF Activate, Touch
    <3>2. \A d \in Docs : docs'[d] = docs[d] \/ docs'[d] = [docs[d] EXCEPT !.state = "READY"]
      BY <2>5 DEF Activate
    <3>3. \A d \in Docs : docs'[d].ver = docs[d].ver /\ docs'[d].hidden = docs[d].hidden
                          /\ docs'[d].duplicate = docs[d].duplicate
      BY <1>1, <3>2, ZenonT(40) DEF DocRows
    <3> QED
      BY <1>1, <2>5, <3>1, <3>3 DEF Activate, FreshKept
  <2>6. CASE Finish(i)
    BY <2>6 DEF Finish, FreshKept, Abandoned
  <2>7. CASE UNCHANGED <<docs, entries, fresh>>
    BY <2>7 DEF FreshKept
  <2> QED
    BY <2>2, <2>3, <2>4, <2>5, <2>6, <2>7, Writers
<1>4. BegunKept
  <2>1. ASSUME NEW v \in Versions, versions[v].status # "ABSENT", NEW status \in BuildStates \ {"ABSENT"},
               \/ versions' = [versions EXCEPT ![v].status = status]
               \/ \E n \in Nat : versions' = [versions EXCEPT ![v] = [status |-> status, count |-> n]],
               UNCHANGED entries
        PROVE  BegunKept
    BY <1>1, <2>1 DEF BegunKept, Indexed, VersionRow
  <2>2. ASSUME NEW v \in Versions, versions[v].status # "ABSENT", NEW d \in Docs, NEW n, NEW c,
               entries' = [entries EXCEPT ![v][d] = n],
               versions' = [versions EXCEPT ![v].count = c]
        PROVE  BegunKept
    <3>1. \A w \in Versions : versions'[w].status = versions[w].status
      BY <1>1, <2>2 DEF VersionRow
    <3>2. \A w \in Versions \ {v} : entries'[w] = entries[w]
      BY <1>1, <2>2
    <3> QED
      BY <2>2, <3>1, <3>2 DEF BegunKept, Indexed
  <2>3. CASE ForgetEntry(i)
    <3>1. mem[i].job \in Docs /\ mem[i].target \in Versions
          /\ versions[mem[i].target].status # "ABSENT"
      BY <2>3, Kinds DEF ForgetEntry, Reindexing, Targeting, Aiming
    <3> QED
      BY <2>2, <2>3, <3>1 DEF ForgetEntry
  <2>4. CASE StoreEntry(i)
    <3>1. mem[i].job \in Docs /\ mem[i].target \in Versions
          /\ versions[mem[i].target].status # "ABSENT"
      BY <2>4, Success, Kinds DEF Reindexing, Targeting, Aiming
    <3>2. PICK n \in {0, 1} : versions' = [versions EXCEPT ![mem[i].target].count = Plus(@, n)]
      BY <2>4, Success
    <3>3. PICK c : versions' = [versions EXCEPT ![mem[i].target].count = c]
      BY <3>2
    <3>4. entries' = [entries EXCEPT ![mem[i].target][mem[i].job] = mem[i].ver]
      BY <2>4, Success
    <3> QED
      BY <2>2, <3>1, <3>3, <3>4
  <2>5. CASE MarkReady(i)
    <3>1. mem[i].target \in Versions /\ versions[mem[i].target].status # "ABSENT"
          /\ mem[i].total \in Nat
      BY <2>5, Kinds DEF MarkReady, Rebuilding, Building, Filled, Targeting, Aiming
    <3>2. versions' = [versions EXCEPT ![mem[i].target] = [status |-> "READY", count |-> mem[i].total]]
          /\ UNCHANGED entries
      BY <2>5 DEF MarkReady
    <3>3. "READY" \in BuildStates \ {"ABSENT"}
      BY DEF BuildStates
    <3> QED
      BY <2>1, <3>1, <3>2, <3>3
  <2>6. CASE Activate(i)
    <3>1. mem[i].target \in Versions /\ versions[mem[i].target].status # "ABSENT"
      BY <2>6, Kinds DEF Activate, Rebuilding, Building, Filled, Targeting, Aiming
    <3>2. \A w \in Versions : versions'[w].status = "ABSENT" <=> versions[w].status = "ABSENT"
      BY <1>1, <2>6, <3>1 DEF Activate, ActivatedRows, VersionRow
    <3> QED
      BY <2>6, <3>2 DEF Activate, BegunKept, Indexed
  <2>7. CASE MarkFailure(i)
    <3>1. jobs[Full].version \in Versions \cup {None}
      BY JobKinds DEF IndexTypeOK, JobRows
    <3>2. CASE versions' = versions
      BY <2>7, <3>2 DEF MarkFailure, BegunKept, Indexed
    <3>3. CASE jobs[Full].version # None
               /\ versions' = [versions EXCEPT ![jobs[Full].version].status = "FAILED"]
      <4>1. jobs[Full].version \in Versions /\ versions[jobs[Full].version].status # "ABSENT"
        BY <3>1, <3>3 DEF Payload
      <4>2. "FAILED" \in BuildStates \ {"ABSENT"} /\ UNCHANGED entries
        BY <2>7 DEF BuildStates, MarkFailure
      <4> QED
        BY <2>1, <3>3, <4>1, <4>2
    <3> QED
      BY <2>7, <3>2, <3>3 DEF MarkFailure
  <2>8. CASE UNCHANGED <<versions, entries>>
    BY <2>8 DEF BegunKept, Indexed
  <2> QED
    BY <2>3, <2>4, <2>5, <2>6, <2>7, <2>8, Writers
<1> QED
  BY <1>2, <1>3, <1>4 DEF Keeps

-----------------------------------------------------------------------------
(* Where the handlers are, and what they know.                             *)

\* A step of one handler is no step of another.
LEMMA Others ==
    ASSUME IndexTypeOK, NEW i \in Indexers,
           \/ Handler(i) \/ Error(i) \/ Unanswered(i) \/ Crash(i) \/ LoseLease(i)
           \/ \E k \in JobIds : Claim(i, k)
    PROVE  \A j \in Indexers \ {i} : pc'[j] = pc[j] /\ mem'[j] = mem[j]
<1> USE DEF IndexTypeOK, Goto, Learn, Done
<1>1. CASE Stops(i)
  BY <1>1 DEF Stops, GivesUp
<1>2. SUFFICES ASSUME ~Stops(i), ~Fails(i)
               PROVE  \A j \in Indexers \ {i} : pc'[j] = pc[j] /\ mem'[j] = mem[j]
  BY <1>1, Failures
<1>3. ~Refused(i) /\ ~Error(i) /\ ~Unanswered(i)
  BY <1>2, Failures
<1>4. CASE CheckAlias(i) \/ UseCollection(i) \/ Verify(i) \/ DeletePoints(i) \/ Upsert(i)
           \/ WriteBatch(i) \/ StoreEntry(i)
  <2>1. mem' = mem /\ \E place : pc' = [pc EXCEPT ![i] = place]
    BY <1>2, <1>4, Success
  <2> QED
    BY <2>1
<1>5. CASE Load(i) \/ RecordBatch(i) \/ SwitchAlias(i)
  <2>1. /\ \E place : pc' = [pc EXCEPT ![i] = place]
        /\ \E m : mem' = [mem EXCEPT ![i] = m]
    BY <1>2, <1>5, Success
  <2> QED
    BY <2>1
<1>6. CASE ForgetEntry(i) \/ Prepare(i) \/ CreateCollection(i) \/ CreateIndexes(i)
  BY <1>6 DEF ForgetEntry, Prepare, CreateCollection, Makes, CreateIndexes
<1>7. CASE CountEligible(i) \/ CountEntries(i) \/ LoadBatch(i) \/ MarkReady(i) \/ Activate(i)
  BY <1>7 DEF CountEligible, CountEntries, LoadBatch, MarkReady, Activate
<1>8. CASE ActivationFails(i) \/ Compensate(i) \/ ListCollections(i) \/ ChooseCollections(i)
  BY <1>8 DEF ActivationFails, Compensate, GiveUp, Names, ListCollections, ChooseCollections
<1>9. CASE DropCollection(i) \/ MarkFailure(i) \/ Finish(i) \/ Crash(i) \/ LoseLease(i)
  BY <1>9 DEF DropCollection, Drops, NextDropped, MarkFailure, Finish, Crash, LoseLease
<1>10. ASSUME NEW k \in JobIds, Claim(i, k)
       PROVE  \A j \in Indexers \ {i} : pc'[j] = pc[j] /\ mem'[j] = mem[j]
  BY <1>10 DEF Claim
<1> QED
  BY <1>3, <1>4, <1>5, <1>6, <1>7, <1>8, <1>9, <1>10 DEF Handler, Reindex, Rebuild, Cleanup

\* A handler keeps to its kind of job.
LEMMA HandlesKept ==
    ASSUME IndexTypeOK, Handling, Targeting, NEW i \in Indexers,
           \/ Handler(i) \/ Error(i) \/ Unanswered(i) \/ Crash(i) \/ LoseLease(i)
           \/ \E k \in JobIds : Claim(i, k)
    PROVE  Handles(pc'[i], mem'[i])
<1> DEFINE m == mem[i]
<1> USE DEF Handles, Reindexing, Rebuilding, Building, Filling, Filled, Cleaning, Ending
<1>1. /\ m \in Memory /\ pc[i] \in Places /\ Handles(pc[i], m)
      /\ pc \in [Indexers -> Places] /\ mem \in [Indexers -> Memory]
  BY DEF IndexTypeOK, Handling
<1>2. Handles("idle", Nothing)
  BY DEF Nothing
<1>3. CASE Stops(i)
  <2>1. pc[i] # "idle" /\ m.job \in JobIds
    BY <1>3, Kinds DEF Stops, Asking, Querying
  <2>2. CASE pc' = [pc EXCEPT ![i] = "idle"] /\ mem' = [mem EXCEPT ![i] = Nothing]
    BY <1>1, <1>2, <2>2
  <2>3. ASSUME NEW code \in Codes, pc' = [pc EXCEPT ![i] = "failing"],
               mem' = [mem EXCEPT ![i].code = code]
        PROVE  Handles(pc'[i], mem'[i])
    <3>1. pc'[i] = "failing" /\ mem'[i] = [m EXCEPT !.code = code]
      BY <1>1, <2>3
    <3>2. mem'[i].job = m.job
      BY <1>1, <3>1 DEF Memory
    <3> QED
      BY <2>1, <3>1, <3>2
  <2> QED
    BY <1>3, <2>2, <2>3 DEF Stops, GivesUp
<1>4. SUFFICES ASSUME ~Stops(i), ~Fails(i) PROVE Handles(pc'[i], mem'[i])
  BY <1>3, Failures
<1>5. ~Refused(i) /\ ~Error(i) /\ ~Unanswered(i)
  BY <1>4, Failures
<1>6. CASE Load(i)
  <2>1. pc[i] = "load" /\ pc'[i] = "alias" /\ m.job \in Docs /\ m.code = "OK"
    BY <1>1, <1>4, <1>6, Success
  <2>4. PICK v \in ActiveVersions : mem' = [mem EXCEPT ![i] =
            [mem[i] EXCEPT !.target = v, !.ver = docs[mem[i].job].ver,
                           !.chunk = IF Eligible(mem[i].job) THEN docs[mem[i].job].chunk ELSE 0]]
    BY <1>4, <1>6, Success
  <2>5. PICK chunk : chunk = IF Eligible(mem[i].job) THEN docs[mem[i].job].chunk ELSE 0
    OBVIOUS
  <2>2. mem'[i] = [m EXCEPT !.target = v, !.ver = docs[m.job].ver, !.chunk = chunk]
    BY <1>1, <2>4, <2>5
  <2>3. mem'[i].job = m.job /\ mem'[i].code = m.code /\ mem'[i].ver = docs[m.job].ver
    BY <1>1, <2>2 DEF Memory
  <2> QED
    BY <2>1, <2>3, DocFields
<1>7. CASE CheckAlias(i) \/ UseCollection(i) \/ Verify(i) \/ DeletePoints(i) \/ Upsert(i) \/ WriteBatch(i)
  BY <1>1, <1>4, <1>7, Success, ZenonT(40)
<1>8. CASE StoreEntry(i)
  BY <1>1, <1>4, <1>8, Success, JobKinds
<1>9. CASE ForgetEntry(i) \/ Activate(i) \/ MarkFailure(i)
  BY <1>1, <1>9, JobKinds DEF ForgetEntry, Activate, MarkFailure, Done, Goto
<1>10. CASE CreateCollection(i) \/ CreateIndexes(i) \/ MarkReady(i) \/ ActivationFails(i)
  BY <1>1, <1>10 DEF CreateCollection, Makes, CreateIndexes, MarkReady, ActivationFails, Goto
<1>11. CASE Prepare(i)
  <2>1. pc[i] = "prepare" /\ pc'[i] = "collection" /\ m.job = Full /\ m.code = "OK"
    BY <1>1, <1>11 DEF Prepare, Goto
  <2>2. \/ \E v : mem' = [mem EXCEPT ![i] = [m EXCEPT !.target = v]]
        \/ mem' = [mem EXCEPT ![i] = [m EXCEPT !.target = jobs[Full].version, !.last = LastChunk]]
    BY <1>11 DEF Prepare, Learn
  <2>3. mem'[i].job = m.job /\ mem'[i].code = m.code
    BY <1>1, <2>2, ZenonT(40) DEF Memory
  <2> QED
    BY <2>1, <2>3
<1>12. CASE CountEligible(i) \/ CountEntries(i)
  <2>1. m.job = Full /\ m.code = "OK" /\ pc'[i] \in {"resume", "batch"}
    BY <1>1, <1>12 DEF CountEligible, CountEntries, Goto
  <2>2. PICK n : mem'[i] = [m EXCEPT !.total = n] \/ mem'[i] = [m EXCEPT !.done = n]
    BY <1>1, <1>12 DEF CountEligible, CountEntries, Learn
  <2>3. mem'[i].job = m.job /\ mem'[i].code = m.code
    BY <1>1, <2>2 DEF Memory
  <2> QED
    BY <2>1, <2>3
<1>13. CASE LoadBatch(i)
  <2>1. m.job = Full /\ m.code = "OK" /\ m.target \in Versions
    BY <1>1, <1>13, Kinds DEF LoadBatch
  <2>2. CASE pc' = [pc EXCEPT ![i] = "count"] /\ mem' = mem
    BY <1>1, <2>1, <2>2
  <2>3. ASSUME NEW d \in Remaining(i), pc' = [pc EXCEPT ![i] = "write"],
               mem' = [mem EXCEPT ![i] = [m EXCEPT !.doc = d, !.ver = docs[d].ver,
                                                   !.chunk = docs[d].chunk]]
        PROVE  Handles(pc'[i], mem'[i])
    <3>1. d \in Docs /\ d > m.last /\ docs[d].ver # 0
      BY <2>1, <2>3, DocFields DEF Remaining, IndexTypeOK
    <3>2. mem'[i] = [m EXCEPT !.doc = d, !.ver = docs[d].ver, !.chunk = docs[d].chunk]
          /\ pc'[i] = "write"
      BY <1>1, <2>3
    <3>3. mem'[i].job = m.job /\ mem'[i].code = m.code /\ mem'[i].doc = d /\ mem'[i].last = m.last
          /\ mem'[i].ver = docs[d].ver
      BY <1>1, <3>2 DEF Memory
    <3> QED
      BY <2>1, <3>1, <3>2, <3>3
  <2> QED
    BY <1>13, <2>2, <2>3 DEF LoadBatch, Goto, Learn
<1>14. CASE RecordBatch(i)
  <2>1. m.job = Full /\ m.code = "OK" /\ pc'[i] = "batch"
    BY <1>1, <1>4, <1>14, Success
  <2>2. mem'[i] = [m EXCEPT !.done = @ + 1, !.last = m.doc, !.doc = 0, !.ver = 0, !.chunk = 0]
    BY <1>1, <1>4, <1>14, Success
  <2>3. mem'[i].job = m.job /\ mem'[i].code = m.code
    BY <1>1, <2>2 DEF Memory
  <2> QED
    BY <2>1, <2>3
<1>15. CASE SwitchAlias(i)
  <2>1. m.job = Full /\ m.code = "OK" /\ pc'[i] = "activate"
    BY <1>1, <1>4, <1>15, Success
  <2>2. mem'[i] = [m EXCEPT !.prev = alias]
    BY <1>1, <1>4, <1>15, Success
  <2>3. mem'[i].job = m.job /\ mem'[i].code = m.code
    BY <1>1, <2>2 DEF Memory
  <2> QED
    BY <2>1, <2>3
<1>16. CASE Compensate(i)
  <2>1. CASE pc' = [pc EXCEPT ![i] = "idle"] /\ mem' = [mem EXCEPT ![i] = Nothing]
    BY <1>1, <1>2, <2>1
  <2>2. CASE pc' = [pc EXCEPT ![i] = "failing"] /\ mem' = [mem EXCEPT ![i] = [m EXCEPT !.code = "RETRY"]]
    <3>1. m.job = Full
      BY <1>1, <1>16 DEF Compensate, GiveUp, Names
    <3>2. pc'[i] = "failing" /\ mem'[i] = [m EXCEPT !.code = "RETRY"]
      BY <1>1, <2>2
    <3>3. mem'[i].job = m.job
      BY <1>1, <3>2 DEF Memory
    <3> QED
      BY <3>1, <3>2, <3>3, JobKinds
  <2> QED
    BY <1>16, <2>1, <2>2 DEF Compensate, GiveUp, Names, Goto, Learn
<1>17. CASE ListCollections(i) \/ ChooseCollections(i)
  <2>1. m.job = Clean /\ m.code = "OK" /\ pc'[i] \in {"choosing", "dropping"}
    BY <1>1, <1>17 DEF ListCollections, ChooseCollections, Goto
  <2>2. \/ mem' = [mem EXCEPT ![i] = [m EXCEPT !.prev = alias,
                                              !.drop = {v \in Versions : coll[v] # "absent"}]]
        \/ \E recent : mem' = [mem EXCEPT ![i] = [m EXCEPT !.drop = @ \ Protected(i, recent)]]
    BY <1>17 DEF ListCollections, ChooseCollections, Learn
  <2>3. mem'[i].job = m.job /\ mem'[i].code = m.code
    BY <1>1, <2>2 DEF Memory
  <2> QED
    BY <2>1, <2>3
<1>18. CASE DropCollection(i)
  <2>1. m.job = Clean /\ m.code = "OK" /\ pc[i] = "dropping"
    BY <1>1, <1>18 DEF DropCollection, Drops, NextDropped
  <2>2. CASE pc' = [pc EXCEPT ![i] = "finish"] /\ mem' = mem
    BY <1>1, <2>1, <2>2, JobKinds
  <2>3. ASSUME NEW S, pc' = pc, mem' = [mem EXCEPT ![i] = [m EXCEPT !.drop = S]]
        PROVE  Handles(pc'[i], mem'[i])
    <3>1. mem'[i].job = m.job /\ mem'[i].code = m.code
      BY <1>1, <2>3 DEF Memory
    <3> QED
      BY <2>1, <2>3, <3>1
  <2> QED
    BY <1>18, <2>2, <2>3 DEF DropCollection, Drops, NextDropped, Done, Goto, Learn
<1>19. CASE Finish(i) \/ Crash(i)
  BY <1>1, <1>2, <1>19 DEF Finish, Crash, Goto, Learn
<1>20. CASE LoseLease(i)
  BY <1>1, <1>20 DEF LoseLease
<1>21. ASSUME NEW k \in JobIds, Claim(i, k) PROVE Handles(pc'[i], mem'[i])
  <2>1. mem'[i] = [Nothing EXCEPT !.job = k]
        /\ pc'[i] = CASE k = Full -> "prepare" [] k = Clean -> "listing" [] OTHER -> "load"
    BY <1>1, <1>21 DEF Claim, Goto, Learn
  <2>2. mem'[i].job = k /\ mem'[i].code = "OK" /\ mem'[i].last = None
    BY <2>1 DEF Nothing, None
  <2> QED
    BY <2>1, <2>2, JobKinds DEF JobIds
<1> QED
  BY <1>5, <1>6, <1>7, <1>8, <1>9, <1>10, <1>11, <1>12, <1>13, <1>14, <1>15, <1>16, <1>17, <1>18,
     <1>19, <1>20, <1>21 DEF Handler, Reindex, Rebuild, Cleanup

Acts(i) ==
    \/ Handler(i) \/ Error(i) \/ Unanswered(i) \/ Crash(i) \/ LoseLease(i)
    \/ \E k \in JobIds : Claim(i, k)

IndexInv ==
    /\ IndexTypeOK /\ Handling /\ Targeting /\ Numbered
    /\ Payload /\ Unrecorded /\ Tied /\ Counted

\* A handler on its way keeps its job, its target and its checkpoint, but for
\* the steps that choose or advance them.
LEMMA Steady ==
    ASSUME IndexTypeOK, Handling, Targeting, NEW i \in Indexers,
           Handler(i) \/ Error(i) \/ Unanswered(i) \/ Crash(i) \/ LoseLease(i),
           ~Load(i), ~Prepare(i), ~RecordBatch(i), pc'[i] \notin {"idle", "failing"}
    PROVE  /\ mem'[i].job = mem[i].job /\ mem'[i].target = mem[i].target
           /\ mem'[i].last = mem[i].last
           /\ pc'[i] \in Aiming => pc[i] \in Aiming
           /\ pc'[i] \in Building => pc[i] \in Building
<1> DEFINE m == mem[i]
           Goal == /\ mem'[i].job = m.job /\ mem'[i].target = m.target /\ mem'[i].last = m.last
                   /\ pc'[i] \in Aiming => pc[i] \in Aiming
                   /\ pc'[i] \in Building => pc[i] \in Building
<1> USE DEF Aiming, Reindexing, Rebuilding, Building, Filling, Filled
<1>1. /\ m \in Memory /\ pc[i] \in Places
      /\ pc \in [Indexers -> Places] /\ mem \in [Indexers -> Memory]
  BY DEF IndexTypeOK
<1>2. ~Stops(i) /\ ~Fails(i)
  BY Failures DEF Stops
<1>3. ~Refused(i) /\ ~Error(i) /\ ~Unanswered(i)
  BY <1>2, Failures
<1>4. CASE CheckAlias(i) \/ UseCollection(i) \/ Verify(i) \/ DeletePoints(i) \/ Upsert(i)
           \/ WriteBatch(i) \/ StoreEntry(i)
  BY <1>1, <1>2, <1>4, Success
<1>5. CASE ForgetEntry(i) \/ Activate(i) \/ MarkFailure(i)
  BY <1>1, <1>5 DEF ForgetEntry, Activate, MarkFailure, Done, Goto
<1>6. CASE CreateCollection(i) \/ CreateIndexes(i) \/ MarkReady(i) \/ ActivationFails(i)
  BY <1>1, <1>6 DEF CreateCollection, Makes, CreateIndexes, MarkReady, ActivationFails, Goto
<1>7. CASE CountEligible(i) \/ CountEntries(i)
  <2>1. PICK n : \/ mem' = [mem EXCEPT ![i] = [m EXCEPT !.total = n]]
                 \/ mem' = [mem EXCEPT ![i] = [m EXCEPT !.done = n]]
    BY <1>7 DEF CountEligible, CountEntries, Learn
  <2>2. mem'[i].job = m.job /\ mem'[i].target = m.target /\ mem'[i].last = m.last
    BY <1>1, <2>1 DEF Memory
  <2> QED
    BY <1>1, <1>7, <2>2 DEF CountEligible, CountEntries, Goto
<1>8. CASE LoadBatch(i)
  <2>1. \/ mem' = mem
        \/ \E d : mem' = [mem EXCEPT ![i] = [m EXCEPT !.doc = d, !.ver = docs[d].ver,
                                                      !.chunk = docs[d].chunk]]
    BY <1>8 DEF LoadBatch, Learn
  <2>2. mem'[i].job = m.job /\ mem'[i].target = m.target /\ mem'[i].last = m.last
    BY <1>1, <2>1, ZenonT(40) DEF Memory
  <2> QED
    BY <1>1, <1>8, <2>2 DEF LoadBatch, Goto
<1>9. CASE SwitchAlias(i)
  <2>1. mem'[i] = [m EXCEPT !.prev = alias]
    BY <1>1, <1>2, <1>9, Success
  <2>2. mem'[i].job = m.job /\ mem'[i].target = m.target /\ mem'[i].last = m.last
    BY <1>1, <2>1 DEF Memory
  <2> QED
    BY <1>1, <1>2, <1>9, <2>2, Success
<1>10. CASE ListCollections(i) \/ ChooseCollections(i)
  <2>1. \/ mem' = [mem EXCEPT ![i] = [m EXCEPT !.prev = alias,
                                              !.drop = {v \in Versions : coll[v] # "absent"}]]
        \/ \E recent : mem' = [mem EXCEPT ![i] = [m EXCEPT !.drop = @ \ Protected(i, recent)]]
    BY <1>10 DEF ListCollections, ChooseCollections, Learn
  <2>2. mem'[i].job = m.job /\ mem'[i].target = m.target /\ mem'[i].last = m.last
    BY <1>1, <2>1, ZenonT(40) DEF Memory
  <2> QED
    BY <1>1, <1>10, <2>2 DEF ListCollections, ChooseCollections, Goto
<1>11. CASE DropCollection(i)
  <2>1. mem' = mem \/ \E v : mem' = [mem EXCEPT ![i] = [m EXCEPT !.drop = @ \ {v}]]
    BY <1>11 DEF DropCollection, Drops, NextDropped, Learn
  <2>2. mem'[i].job = m.job /\ mem'[i].target = m.target /\ mem'[i].last = m.last
    BY <1>1, <2>1 DEF Memory
  <2> QED
    BY <1>1, <1>11, <2>2 DEF DropCollection, Drops, NextDropped, Done, Goto
<1>12. CASE LoseLease(i)
  BY <1>12 DEF LoseLease
<1>13. ~Compensate(i) /\ ~Finish(i) /\ ~Crash(i)
  BY <1>1 DEF Compensate, GiveUp, Names, Finish, Crash, Goto
<1> QED
  BY <1>3, <1>4, <1>5, <1>6, <1>7, <1>8, <1>9, <1>10, <1>11, <1>12, <1>13
     DEF Handler, Reindex, Rebuild, Cleanup

\* What a claim, the begin of a version and the record of a batch do to jobs
\* and documents.
LEMMA ThreeSteps ==
    ASSUME IndexTypeOK, NEW i \in Indexers
    PROVE  /\ \A k \in JobIds : Claim(i, k) =>
                 /\ pc[i] = "idle" /\ jobs[k].status = "QUEUED"
                 /\ jobs' = [jobs EXCEPT ![k] = [jobs[k] EXCEPT !.status = "RUNNING", !.owner = i,
                                                               !.attempt = jobs[k].attempt + 1]]
                 /\ mem' = [mem EXCEPT ![i] = [Nothing EXCEPT !.job = k]]
                 /\ pc'[i] \in {"prepare", "listing", "load"}
                 /\ UNCHANGED <<docs, versions, entries, fresh, qdrantVars, spent>>
           /\ Prepare(i) =>
                 /\ pc[i] = "prepare" /\ pc' = [pc EXCEPT ![i] = "collection"]
                 /\ \/ /\ jobs[Full].version # None
                       /\ mem'[i] = [mem[i] EXCEPT !.target = jobs[Full].version,
                                                   !.last = jobs[Full].last]
                       /\ UNCHANGED <<jobs, versions, fresh>>
                    \/ /\ jobs[Full].version = None /\ Owner(i)
                       /\ \E v \in Versions :
                             /\ versions[v].status = "ABSENT"
                             /\ versions' = [versions EXCEPT ![v].status = "BUILDING"]
                             /\ fresh' = [fresh EXCEPT ![v] = Docs]
                             /\ jobs' = [jobs EXCEPT ![Full].version = v]
                             /\ mem'[i] = [mem[i] EXCEPT !.target = v]
                 /\ UNCHANGED <<docs, entries, qdrantVars, spent>>
           /\ RecordBatch(i) /\ ~Fails(i) =>
                 /\ pc[i] = "written" /\ pc'[i] = "batch" /\ MayGoOn(i)
                 /\ entries' = [entries EXCEPT ![mem[i].target][mem[i].doc] = mem[i].ver]
                 /\ jobs' = [jobs EXCEPT ![Full].last = mem[i].doc]
                 /\ mem'[i].job = mem[i].job /\ mem'[i].target = mem[i].target
                 /\ mem'[i].last = mem[i].doc /\ mem'[i].done = mem[i].done + 1
                 /\ mem'[i].code = mem[i].code
                 /\ UNCHANGED <<docs, versions, fresh, qdrantVars, spent>>
<1>1. /\ mem[i] \in Memory /\ pc \in [Indexers -> Places] /\ mem \in [Indexers -> Memory]
      /\ jobs \in [JobIds -> JobRows]
  BY DEF IndexTypeOK
<1>2. ASSUME NEW k \in JobIds, Claim(i, k)
      PROVE  /\ pc[i] = "idle" /\ jobs[k].status = "QUEUED"
             /\ jobs' = [jobs EXCEPT ![k] = [jobs[k] EXCEPT !.status = "RUNNING", !.owner = i,
                                                           !.attempt = jobs[k].attempt + 1]]
             /\ mem' = [mem EXCEPT ![i] = [Nothing EXCEPT !.job = k]]
             /\ pc'[i] \in {"prepare", "listing", "load"}
             /\ UNCHANGED <<docs, versions, entries, fresh, qdrantVars, spent>>
  BY <1>1, <1>2 DEF Claim, Goto, Learn
<1>3. ASSUME Prepare(i)
      PROVE  /\ pc[i] = "prepare" /\ pc' = [pc EXCEPT ![i] = "collection"]
             /\ \/ /\ jobs[Full].version # None
                   /\ mem'[i] = [mem[i] EXCEPT !.target = jobs[Full].version,
                                               !.last = jobs[Full].last]
                   /\ UNCHANGED <<jobs, versions, fresh>>
                \/ /\ jobs[Full].version = None /\ Owner(i)
                   /\ \E v \in Versions :
                         /\ versions[v].status = "ABSENT"
                         /\ versions' = [versions EXCEPT ![v].status = "BUILDING"]
                         /\ fresh' = [fresh EXCEPT ![v] = Docs]
                         /\ jobs' = [jobs EXCEPT ![Full].version = v]
                         /\ mem'[i] = [mem[i] EXCEPT !.target = v]
             /\ UNCHANGED <<docs, entries, qdrantVars, spent>>
  BY <1>1, <1>3 DEF Prepare, Goto, Learn, LastChunk
<1>4. ASSUME RecordBatch(i), ~Fails(i)
      PROVE  /\ pc[i] = "written" /\ pc'[i] = "batch" /\ MayGoOn(i)
             /\ entries' = [entries EXCEPT ![mem[i].target][mem[i].doc] = mem[i].ver]
             /\ jobs' = [jobs EXCEPT ![Full].last = mem[i].doc]
             /\ mem'[i].job = mem[i].job /\ mem'[i].target = mem[i].target
             /\ mem'[i].last = mem[i].doc /\ mem'[i].done = mem[i].done + 1
             /\ mem'[i].code = mem[i].code
             /\ UNCHANGED <<docs, versions, fresh, qdrantVars, spent>>
  <2>1. mem'[i] = [mem[i] EXCEPT !.done = @ + 1, !.last = mem[i].doc,
                                 !.doc = 0, !.ver = 0, !.chunk = 0]
    BY <1>1, <1>4, Success
  <2>2. /\ mem'[i].job = mem[i].job /\ mem'[i].target = mem[i].target
        /\ mem'[i].last = mem[i].doc /\ mem'[i].done = mem[i].done + 1
        /\ mem'[i].code = mem[i].code
    BY <1>1, <2>1 DEF Memory
  <2> QED
    BY <1>1, <1>4, <2>2, Success
<1> QED
  BY <1>2, <1>3, <1>4

\* An action of an indexer is one of the three, or keeps what it should.
LEMMA ActsKeep ==
    ASSUME IndexInv, NEW i \in Indexers, Acts(i)
    PROVE  Keeps \/ (\E k \in JobIds : Claim(i, k)) \/ Prepare(i) \/ (RecordBatch(i) /\ ~Fails(i))
BY FailKeeps, HandlerKeeps, Failures DEF IndexInv, Acts

\* A handler that owns a job after the step of another owned it before, with
\* the same payload.
LEMMA OwnersKept ==
    ASSUME IndexInv, NEW i \in Indexers, Acts(i), NEW j \in Indexers \ {i}, NEW k \in JobIds,
           jobs'[k].owner = j
    PROVE  jobs[k].owner = j /\ jobs'[k].version = jobs[k].version /\ jobs'[k].last = jobs[k].last
<1>1. jobs \in [JobIds -> JobRows] /\ j # NoIndexer /\ IndexTypeOK
  BY IndexAssumption DEF IndexInv, IndexTypeOK
<1>2. CASE Keeps
  BY <1>1, <1>2 DEF Keeps, JobsKept, Kept
<1>3. ASSUME NEW l \in JobIds, Claim(i, l)
      PROVE  jobs[k].owner = j /\ jobs'[k].version = jobs[k].version /\ jobs'[k].last = jobs[k].last
  <2>1. jobs' = [jobs EXCEPT ![l] = [jobs[l] EXCEPT !.status = "RUNNING", !.owner = i,
                                                    !.attempt = jobs[l].attempt + 1]]
    BY <1>1, <1>3, ThreeSteps
  <2> QED
    BY <1>1, <2>1 DEF JobRows
<1>4. CASE Prepare(i)
  <2>1. CASE jobs' = jobs
    BY <2>1
  <2>2. ASSUME NEW v \in Versions, jobs' = [jobs EXCEPT ![Full].version = v], Owner(i)
        PROVE  jobs[k].owner = j /\ jobs'[k].version = jobs[k].version /\ jobs'[k].last = jobs[k].last
    <3>1. jobs[Full].owner = i
      BY <1>1, <1>4, <2>2 DEF IndexInv, Handling, Handles, Rebuilding, Prepare, Owner
    <3>2. jobs'[Full].owner = i
      BY <1>1, <2>2, <3>1, JobKinds DEF JobRows
    <3> QED
      BY <1>1, <2>2, <3>2
  <2> QED
    BY <1>1, <1>4, <2>1, <2>2, ThreeSteps
<1>5. CASE RecordBatch(i) /\ ~Fails(i)
  <2>1. jobs' = [jobs EXCEPT ![Full].last = mem[i].doc] /\ Owner(i) /\ pc[i] = "written"
    BY <1>1, <1>5, ThreeSteps DEF MayGoOn
  <2>2. jobs[Full].owner = i
    BY <1>1, <2>1 DEF IndexInv, Handling, Handles, Rebuilding, Building, Filling, Owner
  <2>3. jobs'[Full].owner = i
    BY <1>1, <2>1, <2>2, JobKinds DEF JobRows
  <2> QED
    BY <1>1, <2>1, <2>3
<1> QED
  BY <1>2, <1>3, <1>4, <1>5, ActsKeep

\* A version that was begun stays begun.
LEMMA BegunStays ==
    ASSUME IndexInv, NEW i \in Indexers, Acts(i), NEW v \in Versions, versions[v].status # "ABSENT"
    PROVE  versions'[v].status # "ABSENT"
<1>1. versions \in [Versions -> VersionRow] /\ IndexTypeOK
  BY DEF IndexInv, IndexTypeOK
<1>2. CASE Keeps
  BY <1>2 DEF Keeps, BegunKept
<1>3. CASE Prepare(i)
  <2>1. \/ versions' = versions
        \/ \E w \in Versions : versions' = [versions EXCEPT ![w].status = "BUILDING"]
    BY <1>1, <1>3, ThreeSteps
  <2> QED
    BY <1>1, <2>1 DEF VersionRow
<1>4. CASE (\E k \in JobIds : Claim(i, k)) \/ (RecordBatch(i) /\ ~Fails(i))
  BY <1>1, <1>4, ThreeSteps
<1> QED
  BY <1>2, <1>3, <1>4, ActsKeep

\* The handlers keep targets that were begun.
LEMMA TargetingKept ==
    ASSUME IndexInv, NEW i \in Indexers, Acts(i)
    PROVE  Targeting'
<1>1. IndexTypeOK /\ Handling /\ Targeting /\ mem[i] \in Memory /\ versions \in [Versions -> VersionRow]
      /\ jobs \in [JobIds -> JobRows] /\ pc \in [Indexers -> Places]
  BY DEF IndexInv, IndexTypeOK
<1>2. ASSUME NEW j \in Indexers \ {i}, pc'[j] \in Aiming
      PROVE  mem'[j].target \in Versions /\ versions'[mem'[j].target].status # "ABSENT"
  <2>1. pc'[j] = pc[j] /\ mem'[j] = mem[j]
    BY <1>1, Others DEF Acts
  <2>2. mem[j].target \in Versions /\ versions[mem[j].target].status # "ABSENT"
    BY <1>1, <1>2, <2>1 DEF Targeting
  <2> QED
    BY <2>1, <2>2, BegunStays
<1>3. ASSUME pc'[i] \in Aiming
      PROVE  mem'[i].target \in Versions /\ versions'[mem'[i].target].status # "ABSENT"
  <2>1. ASSUME mem'[i].target = mem[i].target, pc[i] \in Aiming
        PROVE  mem'[i].target \in Versions /\ versions'[mem'[i].target].status # "ABSENT"
    BY <1>1, <2>1, BegunStays DEF Targeting
  <2>2. pc'[i] \notin {"idle", "failing"}
    BY <1>3 DEF Aiming, Reindexing, Rebuilding, Building, Filling, Filled
  <2>3. CASE \E k \in JobIds : Claim(i, k)
    BY <1>1, <1>3, <2>3, ThreeSteps DEF Aiming, Reindexing, Rebuilding, Building, Filling, Filled
  <2>4. CASE RecordBatch(i) /\ ~Fails(i)
    BY <1>1, <2>1, <2>4, ThreeSteps DEF Aiming, Reindexing, Rebuilding, Building, Filling, Filled
  <2>5. CASE Prepare(i)
    <3>1. CASE jobs[Full].version # None /\ versions' = versions
               /\ mem'[i] = [mem[i] EXCEPT !.target = jobs[Full].version, !.last = jobs[Full].last]
      <4>1. mem'[i].target = jobs[Full].version
        BY <1>1, <3>1 DEF Memory
      <4>2. jobs[Full].version \in Versions
        BY <1>1, <3>1, JobKinds DEF JobRows
      <4>3. versions[jobs[Full].version].status # "ABSENT"
        BY <3>1 DEF IndexInv, Payload
      <4> QED
        BY <3>1, <4>1, <4>2, <4>3
    <3>2. ASSUME NEW v \in Versions, versions' = [versions EXCEPT ![v].status = "BUILDING"],
                 mem'[i] = [mem[i] EXCEPT !.target = v]
          PROVE  mem'[i].target \in Versions /\ versions'[mem'[i].target].status # "ABSENT"
      <4>1. mem'[i].target = v
        BY <1>1, <3>2 DEF Memory
      <4>2. versions'[v].status = "BUILDING"
        BY <1>1, <3>2 DEF VersionRow
      <4> QED
        BY <4>1, <4>2
    <3> QED
      BY <1>1, <2>5, <3>1, <3>2, ThreeSteps
  <2>6. CASE Load(i)
    <3>1. ~Fails(i)
      BY <1>1, <2>2 DEF Fails, GivesUp, IndexTypeOK
    <3>2. /\ versions' = versions
          /\ \E v \in ActiveVersions : mem' = [mem EXCEPT ![i] =
                [mem[i] EXCEPT !.target = v, !.ver = docs[mem[i].job].ver,
                    !.chunk = IF Eligible(mem[i].job) THEN docs[mem[i].job].chunk ELSE 0]]
      BY <1>1, <2>6, <3>1, Success DEF dbVars
    <3>3. PICK v \in ActiveVersions : mem'[i].target = v
      BY <1>1, <3>2 DEF Memory, IndexTypeOK
    <3> QED
      BY <3>2, <3>3 DEF ActiveVersions
  <2>7. CASE ~Load(i) /\ ~Prepare(i) /\ ~RecordBatch(i) /\ ~(\E k \in JobIds : Claim(i, k))
    BY <1>1, <1>3, <2>1, <2>2, <2>7, Steady DEF Acts
  <2>8. ~(RecordBatch(i) /\ Fails(i))
    BY <1>1, <2>2 DEF Fails, GivesUp, IndexTypeOK
  <2> QED
    BY <2>3, <2>4, <2>5, <2>6, <2>7, <2>8
<1> QED
  BY <1>2, <1>3 DEF Targeting

\* The payload of the rebuild.
LEMMA PayloadKept ==
    ASSUME IndexInv, NEW i \in Indexers, Acts(i)
    PROVE  Payload'
<1>1. IndexTypeOK /\ Payload /\ jobs \in [JobIds -> JobRows] /\ versions \in [Versions -> VersionRow]
      /\ jobs[Full] \in JobRows
  BY JobKinds DEF IndexInv, IndexTypeOK
<1>2. ASSUME jobs'[Full].version = jobs[Full].version,
             jobs[Full].version = None => jobs'[Full].last = None,
             \A k \in JobIds : jobs'[k].owner # NoIndexer => jobs'[k].status = "RUNNING"
      PROVE  Payload'
  <2>1. jobs[Full].version # None => jobs[Full].version \in Versions
    BY <1>1 DEF JobRows
  <2> QED
    BY <1>1, <1>2, <2>1, BegunStays DEF Payload
<1>3. CASE Keeps
  <2>1. \A k \in JobIds : jobs'[k].owner # NoIndexer => jobs'[k].status = "RUNNING"
    BY <1>3 DEF Keeps, JobsKept, Kept
  <2>2. \/ jobs'[Full].version = jobs[Full].version /\ jobs'[Full].last = jobs[Full].last
        \/ jobs'[Full].version = None /\ jobs'[Full].last = None
    BY <1>3, JobKinds DEF Keeps, JobsKept, Kept
  <2>3. CASE jobs'[Full].version = None /\ jobs'[Full].last = None
    BY <2>1, <2>3 DEF Payload
  <2> QED
    BY <1>1, <1>2, <2>1, <2>2, <2>3 DEF Payload
<1>4. ASSUME NEW k \in JobIds, Claim(i, k) PROVE Payload'
  <2>1. jobs' = [jobs EXCEPT ![k] = [jobs[k] EXCEPT !.status = "RUNNING", !.owner = i,
                                                    !.attempt = jobs[k].attempt + 1]]
    BY <1>1, <1>4, ThreeSteps
  <2>2. \A l \in JobIds : /\ jobs'[l].version = jobs[l].version /\ jobs'[l].last = jobs[l].last
                          /\ jobs'[l].owner # NoIndexer => jobs'[l].status = "RUNNING"
    BY <1>1, <2>1 DEF JobRows, Payload
  <2> QED
    BY <1>1, <1>2, <2>2, JobKinds DEF Payload
<1>5. CASE Prepare(i)
  <2>1. CASE UNCHANGED <<jobs, versions>>
    BY <1>1, <2>1 DEF Payload
  <2>2. ASSUME NEW v \in Versions, versions' = [versions EXCEPT ![v].status = "BUILDING"],
               jobs' = [jobs EXCEPT ![Full].version = v]
        PROVE  Payload'
    <3>1. versions'[v].status # "ABSENT"
      BY <1>1, <2>2 DEF VersionRow
    <3>2. /\ jobs'[Full].version = v
          /\ \A k \in JobIds : jobs'[k].owner = jobs[k].owner /\ jobs'[k].status = jobs[k].status
      BY <1>1, <2>2, JobKinds DEF JobRows
    <3> QED
      BY <1>1, <2>2, <3>1, <3>2, JobKinds DEF Payload
  <2> QED
    BY <1>1, <1>5, <2>1, <2>2, ThreeSteps
<1>6. CASE RecordBatch(i) /\ ~Fails(i)
  <2>1. jobs' = [jobs EXCEPT ![Full].last = mem[i].doc] /\ Owner(i) /\ pc[i] = "written"
    BY <1>1, <1>6, ThreeSteps DEF MayGoOn
  <2>2. jobs[Full].version \in Versions
    BY <2>1 DEF IndexInv, Tied, Building, Filling, Targeting, Aiming, Rebuilding
  <2>3. \A k \in JobIds : /\ jobs'[k].version = jobs[k].version
                          /\ jobs'[k].owner = jobs[k].owner /\ jobs'[k].status = jobs[k].status
    BY <1>1, <2>1 DEF JobRows
  <2> QED
    BY <1>1, <1>2, <2>2, <2>3, JobKinds DEF Payload
<1> QED
  BY <1>3, <1>4, <1>5, <1>6, ActsKeep

\* The entries follow the checkpoint.
LEMMA UnrecordedKept ==
    ASSUME IndexInv, NEW i \in Indexers, Acts(i)
    PROVE  Unrecorded'
<1>1. /\ IndexTypeOK /\ Payload /\ Unrecorded /\ jobs \in [JobIds -> JobRows]
      /\ versions \in [Versions -> VersionRow] /\ entries \in [Versions -> [Docs -> EntryRow]]
      /\ fresh \in [Versions -> SUBSET Docs] /\ jobs[Full] \in JobRows
  BY JobKinds DEF IndexInv, IndexTypeOK
<1>2. CASE Keeps
  <2>1. \A v \in Versions : versions'[v].status = "ABSENT" => Indexed(v)' = {}
    BY <1>1, <1>2 DEF Keeps, BegunKept, Unrecorded
  <2>2. \/ jobs'[Full].version = jobs[Full].version /\ jobs'[Full].last = jobs[Full].last
        \/ jobs'[Full].version = None /\ jobs'[Full].last = None
    BY <1>2, JobKinds DEF Keeps, JobsKept, Kept
  <2>3. ASSUME NEW v \in Versions, v = jobs'[Full].version, NEW d \in fresh'[v], d > jobs'[Full].last
        PROVE  entries'[v][d] = 0
    <3>1. jobs'[Full].version = jobs[Full].version /\ jobs'[Full].last = jobs[Full].last
      BY <2>2, <2>3, JobKinds
    <3>2. d \in fresh[v] /\ entries'[v][d] = entries[v][d]
      BY <1>2, <2>3 DEF Keeps, FreshKept
    <3> QED
      BY <1>1, <2>3, <3>1, <3>2 DEF Unrecorded
  <2> QED
    BY <2>1, <2>3 DEF Unrecorded
<1>3. ASSUME NEW k \in JobIds, Claim(i, k) PROVE Unrecorded'
  <2>1. jobs'[Full].version = jobs[Full].version /\ jobs'[Full].last = jobs[Full].last
    <3>1. jobs' = [jobs EXCEPT ![k] = [jobs[k] EXCEPT !.status = "RUNNING", !.owner = i,
                                                      !.attempt = jobs[k].attempt + 1]]
      BY <1>1, <1>3, ThreeSteps
    <3> QED
      BY <1>1, <3>1, JobKinds DEF JobRows
  <2>2. UNCHANGED <<versions, entries, fresh>>
    BY <1>1, <1>3, ThreeSteps
  <2> QED
    BY <1>1, <2>1, <2>2 DEF Unrecorded, Indexed
<1>4. CASE Prepare(i)
  <2>1. CASE UNCHANGED <<jobs, versions, fresh, entries>>
    BY <1>1, <2>1 DEF Unrecorded, Indexed
  <2>2. ASSUME NEW v \in Versions, versions[v].status = "ABSENT",
               versions' = [versions EXCEPT ![v].status = "BUILDING"],
               jobs' = [jobs EXCEPT ![Full].version = v], entries' = entries,
               fresh' = [fresh EXCEPT ![v] = Docs]
        PROVE  Unrecorded'
    <3>1. \A w \in Versions : versions'[w].status = "ABSENT" => versions[w].status = "ABSENT"
      BY <1>1, <2>2 DEF VersionRow
    <3>2. jobs'[Full].version = v
      BY <1>1, <2>2, JobKinds DEF JobRows
    <3>3. \A d \in Docs : entries[v][d] = 0
      BY <1>1, <2>2 DEF Unrecorded, Indexed
    <3>4. fresh'[v] = Docs
      BY <1>1, <2>2
    <3> QED
      BY <1>1, <2>2, <3>1, <3>2, <3>3, <3>4 DEF Unrecorded, Indexed
  <2> QED
    BY <1>1, <1>4, <2>1, <2>2, ThreeSteps
<1>5. CASE RecordBatch(i) /\ ~Fails(i)
  <2> DEFINE t == mem[i].target
             e == mem[i].doc
  <2>1. /\ pc[i] = "written" /\ Owner(i) /\ UNCHANGED <<versions, fresh>>
        /\ entries' = [entries EXCEPT ![t][e] = mem[i].ver]
        /\ jobs' = [jobs EXCEPT ![Full].last = e]
    BY <1>1, <1>5, ThreeSteps DEF MayGoOn
  <2>2. /\ t = jobs[Full].version /\ mem[i].last = jobs[Full].last
        /\ t \in Versions /\ versions[t].status # "ABSENT"
    BY <2>1 DEF IndexInv, Tied, Building, Filling, Targeting, Aiming, Rebuilding
  <2>3. e \in Docs /\ e > mem[i].last
    BY <1>1, <2>1 DEF IndexInv, Handling, Handles
  <2>4. jobs'[Full].version = t /\ jobs'[Full].last = e
    BY <1>1, <2>1, <2>2, JobKinds DEF JobRows
  <2>5. ASSUME NEW v \in Versions, versions'[v].status = "ABSENT"
        PROVE  Indexed(v)' = {}
    <3>1. v # t /\ versions[v].status = "ABSENT"
      BY <2>1, <2>2, <2>5
    <3>2. entries'[v] = entries[v]
      BY <1>1, <2>1, <3>1
    <3> QED
      BY <1>1, <3>1, <3>2 DEF Unrecorded, Indexed
  <2>6. ASSUME NEW v \in Versions, v = jobs'[Full].version, NEW d \in fresh'[v], d > jobs'[Full].last
        PROVE  entries'[v][d] = 0
    <3>1. v = t /\ d \in fresh[t] /\ d > e
      BY <2>1, <2>4, <2>6
    <3>2. d \in Docs /\ d \in Nat /\ e \in Nat /\ jobs[Full].last \in Nat
      BY <1>1, <2>3, <3>1 DEF JobRows, Docs, None
    <3>3. d # e /\ d > jobs[Full].last
      BY <2>2, <2>3, <3>1, <3>2
    <3>4. entries[t][d] = 0
      BY <1>1, <2>2, <3>1, <3>3 DEF Unrecorded
    <3>5. entries'[t][d] = entries[t][d]
      BY <1>1, <2>1, <2>2, <3>2, <3>3
    <3> QED
      BY <3>1, <3>4, <3>5
  <2> QED
    BY <2>5, <2>6 DEF Unrecorded
<1> QED
  BY <1>2, <1>3, <1>4, <1>5, ActsKeep

\* The owner of the rebuild is tied to the payload.
LEMMA TiedKept ==
    ASSUME IndexInv, NEW i \in Indexers, Acts(i)
    PROVE  Tied'
<1>1. /\ IndexTypeOK /\ Handling /\ Targeting /\ Payload /\ Tied /\ jobs \in [JobIds -> JobRows]
      /\ mem[i] \in Memory /\ jobs[Full] \in JobRows /\ i # NoIndexer
      /\ pc \in [Indexers -> Places] /\ mem \in [Indexers -> Memory]
  BY JobKinds, IndexAssumption DEF IndexInv, IndexTypeOK
<1>2. ASSUME NEW j \in Indexers \ {i}, pc'[j] \in Building, Owner(j)'
      PROVE  mem'[j].target = jobs'[Full].version /\ mem'[j].last = jobs'[Full].last
  <2>1. pc'[j] = pc[j] /\ mem'[j] = mem[j]
    BY <1>1, Others DEF Acts
  <2>2. mem[j].job = Full
    BY <1>1, <1>2, <2>1 DEF Handling, Handles, Rebuilding
  <2>3. jobs'[Full].owner = j
    BY <1>2, <2>1, <2>2 DEF Owner
  <2>4. jobs[Full].owner = j /\ jobs'[Full].version = jobs[Full].version /\ jobs'[Full].last = jobs[Full].last
    BY <2>3, OwnersKept, JobKinds
  <2> QED
    BY <1>1, <1>2, <2>1, <2>2, <2>4 DEF Tied, Owner
<1>3. ASSUME pc'[i] \in Building, Owner(i)'
      PROVE  mem'[i].target = jobs'[Full].version /\ mem'[i].last = jobs'[Full].last
  <2>1. pc'[i] \notin {"idle", "failing", "prepare", "load", "listing", "alias"}
    BY <1>3 DEF Building, Filling, Filled
  <2>2. CASE RecordBatch(i) /\ ~Fails(i)
    <3>1. /\ pc[i] = "written" /\ Owner(i) /\ jobs' = [jobs EXCEPT ![Full].last = mem[i].doc]
          /\ mem'[i].target = mem[i].target /\ mem'[i].last = mem[i].doc
      BY <1>1, <2>2, ThreeSteps DEF MayGoOn
    <3>2. jobs'[Full].version = jobs[Full].version /\ jobs'[Full].last = mem[i].doc
      BY <1>1, <3>1, JobKinds DEF JobRows
    <3> QED
      BY <1>1, <3>1, <3>2 DEF Tied, Building, Filling
  <2>3. CASE Prepare(i)
    <3>1. CASE jobs' = jobs /\ mem'[i] = [mem[i] EXCEPT !.target = jobs[Full].version,
                                                        !.last = jobs[Full].last]
      BY <1>1, <3>1 DEF Memory
    <3>2. ASSUME NEW v \in Versions, jobs[Full].version = None, jobs' = [jobs EXCEPT ![Full].version = v],
                 mem'[i] = [mem[i] EXCEPT !.target = v]
          PROVE  mem'[i].target = jobs'[Full].version /\ mem'[i].last = jobs'[Full].last
      <4>1. jobs'[Full].version = v /\ jobs'[Full].last = jobs[Full].last
        BY <1>1, <3>2, JobKinds DEF JobRows
      <4>2. mem'[i].target = v /\ mem'[i].last = mem[i].last
        BY <1>1, <3>2 DEF Memory
      <4>3. mem[i].last = None /\ jobs[Full].last = None
        BY <1>1, <2>3, <3>2 DEF Prepare, Handling, Handles, Payload
      <4> QED
        BY <4>1, <4>2, <4>3
    <3> QED
      BY <1>1, <2>3, <3>1, <3>2, ThreeSteps
  <2>4. CASE \E k \in JobIds : Claim(i, k)
    BY <1>1, <2>1, <2>4, ThreeSteps
  <2>5. ~Load(i) /\ ~(RecordBatch(i) /\ Fails(i))
    <3>1. ~Fails(i)
      BY <1>1, <2>1 DEF Fails, GivesUp
    <3>2. ~Load(i)
      BY <1>1, <2>1, <3>1, Success
    <3> QED
      BY <3>1, <3>2
  <2>6. CASE ~Prepare(i) /\ ~RecordBatch(i) /\ ~(\E k \in JobIds : Claim(i, k))
    <3>1. /\ mem'[i].job = mem[i].job /\ mem'[i].target = mem[i].target
          /\ mem'[i].last = mem[i].last /\ pc[i] \in Building
      BY <1>1, <1>3, <2>1, <2>5, <2>6, Steady DEF Acts
    <3>2. mem[i].job = Full
      BY <1>1, <3>1 DEF Handling, Handles, Rebuilding
    <3>3. Kept(Full, jobs'[Full])
      BY <2>5, <2>6, ActsKeep, JobKinds DEF Keeps, JobsKept
    <3>4. jobs'[Full].owner = i
      BY <1>3, <3>1, <3>2 DEF Owner
    <3>5. /\ jobs[Full].owner = i /\ jobs'[Full].version = jobs[Full].version
          /\ jobs'[Full].last = jobs[Full].last
      BY <1>1, <3>3, <3>4 DEF Kept
    <3> QED
      BY <1>1, <3>1, <3>2, <3>5 DEF Tied, Owner
  <2> QED
    BY <2>2, <2>3, <2>4, <2>5, <2>6
<1> QED
  BY <1>2, <1>3 DEF Tied

\* Fewer chunks ahead, more chunks behind.
LEMMA Behind ==
    ASSUME NEW S, NEW T, S \subseteq T
    PROVE  Cardinality(Docs \ T) <= Cardinality(Docs \ S) /\ Cardinality(Docs \ T) \in Nat
           /\ Cardinality(Docs \ S) \in Nat
<1>1. IsFiniteSet(Docs \ S) /\ Cardinality(Docs \ S) \in 0 .. DocCount
      /\ Cardinality(Docs \ T) \in 0 .. DocCount /\ Docs \ T \subseteq Docs \ S
  BY DocsCounted
<1>2. Cardinality(Docs \ T) <= Cardinality(Docs \ S)
  BY <1>1, FS_Subset
<1> QED
  BY <1>1, <1>2, JobKinds

\* A chunk that was ahead and comes next.
LEMMA NextChunk ==
    ASSUME IndexTypeOK, NEW v \in Versions, NEW last \in Docs \cup {None}, NEW d \in Ahead(fresh[v], last)
    PROVE  Cardinality(Docs \ Ahead(fresh[v], last)) + 1 <= Cardinality(Docs \ Ahead(fresh[v], d))
<1> DEFINE S == Docs \ Ahead(fresh[v], last)
           T == Docs \ Ahead(fresh[v], d)
<1>1. /\ d \in Docs /\ d > last /\ fresh[v] \subseteq Docs
      /\ \A e \in Docs : e \in Nat
  BY DEF IndexTypeOK, Ahead, Docs
<1>2. IsFiniteSet(S) /\ IsFiniteSet(T) /\ Cardinality(S) \in Nat /\ Cardinality(T) \in Nat
  BY DocsCounted, JobKinds
<1>3. d \notin S /\ d \in T
  BY <1>1 DEF Ahead
<1>4. S \cup {d} \subseteq T
  <2>1. last \in Nat /\ d \in Nat
    BY <1>1 DEF None, Docs
  <2>2. ASSUME NEW e \in S
        PROVE  e \in T
    <3>1. e \in Docs /\ e \in Nat /\ (e \in fresh[v] => ~(e > last))
      BY <2>2 DEF Ahead, Docs
    <3>2. e \in fresh[v] => ~(e > d)
      BY <1>1, <2>1, <3>1
    <3> QED
      BY <3>1, <3>2 DEF Ahead
  <2> QED
    BY <1>3, <2>2
<1>5. Cardinality(S \cup {d}) = Cardinality(S) + 1
  BY <1>2, <1>3, FS_AddElement
<1>6. Cardinality(S \cup {d}) <= Cardinality(T)
  BY <1>2, <1>4, FS_Subset
<1> QED
  BY <1>2, <1>5, <1>6

\* The chunks counted are behind the checkpoint.
LEMMA CountedKept ==
    ASSUME IndexInv, NEW i \in Indexers, Acts(i)
    PROVE  Counted'
<1>1. /\ IndexTypeOK /\ Handling /\ Targeting /\ Counted /\ Tied /\ Unrecorded
      /\ jobs \in [JobIds -> JobRows] /\ jobs[Full] \in JobRows
      /\ mem[i] \in Memory /\ i # NoIndexer /\ fresh \in [Versions -> SUBSET Docs]
      /\ pc \in [Indexers -> Places] /\ mem \in [Indexers -> Memory]
  BY JobKinds, IndexAssumption DEF IndexInv, IndexTypeOK
<1>2. ASSUME NEW j \in Indexers, mem'[j].target = mem[j].target, mem[j].job = Full,
             pc[j] \in Building, jobs[Full].owner = j
      PROVE  fresh'[mem[j].target] \subseteq fresh[mem[j].target] \/ Prepare(i)
  <2>1. mem[j].target \in Versions
    BY <1>1, <1>2 DEF Targeting, Aiming, Rebuilding, Building, Filling, Filled
  <2>2. CASE Keeps
    BY <2>1, <2>2 DEF Keeps, FreshKept
  <2>3. CASE (\E k \in JobIds : Claim(i, k)) \/ (RecordBatch(i) /\ ~Fails(i))
    BY <1>1, <2>3, ThreeSteps
  <2> QED
    BY <2>2, <2>3, ActsKeep
<1>3. ASSUME NEW j \in Indexers, NEW v \in Versions, fresh'[v] \subseteq fresh[v], NEW d
      PROVE  Ahead(fresh'[v], d) \subseteq Ahead(fresh[v], d)
  BY <1>3 DEF Ahead
<1>4. ASSUME NEW j \in Indexers, pc[j] \in Filling, pc'[j] = pc[j], mem'[j] = mem[j],
             Owner(j)', ~Prepare(i), jobs[Full].owner = j
      PROVE  /\ pc'[j] = "batch" =>
                   mem'[j].done <= Cardinality(Docs \ Ahead(fresh'[mem[j].target], mem[j].last))
             /\ pc'[j] \in {"write", "written"} =>
                   mem'[j].done + 1 <= Cardinality(Docs \ Ahead(fresh'[mem[j].target], mem[j].doc))
  <2>1. mem[j].job = Full /\ mem[j].target \in Versions /\ mem[j].done \in Nat
    BY <1>1, <1>4, Kinds DEF Handling, Handles, Rebuilding, Building, Filling
  <2>2. fresh'[mem[j].target] \subseteq fresh[mem[j].target]
    BY <1>2, <1>4, <2>1 DEF Building
  <2>3. \A d : Cardinality(Docs \ Ahead(fresh[mem[j].target], d)) <= Cardinality(Docs \ Ahead(fresh'[mem[j].target], d))
               /\ Cardinality(Docs \ Ahead(fresh[mem[j].target], d)) \in Nat
               /\ Cardinality(Docs \ Ahead(fresh'[mem[j].target], d)) \in Nat
    BY <1>3, <1>4, <2>1, <2>2, Behind
  <2>4. Owner(j)
    BY <1>4, <2>1 DEF Owner
  <2>5. pc[j] = "batch" =>
            mem[j].done <= Cardinality(Docs \ Ahead(fresh[mem[j].target], mem[j].last))
    BY <1>1, <2>4 DEF Counted
  <2>6. pc[j] \in {"write", "written"} =>
            mem[j].done + 1 <= Cardinality(Docs \ Ahead(fresh[mem[j].target], mem[j].doc))
    BY <1>1, <2>4 DEF Counted
  <2>7. pc'[j] = "batch" =>
            mem'[j].done <= Cardinality(Docs \ Ahead(fresh'[mem[j].target], mem[j].last))
    BY <1>4, <2>1, <2>3, <2>5
  <2>8. pc'[j] \in {"write", "written"} =>
            mem'[j].done + 1 <= Cardinality(Docs \ Ahead(fresh'[mem[j].target], mem[j].doc))
    BY <1>4, <2>1, <2>3, <2>6
  <2> QED
    BY <2>7, <2>8
<1>5. ASSUME NEW j \in Indexers \ {i}, pc'[j] \in Filling, Owner(j)'
      PROVE  /\ pc'[j] = "batch" =>
                   mem'[j].done <= Cardinality(Docs \ Ahead(fresh'[mem'[j].target], mem'[j].last))
             /\ pc'[j] \in {"write", "written"} =>
                   mem'[j].done + 1 <= Cardinality(Docs \ Ahead(fresh'[mem'[j].target], mem'[j].doc))
  <2>1. pc'[j] = pc[j] /\ mem'[j] = mem[j]
    BY <1>1, Others DEF Acts
  <2>2. mem[j].job = Full
    BY <1>1, <1>5, <2>1 DEF Handling, Handles, Rebuilding, Building
  <2>3. jobs[Full].owner = j
    BY <1>5, <2>1, <2>2, OwnersKept, JobKinds DEF Owner
  <2>4. CASE ~Prepare(i)
    BY <1>4, <1>5, <2>1, <2>3, <2>4
  <2>5. CASE Prepare(i)
    <3>1. mem[i].job = Full /\ ~Owner(i)
      BY <1>1, <2>3, <2>5 DEF Handling, Handles, Rebuilding, Owner, Prepare
    <3>2. fresh' = fresh
      BY <1>1, <2>5, <3>1, ThreeSteps
    <3> QED
      BY <1>1, <1>5, <2>1, <2>2, <2>3, <3>2 DEF Counted, Owner, Ahead
  <2> QED
    BY <2>4, <2>5
<1>6. ASSUME pc'[i] \in Filling, Owner(i)'
      PROVE  /\ pc'[i] = "batch" =>
                   mem'[i].done <= Cardinality(Docs \ Ahead(fresh'[mem'[i].target], mem'[i].last))
             /\ pc'[i] \in {"write", "written"} =>
                   mem'[i].done + 1 <= Cardinality(Docs \ Ahead(fresh'[mem'[i].target], mem'[i].doc))
  <2>1. pc'[i] \notin {"idle", "failing", "prepare", "load", "listing", "alias", "collection"}
    BY <1>6 DEF Filling
  <2>2. CASE RecordBatch(i) /\ ~Fails(i)
    <3>1. /\ pc[i] = "written" /\ Owner(i) /\ fresh' = fresh /\ pc'[i] = "batch"
          /\ mem'[i].target = mem[i].target /\ mem'[i].last = mem[i].doc
          /\ mem'[i].done = mem[i].done + 1
      BY <1>1, <2>2, ThreeSteps DEF MayGoOn
    <3> QED
      BY <1>1, <3>1 DEF Counted, Ahead
  <2>3. ~Prepare(i) /\ ~(\E k \in JobIds : Claim(i, k))
    BY <1>1, <2>1, ThreeSteps, ZenonT(40)
  <2>4. ~Fails(i) /\ ~Load(i)
    <3>1. ~Fails(i)
      BY <1>1, <2>1 DEF Fails, GivesUp
    <3> QED
      BY <1>1, <2>1, <3>1, Success
  <2>5. CASE ~RecordBatch(i)
    <3>1. /\ mem'[i].job = mem[i].job /\ mem'[i].target = mem[i].target
          /\ mem'[i].last = mem[i].last /\ pc[i] \in Building
      BY <1>1, <1>6, <2>1, <2>3, <2>4, <2>5, Steady DEF Acts, Building
    <3>2. mem[i].job = Full /\ mem[i].target \in Versions /\ mem[i].last \in Docs \cup {None}
      BY <1>1, <3>1, Kinds DEF Handling, Handles, Rebuilding, Building, Filling, Filled
    <3>3. Kept(Full, jobs'[Full])
      BY <2>3, <2>5, ActsKeep, JobKinds DEF Keeps, JobsKept
    <3>4. jobs[Full].owner = i
      BY <1>1, <1>6, <3>1, <3>2, <3>3 DEF Owner, Kept
    <3>5. CASE CountEntries(i)
      <4>1. /\ pc[i] = "resume" /\ pc'[i] = "batch" /\ UNCHANGED <<fresh, entries, jobs>>
            /\ mem'[i] = [mem[i] EXCEPT !.done = Cardinality(Indexed(mem[i].target))]
        BY <1>1, <3>5 DEF CountEntries, Goto, Learn, dbVars
      <4>2. mem'[i].done = Cardinality(Indexed(mem[i].target))
        BY <1>1, <4>1 DEF Memory
      <4>3. mem[i].target = jobs[Full].version /\ mem[i].last = jobs[Full].last
        BY <1>1, <3>1, <3>2, <3>4 DEF Tied, Owner
      <4>4. Indexed(mem[i].target) \subseteq Docs \ Ahead(fresh[mem[i].target], mem[i].last)
        BY <1>1, <3>2, <4>3 DEF Unrecorded, Indexed, Ahead
      <4>5. Cardinality(Indexed(mem[i].target)) <= Cardinality(Docs \ Ahead(fresh[mem[i].target], mem[i].last))
        BY <4>4, DocsCounted, FS_Subset
      <4> QED
        BY <3>1, <4>1, <4>2, <4>5 DEF Ahead
    <3>6. CASE LoadBatch(i)
      <4>1. pc[i] = "batch" /\ UNCHANGED <<fresh, docs, jobs>> /\ pc'[i] \in {"count", "write"}
        BY <1>1, <3>6 DEF LoadBatch, Goto, dbVars
      <4>2. PICK d \in Remaining(i) :
                mem' = [mem EXCEPT ![i] = [mem[i] EXCEPT !.doc = d, !.ver = docs[d].ver,
                                                         !.chunk = docs[d].chunk]]
        BY <1>1, <1>6, <3>6 DEF LoadBatch, Goto, Learn, Filling
      <4>3. mem'[i].doc = d /\ mem'[i].done = mem[i].done
        BY <1>1, <4>2 DEF Memory
      <4>4. d \in Ahead(fresh[mem[i].target], mem[i].last)
        BY <4>2 DEF Remaining, Ahead
      <4>5. Cardinality(Docs \ Ahead(fresh[mem[i].target], mem[i].last)) + 1
              <= Cardinality(Docs \ Ahead(fresh[mem[i].target], d))
        BY <1>1, <3>2, <4>4, NextChunk
      <4>6. mem[i].done <= Cardinality(Docs \ Ahead(fresh[mem[i].target], mem[i].last))
        BY <1>1, <3>2, <3>4, <4>1 DEF Counted, Owner
      <4>7. /\ Cardinality(Docs \ Ahead(fresh[mem[i].target], mem[i].last)) \in 0 .. DocCount
            /\ Cardinality(Docs \ Ahead(fresh[mem[i].target], d)) \in 0 .. DocCount /\ mem[i].done \in Nat
        BY <1>1, Kinds, DocsCounted
      <4>8. mem[i].done + 1 <= Cardinality(Docs \ Ahead(fresh[mem[i].target], d))
        BY <4>5, <4>6, <4>7, JobKinds
      <4> QED
        BY <1>6, <3>1, <4>1, <4>3, <4>8 DEF Ahead
    <3>7. CASE WriteBatch(i)
      <4>1. pc[i] = "write" /\ pc'[i] = "written" /\ mem' = mem /\ fresh' = fresh
        BY <1>1, <2>4, <3>7, Success DEF dbVars
      <4> QED
        BY <1>1, <3>2, <3>4, <4>1 DEF Counted, Owner, Ahead
    <3>8. CASE LoseLease(i)
      BY <1>4, <1>6, <2>3, <3>4, <3>8 DEF LoseLease
    <3>9. CASE ~CountEntries(i) /\ ~LoadBatch(i) /\ ~WriteBatch(i) /\ ~LoseLease(i)
      <4>1. ~Error(i) /\ ~Unanswered(i) /\ ~Refused(i)
        BY <1>1, <2>1, <2>4, Failures DEF Stops
      <4>2. pc'[i] \in {"batch", "write", "written"}
        BY <1>6 DEF Filling
      <4>3. ~(CheckAlias(i) \/ UseCollection(i) \/ Verify(i) \/ DeletePoints(i) \/ Upsert(i)
              \/ StoreEntry(i) \/ SwitchAlias(i))
        BY <1>1, <2>4, <4>2, Success
      <4>4. ~(ForgetEntry(i) \/ CreateCollection(i) \/ CreateIndexes(i) \/ CountEligible(i)
              \/ MarkReady(i) \/ Activate(i))
        BY <1>1, <4>2 DEF ForgetEntry, CreateCollection, Makes, CreateIndexes, CountEligible, MarkReady,
                          Activate, Done, Goto
      <4>5. ~(ActivationFails(i) \/ Compensate(i) \/ ListCollections(i) \/ ChooseCollections(i)
              \/ MarkFailure(i) \/ Finish(i) \/ Crash(i))
        BY <1>1, <4>2 DEF ActivationFails, Compensate, GiveUp, Names, ListCollections, ChooseCollections,
                          MarkFailure, Finish, Crash, Done, Goto
      <4>6. ~DropCollection(i)
        BY <1>1, <4>2 DEF DropCollection, Drops, NextDropped, Done, Goto
      <4> QED
        BY <2>3, <2>4, <2>5, <3>9, <4>1, <4>3, <4>4, <4>5, <4>6
           DEF Acts, Handler, Reindex, Rebuild, Cleanup
    <3> QED
      BY <3>5, <3>6, <3>7, <3>8, <3>9
  <2> QED
    BY <2>2, <2>4, <2>5
<1> QED
  BY <1>5, <1>6 DEF Counted, Filling

\* The API and the worker leave what the handlers rely on.
LEMMA ApiInv ==
    ASSUME IndexInv, Api
    PROVE  IndexInv'
<1>1. /\ IndexTypeOK /\ Numbered /\ Payload /\ Keeps /\ UNCHANGED <<versions, pc, mem>>
      /\ IndexTypeOK' /\ Numbered'
      /\ fresh \in [Versions -> SUBSET Docs] /\ mem \in [Indexers -> Memory]
  BY ApiKeeps, ApiTypes DEF IndexInv, IndexTypeOK
<1>2. Handling' /\ Targeting'
  BY <1>1 DEF IndexInv, Handling, Targeting
<1>3. /\ \A k \in JobIds : jobs'[k].owner # NoIndexer =>
            /\ jobs'[k].owner = jobs[k].owner /\ jobs'[k].status = "RUNNING"
            /\ jobs'[k].version = jobs[k].version /\ jobs'[k].last = jobs[k].last
      /\ \/ jobs'[Full].version = jobs[Full].version /\ jobs'[Full].last = jobs[Full].last
         \/ jobs'[Full].version = None /\ jobs'[Full].last = None
  BY <1>1, JobKinds DEF Keeps, JobsKept, Kept
<1>4. Payload'
  BY <1>1, <1>3 DEF Payload
<1>5. Unrecorded'
  <2>1. \A v \in Versions : versions'[v].status = "ABSENT" => Indexed(v)' = {}
    BY <1>1 DEF IndexInv, Keeps, BegunKept, Unrecorded
  <2>2. ASSUME NEW v \in Versions, v = jobs'[Full].version, NEW d \in fresh'[v], d > jobs'[Full].last
        PROVE  entries'[v][d] = 0
    <3>1. jobs'[Full].version = jobs[Full].version /\ jobs'[Full].last = jobs[Full].last
      BY <1>3, <2>2, JobKinds
    <3>2. d \in fresh[v] /\ entries'[v][d] = entries[v][d]
      BY <1>1, <2>2 DEF Keeps, FreshKept
    <3> QED
      BY <2>2, <3>1, <3>2 DEF IndexInv, Unrecorded
  <2> QED
    BY <2>1, <2>2 DEF Unrecorded
<1>6. ASSUME NEW i \in Indexers, pc[i] \in Building, Owner(i)'
      PROVE  /\ Owner(i) /\ mem[i].job = Full
             /\ jobs'[Full].version = jobs[Full].version /\ jobs'[Full].last = jobs[Full].last
  <2>1. mem[i].job = Full
    BY <1>6 DEF IndexInv, Handling, Handles, Rebuilding
  <2>2. jobs'[Full].owner = i /\ i # NoIndexer
    BY <1>1, <1>6, <2>1, IndexAssumption DEF Owner
  <2> QED
    BY <1>3, <2>1, <2>2, JobKinds DEF Owner
<1>7. Tied'
  BY <1>1, <1>6 DEF IndexInv, Tied
<1>8. Counted'
  <2>1. ASSUME NEW i \in Indexers, pc[i] \in Filling, Owner(i)', NEW d
        PROVE  /\ Cardinality(Docs \ Ahead(fresh[mem[i].target], d))
                    <= Cardinality(Docs \ Ahead(fresh'[mem[i].target], d))
               /\ Cardinality(Docs \ Ahead(fresh[mem[i].target], d)) \in Nat
               /\ Cardinality(Docs \ Ahead(fresh'[mem[i].target], d)) \in Nat
    <3>1. mem[i].target \in Versions
      BY <2>1 DEF IndexInv, Targeting, Aiming, Rebuilding, Building, Filling
    <3>2. Ahead(fresh'[mem[i].target], d) \subseteq Ahead(fresh[mem[i].target], d)
      BY <1>1, <3>1 DEF Keeps, FreshKept, Ahead
    <3> QED
      BY <3>2, Behind
  <2>2. \A i \in Indexers : mem[i].done \in Nat
    BY <1>1 DEF Memory
  <2>3. ASSUME NEW i \in Indexers, pc[i] = "batch", Owner(i)'
        PROVE  mem[i].done <= Cardinality(Docs \ Ahead(fresh'[mem[i].target], mem[i].last))
    <3>1. Owner(i)
      BY <1>6, <2>3 DEF Building, Filling
    <3>2. mem[i].done <= Cardinality(Docs \ Ahead(fresh[mem[i].target], mem[i].last))
      BY <2>3, <3>1 DEF IndexInv, Counted
    <3> QED
      BY <2>1, <2>2, <2>3, <3>2 DEF Filling
  <2>4. ASSUME NEW i \in Indexers, pc[i] \in {"write", "written"}, Owner(i)'
        PROVE  mem[i].done + 1 <= Cardinality(Docs \ Ahead(fresh'[mem[i].target], mem[i].doc))
    <3>1. Owner(i)
      BY <1>6, <2>4 DEF Building, Filling
    <3>2. mem[i].done + 1 <= Cardinality(Docs \ Ahead(fresh[mem[i].target], mem[i].doc))
      BY <2>4, <3>1 DEF IndexInv, Counted
    <3> QED
      BY <2>1, <2>2, <2>4, <3>2 DEF Filling
  <2> QED
    BY <1>1, <2>3, <2>4 DEF Counted
<1> QED
  BY <1>1, <1>2, <1>4, <1>5, <1>7, <1>8 DEF IndexInv

\* The initial states, and every step.
LEMMA InitInv ==
    ASSUME Init
    PROVE  IndexInv
<1>1. IndexTypeOK
  BY InitTypes
<1>2. \A i \in Indexers : pc[i] = "idle" /\ mem[i] = Nothing
  BY DEF Init
<1>3. Handling /\ Targeting /\ Tied /\ Counted
  BY <1>2 DEF Handling, Handles, Targeting, Tied, Counted, Aiming, Reindexing, Rebuilding, Building,
              Filling, Filled, Cleaning, Ending, Nothing
<1>4. Numbered
  BY JobKinds DEF Init, Numbered
<1>5. jobs[Full] = NoJob /\ \A k \in JobIds : jobs[k].owner = NoIndexer
  BY JobKinds DEF Init, NoJob, NewJob
<1>6. Payload
  BY <1>5, JobKinds DEF Payload, NoJob, NewJob, None
<1>7. Unrecorded
  BY <1>5, JobKinds DEF Init, Unrecorded, Indexed
<1> QED
  BY <1>1, <1>3, <1>4, <1>6, <1>7 DEF IndexInv

\* Every step keeps the invariant.
LEMMA NextInv ==
    ASSUME IndexInv, [Next]_vars
    PROVE  IndexInv'
<1>1. CASE Api
  BY <1>1, ApiInv
<1>2. ASSUME NEW i \in Indexers, Acts(i)
      PROVE  IndexInv'
  <2>1. Targeting' /\ Payload' /\ Unrecorded' /\ Tied' /\ Counted'
    BY <1>2, TargetingKept, PayloadKept, UnrecordedKept, TiedKept, CountedKept
  <2>2. \A j \in Indexers \ {i} : pc'[j] = pc[j] /\ mem'[j] = mem[j]
    BY <1>2, Others DEF IndexInv, Acts
  <2>3. Handles(pc'[i], mem'[i])
    BY <1>2, HandlesKept DEF IndexInv, Acts
  <2>4. Handling'
    BY <2>2, <2>3 DEF IndexInv, Handling
  <2>5. IndexTypeOK' /\ Numbered'
    BY <1>2, ClaimTypes, HandlerTypes DEF IndexInv, Acts
  <2> QED
    BY <2>1, <2>4, <2>5 DEF IndexInv
<1>3. CASE UNCHANGED vars
  BY <1>3 DEF vars, dbVars, qdrantVars, IndexInv, IndexTypeOK, Handling, Targeting, Numbered,
              Payload, Unrecorded, Indexed, Tied, Owner, Counted
<1> QED
  BY <1>1, <1>2, <1>3 DEF Next, Acts

\* Types are kept by every number of indexers, documents, versions and
\* requests; a rebuild that is interrupted and resumed never counts a chunk
\* twice (checkpoint and entries of a batch, _full_reindex).
THEOREM IndexTypeCorrect == Spec => []IndexTypeOK
<1>1. Init => IndexInv
  BY InitInv
<1>2. IndexInv /\ [Next]_vars => IndexInv'
  BY NextInv
<1>3. IndexInv => IndexTypeOK
  BY DEF IndexInv
<1> QED
  BY <1>1, <1>2, <1>3, PTL DEF Spec

-----------------------------------------------------------------------------
(* Every step of a handler brings it nearer to its end.                    *)

\* How far each place is from the end.
LEMMA Lefts ==
    ASSUME NEW m \in Memory
    PROVE  /\ Rest(m) \in 0 .. DocCount
           /\ IsFiniteSet(m.drop) /\ Cardinality(m.drop) \in 0 .. Builds
           /\ Left("idle", m) = 0 /\ Left("finish", m) = 1 /\ Left("failing", m) = 2
           /\ Left("stored", m) = 3 /\ Left("forget", m) = 3
           /\ Left("upsert", m) = 4 /\ Left("remove", m) = 4
           /\ Left("delete", m) = 5 /\ Left("compensate", m) = 5
           /\ Left("alias", m) = 6 /\ Left("activate", m) = 6
           /\ Left("load", m) = 7 /\ Left("switch", m) = 7
           /\ Left("verified", m) = 8 /\ Left("count", m) = 9
           /\ Left("written", m) = 10 + 3 * Rest(m) /\ Left("write", m) = 11 + 3 * Rest(m)
           /\ Left("batch", m) = 12 + 3 * Rest(m) /\ Left("resume", m) = 13 + 3 * Rest(m)
           /\ Left("total", m) = 14 + 3 * Rest(m) /\ Left("bare", m) = 15 + 3 * Rest(m)
           /\ Left("collection", m) = 16 + 3 * Rest(m) /\ Left("prepare", m) = 17 + 3 * DocCount
           /\ Left("dropping", m) = 3 + Cardinality(m.drop)
           /\ Left("choosing", m) = 4 + Cardinality(m.drop)
           /\ Left("listing", m) = 5 + Builds
<1>1. m.last \in 0 .. DocCount
  BY JobKinds DEF Memory, Docs, None
<1>2. Rest(m) \in 0 .. DocCount
  BY <1>1, JobKinds DEF Rest
<1>3. IsFiniteSet(m.drop) /\ Cardinality(m.drop) \in 0 .. Builds
  <2>1. IsFiniteSet(Versions) /\ Cardinality(Versions) = Builds
    BY FS_Interval, JobKinds, 1 \in Int, Builds \in Int DEF Versions
  <2>2. m.drop \subseteq Versions
    BY DEF Memory
  <2>3. IsFiniteSet(m.drop) /\ Cardinality(m.drop) <= Builds
    BY <2>1, <2>2, FS_Subset
  <2>4. Cardinality(m.drop) \in Nat
    BY <2>3, FS_CardinalityType
  <2> QED
    BY <2>3, <2>4, JobKinds
<1>4. /\ Left("idle", m) = 0 /\ Left("finish", m) = 1 /\ Left("failing", m) = 2
      /\ Left("stored", m) = 3 /\ Left("forget", m) = 3
      /\ Left("upsert", m) = 4 /\ Left("remove", m) = 4
      /\ Left("delete", m) = 5 /\ Left("compensate", m) = 5
      /\ Left("alias", m) = 6 /\ Left("activate", m) = 6
      /\ Left("load", m) = 7 /\ Left("switch", m) = 7
      /\ Left("verified", m) = 8 /\ Left("count", m) = 9
  BY DEF Left
<1>5. /\ Left("written", m) = 10 + 3 * Rest(m) /\ Left("write", m) = 11 + 3 * Rest(m)
      /\ Left("batch", m) = 12 + 3 * Rest(m) /\ Left("resume", m) = 13 + 3 * Rest(m)
      /\ Left("total", m) = 14 + 3 * Rest(m) /\ Left("bare", m) = 15 + 3 * Rest(m)
      /\ Left("collection", m) = 16 + 3 * Rest(m) /\ Left("prepare", m) = 17 + 3 * DocCount
  BY DEF Left
<1>6. /\ Left("dropping", m) = 3 + Cardinality(m.drop)
      /\ Left("choosing", m) = 4 + Cardinality(m.drop)
      /\ Left("listing", m) = 5 + Builds
  BY DEF Left
<1> QED
  BY <1>2, <1>3, <1>4, <1>5, <1>6

\* A handler that can give up is not at its end yet.
LEMMA FarEnough ==
    ASSUME NEW m \in Memory, NEW place \in Asking \cup Querying
    PROVE  Left(place, m) \in Nat /\ Left(place, m) >= 3
<1>1. \A n \in 0 .. DocCount : 3 * n \in Nat
  BY JobKinds
<1>2. /\ Rest(m) \in 0 .. DocCount /\ 3 * Rest(m) \in Nat /\ 3 * DocCount \in Nat
      /\ Cardinality(m.drop) \in Nat /\ Builds \in Nat
  BY <1>1, Lefts, JobKinds
<1>3. CASE place \in {"stored", "forget", "upsert", "remove", "delete", "compensate", "alias",
                      "load", "switch", "verified", "count"}
  BY <1>3, Lefts
<1>4. CASE place \in {"written", "write", "batch", "resume", "total", "bare", "collection", "prepare"}
  BY <1>2, <1>4, Lefts
<1>5. CASE place \in {"dropping", "choosing", "listing"}
  BY <1>2, <1>5, Lefts
<1> QED
  BY <1>3, <1>4, <1>5 DEF Asking, Querying

\* One step of one handler.
LEMMA Nearer ==
    ASSUME IndexInv, IndexInv', NEW i \in Indexers, Acts(i), pc[i] # "idle"
    PROVE  (pc'[i] = pc[i] /\ mem'[i] = mem[i]) \/ Left(pc'[i], mem'[i]) < Left(pc[i], mem[i])
<1> DEFINE m == mem[i]
           n == mem'[i]
<1>1. /\ IndexTypeOK /\ Handling /\ Targeting /\ m \in Memory /\ n \in Memory
      /\ pc[i] \in Places /\ pc \in [Indexers -> Places] /\ mem \in [Indexers -> Memory]
      /\ Handles(pc[i], m)
  BY DEF IndexInv, IndexTypeOK, Handling
<1>2. CASE Stops(i)
  <2>1. pc'[i] \in {"idle", "failing"} /\ pc[i] \in Asking \cup Querying
    BY <1>2 DEF Stops
  <2>2. Left(pc'[i], n) \in {0, 2}
    BY <1>1, <2>1, Lefts
  <2>3. Left(pc[i], m) \in Nat /\ Left(pc[i], m) >= 3
    BY <1>1, <2>1, FarEnough
  <2> QED
    BY <2>2, <2>3
<1>3. SUFFICES ASSUME ~Stops(i), ~Fails(i)
               PROVE  (pc'[i] = pc[i] /\ n = m) \/ Left(pc'[i], n) < Left(pc[i], m)
  BY <1>1, <1>2, Failures
<1>4. ~Refused(i) /\ ~Error(i) /\ ~Unanswered(i) /\ ~(\E k \in JobIds : Claim(i, k))
  BY <1>1, <1>3, Failures DEF Claim
<1>5. /\ Rest(m) \in 0 .. DocCount /\ Rest(n) \in 0 .. DocCount /\ DocCount \in Nat
      /\ 3 * DocCount \in Nat /\ 3 * Rest(m) \in Nat /\ 3 * Rest(m) <= 3 * DocCount
      /\ 3 * Rest(n) \in Nat /\ 3 * Rest(n) <= 3 * DocCount
  <2>1. \A r \in 0 .. DocCount : 3 * r \in Nat /\ 3 * r <= 3 * DocCount
    BY JobKinds
  <2> QED
    BY <1>1, <2>1, Lefts, JobKinds
<1>6. CASE Load(i) \/ CheckAlias(i) \/ DeletePoints(i) \/ Upsert(i) \/ StoreEntry(i) \/ Verify(i)
           \/ SwitchAlias(i)
  <2>1. \/ pc[i] = "load" /\ pc'[i] = "alias"
        \/ pc[i] = "alias" /\ pc'[i] \in {"remove", "delete"}
        \/ pc[i] = "remove" /\ pc'[i] = "forget"
        \/ pc[i] = "delete" /\ pc'[i] = "upsert"
        \/ pc[i] = "upsert" /\ pc'[i] = "stored"
        \/ pc[i] = "stored" /\ pc'[i] = "finish"
        \/ pc[i] = "count" /\ pc'[i] = "verified"
        \/ pc[i] = "switch" /\ pc'[i] = "activate"
    BY <1>1, <1>3, <1>6, Success
  <2> QED
    BY <1>1, <2>1, Lefts
<1>7. CASE UseCollection(i) \/ WriteBatch(i)
  <2>1. n = m /\ \/ pc[i] = "collection" /\ pc'[i] = "total"
                 \/ pc[i] = "write" /\ pc'[i] = "written"
    BY <1>1, <1>3, <1>7, Success
  <2> QED
    BY <1>1, <1>5, <2>1, Lefts
<1>8. CASE ForgetEntry(i) \/ Activate(i) \/ MarkFailure(i) \/ MarkReady(i) \/ ActivationFails(i)
  BY <1>1, <1>8, Lefts DEF ForgetEntry, Activate, MarkFailure, MarkReady, ActivationFails, Done, Goto
<1>9. CASE CreateCollection(i) \/ CreateIndexes(i)
  <2>1. n = m /\ \/ pc[i] = "collection" /\ pc'[i] = "bare"
                 \/ pc[i] = "bare" /\ pc'[i] = "total"
    BY <1>1, <1>9 DEF CreateCollection, Makes, CreateIndexes, Goto
  <2> QED
    BY <1>1, <1>5, <2>1, Lefts
<1>10. CASE Prepare(i)
  <2>1. pc[i] = "prepare" /\ pc'[i] = "collection"
    BY <1>1, <1>10, ThreeSteps
  <2>2. Left(pc[i], m) = 17 + 3 * DocCount /\ Left(pc'[i], n) = 16 + 3 * Rest(n)
    BY <1>1, <2>1, Lefts
  <2> QED
    BY <1>5, <2>2
<1>11. CASE CountEligible(i) \/ CountEntries(i)
  <2>1. \/ pc[i] = "total" /\ pc'[i] = "resume"
        \/ pc[i] = "resume" /\ pc'[i] = "batch"
    BY <1>1, <1>11 DEF CountEligible, CountEntries, Goto
  <2>2. n.last = m.last
    BY <1>1, <1>4, <1>11, <2>1, Steady DEF Load, Prepare, RecordBatch, Handler, Rebuild
  <2> QED
    BY <1>1, <1>5, <2>1, <2>2, Lefts DEF Rest
<1>12. CASE LoadBatch(i)
  <2>1. pc[i] = "batch" /\ pc'[i] \in {"count", "write"}
    BY <1>1, <1>12 DEF LoadBatch, Goto
  <2>2. n.last = m.last
    BY <1>1, <1>4, <1>12, <2>1, Steady DEF Load, Prepare, RecordBatch, Handler, Rebuild
  <2> QED
    BY <1>1, <1>5, <2>1, <2>2, Lefts DEF Rest
<1>13. CASE RecordBatch(i)
  <2>1. pc[i] = "written" /\ pc'[i] = "batch" /\ n.last = m.doc
    BY <1>1, <1>3, <1>13, ThreeSteps
  <2>2. m.doc > m.last /\ m.doc \in Int /\ m.last \in Int
    BY <1>1, <2>1 DEF Handles, Memory, Docs, None
  <2>3. Rest(n) + 1 <= Rest(m)
    BY <2>1, <2>2, JobKinds DEF Rest
  <2>4. 3 * Rest(n) + 3 <= 3 * Rest(m)
    BY <1>5, <2>3
  <2>5. Left(pc'[i], n) = 12 + 3 * Rest(n) /\ Left(pc[i], m) = 10 + 3 * Rest(m)
    BY <1>1, <2>1, Lefts
  <2> QED
    BY <1>5, <2>4, <2>5
<1>14. CASE Compensate(i)
  <2>1. pc[i] = "compensate" /\ pc'[i] \in {"idle", "failing"}
    BY <1>1, <1>14 DEF Compensate, GiveUp, Names, Goto
  <2> QED
    BY <1>1, <2>1, Lefts
<1>15. CASE ListCollections(i)
  <2>1. pc[i] = "listing" /\ pc'[i] = "choosing"
    BY <1>1, <1>15 DEF ListCollections, Goto
  <2> QED
    BY <1>1, <2>1, Lefts, JobKinds
<1>16. CASE ChooseCollections(i)
  <2>1. pc[i] = "choosing" /\ pc'[i] = "dropping"
    BY <1>1, <1>16 DEF ChooseCollections, Goto
  <2>2. PICK recent : mem' = [mem EXCEPT ![i] = [m EXCEPT !.drop = @ \ Protected(i, recent)]]
    BY <1>16 DEF ChooseCollections, Learn
  <2>3. n.drop \subseteq m.drop
    BY <1>1, <2>2 DEF Memory
  <2>4. Cardinality(n.drop) <= Cardinality(m.drop)
    BY <1>1, <2>3, Lefts, FS_Subset
  <2> QED
    BY <1>1, <2>1, <2>4, Lefts
<1>17. CASE DropCollection(i)
  <2>1. CASE pc' = [pc EXCEPT ![i] = "finish"]
    <3>1. pc[i] = "dropping" /\ pc'[i] = "finish"
      BY <1>1, <1>17, <2>1 DEF DropCollection, Drops, NextDropped
    <3> QED
      BY <1>1, <3>1, Lefts
  <2>2. ASSUME NEW v \in m.drop, mem' = [mem EXCEPT ![i] = [m EXCEPT !.drop = @ \ {v}]], pc' = pc
        PROVE  Left(pc'[i], n) < Left(pc[i], m)
    <3>1. pc[i] = "dropping" /\ pc'[i] = "dropping"
      BY <1>17, <2>2 DEF DropCollection, Drops, NextDropped
    <3>2. n.drop = m.drop \ {v}
      BY <1>1, <2>2 DEF Memory
    <3>3. Cardinality(m.drop \ {v}) = Cardinality(m.drop) - 1
      BY <1>1, <2>2, Lefts, FS_RemoveElement
    <3>4. Left(pc'[i], n) = 3 + Cardinality(m.drop \ {v})
      BY <1>1, <3>1, <3>2, Lefts
    <3>5. Left(pc[i], m) = 3 + Cardinality(m.drop) /\ Cardinality(m.drop) \in Int
      BY <1>1, <3>1, Lefts
    <3> QED
      BY <3>3, <3>4, <3>5
  <2> QED
    BY <1>17, <2>1, <2>2 DEF DropCollection, Drops, NextDropped, Done, Goto, Learn
<1>18. CASE Finish(i)
  BY <1>1, <1>18, Lefts DEF Finish, Goto
<1>19. CASE Crash(i)
  <2>1. pc'[i] = "idle"
    BY <1>1, <1>19 DEF Crash, Goto
  <2>2. pc[i] \in Asking \cup Querying \cup {"activate", "failing", "finish"}
    BY <1>1 DEF Places, Asking, Querying
  <2>3. Left(pc[i], m) \in Nat /\ Left(pc[i], m) > 0
    BY <1>1, <2>2, FarEnough, Lefts
  <2> QED
    BY <1>1, <2>1, <2>3, Lefts
<1>20. CASE LoseLease(i)
  BY <1>20 DEF LoseLease
<1> QED
  BY <1>4, <1>6, <1>7, <1>8, <1>9, <1>10, <1>11, <1>12, <1>13, <1>14, <1>15, <1>16, <1>17, <1>18,
     <1>19, <1>20 DEF Acts, Handler, Reindex, Rebuild, Cleanup

\* However its requests fail and whatever the API does to its documents, a
\* handler comes nearer to its end with every step: the batches of a rebuild
\* only move forward, a cleanup only drops what it listed.
THEOREM HandlerAdvancesCorrect == Spec => HandlerAdvances
<1> DEFINE Advances == \A i \in Indexers :
              pc[i] # "idle" /\ <<pc[i], mem[i]>>' # <<pc[i], mem[i]>> => Distance(i)' < Distance(i)
<1>1. Init => IndexInv
  BY InitInv
<1>2. IndexInv /\ [Next]_vars => IndexInv'
  BY NextInv
<1>3. ASSUME IndexInv, IndexInv', Next
      PROVE  Advances
  <2>1. CASE Api
    <3>1. pc' = pc /\ mem' = mem
      BY <1>3, <2>1, ApiKeeps DEF IndexInv
    <3> QED
      BY <3>1
  <2>2. ASSUME NEW i \in Indexers, Acts(i)
        PROVE  Advances
    <3>1. \A j \in Indexers \ {i} : pc'[j] = pc[j] /\ mem'[j] = mem[j]
      BY <1>3, <2>2, Others DEF IndexInv, Acts
    <3>2. pc[i] # "idle" =>
              (pc'[i] = pc[i] /\ mem'[i] = mem[i]) \/ Left(pc'[i], mem'[i]) < Left(pc[i], mem[i])
      BY <1>3, <2>2, Nearer
    <3> QED
      BY <3>1, <3>2 DEF Distance
  <2> QED
    BY <1>3, <2>1, <2>2 DEF Next, Acts
<1>4. IndexInv /\ IndexInv' /\ [Next]_vars => [Advances]_vars
  BY <1>3
<1> HIDE DEF Advances
<1>5. Spec => [][Advances]_vars
  BY <1>1, <1>2, <1>4, PTL DEF Spec
<1> QED
  BY <1>5 DEF HandlerAdvances, Advances

-----------------------------------------------------------------------------
(* One indexer: what is served exists.                                     *)

\* Every action of a handler, and the places between which it leads.
LEMMA Arrows ==
    ASSUME IndexTypeOK, NEW i \in Indexers, Acts(i), ~Fails(i), ~Unanswered(i)
    PROVE  \/ Load(i) /\ pc[i] = "load" /\ pc'[i] = "alias"
           \/ CheckAlias(i) /\ pc[i] = "alias" /\ pc'[i] \in {"remove", "delete"}
           \/ DeletePoints(i) /\ pc[i] = "remove" /\ pc'[i] = "forget"
           \/ DeletePoints(i) /\ pc[i] = "delete" /\ pc'[i] = "upsert"
           \/ Upsert(i) /\ pc[i] = "upsert" /\ pc'[i] = "stored"
           \/ StoreEntry(i) /\ pc[i] = "stored" /\ pc'[i] = "finish"
           \/ ForgetEntry(i) /\ pc[i] = "forget" /\ pc'[i] = "finish"
           \/ Prepare(i) /\ pc[i] = "prepare" /\ pc'[i] = "collection"
           \/ CreateCollection(i) /\ pc[i] = "collection" /\ pc'[i] = "bare"
           \/ CreateIndexes(i) /\ pc[i] = "bare" /\ pc'[i] = "total"
           \/ UseCollection(i) /\ pc[i] = "collection" /\ pc'[i] = "total"
           \/ CountEligible(i) /\ pc[i] = "total" /\ pc'[i] = "resume"
           \/ CountEntries(i) /\ pc[i] = "resume" /\ pc'[i] = "batch"
           \/ LoadBatch(i) /\ pc[i] = "batch" /\ pc'[i] \in {"count", "write"}
           \/ WriteBatch(i) /\ pc[i] = "write" /\ pc'[i] = "written"
           \/ RecordBatch(i) /\ pc[i] = "written" /\ pc'[i] = "batch"
           \/ Verify(i) /\ pc[i] = "count" /\ pc'[i] = "verified"
           \/ MarkReady(i) /\ pc[i] = "verified" /\ pc'[i] = "switch"
           \/ SwitchAlias(i) /\ pc[i] = "switch" /\ pc'[i] = "activate"
           \/ Activate(i) /\ pc[i] = "activate" /\ pc'[i] = "finish"
           \/ ActivationFails(i) /\ pc[i] = "activate" /\ pc'[i] = "compensate"
           \/ Compensate(i) /\ pc[i] = "compensate" /\ pc'[i] \in {"idle", "failing"}
           \/ ListCollections(i) /\ pc[i] = "listing" /\ pc'[i] = "choosing"
           \/ ChooseCollections(i) /\ pc[i] = "choosing" /\ pc'[i] = "dropping"
           \/ DropCollection(i) /\ pc[i] = "dropping" /\ pc'[i] \in {"dropping", "finish"}
           \/ MarkFailure(i) /\ pc[i] = "failing" /\ pc'[i] = "finish"
           \/ Finish(i) /\ pc[i] = "finish" /\ pc'[i] = "idle"
           \/ Crash(i) /\ pc'[i] = "idle"
           \/ LoseLease(i) /\ pc'[i] = pc[i] /\ pc[i] # "idle"
           \/ (\E k \in JobIds : Claim(i, k)) /\ pc[i] = "idle"
              /\ pc'[i] \in {"prepare", "listing", "load"}
<1>1. pc \in [Indexers -> Places]
  BY DEF IndexTypeOK
<1>2. ~Refused(i) /\ ~Error(i)
  BY Failures
<1>3. /\ Load(i) => pc[i] = "load" /\ pc'[i] = "alias"
      /\ CheckAlias(i) => pc[i] = "alias" /\ pc'[i] \in {"remove", "delete"}
      /\ DeletePoints(i) => \/ pc[i] = "remove" /\ pc'[i] = "forget"
                            \/ pc[i] = "delete" /\ pc'[i] = "upsert"
      /\ Upsert(i) => pc[i] = "upsert" /\ pc'[i] = "stored"
      /\ StoreEntry(i) => pc[i] = "stored" /\ pc'[i] = "finish"
      /\ UseCollection(i) => pc[i] = "collection" /\ pc'[i] = "total"
      /\ WriteBatch(i) => pc[i] = "write" /\ pc'[i] = "written"
      /\ RecordBatch(i) => pc[i] = "written" /\ pc'[i] = "batch"
      /\ Verify(i) => pc[i] = "count" /\ pc'[i] = "verified"
      /\ SwitchAlias(i) => pc[i] = "switch" /\ pc'[i] = "activate"
  BY <1>1, Success
<1>4. /\ ForgetEntry(i) => pc[i] = "forget" /\ pc'[i] = "finish"
      /\ Prepare(i) => pc[i] = "prepare" /\ pc'[i] = "collection"
      /\ CreateCollection(i) => pc[i] = "collection" /\ pc'[i] = "bare"
      /\ CreateIndexes(i) => pc[i] = "bare" /\ pc'[i] = "total"
      /\ CountEligible(i) => pc[i] = "total" /\ pc'[i] = "resume"
      /\ CountEntries(i) => pc[i] = "resume" /\ pc'[i] = "batch"
  BY <1>1 DEF ForgetEntry, Prepare, CreateCollection, Makes, CreateIndexes, CountEligible, CountEntries,
              Done, Goto
<1>5. /\ LoadBatch(i) => pc[i] = "batch" /\ pc'[i] \in {"count", "write"}
      /\ MarkReady(i) => pc[i] = "verified" /\ pc'[i] = "switch"
      /\ Activate(i) => pc[i] = "activate" /\ pc'[i] = "finish"
      /\ ActivationFails(i) => pc[i] = "activate" /\ pc'[i] = "compensate"
      /\ Compensate(i) => pc[i] = "compensate" /\ pc'[i] \in {"idle", "failing"}
  BY <1>1 DEF LoadBatch, MarkReady, Activate, ActivationFails, Compensate, GiveUp, Names, Done, Goto
<1>6. /\ ListCollections(i) => pc[i] = "listing" /\ pc'[i] = "choosing"
      /\ ChooseCollections(i) => pc[i] = "choosing" /\ pc'[i] = "dropping"
      /\ DropCollection(i) => pc[i] = "dropping" /\ pc'[i] \in {"dropping", "finish"}
      /\ MarkFailure(i) => pc[i] = "failing" /\ pc'[i] = "finish"
      /\ Finish(i) => pc[i] = "finish" /\ pc'[i] = "idle"
      /\ Crash(i) => pc'[i] = "idle"
      /\ LoseLease(i) => pc'[i] = pc[i] /\ pc[i] # "idle"
  BY <1>1 DEF ListCollections, ChooseCollections, DropCollection, Drops, NextDropped, MarkFailure, Finish, Crash,
              LoseLease, Done, Goto
<1>7. \A k \in JobIds : Claim(i, k) => pc[i] = "idle" /\ pc'[i] \in {"prepare", "listing", "load"}
  BY ThreeSteps
<1> QED
  BY <1>2, <1>3, <1>4, <1>5, <1>6, <1>7 DEF Acts, Handler, Reindex, Rebuild, Cleanup

\* Who fails is at an end.
LEMMA FailPlaces ==
    ASSUME IndexTypeOK, NEW i \in Indexers, Fails(i)
    PROVE  /\ pc'[i] \in {"idle", "failing"} /\ pc[i] \in Asking \cup Querying
           /\ UNCHANGED <<docs, jobs, versions, entries, fresh, coll, points, alias>>
           /\ spent'.crashed = spent.crashed /\ spent'.cleaned = spent.cleaned
           /\ (spent.astray => spent'.astray) /\ (pc[i] = "compensate" => spent'.astray)
<1>1. /\ spent'.crashed = spent.crashed /\ spent'.cleaned = spent.cleaned
      /\ (spent.astray => spent'.astray) /\ (pc[i] = "compensate" => spent'.astray)
  BY Spent DEF Fails, IndexTypeOK
<1> QED
  BY <1>1 DEF IndexTypeOK, Fails, GivesUp, dbVars, qdrantVars

\* Only Activate makes a version ACTIVE, and only the version that is marked
\* READY or FAILED ceases to be.
LEMMA ActiveBy ==
    ASSUME IndexInv, NEW i \in Indexers, Acts(i), ~Activate(i)
    PROVE  /\ ActiveVersions' \subseteq ActiveVersions
           /\ \/ ActiveVersions' = ActiveVersions
              \/ MarkReady(i) /\ ActiveVersions \ {mem[i].target} \subseteq ActiveVersions'
              \/ MarkFailure(i) /\ ActiveVersions \ {jobs[Full].version} \subseteq ActiveVersions'
<1> DEFINE Goal == /\ ActiveVersions' \subseteq ActiveVersions
                   /\ \/ ActiveVersions' = ActiveVersions
                      \/ MarkReady(i) /\ ActiveVersions \ {mem[i].target} \subseteq ActiveVersions'
                      \/ MarkFailure(i) /\ ActiveVersions \ {jobs[Full].version} \subseteq ActiveVersions'
<1>1. versions \in [Versions -> VersionRow] /\ IndexTypeOK
  BY DEF IndexInv, IndexTypeOK
<1>2. ASSUME \A v \in Versions : versions'[v].status = "ACTIVE" <=> versions[v].status = "ACTIVE"
      PROVE  Goal
  BY <1>2 DEF ActiveVersions
<1>3. CASE versions' = versions
  BY <1>2, <1>3
<1>4. CASE Fails(i) \/ Unanswered(i)
  BY <1>1, <1>3, <1>4, Failures DEF Stops, dbVars
<1>5. CASE ForgetEntry(i)
  <2>1. \E c : versions' = [versions EXCEPT ![mem[i].target].count = c]
    BY <1>5 DEF ForgetEntry
  <2>2. \A v \in Versions : versions'[v].status = versions[v].status
    BY <1>1, <2>1 DEF VersionRow
  <2> QED
    BY <1>2, <2>2
<1>6. CASE StoreEntry(i) /\ ~Fails(i)
  <2>1. \E c : versions' = [versions EXCEPT ![mem[i].target].count = c]
    BY <1>1, <1>6, Success
  <2>2. \A v \in Versions : versions'[v].status = versions[v].status
    BY <1>1, <2>1 DEF VersionRow
  <2> QED
    BY <1>2, <2>2
<1>7. CASE Prepare(i)
  <2>1. \/ versions' = versions
        \/ \E v \in Versions : versions[v].status = "ABSENT"
                               /\ versions' = [versions EXCEPT ![v].status = "BUILDING"]
    BY <1>1, <1>7, ThreeSteps
  <2>2. \A v \in Versions : versions'[v].status = "ACTIVE" <=> versions[v].status = "ACTIVE"
    BY <1>1, <2>1 DEF VersionRow
  <2> QED
    BY <1>2, <2>2
<1>8. CASE MarkReady(i)
  <2>1. versions' = [versions EXCEPT ![mem[i].target] = [status |-> "READY", count |-> mem[i].total]]
    BY <1>8 DEF MarkReady
  <2> QED
    BY <1>1, <1>8, <2>1 DEF ActiveVersions
<1>9. CASE MarkFailure(i)
  <2>1. CASE versions' = [versions EXCEPT ![jobs[Full].version].status = "FAILED"]
    <3>1. \A v \in Versions : /\ v # jobs[Full].version => versions'[v] = versions[v]
                              /\ v = jobs[Full].version => versions'[v].status = "FAILED"
      BY <1>1, <2>1 DEF VersionRow
    <3> QED
      BY <1>9, <3>1 DEF ActiveVersions
  <2> QED
    BY <1>3, <1>9, <2>1 DEF MarkFailure
<1>10. CASE \E k \in JobIds : Claim(i, k)
  BY <1>1, <1>3, <1>10, ThreeSteps
<1>11. CASE ~Fails(i) /\ (Handler(i) \/ Crash(i) \/ LoseLease(i))
  BY <1>1, <1>3, <1>5, <1>6, <1>7, <1>8, <1>9, <1>11, Writers
<1> QED
  BY <1>1, <1>4, <1>10, <1>11, Failures DEF Acts

\* The collection under construction, and what a cleanup will drop.
LEMMA ServingKept ==
    ASSUME IndexInv, IndexInv', OneAtATime, Serving, ServedExists, NEW i \in Indexers, Acts(i)
    PROVE  Serving' /\ ServedExists'
<1> DEFINE m == mem[i]
           t == mem[i].target
           Good == Serving' /\ ServedExists'
<1>1. /\ IndexTypeOK /\ Handling /\ Targeting /\ m \in Memory /\ \A j \in Indexers : j = i
      /\ pc \in [Indexers -> Places] /\ mem \in [Indexers -> Memory]
      /\ coll \in [Versions -> {"absent", "bare", "complete"}]
      /\ alias \in Versions \cup {None} /\ None \notin Versions
  BY JobKinds DEF IndexInv, IndexTypeOK, OneAtATime
<1>2. /\ pc[i] \in (Building \ {"collection", "bare"}) => coll[t] = "complete"
      /\ pc[i] \in {"activate", "compensate"} /\ m.prev # None => coll[m.prev] = "complete"
      /\ pc[i] = "choosing" => m.prev = alias
      /\ pc[i] = "dropping" => alias \notin m.drop /\ ActiveVersions \cap m.drop = {}
      /\ \A v \in Versions : v = alias \/ v \in ActiveVersions => coll[v] = "complete"
  BY DEF Serving, ServedExists
<1>3. pc[i] \in Building \cup {"compensate"} => t \in Versions
  BY <1>1 DEF Targeting, Aiming, Rebuilding, Building, Filling, Filled
<1>4. SUFFICES
          /\ pc'[i] \in (Building \ {"collection", "bare"}) => coll'[mem'[i].target] = "complete"
          /\ pc'[i] \in {"activate", "compensate"} /\ mem'[i].prev # None =>
                coll'[mem'[i].prev] = "complete"
          /\ pc'[i] = "choosing" => mem'[i].prev = alias'
          /\ pc'[i] = "dropping" => alias' \notin mem'[i].drop /\ ActiveVersions' \cap mem'[i].drop = {}
          /\ \A v \in Versions : v = alias' \/ v \in ActiveVersions' => coll'[v] = "complete"
  BY <1>1 DEF Serving, ServedExists
<1> USE DEF Building, Filling, Filled
<1>5. CASE Fails(i)
  <2>1. ActiveVersions' = ActiveVersions
    BY <1>1, <1>5, FailPlaces DEF ActiveVersions
  <2> QED
    BY <1>1, <1>2, <1>5, <2>1, FailPlaces
<1>17. CASE Unanswered(i)
  <2>1. Stops(i) /\ CarriedOut(i) /\ ActiveVersions' = ActiveVersions
    BY <1>1, <1>17, Unheard DEF Stops, dbVars, ActiveVersions
  <2>2. pc'[i] \in {"idle", "failing"}
    BY <2>1 DEF Stops
  <2>3. ASSUME UNCHANGED coll, \/ alias' = alias
                               \/ alias' = m.prev /\ pc[i] = "compensate"
                               \/ alias' = t /\ pc[i] = "switch"
        PROVE  \A v \in Versions : v = alias' \/ v \in ActiveVersions' => coll'[v] = "complete"
    BY <1>1, <1>2, <1>3, <2>1, <2>3
  <2>4. ASSUME alias' = alias, coll[t] # "complete", NEW to, coll' = [coll EXCEPT ![t] = to]
        PROVE  \A v \in Versions : v = alias' \/ v \in ActiveVersions' => coll'[v] = "complete"
    BY <1>1, <1>2, <2>1, <2>4
  <2>5. ASSUME pc[i] = "dropping", NEW w \in m.drop, coll' = [coll EXCEPT ![w] = "absent"],
               alias' = IF alias = w THEN None ELSE alias
        PROVE  \A v \in Versions : v = alias' \/ v \in ActiveVersions' => coll'[v] = "complete"
    <3>1. alias' = alias /\ w # alias /\ w \notin ActiveVersions
      BY <1>2, <2>5
    <3> QED
      BY <1>1, <1>2, <2>1, <2>5, <3>1
  <2>6. \A v \in Versions : v = alias' \/ v \in ActiveVersions' => coll'[v] = "complete"
    BY <1>1, <2>1, <2>3, <2>4, <2>5, Answers
  <2> QED
    BY <2>2, <2>6
<1>6. SUFFICES ASSUME ~Fails(i), ~Unanswered(i)
      PROVE
          /\ pc'[i] \in (Building \ {"collection", "bare"}) => coll'[mem'[i].target] = "complete"
          /\ pc'[i] \in {"activate", "compensate"} /\ mem'[i].prev # None =>
                coll'[mem'[i].prev] = "complete"
          /\ pc'[i] = "choosing" => mem'[i].prev = alias'
          /\ pc'[i] = "dropping" => alias' \notin mem'[i].drop /\ ActiveVersions' \cap mem'[i].drop = {}
          /\ \A v \in Versions : v = alias' \/ v \in ActiveVersions' => coll'[v] = "complete"
  BY <1>5, <1>17
<1>7. ~Activate(i) => ActiveVersions' \subseteq ActiveVersions
  BY ActiveBy
<1>8. CASE CreateCollection(i) \/ CreateIndexes(i)
  <2>1. /\ pc'[i] \in {"bare", "total"} /\ alias' = alias /\ mem' = mem /\ ~Activate(i)
        /\ \/ pc'[i] = "bare" /\ coll[t] = "absent" /\ coll' = [coll EXCEPT ![t] = "bare"]
           \/ pc'[i] = "total" /\ coll[t] = "bare" /\ coll' = [coll EXCEPT ![t] = "complete"]
    BY <1>1, <1>8 DEF CreateCollection, Makes, CreateIndexes, Goto, Activate
  <2>2. t \in Versions
    BY <1>3, <1>8 DEF CreateCollection, Makes, CreateIndexes
  <2>3. \A v \in Versions : coll[v] = "complete" => coll'[v] = "complete"
    BY <1>1, <2>1, <2>2
  <2>4. pc'[i] = "total" => coll'[mem'[i].target] = "complete"
    BY <1>1, <2>1, <2>2
  <2> QED
    BY <1>2, <1>7, <2>1, <2>3, <2>4
<1>9. CASE UseCollection(i)
  <2>1. /\ pc'[i] = "total" /\ mem' = mem /\ coll' = coll /\ alias' = alias
        /\ ActiveVersions' = ActiveVersions /\ coll[t] \notin {"absent", "bare"} /\ t \in Versions
    BY <1>1, <1>3, <1>6, <1>9, Success DEF dbVars, qdrantVars, ActiveVersions
  <2> QED
    BY <1>1, <1>2, <2>1
<1>10. CASE SwitchAlias(i)
  <2>1. /\ pc[i] = "switch" /\ pc'[i] = "activate" /\ alias' = t /\ coll' = coll /\ versions' = versions
        /\ mem' = [mem EXCEPT ![i] = [@ EXCEPT !.prev = alias]]
    BY <1>1, <1>6, <1>10, Success DEF dbVars
  <2>2. mem'[i].prev = alias /\ mem'[i].target = t
    BY <1>1, <2>1 DEF Memory
  <2> QED
    BY <1>1, <1>2, <1>3, <2>1, <2>2 DEF ActiveVersions
<1>11. CASE Activate(i)
  <2>1. pc[i] = "activate" /\ pc'[i] = "finish" /\ coll' = coll /\ alias' = alias
        /\ versions' = ActivatedRows(t)
    BY <1>1, <1>11 DEF Activate, Done, Goto, qdrantVars
  <2>2. \A v \in Versions : v \in ActiveVersions' => v = t
    <3>1. versions \in [Versions -> VersionRow]
      BY <1>1 DEF IndexTypeOK
    <3> QED
      BY <2>1, <3>1 DEF ActiveVersions, ActivatedRows, VersionRow
  <2> QED
    BY <1>2, <2>1, <2>2
<1>12. CASE Compensate(i)
  <2>1. /\ pc[i] = "compensate" /\ pc'[i] \in {"idle", "failing"} /\ coll' = coll
        /\ alias' = m.prev /\ versions' = versions
    BY <1>1, <1>12 DEF Compensate, GiveUp, Names, Restored, Goto, dbVars
  <2> QED
    BY <1>1, <1>2, <2>1 DEF ActiveVersions
<1>13. CASE ListCollections(i)
  <2>1. /\ pc'[i] = "choosing" /\ UNCHANGED <<coll, alias, versions>>
        /\ mem' = [mem EXCEPT ![i] = [m EXCEPT !.prev = alias,
                                               !.drop = {v \in Versions : coll[v] # "absent"}]]
    BY <1>1, <1>13 DEF ListCollections, Goto, Learn, dbVars, qdrantVars
  <2>2. mem'[i].prev = alias
    BY <1>1, <2>1 DEF Memory
  <2> QED
    BY <1>1, <1>2, <2>1, <2>2 DEF ActiveVersions
<1>14. CASE ChooseCollections(i)
  <2>1. pc[i] = "choosing" /\ pc'[i] = "dropping" /\ UNCHANGED <<coll, alias, versions>>
    BY <1>1, <1>14 DEF ChooseCollections, Goto, dbVars, qdrantVars
  <2>2. PICK recent : mem' = [mem EXCEPT ![i] = [m EXCEPT !.drop = @ \ Protected(i, recent)]]
    BY <1>14 DEF ChooseCollections, Learn
  <2>3. mem'[i].drop = m.drop \ Protected(i, recent)
    BY <1>1, <2>2 DEF Memory
  <2>4. alias \in Protected(i, recent) /\ ActiveVersions \subseteq Protected(i, recent)
    BY <1>2, <2>1 DEF Protected
  <2> QED
    BY <1>2, <2>1, <2>3, <2>4 DEF ActiveVersions
<1>15. CASE DropCollection(i)
  <2>1. pc[i] = "dropping" /\ versions' = versions
    BY <1>15 DEF DropCollection, Drops, NextDropped, dbVars
  <2>2. CASE m.drop = {}
    <3>1. pc'[i] = "finish" /\ UNCHANGED <<coll, alias>>
      BY <1>1, <1>15, <2>2 DEF DropCollection, Drops, NextDropped, Done, Goto, qdrantVars
    <3> QED
      BY <1>2, <2>1, <3>1 DEF ActiveVersions
  <2>3. ASSUME NEW v \in m.drop, coll' = [coll EXCEPT ![v] = "absent"], pc' = pc,
               alias' = IF alias = v THEN None ELSE alias,
               mem' = [mem EXCEPT ![i] = [m EXCEPT !.drop = @ \ {v}]]
        PROVE  /\ alias' \notin mem'[i].drop /\ ActiveVersions' \cap mem'[i].drop = {}
               /\ \A w \in Versions : w = alias' \/ w \in ActiveVersions' => coll'[w] = "complete"
    <3>1. mem'[i].drop = m.drop \ {v} /\ ActiveVersions' = ActiveVersions
      BY <1>1, <2>1, <2>3 DEF Memory, ActiveVersions
    <3>2. alias' = alias /\ v # alias /\ v \notin ActiveVersions
      BY <1>2, <2>1, <2>3
    <3>3. \A w \in Versions : w # v => coll'[w] = coll[w]
      BY <1>1, <2>3
    <3> QED
      BY <1>2, <2>1, <3>1, <3>2, <3>3
  <2> QED
    BY <1>15, <2>1, <2>2, <2>3 DEF DropCollection, Drops, NextDropped, Learn
<1>16. CASE ~CreateCollection(i) /\ ~CreateIndexes(i) /\ ~UseCollection(i) /\ ~SwitchAlias(i)
            /\ ~Activate(i) /\ ~Compensate(i) /\ ~ListCollections(i) /\ ~ChooseCollections(i)
            /\ ~DropCollection(i)
  <2>1. UNCHANGED <<coll, alias>>
    <3>1. CASE \E k \in JobIds : Claim(i, k)
      BY <1>1, <3>1, ThreeSteps DEF qdrantVars
    <3>2. CASE Handler(i) \/ Crash(i) \/ LoseLease(i)
      BY <1>1, <1>6, <1>16, <3>2, Writers
    <3> QED
      BY <1>1, <1>6, <3>1, <3>2, Failures DEF Acts
  <2>2. pc'[i] \in (Building \ {"collection", "bare"}) =>
            pc[i] \in (Building \ {"collection", "bare"}) /\ mem'[i].target = t
    <3>1. ASSUME pc'[i] \in (Building \ {"collection", "bare"})
          PROVE  /\ pc[i] \in (Building \ {"collection", "bare"})
                 /\ ~Load(i) /\ ~Prepare(i) /\ ~(\E k \in JobIds : Claim(i, k))
      <4>1. pc[i] \in (Building \ {"collection", "bare"})
        BY <1>1, <1>6, <1>16, <3>1, Arrows
      <4>2. ~Prepare(i) /\ ~(\E k \in JobIds : Claim(i, k))
        BY <1>1, <3>1, ThreeSteps
      <4>3. ~Load(i)
        BY <1>1, <1>6, <3>1, Success
      <4> QED
        BY <4>1, <4>2, <4>3
    <3>2. CASE RecordBatch(i)
      BY <1>1, <1>6, <3>1, <3>2, ThreeSteps
    <3>3. CASE ~RecordBatch(i)
      BY <1>1, <3>1, <3>3, Steady DEF Acts
    <3> QED
      BY <3>1, <3>2, <3>3
  <2>3. pc'[i] \in {"activate", "compensate", "dropping", "choosing"} =>
            pc[i] \in {"activate", pc'[i]} /\ mem'[i] = m /\ (pc'[i] # "compensate" => pc[i] = pc'[i])
    BY <1>1, <1>6, <1>16, Arrows DEF ActivationFails, LoseLease
  <2> QED
    BY <1>2, <1>7, <1>16, <2>1, <2>2, <2>3
<1> QED
  BY <1>8, <1>9, <1>10, <1>11, <1>12, <1>13, <1>14, <1>15, <1>16

\* What the API leaves.
LEMMA ApiServing ==
    ASSUME IndexInv, Serving, ServedExists, Api
    PROVE  Serving' /\ ServedExists'
<1>1. UNCHANGED <<versions, coll, points, alias, pc, mem>>
  BY ApiKeeps DEF IndexInv, qdrantVars
<1> QED
  BY <1>1 DEF Serving, ServedExists, ActiveVersions

\* docs/index-recovery.md:6.  As long as the indexers are one, whatever rebuild
\* is interrupted, repeated or cleaned up after, the collection of the ACTIVE
\* version and that of the alias are there and complete: a rebuild switches to
\* a collection it has completed, and a cleanup drops neither.
THEOREM ServedExistsCorrect == OneAtATime => (Spec => []ServedExists)
<1> SUFFICES ASSUME OneAtATime PROVE Spec => []ServedExists
  OBVIOUS
<1>1. Init => IndexInv /\ Serving /\ ServedExists
  <2>1. ASSUME Init PROVE Serving /\ ServedExists
    BY <2>1, JobKinds DEF Init, Serving, ServedExists, ActiveVersions, Building, Filling, Filled
  <2> QED
    BY <2>1, InitInv
<1>2. IndexInv /\ [Next]_vars => IndexInv'
  BY NextInv
<1>3. ASSUME IndexInv, IndexInv', Serving, ServedExists, [Next]_vars
      PROVE  Serving' /\ ServedExists'
  <2>1. CASE UNCHANGED vars
    BY <1>3, <2>1 DEF vars, dbVars, qdrantVars, Serving, ServedExists, ActiveVersions
  <2> QED
    BY <1>3, <2>1, ApiServing, ServingKept DEF Next, Acts
<1> QED
  BY <1>1, <1>2, <1>3, PTL DEF Spec

-----------------------------------------------------------------------------
(* One indexer: the alias follows the ACTIVE version.                      *)

\* The API takes no job away from its owner.
LEMMA ApiOwners ==
    ASSUME IndexTypeOK, Payload, Api, NEW k \in JobIds, jobs[k].owner # NoIndexer
    PROVE  jobs'[k].owner = jobs[k].owner
<1>1. jobs \in [JobIds -> JobRows] /\ jobs[k].status = "RUNNING" /\ Docs \subseteq JobIds
      /\ Full \in JobIds /\ Clean \in JobIds
  BY JobKinds DEF IndexTypeOK, Payload
<1>2. Active(k) /\ jobs[k].status \notin {"QUEUED", "ENDED"}
  BY <1>1 DEF Active
<1>3. CASE EnqueueFull \/ EnqueueCleanup
  BY <1>1, <1>2, <1>3 DEF EnqueueFull, EnqueueCleanup
<1>4. CASE EnqueueFullFromCli
  BY <1>1, <1>2, <1>4 DEF EnqueueFullFromCli
<1>5. ASSUME NEW l \in JobIds, CancelJob(l)
      PROVE  jobs'[k].owner = jobs[k].owner
  BY <1>1, <1>5 DEF CancelJob, JobRows
<1>6. ASSUME NEW l \in JobIds, RetryJob(l)
      PROVE  jobs'[k].owner = jobs[k].owner
  BY <1>1, <1>2, <1>6 DEF RetryJob
<1>7. ASSUME NEW d \in Docs, jobs' = jobs \/ jobs' = [jobs EXCEPT ![d] = Enqueued(d)]
      PROVE  jobs'[k].owner = jobs[k].owner
  BY <1>1, <1>2, <1>7 DEF Enqueued
<1>8. ASSUME NEW d \in Docs, NEW hidden, EditorWrites(d, hidden)
      PROVE  jobs'[k].owner = jobs[k].owner
  BY <1>7, <1>8 DEF EditorWrites
<1>9. ASSUME NEW d \in Docs, NEW duplicate, IngestDocument(d, duplicate)
      PROVE  jobs'[k].owner = jobs[k].owner
  BY <1>7, <1>9 DEF IngestDocument
<1>10. ASSUME NEW d \in Docs, IngestUnchanged(d)
       PROVE  jobs'[k].owner = jobs[k].owner
  BY <1>7, <1>10 DEF IngestUnchanged
<1>11. ASSUME NEW d \in Docs, ReindexDocument(d)
       PROVE  jobs'[k].owner = jobs[k].owner
  BY <1>1, <1>2, <1>11 DEF ReindexDocument
<1> QED
  BY <1>3, <1>4, <1>5, <1>6, <1>8, <1>9, <1>10, <1>11
     DEF Api, EditDocument, HideDocument, RestoreDocument

\* Neither a crash nor a request that went wrong is forgotten.
LEMMA FaultsKnown ==
    ASSUME IndexInv, [Next]_vars
    PROVE  (spent.crashed => spent'.crashed) /\ (spent.astray => spent'.astray)
<1> DEFINE Goal == (spent.crashed => spent'.crashed) /\ (spent.astray => spent'.astray)
<1>1. spent \in Spending /\ IndexTypeOK /\ Handling /\ Targeting
  BY DEF IndexInv, IndexTypeOK
<1>2. CASE Api
  <2>1. Spends \/ Requested
    BY <1>2 DEF Api, EnqueueFull, EnqueueFullFromCli, EnqueueCleanup, CancelJob, RetryJob,
                EditDocument, HideDocument, RestoreDocument, EditorWrites, IngestDocument,
                IngestUnchanged, ReindexDocument, Spends
  <2> QED
    BY <1>1, <2>1, Spent
<1>3. ASSUME NEW i \in Indexers, Acts(i)
      PROVE  Goal
  <2>1. CASE Fails(i)
    BY <1>1, <2>1, FailPlaces
  <2>2. CASE \E k \in JobIds : Claim(i, k)
    BY <1>1, <2>2, ThreeSteps
  <2>3. CASE ActivationFails(i)
    BY <1>1, <2>3 DEF ActivationFails, Spending
  <2>4. CASE DropCollection(i)
    <3>1. spent' = spent \/ \E v \in mem[i].drop : spent' = [spent EXCEPT !.cleaned = @ \cup {v}]
      BY <2>4 DEF DropCollection, Drops, NextDropped
    <3> QED
      BY <1>1, <3>1 DEF Spending
  <2>5. CASE Crash(i) \/ LoseLease(i)
    BY <1>1, <2>5 DEF Crash, LoseLease, Spending
  <2>6. CASE Unanswered(i)
    BY <1>1, <2>6, Unheard
  <2> QED
    BY <1>1, <1>3, <2>1, <2>2, <2>3, <2>4, <2>5, <2>6, Writers, Failures DEF Acts
<1> QED
  BY <1>2, <1>3 DEF Next, Acts, vars

\* Without a crash an indexer at work owns its job.
LEMMA OwnerKept ==
    ASSUME IndexInv, NEW i \in Indexers, Acts(i), pc[i] # "idle" => Owner(i), ~spent'.crashed,
           pc'[i] # "idle"
    PROVE  Owner(i)'
<1>1. /\ IndexTypeOK /\ Handling /\ Targeting /\ mem[i] \in Memory /\ jobs \in [JobIds -> JobRows]
      /\ mem \in [Indexers -> Memory] /\ pc \in [Indexers -> Places] /\ spent \in Spending
      /\ Full \in JobIds
  BY JobKinds DEF IndexInv, IndexTypeOK
<1>2. ~Crash(i) /\ ~LoseLease(i)
  BY <1>1 DEF Crash, LoseLease, Spending
<1>3. CASE Stops(i)
  <2>1. pc[i] # "idle" /\ jobs' = jobs
    BY <1>3 DEF Stops, Asking, Querying, dbVars
  <2>2. mem'[i].job = mem[i].job
    BY <1>1, <1>3 DEF Stops, GivesUp, Memory
  <2> QED
    BY <2>1, <2>2 DEF Owner
<1>4. ASSUME NEW k \in JobIds, Claim(i, k)
      PROVE  Owner(i)'
  <2>1. /\ jobs' = [jobs EXCEPT ![k] = [jobs[k] EXCEPT !.status = "RUNNING", !.owner = i,
                                                       !.attempt = jobs[k].attempt + 1]]
        /\ mem' = [mem EXCEPT ![i] = [Nothing EXCEPT !.job = k]]
    BY <1>1, <1>4, ThreeSteps
  <2>2. mem'[i].job = k
    BY <1>1, <2>1 DEF Nothing
  <2>3. jobs'[k].owner = i
    BY <1>1, <2>1 DEF JobRows
  <2> QED
    BY <2>2, <2>3 DEF Owner
<1>5. CASE ~Fails(i) /\ ~Unanswered(i) /\ ~(\E k \in JobIds : Claim(i, k))
  <2>1. pc[i] # "idle" /\ Owner(i) /\ mem[i].job \in JobIds
    BY <1>1, <1>2, <1>5, Arrows, Kinds
  <2>2. ~Finish(i)
    BY <1>1 DEF Finish, Goto
  <2>3. jobs'[mem[i].job].owner = jobs[mem[i].job].owner
    <3>1. jobs' = jobs \/ Prepare(i) \/ RecordBatch(i)
      BY <1>1, <1>2, <1>5, <2>2, Writers, Failures DEF Acts
    <3>2. \/ jobs' = jobs
          \/ \E v : jobs' = [jobs EXCEPT ![Full].version = v]
          \/ \E d : jobs' = [jobs EXCEPT ![Full].last = d]
      BY <1>1, <1>5, <3>1, ThreeSteps
    <3> QED
      BY <1>1, <2>1, <3>2 DEF JobRows
  <2>4. mem'[i].job = mem[i].job
    <3>1. CASE Load(i)
      <4>1. PICK v \in ActiveVersions : mem' = [mem EXCEPT ![i] =
                [mem[i] EXCEPT !.target = v, !.ver = docs[mem[i].job].ver,
                    !.chunk = IF Eligible(mem[i].job) THEN docs[mem[i].job].chunk ELSE 0]]
        BY <1>1, <1>5, <3>1, Success
      <4> QED
        BY <1>1, <4>1 DEF Memory
    <3>2. CASE Prepare(i)
      <4>1. \/ mem'[i] = [mem[i] EXCEPT !.target = jobs[Full].version, !.last = jobs[Full].last]
            \/ \E v : mem'[i] = [mem[i] EXCEPT !.target = v]
        BY <1>1, <3>2, ThreeSteps, ZenonT(40)
      <4> QED
        BY <1>1, <4>1 DEF Memory
    <3>3. CASE RecordBatch(i)
      BY <1>1, <1>5, <3>3, ThreeSteps
    <3>4. CASE Compensate(i)
      <4>1. mem' = [mem EXCEPT ![i] = [mem[i] EXCEPT !.code = "RETRY"]]
        BY <1>1, <2>1, <3>4 DEF Compensate, GiveUp, Names, Learn
      <4> QED
        BY <1>1, <4>1 DEF Memory
    <3>5. CASE pc'[i] # "failing" /\ ~Load(i) /\ ~Prepare(i) /\ ~RecordBatch(i)
      BY <1>1, <1>5, <3>5, Steady DEF Acts
    <3>6. pc'[i] = "failing" => Compensate(i)
      BY <1>1, <1>2, <1>5, Arrows
    <3> QED
      BY <3>1, <3>2, <3>3, <3>4, <3>5, <3>6
  <2> QED
    BY <2>1, <2>3, <2>4 DEF Owner
<1> QED
  BY <1>1, <1>3, <1>4, <1>5, Failures

\* Without a crash the version of a rebuild that is not over is not active.
LEMMA PayloadActive ==
    ASSUME IndexInv, OneAtATime, Working, NEW i \in Indexers, Acts(i), ~spent.crashed,
           ~spent'.crashed, NEW v \in Versions, v = jobs'[Full].version, v \in ActiveVersions'
    PROVE  pc'[i] = "finish" /\ mem'[i].job = Full /\ mem'[i].code = "OK"
<1>1. /\ IndexTypeOK /\ Handling /\ mem[i] \in Memory /\ jobs \in [JobIds -> JobRows] /\ Full \in JobIds
      /\ versions \in [Versions -> VersionRow] /\ pc \in [Indexers -> Places] /\ spent \in Spending
  BY JobKinds DEF IndexInv, IndexTypeOK
<1>2. v = jobs[Full].version /\ v \in ActiveVersions =>
          pc[i] = "finish" /\ mem[i].job = Full /\ mem[i].code = "OK"
  BY OneAtATime DEF OneAtATime, Working, ActiveVersions
<1>3. ~Crash(i) /\ ~LoseLease(i)
  BY <1>1 DEF Crash, LoseLease, Spending
<1>4. CASE Activate(i)
  <2>1. pc[i] = "activate" /\ pc'[i] = "finish" /\ mem' = mem
    BY <1>1, <1>4 DEF Activate, Done, Goto
  <2> QED
    BY <1>1, <2>1 DEF Handling, Handles, Ending, Rebuilding, Building, Filled
<1>5. CASE ~Activate(i)
  <2>1. v \in ActiveVersions
    BY <1>5, ActiveBy
  <2>2. CASE Stops(i)
    BY <1>2, <2>1, <2>2 DEF Stops, Asking, Querying, dbVars
  <2>3. ASSUME NEW k \in JobIds, Claim(i, k)
        PROVE  FALSE
    <3>1. pc[i] = "idle" /\ jobs' = [jobs EXCEPT ![k] = [jobs[k] EXCEPT !.status = "RUNNING",
                 !.owner = i, !.attempt = jobs[k].attempt + 1]]
      BY <1>1, <2>3, ThreeSteps
    <3>2. jobs'[Full].version = jobs[Full].version
      BY <1>1, <3>1 DEF JobRows
    <3> QED
      BY <1>2, <2>1, <3>1, <3>2
  <2>4. CASE Prepare(i)
    <3>1. pc[i] = "prepare"
      BY <1>1, <2>4, ThreeSteps
    <3>2. jobs' # jobs
      BY <1>2, <2>1, <3>1
    <3>3. PICK w \in Versions : /\ versions' = [versions EXCEPT ![w].status = "BUILDING"]
                                /\ jobs' = [jobs EXCEPT ![Full].version = w]
      BY <1>1, <2>4, <3>2, ThreeSteps
    <3>4. jobs'[Full].version = w
      BY <1>1, <3>3 DEF JobRows
    <3>5. versions'[w].status = "BUILDING"
      BY <1>1, <3>3 DEF VersionRow
    <3> QED
      BY <3>4, <3>5 DEF ActiveVersions
  <2>5. CASE RecordBatch(i) /\ ~Fails(i)
    <3>1. pc[i] = "written" /\ jobs' = [jobs EXCEPT ![Full].last = mem[i].doc]
      BY <1>1, <2>5, ThreeSteps
    <3>2. jobs'[Full].version = jobs[Full].version
      BY <1>1, <3>1 DEF JobRows
    <3> QED
      BY <1>2, <2>1, <3>1, <3>2
  <2>6. CASE Finish(i)
    <3>1. pc[i] = "finish" /\ Owner(i) /\ mem[i].job \in JobIds
      BY <1>1, <2>6, Kinds DEF Finish, Working, IndexInv
    <3>2. jobs' = [jobs EXCEPT ![mem[i].job] = Outcome(mem[i].job, mem[i].code)]
      BY <2>6, <3>1 DEF Finish
    <3>3. CASE mem[i].job # Full
      BY <1>1, <1>2, <2>1, <3>1, <3>2, <3>3
    <3>4. CASE mem[i].job = Full /\ mem[i].code = "OK"
      <4>1. jobs'[Full] = NoJob
        BY <1>1, <3>2, <3>4 DEF Outcome, Released
      <4> QED
        BY <4>1, JobKinds DEF NoJob, NewJob, None, Versions
    <3>5. CASE mem[i].job = Full /\ mem[i].code # "OK"
      <4>1. jobs'[Full] = Released(Full, "QUEUED") \/ jobs'[Full] = Released(Full, "ENDED")
        BY <1>1, <3>2, <3>5 DEF Outcome
      <4>2. jobs'[Full].version = jobs[Full].version
        BY <1>1, <4>1 DEF Released, JobRows
      <4> QED
        BY <1>2, <2>1, <3>5, <4>2
    <3> QED
      BY <3>3, <3>4, <3>5
  <2>7. CASE ~Fails(i) /\ ~Unanswered(i) /\ ~(\E k \in JobIds : Claim(i, k)) /\ ~Prepare(i) /\ ~RecordBatch(i) /\ ~Finish(i)
    <3>1. jobs' = jobs
      BY <1>1, <1>3, <2>7, Writers, Failures DEF Acts
    <3>2. pc[i] # "finish"
      BY <1>1, <1>3, <2>7, Arrows
    <3> QED
      BY <1>2, <2>1, <3>1, <3>2
  <2> QED
    BY <1>1, <2>2, <2>3, <2>4, <2>5, <2>6, <2>7, Failures
<1> QED
  BY <1>4, <1>5

\* What MarkReady and a failed rebuild take from the active versions is nothing.
LEMMA ActiveKept ==
    ASSUME IndexInv, OneAtATime, Working, NEW i \in Indexers, Acts(i), ~spent.crashed, ~Activate(i)
    PROVE  ActiveVersions' = ActiveVersions
<1>1. /\ IndexTypeOK /\ Handling /\ Targeting /\ Tied /\ mem[i] \in Memory
  BY DEF IndexInv, IndexTypeOK
<1>2. jobs[Full].version \in ActiveVersions => pc[i] = "finish"
  BY OneAtATime DEF OneAtATime, Working, ActiveVersions
<1>3. CASE MarkReady(i)
  <2>1. pc[i] = "verified" /\ Owner(i)
    BY <1>3 DEF MarkReady, MayGoOn
  <2>2. mem[i].target = jobs[Full].version
    BY <1>1, <2>1 DEF Tied, Building, Filled
  <2>3. mem[i].target \notin ActiveVersions
    BY <1>2, <2>1, <2>2
  <2>4. ~MarkFailure(i)
    BY <2>1 DEF MarkFailure
  <2> QED
    BY <2>3, <2>4, ActiveBy
<1>4. CASE MarkFailure(i)
  <2>1. pc[i] = "failing" /\ ~MarkReady(i)
    BY <1>4 DEF MarkFailure, MarkReady
  <2>2. jobs[Full].version \notin ActiveVersions
    BY <1>2, <2>1
  <2> QED
    BY <2>1, <2>2, ActiveBy
<1> QED
  BY <1>3, <1>4, ActiveBy

\* The step of a handler: where the switch leaves the alias.
LEMMA SwitchingKept ==
    ASSUME IndexInv, IndexInv', OneAtATime, Serving, Working, Switching, AliasFollows,
           NEW i \in Indexers, Acts(i), ~spent.crashed
    PROVE  Working' /\ Switching' /\ AliasFollows'
<1> DEFINE t == mem[i].target
           Named(place) == ActiveVersions = (IF place = None THEN {} ELSE {place})
<1>1. /\ IndexTypeOK /\ Handling /\ Targeting /\ mem[i] \in Memory /\ mem \in [Indexers -> Memory]
      /\ versions \in [Versions -> VersionRow] /\ pc \in [Indexers -> Places] /\ spent \in Spending
      /\ \A j \in Indexers : j = i
  BY DEF IndexInv, IndexTypeOK, OneAtATime
<1>2. SUFFICES ASSUME ~spent'.crashed
               PROVE  Working' /\ Switching' /\ AliasFollows'
  BY DEF Working, Switching, AliasFollows
<1>4. ~Crash(i) /\ ~LoseLease(i)
  BY <1>1, <1>2 DEF Crash, LoseLease, Spending
<1>5. pc'[i] # "idle" => Owner(i)'
  BY <1>1, <1>2, OwnerKept DEF Working
<1>6. \A v \in Versions : v = jobs'[Full].version /\ versions'[v].status = "ACTIVE" =>
          pc'[i] = "finish" /\ mem'[i].job = Full /\ mem'[i].code = "OK"
  BY <1>2, PayloadActive DEF ActiveVersions
<1>7. ~Activate(i) => ActiveVersions' = ActiveVersions
  BY ActiveKept
<1>15. Working'
  BY <1>1, <1>5, <1>6 DEF Working
<1>16. spent.astray => spent'.astray
  BY FaultsKnown DEF Next, Acts
<1>8. SUFFICES ASSUME ~spent'.astray
               PROVE  /\ pc'[i] \in {"activate", "compensate"} =>
                            /\ alias' = mem'[i].target
                            /\ ActiveVersions' = IF mem'[i].prev = None THEN {} ELSE {mem'[i].prev}
                      /\ pc'[i] \notin {"activate", "compensate"} =>
                            ActiveVersions' = IF alias' = None THEN {} ELSE {alias'}
  BY <1>1, <1>15 DEF Switching, AliasFollows
<1>3. /\ pc[i] \in {"activate", "compensate"} => alias = t /\ Named(mem[i].prev)
      /\ pc[i] \notin {"activate", "compensate"} => Named(alias)
  BY <1>1, <1>8, <1>16 DEF Switching, AliasFollows
<1>9. CASE Fails(i)
  <2>1. pc[i] \notin {"activate", "compensate"} /\ pc'[i] \notin {"activate", "compensate"}
        /\ alias' = alias /\ ~Activate(i)
    BY <1>1, <1>8, <1>9, FailPlaces DEF Asking, Querying, Activate
  <2> QED
    BY <1>3, <1>7, <2>1
<1>10. CASE SwitchAlias(i) /\ ~Fails(i)
  <2>1. /\ pc[i] = "switch" /\ pc'[i] = "activate" /\ alias' = t
        /\ mem' = [mem EXCEPT ![i] = [@ EXCEPT !.prev = alias]]
    BY <1>1, <1>10, Success
  <2>2. mem'[i].prev = alias /\ mem'[i].target = t
    BY <1>1, <2>1 DEF Memory
  <2>3. ~Activate(i)
    BY <2>1 DEF Activate
  <2> QED
    BY <1>3, <1>7, <2>1, <2>2, <2>3
<1>11. CASE Activate(i)
  <2>1. /\ pc[i] = "activate" /\ pc'[i] = "finish" /\ alias' = alias
        /\ versions' = ActivatedRows(t)
    BY <1>1, <1>11 DEF Activate, Done, Goto, qdrantVars
  <2>2. t \in Versions /\ alias = t
    BY <1>1, <1>3, <2>1, Kinds DEF Rebuilding, Building, Filled
  <2>3. ActiveVersions' = {t}
    <3>1. \A v \in Versions : versions'[v].status = "ACTIVE" <=> v = t
      BY <1>1, <2>1 DEF ActivatedRows, VersionRow
    <3> QED
      BY <2>2, <3>1 DEF ActiveVersions
  <2>4. t # None
    BY <2>2 DEF Versions, None
  <2> QED
    BY <2>1, <2>2, <2>3, <2>4
<1>12. CASE ActivationFails(i)
  <2>1. pc[i] = "activate" /\ pc'[i] = "compensate" /\ alias' = alias /\ mem' = mem
        /\ versions' = versions
    BY <1>1, <1>12 DEF ActivationFails, Goto, dbVars, qdrantVars
  <2> QED
    BY <1>3, <2>1 DEF ActiveVersions
<1>13. CASE Compensate(i)
  <2>1. pc[i] = "compensate" /\ pc'[i] \in {"idle", "failing"} /\ alias' = mem[i].prev
        /\ versions' = versions
    BY <1>1, <1>13 DEF Compensate, GiveUp, Names, Restored, Goto, dbVars
  <2> QED
    BY <1>3, <2>1 DEF ActiveVersions
<1>17. CASE Unanswered(i)
  <2>1. Stops(i) /\ CarriedOut(i) /\ pc[i] # "switch"
    BY <1>1, <1>8, <1>17, Unheard
  <2>2. ActiveVersions' = ActiveVersions /\ pc'[i] \notin {"activate", "compensate"}
    BY <2>1 DEF Stops, dbVars, ActiveVersions
  <2>3. pc[i] # "activate"
    BY <2>1 DEF Stops, Asking, Querying
  <2>4. CASE pc[i] = "compensate"
    BY <1>1, <1>3, <2>1, <2>2, <2>4, Answers
  <2>5. CASE pc[i] = "dropping"
    <3>1. alias \notin mem[i].drop
      BY <1>1, <2>5 DEF Serving
    <3> QED
      BY <1>1, <1>3, <2>1, <2>2, <2>5, <3>1, Answers
  <2>6. CASE pc[i] \notin {"compensate", "dropping"}
    BY <1>1, <1>3, <2>1, <2>2, <2>3, <2>6, Answers
  <2> QED
    BY <2>4, <2>5, <2>6
<1>14. CASE ~Fails(i) /\ ~Unanswered(i) /\ ~SwitchAlias(i) /\ ~Activate(i) /\ ~ActivationFails(i) /\ ~Compensate(i)
  <2>1. pc[i] \notin {"activate", "compensate"} /\ pc'[i] \notin {"activate", "compensate"}
    BY <1>1, <1>4, <1>14, Arrows
  <2>2. alias' = alias
    <3>1. CASE \E k \in JobIds : Claim(i, k)
      BY <1>1, <3>1, ThreeSteps DEF qdrantVars
    <3>2. CASE DropCollection(i)
      <4>1. pc[i] = "dropping"
        BY <3>2 DEF DropCollection, Drops, NextDropped
      <4>2. alias \notin mem[i].drop
        BY <1>1, <4>1 DEF Serving
      <4> QED
        BY <3>2, <4>2 DEF DropCollection, Drops, NextDropped, qdrantVars
    <3>3. CASE (Handler(i) \/ Crash(i) \/ LoseLease(i)) /\ ~DropCollection(i)
      BY <1>1, <1>14, <3>3, Writers
    <3> QED
      BY <1>1, <1>14, <3>1, <3>2, <3>3, Failures DEF Acts
  <2> QED
    BY <1>3, <1>7, <1>14, <2>1, <2>2
<1> QED
  BY <1>9, <1>10, <1>11, <1>12, <1>13, <1>14, <1>17

\* What the API does not change.
LEMMA ApiSwitching ==
    ASSUME IndexInv, Working, Switching, AliasFollows, Api, ~spent.crashed
    PROVE  Working' /\ Switching' /\ AliasFollows'
<1>1. /\ UNCHANGED <<versions, coll, points, alias, pc, mem>> /\ Keeps /\ IndexTypeOK /\ Payload
      /\ Handling /\ Targeting
  BY ApiKeeps DEF IndexInv, qdrantVars
<1>2. ASSUME NEW i \in Indexers, pc'[i] # "idle"
      PROVE  Owner(i)'
  <2>1. Owner(i) /\ mem[i].job \in JobIds /\ i # NoIndexer
    BY <1>1, <1>2, Kinds, IndexAssumption DEF Working
  <2>2. jobs'[mem[i].job].owner = jobs[mem[i].job].owner
    BY <1>1, <2>1, ApiOwners DEF Owner
  <2> QED
    BY <1>1, <2>1, <2>2 DEF Owner
<1>3. jobs'[Full].version = jobs[Full].version \/ jobs'[Full].version = None
  BY <1>1, JobKinds DEF Keeps, JobsKept, Kept
<1>4. \A v \in Versions : v = jobs'[Full].version => v = jobs[Full].version
  BY <1>3 DEF Versions, None
<1>5. Working'
  BY <1>1, <1>2, <1>4 DEF Working
<1>6. spent.astray => spent'.astray
  BY FaultsKnown DEF Next
<1> QED
  BY <1>1, <1>5, <1>6 DEF Switching, AliasFollows, ActiveVersions

\* docs/index-recovery.md:4-5.  As long as one indexer runs, it has neither
\* crashed nor lost its job, no switch of the alias was carried out and reported
\* as failed, and no compensation failed, the alias names the ACTIVE version, or
\* nothing if there is none, except between the switch of a rebuild and its
\* transaction or compensation.  The rows and the alias are moved by the owner of
\* the rebuild alone, every other error comes before the switch or is compensated,
\* a version that is active is not in the payload of a rebuild that goes on, and
\* the compensation restores what the switch found.
THEOREM AliasFollowsCorrect == OneAtATime => (Spec => []AliasFollows)
<1> SUFFICES ASSUME OneAtATime PROVE Spec => []AliasFollows
  OBVIOUS
<1> DEFINE Inv == IndexInv /\ Serving /\ ServedExists /\ Working /\ Switching /\ AliasFollows
<1>1. Init => Inv
  <2>1. ASSUME Init PROVE Serving /\ ServedExists /\ Working /\ Switching /\ AliasFollows
    <3>1. Serving /\ ServedExists
      BY <2>1, JobKinds DEF Init, Serving, ServedExists, ActiveVersions, Building, Filling, Filled
    <3>2. ActiveVersions = {} /\ alias = None
      BY <2>1 DEF Init, ActiveVersions
    <3>3. \A i \in Indexers : pc[i] = "idle"
      BY <2>1 DEF Init
    <3> QED
      BY <3>1, <3>2, <3>3 DEF Working, Switching, AliasFollows, ActiveVersions
  <2> QED
    BY <2>1, InitInv
<1>2. Inv /\ [Next]_vars => Inv'
  <2> SUFFICES ASSUME Inv, [Next]_vars PROVE Inv'
    OBVIOUS
  <2>1. IndexInv'
    BY NextInv
  <2>2. CASE UNCHANGED vars
    BY <2>1, <2>2 DEF vars, dbVars, qdrantVars, Serving, ServedExists, ActiveVersions, Working,
                      Switching, AliasFollows, Owner
  <2>3. CASE spent.crashed /\ Next
    <3>1. spent'.crashed
      BY <2>3, FaultsKnown
    <3>2. Serving' /\ ServedExists'
      BY <2>1, <2>3, ApiServing, ServingKept DEF Next, Acts
    <3> QED
      BY <2>1, <3>1, <3>2 DEF Working, Switching, AliasFollows
  <2>4. CASE Api /\ ~spent.crashed
    BY <2>1, <2>4, ApiServing, ApiSwitching
  <2>5. ASSUME NEW i \in Indexers, Acts(i), ~spent.crashed
        PROVE  Inv'
    BY <2>1, <2>5, ServingKept, SwitchingKept
  <2> QED
    BY <2>2, <2>3, <2>4, <2>5 DEF Next, Acts
<1>3. Inv => AliasFollows
  OBVIOUS
<1> QED
  BY <1>1, <1>2, <1>3, PTL DEF Spec

-----------------------------------------------------------------------------
(* One indexer: what a reindex leaves of its document.                     *)

\* The API calls no document READY and none NOT_INDEXED.
LEMMA ApiStates ==
    ASSUME IndexTypeOK, Api, NEW d \in Docs
    PROVE  docs'[d].state \in {docs[d].state, "OUTDATED", "PENDING"}
<1>1. docs \in [Docs -> DocRows]
  BY DEF IndexTypeOK
<1>2. CASE docs' = docs
  BY <1>2
<1>3. ASSUME NEW e \in Docs, NEW hidden, EditorWrites(e, hidden)
      PROVE  docs'[d].state \in {docs[d].state, "OUTDATED", "PENDING"}
  <2>1. docs' = [docs EXCEPT ![e].ver = docs[e].ver + 1, ![e].hidden = hidden,
                             ![e].state = Outdated(@)]
    BY <1>3 DEF EditorWrites
  <2>2. docs'[d].state = docs[d].state \/ docs'[d].state = Outdated(docs[d].state)
    BY <1>1, <2>1 DEF DocRows
  <2> QED
    BY <2>2 DEF Outdated
<1>4. ASSUME NEW e \in Docs, NEW duplicate, IngestDocument(e, duplicate)
      PROVE  docs'[d].state \in {docs[d].state, "OUTDATED", "PENDING"}
  <2>1. docs' = [docs EXCEPT ![e].ver = docs[e].ver + 1, ![e].chunk = docs[e].ver + 1,
                             ![e].duplicate = duplicate, ![e].state = Outdated(@)]
    BY <1>4 DEF IngestDocument
  <2>2. docs'[d].state = docs[d].state \/ docs'[d].state = Outdated(docs[d].state)
    BY <1>1, <2>1 DEF DocRows
  <2> QED
    BY <2>2 DEF Outdated
<1>5. ASSUME NEW e \in Docs, docs' = [docs EXCEPT ![e].duplicate = FALSE]
      PROVE  docs'[d].state = docs[d].state
  BY <1>1, <1>5 DEF DocRows
<1>6. ASSUME NEW e \in Docs, docs' = [docs EXCEPT ![e].state = "PENDING"]
      PROVE  docs'[d].state \in {docs[d].state, "PENDING"}
  BY <1>1, <1>6 DEF DocRows
<1> QED
  BY <1>2, <1>3, <1>4, <1>5, <1>6
     DEF Api, EnqueueFull, EnqueueFullFromCli, EnqueueCleanup, CancelJob, RetryJob, EditDocument,
         HideDocument, RestoreDocument, IngestUnchanged, ReindexDocument

\* A reindex deletes the points of its document before it writes the new one.
LEMMA ReindexedKept ==
    ASSUME IndexInv, OneAtATime, Reindexed, NEW i \in Indexers, Acts(i)
    PROVE  Reindexed'
<1> DEFINE t == mem[i].target
           d == mem[i].job
<1>1. /\ IndexTypeOK /\ Handling /\ Targeting /\ mem[i] \in Memory /\ pc \in [Indexers -> Places]
      /\ points \in [Versions -> SUBSET (Docs \X (1 .. MaxVersion))]
      /\ \A j \in Indexers : j = i
  BY DEF IndexInv, IndexTypeOK, OneAtATime
<1>2. SUFFICES /\ pc'[i] \in {"upsert", "forget"} =>
                     OfDoc(points'[mem'[i].target], mem'[i].job) = {}
               /\ pc'[i] = "stored" =>
                     OfDoc(points'[mem'[i].target], mem'[i].job) = {<<mem'[i].job, mem'[i].ver>>}
  BY <1>1 DEF Reindexed
<1>3. CASE Stops(i)
  BY <1>3 DEF Stops
<1>4. CASE DeletePoints(i) /\ ~Fails(i)
  <2>1. /\ pc'[i] \in {"upsert", "forget"} /\ mem' = mem /\ points' = [points EXCEPT ![t] = {p \in @ : p[1] # d}]
        /\ pc[i] \in {"remove", "delete"}
    BY <1>1, <1>4, Success
  <2>2. t \in Versions
    BY <1>1, <2>1, Kinds DEF Reindexing
  <2>3. points'[t] = {p \in points[t] : p[1] # d}
    BY <1>1, <2>1, <2>2
  <2> QED
    BY <2>1, <2>3 DEF OfDoc
<1>5. CASE Upsert(i) /\ ~Fails(i)
  <2>1. /\ pc[i] = "upsert" /\ pc'[i] = "stored" /\ mem' = mem
        /\ points' = [points EXCEPT ![t] = @ \cup {<<d, mem[i].ver>>}]
    BY <1>1, <1>5, Success
  <2>2. t \in Versions
    BY <1>1, <2>1, Kinds DEF Reindexing
  <2>3. points'[t] = points[t] \cup {<<d, mem[i].ver>>}
    BY <1>1, <2>1, <2>2
  <2>4. OfDoc(points[t], d) = {}
    BY <2>1 DEF Reindexed
  <2>5. OfDoc(points'[t], d) = {<<d, mem[i].ver>>}
    BY <2>3, <2>4 DEF OfDoc
  <2> QED
    BY <2>1, <2>5
<1>6. CASE /\ ~Fails(i) /\ ~Unanswered(i) /\ ~DeletePoints(i) /\ ~Upsert(i)
           /\ pc'[i] \in {"upsert", "forget", "stored"}
  <2>1. LoseLease(i) /\ pc'[i] = pc[i]
    BY <1>1, <1>6, Arrows
  <2>2. points' = points /\ mem' = mem
    BY <2>1 DEF LoseLease, qdrantVars
  <2> QED
    BY <2>1, <2>2 DEF Reindexed
<1> QED
  BY <1>1, <1>3, <1>4, <1>5, <1>6, Failures

-----------------------------------------------------------------------------
(* One indexer: a version that is ready is complete.                       *)

\* What is still pending was so, with the same entry and the same version.
LEMMA PendingKept ==
    ASSUME IndexTypeOK, Keeps, NEW v \in Versions, NEW d \in Pending(v)'
    PROVE  /\ d \in Pending(v) /\ d \in Docs /\ d \in fresh'[v]
           /\ entries'[v][d] = entries[v][d] /\ docs'[d].ver = docs[d].ver
<1>1. /\ d \in fresh'[v] /\ ~docs'[d].hidden /\ ~docs'[d].duplicate
  BY DEF Pending, Eligible
<1>2. /\ d \in fresh[v] /\ entries'[v][d] = entries[v][d] /\ docs'[d].ver = docs[d].ver
      /\ docs'[d].hidden = docs[d].hidden /\ docs'[d].duplicate = docs[d].duplicate
  BY <1>1 DEF Keeps, FreshKept
<1>3. d \in Docs
  BY <1>2 DEF IndexTypeOK
<1> QED
  BY <1>1, <1>2, <1>3 DEF Pending, Eligible

\* Only a cleanup deletes the point of a pending document.
LEMMA PointsLeft ==
    ASSUME IndexInv, InHand, NEW i \in Indexers, Acts(i), NEW v \in Versions,
           NEW d \in Pending(v), NEW n, v \notin spent'.cleaned
    PROVE  v \notin spent.cleaned /\ (<<d, n>> \in points[v] => <<d, n>> \in points'[v])
<1> DEFINE Goal == v \notin spent.cleaned /\ (<<d, n>> \in points[v] => <<d, n>> \in points'[v])
           t == mem[i].target
<1>1. /\ IndexTypeOK /\ Handling /\ Targeting /\ spent \in Spending /\ pc \in [Indexers -> Places]
      /\ points \in [Versions -> SUBSET (Docs \X (1 .. MaxVersion))]
  BY DEF IndexInv, IndexTypeOK
<1>2. CASE spent'.cleaned = spent.cleaned /\ points' = points
  BY <1>2
<1>3. CASE Fails(i)
  BY <1>1, <1>2, <1>3, FailPlaces
<1>4. CASE DropCollection(i)
  <2>1. CASE UNCHANGED <<qdrantVars, spent>>
    BY <1>2, <2>1 DEF qdrantVars
  <2>2. ASSUME NEW w \in mem[i].drop, points' = [points EXCEPT ![w] = {}],
               spent' = [spent EXCEPT !.cleaned = @ \cup {w}]
        PROVE  Goal
    <3>1. spent'.cleaned = spent.cleaned \cup {w}
      BY <1>1, <2>2 DEF Spending
    <3>2. v # w
      BY <3>1
    <3> QED
      BY <1>1, <2>2, <3>1, <3>2
  <2> QED
    BY <1>4, <2>1, <2>2 DEF DropCollection, Drops, NextDropped
<1>5. CASE DeletePoints(i) /\ ~Fails(i)
  <2>1. points' = [points EXCEPT ![t] = {p \in @ : p[1] # mem[i].job}] /\ spent' = spent /\ pc[i] \in {"remove", "delete"}
    BY <1>1, <1>5, Success
  <2>2. v = t => Pending(v) = {}
    BY <2>1 DEF InHand, Reindexing
  <2>3. points'[v] = points[v]
    BY <1>1, <2>1, <2>2
  <2> QED
    BY <2>1, <2>3
<1>6. CASE (Upsert(i) \/ WriteBatch(i)) /\ ~Fails(i)
  <2>1. spent' = spent /\ \E p : points' = [points EXCEPT ![t] = @ \cup {p}]
    BY <1>1, <1>6, Success
  <2> QED
    BY <1>1, <2>1
<1>7. CASE ActivationFails(i) \/ Crash(i) \/ LoseLease(i)
  <2>1. points' = points /\ spent'.cleaned = spent.cleaned
    BY <1>1, <1>7 DEF ActivationFails, Crash, LoseLease, qdrantVars, Spending
  <2> QED
    BY <1>2, <2>1
<1>8. CASE \E k \in JobIds : Claim(i, k)
  <2>1. points' = points /\ spent' = spent
    BY <1>1, <1>8, ThreeSteps DEF qdrantVars
  <2> QED
    BY <1>2, <2>1
<1>10. CASE Unanswered(i)
  <2>1. /\ CarriedOut(i) /\ spent.cleaned \subseteq spent'.cleaned
        /\ pc[i] = "dropping" => spent'.cleaned = spent.cleaned \cup NextDropped(i)
    BY <1>1, <1>10, Unheard
  <2>2. CASE pc[i] \in {"remove", "delete"}
    <3>1. points' = [points EXCEPT ![t] = {p \in @ : p[1] # mem[i].job}]
      BY <1>1, <2>1, <2>2, Answers
    <3>2. v = t => Pending(v) = {}
      BY <2>2 DEF InHand, Reindexing
    <3>3. points'[v] = points[v]
      BY <1>1, <3>1, <3>2
    <3> QED
      BY <2>1, <3>3
  <2>3. CASE pc[i] = "dropping"
    <3>1. PICK w \in NextDropped(i) : points' = [points EXCEPT ![w] = {}]
      BY <1>1, <2>1, <2>3, Answers
    <3>2. v # w
      BY <2>1, <2>3, <3>1
    <3> QED
      BY <1>1, <2>1, <3>1, <3>2
  <2>4. CASE pc[i] \notin {"remove", "delete", "dropping"}
    <3>1. points' = points \/ \E p : points' = [points EXCEPT ![t] = @ \cup {p}]
      BY <1>1, <2>1, <2>4, Answers
    <3> QED
      BY <1>1, <2>1, <3>1
  <2> QED
    BY <2>2, <2>3, <2>4
<1>9. CASE ~Fails(i) /\ ~Unanswered(i) /\ ~DropCollection(i) /\ ~DeletePoints(i) /\ ~Upsert(i)
           /\ ~WriteBatch(i) /\ ~ActivationFails(i) /\ ~Crash(i) /\ ~LoseLease(i)
           /\ ~(\E k \in JobIds : Claim(i, k))
  <2>1. points' = points /\ spent' = spent
    BY <1>1, <1>9, Writers, Failures DEF Acts
  <2> QED
    BY <1>2, <2>1
<1> QED
  BY <1>3, <1>4, <1>5, <1>6, <1>7, <1>8, <1>9, <1>10

\* The steps on the way to a record write no row, and go on with the target.
LEMMA OnTheWay ==
    ASSUME IndexInv, NEW i \in Indexers, Acts(i),
           pc'[i] \in {"write", "written"} \cup Filled \cup (Reindexing \ {"load"})
    PROVE  /\ UNCHANGED <<docs, entries, fresh>> /\ ~Fails(i)
           /\ \/ Load(i) \/ LoadBatch(i) \/ (WriteBatch(i) /\ points[mem[i].target] \subseteq points'[mem[i].target])
              \/ /\ mem'[i].doc = mem[i].doc /\ mem'[i].ver = mem[i].ver
                 /\ pc'[i] \in Filled => pc[i] \in Filled
                 /\ pc'[i] \in Reindexing \ {"load"} => pc[i] \in Reindexing \ {"load"}
                 /\ pc'[i] \in {"write", "written"} => pc'[i] = pc[i] /\ points' = points
           /\ ~Load(i) => mem'[i].target = mem[i].target
           /\ ~Load(i) /\ ~LoadBatch(i) => mem'[i].last = mem[i].last
<1>1. /\ IndexTypeOK /\ Handling /\ Targeting /\ mem[i] \in Memory /\ mem \in [Indexers -> Memory]
      /\ points \in [Versions -> SUBSET (Docs \X (1 .. MaxVersion))] /\ pc \in [Indexers -> Places]
  BY DEF IndexInv, IndexTypeOK
<1> USE DEF Filled, Reindexing
<1>2. ~Fails(i) /\ ~Unanswered(i)
  <2>1. ~Stops(i)
    BY DEF Stops
  <2> QED
    BY <1>1, <2>1, Failures
<1>3. \/ Load(i) /\ pc[i] = "load" /\ pc'[i] = "alias"
      \/ LoadBatch(i) /\ pc[i] = "batch" /\ pc'[i] \in {"count", "write"}
      \/ WriteBatch(i) /\ pc[i] = "write" /\ pc'[i] = "written"
      \/ CheckAlias(i) /\ pc[i] = "alias" /\ pc'[i] \in {"remove", "delete"}
      \/ DeletePoints(i) /\ pc[i] \in {"remove", "delete"} /\ pc'[i] \in {"upsert", "forget"}
      \/ Upsert(i) /\ pc[i] = "upsert" /\ pc'[i] = "stored"
      \/ Verify(i) /\ pc[i] = "count" /\ pc'[i] = "verified"
      \/ MarkReady(i) /\ pc[i] = "verified" /\ pc'[i] = "switch"
      \/ SwitchAlias(i) /\ pc[i] = "switch" /\ pc'[i] = "activate"
      \/ LoseLease(i) /\ pc'[i] = pc[i]
  BY <1>1, <1>2, Arrows
<1>4. CASE Load(i)
  BY <1>1, <1>2, <1>4, Success DEF dbVars
<1>5. CASE LoadBatch(i)
  <2>1. UNCHANGED <<docs, entries, fresh>>
    BY <1>5 DEF LoadBatch, dbVars
  <2>2. pc[i] = "batch" /\ pc'[i] \in {"count", "write"}
    BY <1>1, <1>3, <1>5 DEF LoadBatch
  <2>3. mem'[i].target = mem[i].target
    BY <1>1, <1>5, <2>2, Steady DEF Acts, Load, Prepare, RecordBatch, Handler, Rebuild
  <2> QED
    BY <1>2, <1>5, <2>1, <2>3
<1>6. CASE WriteBatch(i)
  <2>1. mem' = mem /\ UNCHANGED <<docs, entries, fresh>> /\ pc[i] = "write"
        /\ points' = [points EXCEPT ![mem[i].target] = @ \cup {<<mem[i].doc, mem[i].ver>>}]
    BY <1>1, <1>2, <1>6, Success DEF dbVars
  <2>2. mem[i].target \in Versions
    BY <1>1, <2>1, Kinds DEF Rebuilding, Building, Filling
  <2>3. points[mem[i].target] \subseteq points'[mem[i].target]
    BY <1>1, <2>1, <2>2
  <2> QED
    BY <1>2, <1>6, <2>1, <2>3
<1>7. CASE CheckAlias(i) \/ DeletePoints(i) \/ Upsert(i) \/ Verify(i)
  <2>1. mem' = mem /\ UNCHANGED <<docs, entries, fresh>>
    BY <1>1, <1>2, <1>7, Success DEF dbVars
  <2>2. /\ pc'[i] \notin {"write", "written"}
        /\ pc'[i] \in Filled => pc[i] \in Filled
        /\ pc'[i] \in Reindexing \ {"load"} => pc[i] \in Reindexing \ {"load"}
    BY <1>1, <1>2, <1>7, Success, <1>3
  <2> QED
    BY <1>2, <2>1, <2>2
<1>8. CASE MarkReady(i)
  <2>1. mem' = mem /\ UNCHANGED <<docs, entries, fresh>> /\ pc[i] = "verified" /\ pc'[i] = "switch"
    BY <1>1, <1>8 DEF MarkReady, Goto
  <2> QED
    BY <1>2, <2>1
<1>9. CASE SwitchAlias(i)
  <2>1. /\ pc[i] = "switch" /\ pc'[i] = "activate" /\ UNCHANGED <<docs, entries, fresh>>
        /\ mem' = [mem EXCEPT ![i] = [@ EXCEPT !.prev = alias]]
    BY <1>1, <1>2, <1>9, Success DEF dbVars
  <2>2. /\ mem'[i].doc = mem[i].doc /\ mem'[i].ver = mem[i].ver
        /\ mem'[i].target = mem[i].target /\ mem'[i].last = mem[i].last
    BY <1>1, <2>1 DEF Memory
  <2> QED
    BY <1>2, <2>1, <2>2
<1>10. CASE LoseLease(i) /\ pc'[i] = pc[i]
  <2>1. mem' = mem /\ UNCHANGED <<docs, entries, fresh>> /\ points' = points
    BY <1>10 DEF LoseLease, qdrantVars
  <2> QED
    BY <1>2, <1>10, <2>1
<1> QED
  BY <1>3, <1>4, <1>5, <1>6, <1>7, <1>8, <1>9, <1>10

\* What a handler has in hand, after its step.
LEMMA InHandKept ==
    ASSUME IndexInv, OneAtATime, Recording, InHand, NEW i \in Indexers, Acts(i)
    PROVE  InHand'
<1> DEFINE t == mem[i].target
<1>1. /\ IndexTypeOK /\ Handling /\ Targeting /\ Tied /\ mem[i] \in Memory /\ pc \in [Indexers -> Places]
      /\ mem \in [Indexers -> Memory] /\ fresh \in [Versions -> SUBSET Docs]
      /\ \A j \in Indexers : j = i
  BY DEF IndexInv, IndexTypeOK, OneAtATime
<1> USE DEF Filled, Reindexing
<1>2. SUFFICES ASSUME NEW v \in Versions, v = mem'[i].target,
                      pc'[i] \in {"write", "written"} \cup Filled \cup (Reindexing \ {"load"})
      PROVE
        /\ pc'[i] \in {"write", "written"} =>
              /\ \A e \in Pending(v)' : e < mem'[i].doc => e <= mem'[i].last
              /\ \A e \in fresh'[v] : e = mem'[i].doc => Eligible(e)' /\ docs'[e].ver = mem'[i].ver
        /\ pc'[i] = "written" => <<mem'[i].doc, mem'[i].ver>> \in points'[v]
        /\ pc'[i] \in Filled => \A d \in Pending(v)' : entries'[v][d] # 0
        /\ pc'[i] \in Reindexing \ {"load"} => Pending(v)' = {}
  BY <1>1 DEF InHand
<1>3. UNCHANGED <<docs, entries, fresh>> /\ Pending(v)' = Pending(v) /\ (\A e : Eligible(e)' = Eligible(e))
      /\ ~Fails(i)
  BY <1>2, OnTheWay DEF Pending, Eligible
<1>4. CASE Load(i)
  <2>1. PICK w \in ActiveVersions : mem' = [mem EXCEPT ![i] =
            [mem[i] EXCEPT !.target = w, !.ver = docs[mem[i].job].ver,
                !.chunk = IF Eligible(mem[i].job) THEN docs[mem[i].job].chunk ELSE 0]]
    BY <1>1, <1>3, <1>4, Success
  <2>2. v = w /\ pc'[i] = "alias"
    BY <1>1, <1>2, <1>3, <1>4, <2>1, Success DEF Memory
  <2>3. Pending(v) = {}
    BY <2>2 DEF Recording, ActiveVersions
  <2> QED
    BY <1>3, <2>2, <2>3
<1>5. CASE LoadBatch(i)
  <2>1. /\ pc[i] = "batch" /\ Owner(i) /\ v = t
    BY <1>2, <1>5, OnTheWay DEF LoadBatch, MayGoOn, Load
  <2>2. t = jobs[Full].version /\ mem[i].last = jobs[Full].last
    BY <1>1, <2>1 DEF Tied, Building, Filling
  <2>3. Remaining(i) = {e \in Pending(v) : e > mem[i].last}
    BY <2>1 DEF Remaining, Pending
  <2>4. \A e \in Pending(v) : e \in Int /\ mem[i].last \in Int /\ e \in Docs
    BY <1>1, Kinds DEF Pending, Docs, None
  <2>5. CASE Remaining(i) = {}
    <3>1. pc'[i] = "count"
      BY <1>1, <1>5, <2>5 DEF LoadBatch, Goto
    <3>2. \A e \in Pending(v) : e <= mem[i].last
      BY <2>3, <2>4, <2>5
    <3>3. \A e \in Pending(v) : entries[v][e] # 0
      BY <2>1, <2>2, <3>2 DEF Recording
    <3> QED
      BY <1>3, <3>1, <3>3
  <2>6. ASSUME NEW d \in Remaining(i), \A e \in Remaining(i) : d <= e, pc'[i] = "write",
               mem' = [mem EXCEPT ![i] = [mem[i] EXCEPT !.doc = d, !.ver = docs[d].ver,
                                                        !.chunk = docs[d].chunk]]
        PROVE  /\ \A e \in Pending(v) : e < mem'[i].doc => e <= mem'[i].last
               /\ \A e \in fresh[v] : e = mem'[i].doc => Eligible(e) /\ docs[e].ver = mem'[i].ver
    <3>1. mem'[i].doc = d /\ mem'[i].ver = docs[d].ver /\ mem'[i].last = mem[i].last
      BY <1>1, <2>6 DEF Memory
    <3>2. d \in Pending(v)
      BY <2>3, <2>6
    <3>3. \A e \in Pending(v) : e < d => e <= mem[i].last
      BY <2>3, <2>4, <2>6, <3>2
    <3> QED
      BY <3>1, <3>2, <3>3 DEF Pending
  <2>7. CASE Remaining(i) # {}
    <3>1. PICK d \in Remaining(i) : /\ \A e \in Remaining(i) : d <= e
             /\ mem' = [mem EXCEPT ![i] = [mem[i] EXCEPT !.doc = d, !.ver = docs[d].ver,
                                                        !.chunk = docs[d].chunk]]
             /\ pc'[i] = "write"
      BY <1>1, <1>5, <2>7 DEF LoadBatch, Goto, Learn
    <3>2. /\ \A e \in Pending(v) : e < mem'[i].doc => e <= mem'[i].last
          /\ \A e \in fresh[v] : e = mem'[i].doc => Eligible(e) /\ docs[e].ver = mem'[i].ver
      BY <2>6, <3>1
    <3> QED
      BY <1>3, <3>1, <3>2
  <2> QED
    BY <2>5, <2>7
<1>6. CASE WriteBatch(i)
  <2>1. /\ pc[i] = "write" /\ pc'[i] = "written" /\ mem' = mem
        /\ points' = [points EXCEPT ![t] = @ \cup {<<mem[i].doc, mem[i].ver>>}]
    BY <1>1, <1>3, <1>6, Success
  <2>2. <<mem[i].doc, mem[i].ver>> \in points'[v]
    BY <1>1, <1>2, <2>1 DEF IndexTypeOK
  <2>3. /\ \A e \in Pending(v) : e < mem[i].doc => e <= mem[i].last
        /\ \A e \in fresh[v] : e = mem[i].doc => Eligible(e) /\ docs[e].ver = mem[i].ver
    BY <1>2, <2>1 DEF InHand
  <2> QED
    BY <1>3, <2>1, <2>2, <2>3
<1>7. CASE ~Load(i) /\ ~LoadBatch(i) /\ ~WriteBatch(i)
  <2>1. /\ mem'[i].doc = mem[i].doc /\ mem'[i].ver = mem[i].ver /\ mem'[i].last = mem[i].last
        /\ v = t
        /\ pc'[i] \in Filled => pc[i] \in Filled
        /\ pc'[i] \in Reindexing \ {"load"} => pc[i] \in Reindexing \ {"load"}
        /\ pc'[i] \in {"write", "written"} => pc'[i] = pc[i] /\ points' = points
    BY <1>2, <1>7, OnTheWay
  <2> QED
    BY <1>3, <2>1 DEF InHand
<1> QED
  BY <1>4, <1>5, <1>6, <1>7

\* What is recorded, after a step that keeps what it should.
LEMMA RecordingStays ==
    ASSUME IndexInv, Recording, Keeps,
           NEW v \in Versions, NEW d \in Pending(v)',
           versions'[v].status = "ACTIVE" => versions[v].status = "ACTIVE",
           v \notin spent'.cleaned =>
               v \notin spent.cleaned /\ \A n : <<d, n>> \in points[v] => <<d, n>> \in points'[v]
    PROVE  /\ entries'[v][d] # 0 =>
                 entries'[v][d] = docs'[d].ver
                 /\ (v \notin spent'.cleaned => <<d, docs'[d].ver>> \in points'[v])
           /\ v = jobs'[Full].version /\ d <= jobs'[Full].last => entries'[v][d] # 0
           /\ versions'[v].status # "ACTIVE"
<1>1. /\ d \in Pending(v) /\ entries'[v][d] = entries[v][d] /\ docs'[d].ver = docs[d].ver
  BY PendingKept DEF IndexInv
<1>2. v = jobs'[Full].version =>
          v = jobs[Full].version /\ jobs'[Full].last = jobs[Full].last
  BY JobKinds DEF Keeps, JobsKept, Kept, Versions, None
<1> QED
  BY <1>1, <1>2 DEF Recording

\* The step of a handler: every entry that still counts is current.
LEMMA RecordingKept ==
    ASSUME IndexInv, OneAtATime, Recording, InHand, NEW i \in Indexers, Acts(i)
    PROVE  Recording'
<1> DEFINE t == mem[i].target
           Good(v, d) ==
             /\ entries'[v][d] # 0 =>
                   entries'[v][d] = docs'[d].ver
                   /\ (v \notin spent'.cleaned => <<d, docs'[d].ver>> \in points'[v])
             /\ v = jobs'[Full].version /\ d <= jobs'[Full].last => entries'[v][d] # 0
             /\ versions'[v].status # "ACTIVE"
<1>1. /\ IndexTypeOK /\ Handling /\ Targeting /\ Tied /\ Payload /\ Unrecorded
      /\ mem[i] \in Memory /\ pc \in [Indexers -> Places]
      /\ fresh \in [Versions -> SUBSET Docs] /\ jobs \in [JobIds -> JobRows]
      /\ versions \in [Versions -> VersionRow] /\ entries \in [Versions -> [Docs -> EntryRow]]
      /\ Full \in JobIds
  BY JobKinds DEF IndexInv, IndexTypeOK
<1>2. SUFFICES ASSUME NEW v \in Versions, NEW d \in Pending(v)'
               PROVE  Good(v, d)
  BY DEF Recording
<1>3. CASE Keeps
  <2>1. d \in Pending(v) /\ entries'[v][d] = entries[v][d] /\ d \in fresh'[v] /\ d \in Docs
    BY <1>1, <1>3, PendingKept
  <2>2. v \notin spent'.cleaned =>
            v \notin spent.cleaned /\ \A n : <<d, n>> \in points[v] => <<d, n>> \in points'[v]
    BY <2>1, PointsLeft
  <2>3. versions'[v].status = "ACTIVE" => versions[v].status = "ACTIVE"
    <3>1. CASE ~Activate(i)
      BY <3>1, ActiveBy DEF ActiveVersions
    <3>2. CASE Activate(i)
      <4>1. pc[i] = "activate" /\ versions' = ActivatedRows(t)
            /\ fresh' = [w \in Versions |-> fresh[w] \ Indexed(t)]
        BY <3>2 DEF Activate, Touch
      <4>2. v # t
        <5>1. ASSUME v = t PROVE FALSE
          <6>1. entries[v][d] # 0
            BY <2>1, <4>1, <5>1 DEF InHand, Filled
          <6>2. d \in Indexed(t)
            BY <2>1, <5>1, <6>1 DEF Indexed
          <6> QED
            BY <2>1, <4>1, <6>2
        <5> QED
          BY <5>1
      <4>3. versions'[v].status = "ACTIVE" => FALSE
        BY <1>1, <4>1, <4>2 DEF ActivatedRows, VersionRow
      <4> QED
        BY <4>3
    <3> QED
      BY <3>1, <3>2
  <2> QED
    BY <1>3, <2>2, <2>3, RecordingStays
<1>4. ASSUME NEW k \in JobIds, Claim(i, k)
      PROVE  Good(v, d)
  <2>1. /\ UNCHANGED <<docs, versions, entries, fresh, points, spent>>
        /\ jobs' = [jobs EXCEPT ![k] = [jobs[k] EXCEPT !.status = "RUNNING", !.owner = i,
                                                       !.attempt = jobs[k].attempt + 1]]
    BY <1>1, <1>4, ThreeSteps DEF qdrantVars
  <2>2. jobs'[Full].version = jobs[Full].version /\ jobs'[Full].last = jobs[Full].last
    BY <1>1, <2>1 DEF JobRows
  <2>3. d \in Pending(v)
    BY <2>1 DEF Pending, Eligible
  <2> QED
    BY <2>1, <2>2, <2>3 DEF Recording
<1>5. CASE Prepare(i)
  <2>1. UNCHANGED <<docs, entries, points, spent>> /\ mem[i].job = Full
    BY <1>1, <1>5, ThreeSteps, Kinds DEF qdrantVars, Rebuilding
  <2>2. CASE UNCHANGED <<jobs, versions, fresh>>
    <3>1. d \in Pending(v)
      BY <2>1, <2>2 DEF Pending, Eligible
    <3> QED
      BY <2>1, <2>2, <3>1 DEF Recording
  <2>3. ASSUME NEW w \in Versions, jobs[Full].version = None, versions[w].status = "ABSENT",
               versions' = [versions EXCEPT ![w].status = "BUILDING"],
               fresh' = [fresh EXCEPT ![w] = Docs], jobs' = [jobs EXCEPT ![Full].version = w]
        PROVE  Good(v, d)
    <3>1. jobs'[Full].version = w /\ jobs'[Full].last = None
      BY <1>1, <2>3 DEF JobRows, Payload
    <3>2. d \in Docs /\ d \in Int /\ ~(d <= None)
      <4>1. d \in fresh'[v]
        BY DEF Pending
      <4>2. d \in Docs
        BY <1>1, <2>3, <4>1
      <4> QED
        BY <4>2 DEF Docs, None
    <3>3. CASE v = w
      <4>1. entries'[v][d] = 0
        BY <1>1, <2>1, <2>3, <3>2, <3>3 DEF Unrecorded, Indexed
      <4>2. versions'[v].status = "BUILDING"
        BY <1>1, <2>3, <3>3 DEF VersionRow
      <4> QED
        BY <3>1, <3>2, <4>1, <4>2
    <3>4. CASE v # w
      <4>1. d \in Pending(v)
        BY <1>1, <2>1, <2>3, <3>4 DEF Pending, Eligible
      <4>2. versions'[v] = versions[v]
        BY <1>1, <2>3, <3>4
      <4> QED
        BY <2>1, <3>1, <3>4, <4>1, <4>2 DEF Recording
    <3> QED
      BY <3>3, <3>4
  <2> QED
    BY <1>1, <1>5, <2>2, <2>3, ThreeSteps
<1>6. CASE RecordBatch(i) /\ ~Fails(i)
  <2> DEFINE e == mem[i].doc
  <2>1. /\ pc[i] = "written" /\ Owner(i) /\ UNCHANGED <<docs, versions, fresh, points, spent>>
        /\ entries' = [entries EXCEPT ![t][e] = mem[i].ver]
        /\ jobs' = [jobs EXCEPT ![Full].last = e]
    BY <1>1, <1>6, ThreeSteps DEF MayGoOn, qdrantVars
  <2>2. /\ t \in Versions /\ e \in Docs /\ mem[i].ver # 0 /\ t = jobs[Full].version
        /\ mem[i].last = jobs[Full].last
    BY <1>1, <2>1, Kinds DEF Rebuilding, Building, Filling, Tied, Handling, Handles
  <2>3. /\ jobs'[Full].version = t /\ jobs'[Full].last = e
    BY <1>1, <2>1, <2>2 DEF JobRows
  <2>4. d \in Pending(v) /\ d \in fresh[v] /\ d \in Docs
    BY <1>1, <2>1 DEF Pending, Eligible
  <2>5. \A f \in Pending(t) : f < e => f <= jobs[Full].last
    BY <2>1, <2>2 DEF InHand
  <2>6. CASE v # t
    <3>1. entries'[v] = entries[v]
      BY <1>1, <2>1, <2>6
    <3> QED
      BY <2>1, <2>3, <2>4, <2>6, <3>1 DEF Recording
  <2>7. CASE v = t /\ d = e
    <3>1. entries'[v][d] = mem[i].ver
      BY <1>1, <2>1, <2>2, <2>7
    <3>2. docs[d].ver = mem[i].ver /\ <<d, mem[i].ver>> \in points[v]
      BY <2>1, <2>4, <2>7 DEF InHand
    <3>3. versions[v].status # "ACTIVE"
      BY <2>4 DEF Recording
    <3> QED
      BY <2>1, <2>2, <3>1, <3>2, <3>3
  <2>8. CASE v = t /\ d # e
    <3>1. entries'[v][d] = entries[v][d]
      BY <1>1, <2>1, <2>2, <2>4, <2>8
    <3>2. d <= e => d < e
      BY <2>2, <2>4, <2>8 DEF Docs
    <3>3. d <= e => entries[v][d] # 0
      BY <2>2, <2>4, <2>5, <2>8, <3>2 DEF Recording
    <3> QED
      BY <2>1, <2>3, <2>4, <2>8, <3>1, <3>3 DEF Recording
  <2> QED
    BY <2>6, <2>7, <2>8
<1> QED
  BY <1>3, <1>4, <1>5, <1>6, ActsKeep

\* What the API leaves of it.
LEMMA ApiRecording ==
    ASSUME IndexInv, Recording, InHand, Api
    PROVE  Recording' /\ InHand'
<1>1. /\ UNCHANGED <<versions, coll, points, alias, pc, mem>> /\ Keeps /\ IndexTypeOK
      /\ spent \in Spending
  BY ApiKeeps DEF IndexInv, IndexTypeOK, qdrantVars
<1>2. spent'.cleaned = spent.cleaned
  <2>1. Spends \/ Requested
    BY DEF Api, EnqueueFull, EnqueueFullFromCli, EnqueueCleanup, CancelJob, RetryJob,
           EditDocument, HideDocument, RestoreDocument, EditorWrites, IngestDocument,
           IngestUnchanged, ReindexDocument, Spends
  <2> QED
    BY <1>1, <2>1, Spent
<1>3. Recording'
  BY <1>1, <1>2, RecordingStays DEF Recording
<1>4. ASSUME NEW i \in Indexers, NEW v \in Versions, v = mem[i].target
      PROVE
        /\ pc[i] \in {"write", "written"} =>
              /\ \A e \in Pending(v)' : e < mem[i].doc => e <= mem[i].last
              /\ \A e \in fresh'[v] : e = mem[i].doc => Eligible(e)' /\ docs'[e].ver = mem[i].ver
        /\ pc[i] = "written" => <<mem[i].doc, mem[i].ver>> \in points[v]
        /\ pc[i] \in Filled => \A d \in Pending(v)' : entries'[v][d] # 0
        /\ pc[i] \in Reindexing \ {"load"} => Pending(v)' = {}
  <2>1. \A d \in Pending(v)' : d \in Pending(v) /\ entries'[v][d] = entries[v][d]
    BY <1>1, PendingKept
  <2>2. \A e \in fresh'[v] : /\ e \in fresh[v] /\ docs'[e].ver = docs[e].ver
                             /\ (Eligible(e) => Eligible(e)')
    BY <1>1 DEF Keeps, FreshKept, Eligible
  <2> QED
    BY <1>4, <2>1, <2>2 DEF InHand
<1>5. InHand'
  BY <1>1, <1>4 DEF InHand
<1> QED
  BY <1>3, <1>5

\* Only MarkReady calls a version READY, after the check of the counts.
LEMMA ReadyBy ==
    ASSUME IndexInv, NEW i \in Indexers, Acts(i), NEW v \in Versions,
           versions[v].status # "READY", versions'[v].status = "READY"
    PROVE  v = mem[i].target /\ pc[i] = "verified"
<1>1. versions \in [Versions -> VersionRow] /\ IndexTypeOK
  BY DEF IndexInv, IndexTypeOK
<1>2. versions' # versions
  OBVIOUS
<1>3. CASE ForgetEntry(i)
  <2>1. \E c : versions' = [versions EXCEPT ![mem[i].target].count = c]
    BY <1>3 DEF ForgetEntry
  <2>2. versions'[v].status = versions[v].status
    BY <1>1, <2>1 DEF VersionRow
  <2> QED
    BY <2>2
<1>4. CASE StoreEntry(i) /\ ~Fails(i)
  <2>1. \E c : versions' = [versions EXCEPT ![mem[i].target].count = c]
    BY <1>1, <1>4, Success
  <2>2. versions'[v].status = versions[v].status
    BY <1>1, <2>1 DEF VersionRow
  <2> QED
    BY <2>2
<1>5. CASE Prepare(i)
  <2>1. \E w \in Versions : versions' = [versions EXCEPT ![w].status = "BUILDING"]
    BY <1>1, <1>2, <1>5, ThreeSteps
  <2>2. versions'[v].status \in {"BUILDING", versions[v].status}
    BY <1>1, <2>1 DEF VersionRow
  <2> QED
    BY <2>2
<1>6. CASE MarkReady(i)
  <2>1. /\ versions' = [versions EXCEPT ![mem[i].target] = [status |-> "READY", count |-> mem[i].total]]
        /\ pc[i] = "verified"
    BY <1>6 DEF MarkReady
  <2>2. v # mem[i].target => versions'[v] = versions[v]
    BY <1>1, <2>1
  <2> QED
    BY <2>1, <2>2
<1>7. CASE Activate(i)
  <2>1. versions' = ActivatedRows(mem[i].target)
    BY <1>7 DEF Activate
  <2>2. versions'[v].status \in {"ACTIVE", "RETIRED", versions[v].status}
    BY <1>1, <2>1 DEF ActivatedRows, VersionRow
  <2> QED
    BY <2>2
<1>8. CASE MarkFailure(i)
  <2>1. versions' = [versions EXCEPT ![jobs[Full].version].status = "FAILED"]
    BY <1>2, <1>8 DEF MarkFailure
  <2>2. versions'[v].status \in {"FAILED", versions[v].status}
    BY <1>1, <2>1 DEF VersionRow
  <2> QED
    BY <2>2
<1>9. CASE (\E k \in JobIds : Claim(i, k)) \/ Stops(i)
  BY <1>1, <1>2, <1>9, ThreeSteps DEF Stops, dbVars
<1> QED
  BY <1>1, <1>2, <1>3, <1>4, <1>5, <1>6, <1>7, <1>8, <1>9, Writers, Failures DEF Acts

\* What is recorded is current, from the start and after every step.
LEMMA RecordingInv ==
    ASSUME OneAtATime
    PROVE  /\ Init => IndexInv /\ Recording /\ InHand
           /\ IndexInv /\ Recording /\ InHand /\ [Next]_vars => (IndexInv /\ Recording /\ InHand)'
<1>1. ASSUME Init PROVE IndexInv /\ Recording /\ InHand
  <2>1. \A v \in Versions : Pending(v) = {}
    BY <1>1 DEF Init, Pending
  <2>2. \A i \in Indexers : pc[i] = "idle"
    BY <1>1 DEF Init
  <2> QED
    BY <1>1, <2>1, <2>2, InitInv DEF Recording, InHand, Filled, Reindexing
<1>2. ASSUME IndexInv, Recording, InHand, [Next]_vars
      PROVE  (IndexInv /\ Recording /\ InHand)'
  <2>1. IndexInv'
    BY <1>2, NextInv
  <2>2. CASE UNCHANGED vars
    BY <1>2, <2>1, <2>2 DEF vars, dbVars, qdrantVars, Recording, InHand, Pending, Eligible
  <2>3. CASE Api
    BY <1>2, <2>1, <2>3, ApiRecording
  <2>4. ASSUME NEW i \in Indexers, Acts(i)
        PROVE  (IndexInv /\ Recording /\ InHand)'
    BY <1>2, <2>1, <2>4, RecordingKept, InHandKept
  <2> QED
    BY <1>2, <2>2, <2>3, <2>4 DEF Next, Acts
<1> QED
  BY <1>1, <1>2

\* docs/stage6-search-index.md:3.  As long as one indexer runs, a rebuild is
\* verified only if it recorded the current version of every eligible document
\* that nobody touched since its snapshot, and the collection, unless a cleanup
\* deleted it meanwhile, holds the point of that version; however often the
\* rebuild was interrupted, repeated and resumed from its checkpoint
\* (_full_reindex, _load_eligible_batch), and whatever the API wrote meanwhile.
THEOREM ReadyIsCompleteCorrect == OneAtATime => (Spec => ReadyIsComplete)
<1> SUFFICES ASSUME OneAtATime PROVE Spec => ReadyIsComplete
  OBVIOUS
<1> DEFINE Inv == IndexInv /\ Recording /\ InHand
           Complete ==
             \A v \in Versions :
                versions[v].status # "READY" /\ versions'[v].status = "READY" =>
                   \A d \in fresh[v] : Eligible(d) =>
                      /\ entries[v][d] = docs[d].ver
                      /\ v \notin spent.cleaned => <<d, docs[d].ver>> \in points[v]
<1>1. Init => Inv
  BY RecordingInv
<1>2. Inv /\ [Next]_vars => Inv'
  BY RecordingInv
<1>3. ASSUME Inv, [Next]_vars, NEW v \in Versions, versions[v].status # "READY",
             versions'[v].status = "READY", NEW d \in fresh[v], Eligible(d)
      PROVE  /\ entries[v][d] = docs[d].ver
             /\ v \notin spent.cleaned => <<d, docs[d].ver>> \in points[v]
  <2>1. versions' # versions
    BY <1>3
  <2>2. ~Api
    BY <1>3, <2>1, ApiKeeps DEF IndexInv
  <2>3. PICK i \in Indexers : Acts(i)
    BY <1>3, <2>1, <2>2 DEF Next, Acts, vars, dbVars
  <2>4. v = mem[i].target /\ pc[i] = "verified"
    BY <1>3, <2>3, ReadyBy
  <2>5. d \in Pending(v)
    BY <1>3 DEF Pending
  <2>6. entries[v][d] # 0
    BY <1>3, <2>4, <2>5 DEF InHand, Filled
  <2> QED
    BY <1>3, <2>5, <2>6 DEF Recording
<1>4. Inv /\ [Next]_vars => [Complete]_vars
  BY <1>3
<1> HIDE DEF Complete
<1>5. Spec => [][Complete]_vars
  BY <1>1, <1>2, <1>4, PTL DEF Spec
<1> QED
  BY <1>5, PTL DEF ReadyIsComplete, Complete

-----------------------------------------------------------------------------
(* One indexer: the status of the documents.                               *)

\* Which steps of a handler change the status of a document.
LEMMA StatusBy ==
    ASSUME IndexInv, NEW i \in Indexers, Acts(i), NEW d \in Docs, docs'[d].state # docs[d].state
    PROVE  \/ /\ pc[i] = "stored" /\ pc'[i] = "finish" /\ mem[i].job = d /\ Unchanged(i)
              /\ docs'[d].state = "READY"
           \/ /\ pc[i] = "forget" /\ pc'[i] = "finish" /\ mem[i].job = d
              /\ docs'[d].state = "NOT_INDEXED"
           \/ /\ pc[i] = "activate" /\ pc'[i] = "finish" /\ d \in Indexed(mem[i].target)
              /\ docs'[d].state = "READY"
           \/ docs'[d].state \in {"OUTDATED", "FAILED"}
<1>1. IndexTypeOK /\ docs \in [Docs -> DocRows] /\ pc \in [Indexers -> Places]
  BY DEF IndexInv, IndexTypeOK
<1>2. docs' # docs
  OBVIOUS
<1>3. CASE StoreEntry(i) /\ ~Fails(i)
  <2>1. /\ pc[i] = "stored" /\ pc'[i] = "finish" /\ Unchanged(i)
        /\ docs' = [docs EXCEPT ![mem[i].job].state = "READY"]
    BY <1>1, <1>3, Success
  <2>2. mem[i].job = d /\ docs'[d].state = "READY"
    BY <1>1, <2>1 DEF DocRows
  <2> QED
    BY <2>1, <2>2
<1>4. CASE ForgetEntry(i)
  <2>1. /\ pc[i] = "forget" /\ pc'[i] = "finish"
        /\ docs' = [docs EXCEPT ![mem[i].job].state = "NOT_INDEXED"]
    BY <1>1, <1>4 DEF ForgetEntry, Done, Goto
  <2>2. mem[i].job = d /\ docs'[d].state = "NOT_INDEXED"
    BY <1>1, <2>1 DEF DocRows
  <2> QED
    BY <2>1, <2>2
<1>5. CASE Activate(i)
  <2>1. /\ pc[i] = "activate" /\ pc'[i] = "finish"
        /\ docs'[d] = IF d \in Indexed(mem[i].target) THEN [docs[d] EXCEPT !.state = "READY"]
                      ELSE docs[d]
    BY <1>1, <1>5 DEF Activate, Done, Goto
  <2>2. d \in Indexed(mem[i].target) /\ docs'[d].state = "READY"
    BY <1>1, <2>1 DEF DocRows
  <2> QED
    BY <2>1, <2>2
<1>6. CASE MarkFailure(i)
  <2>1. \E state \in {"OUTDATED", "FAILED"} : docs' = [docs EXCEPT ![mem[i].job].state = state]
    BY <1>2, <1>6 DEF MarkFailure
  <2> QED
    BY <1>1, <2>1 DEF DocRows
<1>7. CASE (\E k \in JobIds : Claim(i, k)) \/ Stops(i)
  BY <1>1, <1>2, <1>7, ThreeSteps DEF Stops, dbVars
<1> QED
  BY <1>1, <1>2, <1>3, <1>4, <1>5, <1>6, <1>7, Writers, Failures DEF Acts

\* docs/indexer-worker.md:7.  As long as one indexer runs, a document becomes
\* READY in two ways only.  Its own reindex ends: it is still eligible, and the
\* version it has now is its only point in the collection, although the API may
\* write it between any two steps.  Or a rebuild is activated: the document has
\* an entry in the new version, with its current point if nobody touched it since
\* the snapshot and no cleanup deleted the collection.  And it becomes
\* NOT_INDEXED only by its own reindex, with no point of it left.
THEOREM StatusEarnedCorrect == OneAtATime => (Spec => StatusEarned)
<1> SUFFICES ASSUME OneAtATime PROVE Spec => StatusEarned
  OBVIOUS
<1> DEFINE Inv == IndexInv /\ Recording /\ InHand /\ Reindexed
           Ready(d) ==
             \E i \in Indexers : LET v == mem[i].target IN
                \/ /\ pc[i] = "stored" /\ pc'[i] = "finish" /\ mem[i].job = d
                   /\ Eligible(d) /\ PointsOf(v, d) = {<<d, docs[d].ver>>}
                \/ /\ pc[i] = "activate" /\ pc'[i] = "finish" /\ d \in Indexed(v)
                   /\ d \in fresh[v] /\ Eligible(d) /\ v \notin spent.cleaned =>
                         <<d, docs[d].ver>> \in points[v]
           Removed(d) ==
             \E i \in Indexers : /\ pc[i] = "forget" /\ pc'[i] = "finish" /\ mem[i].job = d
                                 /\ PointsOf(mem[i].target, d) = {}
           Earned ==
             \A d \in Docs :
                /\ docs[d].state # "READY" /\ docs'[d].state = "READY" => Ready(d)
                /\ docs[d].state # "NOT_INDEXED" /\ docs'[d].state = "NOT_INDEXED" => Removed(d)
<1>1. Init => Inv
  <2>1. ASSUME Init PROVE Reindexed
    BY <2>1 DEF Init, Reindexed
  <2> QED
    BY <2>1, RecordingInv
<1>2. Inv /\ [Next]_vars => Inv'
  <2> SUFFICES ASSUME Inv, [Next]_vars PROVE Reindexed'
    BY RecordingInv
  <2>1. CASE UNCHANGED vars
    BY <2>1 DEF vars, qdrantVars, Reindexed
  <2>2. CASE Api
    BY <2>2, ApiKeeps DEF IndexInv, Reindexed, qdrantVars
  <2> QED
    BY <2>1, <2>2, ReindexedKept DEF Next, Acts
<1>3. ASSUME Inv, [Next]_vars, NEW d \in Docs, docs'[d].state # docs[d].state,
             docs'[d].state \in {"READY", "NOT_INDEXED"}
      PROVE  /\ docs'[d].state = "READY" => Ready(d)
             /\ docs'[d].state = "NOT_INDEXED" => Removed(d)
  <2>1. ~Api
    BY <1>3, ApiStates DEF IndexInv
  <2>2. PICK i \in Indexers : Acts(i)
    BY <1>3, <2>1 DEF Next, Acts, vars, dbVars
  <2>3. CASE /\ pc[i] = "stored" /\ pc'[i] = "finish" /\ mem[i].job = d /\ Unchanged(i)
             /\ docs'[d].state = "READY"
    <3>1. Eligible(d) /\ docs[d].ver = mem[i].ver
      BY <2>3 DEF Unchanged
    <3>2. PointsOf(mem[i].target, d) = {<<d, docs[d].ver>>}
      BY <1>3, <2>3, <3>1 DEF Reindexed, OfDoc, PointsOf
    <3>3. Ready(d)
      BY <2>3, <3>1, <3>2
    <3> QED
      BY <2>3, <3>3
  <2>4. CASE /\ pc[i] = "forget" /\ pc'[i] = "finish" /\ mem[i].job = d
             /\ docs'[d].state = "NOT_INDEXED"
    <3>1. PointsOf(mem[i].target, d) = {}
      BY <1>3, <2>4 DEF Reindexed, OfDoc, PointsOf
    <3>2. Removed(d)
      BY <2>4, <3>1
    <3> QED
      BY <2>4, <3>2
  <2>5. CASE /\ pc[i] = "activate" /\ pc'[i] = "finish" /\ d \in Indexed(mem[i].target)
             /\ docs'[d].state = "READY"
    <3> DEFINE v == mem[i].target
    <3>1. v \in Versions
      BY <1>3, <2>5, Kinds DEF IndexInv, Rebuilding, Building, Filled
    <3>2. ASSUME d \in fresh[v], Eligible(d), v \notin spent.cleaned
          PROVE  <<d, docs[d].ver>> \in points[v]
      <4>1. d \in Pending(v) /\ entries[v][d] # 0
        BY <2>5, <3>2 DEF Pending, Indexed
      <4> QED
        BY <1>3, <3>1, <3>2, <4>1 DEF Recording
    <3>3. Ready(d)
      BY <2>5, <3>2
    <3> QED
      BY <2>5, <3>3
  <2> QED
    BY <1>3, <2>2, <2>3, <2>4, <2>5, StatusBy
<1>4. Inv /\ [Next]_vars => [Earned]_vars
  BY <1>3
<1> HIDE DEF Earned
<1>5. Spec => [][Earned]_vars
  BY <1>1, <1>2, <1>4, PTL DEF Spec
<1> QED
  BY <1>5, PTL DEF StatusEarned, Earned

=============================================================================
