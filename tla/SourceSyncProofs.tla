-------------------------- MODULE SourceSyncProofs --------------------------
(***************************************************************************)
(* What holds of SourceSync for any listing, page size, caps and budgets.  *)
(***************************************************************************)
EXTENDS SourceSync, FiniteSetTheorems, WellFoundedInduction, TLAPS

-----------------------------------------------------------------------------
(* The listing of the site.                                                *)

\* Dates are numbers, and questions are ordered by them.
Dated(sort) == \A q \in Questions : Date(sort, q) \in Int

\* Of two questions one is the newer one.
LEMMA NewerOrders ==
    ASSUME NEW sort, Dated(sort)
    PROVE  /\ \A q, r \in Questions : q # r => Newer(sort, q, r) \/ Newer(sort, r, q)
           /\ \A q, r \in Questions : ~(Newer(sort, q, r) /\ Newer(sort, r, q))
           /\ \A q, r, s \in Questions : Newer(sort, q, r) /\ Newer(sort, r, s) => Newer(sort, q, s)
<1>1. Questions \subseteq Nat
  BY SyncAssumption DEF Questions
<1> QED BY <1>1 DEF Dated, Newer

\* The questions of S that a listing puts before q, and the place they leave it.
Ahead(sort, S, q) == {r \in S : Newer(sort, r, q)}

Rank(sort, S, q) == Cardinality(Ahead(sort, S, q)) + 1

\* A question that is newer than another has fewer questions ahead of it.
LEMMA RankFacts ==
    ASSUME NEW sort, Dated(sort), NEW S \in SUBSET Questions, IsFiniteSet(S)
    PROVE  /\ \A q \in S : Rank(sort, S, q) \in 1 .. Cardinality(S)
           /\ \A q, r \in S : Newer(sort, q, r) => Rank(sort, S, q) < Rank(sort, S, r)
<1>1. \A q \in S : IsFiniteSet(Ahead(sort, S, q)) /\ Cardinality(Ahead(sort, S, q)) \in Nat
  BY FS_Subset, FS_CardinalityType DEF Ahead
<1>2. ASSUME NEW q \in S
      PROVE  Rank(sort, S, q) \in 1 .. Cardinality(S)
  <2>1. Ahead(sort, S, q) \subseteq S \ {q}
    BY NewerOrders DEF Ahead
  <2>2. IsFiniteSet(S \ {q}) /\ Cardinality(S \ {q}) = Cardinality(S) - 1
    BY FS_RemoveElement
  <2>3. Cardinality(Ahead(sort, S, q)) <= Cardinality(S \ {q})
    BY <2>1, <2>2, FS_Subset
  <2>4. Cardinality(S) \in Nat
    BY FS_CardinalityType
  <2> QED BY <1>1, <2>2, <2>3, <2>4 DEF Rank
<1>3. ASSUME NEW q \in S, NEW r \in S, Newer(sort, q, r)
      PROVE  Rank(sort, S, q) < Rank(sort, S, r)
  <2>1. Ahead(sort, S, q) \subseteq Ahead(sort, S, r)
    BY <1>3, NewerOrders DEF Ahead
  <2>2. q \in Ahead(sort, S, r) /\ q \notin Ahead(sort, S, q)
    BY <1>3, NewerOrders DEF Ahead
  <2>3. /\ Cardinality(Ahead(sort, S, q)) <= Cardinality(Ahead(sort, S, r))
        /\ Cardinality(Ahead(sort, S, q)) # Cardinality(Ahead(sort, S, r))
    BY <1>1, <2>1, <2>2, FS_Subset
  <2> QED BY <1>1, <2>3 DEF Rank
<1> QED BY <1>2, <1>3

\* The published questions whose date lies between two times.
Window(sort, fromdate, todate) ==
    {q \in Published : fromdate <= Date(sort, q) /\ Date(sort, q) <= todate}

\* The listing has each question of its window once, and the newer ones first.
Sorted(sort, S, s) ==
    /\ s \in [1 .. Cardinality(S) -> S]
    /\ \A q \in S : \E i \in 1 .. Cardinality(S) : s[i] = q
    /\ \A i, j \in 1 .. Cardinality(S) : i < j => Newer(sort, s[i], s[j])
    /\ \A i \in 1 .. Cardinality(S) : Rank(sort, S, s[i]) = i

\* The window of a listing is a finite set of questions.
LEMMA WindowFinite ==
    ASSUME NEW sort, NEW fromdate, NEW todate
    PROVE  LET S == Window(sort, fromdate, todate)
           IN S \subseteq Published /\ S \subseteq Questions /\ IsFiniteSet(S) /\ Cardinality(S) \in Nat
<1>1. IsFiniteSet(Questions)
  BY SyncAssumption, FS_Interval DEF Questions
<1>2. Window(sort, fromdate, todate) \subseteq Questions
  BY DEF Window, Published
<1> QED BY <1>1, <1>2, FS_Subset, FS_CardinalityType DEF Window

\* iterate_questions passes over the questions of its window in order.
LEMMA ListingSorted ==
    ASSUME NEW sort, NEW fromdate, NEW todate, Dated(sort)
    PROVE  Sorted(sort, Window(sort, fromdate, todate), Listing(sort, fromdate, todate))
<1> DEFINE S == Window(sort, fromdate, todate)
           n == Cardinality(S)
           N == 1 .. n
           rank == [q \in S |-> Rank(sort, S, q)]
           s == Listing(sort, fromdate, todate)
<1>1. S \in SUBSET Questions /\ IsFiniteSet(S) /\ n \in Nat
  BY WindowFinite
<1>2. \A q \in S : Rank(sort, S, q) \in N
  BY <1>1, RankFacts
<1>3. \A q, r \in S : Newer(sort, q, r) => Rank(sort, S, q) < Rank(sort, S, r)
  BY <1>1, RankFacts
<1>4. \A q, r \in S : q # r => Newer(sort, q, r) \/ Newer(sort, r, q)
  BY <1>1, NewerOrders
<1>5. s = [k \in N |-> CHOOSE q \in S : Cardinality(Ahead(sort, S, q)) = k - 1]
  BY DEF Listing, Window, Ahead
<1> HIDE DEF S, s
<1>6. \A q, r \in S : Rank(sort, S, q) = Rank(sort, S, r) => q = r
  BY <1>1, <1>2, <1>3, <1>4
<1>7. rank \in Injection(S, N)
  BY <1>2, <1>6 DEF Injection, IsInjective
<1>8. IsFiniteSet(N) /\ Cardinality(N) = n
  BY <1>1, FS_Interval
<1>9. rank \in Surjection(S, N)
  BY <1>7, <1>8, FS_Injection
<1>10. \A k \in N : \E q \in S : Rank(sort, S, q) = k
  BY <1>9 DEF Surjection
<1>11. \A q \in S : Cardinality(Ahead(sort, S, q)) \in Nat
  BY <1>1, FS_Subset, FS_CardinalityType DEF Ahead
<1>12. ASSUME NEW k \in N
       PROVE  s[k] \in S /\ Rank(sort, S, s[k]) = k
  <2>1. \E q \in S : Cardinality(Ahead(sort, S, q)) = k - 1
    BY <1>1, <1>10, <1>11 DEF Rank
  <2>2. s[k] \in S /\ Cardinality(Ahead(sort, S, s[k])) = k - 1
    BY <1>5, <2>1
  <2> QED BY <1>1, <2>2 DEF Rank
<1>13. s \in [N -> S]
  BY <1>5, <1>12
<1>14. \A q \in S : \E k \in N : s[k] = q
  BY <1>2, <1>6, <1>12
<1>15. ASSUME NEW i \in N, NEW j \in N, i < j
       PROVE  Newer(sort, s[i], s[j])
  <2>1. Rank(sort, S, s[i]) = i /\ Rank(sort, S, s[j]) = j
    BY <1>12
  <2>2. i \in Int /\ j \in Int /\ ~(j < i) /\ i # j
    BY <1>1, <1>15
  <2>3. s[i] # s[j]
    BY <2>1, <2>2, Zenon
  <2>4. ~(Rank(sort, S, s[j]) < Rank(sort, S, s[i]))
    BY <2>1, <2>2, Zenon
  <2> QED BY <1>3, <1>4, <1>12, <2>3, <2>4
<1> QED BY <1>12, <1>13, <1>14, <1>15 DEF S, s, Sorted

-----------------------------------------------------------------------------
(* The types of all the state.                                             *)

\* A checkpoint: the position of the next run in the traversal.
Positions ==
    [mode : Modes, page : (Nat \ {0}) \cup {None}, offset : Nat, todate : Times \cup {None},
     questions : Nat]

\* The rows of the active job and of the ended one, and how a handler ends.
JobRow ==
    [id : Nat, status : {"QUEUED", "RUNNING", "COMPLETED", "FAILED", "CANCELLED"},
     owner : Workers \cup {NoWorker}, cancel : BOOLEAN, payload : Payloads, checkpoint : Positions]

EndedRow == [payload : Payloads, checkpoint : Positions]

Codes == {"OK", "REQUEUED", "FAILED", "CANCELLED"}

\* The local variables of a handler.
MemRow ==
    [id : Nat, mode : Modes, dry : BOOLEAN, cap : Nat, start : Nat, page : Nat, offset : Nat,
     todate : Times \cup {None}, fromdate : Nat, questions : Nat, count : 0 .. Len(Created),
     batch : Seq(Questions \X Times), took : Nat, more : BOOLEAN, consumed : BOOLEAN, left : Nat,
     yielded : BOOLEAN, lastMore : BOOLEAN, complete : BOOLEAN, code : Codes]

\* The places of a handler, and those at which it is inside a page.
Places == {"idle", "load", "fetch", "answers", "next", "ingest", "save", "finish"}
AtPage == {"fetch", "answers", "next", "ingest", "save"}

\* What the places of the handler say of its local variables.
AtPlace(place, m) ==
    /\ place = "idle" => m = Nothing
    /\ place \in AtPage => m.page # 0
    /\ place \in {"answers", "next", "ingest"} => m.batch # <<>>

Tables ==
    /\ now \in Times /\ activity \in [Questions -> Times] /\ docs \in [Questions -> Times \cup {None}]
    /\ spent \in [starts : Nat, faults : Nat]

\* An active job has a payload, and a running one an owner.
JobTyped ==
    /\ job \in JobRow
    /\ job.owner # NoWorker <=> job.status = "RUNNING"
    /\ Active => job.payload # NoPayload

\* Every handler is at a place that its variables agree with.
Handlers ==
    /\ pc \in [Workers -> Places] /\ mem \in [Workers -> MemRow]
    /\ \A w \in Workers : AtPlace(pc[w], mem[w])

\* The inductive invariant of the types.
SyncInv == Tables /\ JobTyped /\ ended \in EndedRow /\ sync \in SyncRow /\ Handlers

\* Dates of both sorts are numbers.
LEMMA AllDated == ASSUME Tables, NEW sort PROVE Dated(sort)
  BY SyncAssumption DEF Tables, Dated, Date, Times, Questions

\* The documents are counted by a number up to that of the questions.
LEMMA StoredCounted == Cardinality(Stored) \in 0 .. Len(Created)
<1> DEFINE n == Len(Created)
<1>1. Questions = 1 .. n /\ n \in Nat
  BY SyncAssumption DEF Questions
<1> HIDE DEF n
<1>2. IsFiniteSet(1 .. n) /\ Cardinality(1 .. n) = IF 1 > n THEN 0 ELSE n - 1 + 1
  BY <1>1, FS_Interval
<1>3. IsFiniteSet(Questions) /\ Cardinality(Questions) = n
  BY <1>1, <1>2
<1>4. Stored \subseteq Questions
  BY DEF Stored
<1>5. Cardinality(Stored) \in Nat /\ Cardinality(Stored) <= n
  BY <1>3, <1>4, FS_Subset, FS_CardinalityType
<1> QED BY <1>1, <1>5 DEF n

\* The local variables of an idle worker.
LEMMA NothingTyped == Nothing \in MemRow /\ AtPlace("idle", Nothing)
<1>1. 0 \in 0 .. Len(Created)
  BY SyncAssumption
<1> QED BY <1>1 DEF Nothing, MemRow, Modes, Codes, AtPlace, AtPage

\* A handler that goes on at a place with what this place needs.
LEMMA Goes ==
    ASSUME Handlers, NEW w \in Workers, NEW place \in Places, NEW m \in MemRow, AtPlace(place, m),
           Goto(w, place), Learn(w, m)
    PROVE  Handlers'
  BY DEF Handlers, Goto, Learn

\* A handler that goes away forgets its variables.
LEMMA Escapes ==
    ASSUME Handlers, NEW w \in Workers, Escape(w)
    PROVE  Handlers'
  BY NothingTyped, Goes DEF Escape, Places

\* Errors, cancellations and signals end the handler with a code.
LEMMA EndsTyped ==
    ASSUME Handlers, NEW w \in Workers, NEW code \in Codes, Ends(w, code)
    PROVE  Handlers'
<1> DEFINE m == mem[w]
<1>1. m \in MemRow
  BY DEF Handlers
<1> HIDE DEF m
<1>2. [m EXCEPT !.code = code] \in MemRow
  BY <1>1 DEF MemRow
<1>3. AtPlace("finish", [m EXCEPT !.code = code])
  BY DEF AtPlace, AtPage
<1> QED BY <1>2, <1>3, Goes DEF Ends, Places, m

\* A job that is put back or ends keeps its payload and checkpoint.
LEMMA ClosedTyped ==
    ASSUME JobTyped, NEW status \in {"QUEUED", "COMPLETED", "FAILED", "CANCELLED"},
           job' = Closed(status), status = "QUEUED" => Active
    PROVE  JobTyped'
<1>1. job' \in JobRow /\ job'.owner = NoWorker /\ job'.status = status /\ job'.payload = job.payload
  BY DEF JobTyped, JobRow, Closed
<1> QED BY <1>1 DEF JobTyped, Active

\* What is kept of a job that leaves the queue has the type of an ended one.
LEMMA RememberedTyped ==
    ASSUME JobTyped, ended \in EndedRow, NEW status, ended' = Remembered(status)
    PROVE  ended' \in EndedRow
  BY DEF JobTyped, JobRow, EndedRow, Remembered

\* What is read of a page is a sequence of questions of the listing.
LEMMA PageTyped ==
    ASSUME Tables, NEW sort, NEW fromdate, NEW todate, NEW page \in Nat \ {0}
    PROVE  /\ Listing(sort, fromdate, todate) \in Seq(Questions)
           /\ PageOf(Listing(sort, fromdate, todate), page) \in Seq(Questions)
<1> DEFINE s == Listing(sort, fromdate, todate)
<1>1. s \in [1 .. Cardinality(Window(sort, fromdate, todate)) -> Questions]
  BY AllDated, ListingSorted, WindowFinite DEF Sorted
<1>2. s \in Seq(Questions)
  BY <1>1, WindowFinite
<1> HIDE DEF s
<1>3. (page - 1) * PageSize + 1 \in Nat \ {0} /\ page * PageSize \in Nat
  BY SyncAssumption
<1>4. Least(page * PageSize, Len(s)) \in Nat /\ Least(page * PageSize, Len(s)) <= Len(s)
  BY <1>2, <1>3 DEF Least
<1>5. PageOf(s, page) \in Seq(Questions)
  BY <1>2, <1>3, <1>4 DEF PageOf
<1> QED BY <1>2, <1>5 DEF s

-----------------------------------------------------------------------------
(* Every step keeps the types.                                             *)

\* A new job has a payload, and a position or none.
LEMMA NewJobTyped ==
    ASSUME Tables, NEW payload \in Payloads, payload # NoPayload, NEW checkpoint \in Positions,
           job' = NewJob(payload, checkpoint)
    PROVE  JobTyped'
<1>1. spent.starts + 1 \in Nat
  BY DEF Tables
<1>2. job' = [id |-> spent.starts + 1, status |-> "QUEUED", owner |-> NoWorker, cancel |-> FALSE,
              payload |-> payload, checkpoint |-> checkpoint]
  BY DEF NewJob
<1>3. job' \in JobRow /\ job'.owner = NoWorker /\ job'.status = "QUEUED" /\ job'.payload = payload
  BY <1>1, <1>2 DEF JobRow
<1> QED BY <1>3 DEF JobTyped

\* Starts and faults are counted up from zero.
LEMMA Counts ==
    ASSUME Tables, Requested \/ Faulted
    PROVE  spent' \in [starts : Nat, faults : Nat]
  BY DEF Tables, Requested, Faulted

\* The absent payload and the absent checkpoint have the types of the columns.
LEMMA NoneTyped == NoPayload \in Payloads /\ NoCheckpoint \in Positions
  BY DEF NoPayload, Payloads, NoCheckpoint, Positions, Modes

\* Requests keep the types.
LEMMA ApiTyped ==
    ASSUME SyncInv, Api
    PROVE  SyncInv'
<1>1. ASSUME NEW start \in Starts, NEW cap \in Caps, NEW dry \in BOOLEAN,
             StartSync(start[1], start[2], cap, dry)
      PROVE  SyncInv'
  <2> DEFINE payload == [mode |-> start[2], cap |-> cap, dry |-> dry]
  <2>1. start[2] \in Modes
    BY SyncAssumption
  <2>2. payload \in Payloads /\ payload.mode # "NONE"
    BY <2>1 DEF Payloads, Modes
  <2>3. payload # NoPayload
    BY <2>2 DEF NoPayload
  <2>4. JobTyped'
    BY <1>1, <2>2, <2>3, NewJobTyped, NoneTyped DEF StartSync, SyncInv
  <2>5. sync' = [sync EXCEPT !.mode = start[2]] \/ sync' = sync
    BY <1>1 DEF StartSync, StateAfterStart
  <2>6. sync' \in SyncRow
    BY <2>1, <2>5 DEF SyncRow, SyncInv
  <2>7. spent' \in [starts : Nat, faults : Nat]
    BY <1>1, Counts DEF StartSync, SyncInv
  <2> QED BY <1>1, <2>4, <2>6, <2>7 DEF StartSync, SyncInv, Tables, Handlers, site
<1>2. ASSUME RetryJob PROVE SyncInv'
  <2>1. ended.payload \in Payloads /\ ended.checkpoint \in Positions /\ ended.payload # NoPayload
    BY <1>2 DEF RetryJob, SyncInv, EndedRow
  <2>2. JobTyped'
    BY <1>2, <2>1, NewJobTyped DEF RetryJob, SyncInv
  <2>3. spent' \in [starts : Nat, faults : Nat]
    BY <1>2, Counts DEF RetryJob, SyncInv
  <2> QED BY <1>2, <2>2, <2>3 DEF RetryJob, SyncInv, Tables, Handlers, site
<1>3. ASSUME CancelJob PROVE SyncInv'
  <2>1. spent' \in [starts : Nat, faults : Nat]
    BY <1>3, Counts DEF CancelJob, SyncInv
  <2>2. JobTyped' /\ ended' \in EndedRow
    <3>1. CASE job.status = "QUEUED"
      BY <1>3, <3>1, ClosedTyped, RememberedTyped DEF CancelJob, SyncInv
    <3>2. CASE job.status # "QUEUED"
      <4>1. job' = [job EXCEPT !.cancel = TRUE] /\ ended' = ended
        BY <1>3, <3>2 DEF CancelJob
      <4>2. /\ job' \in JobRow /\ job'.owner = job.owner /\ job'.status = job.status
            /\ job'.payload = job.payload
        BY <4>1 DEF SyncInv, JobTyped, JobRow
      <4> QED BY <4>1, <4>2 DEF SyncInv, JobTyped, Active
    <3> QED BY <3>1, <3>2
  <2> QED BY <1>3, <2>1, <2>2 DEF CancelJob, SyncInv, Tables, Handlers, site
<1> QED BY <1>1, <1>2, <1>3 DEF Api

\* Questions are created while the site lasts.
LEMMA CreatedTimes == \A q \in Questions : Created[q] \in 0 .. Horizon
<1>1. Created \in Seq(0 .. Horizon) /\ Horizon \in Nat
  BY SyncAssumption
<1>2. Created \in [1 .. Len(Created) -> 0 .. Horizon] /\ Questions = 1 .. Len(Created)
  BY <1>1 DEF Questions
<1> QED BY <1>2

\* Of stored questions one is the oldest.
LEMMA OldestExists ==
    ASSUME Stored # {}
    PROVE  \E q \in Stored : \A r \in Stored : Created[q] <= Created[r]
<1> DEFINE T == {Created[q] : q \in Stored}
<1>1. \A q \in Stored : Created[q] \in Nat
  BY SyncAssumption DEF Stored, Questions
<1>2. T \subseteq Nat /\ T # {}
  BY <1>1
<1>3. PICK x \in T : \A y \in T : ~(<<y, x>> \in OpToRel(<, Nat))
  BY <1>2, WFMin, NatLessThanWellFounded
<1>4. \A y \in T : ~(y < x)
  BY <1>2, <1>3 DEF OpToRel
<1>5. PICK q \in Stored : x = Created[q]
  OBVIOUS
<1>6. \A r \in Stored : Created[r] \in T /\ ~(Created[r] < Created[q])
  BY <1>4, <1>5
<1> HIDE DEF T
<1> QED BY <1>1, <1>6

\* Where a run goes on is a page of a window.
LEMMA LoadTyped ==
    ASSUME SyncInv, NEW w \in Workers, Load(w)
    PROVE  SyncInv'
<1> DEFINE payload == job.payload
           mode == Resolved(payload.mode)
           position == Position(payload, job.checkpoint)
           at == RolledOver(mode, position)
           Places_ == [page : Nat \ {0}, offset : Nat, todate : Times \cup {None}]
<1>1. CASE ~Owner(w)
  BY <1>1, Escapes DEF Load, SyncInv, Tables, JobTyped, Active, site, rows
<1>2. CASE Owner(w)
  <2>1. job.status = "RUNNING" /\ job.owner = w
    BY <1>2, SyncAssumption DEF Owner, SyncInv, JobTyped
  <2>2. payload \in [mode : Modes, cap : Caps, dry : BOOLEAN]
    BY <2>1 DEF SyncInv, JobTyped, Active, JobRow, Payloads
  <2>3. mode \in {"INITIAL", "INCREMENTAL"}
    BY <2>2 DEF Resolved, Modes
  <2>4. position \in Places_
    <3>1. CASE job.checkpoint.page # None
      <4>1. /\ job.checkpoint.page \in Nat \ {0} /\ job.checkpoint.offset \in Nat
            /\ job.checkpoint.todate \in Times \cup {None}
        BY <3>1 DEF SyncInv, JobTyped, JobRow, Positions
      <4> QED BY <3>1, <4>1 DEF Position
    <3>2. CASE job.checkpoint.page = None
      <4>1. /\ sync.page \in Nat \ {0} /\ sync.offset \in Nat /\ sync.todate \in Times \cup {None}
            /\ now \in Times
        BY DEF SyncInv, SyncRow, Tables
      <4> QED BY <3>2, <4>1 DEF Position
    <3> QED BY <3>1, <3>2
  <2>5. at \in Places_
    <3>1. CASE ~(mode = "INITIAL" /\ position.page > KeylessPages /\ Stored # {})
      BY <2>4, <3>1 DEF RolledOver
    <3>2. CASE mode = "INITIAL" /\ position.page > KeylessPages /\ Stored # {}
      <4> DEFINE oldest == CHOOSE q \in Stored : \A r \in Stored : Created[q] <= Created[r]
                 last == Created[oldest] - 1
      <4>1. at = [page |-> 1, offset |-> 0, todate |-> IF last < 0 THEN 0 ELSE last]
        BY <3>2 DEF RolledOver
      <4>2. oldest \in Stored
        BY <3>2, OldestExists
      <4>3. Created[oldest] \in 0 .. Horizon
        <5>1. oldest \in Questions
          BY <4>2 DEF Stored
        <5> HIDE DEF oldest
        <5> QED BY <5>1, CreatedTimes
      <4> HIDE DEF oldest
      <4>4. (IF last < 0 THEN 0 ELSE last) \in Times
        BY <4>3, SyncAssumption DEF Times
      <4> QED BY <4>1, <4>4
    <3> QED BY <3>1, <3>2
  <2>6. FromDate(mode) \in Nat
    BY SyncAssumption DEF FromDate, SyncInv, SyncRow, Times
  <2> DEFINE m == [Nothing EXCEPT
                !.id = job.id, !.mode = mode, !.dry = payload.dry, !.cap = payload.cap, !.start = at.page,
                !.page = at.page, !.offset = at.offset, !.todate = at.todate,
                !.fromdate = FromDate(mode), !.questions = job.checkpoint.questions,
                !.count = sync.count, !.left = MaxPages]
             left == [m EXCEPT !.complete = TargetReached(m)]
  <2>7. job.id \in Nat /\ job.checkpoint.questions \in Nat /\ sync.count \in 0 .. Len(Created)
        /\ payload.cap \in Nat /\ payload.dry \in BOOLEAN /\ mode \in Modes /\ MaxPages \in Nat
    BY <2>2, <2>3, SyncAssumption DEF SyncInv, SyncRow, JobTyped, JobRow, Positions, Modes
  <2>8. at.page \in Nat \ {0} /\ at.offset \in Nat /\ at.todate \in Times \cup {None}
    BY <2>5
  <2>9. TargetReached(m) \in BOOLEAN
    BY DEF TargetReached
  <2>10. /\ Learn(w, left)
         /\ Goto(w, "finish") \/ Goto(w, "fetch")
         /\ UNCHANGED <<site, rows, spent>>
    BY <1>2 DEF Load
  <2> HIDE DEF at, mode, payload, position
  <2>11. m \in MemRow /\ m.page = at.page
    <3> DEFINE a == [Nothing EXCEPT !.id = job.id, !.mode = mode, !.dry = payload.dry,
                                    !.cap = payload.cap]
               b == [a EXCEPT !.start = at.page, !.page = at.page, !.offset = at.offset,
                              !.todate = at.todate]
               c == [b EXCEPT !.fromdate = FromDate(mode), !.questions = job.checkpoint.questions,
                              !.count = sync.count, !.left = MaxPages]
    <3>1. m = c
      BY Zenon
    <3>2. a \in MemRow
      BY <2>7, NothingTyped DEF MemRow
    <3> HIDE DEF a
    <3>3. b \in MemRow /\ b.page = at.page
      BY <2>8, <3>2 DEF MemRow
    <3> HIDE DEF b
    <3>4. c \in MemRow /\ c.page = at.page
      BY <2>6, <2>7, <3>3 DEF MemRow
    <3> QED BY <3>1, <3>4
  <2> HIDE DEF m
  <2>12. left \in MemRow /\ left.page = at.page
    BY <2>9, <2>11 DEF MemRow
  <2>13. AtPlace("finish", left) /\ AtPlace("fetch", left)
    BY <2>8, <2>12 DEF AtPlace, AtPage
  <2> HIDE DEF left
  <2>14. Handlers'
    BY <2>10, <2>12, <2>13, Goes DEF SyncInv, Places
  <2> QED BY <2>10, <2>14 DEF SyncInv, Tables, JobTyped, Active, site, rows
<1> QED BY <1>1, <1>2

\* A worker in the handler has typed variables, and at a page that page.
LEMMA AtWork ==
    ASSUME SyncInv, NEW w \in Workers
    PROVE  /\ mem[w] \in MemRow
           /\ pc[w] \in AtPage => mem[w].page \in Nat \ {0}
           /\ pc[w] \in {"answers", "next", "ingest"} => mem[w].batch # <<>>
<1>1. mem[w] \in MemRow /\ AtPlace(pc[w], mem[w])
  BY DEF SyncInv, Handlers
<1>2. mem[w].page \in Nat
  BY <1>1 DEF MemRow
<1> QED BY <1>1, <1>2 DEF AtPlace

\* What a batch is made of.
LEMMA TakenTyped ==
    ASSUME Tables, NEW items \in Seq(Questions), NEW a \in Nat \ {0}, NEW b \in Nat, b <= Len(items)
    PROVE  LET taken == SubSeq(items, a, b)
           IN /\ taken \in Seq(Questions) /\ Len(taken) \in Nat
              /\ [n \in 1 .. Len(taken) |-> <<taken[n], activity[taken[n]]>>] \in Seq(Questions \X Times)
<1> DEFINE taken == SubSeq(items, a, b)
<1>1. taken \in Seq(Questions) /\ Len(taken) \in Nat
  OBVIOUS
<1> HIDE DEF taken
<1>2. \A n \in 1 .. Len(taken) : taken[n] \in Questions
  BY <1>1
<1>3. \A q \in Questions : activity[q] \in Times
  BY DEF Tables
<1>4. \A n \in 1 .. Len(taken) : <<taken[n], activity[taken[n]]>> \in Questions \X Times
  BY <1>2, <1>3
<1> DEFINE batch == [n \in 1 .. Len(taken) |-> <<taken[n], activity[taken[n]]>>]
<1>5. batch \in [1 .. Len(taken) -> Questions \X Times]
  BY <1>4
<1>6. batch \in Seq(Questions \X Times)
  BY <1>1, <1>5
<1> QED BY <1>1, <1>6 DEF taken

\* What the caps leave to import is a natural number.
LEMMA RemainingTyped == ASSUME NEW m \in MemRow PROVE Remaining(m) \in Nat
<1>1. m.cap \in Nat /\ m.questions \in Nat /\ m.count \in Int
  BY DEF MemRow
<1>2. m.cap - m.questions \in Int /\ Target - m.count \in Int
  BY <1>1, SyncAssumption
<1>3. Least(m.cap - m.questions, Target - m.count) \in Int
  BY <1>2 DEF Least
<1> QED BY <1>2, <1>3 DEF Remaining

\* A traversed window.
LEMMA TraversedTyped ==
    ASSUME NEW m \in MemRow
    PROVE  Traversed(m) \in MemRow /\ AtPlace("finish", Traversed(m))
<1>1. (m.complete \/ ~m.yielded \/ ~m.lastMore) \in BOOLEAN
  OBVIOUS
<1>2. Traversed(m) = [m EXCEPT !.complete = m.complete \/ ~m.yielded \/ ~m.lastMore]
  BY DEF Traversed
<1>3. Traversed(m) \in MemRow
  BY <1>1, <1>2 DEF MemRow
<1> QED BY <1>3 DEF AtPlace, AtPage

\* A request to the site, whatever it answers, keeps the types.
LEMMA FetchTyped ==
    ASSUME SyncInv, NEW w \in Workers, Fetch(w)
    PROVE  SyncInv'
<1> DEFINE m == mem[w]
           listing == Listing(Sort(m), m.fromdate, m.todate)
           items == PageOf(listing, m.page)
           more == Len(listing) > m.page * PageSize
           offset == IF m.page = m.start THEN m.offset ELSE 0
           taken == SubSeq(items, offset + 1, Least(Len(items), offset + Remaining(m)))
           consumed == offset + Len(taken) >= Len(items)
           batch == [n \in 1 .. Len(taken) |-> <<taken[n], activity[taken[n]]>>]
           got == [m EXCEPT !.yielded = TRUE, !.left = m.left - 1, !.offset = offset, !.batch = batch,
                            !.took = Len(taken), !.more = more, !.consumed = consumed,
                            !.lastMore = more \/ ~consumed]
           skipped == [m EXCEPT !.yielded = TRUE, !.left = m.left - 1, !.offset = 0,
                                !.lastMore = more, !.page = m.page + 1]
<1>1. m \in MemRow /\ m.page \in Nat \ {0} /\ pc[w] = "fetch"
  BY AtWork DEF Fetch, AtPage
<1>2. m.offset \in Nat /\ m.left \in Nat
  BY <1>1 DEF MemRow
<1>3. items \in Seq(Questions) /\ Len(items) \in Nat
  BY <1>1, PageTyped DEF SyncInv
<1>4. offset \in Nat /\ Remaining(m) \in Nat
  BY <1>1, <1>2, RemainingTyped
<1>5. more \in BOOLEAN /\ consumed \in BOOLEAN /\ (more \/ ~consumed) \in BOOLEAN
  OBVIOUS
<1>6. \/ Learn(w, Traversed(m)) /\ Goto(w, "finish")
      \/ m.left # 0 /\ taken # <<>> /\ Learn(w, got) /\ Goto(w, "answers")
      \/ m.left # 0 /\ Learn(w, skipped) /\ UNCHANGED pc
      \/ m.left # 0 /\ Learn(w, Traversed(skipped)) /\ Goto(w, "finish")
  BY DEF Fetch
<1>7. UNCHANGED <<site, rows, spent>>
  BY DEF Fetch
<1> HIDE DEF items, listing, more, consumed, offset
<1>8. taken \in Seq(Questions) /\ Len(taken) \in Nat /\ batch \in Seq(Questions \X Times)
  <2>1. offset + 1 \in Nat \ {0} /\ Least(Len(items), offset + Remaining(m)) \in Nat
        /\ Least(Len(items), offset + Remaining(m)) <= Len(items)
    BY <1>3, <1>4 DEF Least
  <2> QED BY <1>3, <2>1, TakenTyped DEF SyncInv
<1>9. taken # <<>> => batch # <<>>
  BY <1>8
<1> HIDE DEF m, taken, batch
<1>10. Handlers'
  <2>1. CASE Learn(w, Traversed(m)) /\ Goto(w, "finish")
    BY <1>1, <2>1, TraversedTyped, Goes DEF SyncInv, Places
  <2>2. CASE m.left # 0 /\ taken # <<>> /\ Learn(w, got) /\ Goto(w, "answers")
    <3>1. m.left - 1 \in Nat
      BY <1>2, <2>2
    <3> DEFINE a == [m EXCEPT !.yielded = TRUE, !.left = m.left - 1, !.offset = offset, !.batch = batch]
               last == more \/ ~consumed
               b == [a EXCEPT !.took = Len(taken), !.more = more]
               c == [b EXCEPT !.consumed = consumed, !.lastMore = last]
    <3>2. last \in BOOLEAN
      BY <1>5
    <3> HIDE DEF last
    <3>3. a \in MemRow /\ a.batch = batch /\ a.page = m.page
      BY <1>1, <1>4, <1>8, <3>1 DEF MemRow
    <3> HIDE DEF a
    <3>4. b \in MemRow /\ b.batch = batch /\ b.page = m.page
      BY <1>5, <1>8, <3>3 DEF MemRow
    <3> HIDE DEF b
    <3>5. c \in MemRow /\ c.batch = batch /\ c.page = m.page
      BY <1>5, <3>2, <3>4 DEF MemRow
    <3>6. got = c
      BY Zenon DEF a, b, last
    <3>7. got \in MemRow /\ AtPlace("answers", got)
      BY <1>1, <1>9, <2>2, <3>5, <3>6 DEF AtPlace
    <3> HIDE DEF got, c
    <3> QED BY <2>2, <3>7, Goes DEF SyncInv, Places
  <2>3. ASSUME m.left # 0
        PROVE  skipped \in MemRow /\ skipped.page # 0
    <3>1. m.left - 1 \in Nat /\ m.page + 1 \in Nat /\ m.page + 1 # 0
      BY <1>1, <1>2, <2>3
    <3> QED BY <1>1, <1>5, <3>1 DEF MemRow
  <2> HIDE DEF skipped
  <2>4. CASE m.left # 0 /\ Learn(w, skipped) /\ UNCHANGED pc
    <3>1. AtPlace("fetch", skipped)
      BY <2>3, <2>4 DEF AtPlace
    <3>2. Goto(w, "fetch")
      BY <1>1, <2>4 DEF Goto, SyncInv, Handlers
    <3> QED BY <2>3, <2>4, <3>1, <3>2, Goes DEF SyncInv, Places
  <2>5. CASE m.left # 0 /\ Learn(w, Traversed(skipped)) /\ Goto(w, "finish")
    BY <2>3, <2>5, TraversedTyped, Goes DEF SyncInv, Places
  <2> QED BY <1>6, <2>1, <2>2, <2>4, <2>5
<1> QED BY <1>7, <1>10 DEF SyncInv, Tables, JobTyped, Active, site, rows

\* A job is claimed while it is queued.
LEMMA ClaimTyped ==
    ASSUME SyncInv, NEW w \in Workers, Claim(w)
    PROVE  SyncInv'
<1>1. job' = [job EXCEPT !.status = "RUNNING", !.owner = w] /\ job.status = "QUEUED"
  BY DEF Claim
<1>2. /\ job' \in JobRow /\ job'.owner = w /\ job'.status = "RUNNING"
      /\ job'.payload = job.payload /\ job.id \in Nat
  BY <1>1 DEF SyncInv, JobTyped, JobRow
<1>3. JobTyped'
  BY <1>1, <1>2, SyncAssumption DEF SyncInv, JobTyped, Active
<1>4. [Nothing EXCEPT !.id = job.id] \in MemRow
  BY <1>2, NothingTyped DEF MemRow
<1>5. AtPlace("load", [Nothing EXCEPT !.id = job.id])
  BY DEF AtPlace, AtPage
<1>6. Handlers'
  BY <1>4, <1>5, Goes DEF Claim, SyncInv, Places
<1> QED BY <1>3, <1>6 DEF Claim, SyncInv, Tables, site

\* The handler turns from one thread to the next.
LEMMA ThreadTyped ==
    ASSUME SyncInv, NEW w \in Workers, FetchAnswers(w) \/ NextQuestion(w)
    PROVE  SyncInv'
<1>1. /\ mem' = mem /\ Learn(w, mem[w])
      /\ UNCHANGED <<site, rows, spent>>
  BY DEF FetchAnswers, NextQuestion, Learn, SyncInv, Handlers
<1>2. pc[w] \in {"answers", "next"} /\ mem[w] \in MemRow /\ mem[w].page # 0 /\ mem[w].batch # <<>>
  BY AtWork DEF FetchAnswers, NextQuestion, AtPage
<1>3. Goto(w, "save") \/ Goto(w, "next") \/ Goto(w, "ingest")
  BY DEF FetchAnswers, NextQuestion
<1>4. Handlers'
  <2>1. \A place \in {"save", "next", "ingest"} : AtPlace(place, mem[w])
    BY <1>2 DEF AtPlace
  <2> QED BY <1>1, <1>2, <1>3, <2>1, Goes DEF SyncInv, Places
<1> QED BY <1>1, <1>4 DEF SyncInv, Tables, JobTyped, Active, site, rows

\* A thread becomes a document of its own transaction.
LEMMA IngestTyped ==
    ASSUME SyncInv, NEW w \in Workers, IngestOne(w)
    PROVE  SyncInv'
<1> DEFINE m == mem[w]
           left == [m EXCEPT !.batch = Tail(m.batch)]
<1>1. m \in MemRow /\ m.page # 0 /\ m.batch # <<>> /\ m.batch \in Seq(Questions \X Times)
  BY AtWork DEF IngestOne, AtPage, MemRow
<1>2. Head(m.batch) \in Questions \X Times /\ Tail(m.batch) \in Seq(Questions \X Times)
  BY <1>1
<1>3. docs' \in [Questions -> Times \cup {None}]
  BY <1>2 DEF IngestOne, SyncInv, Tables
<1>4. /\ Learn(w, left)
      /\ IF Len(m.batch) = 1 THEN Goto(w, "save") ELSE Goto(w, "next")
      /\ UNCHANGED <<site, job, ended, sync, spent>>
  BY DEF IngestOne
<1>5. Len(m.batch) # 1 => Tail(m.batch) # <<>>
  <2>1. Len(m.batch) # 0 /\ Len(Tail(m.batch)) = Len(m.batch) - 1 /\ Len(m.batch) \in Nat
    BY <1>1
  <2>2. Len(<<>>) = 0
    OBVIOUS
  <2>3. Len(m.batch) # 1 => Len(Tail(m.batch)) # 0
    BY <2>1
  <2> QED BY <2>2, <2>3, Zenon
<1> HIDE DEF m
<1>6. left \in MemRow /\ left.page = m.page /\ left.batch = Tail(m.batch)
  BY <1>1, <1>2 DEF MemRow
<1>7. AtPlace("save", left) /\ (Len(m.batch) # 1 => AtPlace("next", left))
  BY <1>1, <1>5, <1>6 DEF AtPlace
<1> HIDE DEF left
<1>8. Handlers'
  BY <1>4, <1>6, <1>7, Goes DEF SyncInv, Places
<1> QED BY <1>3, <1>4, <1>8 DEF SyncInv, Tables, JobTyped, Active, site

\* The next position is one.
LEMMA CheckpointTyped ==
    ASSUME NEW m \in MemRow, m.page \in Nat \ {0}
    PROVE  Checkpoint(m) \in Positions /\ Checkpoint(m).page \in Nat \ {0}
<1>1. /\ m.mode \in Modes /\ m.offset \in Nat /\ m.took \in Nat /\ m.todate \in Times \cup {None}
      /\ m.questions \in Nat
  BY DEF MemRow
<1>2. /\ m.page + 1 \in Nat \ {0} /\ m.offset + m.took \in Nat /\ m.questions + m.took \in Nat
      /\ (IF m.consumed THEN m.page + 1 ELSE m.page) \in Nat \ {0}
      /\ (IF m.consumed THEN 0 ELSE m.offset + m.took) \in Nat
  BY <1>1
<1>3. Checkpoint(m).page = (IF m.consumed THEN m.page + 1 ELSE m.page)
  BY DEF Checkpoint
<1> QED BY <1>1, <1>2, <1>3 DEF Checkpoint, Positions

\* Saving the progress of a page, and going on to the next, keeps the types.
LEMMA SaveTyped ==
    ASSUME SyncInv, NEW w \in Workers, SaveCheckpoint(w)
    PROVE  SyncInv'
<1> DEFINE m == mem[w]
           checkpoint == Checkpoint(m)
           saved == [m EXCEPT !.batch = <<>>, !.took = 0, !.questions = checkpoint.questions,
                              !.count = IF m.dry THEN m.count ELSE Cardinality(Stored),
                              !.offset = checkpoint.offset, !.complete = ~m.lastMore]
<1>1. CASE ~Owner(w)
  BY <1>1, Escapes DEF SaveCheckpoint, SyncInv, Tables, JobTyped, Active, site
<1>2. CASE Owner(w)
  <2>1. m \in MemRow /\ m.page \in Nat \ {0}
    BY AtWork DEF SaveCheckpoint, AtPage
  <2>2. checkpoint \in Positions /\ checkpoint.page \in Nat \ {0}
    BY <2>1, CheckpointTyped
  <2>3. job' = [job EXCEPT !.checkpoint = checkpoint]
    BY <1>2 DEF SaveCheckpoint
  <2> HIDE DEF checkpoint
  <2>4. JobTyped'
    <3>1. /\ job' \in JobRow /\ job'.owner = job.owner /\ job'.status = job.status
          /\ job'.payload = job.payload
      BY <2>2, <2>3 DEF SyncInv, JobTyped, JobRow
    <3> QED BY <3>1 DEF SyncInv, JobTyped, Active
  <2>5. sync' \in SyncRow
    <3>1. sync' = sync \/ sync' = Progressed(m, checkpoint)
      BY <1>2 DEF SaveCheckpoint, checkpoint
    <3>2. /\ m.mode \in Modes /\ checkpoint.offset \in Nat /\ m.todate \in Times \cup {None}
          /\ Cardinality(Stored) \in 0 .. Len(Created)
      BY <2>1, <2>2, StoredCounted DEF MemRow, Positions
    <3> HIDE DEF m
    <3>3. Progressed(m, checkpoint) \in SyncRow
      BY <2>2, <3>2 DEF SyncInv, SyncRow, Progressed
    <3> QED BY <3>1, <3>3 DEF SyncInv
  <2>6. saved \in MemRow /\ saved.page = m.page
    <3>1. /\ checkpoint.questions \in Nat /\ checkpoint.offset \in Nat
          /\ (IF m.dry THEN m.count ELSE Cardinality(Stored)) \in 0 .. Len(Created)
          /\ (~m.lastMore) \in BOOLEAN
      BY <2>1, <2>2, StoredCounted DEF MemRow, Positions
    <3> DEFINE count == IF m.dry THEN m.count ELSE Cardinality(Stored)
               last == ~m.lastMore
               a == [m EXCEPT !.batch = <<>>, !.took = 0, !.questions = checkpoint.questions]
               b == [a EXCEPT !.count = count, !.offset = checkpoint.offset, !.complete = last]
    <3>2. saved = b
      BY Zenon
    <3>5. count \in 0 .. Len(Created) /\ last \in BOOLEAN
      BY <3>1
    <3> HIDE DEF m, count, last
    <3>3. a \in MemRow /\ a.page = m.page
      <4>1. <<>> \in Seq(Questions \X Times)
        OBVIOUS
      <4> QED BY <2>1, <3>1, <4>1 DEF MemRow
    <3> HIDE DEF a
    <3>4. b \in MemRow /\ b.page = m.page
      BY <3>1, <3>3, <3>5 DEF MemRow
    <3> QED BY <3>2, <3>4
  <2>7. \/ Learn(w, saved) /\ Goto(w, "finish")
        \/ Learn(w, [saved EXCEPT !.page = saved.page + 1]) /\ Goto(w, "fetch")
    BY <1>2 DEF SaveCheckpoint, checkpoint
  <2> HIDE DEF saved, m
  <2>8. /\ [saved EXCEPT !.page = saved.page + 1] \in MemRow
        /\ [saved EXCEPT !.page = saved.page + 1].page # 0
    <3>1. saved.page + 1 \in Nat /\ saved.page + 1 # 0
      BY <2>1, <2>6
    <3> QED BY <2>6, <3>1 DEF MemRow
  <2>9. AtPlace("finish", saved) /\ AtPlace("fetch", [saved EXCEPT !.page = saved.page + 1])
    BY <2>8 DEF AtPlace, AtPage
  <2>10. Handlers'
    BY <2>6, <2>7, <2>8, <2>9, Goes DEF SyncInv, Places
  <2> QED BY <2>4, <2>5, <2>10 DEF SaveCheckpoint, SyncInv, Tables, site
<1> QED BY <1>1, <1>2

\* A completed synchronisation has its window behind it.
LEMMA CompletedTyped ==
    ASSUME SyncInv, NEW m \in MemRow
    PROVE  Completed(m) \in SyncRow
<1>1. m.todate \in Times \cup {None}
  BY DEF MemRow
<1>2. (sync.initial \/ m.mode = "INITIAL") \in BOOLEAN
  OBVIOUS
<1> DEFINE mark == IF m.mode = "INCREMENTAL" THEN m.todate ELSE sync.watermark
<1>3. mark \in Times \cup {None}
  BY <1>1 DEF SyncInv, SyncRow
<1>4. CASE ~SyncComplete(m)
  BY <1>4 DEF Completed, SyncInv
<1>5. CASE SyncComplete(m)
  <2>1. Completed(m) = [sync EXCEPT !.initial = sync.initial \/ m.mode = "INITIAL", !.watermark = mark,
                          !.page = 1, !.offset = 0, !.mode = "NONE", !.todate = m.todate]
    BY <1>5 DEF Completed
  <2> HIDE DEF mark
  <2> DEFINE initial == sync.initial \/ m.mode = "INITIAL"
             x == [sync EXCEPT !.initial = initial]
             z == [x EXCEPT !.watermark = mark]
             a == [z EXCEPT !.page = 1]
             b == [a EXCEPT !.offset = 0, !.mode = "NONE", !.todate = m.todate]
  <2>2. Completed(m) = b
    BY <2>1, Zenon
  <2>3. sync \in SyncRow /\ initial \in BOOLEAN
    BY DEF SyncInv
  <2> HIDE DEF initial
  <2>6. x \in SyncRow
    BY <2>3 DEF SyncRow
  <2> HIDE DEF x
  <2>7. z \in SyncRow
    BY <1>3, <2>6 DEF SyncRow
  <2> HIDE DEF z
  <2>8. 1 \in Nat \ {0}
    OBVIOUS
  <2>4. a \in SyncRow
    BY <2>7, <2>8 DEF SyncRow
  <2> HIDE DEF a
  <2>5. b \in SyncRow
    BY <1>1, <2>4 DEF SyncRow
  <2> QED BY <2>2, <2>5
<1> QED BY <1>4, <1>5

\* However a run ends, the job, the remembered one and the state stay typed.
LEMMA EndTyped ==
    ASSUME SyncInv, NEW w \in Workers,
           Stopped(w) \/ Lost(w) \/ RequestFails(w) \/ PageRefused(w) \/ Finish(w) \/ Crash(w)
           \/ LoseLease(w)
    PROVE  SyncInv'
<1>1. CASE Lost(w)
  BY <1>1, Escapes DEF Lost, SyncInv, Tables, JobTyped, Active, site, rows
<1>2. CASE PageRefused(w)
  <2>1. Handlers'
    BY <1>2, EndsTyped DEF PageRefused, SyncInv, Codes
  <2> QED BY <1>2, <2>1 DEF PageRefused, SyncInv, Tables, JobTyped, Active, site, rows
<1>3. CASE RequestFails(w)
  <2>1. Handlers'
    BY <1>3, EndsTyped DEF RequestFails, SyncInv, Codes
  <2>2. spent' \in [starts : Nat, faults : Nat]
    BY <1>3, Counts DEF RequestFails, SyncInv
  <2> QED BY <1>3, <2>1, <2>2 DEF RequestFails, SyncInv, Tables, JobTyped, Active, site, rows
<1>4. CASE Stopped(w)
  <2>1. Handlers'
    BY <1>4, EndsTyped DEF Stopped, SyncInv, Codes
  <2>2. spent' \in [starts : Nat, faults : Nat]
    BY <1>4, Counts DEF Stopped, SyncInv, Tables
  <2> QED BY <1>4, <2>1, <2>2 DEF Stopped, SyncInv, Tables, JobTyped, Active, site, rows
<1>5. CASE Finish(w)
  <2>1. Handlers'
    BY <1>5, Escapes DEF Finish, SyncInv
  <2>2. CASE ~Owner(w)
    BY <1>5, <2>1, <2>2 DEF Finish, SyncInv, Tables, JobTyped, Active, site
  <2>3. CASE Owner(w)
    <3>1. job.status = "RUNNING" /\ mem[w] \in MemRow /\ mem[w].code \in Codes
      BY <2>3, AtWork, SyncAssumption DEF Owner, SyncInv, JobTyped, MemRow
    <3>2. PICK status \in {"QUEUED", "COMPLETED", "FAILED", "CANCELLED"} :
              /\ job' = Closed(status) /\ ended' = Remembered(status)
              /\ sync' = IF status = "COMPLETED" THEN Completed(mem[w]) ELSE sync
      BY <1>5, <2>3, <3>1 DEF Finish, Codes
    <3>3. JobTyped'
      BY <3>1, <3>2, ClosedTyped DEF SyncInv, Active
    <3>4. ended' \in EndedRow
      BY <3>2, RememberedTyped DEF SyncInv
    <3>5. sync' \in SyncRow
      BY <3>1, <3>2, CompletedTyped DEF SyncInv
    <3> QED BY <1>5, <2>1, <3>3, <3>4, <3>5 DEF Finish, SyncInv, Tables, site
  <2> QED BY <2>2, <2>3
<1>6. CASE Crash(w) \/ LoseLease(w)
  <2>1. Handlers'
    BY <1>6, Escapes DEF Crash, LoseLease, SyncInv, Handlers
  <2>2. spent' \in [starts : Nat, faults : Nat]
    BY <1>6, Counts DEF Crash, LoseLease, SyncInv
  <2>3. JobTyped' /\ ended' \in EndedRow
    <3>1. CASE Owner(w)
      <4>1. job.status = "RUNNING"
        BY <3>1, SyncAssumption DEF Owner, SyncInv, JobTyped
      <4>2. PICK status \in {"QUEUED", "CANCELLED"} : Recovered = Closed(status)
        BY DEF Recovered
      <4>3. job' = Closed(status) /\ ended' = Remembered(Recovered.status)
        BY <1>6, <3>1, <4>2 DEF Crash, LoseLease
      <4> QED BY <4>1, <4>3, ClosedTyped, RememberedTyped DEF SyncInv, Active
    <3>2. CASE ~Owner(w)
      BY <1>6, <3>2 DEF Crash, LoseLease, SyncInv, JobTyped, Active
    <3> QED BY <3>1, <3>2
  <2> QED BY <1>6, <2>1, <2>2, <2>3 DEF Crash, LoseLease, SyncInv, Tables, site
<1> QED BY <1>1, <1>2, <1>3, <1>4, <1>5, <1>6

\* The types are kept by every step.
LEMMA NextTyped == SyncInv /\ [Next]_vars => SyncInv'
<1> SUFFICES ASSUME SyncInv, [Next]_vars PROVE SyncInv'
  OBVIOUS
<1>1. ASSUME NEW q \in Questions, SiteActivity(q) PROVE SyncInv'
  <2>1. now' \in Times
    BY <1>1, SyncAssumption DEF SiteActivity, SyncInv, Tables, Times
  <2> QED BY <1>1, <2>1 DEF SiteActivity, SyncInv, Tables, JobTyped, Active, Handlers, rows
<1>2. CASE Tick
  <2>1. now' \in Times
    BY <1>2, SyncAssumption DEF Tick, SyncInv, Tables, Times
  <2> QED BY <1>2, <2>1 DEF Tick, SyncInv, Tables, JobTyped, Active, Handlers, rows
<1>3. CASE UNCHANGED vars
  BY <1>3 DEF vars, site, rows, SyncInv, Tables, JobTyped, Active, Handlers
<1>4. ASSUME NEW w \in Workers, Handler(w) \/ Faults(w) PROVE SyncInv'
  BY <1>4, ClaimTyped, LoadTyped, FetchTyped, ThreadTyped, IngestTyped, SaveTyped, EndTyped
     DEF Handler, Faults
<1> QED BY <1>1, <1>2, <1>3, <1>4, ApiTyped DEF Next

\* The tables of a new source are typed, and no handler runs.
LEMMA InitTyped == Init => SyncInv
<1> SUFFICES ASSUME Init PROVE SyncInv
  OBVIOUS
<1>1. Tables
  BY SyncAssumption DEF Init, Tables, Times, Questions
<1>2. JobTyped
  BY NoneTyped DEF Init, JobTyped, JobRow, Active
<1>3. ended \in EndedRow
  BY NoneTyped DEF Init, EndedRow
<1>4. sync \in SyncRow
  BY SyncAssumption DEF Init, SyncRow
<1>5. Handlers
  BY NothingTyped DEF Init, Handlers, Places
<1> QED BY <1>1, <1>2, <1>3, <1>4, <1>5 DEF SyncInv

\* The tables and the handler stay well typed, for any listing, page size, caps, target
\* and any number of workers.
THEOREM SyncTypeCorrect == Spec => []SyncTypeOK
<1>1. SyncInv => SyncTypeOK
  <2> SUFFICES ASSUME SyncInv PROVE SyncTypeOK
    OBVIOUS
  <2>1. Positions \subseteq Checkpoints
    BY DEF Positions, Checkpoints
  <2>2. /\ job.status \in {"QUEUED", "RUNNING", "COMPLETED", "FAILED", "CANCELLED"}
        /\ job.owner \in Workers \cup {NoWorker} /\ (job.owner # NoWorker <=> job.status = "RUNNING")
        /\ job.payload \in Payloads /\ job.checkpoint \in Positions
    BY DEF SyncInv, JobTyped, JobRow
  <2>3. ended.payload \in Payloads /\ ended.checkpoint \in Positions
    BY DEF SyncInv, EndedRow
  <2> QED BY <2>1, <2>2, <2>3 DEF SyncInv, Tables, Handlers, AtPlace, Places, SyncTypeOK
<1> QED BY <1>1, InitTyped, NextTyped, PTL DEF Spec

-----------------------------------------------------------------------------
(* What a traversal has behind it.                                         *)

\* The questions with a date up to a time that come before q, and the first k of all.
Before(date, todate, q) ==
    {r \in Questions : date[r] <= todate /\ (date[r] > date[q] \/ (date[r] = date[q] /\ r > q))}

First(date, todate, k) ==
    {q \in Questions : date[q] <= todate /\ Cardinality(Before(date, todate, q)) < k}

\* What lies behind a position is in G, and all of a window is.
Covered(date, todate, page, offset, G) == First(date, todate, (page - 1) * PageSize + offset) \subseteq G
Whole(date, todate, G) == {q \in Questions : date[q] <= todate} \subseteq G

\* A listing of a window has each question at its place.
Placed(s, date, fromdate, todate) ==
    \A q \in Questions : fromdate <= date[q] /\ date[q] <= todate =>
        /\ Cardinality(Before(date, todate, q)) + 1 \in 1 .. Len(s)
        /\ s[Cardinality(Before(date, todate, q)) + 1] = q

\* Questions older than a window are in G.
Below(date, fromdate, todate, G) ==
    \A q \in Questions : date[q] < fromdate /\ date[q] <= todate => q \in G

\* How many questions come before one is a number.
LEMMA BeforeCounted ==
    ASSUME NEW date, NEW todate, NEW q
    PROVE  IsFiniteSet(Before(date, todate, q)) /\ Cardinality(Before(date, todate, q)) \in Nat
<1>1. IsFiniteSet(Questions)
  BY SyncAssumption, FS_Interval DEF Questions
<1>2. Before(date, todate, q) \subseteq Questions
  BY DEF Before
<1> QED BY <1>1, <1>2, FS_Subset, FS_CardinalityType

\* The place of a question in a listing does not depend on where the listing begins.
LEMMA ListingPlaced ==
    ASSUME NEW sort, NEW fromdate \in Int, NEW todate \in Int, NEW date \in [Questions -> Int],
           \A q \in Questions : Date(sort, q) = date[q] /\ (date[q] <= todate => Created[q] <= now)
    PROVE  /\ Placed(Listing(sort, fromdate, todate), date, fromdate, todate)
           /\ Listing(sort, fromdate, todate) \in Seq(Questions)
           /\ \A n \in 1 .. Len(Listing(sort, fromdate, todate)) :
                Created[Listing(sort, fromdate, todate)[n]] <= now
<1> DEFINE S == Window(sort, fromdate, todate)
           s == Listing(sort, fromdate, todate)
<1>1. Dated(sort)
  BY DEF Dated
<1>2. Sorted(sort, S, s)
  BY <1>1, ListingSorted
<1>3. S \in SUBSET Questions /\ S \subseteq Published /\ IsFiniteSet(S) /\ Cardinality(S) \in Nat
  BY WindowFinite
<1>4. S = {q \in Questions : fromdate <= date[q] /\ date[q] <= todate}
  BY DEF Window, Published
<1>5. Questions \subseteq Nat
  BY SyncAssumption DEF Questions
<1>12. \A q \in Questions : Date(sort, q) = date[q] /\ date[q] \in Int
  OBVIOUS
<1>6. ASSUME NEW q \in S
      PROVE  Ahead(sort, S, q) = Before(date, todate, q)
  <2>1. q \in Questions /\ fromdate <= date[q] /\ date[q] \in Int
    BY <1>4, <1>12
  <2>2. \A r \in Questions : Newer(sort, r, q) <=> (date[r] > date[q] \/ (date[r] = date[q] /\ r > q))
    BY <1>12, <2>1 DEF Newer
  <2>3. \A r \in Questions : date[r] >= date[q] => fromdate <= date[r]
    BY <1>12, <2>1
  <2>4. \A r \in Questions : (date[r] > date[q] \/ (date[r] = date[q] /\ r > q)) => date[r] >= date[q]
    BY <1>12, <2>1
  <2>5. Ahead(sort, S, q) = {r \in S : date[r] > date[q] \/ (date[r] = date[q] /\ r > q)}
    BY <1>3, <2>2 DEF Ahead
  <2> DEFINE first(r) == date[r] > date[q] \/ (date[r] = date[q] /\ r > q)
  <2>6. Ahead(sort, S, q) = {r \in S : first(r)} /\ \A r \in Questions : first(r) => fromdate <= date[r]
    BY <2>3, <2>4, <2>5
  <2>7. Before(date, todate, q) = {r \in Questions : date[r] <= todate /\ first(r)}
    BY DEF Before
  <2> HIDE DEF first
  <2> QED BY <1>4, <2>6, <2>7
<1> HIDE DEF s
<1>7. s \in [1 .. Cardinality(S) -> S] /\ s \in Seq(Questions) /\ Len(s) = Cardinality(S)
  BY <1>2, <1>3 DEF Sorted
<1>8. \A q \in S : Rank(sort, S, q) \in 1 .. Cardinality(S)
  BY <1>1, <1>3, RankFacts
<1>9. \A q \in S : \E i \in 1 .. Cardinality(S) : s[i] = q /\ Rank(sort, S, q) = i
  BY <1>2, <1>3 DEF Sorted
<1>10. ASSUME NEW q \in Questions, fromdate <= date[q], date[q] <= todate
       PROVE  /\ Cardinality(Before(date, todate, q)) + 1 \in 1 .. Len(s)
              /\ s[Cardinality(Before(date, todate, q)) + 1] = q
  <2>1. q \in S
    BY <1>4, <1>10
  <2>2. PICK i \in 1 .. Cardinality(S) : s[i] = q /\ Rank(sort, S, q) = i
    BY <1>9, <2>1
  <2>3. i = Cardinality(Before(date, todate, q)) + 1
    BY <1>6, <2>1, <2>2 DEF Rank
  <2> QED BY <1>7, <2>2, <2>3
<1>11. Placed(s, date, fromdate, todate)
  BY <1>10 DEF Placed
<1>13. \A n \in 1 .. Len(s) : Created[s[n]] <= now
  BY <1>3, <1>7 DEF Published
<1> QED BY <1>7, <1>11, <1>13 DEF s

\* What a handler takes of a page of a listing.
Taken(s, page, offset, rem) ==
    SubSeq(PageOf(s, page), offset + 1, Least(Len(PageOf(s, page)), offset + rem))

\* A position and what follows it are numbers.
LEMMA NextPage ==
    ASSUME NEW page \in Nat \ {0}
    PROVE  /\ (page - 1) * PageSize \in Nat /\ PageSize \in Nat \ {0}
           /\ page * PageSize = (page - 1) * PageSize + PageSize
           /\ ((page + 1) - 1) * PageSize + 0 = (page - 1) * PageSize + PageSize
  BY SyncAssumption

\* What is taken of a page are the questions that follow in the listing.
PageFacts(s, page, offset, rem) ==
    LET items == PageOf(s, page)
        taken == Taken(s, page, offset, rem)
    IN /\ taken \in Seq(Questions)
       /\ Len(items) \in 0 .. PageSize
       /\ Len(items) = PageSize \/ (page - 1) * PageSize + Len(items) >= Len(s)
       /\ (items = <<>> => Len(items) = 0)
       /\ Len(taken) \in Nat
       /\ taken # <<>> => offset + Len(taken) <= Len(items)
       /\ taken = <<>> => rem = 0 \/ offset >= Len(items)
       /\ taken # <<>> /\ offset + Len(taken) < Len(items) => Len(taken) = rem
       /\ \A n \in 1 .. Len(taken) : taken[n] = s[(page - 1) * PageSize + offset + n]
       /\ \A n \in 1 .. Len(taken) : (page - 1) * PageSize + offset + n \in 1 .. Len(s)

LEMMA PageTaken ==
    ASSUME NEW s \in Seq(Questions), NEW page \in Nat \ {0}, NEW offset \in Nat, NEW rem \in Nat
    PROVE  PageFacts(s, page, offset, rem)
<1> DEFINE K == (page - 1) * PageSize
           items == PageOf(s, page)
           last == Least(page * PageSize, Len(s))
           to == Least(Len(items), offset + rem)
           taken == Taken(s, page, offset, rem)
<1>1. K \in Nat /\ page * PageSize = K + PageSize /\ PageSize \in Nat \ {0}
  BY SyncAssumption
<1>2. items = SubSeq(s, K + 1, last)
  BY DEF PageOf
<1>3. last \in Nat /\ last <= Len(s) /\ last <= K + PageSize /\ (last = Len(s) \/ last = K + PageSize)
  BY <1>1 DEF Least
<1>12. taken = SubSeq(items, offset + 1, to)
  BY DEF Taken
<1> HIDE DEF K, last, items, taken
<1>4. /\ items \in Seq(Questions)
      /\ Len(items) = IF K + 1 <= last THEN last - K ELSE 0
      /\ \A n \in 1 .. Len(items) : items[n] = s[K + n]
  BY <1>1, <1>2, <1>3
<1>5. to \in Nat /\ to <= Len(items) /\ to <= offset + rem /\ (to = Len(items) \/ to = offset + rem)
  BY <1>4 DEF Least
<1> HIDE DEF to
<1>6. /\ taken \in Seq(Questions)
      /\ Len(taken) = IF offset + 1 <= to THEN to - offset ELSE 0
      /\ \A n \in 1 .. Len(taken) : taken[n] = items[offset + n]
  <2>1. items \in Seq(Questions) /\ offset + 1 \in Nat \ {0} /\ to \in Nat /\ to <= Len(items)
    BY <1>4, <1>5
  <2>2. \A n \in 1 .. Len(taken) : (offset + 1 + n) - 1 = offset + n
    BY <2>1
  <2> QED BY <1>12, <2>1, <2>2
<1>7. (taken = <<>> <=> Len(taken) = 0) /\ (items = <<>> => Len(items) = 0)
  BY <1>4, <1>6
<1>8. \A n \in 1 .. Len(taken) : offset + n \in 1 .. Len(items)
  BY <1>4, <1>5, <1>6
<1>9. \A n \in 1 .. Len(taken) : taken[n] = s[K + offset + n]
  BY <1>1, <1>4, <1>6, <1>8
<1>13. \A n \in 1 .. Len(taken) : K + offset + n \in 1 .. Len(s)
  <2>1. \A i \in 1 .. Len(items) : K + i \in 1 .. Len(s)
    BY <1>1, <1>3, <1>4
  <2>2. \A n \in 1 .. Len(taken) : K + (offset + n) \in 1 .. Len(s)
    BY <1>8, <2>1
  <2>3. \A n \in 1 .. Len(taken) : K + (offset + n) = K + offset + n
    BY <1>1
  <2> QED BY <2>2, <2>3
<1>10. /\ Len(items) \in 0 .. PageSize
       /\ Len(items) = PageSize \/ K + Len(items) >= Len(s)
  BY <1>1, <1>3, <1>4
<1>11. /\ Len(taken) \in Nat
       /\ Len(taken) # 0 => offset + Len(taken) <= Len(items)
       /\ Len(taken) = 0 => rem = 0 \/ offset >= Len(items)
       /\ Len(taken) # 0 /\ offset + Len(taken) < Len(items) => Len(taken) = rem
  BY <1>4, <1>5, <1>6
<1> QED BY <1>6, <1>7, <1>9, <1>10, <1>11, <1>13 DEF K, items, taken, PageFacts

\* A page that a handler takes from a position whose past is in G puts the past of the
\* next position in G and the batch; the last page puts all of the window there.
LEMMA PageCovers ==
    ASSUME NEW s \in Seq(Questions), NEW page \in Nat \ {0}, NEW offset \in Nat, NEW rem \in Nat,
           NEW date \in [Questions -> Int], NEW fromdate \in Int, NEW todate \in Int, NEW G,
           Placed(s, date, fromdate, todate), Covered(date, todate, page, offset, G),
           Below(date, fromdate, todate, G)
    PROVE  LET items == PageOf(s, page)
               taken == Taken(s, page, offset, rem)
               B == G \cup {taken[n] : n \in 1 .. Len(taken)}
               consumed == offset + Len(taken) >= Len(items)
           IN /\ Covered(date, todate, page, offset + Len(taken), B)
              /\ consumed => offset + Len(taken) >= PageSize \/ Whole(date, todate, B)
              /\ consumed /\ ~(Len(s) > page * PageSize) => Whole(date, todate, B)
              /\ items = <<>> => Whole(date, todate, G)
<1> DEFINE K == (page - 1) * PageSize
           items == PageOf(s, page)
           taken == Taken(s, page, offset, rem)
           L == Len(taken)
           B == G \cup {taken[n] : n \in 1 .. L}
           place(q) == Cardinality(Before(date, todate, q)) + 1
<1>1. K \in Nat /\ page * PageSize = K + PageSize /\ PageSize \in Nat \ {0}
  BY SyncAssumption
<1>2. /\ Len(items) \in 0 .. PageSize
      /\ Len(items) = PageSize \/ K + Len(items) >= Len(s)
      /\ (items = <<>> => Len(items) = 0)
      /\ L \in Nat
      /\ \A n \in 1 .. L : taken[n] = s[K + offset + n]
  <2>1. PageFacts(s, page, offset, rem)
    BY PageTaken
  <2> QED BY <2>1 DEF PageFacts
<1>3. \A q \in Questions : date[q] <= todate => q \in G \/ (place(q) \in 1 .. Len(s) /\ s[place(q)] = q)
  BY DEF Placed, Below
<1>4. \A q \in Questions : date[q] <= todate /\ place(q) <= K + offset => q \in G
  BY <1>1, BeforeCounted DEF Covered, First
<1>11. \A q \in Questions : place(q) \in Int
  BY BeforeCounted
<1>12. Len(s) \in Nat
  OBVIOUS
<1> HIDE DEF K, place, L
<1>5. ASSUME NEW q \in Questions, date[q] <= todate, place(q) <= K + offset + L
      PROVE  q \in B
  <2>1. CASE place(q) <= K + offset
    BY <1>4, <1>5, <2>1
  <2>2. CASE ~(place(q) <= K + offset) /\ q \notin G
    <3>1. place(q) \in 1 .. Len(s) /\ s[place(q)] = q
      BY <1>3, <1>5, <2>2
    <3> DEFINE n == place(q) - (K + offset)
    <3>2. n \in 1 .. L /\ K + offset + n = place(q)
      <4>1. place(q) \in Int /\ L \in Nat /\ K \in Nat
        BY <1>1, <1>2, <1>11
      <4> QED BY <1>5, <2>2, <4>1
    <3> HIDE DEF n
    <3>3. taken[n] = q
      BY <1>2, <3>1, <3>2
    <3> QED BY <3>2, <3>3
  <2> QED BY <2>1, <2>2
<1>6. ASSUME Len(s) <= K + offset + L
      PROVE  Whole(date, todate, B)
  <2> SUFFICES ASSUME NEW q \in Questions, date[q] <= todate PROVE q \in B
    BY DEF Whole
  <2>1. CASE place(q) \in 1 .. Len(s)
    <3>1. place(q) <= K + offset + L
      BY <1>1, <1>2, <1>6, <1>12, <2>1
    <3> QED BY <1>5, <3>1
  <2> QED BY <1>3, <2>1
<1> HIDE DEF items, taken, B
<1>7. Covered(date, todate, page, offset + L, B)
  <2>1. \A q \in Questions : Cardinality(Before(date, todate, q)) < K + (offset + L) => place(q) <= K + offset + L
    BY <1>1, <1>2, BeforeCounted DEF place
  <2> QED BY <1>5, <2>1 DEF Covered, First, K
<1>8. offset + L >= Len(items) => offset + L >= PageSize \/ Whole(date, todate, B)
  <2>1. Len(items) # PageSize => Len(s) <= K + Len(items)
    BY <1>1, <1>2, <1>12
  <2>2. offset + L >= Len(items) /\ Len(items) # PageSize => Len(s) <= K + offset + L
    BY <1>1, <1>2, <1>12, <2>1
  <2> QED BY <1>6, <2>2
<1>9. offset + L >= Len(items) /\ ~(Len(s) > K + PageSize) => Whole(date, todate, B)
  BY <1>1, <1>2, <1>6
<1>10. items = <<>> => Whole(date, todate, G)
  <2> SUFFICES ASSUME items = <<>>, NEW q \in Questions, date[q] <= todate PROVE q \in G
    BY DEF Whole
  <2>1. K >= Len(s)
    BY <1>1, <1>2
  <2>2. place(q) \in 1 .. Len(s) => place(q) <= K + offset
    BY <1>1, <1>12, <2>1
  <2> QED BY <1>3, <1>4, <2>2
<1> QED BY <1>1, <1>7, <1>8, <1>9, <1>10 DEF items, taken, L, B, K

-----------------------------------------------------------------------------
(* A run of the handler: what is behind it is in G, a set of questions that *)
(* only grows, or is in the batch it holds.                                *)

Held(m, G) == G \cup {m.batch[n][1] : n \in 1 .. Len(m.batch)}

\* Before a request, inside a page, and at the end of a run.
AtTurn(m, date, G) ==
    /\ Covered(date, m.todate, m.page, IF m.page = m.start THEN m.offset ELSE 0, G)
    /\ Remaining(m) # 0 /\ ~m.complete
    /\ IF m.yielded THEN m.lastMore ELSE m.left # 0

InPage(m, date, B) ==
    /\ Covered(date, m.todate, m.page, m.offset + m.took, B)
    /\ m.consumed => m.offset + m.took >= PageSize \/ Whole(date, m.todate, B)
    /\ ~m.consumed => m.took = Remaining(m) /\ m.offset + m.took < PageSize
    /\ ~m.lastMore => Whole(date, m.todate, B)
    /\ m.more => m.lastMore
    /\ m.yielded /\ ~m.complete

AtEnd(m, date, G) == m.complete => TargetReached(m) \/ Whole(date, m.todate, G)

Run(place, m, date, G) ==
    /\ place = "fetch" => AtTurn(m, date, G)
    /\ place \in {"answers", "next", "ingest", "save"} => InPage(m, date, Held(m, G))
    /\ place = "save" => m.batch = <<>>
    /\ place = "finish" => AtEnd(m, date, G)

\* A window has an end, and a run goes on from where it started.
Framed(place, m) == place \notin {"idle", "load"} => m.todate # None /\ m.start <= m.page

\* What is said of a run stays true when G grows.
LEMMA RunGrows ==
    ASSUME NEW place, NEW m, NEW date, NEW G, NEW H, G \subseteq H, Run(place, m, date, G)
    PROVE  Run(place, m, date, H)
<1>1. Held(m, G) \subseteq Held(m, H)
  BY DEF Held
<1>2. InPage(m, date, Held(m, G)) => InPage(m, date, Held(m, H))
  BY <1>1 DEF InPage, Covered, Whole
<1> QED BY <1>2 DEF Run, AtTurn, AtEnd, Covered, Whole

\* Before the first page nothing is behind a run.
LEMMA NothingBehind ==
    ASSUME NEW date, NEW todate, NEW G
    PROVE  Covered(date, todate, 1, 0, G)
<1>1. (1 - 1) * PageSize + 0 = 0
  BY SyncAssumption
<1>2. \A q \in Questions : ~(Cardinality(Before(date, todate, q)) < 0)
  BY BeforeCounted
<1> QED BY <1>1, <1>2 DEF Covered, First

\* A request from a position whose past is in G.
LEMMA FetchRuns ==
    ASSUME SyncInv, NEW w \in Workers, Fetch(w), Framed(pc[w], mem[w]),
           NEW date \in [Questions -> Int], NEW G, Run(pc[w], mem[w], date, G),
           \A q \in Questions : /\ Date(Sort(mem[w]), q) = date[q]
                                /\ date[q] <= mem[w].todate => Created[q] <= now,
           Below(date, mem[w].fromdate, mem[w].todate, G)
    PROVE  Run(pc'[w], mem'[w], date, G)
<1> DEFINE m == mem[w]
           listing == Listing(Sort(m), m.fromdate, m.todate)
           items == PageOf(listing, m.page)
           more == Len(listing) > m.page * PageSize
           offset == IF m.page = m.start THEN m.offset ELSE 0
           taken == Taken(listing, m.page, offset, Remaining(m))
           consumed == offset + Len(taken) >= Len(items)
           batch == [n \in 1 .. Len(taken) |-> <<taken[n], activity[taken[n]]>>]
           got == [m EXCEPT !.yielded = TRUE, !.left = m.left - 1, !.offset = offset, !.batch = batch,
                            !.took = Len(taken), !.more = more, !.consumed = consumed,
                            !.lastMore = more \/ ~consumed]
           skipped == [m EXCEPT !.yielded = TRUE, !.left = m.left - 1, !.offset = 0,
                                !.lastMore = more, !.page = m.page + 1]
           B == G \cup {taken[n] : n \in 1 .. Len(taken)}
<1>1. m \in MemRow /\ m.page \in Nat \ {0} /\ pc[w] = "fetch"
  BY AtWork DEF Fetch, AtPage
<1>2. /\ m.offset \in Nat /\ m.left \in Nat /\ m.fromdate \in Int /\ m.todate \in Int /\ m.start \in Nat
      /\ m.todate # None /\ m.start <= m.page
  <2>1. /\ m.offset \in Nat /\ m.left \in Nat /\ m.fromdate \in Nat /\ m.start \in Nat
        /\ m.todate \in Times \cup {None}
    BY <1>1 DEF MemRow
  <2>2. m.todate # None /\ m.start <= m.page
    BY <1>1 DEF Framed
  <2> QED BY <2>1, <2>2, SyncAssumption DEF Times, None
<1>3. AtTurn(m, date, G)
  BY <1>1 DEF Run
<1>4. offset \in Nat /\ Remaining(m) \in Nat /\ Remaining(m) # 0
  BY <1>1, <1>2, <1>3, RemainingTyped DEF AtTurn
<1>5. \/ (m.left = 0 \/ items = <<>>) /\ Learn(w, Traversed(m)) /\ Goto(w, "finish")
      \/ items # <<>> /\ taken # <<>> /\ Learn(w, got) /\ Goto(w, "answers")
      \/ items # <<>> /\ taken = <<>> /\ more /\ Learn(w, skipped) /\ UNCHANGED pc
      \/ items # <<>> /\ taken = <<>> /\ ~more /\ Learn(w, Traversed(skipped)) /\ Goto(w, "finish")
  BY DEF Fetch, Taken
<1>6. /\ Placed(listing, date, m.fromdate, m.todate) /\ listing \in Seq(Questions)
      /\ \A n \in 1 .. Len(listing) : Created[listing[n]] <= now
  <2> DEFINE sort == Sort(m)
  <2>1. \A q \in Questions : Date(sort, q) = date[q] /\ (date[q] <= m.todate => Created[q] <= now)
    OBVIOUS
  <2> HIDE DEF sort
  <2>2. /\ Placed(Listing(sort, m.fromdate, m.todate), date, m.fromdate, m.todate)
        /\ Listing(sort, m.fromdate, m.todate) \in Seq(Questions)
        /\ \A n \in 1 .. Len(Listing(sort, m.fromdate, m.todate)) :
              Created[Listing(sort, m.fromdate, m.todate)[n]] <= now
    BY <1>2, <2>1, ListingPlaced
  <2> QED BY <2>2 DEF sort
<1> HIDE DEF listing
<1>14. PageFacts(listing, m.page, offset, Remaining(m))
  <2> HIDE DEF offset, m
  <2> QED BY <1>1, <1>4, <1>6, PageTaken
<1>7. /\ Len(items) \in 0 .. PageSize
      /\ Len(taken) \in Nat
      /\ taken # <<>> => offset + Len(taken) <= Len(items)
      /\ taken = <<>> => Remaining(m) = 0 \/ offset >= Len(items)
      /\ taken # <<>> /\ offset + Len(taken) < Len(items) => Len(taken) = Remaining(m)
      /\ \A n \in 1 .. Len(taken) : taken[n] \in Questions /\ Created[taken[n]] <= now
  <2> HIDE DEF offset, m
  <2>3. /\ taken \in Seq(Questions) /\ Len(items) \in 0 .. PageSize /\ Len(taken) \in Nat
        /\ taken # <<>> => offset + Len(taken) <= Len(items)
        /\ taken = <<>> => Remaining(m) = 0 \/ offset >= Len(items)
        /\ taken # <<>> /\ offset + Len(taken) < Len(items) => Len(taken) = Remaining(m)
    BY <1>14 DEF PageFacts
  <2>4. \A n \in 1 .. Len(taken) :
           /\ taken[n] = listing[(m.page - 1) * PageSize + offset + n]
           /\ (m.page - 1) * PageSize + offset + n \in 1 .. Len(listing)
    BY <1>14 DEF PageFacts
  <2>5. \A n \in 1 .. Len(taken) : taken[n] \in Questions
    BY <2>3
  <2> QED BY <1>6, <2>3, <2>4, <2>5
<1>8. /\ Covered(date, m.todate, m.page, offset + Len(taken), B)
      /\ consumed => offset + Len(taken) >= PageSize \/ Whole(date, m.todate, B)
      /\ consumed /\ ~more => Whole(date, m.todate, B)
      /\ items = <<>> => Whole(date, m.todate, G)
  <2>1. Covered(date, m.todate, m.page, offset, G)
    BY <1>3 DEF AtTurn
  <2>2. Below(date, m.fromdate, m.todate, G)
    OBVIOUS
  <2> HIDE DEF offset, m
  <2> QED BY <1>1, <1>2, <1>4, <1>6, <2>1, <2>2, PageCovers
<1> HIDE DEF items, more, offset, taken
<1>9. CASE (m.left = 0 \/ items = <<>>) /\ Learn(w, Traversed(m)) /\ Goto(w, "finish")
  <2>1. pc'[w] = "finish" /\ mem'[w] = Traversed(m)
    BY <1>9 DEF Learn, Goto, SyncInv, Handlers
  <2>2. /\ Traversed(m).todate = m.todate /\ Traversed(m).start = m.start /\ Traversed(m).page = m.page
        /\ Traversed(m).batch = m.batch /\ Traversed(m).complete = (m.complete \/ ~m.yielded \/ ~m.lastMore)
    BY <1>1 DEF Traversed, MemRow
  <2>3. Traversed(m).complete => items = <<>>
    BY <1>3, <1>9, <2>2 DEF AtTurn
  <2>4. AtEnd(Traversed(m), date, G)
    BY <1>8, <2>2, <2>3 DEF AtEnd
  <2> QED BY <2>1, <2>4 DEF Run
<1>10. CASE items # <<>> /\ taken # <<>> /\ Learn(w, got) /\ Goto(w, "answers")
  <2>1. pc'[w] = "answers" /\ mem'[w] = got
    BY <1>10 DEF Learn, Goto, SyncInv, Handlers
  <2>2. /\ got.todate = m.todate /\ got.start = m.start /\ got.page = m.page /\ got.complete = m.complete
        /\ got.batch = batch /\ got.offset = offset /\ got.took = Len(taken) /\ got.more = more
        /\ got.consumed = consumed /\ got.lastMore = (more \/ ~consumed) /\ got.yielded = TRUE
        /\ got.mode = m.mode /\ got.cap = m.cap /\ got.questions = m.questions /\ got.count = m.count
    BY <1>1 DEF MemRow
  <2>3. Remaining(got) = Remaining(m)
    BY <2>2 DEF Remaining
  <2> HIDE DEF got
  <2>4. Len(batch) = Len(taken) /\ \A n \in 1 .. Len(taken) : batch[n] = <<taken[n], activity[taken[n]]>>
    BY <1>7
  <2> HIDE DEF batch
  <2>5. Held(got, G) = B
    BY <2>2, <2>4 DEF Held
  <2>6. ~consumed => Len(taken) = Remaining(m) /\ offset + Len(taken) < PageSize
    <3>1. PageSize \in Nat
      BY SyncAssumption
    <3>2. taken # <<>> => offset + Len(taken) <= Len(items)
      BY <1>7
    <3>3. ~consumed => offset + Len(taken) < Len(items)
      BY <1>4, <1>7
    <3> QED BY <1>4, <1>7, <1>10, <3>1, <3>2, <3>3
  <2> HIDE DEF consumed, B
  <2>7. InPage(got, date, B)
    BY <1>3, <1>8, <2>2, <2>3, <2>6 DEF InPage, AtTurn
  <2> QED BY <2>1, <2>5, <2>7 DEF Run
<1>11. ASSUME items # <<>>, taken = <<>>
       PROVE  /\ skipped.todate = m.todate /\ skipped.start = m.start /\ skipped.page = m.page + 1
              /\ skipped.batch = m.batch /\ skipped.yielded = TRUE /\ skipped.lastMore = more
              /\ skipped.complete = FALSE /\ skipped.offset = 0 /\ Remaining(skipped) # 0
              /\ Covered(date, m.todate, m.page + 1, 0, G)
              /\ ~more => Whole(date, m.todate, G)
              /\ skipped.start <= skipped.page /\ skipped.page # skipped.start
  <2>1. /\ skipped.todate = m.todate /\ skipped.start = m.start /\ skipped.page = m.page + 1
        /\ skipped.batch = m.batch /\ skipped.yielded = TRUE /\ skipped.lastMore = more
        /\ skipped.complete = m.complete /\ skipped.offset = 0
        /\ skipped.mode = m.mode /\ skipped.cap = m.cap /\ skipped.questions = m.questions
        /\ skipped.count = m.count
    BY <1>1 DEF MemRow
  <2>2. Remaining(skipped) = Remaining(m) /\ skipped.complete = FALSE
    BY <1>1, <1>3, <2>1 DEF Remaining, AtTurn, MemRow
  <2> HIDE DEF skipped
  <2>3. Len(taken) = 0 /\ B = G
    BY <1>11
  <2>4. offset >= Len(items)
    BY <1>4, <1>7, <1>11
  <2>5. consumed
    BY <1>4, <1>7, <2>3, <2>4
  <2>6. Covered(date, m.todate, m.page, offset, G)
    BY <1>3 DEF AtTurn, offset
  <2>7. offset >= PageSize \/ Whole(date, m.todate, G)
    <3>1. offset + Len(taken) = offset
      BY <1>4, <2>3
    <3> HIDE DEF consumed, B
    <3> QED BY <1>8, <2>3, <2>5, <3>1
  <2>8. Covered(date, m.todate, m.page + 1, 0, G)
    <3>1. CASE Whole(date, m.todate, G)
      BY <3>1 DEF Whole, Covered, First
    <3>2. CASE offset >= PageSize
      <4> DEFINE K == (m.page - 1) * PageSize
      <4>1. ((m.page + 1) - 1) * PageSize + 0 = K + PageSize /\ K \in Nat /\ PageSize \in Nat
        BY <1>1, NextPage
      <4> HIDE DEF K
      <4>2. \A c \in Nat : c < K + PageSize => c < K + offset
        BY <1>4, <3>2, <4>1
      <4>3. First(date, m.todate, K + PageSize) \subseteq First(date, m.todate, K + offset)
        BY <4>2, BeforeCounted DEF First
      <4>4. First(date, m.todate, ((m.page + 1) - 1) * PageSize + 0) = First(date, m.todate, K + PageSize)
        BY <4>1, Zenon
      <4>5. First(date, m.todate, K + offset) \subseteq G
        BY <2>6 DEF Covered, K
      <4>6. First(date, m.todate, ((m.page + 1) - 1) * PageSize + 0) \subseteq G
        BY <4>3, <4>4, <4>5
      <4> HIDE DEF m
      <4> QED BY <4>6, Zenon DEF Covered
    <3> QED BY <2>7, <3>1, <3>2
  <2>9. ~more => Whole(date, m.todate, G)
    BY <1>8, <2>3, <2>5
  <2> QED BY <1>1, <1>2, <1>4, <2>1, <2>2, <2>8, <2>9
<1>12. CASE items # <<>> /\ taken = <<>> /\ more /\ Learn(w, skipped) /\ UNCHANGED pc
  <2> HIDE DEF skipped
  <2>1. pc'[w] = "fetch" /\ mem'[w] = skipped
    BY <1>1, <1>12 DEF Learn, SyncInv, Handlers
  <2>2. AtTurn(skipped, date, G)
    BY <1>11, <1>12 DEF AtTurn
  <2> QED BY <2>1, <2>2 DEF Run
<1>13. CASE items # <<>> /\ taken = <<>> /\ ~more /\ Learn(w, Traversed(skipped)) /\ Goto(w, "finish")
  <2>1. /\ Traversed(skipped).todate = skipped.todate /\ Traversed(skipped).start = skipped.start
        /\ Traversed(skipped).page = skipped.page /\ Traversed(skipped).batch = skipped.batch
    BY <1>1 DEF Traversed, MemRow
  <2> HIDE DEF skipped
  <2>2. pc'[w] = "finish" /\ mem'[w] = Traversed(skipped)
    BY <1>13 DEF Learn, Goto, SyncInv, Handlers
  <2>3. AtEnd(Traversed(skipped), date, G)
    BY <1>11, <1>13, <2>1 DEF AtEnd
  <2> QED BY <2>2, <2>3 DEF Run
<1> QED BY <1>5, <1>9, <1>10, <1>12, <1>13

\* A batch that is not the one before holds published questions as they are.
Fresh(batch, before) ==
    batch = before \/ \A n \in 1 .. Len(batch) :
                         Created[batch[n][1]] <= now /\ batch[n][2] = activity[batch[n][1]]

\* What a request does to the window and the batch of a run.
LEMMA FetchFrame ==
    ASSUME SyncInv, NEW w \in Workers, Fetch(w), Framed(pc[w], mem[w])
    PROVE  /\ Framed(pc'[w], mem'[w]) /\ Fresh(mem'[w].batch, mem[w].batch)
           /\ mem'[w].mode = mem[w].mode /\ mem'[w].dry = mem[w].dry
           /\ mem'[w].todate = mem[w].todate /\ mem'[w].fromdate = mem[w].fromdate
           /\ mem'[w].count = mem[w].count
           /\ pc'[w] \in {"fetch", "answers", "finish"}
           /\ UNCHANGED <<site, rows, spent>>
           /\ \A v \in Workers \ {w} : pc'[v] = pc[v] /\ mem'[v] = mem[v]
<1> DEFINE m == mem[w]
           listing == Listing(Sort(m), m.fromdate, m.todate)
           items == PageOf(listing, m.page)
           more == Len(listing) > m.page * PageSize
           offset == IF m.page = m.start THEN m.offset ELSE 0
           taken == Taken(listing, m.page, offset, Remaining(m))
           consumed == offset + Len(taken) >= Len(items)
           batch == [n \in 1 .. Len(taken) |-> <<taken[n], activity[taken[n]]>>]
           got == [m EXCEPT !.yielded = TRUE, !.left = m.left - 1, !.offset = offset, !.batch = batch,
                            !.took = Len(taken), !.more = more, !.consumed = consumed,
                            !.lastMore = more \/ ~consumed]
           skipped == [m EXCEPT !.yielded = TRUE, !.left = m.left - 1, !.offset = 0,
                                !.lastMore = more, !.page = m.page + 1]
<1>1. m \in MemRow /\ m.page \in Nat \ {0} /\ pc[w] = "fetch"
  BY AtWork DEF Fetch, AtPage
<1>2. /\ m.offset \in Nat /\ m.start \in Nat /\ m.todate # None /\ m.start <= m.page /\ Remaining(m) \in Nat
      /\ m.page \in Nat /\ offset \in Nat
  BY <1>1, RemainingTyped DEF MemRow, Framed
<1>3. \E new \in {Traversed(m), got, skipped, Traversed(skipped)} :
        Learn(w, new) /\ (UNCHANGED pc \/ Goto(w, "answers") \/ Goto(w, "finish"))
  BY DEF Fetch, Taken
<1>4. /\ listing \in Seq(Questions)
      /\ \A n \in 1 .. Len(listing) : Created[listing[n]] <= now
  <2>1. Sorted(Sort(m), Window(Sort(m), m.fromdate, m.todate), listing)
    BY AllDated, ListingSorted DEF SyncInv
  <2>2. listing \in Seq(Questions)
    BY <1>1, PageTyped DEF SyncInv
  <2> QED BY <2>1, <2>2, WindowFinite DEF Sorted, Published
<1> HIDE DEF listing
<1>5. \A n \in 1 .. Len(taken) : Created[taken[n]] <= now
  <2> HIDE DEF m, offset
  <2>1. PageFacts(listing, m.page, offset, Remaining(m))
    BY <1>1, <1>2, <1>4, PageTaken
  <2>2. \A n \in 1 .. Len(taken) :
           /\ taken[n] = listing[(m.page - 1) * PageSize + offset + n]
           /\ (m.page - 1) * PageSize + offset + n \in 1 .. Len(listing)
    BY <2>1 DEF PageFacts
  <2> QED BY <1>4, <2>2
<1>6. Len(taken) \in Nat
  BY <1>1, <1>2, <1>4, PageTaken DEF PageFacts
<1> HIDE DEF items, more, offset, taken
<1>7. Fresh(batch, m.batch)
  BY <1>5, <1>6 DEF Fresh
<1> HIDE DEF batch, consumed
<1> DEFINE Kept(new) ==
             /\ new.mode = m.mode /\ new.dry = m.dry /\ new.todate = m.todate
             /\ new.fromdate = m.fromdate /\ new.start = m.start /\ new.count = m.count
             /\ (new.page = m.page \/ new.page = m.page + 1)
             /\ (new.batch = m.batch \/ new.batch = batch)
<1>8. \A new \in {Traversed(m), got, skipped, Traversed(skipped)} : Kept(new)
  <2>1. Kept(Traversed(m))
    BY <1>1 DEF Traversed, MemRow
  <2>2. Kept(got)
    BY <1>1 DEF MemRow
  <2>3. Kept(skipped)
    BY <1>1 DEF MemRow
  <2>4. Kept(Traversed(skipped))
    BY <1>1 DEF Traversed, MemRow
  <2> QED BY <2>1, <2>2, <2>3, <2>4
<1>9. Fresh(m.batch, m.batch)
  BY DEF Fresh
<1> HIDE DEF got, skipped
<1>10. PICK new \in {Traversed(m), got, skipped, Traversed(skipped)} :
        Learn(w, new) /\ (UNCHANGED pc \/ Goto(w, "answers") \/ Goto(w, "finish"))
  BY <1>3
<1>11. /\ mem'[w] = new /\ pc'[w] \in {"fetch", "answers", "finish"}
       /\ \A v \in Workers \ {w} : pc'[v] = pc[v] /\ mem'[v] = mem[v]
  BY <1>1, <1>10 DEF Learn, Goto, SyncInv, Handlers
<1>12. UNCHANGED <<site, rows, spent>>
  BY DEF Fetch
<1>13. Fresh(new.batch, m.batch)
  BY <1>7, <1>8, <1>9
<1>14. new.todate # None /\ new.start <= new.page
  BY <1>2, <1>8
<1> QED BY <1>8, <1>11, <1>12, <1>13, <1>14 DEF Framed

\* What a run does between two requests leaves the part of it that is behind.
LEMMA ThreadRuns ==
    ASSUME SyncInv, NEW w \in Workers, FetchAnswers(w) \/ NextQuestion(w), ~mem[w].dry,
           NEW date, NEW G, Run(pc[w], mem[w], date, G)
    PROVE  Run(pc'[w], mem'[w], date, G)
<1>1. pc[w] \in {"answers", "next"} /\ mem'[w] = mem[w] /\ pc'[w] \in {"next", "ingest"}
  BY DEF FetchAnswers, NextQuestion, Goto, SyncInv, Handlers
<1> QED BY <1>1 DEF Run

\* A thread that was in the batch is behind the run when it was ingested.
LEMMA IngestRuns ==
    ASSUME SyncInv, NEW w \in Workers, IngestOne(w), NEW date, NEW G, NEW H,
           G \subseteq H, Head(mem[w].batch)[1] \in H, Run(pc[w], mem[w], date, G)
    PROVE  Run(pc'[w], mem'[w], date, H)
<1> DEFINE m == mem[w]
           left == [m EXCEPT !.batch = Tail(m.batch)]
<1>1. m \in MemRow /\ m.batch # <<>> /\ m.batch \in Seq(Questions \X Times) /\ pc[w] = "ingest"
  BY AtWork DEF IngestOne, MemRow
<1>2. /\ Len(m.batch) \in Nat \ {0} /\ Len(Tail(m.batch)) = Len(m.batch) - 1
      /\ \A n \in 1 .. Len(Tail(m.batch)) : Tail(m.batch)[n] = m.batch[n + 1]
      /\ Head(m.batch) = m.batch[1] /\ Tail(m.batch) \in Seq(Questions \X Times)
  BY <1>1
<1>3. mem'[w] = left /\ pc'[w] = IF Len(m.batch) = 1 THEN "save" ELSE "next"
  BY DEF IngestOne, Learn, Goto, SyncInv, Handlers
<1>4. /\ left.batch = Tail(m.batch) /\ left.todate = m.todate /\ left.page = m.page
      /\ left.offset = m.offset /\ left.took = m.took /\ left.consumed = m.consumed
      /\ left.lastMore = m.lastMore /\ left.more = m.more /\ left.yielded = m.yielded
      /\ left.complete = m.complete
      /\ left.mode = m.mode /\ left.cap = m.cap /\ left.questions = m.questions /\ left.count = m.count
  BY <1>1 DEF MemRow
<1>5. Remaining(left) = Remaining(m)
  BY <1>4 DEF Remaining
<1> HIDE DEF left, m
<1>6. Held(m, G) \subseteq Held(left, H)
  <2>1. \A n \in 1 .. Len(m.batch) : n = 1 \/ n - 1 \in 1 .. Len(Tail(m.batch))
    BY <1>2
  <2>2. \A n \in 1 .. Len(m.batch) : n # 1 => m.batch[n] = Tail(m.batch)[n - 1]
    BY <1>2, <2>1
  <2>4. \A k \in 1 .. Len(Tail(m.batch)) : Tail(m.batch)[k][1] \in Held(left, H)
    BY <1>4 DEF Held
  <2>5. m.batch[1][1] \in Held(left, H)
    BY <1>2 DEF Held, m
  <2>3. \A n \in 1 .. Len(m.batch) : m.batch[n][1] \in Held(left, H)
    BY <2>1, <2>2, <2>4, <2>5
  <2> QED BY <2>3 DEF Held
<1>7. InPage(m, date, Held(m, G))
  BY <1>1 DEF Run, m
<1>8. InPage(left, date, Held(left, H))
  BY <1>4, <1>5, <1>6, <1>7 DEF InPage, Covered, Whole
<1>9. pc'[w] = "save" => left.batch = <<>>
  <2>1. pc'[w] = "save" => Len(Tail(m.batch)) = 0
    BY <1>2, <1>3
  <2>2. \A t \in Seq(Questions \X Times) : Len(t) = 0 => t = <<>>
    OBVIOUS
  <2>3. Tail(m.batch) \in Seq(Questions \X Times)
    BY <1>2
  <2> QED BY <1>4, <2>1, <2>2, <2>3, Zenon
<1> QED BY <1>3, <1>8, <1>9 DEF Run

\* The position that is saved has the batch behind it, and so has the next page, if
\* the handler turned it with nothing left on the one before.
LEMMA SaveRuns ==
    ASSUME SyncInv, NEW w \in Workers, SaveCheckpoint(w), Owner(w), Framed(pc[w], mem[w]),
           NEW date, NEW G, Run(pc[w], mem[w], date, G), pc'[w] = "fetch" => mem[w].consumed
    PROVE  /\ Run(pc'[w], mem'[w], date, G)
           /\ Covered(date, mem[w].todate, Checkpoint(mem[w]).page, Checkpoint(mem[w]).offset, G)
<1> DEFINE m == mem[w]
           checkpoint == Checkpoint(m)
           saved == [m EXCEPT !.batch = <<>>, !.took = 0, !.questions = checkpoint.questions,
                              !.count = IF m.dry THEN m.count ELSE Cardinality(Stored),
                              !.offset = checkpoint.offset, !.complete = ~m.lastMore]
           turned == [saved EXCEPT !.page = saved.page + 1]
<1>1. m \in MemRow /\ m.page \in Nat \ {0} /\ pc[w] = "save"
  BY AtWork DEF SaveCheckpoint, AtPage
<1>2. m.offset \in Nat /\ m.took \in Nat /\ m.start \in Nat /\ m.start <= m.page
  BY <1>1 DEF MemRow, Framed
<1>3. /\ m.batch = <<>> /\ InPage(m, date, G)
  <2>1. m.batch = <<>> /\ InPage(m, date, Held(m, G))
    BY <1>1 DEF Run
  <2>2. Held(m, G) = G
    BY <2>1 DEF Held
  <2> QED BY <2>1, <2>2
<1>4. /\ checkpoint.page = IF m.consumed THEN m.page + 1 ELSE m.page
      /\ checkpoint.offset = IF m.consumed THEN 0 ELSE m.offset + m.took
  BY DEF Checkpoint
<1>5. m.consumed => Covered(date, m.todate, m.page + 1, 0, G)
  <2>1. CASE Whole(date, m.todate, G)
    BY <2>1 DEF Whole, Covered, First
  <2>2. CASE m.consumed /\ m.offset + m.took >= PageSize
    <3> DEFINE K == (m.page - 1) * PageSize
               t == m.todate
               k == m.offset + m.took
    <3>1. ((m.page + 1) - 1) * PageSize + 0 = K + PageSize /\ K \in Nat /\ PageSize \in Nat
      BY <1>1, NextPage
    <3>2. First(date, t, K + k) \subseteq G
      BY <1>3 DEF InPage, Covered
    <3>3. k \in Nat /\ k >= PageSize
      BY <1>2, <2>2
    <3> HIDE DEF K, t, k
    <3>4. \A c \in Nat : c < K + PageSize => c < K + k
      BY <3>1, <3>3
    <3>5. First(date, t, K + PageSize) \subseteq First(date, t, K + k)
      BY <3>4, BeforeCounted DEF First
    <3>6. First(date, t, ((m.page + 1) - 1) * PageSize + 0) \subseteq G
      BY <3>1, <3>2, <3>5
    <3> HIDE DEF m
    <3> QED BY <3>6, Zenon DEF Covered, t
  <2> QED BY <1>3, <2>1, <2>2 DEF InPage
<1>6. Covered(date, m.todate, checkpoint.page, checkpoint.offset, G)
  BY <1>3, <1>4, <1>5 DEF InPage
<1>7. /\ saved.todate = m.todate /\ saved.start = m.start /\ saved.page = m.page
      /\ saved.batch = <<>> /\ saved.yielded = m.yielded /\ saved.lastMore = m.lastMore
      /\ saved.complete = ~m.lastMore /\ saved.offset = checkpoint.offset
      /\ turned.todate = m.todate /\ turned.start = m.start /\ turned.page = m.page + 1
      /\ turned.yielded = m.yielded /\ turned.lastMore = m.lastMore
      /\ turned.complete = ~m.lastMore /\ turned.offset = checkpoint.offset
  BY <1>1 DEF MemRow
<1>8. Remaining(turned) = Remaining(saved)
  <2>1. saved \in [DOMAIN m -> {saved[f] : f \in DOMAIN m}] /\ "page" \in DOMAIN m
    BY <1>1 DEF MemRow
  <2> HIDE DEF saved
  <2>2. /\ turned.mode = saved.mode /\ turned.cap = saved.cap /\ turned.questions = saved.questions
        /\ turned.count = saved.count
    BY <2>1
  <2> QED BY <2>2 DEF Remaining
<1>9. \/ /\ Learn(w, saved) /\ Goto(w, "finish")
      \/ /\ Remaining(saved) # 0 /\ m.more
         /\ Learn(w, turned) /\ Goto(w, "fetch")
  BY DEF SaveCheckpoint
<1> HIDE DEF saved, turned, checkpoint
<1>10. CASE Learn(w, saved) /\ Goto(w, "finish")
  <2>1. mem'[w] = saved /\ pc'[w] = "finish"
    BY <1>10 DEF Learn, Goto, SyncInv, Handlers
  <2>2. AtEnd(saved, date, G)
    BY <1>3, <1>7 DEF AtEnd, InPage
  <2>3. Run("finish", saved, date, G)
    BY <2>2 DEF Run
  <2> QED BY <1>6, <2>1, <2>3 DEF checkpoint
<1>11. CASE Remaining(saved) # 0 /\ m.more /\ Learn(w, turned) /\ Goto(w, "fetch")
  <2>1. mem'[w] = turned /\ pc'[w] = "fetch"
    BY <1>11 DEF Learn, Goto, SyncInv, Handlers
  <2>2. m.consumed
    BY <2>1
  <2>3. turned.offset = 0 /\ turned.start # turned.page
    BY <1>1, <1>2, <1>4, <1>7, <2>2
  <2>4. AtTurn(turned, date, G)
    BY <1>3, <1>5, <1>7, <1>8, <1>11, <2>2, <2>3 DEF AtTurn, InPage
  <2>5. Run("fetch", turned, date, G)
    BY <2>4 DEF Run
  <2> QED BY <1>6, <2>1, <2>5 DEF checkpoint
<1> QED BY <1>9, <1>10, <1>11

\* A run that is cut short is not complete.
LEMMA EndsRuns ==
    ASSUME SyncInv, NEW w \in Workers, NEW code, Ends(w, code),
           pc[w] \in {"fetch", "answers", "next", "ingest", "save"},
           NEW date, NEW G, Run(pc[w], mem[w], date, G)
    PROVE  Run(pc'[w], mem'[w], date, G)
<1> DEFINE m == mem[w]
<1>1. mem'[w] = [m EXCEPT !.code = code] /\ pc'[w] = "finish" /\ m \in MemRow
  BY DEF Ends, Learn, Goto, SyncInv, Handlers
<1>2. ~m.complete
  BY DEF Run, AtTurn, InPage
<1>3. ~mem'[w].complete
  BY <1>1, <1>2 DEF MemRow
<1> QED BY <1>1, <1>3 DEF Run, AtEnd

\* Where a run of the job begins.
Beginning == RolledOver(Resolved(job.payload.mode), Position(job.payload, job.checkpoint))

\* A run begins with the window and the position of its job or of the state.
LEMMA LoadFrame ==
    ASSUME SyncInv, NEW w \in Workers, Load(w), Owner(w)
    PROVE  LET m == mem'[w]
           IN /\ m.mode = Resolved(job.payload.mode) /\ m.dry = job.payload.dry
              /\ m.todate = Beginning.todate /\ m.start = Beginning.page /\ m.page = Beginning.page
              /\ m.offset = Beginning.offset /\ m.fromdate = FromDate(m.mode) /\ m.count = sync.count
              /\ m.batch = <<>> /\ ~m.yielded /\ m.left # 0
              /\ pc'[w] \in {"fetch", "finish"}
              /\ pc'[w] = "fetch" => ~m.complete /\ Remaining(m) # 0
              /\ pc'[w] = "finish" => (m.complete => TargetReached(m))
              /\ UNCHANGED <<site, rows, spent>>
              /\ \A v \in Workers \ {w} : pc'[v] = pc[v] /\ mem'[v] = mem[v]
<1> DEFINE payload == job.payload
           mode == Resolved(payload.mode)
           at == Beginning
           m == [Nothing EXCEPT
                !.id = job.id, !.mode = mode, !.dry = payload.dry, !.cap = payload.cap, !.start = at.page,
                !.page = at.page, !.offset = at.offset, !.todate = at.todate,
                !.fromdate = FromDate(mode), !.questions = job.checkpoint.questions,
                !.count = sync.count, !.left = MaxPages]
           left == [m EXCEPT !.complete = TargetReached(m)]
<1>1. /\ Learn(w, left)
      /\ Goto(w, IF TargetReached(m) \/ m.questions >= m.cap THEN "finish" ELSE "fetch")
      /\ UNCHANGED <<site, rows, spent>>
  BY DEF Load, Beginning
<1>2. /\ mem'[w] = left
      /\ pc'[w] = IF TargetReached(m) \/ m.questions >= m.cap THEN "finish" ELSE "fetch"
      /\ \A v \in Workers \ {w} : pc'[v] = pc[v] /\ mem'[v] = mem[v]
  BY <1>1 DEF Learn, Goto, SyncInv, Handlers
<1>3. /\ left.mode = mode /\ left.dry = payload.dry /\ left.todate = at.todate /\ left.start = at.page
      /\ left.page = at.page /\ left.offset = at.offset /\ left.fromdate = FromDate(mode)
      /\ left.batch = <<>> /\ left.yielded = FALSE /\ left.left = MaxPages
      /\ left.complete = TargetReached(m)
      /\ left.cap = payload.cap /\ left.questions = job.checkpoint.questions /\ left.count = sync.count
  BY DEF Nothing
<1>4. /\ m.mode = mode /\ m.cap = payload.cap /\ m.questions = job.checkpoint.questions
      /\ m.count = sync.count
  BY DEF Nothing
<1>5. job.checkpoint.questions \in Nat /\ sync.count \in Nat /\ payload.cap \in Nat
  <2>1. job.status = "RUNNING" /\ job.payload # NoPayload
    BY SyncAssumption DEF Owner, SyncInv, JobTyped, Active
  <2>2. payload.cap \in Nat
    BY <2>1, SyncAssumption DEF SyncInv, JobTyped, JobRow, Payloads
  <2> QED BY <2>2, SyncAssumption DEF SyncInv, JobTyped, JobRow, Positions, SyncRow
<1> HIDE DEF left, m, mode, payload, at
<1>6. TargetReached(left) = TargetReached(m)
  BY <1>3, <1>4 DEF TargetReached
<1>7. ~TargetReached(m) /\ ~(m.questions >= m.cap) => Remaining(left) # 0
  <2>1. left.cap - left.questions \in Int /\ Target - left.count \in Int
    BY <1>3, <1>4, <1>5, SyncAssumption
  <2> QED BY <1>3, <1>4, <1>5, <2>1, SyncAssumption DEF Remaining, Least, TargetReached
<1>8. MaxPages # 0
  BY SyncAssumption
<1> QED BY <1>1, <1>2, <1>3, <1>6, <1>7, <1>8 DEF mode, payload, at

\* A run that begins at a position whose past is in G.
LEMMA LoadRuns ==
    ASSUME SyncInv, NEW w \in Workers, Load(w), Owner(w), Beginning.todate # None,
           Beginning.page \in Nat, NEW date, NEW G,
           Covered(date, Beginning.todate, Beginning.page, Beginning.offset, G)
    PROVE  Run(pc'[w], mem'[w], date, G) /\ Framed(pc'[w], mem'[w])
<1> DEFINE m == mem'[w]
<1>1. /\ m.todate = Beginning.todate /\ m.start = Beginning.page /\ m.page = Beginning.page
      /\ m.offset = Beginning.offset /\ ~m.yielded /\ m.left # 0
      /\ pc'[w] \in {"fetch", "finish"}
      /\ pc'[w] = "fetch" => ~m.complete /\ Remaining(m) # 0
      /\ pc'[w] = "finish" => (m.complete => TargetReached(m))
  BY LoadFrame
<1> HIDE DEF m
<1>2. pc'[w] = "fetch" => AtTurn(m, date, G)
  BY <1>1 DEF AtTurn
<1>3. pc'[w] = "finish" => AtEnd(m, date, G)
  BY <1>1 DEF AtEnd
<1>4. Run(pc'[w], m, date, G)
  BY <1>1, <1>2, <1>3 DEF Run
<1>5. m.start <= m.page
  BY <1>1
<1> QED BY <1>1, <1>4, <1>5 DEF Framed, m

-----------------------------------------------------------------------------
(* Where runs begin again: the invariant of both kinds of positions.        *)

\* A job with a position has a window, and the mode of the position is the one that the
\* payload names; AUTO is INCREMENTAL only after the initial synchronisation.
Resumable(row, initial) ==
    LET at == row.checkpoint
    IN /\ at.page # None <=> at.mode # "AUTO"
       /\ at.page # None => at.todate # None
       /\ at.mode # "AUTO" => row.payload.mode \in {"AUTO", at.mode}
       /\ at.mode = "INCREMENTAL" /\ row.payload.mode = "AUTO" => initial

\* A run has the mode of its job.
Serves(m, row, initial) ==
    /\ m.dry = row.payload.dry /\ m.mode # "AUTO" /\ row.payload.mode \in {"AUTO", m.mode}
    /\ m.mode = "INCREMENTAL" /\ row.payload.mode = "AUTO" => initial

\* Windows end in the past, and what is stored was published.
Timed ==
    /\ sync.todate <= now /\ job.checkpoint.todate <= now /\ ended.checkpoint.todate <= now
    /\ \A q \in Stored : Created[q] <= now

\* A worker: its window ends in the past, its batch was published, and if it owns the job
\* it is in a run of it.
Steady(w) ==
    /\ mem[w].todate <= now
    /\ \A n \in 1 .. Len(mem[w].batch) : Created[mem[w].batch[n][1]] <= now
    /\ Owner(w) => pc[w] # "idle" /\ (pc[w] # "load" => Serves(mem[w], job, sync.initial))
    /\ Framed(pc[w], mem[w])
    /\ mem[w].mode = "INITIAL" => mem[w].fromdate = 0

Base ==
    /\ Timed /\ Resumable(job, sync.initial) /\ Resumable(ended, sync.initial)
    /\ \A w \in Workers : Steady(w)

\* What is said of the rows depends on payload and checkpoint only.
SameRow(row, other) == row.payload = other.payload /\ row.checkpoint = other.checkpoint

\* A job that is put back, ended or retried is as resumable as it was.
LEMMA RowsKept ==
    ASSUME NEW row, NEW other, NEW i \in BOOLEAN, NEW j \in BOOLEAN, i => j,
           SameRow(row, other), Resumable(other, i)
    PROVE  Resumable(row, j)
  BY DEF Resumable, SameRow

\* The types that comparisons of times need.
LEMMA TimesTyped ==
    ASSUME SyncInv
    PROVE  /\ now \in Int /\ sync.todate \in Int /\ job.checkpoint.todate \in Int
           /\ ended.checkpoint.todate \in Int
           /\ \A w \in Workers : mem[w].todate \in Int
           /\ \A q \in Questions : Created[q] \in Nat
           /\ \A w \in Workers : \A n \in 1 .. Len(mem[w].batch) : mem[w].batch[n][1] \in Questions
<1>1. now \in Int /\ sync.todate \in Int /\ job.checkpoint.todate \in Int /\ ended.checkpoint.todate \in Int
  BY SyncAssumption DEF SyncInv, Tables, SyncRow, JobTyped, JobRow, EndedRow, Positions, Times, None
<1>2. ASSUME NEW w \in Workers
      PROVE  mem[w].todate \in Int /\ mem[w].batch \in Seq(Questions \X Times)
  <2>1. mem[w].todate \in Times \cup {None} /\ mem[w].batch \in Seq(Questions \X Times)
    BY AtWork DEF MemRow
  <2> QED BY <2>1, SyncAssumption DEF Times, None
<1>3. \A q \in Questions : Created[q] \in Nat
  BY SyncAssumption DEF Questions
<1>4. ASSUME NEW w \in Workers, NEW n \in 1 .. Len(mem[w].batch)
      PROVE  mem[w].batch[n][1] \in Questions
  BY <1>2
<1> QED BY <1>1, <1>2, <1>3, <1>4

\* A worker that does nothing in a step of others stays as it is.
LEMMA StaysSteady ==
    ASSUME SyncInv, NEW v \in Workers, Steady(v), now' \in Int, now <= now',
           pc'[v] = pc[v], mem'[v] = mem[v], sync.initial => sync'.initial,
           job'.owner = v => job.owner = v /\ job'.payload = job.payload
    PROVE  Steady(v)'
<1>1. /\ now \in Int /\ mem[v].todate \in Int
      /\ \A n \in 1 .. Len(mem[v].batch) : Created[mem[v].batch[n][1]] \in Int
  BY TimesTyped
<1>2. mem'[v].todate <= now'
  BY <1>1 DEF Steady
<1>3. \A n \in 1 .. Len(mem'[v].batch) : Created[mem'[v].batch[n][1]] <= now'
  BY <1>1 DEF Steady
<1>4. Owner(v)' => pc'[v] # "idle" /\ (pc'[v] # "load" => Serves(mem'[v], job', sync'.initial))
  BY DEF Steady, Owner, Serves
<1>5. Framed(pc'[v], mem'[v]) /\ (mem'[v].mode = "INITIAL" => mem'[v].fromdate = 0)
  BY DEF Steady
<1> QED BY <1>2, <1>3, <1>4, <1>5 DEF Steady

\* A worker that leaves the handler does not own the job.
LEMMA EscapeSteady ==
    ASSUME SyncInv, NEW w \in Workers, Escape(w), now' \in Nat, job'.owner # w
    PROVE  Steady(w)' /\ \A v \in Workers \ {w} : pc'[v] = pc[v] /\ mem'[v] = mem[v]
<1>1. /\ pc'[w] = "idle" /\ mem'[w] = Nothing
      /\ \A v \in Workers \ {w} : pc'[v] = pc[v] /\ mem'[v] = mem[v]
  BY DEF Escape, Goto, Learn, SyncInv, Handlers
<1>2. mem'[w].todate <= now' /\ mem'[w].batch = <<>> /\ mem'[w].mode = "AUTO"
  BY <1>1 DEF Nothing, None
<1> QED BY <1>1, <1>2 DEF Steady, Owner, Framed

\* What stays as it is when time goes on.
LEMMA TimedLater ==
    ASSUME SyncInv, Timed, now' \in Int, now <= now'
    PROVE  /\ sync.todate <= now' /\ job.checkpoint.todate <= now' /\ ended.checkpoint.todate <= now'
           /\ \A q \in Stored : Created[q] <= now'
<1>1. \A q \in Stored : Created[q] \in Int
  BY TimesTyped DEF Stored
<1> QED BY <1>1, TimesTyped DEF Timed

\* A step of one worker that leaves the tables.
LEMMA BaseLocal ==
    ASSUME SyncInv, Base, NEW w \in Workers, UNCHANGED <<site, rows>>, Steady(w)',
           \A v \in Workers \ {w} : pc'[v] = pc[v] /\ mem'[v] = mem[v]
    PROVE  Base'
<1>1. UNCHANGED <<now, docs, job, ended, sync>> /\ now \in Int
  BY TimesTyped DEF site, rows
<1>2. \A v \in Workers \ {w} : Steady(v)'
  BY <1>1, StaysSteady DEF Base
<1>3. Timed'
  BY <1>1 DEF Base, Timed, Stored
<1> QED BY <1>1, <1>2, <1>3 DEF Base

\* What the end of a job leaves in the rows.
LEMMA ClosedRows ==
    ASSUME SyncInv, NEW status, job' = Closed(status), ended' = Remembered(status)
    PROVE  /\ SameRow(job', job) /\ job'.owner = NoWorker
           /\ SameRow(ended', ended) \/ SameRow(ended', job)
  BY DEF SyncInv, JobTyped, JobRow, Closed, Remembered, SameRow

\* What a recovered job leaves in them.
LEMMA RecoveredRows ==
    ASSUME SyncInv, NEW status, NEW other, job' = Closed(status), ended' = Remembered(other)
    PROVE  /\ SameRow(job', job) /\ job'.owner = NoWorker
           /\ SameRow(ended', ended) \/ SameRow(ended', job)
  BY DEF SyncInv, JobTyped, JobRow, Closed, Remembered, SameRow

\* A step that leaves the site, the documents and all workers.
LEMMA BaseRows ==
    ASSUME SyncInv, Base, UNCHANGED <<site, docs, pc, mem>>,
           sync'.todate = sync.todate, sync.initial = sync'.initial,
           \A v \in Workers : job'.owner = v => job.owner = v /\ job'.payload = job.payload,
           job'.checkpoint.todate <= now, ended'.checkpoint.todate <= now,
           Resumable(job', sync'.initial), Resumable(ended', sync'.initial)
    PROVE  Base'
<1>1. UNCHANGED <<now, docs, pc, mem>> /\ now \in Int
  BY TimesTyped DEF site
<1>2. \A v \in Workers : Steady(v)'
  BY <1>1, StaysSteady DEF Base
<1>3. Timed'
  BY <1>1 DEF Base, Timed, Stored
<1> QED BY <1>2, <1>3 DEF Base

\* A job that is new has no position, and a retry has that of the job that ended.
LEMMA BaseApi ==
    ASSUME SyncInv, Base, Api
    PROVE  Base'
<1>1. NoWorker \notin Workers /\ sync.initial \in BOOLEAN /\ now \in Int /\ now \in Nat
  BY SyncAssumption DEF SyncInv, SyncRow, Tables, Times
<1>2. ASSUME NEW start \in Starts, NEW cap \in Caps, NEW dry \in BOOLEAN,
             StartSync(start[1], start[2], cap, dry)
      PROVE  Base'
  <2>1. /\ job'.checkpoint = NoCheckpoint /\ job'.owner = NoWorker /\ ended' = ended
        /\ UNCHANGED <<site, docs, pc, mem>>
        /\ sync' = sync \/ sync' = [sync EXCEPT !.mode = start[2]]
    BY <1>2 DEF StartSync, NewJob, StateAfterStart
  <2>2. sync'.todate = sync.todate /\ sync'.initial = sync.initial
    BY <2>1 DEF SyncInv, SyncRow
  <2>3. job'.checkpoint.todate <= now /\ Resumable(job', sync'.initial)
    BY <1>1, <2>1 DEF NoCheckpoint, None, Resumable
  <2> QED BY <1>1, <2>1, <2>2, <2>3, BaseRows DEF Base, Timed
<1>3. ASSUME RetryJob PROVE Base'
  <2>1. /\ SameRow(job', ended) /\ job'.owner = NoWorker /\ ended' = ended
        /\ UNCHANGED <<site, docs, pc, mem, sync>>
    BY <1>3 DEF RetryJob, NewJob, SameRow
  <2>2. Resumable(job', sync.initial) /\ job'.checkpoint.todate <= now
    BY <1>1, <2>1, RowsKept DEF Base, Timed, SameRow
  <2> QED BY <1>1, <2>1, <2>2, BaseRows DEF Base, Timed
<1>4. ASSUME CancelJob PROVE Base'
  <2>1. /\ UNCHANGED <<site, docs, pc, mem, sync>>
        /\ SameRow(job', job) /\ (SameRow(ended', ended) \/ SameRow(ended', job))
        /\ job'.owner \in {NoWorker, job.owner}
    <3>1. CASE job.status = "QUEUED"
      BY <1>4, <3>1, ClosedRows DEF CancelJob
    <3>2. CASE job.status # "QUEUED"
      BY <1>4, <3>2 DEF CancelJob, SameRow, SyncInv, JobTyped, JobRow
    <3> QED BY <1>4, <3>1, <3>2 DEF CancelJob
  <2>2. Resumable(job', sync.initial) /\ Resumable(ended', sync.initial)
    BY <1>1, <2>1, RowsKept DEF Base
  <2>3. job'.checkpoint.todate <= now /\ ended'.checkpoint.todate <= now /\ job'.payload = job.payload
    BY <2>1 DEF Base, Timed, SameRow
  <2> QED BY <1>1, <2>1, <2>2, <2>3, BaseRows
<1> QED BY <1>2, <1>3, <1>4 DEF Api

\* A worker that claims the job has no window yet.
LEMMA BaseClaim ==
    ASSUME SyncInv, Base, NEW w \in Workers, Claim(w)
    PROVE  Base'
<1>1. /\ job' = [job EXCEPT !.status = "RUNNING", !.owner = w]
      /\ pc'[w] = "load" /\ mem'[w] = [Nothing EXCEPT !.id = job.id]
      /\ \A v \in Workers \ {w} : pc'[v] = pc[v] /\ mem'[v] = mem[v]
      /\ UNCHANGED <<now, docs, ended, sync>>
  BY DEF Claim, Goto, Learn, SyncInv, Handlers, site
<1>2. job'.owner = w /\ SameRow(job', job) /\ now \in Nat /\ sync.initial \in BOOLEAN
  BY <1>1, SyncAssumption DEF SyncInv, JobTyped, JobRow, SameRow, Tables, Times, SyncRow
<1>3. mem'[w].todate <= now' /\ mem'[w].batch = <<>> /\ mem'[w].mode = "AUTO"
  BY <1>1, <1>2 DEF Nothing, None
<1>4. Steady(w)'
  BY <1>1, <1>3 DEF Steady, Framed
<1>5. \A v \in Workers \ {w} : Steady(v)'
  BY <1>1, <1>2, StaysSteady DEF Base
<1>6. Timed'
  BY <1>1, <1>2 DEF Base, Timed, Stored, SameRow
<1>7. Resumable(job', sync'.initial) /\ Resumable(ended', sync'.initial)
  BY <1>1, <1>2, RowsKept DEF Base
<1> QED BY <1>4, <1>5, <1>6, <1>7 DEF Base

\* A run begins at a page of a window that ends in the past.
LEMMA BeginningTimed ==
    ASSUME SyncInv, Base, job.payload.mode \in Modes
    PROVE  /\ Beginning.page \in Nat \ {0} /\ Beginning.offset \in Nat
           /\ Beginning.todate \in Int /\ Beginning.todate # None /\ Beginning.todate <= now
<1> DEFINE mode == Resolved(job.payload.mode)
           position == Position(job.payload, job.checkpoint)
           OK(at) == /\ at.page \in Nat \ {0} /\ at.offset \in Nat /\ at.todate \in Int
                     /\ at.todate # None /\ at.todate <= now
<1>1. now \in Nat /\ sync.todate \in Int /\ job.checkpoint.todate \in Int
  BY TimesTyped DEF SyncInv, Tables, Times
<1>2. sync.page \in Nat \ {0} /\ sync.offset \in Nat /\ job.checkpoint.offset \in Nat
  BY DEF SyncInv, SyncRow, JobTyped, JobRow, Positions
<1>3. OK(position)
  <2>1. CASE job.checkpoint.page # None
    <3>1. job.checkpoint.page \in Nat \ {0} /\ job.checkpoint.todate # None /\ job.checkpoint.todate <= now
      BY <2>1 DEF SyncInv, JobTyped, JobRow, Positions, Base, Resumable, Timed
    <3> QED BY <1>1, <1>2, <2>1, <3>1 DEF Position
  <2>2. CASE job.checkpoint.page = None
    <3>1. sync.todate <= now /\ now # None /\ 1 \in Nat \ {0} /\ 0 \in Nat
      BY <1>1 DEF Base, Timed, None
    <3>2. CASE Continues(job.payload)
      BY <1>1, <1>2, <2>2, <3>1, <3>2 DEF Position
    <3>3. CASE ~Continues(job.payload)
      BY <1>1, <2>2, <3>1, <3>3 DEF Position
    <3> QED BY <3>2, <3>3
  <2> QED BY <2>1, <2>2
<1> HIDE DEF position
<1>4. CASE mode = "INITIAL" /\ position.page > KeylessPages /\ Stored # {}
  <2> DEFINE oldest == CHOOSE q \in Stored : \A r \in Stored : Created[q] <= Created[r]
             last == Created[oldest] - 1
  <2>1. oldest \in Stored
    BY <1>4, OldestExists
  <2> HIDE DEF oldest
  <2>2. Created[oldest] \in Nat /\ Created[oldest] <= now
    BY <2>1, TimesTyped DEF Base, Timed, Stored
  <2>3. Beginning = [page |-> 1, offset |-> 0, todate |-> IF last < 0 THEN 0 ELSE last]
    BY <1>4 DEF Beginning, RolledOver, oldest, position
  <2>4. Beginning.todate = (IF last < 0 THEN 0 ELSE last) /\ Beginning.page = 1 /\ Beginning.offset = 0
    BY <2>3
  <2> QED BY <1>1, <2>2, <2>4 DEF None
<1>5. CASE ~(mode = "INITIAL" /\ position.page > KeylessPages /\ Stored # {})
  <2>1. Beginning = position
    BY <1>5 DEF Beginning, RolledOver, position
  <2> QED BY <1>3, <2>1
<1> QED BY <1>4, <1>5

\* The owner of the job has a payload to run.
LEMMA OwnerRuns ==
    ASSUME SyncInv, NEW w \in Workers, Owner(w)
    PROVE  job.payload \in [mode : Modes, cap : Caps, dry : BOOLEAN] /\ job.status = "RUNNING"
<1>1. job.status = "RUNNING" /\ job.payload # NoPayload
  BY SyncAssumption DEF Owner, SyncInv, JobTyped, Active
<1> QED BY <1>1 DEF SyncInv, JobTyped, JobRow, Payloads

\* A run begins with the mode of its job.
LEMMA BaseLoad ==
    ASSUME SyncInv, Base, NEW w \in Workers, Load(w)
    PROVE  Base'
<1>1. UNCHANGED <<site, rows>> /\ now' = now /\ now \in Nat /\ job' = job /\ sync' = sync
  BY DEF Load, SyncInv, Tables, Times, site, rows
<1>2. CASE ~Owner(w)
  <2>1. Escape(w) /\ job'.owner # w
    BY <1>1, <1>2 DEF Load, Owner
  <2> QED BY <1>1, <2>1, EscapeSteady, BaseLocal
<1>3. CASE Owner(w)
  <2> DEFINE m == mem'[w]
             payload == job.payload
  <2>1. /\ m.mode = Resolved(payload.mode) /\ m.dry = payload.dry
        /\ m.todate = Beginning.todate /\ m.start = Beginning.page /\ m.page = Beginning.page
        /\ m.fromdate = FromDate(m.mode) /\ m.batch = <<>>
        /\ pc'[w] \in {"fetch", "finish"}
        /\ \A v \in Workers \ {w} : pc'[v] = pc[v] /\ mem'[v] = mem[v]
    BY <1>3, LoadFrame
  <2>2. payload.mode \in Modes
    BY <1>3, OwnerRuns
  <2>3. Beginning.page \in Nat \ {0} /\ Beginning.todate # None /\ Beginning.todate <= now
    BY <2>2, BeginningTimed
  <2> HIDE DEF m
  <2>4. Serves(m, job, sync.initial)
    BY <2>1, <2>2 DEF Serves, Resolved, Modes
  <2>5. Framed(pc'[w], m)
    BY <2>1, <2>3 DEF Framed
  <2>6. m.mode = "INITIAL" => m.fromdate = 0
    BY <2>1 DEF FromDate
  <2>7. m.todate <= now' /\ \A n \in 1 .. Len(m.batch) : Created[m.batch[n][1]] <= now'
    BY <1>1, <2>1, <2>3
  <2>8. Steady(w)'
    BY <1>1, <2>1, <2>4, <2>5, <2>6, <2>7 DEF Steady, m
  <2> QED BY <1>1, <2>1, <2>8, BaseLocal
<1> QED BY <1>2, <1>3

\* A request leaves the window, and what it brings was published.
LEMMA BaseFetch ==
    ASSUME SyncInv, Base, NEW w \in Workers, Fetch(w)
    PROVE  Base'
<1>1. Framed(pc[w], mem[w])
  BY DEF Base, Steady
<1>2. /\ Framed(pc'[w], mem'[w]) /\ Fresh(mem'[w].batch, mem[w].batch)
      /\ mem'[w].mode = mem[w].mode /\ mem'[w].dry = mem[w].dry
      /\ mem'[w].todate = mem[w].todate /\ mem'[w].fromdate = mem[w].fromdate
      /\ pc'[w] \in {"fetch", "answers", "finish"}
      /\ UNCHANGED <<site, rows, spent>>
      /\ \A v \in Workers \ {w} : pc'[v] = pc[v] /\ mem'[v] = mem[v]
  BY <1>1, FetchFrame
<1>3. UNCHANGED <<now, job, sync>> /\ pc[w] = "fetch"
  BY <1>2 DEF site, rows, Fetch
<1>4. \A n \in 1 .. Len(mem'[w].batch) : Created[mem'[w].batch[n][1]] <= now
  BY <1>2 DEF Fresh, Base, Steady
<1>5. Steady(w)'
  BY <1>2, <1>3, <1>4 DEF Base, Steady, Owner, Serves
<1> QED BY <1>2, <1>5, BaseLocal

\* Between two requests a run leaves its window.
LEMMA BaseThread ==
    ASSUME SyncInv, Base, NEW w \in Workers, FetchAnswers(w) \/ NextQuestion(w)
    PROVE  Base'
<1>1. /\ UNCHANGED <<site, rows>> /\ now' = now /\ job' = job /\ sync' = sync
      /\ pc[w] \in {"answers", "next"} /\ pc'[w] \in {"save", "next", "ingest"} /\ mem' = mem
      /\ \A v \in Workers \ {w} : pc'[v] = pc[v]
  BY DEF FetchAnswers, NextQuestion, Goto, SyncInv, Handlers, site, rows
<1>2. Steady(w)'
  BY <1>1 DEF Base, Steady, Owner, Framed
<1> QED BY <1>1, <1>2, BaseLocal

\* A thread that is ingested was published when it was fetched.
LEMMA BaseIngest ==
    ASSUME SyncInv, Base, NEW w \in Workers, IngestOne(w)
    PROVE  Base'
<1> DEFINE m == mem[w]
           left == [m EXCEPT !.batch = Tail(m.batch)]
<1>1. m \in MemRow /\ m.batch # <<>> /\ m.batch \in Seq(Questions \X Times) /\ pc[w] = "ingest"
  BY AtWork DEF IngestOne, MemRow
<1>2. /\ Len(m.batch) \in Nat \ {0} /\ Len(Tail(m.batch)) = Len(m.batch) - 1
      /\ \A n \in 1 .. Len(Tail(m.batch)) : Tail(m.batch)[n] = m.batch[n + 1] /\ n + 1 \in 1 .. Len(m.batch)
      /\ Head(m.batch) = m.batch[1] /\ 1 \in 1 .. Len(m.batch)
  BY <1>1
<1>3. /\ mem'[w] = left /\ pc'[w] \in {"save", "next"}
      /\ \A v \in Workers \ {w} : pc'[v] = pc[v] /\ mem'[v] = mem[v]
      /\ UNCHANGED <<now, job, ended, sync>>
  BY DEF IngestOne, Learn, Goto, SyncInv, Handlers, site
<1>4. Stored' \subseteq Stored \cup {m.batch[1][1]}
  BY <1>2 DEF IngestOne, Stored, SyncInv, Tables
<1>5. /\ left.batch = Tail(m.batch) /\ left.todate = m.todate /\ left.page = m.page
      /\ left.start = m.start /\ left.mode = m.mode /\ left.dry = m.dry /\ left.fromdate = m.fromdate
  BY <1>1 DEF MemRow
<1>6. \A n \in 1 .. Len(m.batch) : Created[m.batch[n][1]] <= now
  BY DEF Base, Steady
<1> HIDE DEF left
<1>7. \A n \in 1 .. Len(left.batch) : Created[left.batch[n][1]] <= now
  BY <1>2, <1>5, <1>6
<1>8. Steady(w)'
  BY <1>1, <1>3, <1>5, <1>7 DEF Base, Steady, Owner, Serves, Framed
<1>9. \A v \in Workers \ {w} : Steady(v)'
  BY <1>3, TimesTyped, StaysSteady DEF Base
<1>10. Timed'
  BY <1>2, <1>3, <1>4, <1>6 DEF Base, Timed
<1> QED BY <1>3, <1>8, <1>9, <1>10 DEF Base

\* The position that a run saves has its window and its mode.
LEMMA BaseSave ==
    ASSUME SyncInv, Base, NEW w \in Workers, SaveCheckpoint(w)
    PROVE  Base'
<1> DEFINE m == mem[w]
           checkpoint == Checkpoint(m)
<1>1. CASE ~Owner(w)
  <2>1. Escape(w) /\ UNCHANGED <<site, rows, now, job>> /\ now \in Nat
    BY <1>1 DEF SaveCheckpoint, site, rows, SyncInv, Tables, Times
  <2>2. job'.owner # w
    BY <1>1, <2>1 DEF Owner
  <2> QED BY <2>1, <2>2, EscapeSteady, BaseLocal
<1>2. CASE Owner(w)
  <2>1. m \in MemRow /\ m.page \in Nat \ {0} /\ pc[w] = "save"
    BY AtWork DEF SaveCheckpoint, AtPage
  <2>2. /\ checkpoint \in Positions /\ checkpoint.page \in Nat \ {0}
        /\ checkpoint.mode = m.mode /\ checkpoint.todate = m.todate
    BY <2>1, CheckpointTyped DEF Checkpoint
  <2>3. job' = [job EXCEPT !.checkpoint = checkpoint] /\ UNCHANGED <<now, docs, ended>>
    BY <1>2 DEF SaveCheckpoint, site
  <2> HIDE DEF checkpoint
  <2>4. job'.checkpoint = checkpoint /\ job'.payload = job.payload /\ job'.owner = job.owner
    BY <2>3 DEF SyncInv, JobTyped, JobRow
  <2>5. sync'.initial = sync.initial /\ (sync'.todate = sync.todate \/ sync'.todate = m.todate)
    <3>1. sync' = sync \/ sync' = Progressed(m, checkpoint)
      BY <1>2 DEF SaveCheckpoint, checkpoint
    <3> QED BY <3>1 DEF Progressed, SyncInv, SyncRow
  <2>6. \E new \in MemRow : /\ mem'[w] = new /\ pc'[w] \in {"finish", "fetch"}
                            /\ new.todate = m.todate /\ new.start = m.start /\ new.batch = <<>>
                            /\ new.mode = m.mode /\ new.dry = m.dry /\ new.fromdate = m.fromdate
                            /\ (new.page = m.page \/ new.page = m.page + 1)
    <3> DEFINE saved == [m EXCEPT !.batch = <<>>, !.took = 0, !.questions = checkpoint.questions,
                              !.count = IF m.dry THEN m.count ELSE Cardinality(Stored),
                              !.offset = checkpoint.offset, !.complete = ~m.lastMore]
               turned == [saved EXCEPT !.page = saved.page + 1]
    <3>1. \/ Learn(w, saved) /\ Goto(w, "finish")
          \/ Learn(w, turned) /\ Goto(w, "fetch")
      BY <1>2 DEF SaveCheckpoint, checkpoint
    <3>2. /\ saved.todate = m.todate /\ saved.start = m.start /\ saved.batch = <<>>
          /\ saved.mode = m.mode /\ saved.dry = m.dry /\ saved.fromdate = m.fromdate /\ saved.page = m.page
          /\ turned.todate = m.todate /\ turned.start = m.start /\ turned.batch = <<>>
          /\ turned.mode = m.mode /\ turned.dry = m.dry /\ turned.fromdate = m.fromdate
          /\ turned.page = m.page + 1
      BY <2>1 DEF MemRow
    <3> HIDE DEF saved, turned
    <3>3. (mem'[w] = saved \/ mem'[w] = turned) /\ pc'[w] \in {"finish", "fetch"}
      BY <3>1 DEF Learn, Goto, SyncInv, Handlers
    <3>4. mem'[w] \in MemRow
      BY SaveTyped, AtWork DEF SyncInv, Handlers
    <3> QED BY <3>2, <3>3, <3>4
  <2>7. \A v \in Workers \ {w} : pc'[v] = pc[v] /\ mem'[v] = mem[v]
    BY <1>2 DEF SaveCheckpoint, Learn, Goto, SyncInv, Handlers
  <2>8. m.todate # None /\ m.start <= m.page /\ m.todate <= now /\ Serves(m, job, sync.initial)
    BY <1>2, <2>1 DEF Base, Steady, Framed
  <2>9. m.start \in Nat /\ m.mode \in {"INITIAL", "INCREMENTAL"}
    BY <2>1, <2>8 DEF MemRow, Serves, Modes
  <2> HIDE DEF m
  <2>10. Framed(pc'[w], mem'[w])
    BY <2>1, <2>6, <2>8, <2>9 DEF Framed
  <2>11. Steady(w)'
    <3>1. m.mode = "INITIAL" => m.fromdate = 0
      BY DEF Base, Steady, m
    <3> QED BY <2>3, <2>4, <2>5, <2>6, <2>8, <2>10, <3>1 DEF Steady, Owner, Serves
  <2>12. \A v \in Workers \ {w} : Steady(v)'
    BY <2>3, <2>4, <2>5, <2>7, TimesTyped, StaysSteady DEF Base
  <2>13. Timed'
    BY <2>2, <2>3, <2>4, <2>5, <2>8 DEF Base, Timed, Stored
  <2>14. Resumable(job', sync'.initial)
    <3>1. checkpoint.page # None
      BY <2>2 DEF None
    <3> QED BY <2>2, <2>4, <2>5, <2>8, <2>9, <3>1 DEF Resumable, Serves
  <2>15. Resumable(ended', sync'.initial)
    BY <2>3, <2>5 DEF Base
  <2> QED BY <2>11, <2>12, <2>13, <2>14, <2>15 DEF Base
<1> QED BY <1>1, <1>2

\* A completed synchronisation ends in the past too, and stays completed.
LEMMA CompletedTimed ==
    ASSUME SyncInv, NEW m \in MemRow
    PROVE  /\ Completed(m).todate \in {sync.todate, m.todate}
           /\ sync.initial => Completed(m).initial
  BY DEF Completed, SyncInv, SyncRow

\* However a run ends, its job can be resumed.
LEMMA BaseEnds ==
    ASSUME SyncInv, Base, NEW w \in Workers,
           Stopped(w) \/ Lost(w) \/ RequestFails(w) \/ PageRefused(w) \/ Finish(w) \/ Crash(w)
           \/ LoseLease(w)
    PROVE  Base'
<1>1. now \in Nat /\ NoWorker \notin Workers /\ sync.initial \in BOOLEAN /\ mem[w] \in MemRow
  BY AtWork, SyncAssumption DEF SyncInv, SyncRow, Tables, Times
<1>2. CASE Lost(w)
  <2>1. Escape(w) /\ UNCHANGED <<site, rows, now, job>> /\ job'.owner # w
    BY <1>2 DEF Lost, site, rows, Owner
  <2> QED BY <1>1, <2>1, EscapeSteady, BaseLocal
<1>3. CASE PageRefused(w) \/ RequestFails(w) \/ Stopped(w)
  <2>1. PICK code : Ends(w, code) /\ UNCHANGED <<site, rows, now, job, sync>>
    BY <1>3 DEF PageRefused, RequestFails, Stopped, site, rows
  <2>2. pc[w] \notin {"idle", "load"}
    BY <1>3 DEF PageRefused, RequestFails, Stopped
  <2>3. /\ mem'[w] = [mem[w] EXCEPT !.code = code] /\ pc'[w] = "finish"
        /\ \A v \in Workers \ {w} : pc'[v] = pc[v] /\ mem'[v] = mem[v]
    BY <2>1 DEF Ends, Learn, Goto, SyncInv, Handlers
  <2>4. /\ mem'[w].todate = mem[w].todate /\ mem'[w].start = mem[w].start /\ mem'[w].page = mem[w].page
        /\ mem'[w].batch = mem[w].batch /\ mem'[w].mode = mem[w].mode /\ mem'[w].dry = mem[w].dry
        /\ mem'[w].fromdate = mem[w].fromdate
    BY <1>1, <2>3 DEF MemRow
  <2>5. Steady(w)'
    BY <2>1, <2>2, <2>3, <2>4 DEF Base, Steady, Owner, Framed, Serves
  <2> QED BY <2>1, <2>3, <2>5, BaseLocal
<1>4. CASE Finish(w) \/ Crash(w)
  <2>1. Escape(w) /\ UNCHANGED <<now, docs>>
    BY <1>4 DEF Finish, Crash, site
  <2>2. \/ UNCHANGED <<job, ended, sync>> /\ ~Owner(w)
        \/ /\ SameRow(job', job) /\ job'.owner = NoWorker
           /\ (SameRow(ended', ended) \/ SameRow(ended', job))
           /\ sync' = sync \/ sync' = Completed(mem[w])
    <3>1. CASE ~Owner(w)
      BY <1>4, <3>1 DEF Finish, Crash
    <3>2. CASE Owner(w) /\ Finish(w)
      <4>1. PICK status : /\ job' = Closed(status) /\ ended' = Remembered(status)
                          /\ sync' = IF status = "COMPLETED" THEN Completed(mem[w]) ELSE sync
        BY <3>2 DEF Finish
      <4> QED BY <4>1, ClosedRows
    <3>3. CASE Owner(w) /\ Crash(w)
      <4>1. \E status : Recovered = Closed(status)
        BY DEF Recovered
      <4>2. PICK status, other : job' = Closed(status) /\ ended' = Remembered(other) /\ sync' = sync
        BY <3>3, <4>1 DEF Crash
      <4> QED BY <4>2, RecoveredRows
    <3> QED BY <1>4, <3>1, <3>2, <3>3
  <2>3. job'.owner # w /\ \A v \in Workers : job'.owner = v => job.owner = v /\ job'.payload = job.payload
    BY <1>1, <2>2 DEF Owner
  <2>4. Steady(w)' /\ \A v \in Workers \ {w} : pc'[v] = pc[v] /\ mem'[v] = mem[v]
    BY <1>1, <2>1, <2>3, EscapeSteady
  <2>5. (sync.initial => sync'.initial) /\ sync'.todate \in {sync.todate, mem[w].todate}
    BY <1>1, <2>2, CompletedTimed
  <2>6. \A v \in Workers \ {w} : Steady(v)'
    BY <1>1, <2>1, <2>3, <2>4, <2>5, StaysSteady DEF Base
  <2>7. Timed'
    BY <2>1, <2>2, <2>5 DEF Base, Timed, Steady, Stored, SameRow
  <2>8. Resumable(job', sync'.initial) /\ Resumable(ended', sync'.initial)
    <3>1. sync'.initial \in BOOLEAN
      BY EndTyped DEF SyncInv, SyncRow
    <3>2. (SameRow(job', job)) /\ (SameRow(ended', ended) \/ SameRow(ended', job))
      BY <2>2 DEF SameRow
    <3> QED BY <1>1, <2>5, <3>1, <3>2, RowsKept DEF Base
  <2> QED BY <2>4, <2>6, <2>7, <2>8 DEF Base
<1>5. CASE LoseLease(w)
  <2>1. \E status : Recovered = Closed(status)
    BY DEF Recovered
  <2>2. PICK status, other : job' = Closed(status) /\ ended' = Remembered(other)
    BY <1>5, <2>1 DEF LoseLease
  <2>3. /\ SameRow(job', job) /\ job'.owner = NoWorker
        /\ (SameRow(ended', ended) \/ SameRow(ended', job))
    BY <2>2, RecoveredRows
  <2>4. UNCHANGED <<site, docs, sync, pc, mem>>
    BY <1>5 DEF LoseLease
  <2>5. Resumable(job', sync'.initial) /\ Resumable(ended', sync'.initial)
    BY <1>1, <2>3, <2>4, RowsKept DEF Base
  <2>6. job'.checkpoint.todate <= now /\ ended'.checkpoint.todate <= now
    BY <2>3 DEF Base, Timed, SameRow
  <2> QED BY <1>1, <2>3, <2>4, <2>5, <2>6, BaseRows
<1> QED BY <1>2, <1>3, <1>4, <1>5

\* The site moves time on.
LEMMA BaseSite ==
    ASSUME SyncInv, Base, (\E q \in Questions : SiteActivity(q)) \/ Tick
    PROVE  Base'
<1>1. now \in Int /\ now' = now + 1 /\ UNCHANGED <<rows, pc, mem>>
  BY TimesTyped DEF SiteActivity, Tick
<1>2. now' \in Int /\ now <= now' /\ UNCHANGED <<docs, job, ended, sync, pc, mem>>
  BY <1>1 DEF rows
<1>3. \A v \in Workers : Steady(v)'
  BY <1>2, StaysSteady DEF Base
<1>4. Timed'
  BY <1>2, TimedLater DEF Base, Timed, Stored
<1> QED BY <1>2, <1>3, <1>4 DEF Base

\* Every step keeps it.
LEMMA BaseNext == SyncInv /\ Base /\ [Next]_vars => Base'
<1> SUFFICES ASSUME SyncInv, Base, [Next]_vars PROVE Base'
  OBVIOUS
<1>1. ASSUME NEW w \in Workers, Handler(w) \/ Faults(w) PROVE Base'
  BY <1>1, BaseClaim, BaseLoad, BaseFetch, BaseThread, BaseIngest, BaseSave, BaseEnds
     DEF Handler, Faults
<1>2. CASE UNCHANGED vars
  BY <1>2 DEF vars, site, rows, Base, Timed, Stored, Steady, Owner
<1> QED BY <1>1, <1>2, BaseApi, BaseSite DEF Next

\* Nothing is under way at first.
LEMMA BaseInit == Init => Base
<1> SUFFICES ASSUME Init PROVE Base
  OBVIOUS
<1>1. Today \in Nat
  BY SyncAssumption
<1>2. Timed
  BY <1>1 DEF Init, Timed, NoCheckpoint, None, Stored
<1>3. Resumable(job, sync.initial) /\ Resumable(ended, sync.initial)
  BY DEF Init, NoCheckpoint, None, Resumable
<1>4. \A w \in Workers : Steady(w)
  BY <1>1, SyncAssumption DEF Init, Steady, Owner, Framed, Nothing, None
<1> QED BY <1>2, <1>3, <1>4 DEF Base

-----------------------------------------------------------------------------
(* Initial runs: what is behind a position was stored, or can never be.     *)

Settled == Stored \cup Unusable

SafeRow(row, G) ==
    row.checkpoint.mode = "INITIAL" /\ ~row.payload.dry =>
        Covered(Created, row.checkpoint.todate, row.checkpoint.page, row.checkpoint.offset, G)

SafeState(row, G) ==
    row.mode = "INITIAL" => row.todate # None /\ Covered(Created, row.todate, row.page, row.offset, G)

SafeRun(place, m, G) == m.mode = "INITIAL" /\ ~m.dry => Run(place, m, Created, G)

Safe ==
    /\ SafeRow(job, Settled) /\ SafeRow(ended, Settled) /\ SafeState(sync, Settled)
    /\ \A w \in Workers : SafeRun(pc[w], mem[w], Settled)

\* A step of one worker.
LEMMA SafeStep ==
    ASSUME Safe, NEW w \in Workers, Stored \subseteq Stored',
           SafeRow(job', Settled'), SafeRow(ended', Settled'), SafeState(sync', Settled'),
           \A v \in Workers \ {w} : pc'[v] = pc[v] /\ mem'[v] = mem[v],
           SafeRun(pc'[w], mem'[w], Settled')
    PROVE  Safe'
<1>1. Settled \subseteq Settled'
  BY DEF Settled
<1>2. ASSUME NEW v \in Workers \ {w} PROVE SafeRun(pc'[v], mem'[v], Settled')
  <2>1. SafeRun(pc[v], mem[v], Settled)
    BY DEF Safe
  <2> HIDE DEF Settled
  <2> QED BY <1>1, <2>1, RunGrows DEF SafeRun
<1> QED BY <1>2 DEF Safe

\* A job that is put back, ended or retried is as safe as it was.
LEMMA RowsSafe ==
    ASSUME NEW row, NEW other, NEW G, NEW H, G \subseteq H, SameRow(row, other), SafeRow(other, G)
    PROVE  SafeRow(row, H)
  BY DEF SafeRow, SameRow, Covered

\* What a step that leaves the documents leaves settled.
LEMMA SettledSame == docs' = docs => Stored' = Stored /\ Settled' = Settled
  BY DEF Stored, Settled

\* A step that leaves the documents and all workers.
LEMMA SafeRows ==
    ASSUME SyncInv, Safe, UNCHANGED <<docs, pc, mem>>,
           SafeRow(job', Settled), SafeRow(ended', Settled), SafeState(sync', Settled)
    PROVE  Safe'
  BY SettledSame DEF Safe

\* A step of one worker that leaves the tables.
LEMMA SafeLocal ==
    ASSUME SyncInv, Safe, NEW w \in Workers, UNCHANGED rows,
           \A v \in Workers \ {w} : pc'[v] = pc[v] /\ mem'[v] = mem[v],
           SafeRun(pc'[w], mem'[w], Settled)
    PROVE  Safe'
<1>1. UNCHANGED <<docs, job, ended, sync>> /\ Settled' = Settled
  BY SettledSame DEF rows
<1> QED BY <1>1 DEF Safe

\* A worker that leaves the handler has nothing to be said of.
LEMMA EscapeSafe ==
    ASSUME SyncInv, NEW w \in Workers, Escape(w), NEW G
    PROVE  /\ SafeRun(pc'[w], mem'[w], G)
           /\ \A v \in Workers \ {w} : pc'[v] = pc[v] /\ mem'[v] = mem[v]
<1>1. mem'[w] = Nothing /\ \A v \in Workers \ {w} : pc'[v] = pc[v] /\ mem'[v] = mem[v]
  BY DEF Escape, Goto, Learn, SyncInv, Handlers
<1> QED BY <1>1 DEF Nothing, SafeRun

\* start_source_sync notes the requested mode in the state of the source and keeps the
\* position, so that INITIAL by name would relabel one of an incremental run.
StartsKeepPositions == \A start \in Starts : start[1] = "api" => start[2] # "INITIAL"

\* Requests keep the positions.
LEMMA SafeApi ==
    ASSUME SyncInv, Safe, StartsKeepPositions, Api
    PROVE  Safe'
<1>1. SafeRow(job, Settled) /\ SafeRow(ended, Settled) /\ SafeState(sync, Settled)
  BY DEF Safe
<1>2. ASSUME NEW start \in Starts, NEW cap \in Caps, NEW dry \in BOOLEAN,
             StartSync(start[1], start[2], cap, dry)
      PROVE  Safe'
  <2>1. /\ job'.checkpoint = NoCheckpoint /\ ended' = ended /\ UNCHANGED <<docs, pc, mem>>
        /\ sync' = sync \/ (start[1] = "api" /\ sync' = [sync EXCEPT !.mode = start[2]])
    BY <1>2 DEF StartSync, NewJob, StateAfterStart
  <2>2. SafeRow(job', Settled)
    BY <2>1 DEF NoCheckpoint, SafeRow
  <2>3. SafeState(sync', Settled)
    <3>1. (sync'.mode = sync.mode /\ sync' = sync) \/ sync'.mode # "INITIAL"
      BY <2>1 DEF StartsKeepPositions, SyncInv, SyncRow
    <3> HIDE DEF Settled
    <3> QED BY <1>1, <3>1 DEF SafeState
  <2> QED BY <1>1, <2>1, <2>2, <2>3, SafeRows
<1>3. ASSUME RetryJob PROVE Safe'
  <2>1. SameRow(job', ended) /\ UNCHANGED <<docs, pc, mem, ended, sync>>
    BY <1>3 DEF RetryJob, NewJob, SameRow
  <2>2. SafeRow(job', Settled)
    BY <1>1, <2>1, RowsSafe
  <2> QED BY <1>1, <2>1, <2>2, SafeRows
<1>4. ASSUME CancelJob PROVE Safe'
  <2>1. /\ UNCHANGED <<docs, pc, mem, sync>>
        /\ SameRow(job', job) /\ (SameRow(ended', ended) \/ SameRow(ended', job))
    <3>1. CASE job.status = "QUEUED"
      BY <1>4, <3>1, ClosedRows DEF CancelJob
    <3>2. CASE job.status # "QUEUED"
      BY <1>4, <3>2 DEF CancelJob, SameRow, SyncInv, JobTyped, JobRow
    <3> QED BY <1>4, <3>1, <3>2 DEF CancelJob
  <2>2. SafeRow(job', Settled) /\ SafeRow(ended', Settled)
    BY <1>1, <2>1, RowsSafe
  <2> QED BY <1>1, <2>1, <2>2, SafeRows
<1> QED BY <1>2, <1>3, <1>4 DEF Api

\* A run begins where the run before it stopped, or with nothing behind it.
LEMMA SafeLoad ==
    ASSUME SyncInv, Base, Safe, NEW w \in Workers, Load(w)
    PROVE  Safe'
<1>1. UNCHANGED rows
  BY DEF Load
<1>2. CASE ~Owner(w)
  <2>1. Escape(w)
    BY <1>2 DEF Load
  <2> QED BY <1>1, <2>1, EscapeSafe, SafeLocal
<1>3. CASE Owner(w)
  <2> DEFINE payload == job.payload
             checkpoint == job.checkpoint
             mode == Resolved(payload.mode)
             position == Position(payload, checkpoint)
             OK(at) == Covered(Created, at.todate, at.page, at.offset, Settled)
  <2>1. payload.mode \in Modes
    BY <1>3, OwnerRuns
  <2>2. Beginning.page \in Nat /\ Beginning.todate # None
    BY <2>1, BeginningTimed
  <2>3. mem'[w].mode = mode /\ mem'[w].dry = payload.dry
        /\ \A v \in Workers \ {w} : pc'[v] = pc[v] /\ mem'[v] = mem[v]
    BY <1>3, LoadFrame
  <2>4. ASSUME mode = "INITIAL", ~payload.dry
        PROVE  OK(Beginning)
    <3>1. CASE position.page > KeylessPages /\ Stored # {}
      <4>1. Beginning.page = 1 /\ Beginning.offset = 0
        BY <2>4, <3>1 DEF Beginning, RolledOver
      <4> QED BY <4>1, NothingBehind
    <3>2. CASE ~(position.page > KeylessPages /\ Stored # {})
      <4>1. Beginning = position
        BY <3>2 DEF Beginning, RolledOver
      <4>2. CASE checkpoint.page # None
        <5>1. checkpoint.mode = "INITIAL"
          <6>1. checkpoint.mode \in Modes /\ Resumable(job, sync.initial)
            BY DEF SyncInv, JobTyped, JobRow, Positions, Base
          <6> QED BY <2>1, <2>4, <4>2, <6>1 DEF Resumable, Resolved, Modes
        <5>2. OK(checkpoint)
          BY <2>4, <5>1 DEF Safe, SafeRow
        <5>3. /\ position.page = checkpoint.page /\ position.offset = checkpoint.offset
              /\ position.todate = checkpoint.todate
          BY <4>2 DEF Position
        <5> QED BY <4>1, <5>2, <5>3
      <4>3. CASE checkpoint.page = None /\ Continues(payload)
        <5>1. sync.todate # None /\ OK(sync)
          BY <2>4, <4>3 DEF Continues, Safe, SafeState
        <5>2. position.page = sync.page /\ position.offset = sync.offset /\ position.todate = sync.todate
          BY <4>3, <5>1 DEF Position
        <5> QED BY <4>1, <5>1, <5>2
      <4>4. CASE checkpoint.page = None /\ ~Continues(payload)
        <5>1. position.page = 1 /\ position.offset = 0
          BY <4>4 DEF Position
        <5> QED BY <4>1, <5>1, NothingBehind
      <4> QED BY <4>2, <4>3, <4>4
    <3> QED BY <3>1, <3>2
  <2>5. SafeRun(pc'[w], mem'[w], Settled)
    <3>1. CASE mode = "INITIAL" /\ ~payload.dry
      <4>1. Run(pc'[w], mem'[w], Created, Settled)
        BY <1>3, <2>2, <2>4, <3>1, LoadRuns
      <4> QED BY <4>1 DEF SafeRun
    <3>2. CASE ~(mode = "INITIAL" /\ ~payload.dry)
      BY <2>3, <3>2 DEF SafeRun
    <3> QED BY <3>1, <3>2
  <2> QED BY <1>1, <2>3, <2>5, SafeLocal
<1> QED BY <1>2, <1>3

\* A request of an initial run has the past of its position settled.
LEMMA SafeFetch ==
    ASSUME SyncInv, Base, Safe, NEW w \in Workers, Fetch(w)
    PROVE  Safe'
<1>1. Framed(pc[w], mem[w])
  BY DEF Base, Steady
<1>2. /\ mem'[w].mode = mem[w].mode /\ mem'[w].dry = mem[w].dry
      /\ UNCHANGED rows
      /\ \A v \in Workers \ {w} : pc'[v] = pc[v] /\ mem'[v] = mem[v]
  BY <1>1, FetchFrame
<1>3. ASSUME mem[w].mode = "INITIAL", ~mem[w].dry
      PROVE  Run(pc'[w], mem'[w], Created, Settled)
  <2>1. Run(pc[w], mem[w], Created, Settled)
    BY <1>3 DEF Safe, SafeRun
  <2>2. Created \in [Questions -> Int] /\ \A q \in Questions : Created[q] \in Nat
    BY SyncAssumption DEF Questions
  <2>3. mem[w].fromdate = 0 /\ mem[w].todate <= now /\ mem[w].todate \in Int /\ now \in Int
    BY <1>3, TimesTyped DEF Base, Steady
  <2>4. \A q \in Questions : /\ Date(Sort(mem[w]), q) = Created[q]
                             /\ Created[q] <= mem[w].todate => Created[q] <= now
    BY <1>3, <2>2, <2>3 DEF Date, Sort
  <2>5. Below(Created, mem[w].fromdate, mem[w].todate, Settled)
    BY <2>2, <2>3 DEF Below
  <2> HIDE DEF Settled
  <2> QED BY <1>1, <2>1, <2>2, <2>4, <2>5, FetchRuns
<1>4. SafeRun(pc'[w], mem'[w], Settled)
  BY <1>2, <1>3 DEF SafeRun
<1> QED BY <1>2, <1>4, SafeLocal

\* Between two requests nothing is left behind.
LEMMA SafeThread ==
    ASSUME SyncInv, Safe, NEW w \in Workers, FetchAnswers(w) \/ NextQuestion(w)
    PROVE  Safe'
<1>1. UNCHANGED rows /\ mem' = mem /\ \A v \in Workers \ {w} : pc'[v] = pc[v]
  BY DEF FetchAnswers, NextQuestion, Goto, SyncInv, Handlers
<1>2. SafeRun(pc[w], mem[w], Settled)
  BY DEF Safe
<1>3. ~mem[w].dry /\ Run(pc[w], mem[w], Created, Settled) => Run(pc'[w], mem'[w], Created, Settled)
  BY ThreadRuns
<1>4. SafeRun(pc'[w], mem'[w], Settled)
  BY <1>1, <1>2, <1>3 DEF SafeRun
<1> QED BY <1>1, <1>4, SafeLocal

\* A question is settled when it was ingested or skipped.
LEMMA SafeIngest ==
    ASSUME SyncInv, Safe, NEW w \in Workers, IngestOne(w)
    PROVE  Safe'
<1> DEFINE m == mem[w]
           question == Head(m.batch)
<1>1. m \in MemRow /\ m.batch # <<>> /\ m.batch \in Seq(Questions \X Times) /\ pc[w] = "ingest"
  BY AtWork DEF IngestOne, MemRow
<1>2. question[1] \in Questions /\ question[2] \in Times /\ question[2] # None
  BY <1>1, SyncAssumption DEF Times, None
<1>3. Stored \subseteq Stored' /\ question[1] \in Stored' \cup Unusable
  BY <1>2 DEF IngestOne, Stored, SyncInv, Tables
<1>4. Settled \subseteq Settled' /\ question[1] \in Settled'
  BY <1>3 DEF Settled
<1>5. /\ mem'[w].mode = m.mode /\ mem'[w].dry = m.dry
      /\ \A v \in Workers \ {w} : pc'[v] = pc[v] /\ mem'[v] = mem[v]
      /\ UNCHANGED <<job, ended, sync>>
  BY <1>1 DEF IngestOne, Learn, Goto, SyncInv, Handlers, MemRow
<1> HIDE DEF Settled
<1>6. Run(pc[w], mem[w], Created, Settled) => Run(pc'[w], mem'[w], Created, Settled')
  BY <1>4, IngestRuns
<1>7. SafeRun(pc'[w], mem'[w], Settled')
  BY <1>5, <1>6 DEF Safe, SafeRun
<1>8. SafeRow(job', Settled') /\ SafeRow(ended', Settled') /\ SafeState(sync', Settled')
  BY <1>4, <1>5 DEF Safe, SafeRow, SafeState, Covered
<1> QED BY <1>3, <1>5, <1>7, <1>8, SafeStep

\* The target or a cap cut no page that the handler turns.
TurnsDonePages ==
    \A w \in Workers : pc[w] = "save" /\ pc'[w] = "fetch" /\ mem[w].mode = "INITIAL" /\ ~mem[w].dry =>
        mem[w].consumed

\* The position that is saved has its past settled.
LEMMA SafeSave ==
    ASSUME SyncInv, Base, Safe, NEW w \in Workers, SaveCheckpoint(w), TurnsDonePages
    PROVE  Safe'
<1>1. docs' = docs /\ Settled' = Settled /\ Stored' = Stored /\ ended' = ended
  BY SettledSame DEF SaveCheckpoint
<1>2. CASE ~Owner(w)
  <2>1. Escape(w) /\ UNCHANGED rows
    BY <1>2 DEF SaveCheckpoint, rows
  <2> QED BY <2>1, EscapeSafe, SafeLocal
<1>3. CASE Owner(w)
  <2> DEFINE m == mem[w]
             checkpoint == Checkpoint(m)
             saved == [m EXCEPT !.batch = <<>>, !.took = 0, !.questions = checkpoint.questions,
                                !.count = IF m.dry THEN m.count ELSE Cardinality(Stored),
                                !.offset = checkpoint.offset, !.complete = ~m.lastMore]
  <2>1. m \in MemRow /\ pc[w] = "save"
    BY AtWork DEF SaveCheckpoint
  <2>2. /\ checkpoint.mode = m.mode /\ checkpoint.todate = m.todate
        /\ job'.checkpoint = checkpoint /\ job'.payload = job.payload
    BY <1>3 DEF SaveCheckpoint, Checkpoint, SyncInv, JobTyped, JobRow
  <2>3. \/ m.dry /\ sync' = sync
        \/ /\ ~m.dry
           /\ sync'.mode = m.mode /\ sync'.todate = m.todate
           /\ sync'.page = checkpoint.page /\ sync'.offset = checkpoint.offset
    BY <1>3 DEF SaveCheckpoint, Progressed, SyncInv, SyncRow
  <2>4. /\ mem'[w].mode = m.mode /\ mem'[w].dry = m.dry
        /\ \A v \in Workers \ {w} : pc'[v] = pc[v] /\ mem'[v] = mem[v]
    <3>1. /\ mem'[w] = saved \/ mem'[w] = [saved EXCEPT !.page = saved.page + 1]
          /\ \A v \in Workers \ {w} : pc'[v] = pc[v] /\ mem'[v] = mem[v]
      BY <1>3 DEF SaveCheckpoint, Learn, Goto, SyncInv, Handlers
    <3>2. /\ saved.mode = m.mode /\ saved.dry = m.dry
          /\ [saved EXCEPT !.page = saved.page + 1].mode = m.mode
          /\ [saved EXCEPT !.page = saved.page + 1].dry = m.dry
      BY <2>1 DEF MemRow
    <3> QED BY <3>1, <3>2
  <2>5. m.todate # None /\ m.dry = job.payload.dry /\ Framed(pc[w], m)
    BY <1>3, <2>1 DEF Base, Steady, Framed, Serves
  <2> HIDE DEF checkpoint, Settled
  <2>6. ASSUME m.mode = "INITIAL", ~m.dry
        PROVE  /\ Run(pc'[w], mem'[w], Created, Settled)
               /\ Covered(Created, m.todate, checkpoint.page, checkpoint.offset, Settled)
    <3>1. Run(pc[w], m, Created, Settled)
      BY <2>6 DEF Safe, SafeRun
    <3>2. pc'[w] = "fetch" => m.consumed
      BY <2>1, <2>6 DEF TurnsDonePages
    <3> QED BY <1>3, <2>5, <3>1, <3>2, SaveRuns DEF checkpoint
  <2>7. SafeRun(pc'[w], mem'[w], Settled)
    BY <2>4, <2>6 DEF SafeRun
  <2>8. SafeRow(job', Settled)
    BY <2>2, <2>5, <2>6 DEF SafeRow
  <2>9. SafeState(sync', Settled)
    <3>1. CASE m.dry /\ sync' = sync
      BY <3>1 DEF Safe
    <3>2. CASE ~m.dry /\ sync'.mode = m.mode /\ sync'.todate = m.todate
               /\ sync'.page = checkpoint.page /\ sync'.offset = checkpoint.offset
      BY <2>5, <2>6, <3>2 DEF SafeState
    <3> QED BY <2>3, <3>1, <3>2
  <2> QED BY <1>1, <2>4, <2>7, <2>8, <2>9, SafeStep DEF Safe
<1> QED BY <1>2, <1>3

\* However a run ends, the positions stay safe.
LEMMA SafeEnds ==
    ASSUME SyncInv, Safe, NEW w \in Workers,
           Stopped(w) \/ Lost(w) \/ RequestFails(w) \/ PageRefused(w) \/ Finish(w) \/ Crash(w)
           \/ LoseLease(w)
    PROVE  Safe'
<1>1. SafeRow(job, Settled) /\ SafeRow(ended, Settled) /\ SafeState(sync, Settled)
  BY DEF Safe
<1>2. CASE Lost(w)
  <2>1. Escape(w) /\ UNCHANGED rows
    BY <1>2 DEF Lost
  <2> QED BY <2>1, EscapeSafe, SafeLocal
<1>3. CASE PageRefused(w) \/ RequestFails(w) \/ Stopped(w)
  <2>1. PICK code : Ends(w, code) /\ UNCHANGED rows
    BY <1>3 DEF PageRefused, RequestFails, Stopped
  <2>2. pc[w] \in {"fetch", "answers", "next", "ingest", "save"}
    BY <1>3 DEF PageRefused, RequestFails, Stopped
  <2>3. /\ mem'[w].mode = mem[w].mode /\ mem'[w].dry = mem[w].dry
        /\ \A v \in Workers \ {w} : pc'[v] = pc[v] /\ mem'[v] = mem[v]
    BY <2>1, AtWork DEF Ends, Learn, Goto, SyncInv, Handlers, MemRow
  <2>4. Run(pc[w], mem[w], Created, Settled) => Run(pc'[w], mem'[w], Created, Settled)
    BY <2>1, <2>2, EndsRuns
  <2>5. SafeRun(pc'[w], mem'[w], Settled)
    BY <2>3, <2>4 DEF Safe, SafeRun
  <2> QED BY <2>1, <2>3, <2>5, SafeLocal
<1>4. CASE Finish(w) \/ Crash(w)
  <2>1. Escape(w) /\ docs' = docs
    BY <1>4 DEF Finish, Crash
  <2>2. /\ SameRow(job', job)
        /\ (SameRow(ended', ended) \/ SameRow(ended', job))
        /\ sync' = sync \/ sync' = Completed(mem[w])
    <3>1. CASE ~Owner(w)
      BY <1>4, <3>1 DEF Finish, Crash, SameRow
    <3>2. CASE Owner(w) /\ Finish(w)
      <4>1. PICK status : /\ job' = Closed(status) /\ ended' = Remembered(status)
                          /\ sync' = IF status = "COMPLETED" THEN Completed(mem[w]) ELSE sync
        BY <3>2 DEF Finish
      <4> QED BY <4>1, ClosedRows
    <3>3. CASE Owner(w) /\ Crash(w)
      <4>1. \E status : Recovered = Closed(status)
        BY DEF Recovered
      <4>2. PICK status, other : job' = Closed(status) /\ ended' = Remembered(other) /\ sync' = sync
        BY <3>3, <4>1 DEF Crash
      <4> QED BY <4>2, RecoveredRows
    <3> QED BY <1>4, <3>1, <3>2, <3>3
  <2>3. SafeRow(job', Settled) /\ SafeRow(ended', Settled)
    BY <1>1, <2>2, RowsSafe
  <2>4. SafeState(sync', Settled)
    <3>1. sync' = sync \/ sync'.mode = "NONE"
      BY <2>2 DEF Completed, SyncInv, SyncRow
    <3> QED BY <1>1, <3>1 DEF SafeState
  <2>5. SafeRun(pc'[w], mem'[w], Settled) /\ \A v \in Workers \ {w} : pc'[v] = pc[v] /\ mem'[v] = mem[v]
    BY <2>1, EscapeSafe
  <2>6. Settled' = Settled /\ Stored' = Stored
    BY <2>1, SettledSame
  <2> QED BY <2>3, <2>4, <2>5, <2>6, SafeStep
<1>5. CASE LoseLease(w)
  <2>1. \E status : Recovered = Closed(status)
    BY DEF Recovered
  <2>2. PICK status, other : job' = Closed(status) /\ ended' = Remembered(other)
    BY <1>5, <2>1 DEF LoseLease
  <2>3. SameRow(job', job) /\ (SameRow(ended', ended) \/ SameRow(ended', job))
    BY <2>2, RecoveredRows
  <2>4. UNCHANGED <<docs, sync, pc, mem>>
    BY <1>5 DEF LoseLease
  <2>5. SafeRow(job', Settled) /\ SafeRow(ended', Settled)
    BY <1>1, <2>3, RowsSafe
  <2> QED BY <1>1, <2>4, <2>5, SafeRows
<1> QED BY <1>2, <1>3, <1>4, <1>5

\* Every step that turns only pages it is done with keeps the positions safe.
LEMMA SafeNext ==
    ASSUME StartsKeepPositions
    PROVE  SyncInv /\ Base /\ Safe /\ [Next]_vars /\ (TurnsDonePages \/ UNCHANGED vars) => Safe'
<1> SUFFICES ASSUME SyncInv, Base, Safe, [Next]_vars, TurnsDonePages \/ UNCHANGED vars PROVE Safe'
  OBVIOUS
<1>1. CASE UNCHANGED vars
  BY <1>1, SafeRows DEF vars, rows, Safe
<1>2. CASE Next /\ TurnsDonePages
  <2>1. ASSUME NEW w \in Workers, Claim(w) PROVE Safe'
    <3>1. /\ SameRow(job', job) /\ mem'[w].mode = "AUTO" /\ docs' = docs
          /\ UNCHANGED <<ended, sync>>
          /\ \A v \in Workers \ {w} : pc'[v] = pc[v] /\ mem'[v] = mem[v]
      BY <2>1 DEF Claim, Goto, Learn, SyncInv, JobTyped, JobRow, Handlers, SameRow, Nothing
    <3>2. Settled' = Settled /\ Stored' = Stored /\ SafeRow(job', Settled)
      BY <3>1, SettledSame, RowsSafe DEF Safe
    <3>3. SafeRun(pc'[w], mem'[w], Settled)
      BY <3>1 DEF SafeRun
    <3> QED BY <3>1, <3>2, <3>3, SafeStep DEF Safe
  <2>2. ASSUME NEW w \in Workers, Handler(w) \/ Faults(w) PROVE Safe'
    BY <1>2, <2>1, <2>2, SafeLoad, SafeFetch, SafeThread, SafeIngest, SafeSave, SafeEnds
       DEF Handler, Faults
  <2>3. ASSUME (\E q \in Questions : SiteActivity(q)) \/ Tick PROVE Safe'
    BY <2>3, SafeRows DEF SiteActivity, Tick, rows, Safe
  <2> QED BY <1>2, <2>2, <2>3, SafeApi DEF Next
<1> QED BY <1>1, <1>2

\* What a position of an initial run has visited are the first questions of its window.
LEMMA VisitedFirst ==
    ASSUME SyncInv, NEW todate \in Int, todate <= now, NEW page \in Nat \ {0}, NEW offset \in Nat
    PROVE  Visited(Listing("creation", 0, todate), page, offset)
              \subseteq First(Created, todate, (page - 1) * PageSize + offset)
<1> DEFINE s == Listing("creation", 0, todate)
           S == Window("creation", 0, todate)
           N == (page - 1) * PageSize + offset
<1>1. Created \in [Questions -> Int] /\ now \in Int /\ \A q \in Questions : Created[q] \in Nat
  BY TimesTyped, SyncAssumption DEF Questions
<1>2. \A q \in Questions : Date("creation", q) = Created[q] /\ (Created[q] <= todate => Created[q] <= now)
  BY <1>1 DEF Date
<1>3. Placed(s, Created, 0, todate)
  <2> DEFINE sort == "creation"
  <2>1. \A q \in Questions : Date(sort, q) = Created[q] /\ (Created[q] <= todate => Created[q] <= now)
    BY <1>2
  <2> HIDE DEF sort
  <2>2. Placed(Listing(sort, 0, todate), Created, 0, todate)
    BY <1>1, <2>1, ListingPlaced
  <2> QED BY <2>2 DEF sort
<1>4. Sorted("creation", S, s)
  BY AllDated, ListingSorted DEF SyncInv
<1>5. S \subseteq Questions /\ Cardinality(S) \in Nat
  BY WindowFinite
<1>6. \A q \in S : Created[q] <= todate
  BY <1>2, <1>5 DEF Window
<1>7. N \in Nat
  BY NextPage
<1> HIDE DEF s, N, S
<1>8. s \in [1 .. Cardinality(S) -> S] /\ Len(s) = Cardinality(S)
      /\ \A i \in 1 .. Cardinality(S) : Rank("creation", S, s[i]) = i
  BY <1>4, <1>5 DEF Sorted
<1>9. ASSUME NEW n \in 1 .. Least(N, Len(s))
      PROVE  s[n] \in First(Created, todate, N)
  <2>1. n \in 1 .. Len(s) /\ n <= N /\ n \in Nat
    BY <1>5, <1>7, <1>8 DEF Least
  <2> DEFINE q == s[n]
             i == Cardinality(Before(Created, todate, q)) + 1
  <2>2. q \in S /\ q \in Questions /\ Created[q] <= todate /\ 0 <= Created[q]
    BY <1>1, <1>5, <1>6, <1>8, <2>1
  <2>3. i \in 1 .. Len(s) /\ s[i] = q
    BY <1>3, <2>2 DEF Placed
  <2>4. i = n
    BY <1>8, <2>1, <2>3
  <2>5. Cardinality(Before(Created, todate, q)) \in Nat
    BY BeforeCounted
  <2>6. Cardinality(Before(Created, todate, q)) < N
    BY <1>7, <2>1, <2>4, <2>5
  <2> QED BY <2>2, <2>6 DEF First
<1> QED BY <1>9 DEF Visited, s, N

\* The code behind these two: _save_checkpoint, _start_page, _item_offset, _fixed_todate.
LEMMA SafeMeans == SyncInv /\ Base /\ Safe => CheckpointSafe
<1> SUFFICES ASSUME SyncInv, Base, Safe PROVE CheckpointSafe
  OBVIOUS
<1>1. ASSUME job.checkpoint.mode = "INITIAL", ~job.payload.dry
      PROVE  Visited(Listing("creation", 0, job.checkpoint.todate), job.checkpoint.page, job.checkpoint.offset)
                \subseteq Settled
  <2>1. /\ job.checkpoint.page \in Nat \ {0} /\ job.checkpoint.offset \in Nat
        /\ job.checkpoint.todate \in Int /\ job.checkpoint.todate <= now
    <3>1. job.checkpoint.page # None
      BY <1>1 DEF Base, Resumable
    <3> QED BY <3>1, TimesTyped DEF SyncInv, JobTyped, JobRow, Positions, Base, Timed
  <2>2. Covered(Created, job.checkpoint.todate, job.checkpoint.page, job.checkpoint.offset, Settled)
    BY <1>1 DEF Safe, SafeRow
  <2> QED BY <2>1, <2>2, VisitedFirst DEF Covered
<1>2. ASSUME sync.mode = "INITIAL"
      PROVE  Visited(Listing("creation", 0, sync.todate), sync.page, sync.offset) \subseteq Settled
  <2>1. sync.page \in Nat \ {0} /\ sync.offset \in Nat /\ sync.todate \in Int /\ sync.todate <= now
    BY TimesTyped DEF SyncInv, SyncRow, Base, Timed
  <2>2. Covered(Created, sync.todate, sync.page, sync.offset, Settled)
    BY <1>2 DEF Safe, SafeState
  <2> QED BY <2>1, <2>2, VisitedFirst DEF Covered
<1> QED BY <1>1, <1>2 DEF CheckpointSafe, Settled

\* While the target is more than a page away, max_documents alone cuts a page, and the
\* run ends with it.
TargetFar == Target >= Len(Created) + PageSize

LEMMA CutEnds ==
    ASSUME SyncInv, NEW w \in Workers, SaveCheckpoint(w), pc'[w] = "fetch",
           TargetFar \/ mem[w].mode # "INITIAL",
           NEW date, NEW G, Run(pc[w], mem[w], date, G), ~mem[w].dry
    PROVE  mem[w].consumed
<1> DEFINE m == mem[w]
           saved == [m EXCEPT !.batch = <<>>, !.took = 0, !.questions = Checkpoint(m).questions,
                              !.count = IF m.dry THEN m.count ELSE Cardinality(Stored),
                              !.offset = Checkpoint(m).offset, !.complete = ~m.lastMore]
<1>1. m \in MemRow /\ pc[w] = "save"
  BY AtWork DEF SaveCheckpoint
<1>2. Remaining(saved) # 0
  BY DEF SaveCheckpoint, Escape, Learn, Goto, SyncInv, Handlers
<1>3. /\ saved.mode = m.mode /\ saved.cap = m.cap /\ saved.questions = m.questions + m.took
      /\ saved.count = Cardinality(Stored)
  BY <1>1 DEF MemRow, Checkpoint
<1> HIDE DEF saved
<1>4. ~m.consumed => m.took = Remaining(m) /\ m.offset + m.took < PageSize
  BY <1>1 DEF Run, InPage
<1>5. /\ m.took \in Nat /\ m.offset \in Nat /\ m.cap \in Nat /\ m.questions \in Nat
      /\ m.count \in 0 .. Len(Created) /\ Len(Created) \in Nat /\ PageSize \in Nat \ {0}
      /\ Target \in Nat
  <2>1. Len(Created) \in Nat /\ PageSize \in Nat \ {0} /\ Target \in Nat
    BY SyncAssumption
  <2> QED BY <1>1, <2>1 DEF MemRow
<1> HIDE DEF m
<1>6. ASSUME ~m.consumed PROVE FALSE
  <2>1. m.took < PageSize
    BY <1>4, <1>5, <1>6
  <2>2. m.mode # "INITIAL" \/ Target - m.count >= PageSize
    BY <1>5 DEF TargetFar, m
  <2>3. m.took = Remaining(m)
    BY <1>4, <1>6
  <2>4. m.took >= m.cap - m.questions
    BY <1>5, <2>1, <2>2, <2>3 DEF Remaining, Least
  <2>5. saved.cap - saved.questions <= 0
    BY <1>3, <1>5, <2>4
  <2>6. Cardinality(Stored) \in 0 .. Len(Created)
    BY StoredCounted
  <2>7. Remaining(saved) = 0
    BY <1>3, <1>5, <2>5, <2>6 DEF Remaining, Least
  <2> QED BY <1>2, <2>7
<1> QED BY <1>6 DEF m

\* Only the handler that saves turns a page from there.
LEMMA TurnsSave ==
    ASSUME SyncInv, NEW w \in Workers, pc[w] = "save", pc'[w] = "fetch", [Next]_vars
    PROVE  SaveCheckpoint(w)
<1>1. pc \in [Workers -> Places]
  BY DEF SyncInv, Handlers
<1>2. PICK v \in Workers : Handler(v) \/ Crash(v)
  BY DEF Next, Api, StartSync, RetryJob, CancelJob, SiteActivity, Tick, vars, Faults, LoseLease
<1>3. v = w
  <2>1. \E place : Goto(v, place) \/ UNCHANGED pc
    BY <1>2 DEF Handler, Crash, Claim, Load, Fetch, FetchAnswers, NextQuestion, IngestOne,
                SaveCheckpoint, Stopped, Lost, RequestFails, PageRefused, Finish, Escape, Ends
  <2> QED BY <1>1, <2>1 DEF Goto
<1>4. ~Crash(w) /\ ~Finish(w) /\ ~RequestFails(w)
  BY <1>1 DEF Crash, Finish, RequestFails, Escape, Ends, Goto
<1> QED BY <1>2, <1>3, <1>4 DEF Handler, Claim, Load, Fetch, FetchAnswers, NextQuestion, IngestOne,
                                 Stopped, Lost, PageRefused

LEMMA TurnsFar ==
    ASSUME TargetFar
    PROVE  SyncInv /\ Safe /\ [Next]_vars => TurnsDonePages
<1> SUFFICES ASSUME SyncInv, Safe, [Next]_vars, NEW w \in Workers, pc[w] = "save", pc'[w] = "fetch",
                    mem[w].mode = "INITIAL", ~mem[w].dry
             PROVE  mem[w].consumed
  BY DEF TurnsDonePages
<1>1. SaveCheckpoint(w)
  BY TurnsSave
<1>2. Run(pc[w], mem[w], Created, Settled)
  BY DEF Safe, SafeRun
<1> QED BY <1>1, <1>2, CutEnds

\* What an initial position of the job or of the source has behind it was stored, or can
\* never be: for any site, page size, caps, target, number of workers, crashes, retries
\* and requests, as long as the target cuts no page that is turned and the API is not
\* asked to go on from a position of the other mode.
THEOREM CheckpointSafeCorrect ==
    ASSUME StartsKeepPositions
    PROVE  Spec /\ [][TurnsDonePages]_vars => []CheckpointSafe
<1> DEFINE Inv == SyncInv /\ Base /\ Safe
<1>1. Init => Inv
  <2>1. Init => Safe
    BY DEF Init, Safe, SafeRow, SafeState, SafeRun, NoCheckpoint, Nothing
  <2> QED BY <2>1, InitTyped, BaseInit
<1>2. Inv /\ [Next]_vars /\ [TurnsDonePages]_vars => Inv'
  BY NextTyped, BaseNext, SafeNext
<1>3. Inv => CheckpointSafe
  BY SafeMeans
<1> HIDE DEF Inv
<1> QED BY <1>1, <1>2, <1>3, PTL DEF Spec

\* The same with no word of the steps, for a source whose target is out of reach.
THEOREM CheckpointSafeFar ==
    ASSUME StartsKeepPositions, TargetFar
    PROVE  Spec => []CheckpointSafe
<1> DEFINE Inv == SyncInv /\ Base /\ Safe
<1>1. Init => Inv
  <2>1. Init => Safe
    BY DEF Init, Safe, SafeRow, SafeState, SafeRun, NoCheckpoint, Nothing
  <2> QED BY <2>1, InitTyped, BaseInit
<1>2. Inv /\ [Next]_vars => Inv'
  BY NextTyped, BaseNext, SafeNext, TurnsFar
<1>3. Inv => CheckpointSafe
  BY SafeMeans
<1> HIDE DEF Inv
<1> QED BY <1>1, <1>2, <1>3, PTL DEF Spec

\* docs/worker-architecture.md:53 and docs/stage5-ingestion.md:15, where they hold: while
\* the target is more than a page away, a capped initial run does not skip the rest of a
\* page it has fetched.
THEOREM CappedRunKeepsPages ==
    ASSUME StartsKeepPositions, TargetFar
    PROVE  Spec => CappedRunSkipsNothing
<1> DEFINE Inv == SyncInv /\ Base /\ Safe
           Turn == \A w \in Workers :
                      pc[w] = "save" /\ pc'[w] = "fetch" /\ mem[w].mode = "INITIAL" /\ ~mem[w].dry =>
                          Visited(Listing("creation", 0, mem[w].todate), mem'[w].page, mem'[w].offset)
                              \subseteq Stored \cup Unusable
<1>1. Init => Inv
  <2>1. Init => Safe
    BY DEF Init, Safe, SafeRow, SafeState, SafeRun, NoCheckpoint, Nothing
  <2> QED BY <2>1, InitTyped, BaseInit
<1>2. Inv /\ [Next]_vars => Inv'
  BY NextTyped, BaseNext, SafeNext, TurnsFar
<1>3. Inv /\ [Next]_vars => Turn
  <2> SUFFICES ASSUME SyncInv, Base, Safe, [Next]_vars, NEW w \in Workers, pc[w] = "save",
                      pc'[w] = "fetch", mem[w].mode = "INITIAL", ~mem[w].dry
               PROVE  Visited(Listing("creation", 0, mem[w].todate), mem'[w].page, mem'[w].offset)
                         \subseteq Settled
    BY DEF Settled
  <2>1. SaveCheckpoint(w) /\ Run(pc[w], mem[w], Created, Settled)
    BY TurnsSave DEF Safe, SafeRun
  <2>2. mem[w].consumed
    BY <2>1, CutEnds
  <2>3. Owner(w) /\ Framed(pc[w], mem[w]) /\ mem[w] \in MemRow /\ mem[w].page \in Nat \ {0}
        /\ mem[w].todate \in Int /\ mem[w].todate <= now
    BY <2>1, AtWork, TimesTyped DEF SaveCheckpoint, Escape, Goto, SyncInv, Handlers, Base, Steady, AtPage
  <2>4. Covered(Created, mem[w].todate, Checkpoint(mem[w]).page, Checkpoint(mem[w]).offset, Settled)
    BY <2>1, <2>2, <2>3, SaveRuns
  <2>5. /\ Checkpoint(mem[w]).page = mem[w].page + 1 /\ Checkpoint(mem[w]).offset = 0
        /\ mem'[w].page = mem[w].page + 1 /\ mem'[w].offset = 0
    <3> DEFINE m == mem[w]
               saved == [m EXCEPT !.batch = <<>>, !.took = 0, !.questions = Checkpoint(m).questions,
                                  !.count = IF m.dry THEN m.count ELSE Cardinality(Stored),
                                  !.offset = Checkpoint(m).offset, !.complete = ~m.lastMore]
    <3>1. mem'[w] = [saved EXCEPT !.page = saved.page + 1]
      BY <2>1, <2>3 DEF SaveCheckpoint, Learn, Goto, SyncInv, Handlers
    <3>2. Checkpoint(m).page = m.page + 1 /\ Checkpoint(m).offset = 0
      BY <2>2 DEF Checkpoint
    <3>3. saved.page = m.page /\ saved.offset = 0 /\ [saved EXCEPT !.page = saved.page + 1].page = m.page + 1
          /\ [saved EXCEPT !.page = saved.page + 1].offset = 0
      BY <2>3, <3>2 DEF MemRow
    <3> QED BY <3>1, <3>2, <3>3
  <2>6. mem[w].page + 1 \in Nat \ {0} /\ 0 \in Nat
    BY <2>3
  <2> QED BY <2>3, <2>4, <2>5, <2>6, VisitedFirst DEF Covered
<1> HIDE DEF Inv, Turn
<1>4. Spec => [][Turn]_vars
  BY <1>1, <1>2, <1>3, PTL DEF Spec
<1> QED BY <1>4 DEF CappedRunSkipsNothing, Turn

-----------------------------------------------------------------------------
(* What the steps do to the rows and the runs.                             *)

Others(w) == \A v \in Workers \ {w} : pc'[v] = pc[v] /\ mem'[v] = mem[v]

\* Requests.
LEMMA ApiFrame ==
    ASSUME SyncInv, Api
    PROVE  /\ UNCHANGED <<now, activity, docs, pc, mem>>
           /\ job'.owner = NoWorker \/ job'.owner = job.owner
           /\ \/ /\ job'.checkpoint = NoCheckpoint /\ ended' = ended
                 /\ sync' = sync \/ \E start \in Starts : /\ start[1] = "api"
                                                          /\ sync' = [sync EXCEPT !.mode = start[2]]
              \/ SameRow(job', ended) /\ ended' = ended /\ sync' = sync
              \/ /\ SameRow(job', job) /\ (SameRow(ended', ended) \/ SameRow(ended', job))
                 /\ sync' = sync /\ Active
<1>1. ASSUME NEW start \in Starts, NEW cap \in Caps, NEW dry \in BOOLEAN,
             StartSync(start[1], start[2], cap, dry)
      PROVE  /\ job'.checkpoint = NoCheckpoint /\ job'.owner = NoWorker /\ ended' = ended
             /\ UNCHANGED <<now, activity, docs, pc, mem>>
             /\ sync' = sync \/ (start[1] = "api" /\ sync' = [sync EXCEPT !.mode = start[2]])
  BY <1>1 DEF StartSync, NewJob, StateAfterStart, site
<1>2. ASSUME RetryJob
      PROVE  /\ SameRow(job', ended) /\ job'.owner = NoWorker /\ ended' = ended
             /\ UNCHANGED <<now, activity, docs, pc, mem, sync>>
  BY <1>2 DEF RetryJob, NewJob, SameRow, site
<1>3. ASSUME CancelJob
      PROVE  /\ UNCHANGED <<now, activity, docs, pc, mem, sync>> /\ Active
             /\ SameRow(job', job) /\ (SameRow(ended', ended) \/ SameRow(ended', job))
             /\ job'.owner = NoWorker \/ job'.owner = job.owner
  <2>1. CASE job.status = "QUEUED"
    BY <1>3, <2>1, ClosedRows DEF CancelJob, site
  <2>2. CASE job.status # "QUEUED"
    BY <1>3, <2>2 DEF CancelJob, SameRow, SyncInv, JobTyped, JobRow, site
  <2> QED BY <2>1, <2>2
<1> QED BY <1>1, <1>2, <1>3 DEF Api

\* A claim.
LEMMA ClaimFrame ==
    ASSUME SyncInv, NEW w \in Workers, Claim(w)
    PROVE  /\ SameRow(job', job) /\ job'.owner = w
           /\ pc'[w] = "load" /\ mem'[w].mode = "AUTO" /\ mem'[w].batch = <<>> /\ mem'[w].dry = FALSE
           /\ Others(w) /\ UNCHANGED <<now, activity, docs, ended, sync>>
  BY DEF Claim, Goto, Learn, SyncInv, JobTyped, JobRow, Handlers, SameRow, Nothing, Others, site

\* What stays of a run while it goes on.
SameRun(m, n) ==
    /\ m.mode = n.mode /\ m.dry = n.dry /\ m.todate = n.todate /\ m.fromdate = n.fromdate
    /\ m.count = n.count

\* The end of a transaction that ingests a thread.
LEMMA IngestFrame ==
    ASSUME SyncInv, NEW w \in Workers, IngestOne(w)
    PROVE  LET m == mem[w]
               question == m.batch[1]
           IN /\ m.batch \in Seq(Questions \X Times) /\ Len(m.batch) \in Nat \ {0}
              /\ question \in Questions \X Times
              /\ mem'[w].batch = Tail(m.batch) /\ SameRun(mem'[w], m)
              /\ pc[w] = "ingest" /\ pc'[w] \in {"next", "save"}
              /\ docs' = IF question[1] \in Unusable THEN docs
                         ELSE [docs EXCEPT ![question[1]] = question[2]]
              /\ Others(w) /\ UNCHANGED <<now, activity, job, ended, sync>>
<1> DEFINE m == mem[w]
<1>1. m \in MemRow /\ m.batch # <<>> /\ m.batch \in Seq(Questions \X Times) /\ pc[w] = "ingest"
  BY AtWork DEF IngestOne, MemRow
<1>2. Head(m.batch) = m.batch[1] /\ Len(m.batch) \in Nat \ {0} /\ m.batch[1] \in Questions \X Times
  BY <1>1
<1>3. mem'[w] = [m EXCEPT !.batch = Tail(m.batch)] /\ pc'[w] \in {"next", "save"} /\ Others(w)
  BY DEF IngestOne, Learn, Goto, SyncInv, Handlers, Others
<1>4. mem'[w].batch = Tail(m.batch) /\ SameRun(mem'[w], m)
  BY <1>1, <1>3 DEF MemRow, SameRun
<1> QED BY <1>1, <1>2, <1>3, <1>4 DEF IngestOne, site

\* The owner saves its progress.
LEMMA SaveFrame ==
    ASSUME SyncInv, NEW w \in Workers, SaveCheckpoint(w), Owner(w)
    PROVE  LET m == mem[w]
               checkpoint == Checkpoint(m)
           IN /\ checkpoint.mode = m.mode /\ checkpoint.todate = m.todate
              /\ job'.checkpoint = checkpoint /\ job'.payload = job.payload /\ job'.owner = w
              /\ sync' = IF m.dry THEN sync ELSE Progressed(m, checkpoint)
              /\ mem'[w].mode = m.mode /\ mem'[w].dry = m.dry /\ mem'[w].todate = m.todate
              /\ mem'[w].fromdate = m.fromdate /\ mem'[w].batch = <<>>
              /\ mem'[w].count = IF m.dry THEN m.count ELSE Cardinality(Stored)
              /\ pc[w] = "save" /\ pc'[w] \in {"fetch", "finish"}
              /\ Others(w) /\ UNCHANGED <<now, activity, docs, ended>>
<1> DEFINE m == mem[w]
           checkpoint == Checkpoint(m)
           saved == [m EXCEPT !.batch = <<>>, !.took = 0, !.questions = checkpoint.questions,
                              !.count = IF m.dry THEN m.count ELSE Cardinality(Stored),
                              !.offset = checkpoint.offset, !.complete = ~m.lastMore]
           turned == [saved EXCEPT !.page = saved.page + 1]
<1>1. m \in MemRow /\ pc[w] = "save"
  BY AtWork DEF SaveCheckpoint
<1>2. checkpoint.mode = m.mode /\ checkpoint.todate = m.todate
  BY DEF Checkpoint
<1>3. job' = [job EXCEPT !.checkpoint = checkpoint] /\ UNCHANGED <<now, activity, docs, ended>>
      /\ sync' = IF m.dry THEN sync ELSE Progressed(m, checkpoint)
  BY DEF SaveCheckpoint, site
<1>4. (mem'[w] = saved \/ mem'[w] = turned) /\ pc'[w] \in {"fetch", "finish"} /\ Others(w)
  BY DEF SaveCheckpoint, Learn, Goto, SyncInv, Handlers, Others
<1>5. /\ saved.mode = m.mode /\ saved.dry = m.dry /\ saved.todate = m.todate
      /\ saved.fromdate = m.fromdate /\ saved.batch = <<>>
      /\ saved.count = IF m.dry THEN m.count ELSE Cardinality(Stored)
      /\ turned.mode = m.mode /\ turned.dry = m.dry /\ turned.todate = m.todate
      /\ turned.fromdate = m.fromdate /\ turned.batch = <<>>
      /\ turned.count = IF m.dry THEN m.count ELSE Cardinality(Stored)
  BY <1>1 DEF MemRow
<1>6. job'.checkpoint = checkpoint /\ job'.payload = job.payload /\ job'.owner = w
  BY <1>3 DEF SyncInv, JobTyped, JobRow, Owner
<1> HIDE DEF checkpoint, saved, turned
<1> QED BY <1>1, <1>2, <1>3, <1>4, <1>5, <1>6 DEF checkpoint

\* A run that ends, or a worker that loses its job.
EndStep(w) ==
    \/ Stopped(w) \/ Lost(w) \/ RequestFails(w) \/ PageRefused(w) \/ Finish(w) \/ Crash(w)
    \/ LoseLease(w)

\* It goes to its end, or it is out of the handler or of the job.
CutShort(w) ==
    /\ job' = job /\ sync' = sync
    /\ pc[w] \in {"fetch", "answers", "next", "ingest", "save"} /\ pc'[w] = "finish"
    /\ SameRun(mem'[w], mem[w]) /\ mem'[w].batch = mem[w].batch
    /\ \E code : Ends(w, code)

Leaves(w) ==
    /\ job'.owner = NoWorker \/ (job' = job /\ job.owner # w)
    /\ sync' = sync \/ (pc[w] = "finish" /\ job.owner = w /\ sync' = Completed(mem[w]))
    /\ \/ pc'[w] = "idle" /\ mem'[w] = Nothing
       \/ pc'[w] = pc[w] /\ mem'[w] = mem[w] /\ sync' = sync

RowsFollow ==
    /\ UNCHANGED <<now, activity, docs>>
    /\ SameRow(job', job) /\ (SameRow(ended', ended) \/ SameRow(ended', job))

\* Each of these steps is one or the other.
LEMMA EndsFrame ==
    ASSUME SyncInv, NEW w \in Workers, EndStep(w)
    PROVE  RowsFollow /\ Others(w) /\ (CutShort(w) \/ Leaves(w))
<1>0. SameRow(job, job) /\ SameRow(ended, ended)
  BY DEF SameRow
<1>1. CASE Lost(w)
  <2>1. UNCHANGED <<now, activity, docs, job, ended, sync>> /\ job.owner # w
    BY <1>1 DEF Lost, site, rows, Owner
  <2>2. pc'[w] = "idle" /\ mem'[w] = Nothing /\ Others(w)
    BY <1>1 DEF Lost, Escape, Goto, Learn, SyncInv, Handlers, Others
  <2>3. RowsFollow
    BY <1>0, <2>1 DEF RowsFollow
  <2> QED BY <2>1, <2>2, <2>3 DEF Leaves
<1>2. CASE PageRefused(w) \/ RequestFails(w) \/ Stopped(w)
  <2>1. PICK code : Ends(w, code)
    BY <1>2 DEF PageRefused, RequestFails, Stopped
  <2>2. /\ UNCHANGED <<now, activity, docs, job, ended, sync>>
        /\ pc[w] \in {"fetch", "answers", "next", "ingest", "save"}
    BY <1>2 DEF PageRefused, RequestFails, Stopped, site, rows
  <2>3. mem'[w] = [mem[w] EXCEPT !.code = code] /\ pc'[w] = "finish" /\ Others(w)
    BY <2>1 DEF Ends, Learn, Goto, SyncInv, Handlers, Others
  <2>4. mem[w] \in MemRow
    BY AtWork
  <2>5. SameRun(mem'[w], mem[w]) /\ mem'[w].batch = mem[w].batch
    BY <2>3, <2>4 DEF MemRow, SameRun
  <2>6. RowsFollow
    BY <1>0, <2>2 DEF RowsFollow
  <2> QED BY <2>1, <2>2, <2>3, <2>5, <2>6 DEF CutShort
<1>3. CASE Finish(w) \/ Crash(w)
  <2>1. /\ UNCHANGED <<now, activity, docs>> /\ pc'[w] = "idle" /\ mem'[w] = Nothing /\ Others(w)
    BY <1>3 DEF Finish, Crash, Escape, Goto, Learn, SyncInv, Handlers, Others, site
  <2>2. CASE ~Owner(w)
    <3>1. UNCHANGED <<job, ended, sync>> /\ job.owner # w
      BY <1>3, <2>2 DEF Finish, Crash, Owner
    <3>2. RowsFollow
      BY <1>0, <2>1, <3>1 DEF RowsFollow
    <3> QED BY <2>1, <3>1, <3>2 DEF Leaves
  <2>3. CASE Owner(w) /\ Finish(w)
    <3>1. PICK status : /\ job' = Closed(status) /\ ended' = Remembered(status)
                        /\ sync' = IF status = "COMPLETED" THEN Completed(mem[w]) ELSE sync
      BY <2>3 DEF Finish
    <3>2. RowsFollow /\ job'.owner = NoWorker
      BY <2>1, <3>1, ClosedRows DEF RowsFollow
    <3>3. pc[w] = "finish" /\ job.owner = w
      BY <2>3 DEF Finish, Owner
    <3>4. sync' = sync \/ sync' = Completed(mem[w])
      BY <3>1
    <3> QED BY <2>1, <3>2, <3>3, <3>4 DEF Leaves
  <2>4. CASE Owner(w) /\ Crash(w)
    <3>1. \E status : Recovered = Closed(status)
      BY DEF Recovered
    <3>2. PICK status, other : job' = Closed(status) /\ ended' = Remembered(other) /\ sync' = sync
      BY <2>4, <3>1 DEF Crash
    <3>3. RowsFollow /\ job'.owner = NoWorker
      BY <2>1, <3>2, RecoveredRows DEF RowsFollow
    <3> QED BY <2>1, <3>2, <3>3 DEF Leaves
  <2> QED BY <1>3, <2>2, <2>3, <2>4
<1>4. CASE LoseLease(w)
  <2>1. \E status : Recovered = Closed(status)
    BY DEF Recovered
  <2>2. PICK status, other : job' = Closed(status) /\ ended' = Remembered(other)
    BY <1>4, <2>1 DEF LoseLease
  <2>3. UNCHANGED <<now, activity, docs, sync, pc, mem>>
    BY <1>4 DEF LoseLease, site
  <2>4. RowsFollow /\ job'.owner = NoWorker
    BY <2>2, <2>3, RecoveredRows DEF RowsFollow
  <2> QED BY <2>3, <2>4 DEF Others, Leaves
<1> QED BY <1>1, <1>2, <1>3, <1>4 DEF EndStep

-----------------------------------------------------------------------------
(* The snapshot: the beginning of the initial synchronisation, which the    *)
(* windows of all its runs reach to, as long as none begins a new window    *)
(* below the oldest document.                                              *)

NoRollover ==
    \A w \in Workers : pc[w] = "load" /\ Owner(w) => Beginning = Position(job.payload, job.checkpoint)

Reaches(todate, snapshot) == snapshot # None /\ snapshot <= todate

SnapRow(row, snapshot) ==
    row.checkpoint.mode = "INITIAL" /\ ~row.payload.dry => Reaches(row.checkpoint.todate, snapshot)

SnapState(row) == row.mode = "INITIAL" => Reaches(row.todate, row.snapshot)

\* A run of the job knows the number of documents, too.
SnapRun(place, m, row) ==
    place \notin {"idle", "load"} /\ m.mode = "INITIAL" /\ ~m.dry =>
        m.count = row.count /\ row.snapshot <= m.todate

Snap ==
    /\ sync.snapshot <= now /\ SnapState(sync)
    /\ SnapRow(job, sync.snapshot) /\ SnapRow(ended, sync.snapshot)
    /\ \A w \in Workers : Owner(w) => SnapRun(pc[w], mem[w], sync)

\* The types of the columns.
LEMMA SnapTyped ==
    ASSUME SyncInv
    PROVE  /\ now \in Nat /\ sync.snapshot \in Int /\ sync.todate \in Int
           /\ sync.snapshot # None => sync.snapshot \in Nat
  BY SyncAssumption DEF SyncInv, Tables, SyncRow, Times, None

\* A job that is put back, ended or retried.
LEMMA RowsSnap ==
    ASSUME NEW row, NEW other, NEW snapshot, SameRow(row, other), SnapRow(other, snapshot)
    PROVE  SnapRow(row, snapshot)
  BY DEF SnapRow, SameRow

\* A step that leaves the snapshot and the number of documents.
LEMMA SnapStep ==
    ASSUME SyncInv, Snap, now' \in Int, now <= now', sync'.snapshot = sync.snapshot,
           sync'.count = sync.count, SnapState(sync'),
           SnapRow(job', sync.snapshot), SnapRow(ended', sync.snapshot),
           \A v \in Workers : job'.owner = v =>
               SnapRun(pc'[v], mem'[v], sync) \/ (Owner(v) /\ pc'[v] = pc[v] /\ mem'[v] = mem[v])
    PROVE  Snap'
<1>1. sync'.snapshot <= now'
  BY SnapTyped DEF Snap
<1>2. ASSUME NEW v \in Workers, job'.owner = v PROVE SnapRun(pc'[v], mem'[v], sync')
  <2>1. SnapRun(pc'[v], mem'[v], sync)
    BY <1>2 DEF Snap
  <2> QED BY <2>1 DEF SnapRun
<1> QED BY <1>1, <1>2 DEF Snap, Owner

\* Requests.
LEMMA SnapApi ==
    ASSUME StartsKeepPositions, SyncInv, Snap, Api
    PROVE  Snap'
<1>1. /\ UNCHANGED <<now, pc, mem>> /\ (job'.owner = NoWorker \/ job'.owner = job.owner)
      /\ \/ /\ job'.checkpoint = NoCheckpoint /\ ended' = ended
            /\ sync' = sync \/ \E start \in Starts : /\ start[1] = "api"
                                                     /\ sync' = [sync EXCEPT !.mode = start[2]]
         \/ SameRow(job', ended) /\ ended' = ended /\ sync' = sync
         \/ SameRow(job', job) /\ (SameRow(ended', ended) \/ SameRow(ended', job)) /\ sync' = sync
  BY ApiFrame
<1>2. SnapRow(job', sync.snapshot) /\ SnapRow(ended', sync.snapshot)
  <2>1. SnapRow(job, sync.snapshot) /\ SnapRow(ended, sync.snapshot)
    BY DEF Snap
  <2>2. job'.checkpoint = NoCheckpoint => SnapRow(job', sync.snapshot)
    BY DEF SnapRow, NoCheckpoint
  <2> QED BY <1>1, <2>1, <2>2, RowsSnap
<1>3. /\ sync'.snapshot = sync.snapshot /\ sync'.count = sync.count /\ SnapState(sync')
  <2>1. SnapState(sync)
    BY DEF Snap
  <2>2. ASSUME NEW start \in Starts, start[1] = "api", sync' = [sync EXCEPT !.mode = start[2]]
        PROVE  sync'.snapshot = sync.snapshot /\ sync'.count = sync.count /\ sync'.mode # "INITIAL"
    BY <2>2 DEF StartsKeepPositions, SyncInv, SyncRow
  <2> QED BY <1>1, <2>1, <2>2 DEF SnapState
<1>4. now' = now /\ now \in Int
  BY <1>1, SnapTyped
<1>5. \A v \in Workers : job'.owner = v => Owner(v) /\ pc'[v] = pc[v] /\ mem'[v] = mem[v]
  BY <1>1, SyncAssumption DEF Owner
<1> QED BY <1>2, <1>3, <1>4, <1>5, SnapStep

\* A run of the handler begins with a window that reaches to the snapshot.
LEMMA SnapBeginning ==
    ASSUME SyncInv, Base, Snap, Beginning = Position(job.payload, job.checkpoint),
           job.payload.mode \in Modes, Resolved(job.payload.mode) = "INITIAL", ~job.payload.dry
    PROVE  sync.snapshot <= Beginning.todate
<1>1. CASE job.checkpoint.page # None
  <2>1. job.checkpoint.mode = "INITIAL"
    <3>1. job.checkpoint.mode \in Modes /\ Resumable(job, sync.initial)
      BY DEF SyncInv, JobTyped, JobRow, Positions, Base
    <3> QED BY <1>1, <3>1 DEF Resumable, Resolved, Modes
  <2> QED BY <1>1, <2>1 DEF Snap, SnapRow, Reaches, Position
<1>2. CASE job.checkpoint.page = None /\ Continues(job.payload)
  <2>1. Reaches(sync.todate, sync.snapshot)
    BY <1>2 DEF Continues, Snap, SnapState
  <2>2. sync.todate # None
    BY <2>1, SnapTyped DEF Reaches, None
  <2> QED BY <1>2, <2>1, <2>2 DEF Reaches, Position
<1>3. CASE job.checkpoint.page = None /\ ~Continues(job.payload)
  BY <1>3 DEF Position, Snap
<1> QED BY <1>1, <1>2, <1>3

\* A step of one worker that leaves the rows.
LEMMA SnapLocal ==
    ASSUME SyncInv, Snap, NEW w \in Workers, now' = now, UNCHANGED <<job, ended, sync>>, Others(w),
           Owner(w) => SnapRun(pc'[w], mem'[w], sync)
    PROVE  Snap'
<1>1. now' \in Int /\ now <= now'
  BY SnapTyped
<1>2. \A v \in Workers : job'.owner = v =>
          SnapRun(pc'[v], mem'[v], sync) \/ (Owner(v) /\ pc'[v] = pc[v] /\ mem'[v] = mem[v])
  BY DEF Owner, Others
<1> QED BY <1>1, <1>2, SnapStep DEF Snap

\* The steps of a run before it saves.
LEMMA SnapRuns ==
    ASSUME SyncInv, Base, Snap, NoRollover, NEW w \in Workers,
           Load(w) \/ Fetch(w) \/ FetchAnswers(w) \/ NextQuestion(w) \/ IngestOne(w)
    PROVE  Snap'
<1>0. Owner(w) => SnapRun(pc[w], mem[w], sync)
  BY DEF Snap
<1>1. CASE Load(w) /\ Owner(w)
  <2>1. job.payload.mode \in Modes /\ pc[w] = "load"
    BY <1>1, OwnerRuns DEF Load
  <2>2. /\ mem'[w].mode = Resolved(job.payload.mode) /\ mem'[w].dry = job.payload.dry
        /\ mem'[w].todate = Beginning.todate /\ mem'[w].count = sync.count
        /\ UNCHANGED <<site, rows>> /\ Others(w)
    BY <1>1, LoadFrame DEF Others
  <2>3. mem'[w].mode = "INITIAL" /\ ~mem'[w].dry => sync.snapshot <= Beginning.todate
    BY <1>1, <2>1, <2>2, SnapBeginning DEF NoRollover
  <2>4. SnapRun(pc'[w], mem'[w], sync)
    BY <2>2, <2>3 DEF SnapRun
  <2> QED BY <2>2, <2>4, SnapLocal DEF site, rows
<1>2. CASE Load(w) /\ ~Owner(w)
  <2>1. now' = now /\ UNCHANGED <<job, ended, sync>> /\ Others(w)
    BY <1>2 DEF Load, site, rows, Escape, Goto, Learn, SyncInv, Handlers, Others
  <2> QED BY <1>2, <2>1, SnapLocal
<1>3. CASE Fetch(w)
  <2>1. Framed(pc[w], mem[w]) /\ pc[w] = "fetch"
    BY <1>3 DEF Base, Steady, Fetch
  <2>2. /\ mem'[w].mode = mem[w].mode /\ mem'[w].dry = mem[w].dry
        /\ mem'[w].todate = mem[w].todate /\ mem'[w].count = mem[w].count
        /\ UNCHANGED <<site, rows>> /\ Others(w)
    BY <1>3, <2>1, FetchFrame DEF Others
  <2>3. Owner(w) => SnapRun(pc'[w], mem'[w], sync)
    BY <1>0, <2>1, <2>2 DEF SnapRun
  <2> QED BY <2>2, <2>3, SnapLocal DEF site, rows
<1>4. CASE FetchAnswers(w) \/ NextQuestion(w)
  <2>1. /\ now' = now /\ UNCHANGED <<job, ended, sync>> /\ mem' = mem /\ Others(w)
        /\ pc[w] \notin {"idle", "load"}
    BY <1>4 DEF FetchAnswers, NextQuestion, site, rows, Goto, SyncInv, Handlers, Others
  <2>2. Owner(w) => SnapRun(pc'[w], mem'[w], sync)
    BY <1>0, <2>1 DEF SnapRun
  <2> QED BY <2>1, <2>2, SnapLocal
<1>5. CASE IngestOne(w)
  <2>1. /\ now' = now /\ UNCHANGED <<job, ended, sync>> /\ SameRun(mem'[w], mem[w]) /\ Others(w)
        /\ pc[w] \notin {"idle", "load"}
    BY <1>5, IngestFrame
  <2>2. Owner(w) => SnapRun(pc'[w], mem'[w], sync)
    BY <1>0, <2>1 DEF SnapRun, SameRun
  <2> QED BY <2>1, <2>2, SnapLocal
<1> QED BY <1>1, <1>2, <1>3, <1>4, <1>5

\* The first progress of an initial run sets the snapshot.
LEMMA SnapSave ==
    ASSUME SyncInv, Base, Snap, NEW w \in Workers, SaveCheckpoint(w)
    PROVE  Snap'
<1>1. CASE ~Owner(w)
  <2>1. now' = now /\ UNCHANGED <<job, ended, sync>> /\ Others(w)
    BY <1>1 DEF SaveCheckpoint, site, Escape, Goto, Learn, SyncInv, Handlers, Others
  <2> QED BY <1>1, <2>1, SnapLocal
<1>2. CASE Owner(w)
  <2> DEFINE m == mem[w]
             checkpoint == Checkpoint(m)
  <2>1. /\ checkpoint.mode = m.mode /\ checkpoint.todate = m.todate
        /\ job'.checkpoint = checkpoint /\ job'.payload = job.payload /\ job'.owner = w
        /\ sync' = IF m.dry THEN sync ELSE Progressed(m, checkpoint)
        /\ mem'[w].mode = m.mode /\ mem'[w].dry = m.dry /\ mem'[w].todate = m.todate
        /\ mem'[w].count = IF m.dry THEN m.count ELSE Cardinality(Stored)
        /\ pc[w] = "save" /\ pc'[w] \in {"fetch", "finish"}
        /\ Others(w) /\ UNCHANGED <<now, activity, docs, ended>>
    BY <1>2, SaveFrame
  <2>2. /\ m.todate <= now /\ m.todate # None /\ m.dry = job.payload.dry /\ m.dry \in BOOLEAN
        /\ SnapRun("save", m, sync)
    BY <1>2, <2>1, AtWork DEF Base, Steady, Framed, Serves, Snap, MemRow
  <2>3. m.todate \in Int /\ now \in Nat /\ sync.snapshot \in Int
    BY TimesTyped, SnapTyped
  <2>4. job'.owner # NoWorker /\ \A v \in Workers : job'.owner = v => v = w
    BY <2>1, SyncAssumption
  <2> HIDE DEF m, checkpoint
  <2>5. CASE m.dry
    <3>1. SnapRow(job', sync.snapshot) /\ SnapRow(ended', sync.snapshot) /\ sync' = sync
      BY <2>1, <2>2, <2>5 DEF SnapRow, Snap
    <3>2. SnapRun(pc'[w], mem'[w], sync)
      BY <2>1, <2>5 DEF SnapRun
    <3> QED BY <2>1, <2>3, <2>4, <3>1, <3>2, SnapStep DEF Snap
  <2>6. CASE ~m.dry
    <3>1. /\ sync'.mode = m.mode /\ sync'.todate = m.todate /\ sync'.count = Cardinality(Stored)
          /\ sync'.snapshot = IF m.mode = "INITIAL" /\ sync.snapshot = None THEN m.todate ELSE sync.snapshot
      BY <2>1, <2>6 DEF Progressed, SyncInv, SyncRow
    <3>2. m.mode = "INITIAL" => Reaches(m.todate, sync'.snapshot)
      BY <2>2, <2>3, <2>6, <3>1 DEF SnapRun, Reaches
    <3>3. sync'.snapshot <= now' /\ (sync.snapshot # None => sync'.snapshot = sync.snapshot)
      BY <2>1, <2>2, <2>3, <3>1 DEF Snap
    <3>4. SnapState(sync') /\ SnapRow(job', sync'.snapshot)
      BY <2>1, <3>1, <3>2 DEF SnapState, SnapRow
    <3>5. SnapRow(ended', sync'.snapshot)
      BY <2>1, <3>3 DEF Snap, SnapRow, Reaches
    <3>6. SnapRun(pc'[w], mem'[w], sync')
      BY <2>1, <2>6, <3>1, <3>2 DEF SnapRun, Reaches
    <3> QED BY <2>4, <3>3, <3>4, <3>5, <3>6 DEF Snap, Owner
  <2> QED BY <2>2, <2>5, <2>6
<1> QED BY <1>1, <1>2

\* How a run ends.
LEMMA SnapEnds ==
    ASSUME SyncInv, Snap, NEW w \in Workers, EndStep(w)
    PROVE  Snap'
<1>1. RowsFollow /\ Others(w) /\ (CutShort(w) \/ Leaves(w))
  BY EndsFrame
<1>2. SnapRow(job', sync.snapshot) /\ SnapRow(ended', sync.snapshot)
  BY <1>1, RowsSnap DEF RowsFollow, Snap
<1>3. sync'.snapshot = sync.snapshot /\ sync'.count = sync.count /\ SnapState(sync')
  <2>1. sync' = sync \/ sync' = Completed(mem[w])
    BY <1>1 DEF CutShort, Leaves
  <2>2. CASE sync' = sync
    BY <2>2 DEF Snap
  <2>3. CASE sync' = Completed(mem[w]) /\ sync' # sync
    <3>1. sync'.snapshot = sync.snapshot /\ sync'.count = sync.count /\ sync'.mode = "NONE"
      BY <2>3 DEF Completed, SyncInv, SyncRow
    <3> QED BY <3>1 DEF SnapState
  <2> QED BY <2>1, <2>2, <2>3
<1>4. now' \in Int /\ now <= now'
  BY <1>1, SnapTyped DEF RowsFollow
<1>5. ASSUME NEW v \in Workers, job'.owner = v
      PROVE  SnapRun(pc'[v], mem'[v], sync) \/ (Owner(v) /\ pc'[v] = pc[v] /\ mem'[v] = mem[v])
  <2>1. CASE CutShort(w)
    <3>1. Owner(v)
      BY <1>5, <2>1 DEF CutShort, Owner
    <3>2. CASE v = w
      BY <2>1, <3>1, <3>2 DEF CutShort, SameRun, SnapRun, Snap
    <3> QED BY <1>1, <3>1, <3>2 DEF Others
  <2>2. CASE Leaves(w)
    BY <1>1, <1>5, <2>2, SyncAssumption DEF Leaves, Owner, Others
  <2> QED BY <1>1, <2>1, <2>2
<1> QED BY <1>2, <1>3, <1>4, <1>5, SnapStep

LEMMA SnapNext ==
    ASSUME StartsKeepPositions
    PROVE  SyncInv /\ Base /\ Snap /\ [Next]_vars /\ NoRollover => Snap'
<1> SUFFICES ASSUME SyncInv, Base, Snap, [Next]_vars, NoRollover PROVE Snap'
  OBVIOUS
<1>1. CASE UNCHANGED vars
  BY <1>1 DEF vars, site, rows, Snap, Owner
<1>2. ASSUME NEW w \in Workers, Claim(w) PROVE Snap'
  <2>1. /\ SameRow(job', job) /\ job'.owner = w /\ pc'[w] = "load" /\ Others(w)
        /\ UNCHANGED <<now, ended, sync>>
    BY <1>2, ClaimFrame
  <2>2. SnapRow(job', sync.snapshot) /\ now' \in Int
    BY <2>1, RowsSnap, SnapTyped DEF Snap
  <2>3. SnapRun(pc'[w], mem'[w], sync)
    BY <2>1 DEF SnapRun
  <2> QED BY <2>1, <2>2, <2>3, SnapStep, SnapTyped DEF Snap
<1>3. ASSUME (\E q \in Questions : SiteActivity(q)) \/ Tick PROVE Snap'
  <2>1. now' = now + 1 /\ UNCHANGED <<job, ended, sync, pc, mem>>
    BY <1>3 DEF SiteActivity, Tick, rows
  <2> QED BY <2>1, SnapStep, SnapTyped DEF Snap, Owner
<1>4. ASSUME NEW w \in Workers, Handler(w) \/ Faults(w) PROVE Snap'
  BY <1>2, <1>4, SnapRuns, SnapSave, SnapEnds DEF Handler, Faults, EndStep
<1> QED BY <1>1, <1>3, <1>4, SnapApi DEF Next

LEMMA SnapInit == Init => Snap
<1> SUFFICES ASSUME Init PROVE Snap
  OBVIOUS
<1>1. now \in Nat /\ sync.snapshot = None /\ sync.mode = "NONE"
  BY SyncAssumption DEF Init
<1>2. SnapRow(job, None) /\ SnapRow(ended, None)
  BY DEF Init, SnapRow, NoCheckpoint
<1>3. \A w \in Workers : ~Owner(w)
  BY SyncAssumption DEF Init, Owner
<1> QED BY <1>1, <1>2, <1>3 DEF Snap, SnapState, None

\* The initial synchronisation ends with a run that is complete.
LEMMA InitialEnds ==
    ASSUME SyncInv, [Next]_vars, ~sync.initial, sync'.initial
    PROVE  \E w \in Workers : /\ pc[w] = "finish" /\ Owner(w)
                              /\ SyncComplete(mem[w]) /\ mem[w].mode = "INITIAL"
<1>1. sync' # sync /\ ~UNCHANGED vars
  BY DEF vars, rows
<1>2. ~Api
  BY ApiFrame DEF SyncInv, SyncRow
<1>3. ASSUME NEW w \in Workers, SaveCheckpoint(w) PROVE FALSE
  <2>1. Owner(w)
    BY <1>1, <1>3 DEF SaveCheckpoint
  <2>2. sync' = IF mem[w].dry THEN sync ELSE Progressed(mem[w], Checkpoint(mem[w]))
    BY <1>3, <2>1, SaveFrame
  <2> QED BY <1>1, <2>2 DEF Progressed, SyncInv, SyncRow
<1>4. ASSUME NEW w \in Workers,
             Claim(w) \/ Load(w) \/ Fetch(w) \/ FetchAnswers(w) \/ NextQuestion(w) \/ IngestOne(w)
      PROVE  FALSE
  BY <1>1, <1>4 DEF Claim, Load, Fetch, FetchAnswers, NextQuestion, IngestOne, rows
<1>5. ~Tick /\ ~\E q \in Questions : SiteActivity(q)
  BY <1>1 DEF SiteActivity, Tick, rows
<1>6. PICK w \in Workers : Handler(w) \/ Faults(w)
  BY <1>1, <1>2, <1>5 DEF Next
<1>7. EndStep(w)
  BY <1>3, <1>4, <1>6 DEF Handler, Faults, EndStep
<1>8. pc[w] = "finish" /\ job.owner = w /\ sync' = Completed(mem[w])
  BY <1>1, <1>7, EndsFrame DEF CutShort, Leaves
<1>9. SyncComplete(mem[w]) /\ mem[w].mode = "INITIAL"
  BY <1>1, <1>8 DEF Completed, SyncInv, SyncRow
<1> QED BY <1>8, <1>9 DEF Owner

LEMMA InitialMeans ==
    ASSUME SyncInv, Safe, Snap, [Next]_vars, ~sync.initial, sync'.initial, sync.count < Target,
           NEW q \in Usable, Created[q] <= sync.snapshot
    PROVE  q \in Stored
<1>1. PICK w \in Workers : /\ pc[w] = "finish" /\ Owner(w)
                           /\ SyncComplete(mem[w]) /\ mem[w].mode = "INITIAL"
  BY InitialEnds
<1>2. mem[w].count = sync.count /\ sync.snapshot <= mem[w].todate /\ ~mem[w].dry
  BY <1>1 DEF Snap, SnapRun, SyncComplete
<1>3. ~TargetReached(mem[w])
  <2>1. sync.count \in Int /\ Target \in Int
    BY SyncAssumption DEF SyncInv, SyncRow
  <2> QED BY <1>2, <2>1 DEF TargetReached
<1>4. Whole(Created, mem[w].todate, Settled)
  <2>1. Run(pc[w], mem[w], Created, Settled)
    BY <1>1, <1>2 DEF Safe, SafeRun
  <2> QED BY <1>1, <1>3, <2>1 DEF Run, AtEnd, SyncComplete
<1>5. q \in Questions /\ q \notin Unusable /\ Created[q] <= mem[w].todate
  <2>1. q \in Questions /\ q \notin Unusable
    BY DEF Usable, Published
  <2>2. Created[q] \in Int /\ sync.snapshot \in Int /\ mem[w].todate \in Int
    BY <2>1, TimesTyped, SnapTyped
  <2> QED BY <1>2, <2>1, <2>2
<1> QED BY <1>4, <1>5 DEF Whole, Settled

\* An initial synchronisation that is called complete below its target has stored every
\* question that existed when it began, in however many runs, by however many workers
\* and through any crash: as long as no run begins a window below the oldest document.
THEOREM InitialCoversCorrect ==
    ASSUME StartsKeepPositions
    PROVE  Spec /\ [][TurnsDonePages]_vars /\ []NoRollover => InitialCovers
<1> DEFINE Inv == SyncInv /\ Base /\ Safe /\ Snap
           Covers == ~sync.initial /\ sync'.initial /\ sync.count < Target =>
                         \A q \in Usable : Created[q] <= sync.snapshot => q \in Stored
<1>1. Init => Inv
  <2>1. Init => Safe
    BY DEF Init, Safe, SafeRow, SafeState, SafeRun, NoCheckpoint, Nothing
  <2> QED BY <2>1, InitTyped, BaseInit, SnapInit
<1>2. Inv /\ [Next]_vars /\ [TurnsDonePages]_vars /\ NoRollover => Inv'
  BY NextTyped, BaseNext, SafeNext, SnapNext
<1>3. Inv /\ [Next]_vars => Covers
  BY InitialMeans
<1> HIDE DEF Inv, Covers
<1>4. Spec /\ [][TurnsDonePages]_vars /\ []NoRollover => [][Covers]_vars
  BY <1>1, <1>2, <1>3, PTL DEF Spec
<1> QED BY <1>4 DEF InitialCovers, Covers

-----------------------------------------------------------------------------
(* With a key the API serves every page there is, and no run is deeper.     *)

Keyed == KeylessPages > Len(Created)

LastPage == Len(Created) + 1

PageBound(place, m) ==
    /\ place = "fetch" => m.page <= LastPage
    /\ place \in {"answers", "next", "ingest", "save"} => m.page < LastPage

Pages ==
    /\ job.checkpoint.page <= LastPage /\ ended.checkpoint.page <= LastPage /\ sync.page <= LastPage
    /\ \A w \in Workers : PageBound(pc[w], mem[w])

LEMMA PagesGrow ==
    ASSUME NEW k \in Nat
    PROVE  k * PageSize \in Nat /\ k <= k * PageSize
<1>1. PageSize \in Nat /\ PageSize >= 1
  BY SyncAssumption
<1> QED BY <1>1

\* A page with questions on it, and one that another follows, is not the last.
LEMMA FetchPages ==
    ASSUME SyncInv, NEW w \in Workers, Fetch(w), Framed(pc[w], mem[w])
    PROVE  PageBound(pc'[w], mem'[w])
<1> DEFINE m == mem[w]
           listing == Listing(Sort(m), m.fromdate, m.todate)
           more == Len(listing) > m.page * PageSize
           offset == IF m.page = m.start THEN m.offset ELSE 0
           taken == Taken(listing, m.page, offset, Remaining(m))
           consumed == offset + Len(taken) >= Len(PageOf(listing, m.page))
           got == [m EXCEPT !.yielded = TRUE, !.left = m.left - 1, !.offset = offset,
                            !.batch = [n \in 1 .. Len(taken) |-> <<taken[n], activity[taken[n]]>>],
                            !.took = Len(taken), !.more = more, !.consumed = consumed,
                            !.lastMore = more \/ ~consumed]
           skipped == [m EXCEPT !.yielded = TRUE, !.left = m.left - 1, !.offset = 0,
                                !.lastMore = more, !.page = m.page + 1]
<1>1. m \in MemRow /\ m.page \in Nat \ {0} /\ pc[w] = "fetch"
  BY AtWork DEF Fetch, AtPage
<1>2. offset \in Nat /\ Remaining(m) \in Nat
  BY <1>1, RemainingTyped DEF MemRow
<1>3. /\ listing \in Seq(Questions) /\ Len(listing) \in Nat /\ Len(listing) < LastPage
      /\ Len(Created) \in Nat
  <2>1. Sorted(Sort(m), Window(Sort(m), m.fromdate, m.todate), listing)
    BY AllDated, ListingSorted DEF SyncInv
  <2>2. listing \in Seq(Questions)
    BY <1>1, PageTyped DEF SyncInv
  <2>3. /\ Window(Sort(m), m.fromdate, m.todate) \subseteq Questions
        /\ Cardinality(Window(Sort(m), m.fromdate, m.todate)) \in Nat
    BY WindowFinite
  <2>4. Len(listing) = Cardinality(Window(Sort(m), m.fromdate, m.todate))
    BY <2>1, <2>2, <2>3 DEF Sorted
  <2>5. IsFiniteSet(Questions) /\ Cardinality(Questions) = Len(Created) /\ Len(Created) \in Nat
    <3>1. Questions = 1 .. Len(Created) /\ Len(Created) \in Nat
      BY SyncAssumption DEF Questions
    <3>2. Cardinality(1 .. Len(Created)) = Len(Created) /\ IsFiniteSet(1 .. Len(Created))
      BY <3>1, FS_Interval
    <3> QED BY <3>1, <3>2
  <2>6. Cardinality(Window(Sort(m), m.fromdate, m.todate)) <= Cardinality(Questions)
    BY <2>3, <2>5, FS_Subset
  <2> QED BY <2>2, <2>3, <2>4, <2>5, <2>6 DEF LastPage
<1>4. \/ pc'[w] = "finish"
      \/ mem'[w] = got /\ pc'[w] = "answers" /\ taken # <<>>
      \/ mem'[w] = skipped /\ pc'[w] = "fetch" /\ more
  BY <1>1 DEF Fetch, Taken, Learn, Goto, SyncInv, Handlers
<1>5. got.page = m.page /\ skipped.page = m.page + 1
  BY <1>1 DEF MemRow
<1> HIDE DEF got, skipped, listing, offset
<1>6. more => m.page + 1 <= LastPage
  <2> HIDE DEF m
  <2>1. m.page <= m.page * PageSize /\ m.page * PageSize \in Nat
    BY <1>1, PagesGrow
  <2> QED BY <1>1, <1>3, <2>1 DEF LastPage
<1>7. taken # <<>> => m.page < LastPage
  <2> HIDE DEF m
  <2>1. PageFacts(listing, m.page, offset, Remaining(m))
    BY <1>1, <1>2, <1>3, PageTaken
  <2>2. ASSUME taken # <<>> PROVE (m.page - 1) * PageSize + offset + 1 <= Len(listing)
    <3>1. 1 \in 1 .. Len(taken)
      BY <2>1, <2>2 DEF PageFacts
    <3> QED BY <2>1, <3>1 DEF PageFacts
  <2>3. m.page - 1 <= (m.page - 1) * PageSize /\ (m.page - 1) * PageSize \in Nat
    BY <1>1, PagesGrow
  <2> QED BY <1>1, <1>2, <1>3, <2>2, <2>3 DEF LastPage
<1> HIDE DEF more, taken
<1> QED BY <1>4, <1>5, <1>6, <1>7 DEF PageBound

\* A run begins on a page that was reached.
LEMMA LoadPages ==
    ASSUME SyncInv, Pages, NEW w \in Workers, Load(w), Owner(w)
    PROVE  PageBound(pc'[w], mem'[w])
<1>1. mem'[w].page = Beginning.page /\ pc'[w] \in {"fetch", "finish"}
  BY LoadFrame
<1>2. 1 <= LastPage
  BY SyncAssumption DEF LastPage
<1>3. Position(job.payload, job.checkpoint).page <= LastPage
  BY <1>2 DEF Position, Pages
<1>4. Beginning.page <= LastPage
  BY <1>2, <1>3 DEF Beginning, RolledOver
<1> QED BY <1>1, <1>4 DEF PageBound

\* The checkpoint is on the page or on the next one, as is the run.
LEMMA SavePages ==
    ASSUME SyncInv, Pages, NEW w \in Workers, SaveCheckpoint(w), Owner(w)
    PROVE  /\ job'.checkpoint.page <= LastPage /\ sync'.page <= LastPage
           /\ PageBound(pc'[w], mem'[w])
<1> DEFINE m == mem[w]
           checkpoint == Checkpoint(m)
           saved == [m EXCEPT !.batch = <<>>, !.took = 0, !.questions = checkpoint.questions,
                              !.count = IF m.dry THEN m.count ELSE Cardinality(Stored),
                              !.offset = checkpoint.offset, !.complete = ~m.lastMore]
           turned == [saved EXCEPT !.page = saved.page + 1]
<1>1. m \in MemRow /\ m.page \in Nat \ {0} /\ pc[w] = "save" /\ LastPage \in Nat
  BY AtWork, SyncAssumption DEF SaveCheckpoint, AtPage, LastPage
<1>2. m.page + 1 <= LastPage
  BY <1>1 DEF Pages, PageBound
<1>3. checkpoint.page \in {m.page, m.page + 1}
  BY DEF Checkpoint
<1>4. /\ job'.checkpoint = checkpoint /\ (sync' = sync \/ sync' = Progressed(m, checkpoint))
  BY SaveFrame
<1>5. pc'[w] = "finish" \/ (pc'[w] = "fetch" /\ mem'[w] = turned)
  BY DEF SaveCheckpoint, Learn, Goto, SyncInv, Handlers
<1>6. saved.page = m.page /\ turned.page = m.page + 1
  BY <1>1 DEF MemRow
<1>7. sync'.page = sync.page \/ sync'.page = checkpoint.page
  BY <1>4 DEF Progressed, SyncInv, SyncRow
<1> HIDE DEF saved, turned, checkpoint, m
<1> QED BY <1>1, <1>2, <1>3, <1>4, <1>5, <1>6, <1>7 DEF PageBound, Pages, checkpoint, m

\* A step of one worker.
LEMMA PagesStep ==
    ASSUME Pages, NEW w \in Workers, Others(w), PageBound(pc'[w], mem'[w]),
           job'.checkpoint.page <= LastPage, ended'.checkpoint.page <= LastPage, sync'.page <= LastPage
    PROVE  Pages'
<1>1. LastPage' = LastPage
  BY DEF LastPage
<1>2. \A v \in Workers : PageBound(pc'[v], mem'[v])
  BY DEF Others, Pages
<1> QED BY <1>2 DEF Pages, LastPage, PageBound

LEMMA PagesWork ==
    ASSUME SyncInv, Base, Pages, NEW w \in Workers, Handler(w) \/ Faults(w)
    PROVE  Pages'
<1>1. CASE Claim(w)
  <2>1. SameRow(job', job) /\ UNCHANGED <<ended, sync>> /\ pc'[w] = "load" /\ Others(w)
    BY <1>1, ClaimFrame
  <2> QED BY <2>1, PagesStep DEF SameRow, PageBound, Pages
<1>2. CASE ~Owner(w) /\ (Load(w) \/ SaveCheckpoint(w))
  <2>1. UNCHANGED <<job, ended, sync>> /\ pc'[w] = "idle" /\ Others(w)
    BY <1>2 DEF Load, SaveCheckpoint, rows, Escape, Goto, Learn, SyncInv, Handlers, Others
  <2> QED BY <2>1, PagesStep DEF PageBound, Pages
<1>3. CASE Owner(w) /\ Load(w)
  <2>1. UNCHANGED <<site, rows>> /\ Others(w)
    BY <1>3, LoadFrame DEF Others
  <2> QED BY <1>3, <2>1, LoadPages, PagesStep DEF rows, Pages
<1>4. CASE Fetch(w)
  <2>1. Framed(pc[w], mem[w])
    BY DEF Base, Steady
  <2>2. UNCHANGED <<site, rows>> /\ Others(w)
    BY <1>4, <2>1, FetchFrame DEF Others
  <2> QED BY <1>4, <2>1, <2>2, FetchPages, PagesStep DEF rows, Pages
<1>5. CASE FetchAnswers(w) \/ NextQuestion(w)
  <2>1. /\ UNCHANGED <<job, ended, sync>> /\ mem' = mem /\ Others(w)
        /\ pc[w] \in {"answers", "next"} /\ pc'[w] \in {"next", "ingest", "save"}
    BY <1>5 DEF FetchAnswers, NextQuestion, rows, Goto, SyncInv, Handlers, Others
  <2>2. PageBound(pc'[w], mem'[w])
    BY <2>1 DEF Pages, PageBound
  <2> QED BY <2>1, <2>2, PagesStep DEF Pages
<1>6. CASE IngestOne(w)
  <2>1. UNCHANGED <<job, ended, sync>> /\ Others(w) /\ pc[w] = "ingest" /\ pc'[w] \in {"next", "save"}
    BY <1>6, IngestFrame
  <2>2. mem'[w].page = mem[w].page
    BY <1>6, AtWork DEF IngestOne, Learn, SyncInv, Handlers, MemRow
  <2>3. PageBound(pc'[w], mem'[w])
    BY <2>1, <2>2 DEF Pages, PageBound
  <2> QED BY <2>1, <2>3, PagesStep DEF Pages
<1>7. CASE Owner(w) /\ SaveCheckpoint(w)
  <2>1. Others(w) /\ ended' = ended
    BY <1>7, SaveFrame
  <2> QED BY <1>7, <2>1, SavePages, PagesStep DEF Pages
<1>8. CASE EndStep(w)
  <2>1. RowsFollow /\ Others(w) /\ (CutShort(w) \/ Leaves(w))
    BY <1>8, EndsFrame
  <2>2. job'.checkpoint.page <= LastPage /\ ended'.checkpoint.page <= LastPage
    BY <2>1 DEF RowsFollow, SameRow, Pages
  <2>3. sync'.page <= LastPage
    <3>1. sync' = sync \/ sync' = Completed(mem[w])
      BY <2>1 DEF CutShort, Leaves
    <3>2. sync'.page = sync.page \/ sync'.page = 1
      BY <3>1 DEF Completed, SyncInv, SyncRow
    <3> QED BY <3>2, SyncAssumption DEF Pages, LastPage
  <2>4. PageBound(pc'[w], mem'[w])
    BY <2>1 DEF CutShort, Leaves, PageBound, Pages
  <2> QED BY <2>1, <2>2, <2>3, <2>4, PagesStep
<1> QED BY <1>1, <1>2, <1>3, <1>4, <1>5, <1>6, <1>7, <1>8 DEF Handler, Faults, EndStep

LEMMA PagesNext == SyncInv /\ Base /\ Pages /\ [Next]_vars => Pages'
<1> SUFFICES ASSUME SyncInv, Base, Pages, [Next]_vars PROVE Pages'
  OBVIOUS
<1>1. CASE Api
  <2>1. /\ UNCHANGED <<pc, mem>>
        /\ \/ /\ job'.checkpoint = NoCheckpoint /\ ended' = ended
              /\ sync' = sync \/ \E start \in Starts : /\ start[1] = "api"
                                                       /\ sync' = [sync EXCEPT !.mode = start[2]]
           \/ SameRow(job', ended) /\ ended' = ended /\ sync' = sync
           \/ SameRow(job', job) /\ (SameRow(ended', ended) \/ SameRow(ended', job)) /\ sync' = sync
    BY <1>1, ApiFrame
  <2>2. sync'.page = sync.page
    BY <2>1 DEF SyncInv, SyncRow
  <2>3. NoCheckpoint.page <= LastPage
    BY SyncAssumption DEF NoCheckpoint, None, LastPage
  <2>4. job'.checkpoint.page <= LastPage /\ ended'.checkpoint.page <= LastPage
    BY <2>1, <2>3 DEF SameRow, Pages
  <2> QED BY <2>1, <2>2, <2>4 DEF Pages, LastPage, PageBound
<1>2. CASE (\E q \in Questions : SiteActivity(q)) \/ Tick \/ UNCHANGED vars
  <2>1. UNCHANGED <<job, ended, sync, pc, mem>>
    BY <1>2 DEF SiteActivity, Tick, vars, rows
  <2> QED BY <2>1 DEF Pages, LastPage, PageBound
<1> QED BY <1>1, <1>2, PagesWork DEF Next

LEMMA PagesInit == Init => Pages
<1> SUFFICES ASSUME Init PROVE Pages
  OBVIOUS
<1>1. LastPage \in Nat \ {0}
  BY SyncAssumption DEF LastPage
<1>2. job.checkpoint.page = None /\ ended.checkpoint.page = None /\ sync.page = 1
  BY DEF Init, NoCheckpoint
<1>3. \A w \in Workers : pc[w] = "idle"
  BY DEF Init
<1> QED BY <1>1, <1>2, <1>3 DEF Pages, PageBound, None

LEMMA KeyedStays ==
    ASSUME Keyed
    PROVE  SyncInv /\ Pages => NoRollover
<1> SUFFICES ASSUME SyncInv, Pages PROVE Beginning = Position(job.payload, job.checkpoint)
  BY DEF NoRollover
<1>1. Position(job.payload, job.checkpoint).page <= LastPage
  BY SyncAssumption DEF Position, Pages, LastPage
<1>2. Position(job.payload, job.checkpoint).page \in Int
  BY DEF Position, SyncInv, JobTyped, JobRow, Positions, SyncRow, None
<1>3. ~(Position(job.payload, job.checkpoint).page > KeylessPages)
  BY <1>1, <1>2, SyncAssumption DEF Keyed, LastPage
<1> QED BY <1>3 DEF Beginning, RolledOver

\* The same with no word of the steps: an initial synchronisation with a key, whose target
\* is out of reach, is complete only when it has covered what existed when it began.
THEOREM InitialCoversKeyed ==
    ASSUME StartsKeepPositions, TargetFar, Keyed
    PROVE  Spec => InitialCovers
<1> DEFINE Inv == SyncInv /\ Base /\ Safe /\ Snap /\ Pages
           Covers == ~sync.initial /\ sync'.initial /\ sync.count < Target =>
                         \A q \in Usable : Created[q] <= sync.snapshot => q \in Stored
<1>1. Init => Inv
  <2>1. Init => Safe
    BY DEF Init, Safe, SafeRow, SafeState, SafeRun, NoCheckpoint, Nothing
  <2> QED BY <2>1, InitTyped, BaseInit, SnapInit, PagesInit
<1>2. Inv /\ [Next]_vars => Inv'
  BY NextTyped, BaseNext, SafeNext, SnapNext, PagesNext, TurnsFar, KeyedStays
<1>3. Inv /\ [Next]_vars => Covers
  BY InitialMeans
<1> HIDE DEF Inv, Covers
<1>4. Spec => [][Covers]_vars
  BY <1>1, <1>2, <1>3, PTL DEF Spec
<1> QED BY <1>4 DEF InitialCovers, Covers

-----------------------------------------------------------------------------
(* Incremental runs: what they have behind them is up to date, or so recent *)
(* that a later window shows it.                                            *)

\* The worker of the deployment; no request relabels the position of an initial run;
\* and a run goes on from a checkpoint in the mode that the checkpoint is of.
OneWorker == \A v, w \in Workers : v = w

StartsKeepWindows == \A start \in Starts : start[1] = "api" => start[2] # "INCREMENTAL"

ModesKept ==
    \A w \in Workers : pc[w] = "load" /\ Owner(w) /\ job.checkpoint.page # None =>
        job.checkpoint.mode = Resolved(job.payload.mode)

\* What is done at a window's end: the questions with their last version, and those
\* that are past it.
Done(date, copies, todate) ==
    {q \in Questions : q \in Unusable \/ copies[q] = date[q] \/ date[q] > todate}

IncRow(row, date, copies) ==
    LET at == row.checkpoint
    IN at.mode = "INCREMENTAL" /\ ~row.payload.dry =>
          Covered(date, at.todate, at.page, at.offset, Done(date, copies, at.todate))

IncState(row, date, copies) ==
    row.mode = "INCREMENTAL" =>
        /\ row.todate # None
        /\ Covered(date, row.todate, row.page, row.offset, Done(date, copies, row.todate))

IncRun(place, m, date, copies) ==
    m.mode = "INCREMENTAL" /\ ~m.dry => Run(place, m, date, Done(date, copies, m.todate))

Follows ==
    /\ Active => IncRow(job, activity, docs)
    /\ IncRow(ended, activity, docs) /\ IncState(sync, activity, docs)
    /\ \A w \in Workers : IncRun(pc[w], mem[w], activity, docs)

\* Nothing happens to a question before it is created, and the watermark is past.
Born ==
    /\ \A q \in Questions : Created[q] > now => activity[q] = Created[q]
    /\ sync.watermark <= now

\* A run begins its window at the watermark, less the overlap.
Since(place, m, watermark) ==
    place \notin {"idle", "load"} =>
        m.fromdate = 0 \/ (watermark # None /\ m.fromdate <= watermark - Overlap)

\* The thread that a worker holds is the last version, or its question has moved past the
\* ends of all windows.
WindowEnds ==
    {sync.todate, sync.watermark, job.checkpoint.todate, ended.checkpoint.todate}
    \cup {mem[w].todate : w \in Workers}

Recent(batch, date, ends) ==
    \A n \in 1 .. Len(batch) :
        \/ batch[n][2] = date[batch[n][1]]
        \/ \A todate \in ends : date[batch[n][1]] > todate

\* NothingLost, of all questions.
Lossless ==
    sync.watermark # None =>
        \A q \in Questions : activity[q] < sync.watermark - Overlap =>
            q \in Done(activity, docs, sync.watermark)

Kept ==
    /\ Born /\ Lossless /\ Follows
    /\ \A w \in Workers : /\ Since(pc[w], mem[w], sync.watermark)
                          /\ Recent(mem[w].batch, activity, WindowEnds)

\* A question that is not behind a position shifts nothing behind it when it moves past
\* the end of the window.
LEMMA FirstStays ==
    ASSUME NEW date \in [Questions -> Int], NEW after \in [Questions -> Int], NEW todate \in Int,
           NEW k \in Nat, NEW q \in Questions, q \notin First(date, todate, k), after[q] > todate,
           \A r \in Questions \ {q} : after[r] = date[r]
    PROVE  First(after, todate, k) \subseteq First(date, todate, k) \ {q}
<1> SUFFICES ASSUME NEW r \in First(after, todate, k)
             PROVE  r \in First(date, todate, k) /\ r # q
  OBVIOUS
<1> DEFINE old == Before(date, todate, r)
           new == Before(after, todate, r)
<1>1. r \in Questions /\ r # q /\ date[r] = after[r] /\ date[r] <= todate /\ Cardinality(new) < k
  BY DEF First
<1>2. IsFiniteSet(new) /\ Cardinality(new) \in Nat
  BY BeforeCounted
<1>3. CASE q \in old
  <2>1. date[q] <= todate
    BY <1>3 DEF Before
  <2>2. ~(Cardinality(Before(date, todate, q)) < k)
    BY <2>1 DEF First
  <2>3. Before(date, todate, q) \subseteq new
    <3> SUFFICES ASSUME NEW x \in Before(date, todate, q) PROVE x \in new
      OBVIOUS
    <3>1. /\ x \in Questions /\ x # q /\ date[x] <= todate
          /\ date[x] > date[q] \/ (date[x] = date[q] /\ x > q)
      BY SyncAssumption DEF Before, Questions
    <3>2. date[q] > date[r] \/ (date[q] = date[r] /\ q > r)
      BY <1>3 DEF Before
    <3>3. after[x] = date[x] /\ date[x] \in Int /\ date[q] \in Int /\ date[r] \in Int
      BY <1>1, <3>1
    <3>4. x \in Int /\ q \in Int /\ r \in Int
      BY <1>1, <3>1, SyncAssumption DEF Questions
    <3>5. date[x] > date[r] \/ (date[x] = date[r] /\ x > r)
      BY <3>1, <3>2, <3>3, <3>4
    <3> QED BY <1>1, <3>1, <3>3, <3>5 DEF Before
  <2>4. Cardinality(Before(date, todate, q)) <= Cardinality(new)
    BY <1>2, <2>3, FS_Subset
  <2>5. Cardinality(Before(date, todate, q)) \in Nat
    BY BeforeCounted
  <2> QED BY <1>1, <1>2, <2>2, <2>4, <2>5
<1>4. CASE q \notin old
  <2>1. old = new
    <3>1. \A x \in Questions \ {q} : x \in old <=> x \in new
      BY <1>1 DEF Before
    <3>2. q \notin new /\ old \subseteq Questions /\ new \subseteq Questions
      BY DEF Before
    <3> QED BY <1>4, <3>1, <3>2
  <2> QED BY <1>1, <2>1 DEF First
<1> QED BY <1>3, <1>4

\* The first questions of a window are what a position of its listing has visited.
LEMMA FirstVisited ==
    ASSUME SyncInv, Born, NEW todate \in Int, todate <= now, NEW page \in Nat \ {0}, NEW offset \in Nat
    PROVE  First(activity, todate, (page - 1) * PageSize + offset)
              \subseteq Visited(Listing("activity", 0, todate), page, offset)
<1> DEFINE s == Listing("activity", 0, todate)
           N == (page - 1) * PageSize + offset
<1>1. activity \in [Questions -> Int] /\ now \in Int /\ \A q \in Questions : 0 <= activity[q]
  BY SyncAssumption DEF SyncInv, Tables, Times
<1>2. \A q \in Questions : Date("activity", q) = activity[q] /\ (activity[q] <= todate => Created[q] <= now)
  <2>1. \A q \in Questions : Created[q] \in Int
    BY TimesTyped
  <2> QED BY <1>1, <2>1 DEF Date, Born
<1>3. Placed(s, activity, 0, todate) /\ s \in Seq(Questions)
  <2> DEFINE sort == "activity"
  <2>1. \A q \in Questions : Date(sort, q) = activity[q] /\ (activity[q] <= todate => Created[q] <= now)
    BY <1>2
  <2> HIDE DEF sort
  <2>2. Placed(Listing(sort, 0, todate), activity, 0, todate) /\ Listing(sort, 0, todate) \in Seq(Questions)
    BY <1>1, <2>1, ListingPlaced
  <2> QED BY <2>2 DEF sort
<1>4. N \in Nat
  BY NextPage
<1> HIDE DEF s, N
<1>5. ASSUME NEW q \in First(activity, todate, N)
      PROVE  \E n \in 1 .. Least(N, Len(s)) : s[n] = q
  <2> DEFINE i == Cardinality(Before(activity, todate, q)) + 1
  <2>1. q \in Questions /\ activity[q] <= todate /\ Cardinality(Before(activity, todate, q)) < N
    BY DEF First
  <2>2. i \in 1 .. Len(s) /\ s[i] = q
    BY <1>1, <1>3, <2>1 DEF Placed
  <2>3. Cardinality(Before(activity, todate, q)) \in Nat /\ Len(s) \in Nat
    BY <1>3, BeforeCounted
  <2>4. i \in 1 .. Least(N, Len(s))
    BY <1>4, <2>1, <2>2, <2>3 DEF Least
  <2> QED BY <2>2, <2>4
<1> QED BY <1>5 DEF Visited, s, N

\* So a calm site leaves the first questions of an unfinished traversal.
LEMMA SiteFirst ==
    ASSUME SyncInv, Born, Calm, NEW q \in Questions, SiteActivity(q),
           NEW page \in Nat \ {0}, NEW offset \in Nat, NEW todate \in Int, todate <= now,
           [mode |-> "INCREMENTAL", page |-> page, offset |-> offset, todate |-> todate] \in Unfinished,
           NEW k \in Nat, k <= (page - 1) * PageSize + offset
    PROVE  /\ First(activity', todate, k) \subseteq First(activity, todate, k) \ {q}
<1> DEFINE at == [mode |-> "INCREMENTAL", page |-> page, offset |-> offset, todate |-> todate]
           N == (page - 1) * PageSize + offset
<1>1. /\ at.mode = "INCREMENTAL" /\ at.page = page /\ at.offset = offset /\ at.todate = todate
      /\ at \in Unfinished
  OBVIOUS
<1>2. ~Behind(q)
  BY DEF SiteActivity
<1> HIDE DEF at
<1>3. q \notin Visited(Listing("activity", 0, todate), page, offset)
  BY <1>1, <1>2 DEF Behind
<1>4. q \notin First(activity, todate, N)
  BY <1>3, FirstVisited
<1>5. N \in Nat
  BY NextPage
<1>6. q \notin First(activity, todate, k)
  <2>1. Cardinality(Before(activity, todate, q)) \in Nat
    BY BeforeCounted
  <2> QED BY <1>4, <1>5, <2>1 DEF First
<1>7. /\ activity \in [Questions -> Int] /\ now \in Int /\ now' = now + 1
      /\ activity' = [activity EXCEPT ![q] = now']
  BY SyncAssumption DEF SyncInv, Tables, Times, SiteActivity
<1> DEFINE after == activity'
<1>8. /\ after \in [Questions -> Int] /\ after[q] > todate
      /\ \A r \in Questions \ {q} : after[r] = activity[r]
  BY <1>7
<1> HIDE DEF after, N
<1>9. First(after, todate, k) \subseteq First(activity, todate, k) \ {q}
  BY <1>6, <1>7, <1>8, FirstStays
<1> QED BY <1>9 DEF after

\* What is done stays done when a question moves past the end of a window.
LEMMA SiteDone ==
    ASSUME SyncInv, NEW q \in Questions, SiteActivity(q), NEW todate \in Int, todate <= now
    PROVE  /\ Done(activity, docs, todate) \subseteq Done(activity', docs', todate)
           /\ \A r \in Questions : activity'[r] <= todate => activity[r] <= todate
<1>1. /\ activity \in [Questions -> Int] /\ now \in Int /\ now' = now + 1 /\ docs' = docs
      /\ activity' = [activity EXCEPT ![q] = now']
  BY SyncAssumption DEF SyncInv, Tables, Times, SiteActivity, rows
<1>2. activity'[q] > todate /\ \A r \in Questions \ {q} : activity'[r] = activity[r]
  BY <1>1
<1>3. \A r \in Questions : activity'[r] \in Int /\ activity[r] \in Int
  BY <1>1
<1>4. ASSUME NEW r \in Done(activity, docs, todate) PROVE r \in Done(activity', docs', todate)
  BY <1>1, <1>2, <1>4 DEF Done
<1>5. ASSUME NEW r \in Questions, activity'[r] <= todate PROVE activity[r] <= todate
  BY <1>2, <1>3, <1>5
<1> QED BY <1>4, <1>5

\* The position of a run after a step of the site.
LEMMA RunLater ==
    ASSUME NEW place, NEW m, NEW date, NEW after, NEW G, NEW H, G \subseteq H, Run(place, m, date, G),
           \A r \in Questions : after[r] <= m.todate => date[r] <= m.todate,
           place = "fetch" =>
               LET k == (m.page - 1) * PageSize + (IF m.page = m.start THEN m.offset ELSE 0)
               IN First(after, m.todate, k) \subseteq First(date, m.todate, k),
           place \in {"answers", "next", "ingest", "save"} =>
               LET k == (m.page - 1) * PageSize + (m.offset + m.took)
               IN First(after, m.todate, k) \subseteq First(date, m.todate, k)
    PROVE  Run(place, m, after, H)
<1>1. Run(place, m, date, H)
  BY RunGrows
<1>2. \A B : Whole(date, m.todate, B) => Whole(after, m.todate, B)
  BY DEF Whole
<1>3. place = "fetch" => AtTurn(m, after, H)
  BY <1>1 DEF Run, AtTurn, Covered
<1>4. place \in {"answers", "next", "ingest", "save"} => InPage(m, after, Held(m, H))
  BY <1>1, <1>2 DEF Run, InPage, Covered
<1>5. place = "finish" => AtEnd(m, after, H)
  BY <1>1, <1>2 DEF Run, AtEnd
<1> QED BY <1>1, <1>3, <1>4, <1>5 DEF Run

\* The positions of the rows, the state and the runs are those of unfinished traversals.
LEMMA RowUnfinished ==
    ASSUME SyncInv, NEW row, (row = job /\ Active) \/ row = ended,
           row.checkpoint.mode = "INCREMENTAL", ~row.payload.dry
    PROVE  [mode |-> "INCREMENTAL", page |-> row.checkpoint.page, offset |-> row.checkpoint.offset,
            todate |-> row.checkpoint.todate] \in Unfinished
<1>1. job # ended
  <2>1. DOMAIN job = {"id", "status", "owner", "cancel", "payload", "checkpoint"}
    BY DEF SyncInv, JobTyped, JobRow
  <2>2. DOMAIN ended = {"payload", "checkpoint"}
    BY DEF SyncInv, EndedRow
  <2> QED BY <2>1, <2>2
<1>2. row \in {job, ended} /\ (row = job => Active)
  BY <1>1
<1> QED BY <1>2 DEF Unfinished

LEMMA StateUnfinished ==
    ASSUME sync.mode = "INCREMENTAL"
    PROVE  [mode |-> "INCREMENTAL", page |-> sync.page, offset |-> sync.offset,
            todate |-> sync.todate] \in Unfinished
  BY DEF Unfinished

LEMMA RunUnfinished ==
    ASSUME NEW w \in Workers, pc[w] # "idle", ~mem[w].dry, mem[w].mode = "INCREMENTAL"
    PROVE  [mode |-> "INCREMENTAL", page |-> mem[w].page, offset |-> mem[w].offset + mem[w].took,
            todate |-> mem[w].todate] \in Unfinished
  BY DEF Unfinished

\* The position of a row after a step of the site.
LEMMA IncRowSite ==
    ASSUME SyncInv, Base, Born, Calm, NEW q \in Questions, SiteActivity(q),
           NEW row, (row = job /\ Active) \/ row = ended, IncRow(row, activity, docs)
    PROVE  IncRow(row, activity', docs')
<1> DEFINE at == row.checkpoint
           k == (at.page - 1) * PageSize + at.offset
<1> SUFFICES ASSUME at.mode = "INCREMENTAL", ~row.payload.dry
             PROVE  Covered(activity', at.todate, at.page, at.offset, Done(activity', docs', at.todate))
  BY DEF IncRow
<1>1. /\ at \in Positions /\ Resumable(row, sync.initial) /\ at.todate <= now /\ at.todate \in Int
  <2>1. job.checkpoint \in Positions /\ ended.checkpoint \in Positions
    BY DEF SyncInv, JobTyped, JobRow, EndedRow
  <2> QED BY <2>1, TimesTyped DEF Base, Timed
<1>2. at.page # None
  BY <1>1 DEF Resumable
<1>3. at.page \in Nat \ {0} /\ at.offset \in Nat
  BY <1>1, <1>2 DEF Positions
<1>4. [mode |-> "INCREMENTAL", page |-> at.page, offset |-> at.offset, todate |-> at.todate] \in Unfinished
  BY RowUnfinished
<1>5. Covered(activity, at.todate, at.page, at.offset, Done(activity, docs, at.todate))
  BY DEF IncRow
<1> HIDE DEF at
<1>6. k \in Nat /\ k <= k
  BY <1>3, NextPage
<1>7. First(activity', at.todate, k) \subseteq First(activity, at.todate, k)
  BY <1>1, <1>3, <1>4, <1>6, SiteFirst
<1>8. Done(activity, docs, at.todate) \subseteq Done(activity', docs', at.todate)
  BY <1>1, SiteDone
<1> QED BY <1>5, <1>7, <1>8 DEF Covered

\* That of the state.
LEMMA IncStateSite ==
    ASSUME SyncInv, Base, Born, Calm, NEW q \in Questions, SiteActivity(q),
           IncState(sync, activity, docs)
    PROVE  IncState(sync, activity', docs')
<1> DEFINE k == (sync.page - 1) * PageSize + sync.offset
<1> SUFFICES ASSUME sync.mode = "INCREMENTAL"
             PROVE  /\ sync.todate # None
                    /\ Covered(activity', sync.todate, sync.page, sync.offset,
                               Done(activity', docs', sync.todate))
  BY DEF IncState
<1>1. /\ sync.todate <= now /\ sync.todate \in Int /\ sync.page \in Nat \ {0} /\ sync.offset \in Nat
  BY TimesTyped DEF SyncInv, SyncRow, Base, Timed
<1>2. sync.todate # None
      /\ Covered(activity, sync.todate, sync.page, sync.offset, Done(activity, docs, sync.todate))
  BY DEF IncState
<1>3. k \in Nat /\ k <= k
  BY <1>1, NextPage
<1>4. First(activity', sync.todate, k) \subseteq First(activity, sync.todate, k)
  BY <1>1, <1>3, StateUnfinished, SiteFirst
<1>5. Done(activity, docs, sync.todate) \subseteq Done(activity', docs', sync.todate)
  BY <1>1, SiteDone
<1> QED BY <1>2, <1>4, <1>5 DEF Covered

\* And that of a run.
LEMMA IncRunSite ==
    ASSUME SyncInv, Base, Born, Calm, NEW q \in Questions, SiteActivity(q),
           NEW w \in Workers, IncRun(pc[w], mem[w], activity, docs)
    PROVE  IncRun(pc[w], mem[w], activity', docs')
<1> DEFINE m == mem[w]
           place == pc[w]
           turn == IF m.page = m.start THEN m.offset ELSE 0
           D(k) == First(activity', m.todate, k) \subseteq First(activity, m.todate, k)
<1> SUFFICES ASSUME m.mode = "INCREMENTAL", ~m.dry
             PROVE  Run(place, m, activity', Done(activity', docs', m.todate))
  BY DEF IncRun
<1>1. Run(place, m, activity, Done(activity, docs, m.todate))
  BY DEF IncRun
<1>2. m \in MemRow /\ m.todate <= now /\ m.todate \in Int /\ AtPlace(place, m)
  BY AtWork, TimesTyped DEF Base, Steady, SyncInv, Handlers
<1>3. /\ Done(activity, docs, m.todate) \subseteq Done(activity', docs', m.todate)
      /\ \A r \in Questions : activity'[r] <= m.todate => activity[r] <= m.todate
  BY <1>2, SiteDone
<1>4. m.offset \in Nat /\ m.took \in Nat /\ m.page \in Nat
  BY <1>2 DEF MemRow
<1>5. place \in AtPage => m.page # 0
  BY <1>2 DEF AtPlace
<1>6. place # "idle" => [mode |-> "INCREMENTAL", page |-> m.page, offset |-> m.offset + m.took,
                         todate |-> m.todate] \in Unfinished
  BY RunUnfinished
<1> HIDE DEF m, place
<1>7. ASSUME place \in AtPage, NEW k \in Nat, k <= (m.page - 1) * PageSize + (m.offset + m.took)
      PROVE  D(k)
  <2>1. m.page \in Nat \ {0} /\ m.offset + m.took \in Nat /\ place # "idle"
    BY <1>4, <1>5, <1>7 DEF AtPage
  <2> QED BY <1>2, <1>6, <1>7, <2>1, SiteFirst
<1>8. ASSUME place \in AtPage
      PROVE  D((m.page - 1) * PageSize + turn) /\ D((m.page - 1) * PageSize + (m.offset + m.took))
  <2>1. m.page \in Nat \ {0}
    BY <1>4, <1>5, <1>8
  <2>2. (m.page - 1) * PageSize \in Nat
    BY <2>1, NextPage
  <2> HIDE DEF D
  <2>3. /\ (m.page - 1) * PageSize + turn \in Nat
        /\ (m.page - 1) * PageSize + (m.offset + m.took) \in Nat
        /\ (m.page - 1) * PageSize + turn <= (m.page - 1) * PageSize + (m.offset + m.took)
    BY <1>4, <2>2
  <2> QED BY <1>7, <1>8, <2>3
<1>9. place = "fetch" => D((m.page - 1) * PageSize + turn)
  BY <1>8 DEF AtPage
<1>10. place \in {"answers", "next", "ingest", "save"} => D((m.page - 1) * PageSize + (m.offset + m.took))
  BY <1>8 DEF AtPage
<1> QED BY <1>1, <1>3, <1>9, <1>10, RunLater

\* The types of the times that the invariant compares.
LEMMA KeptTyped ==
    ASSUME SyncInv
    PROVE  /\ now \in Nat /\ sync.watermark \in Int /\ Overlap \in Nat
           /\ sync.watermark # None => sync.watermark \in Nat
           /\ activity \in [Questions -> Nat]
           /\ \A todate \in WindowEnds : todate \in Int
<1>1. now \in Nat /\ sync.watermark \in Int /\ Overlap \in Nat /\ activity \in [Questions -> Nat]
  BY SyncAssumption DEF SyncInv, Tables, SyncRow, Times, None
<1>2. sync.watermark # None => sync.watermark \in Nat
  BY SyncAssumption DEF SyncInv, SyncRow, Times
<1> QED BY <1>1, <1>2, TimesTyped DEF WindowEnds

\* All windows end in the past.
LEMMA EndsPast ==
    ASSUME SyncInv, Base, Born
    PROVE  \A todate \in WindowEnds : todate <= now
  BY DEF WindowEnds, Born, Base, Timed, Steady

\* The site goes on.
LEMMA KeptSite ==
    ASSUME SyncInv, Base, Kept, Calm, NEW q \in Questions, SiteActivity(q)
    PROVE  Kept'
<1>1. /\ now \in Nat /\ now' = now + 1 /\ UNCHANGED <<docs, job, ended, sync, pc, mem>>
      /\ activity \in [Questions -> Nat] /\ activity' = [activity EXCEPT ![q] = now']
      /\ Created[q] <= now
  BY KeptTyped DEF SiteActivity, rows, Published
<1>2. activity'[q] = now + 1 /\ \A r \in Questions \ {q} : activity'[r] = activity[r]
  BY <1>1
<1>3. Born'
  <2>1. \A r \in Questions : Created[r] \in Int
    BY TimesTyped
  <2>2. sync.watermark <= now + 1
    BY <1>1, KeptTyped DEF Kept, Born
  <2> QED BY <1>1, <1>2, <2>1, <2>2 DEF Kept, Born
<1>4. Lossless'
  <2> SUFFICES ASSUME sync.watermark # None, NEW r \in Questions,
                      activity'[r] < sync.watermark - Overlap
               PROVE  r \in Done(activity', docs', sync.watermark)
    BY <1>1 DEF Lossless
  <2>1. sync.watermark <= now /\ sync.watermark \in Nat /\ Overlap \in Nat
    BY KeptTyped DEF Kept, Born
  <2>2. r # q
    BY <1>1, <1>2, <2>1
  <2>3. r \in Done(activity, docs, sync.watermark)
    BY <1>2, <2>2 DEF Kept, Lossless
  <2> QED BY <2>1, <2>3, SiteDone
<1>5. Follows'
  <2>1. Active' <=> Active
    BY <1>1 DEF Active
  <2>2. Active => IncRow(job, activity', docs')
    BY IncRowSite DEF Kept, Follows
  <2>3. IncRow(ended, activity', docs') /\ IncState(sync, activity', docs')
    BY IncRowSite, IncStateSite DEF Kept, Follows
  <2>4. \A w \in Workers : IncRun(pc[w], mem[w], activity', docs')
    BY IncRunSite DEF Kept, Follows
  <2> QED BY <1>1, <2>1, <2>2, <2>3, <2>4 DEF Follows
<1>6. ASSUME NEW w \in Workers
      PROVE  Since(pc[w], mem[w], sync.watermark) /\ Recent(mem[w].batch, activity', WindowEnds)
  <2>1. Since(pc[w], mem[w], sync.watermark) /\ Recent(mem[w].batch, activity, WindowEnds)
    BY DEF Kept
  <2>2. \A todate \in WindowEnds : activity'[q] > todate
    BY <1>1, <1>2, KeptTyped, EndsPast DEF Kept
  <2>3. \A n \in 1 .. Len(mem[w].batch) : mem[w].batch[n][1] \in Questions
    BY TimesTyped
  <2> QED BY <1>2, <2>1, <2>2, <2>3 DEF Recent
<1>7. WindowEnds' = WindowEnds
  BY <1>1 DEF WindowEnds
<1> QED BY <1>1, <1>3, <1>4, <1>5, <1>6, <1>7 DEF Kept

LEMMA KeptTick ==
    ASSUME SyncInv, Kept, Tick
    PROVE  Kept'
<1>1. /\ now \in Nat /\ now' = now + 1 /\ UNCHANGED <<activity, docs, job, ended, sync, pc, mem>>
  BY KeptTyped DEF Tick, rows
<1>2. Born'
  <2>1. \A r \in Questions : Created[r] \in Int
    BY TimesTyped
  <2>2. sync.watermark <= now + 1
    BY <1>1, KeptTyped DEF Kept, Born
  <2> QED BY <1>1, <2>1, <2>2 DEF Kept, Born
<1> QED BY <1>1, <1>2 DEF Kept, Lossless, Follows, Active, WindowEnds

\* A thread that is stored is the last version, or its question is past all windows.
LEMMA IngestDone ==
    ASSUME SyncInv, NEW w \in Workers, IngestOne(w), Recent(mem[w].batch, activity, WindowEnds),
           NEW todate \in WindowEnds
    PROVE  /\ Done(activity, docs, todate) \subseteq Done(activity', docs', todate)
           /\ Head(mem[w].batch)[1] \in Done(activity', docs', todate)
<1> DEFINE m == mem[w]
           question == m.batch[1]
<1>1. /\ m.batch \in Seq(Questions \X Times) /\ Len(m.batch) \in Nat \ {0}
      /\ question \in Questions \X Times /\ activity' = activity
      /\ docs' = IF question[1] \in Unusable THEN docs ELSE [docs EXCEPT ![question[1]] = question[2]]
  BY IngestFrame
<1>2. Head(m.batch) = question /\ question[1] \in Questions /\ docs \in [Questions -> Times \cup {None}]
  BY <1>1 DEF SyncInv, Tables
<1>3. question[2] = activity[question[1]] \/ activity[question[1]] > todate
  BY <1>1 DEF Recent
<1> HIDE DEF question
<1>4. question[1] \in Done(activity', docs', todate)
  BY <1>1, <1>2, <1>3 DEF Done
<1>5. \A r \in Questions : r # question[1] => docs'[r] = docs[r]
  BY <1>1, <1>2
<1>6. Done(activity, docs, todate) \subseteq Done(activity', docs', todate)
  BY <1>1, <1>4, <1>5 DEF Done
<1> QED BY <1>2, <1>4, <1>6

\* A step that leaves the site and the documents.
LEMMA KeptStep ==
    ASSUME SyncInv, Kept, UNCHANGED <<now, activity, docs>>, sync'.watermark = sync.watermark,
           Active' => IncRow(job', activity, docs),
           IncRow(ended', activity, docs), IncState(sync', activity, docs),
           \A w \in Workers : /\ IncRun(pc'[w], mem'[w], activity, docs)
                              /\ Since(pc'[w], mem'[w], sync.watermark)
                              /\ Recent(mem'[w].batch, activity, WindowEnds')
    PROVE  Kept'
<1>1. Born' /\ Lossless'
  BY DEF Kept, Born, Lossless
<1>2. Follows'
  BY DEF Follows
<1> QED BY <1>1, <1>2 DEF Kept

\* What a batch is when no new window was begun, or when it is empty.
LEMMA RecentStep ==
    ASSUME SyncInv, NEW batch, NEW ends, NEW others,
           \/ Recent(batch, activity, ends) /\ others \subseteq ends \cup {None}
           \/ batch = <<>>
           \/ \A n \in 1 .. Len(batch) : batch[n][2] = activity[batch[n][1]],
           \A n \in 1 .. Len(batch) : batch[n][1] \in Questions
    PROVE  Recent(batch, activity, others)
<1>1. \A q \in Questions : activity[q] > None
  BY KeptTyped DEF None
<1> QED BY <1>1 DEF Recent

\* A step of the worker that leaves the rows.
LEMMA KeptLocal ==
    ASSUME OneWorker, SyncInv, Kept, NEW w \in Workers, UNCHANGED <<now, activity, docs, job, ended, sync>>,
           IncRun(pc'[w], mem'[w], activity, docs), Since(pc'[w], mem'[w], sync.watermark),
           Recent(mem'[w].batch, activity, WindowEnds')
    PROVE  Kept'
<1>1. \A v \in Workers : v = w
  BY DEF OneWorker
<1>2. Active' <=> Active
  BY DEF Active
<1> QED BY <1>1, <1>2, KeptStep DEF Kept, Follows

\* What follows a row follows a copy of it.
LEMMA RowsFollowed ==
    ASSUME NEW row, NEW other, SameRow(row, other), IncRow(other, activity, docs)
    PROVE  IncRow(row, activity, docs)
  BY DEF IncRow, SameRow

\* Requests.
LEMMA KeptApi ==
    ASSUME StartsKeepWindows, SyncInv, Kept, Api
    PROVE  Kept'
<1>1. /\ UNCHANGED <<now, activity, docs, pc, mem>>
      /\ \/ /\ job'.checkpoint = NoCheckpoint /\ ended' = ended
            /\ sync' = sync \/ \E start \in Starts : /\ start[1] = "api"
                                                     /\ sync' = [sync EXCEPT !.mode = start[2]]
         \/ SameRow(job', ended) /\ ended' = ended /\ sync' = sync
         \/ /\ SameRow(job', job) /\ (SameRow(ended', ended) \/ SameRow(ended', job))
            /\ sync' = sync /\ Active
  BY ApiFrame
<1>2. /\ Active => IncRow(job, activity, docs)
      /\ IncRow(ended, activity, docs) /\ IncState(sync, activity, docs)
  BY DEF Kept, Follows
<1>3. IncRow(job', activity, docs) /\ IncRow(ended', activity, docs)
  <2>1. job'.checkpoint = NoCheckpoint => IncRow(job', activity, docs)
    BY DEF IncRow, NoCheckpoint
  <2> QED BY <1>1, <1>2, <2>1, RowsFollowed
<1>4. /\ IncState(sync', activity, docs)
      /\ sync'.watermark = sync.watermark /\ sync'.todate = sync.todate
  <2>1. CASE sync' = sync
    BY <1>2, <2>1
  <2>2. ASSUME NEW start \in Starts, start[1] = "api", sync' = [sync EXCEPT !.mode = start[2]]
        PROVE  /\ IncState(sync', activity, docs)
               /\ sync'.watermark = sync.watermark /\ sync'.todate = sync.todate
    <3>1. /\ sync'.mode = start[2] /\ start[2] # "INCREMENTAL"
          /\ sync'.watermark = sync.watermark /\ sync'.todate = sync.todate
      BY <2>2 DEF StartsKeepWindows, SyncInv, SyncRow
    <3> QED BY <3>1 DEF IncState
  <2> QED BY <1>1, <2>1, <2>2
<1>5. job'.checkpoint.todate \in WindowEnds \cup {None} /\ ended'.checkpoint.todate \in WindowEnds
  BY <1>1 DEF WindowEnds, SameRow, NoCheckpoint
<1>6. WindowEnds' \subseteq WindowEnds \cup {None}
  BY <1>1, <1>4, <1>5 DEF WindowEnds
<1>7. ASSUME NEW w \in Workers
      PROVE  /\ IncRun(pc'[w], mem'[w], activity, docs) /\ Since(pc'[w], mem'[w], sync.watermark)
             /\ Recent(mem'[w].batch, activity, WindowEnds')
  <2>1. /\ Recent(mem[w].batch, activity, WindowEnds)
        /\ \A n \in 1 .. Len(mem[w].batch) : mem[w].batch[n][1] \in Questions
    BY TimesTyped DEF Kept
  <2> QED BY <1>1, <1>6, <2>1, RecentStep DEF Kept, Follows
<1> QED BY <1>1, <1>3, <1>4, <1>7, KeptStep

\* A worker that claims the job, or leaves the handler, has no window.
LEMMA KeptNothing ==
    ASSUME OneWorker, SyncInv, Kept, NEW w \in Workers, UNCHANGED <<now, activity, docs>>,
           pc'[w] \in {"idle", "load"}, mem'[w].mode = "AUTO", mem'[w].batch = <<>>,
           sync'.watermark = sync.watermark, Active' => IncRow(job', activity, docs),
           IncRow(ended', activity, docs), IncState(sync', activity, docs)
    PROVE  Kept'
<1>1. \A v \in Workers : v = w
  BY DEF OneWorker
<1>2. IncRun(pc'[w], mem'[w], activity, docs) /\ Since(pc'[w], mem'[w], sync.watermark)
  BY DEF IncRun, Since
<1>3. Recent(mem'[w].batch, activity, WindowEnds')
  BY DEF Recent
<1> QED BY <1>1, <1>2, <1>3, KeptStep

LEMMA KeptClaim ==
    ASSUME OneWorker, SyncInv, Kept, NEW w \in Workers, Claim(w)
    PROVE  Kept'
<1>1. /\ SameRow(job', job) /\ pc'[w] = "load" /\ mem'[w].mode = "AUTO" /\ mem'[w].batch = <<>>
      /\ UNCHANGED <<now, activity, docs, ended, sync>>
  BY ClaimFrame
<1>2. Active
  BY DEF Claim, Active
<1>3. IncRow(job', activity, docs)
  BY <1>1, <1>2, RowsFollowed DEF Kept, Follows
<1> QED BY <1>1, <1>3, KeptNothing DEF Kept, Follows

\* Where an incremental run begins, it is done with what is behind it.
LEMMA BeginningDone ==
    ASSUME SyncInv, Base, Follows, ModesKept, NEW w \in Workers, Load(w), Owner(w),
           Resolved(job.payload.mode) = "INCREMENTAL", ~job.payload.dry
    PROVE  Covered(activity, Beginning.todate, Beginning.page, Beginning.offset,
                   Done(activity, docs, Beginning.todate))
<1> DEFINE at == job.checkpoint
           position == Position(job.payload, at)
           OK(p) == Covered(activity, p.todate, p.page, p.offset, Done(activity, docs, p.todate))
<1>1. Beginning = position
  BY DEF Beginning, RolledOver
<1>2. CASE at.page # None
  <2>1. at.mode = "INCREMENTAL" /\ Active
    BY <1>2, OwnerRuns DEF ModesKept, Load, Active
  <2>2. OK(at)
    BY <2>1 DEF Follows, IncRow
  <2>3. position.page = at.page /\ position.offset = at.offset /\ position.todate = at.todate
    BY <1>2 DEF Position
  <2> QED BY <1>1, <2>2, <2>3
<1>3. CASE at.page = None /\ Continues(job.payload)
  <2>1. sync.todate # None /\ OK(sync)
    BY <1>3 DEF Continues, Follows, IncState
  <2>2. position.page = sync.page /\ position.offset = sync.offset /\ position.todate = sync.todate
    BY <1>3, <2>1 DEF Position
  <2> QED BY <1>1, <2>1, <2>2
<1>4. CASE at.page = None /\ ~Continues(job.payload)
  <2>1. position.page = 1 /\ position.offset = 0
    BY <1>4 DEF Position
  <2> QED BY <1>1, <2>1, NothingBehind
<1> QED BY <1>2, <1>3, <1>4

\* A run begins with a window since the watermark.
LEMMA KeptLoad ==
    ASSUME OneWorker, SyncInv, Base, Kept, ModesKept, NEW w \in Workers, Load(w)
    PROVE  Kept'
<1>1. UNCHANGED <<now, activity, docs, job, ended, sync>>
  BY DEF Load, site, rows
<1>2. CASE ~Owner(w)
  <2>1. pc'[w] = "idle" /\ mem'[w] = Nothing
    BY <1>2 DEF Load, Escape, Goto, Learn, SyncInv, Handlers
  <2>2. mem'[w].mode = "AUTO" /\ mem'[w].batch = <<>>
    BY <2>1 DEF Nothing
  <2>3. Active' <=> Active
    BY <1>1 DEF Active
  <2> QED BY <1>1, <2>1, <2>2, <2>3, KeptNothing DEF Kept, Follows
<1>3. CASE Owner(w)
  <2> DEFINE m == mem'[w]
  <2>1. /\ m.mode = Resolved(job.payload.mode) /\ m.dry = job.payload.dry
        /\ m.todate = Beginning.todate /\ m.fromdate = FromDate(m.mode) /\ m.batch = <<>>
    BY <1>3, LoadFrame
  <2>2. job.payload.mode \in Modes
    BY <1>3, OwnerRuns
  <2>3. Beginning.page \in Nat /\ Beginning.todate # None
    BY <2>2, BeginningTimed
  <2>4. ASSUME m.mode = "INCREMENTAL", ~m.dry
        PROVE  Run(pc'[w], m, activity, Done(activity, docs, m.todate))
    <3>1. Covered(activity, Beginning.todate, Beginning.page, Beginning.offset,
                  Done(activity, docs, Beginning.todate))
      BY <1>3, <2>1, <2>4, BeginningDone DEF Kept
    <3>2. Run(pc'[w], mem'[w], activity, Done(activity, docs, Beginning.todate))
      BY <1>3, <2>3, <3>1, LoadRuns
    <3> QED BY <2>1, <3>2
  <2> HIDE DEF m
  <2>5. Since(pc'[w], m, sync.watermark)
    <3>1. m.fromdate = 0 \/ (sync.watermark # None /\ m.fromdate = sync.watermark - Overlap)
      BY <2>1 DEF FromDate
    <3>2. sync.watermark - Overlap \in Int
      BY KeptTyped
    <3> QED BY <3>1, <3>2 DEF Since
  <2>6. IncRun(pc'[w], m, activity, docs) /\ Recent(m.batch, activity, WindowEnds')
    BY <2>1, <2>4 DEF IncRun, Recent
  <2> QED BY <1>1, <2>5, <2>6, KeptLocal DEF m
<1> QED BY <1>2, <1>3

\* What is older than the window of an incremental run is done.
LEMMA OlderDone ==
    ASSUME SyncInv, Kept, NEW w \in Workers, pc[w] \notin {"idle", "load"}
    PROVE  Below(activity, mem[w].fromdate, mem[w].todate, Done(activity, docs, mem[w].todate))
<1> DEFINE m == mem[w]
<1> SUFFICES ASSUME NEW q \in Questions, activity[q] < m.fromdate, activity[q] <= m.todate
             PROVE  q \in Done(activity, docs, m.todate)
  BY DEF Below
<1>1. activity[q] \in Nat /\ m.fromdate \in Nat /\ m.todate \in Int /\ sync.watermark \in Int /\ Overlap \in Nat
  BY KeptTyped, TimesTyped, AtWork DEF MemRow
<1>2. sync.watermark # None /\ m.fromdate <= sync.watermark - Overlap
  BY <1>1 DEF Kept, Since
<1> HIDE DEF m
<1>3. activity[q] < sync.watermark - Overlap /\ ~(activity[q] > sync.watermark)
  BY <1>1, <1>2
<1>4. q \in Done(activity, docs, sync.watermark)
  BY <1>2, <1>3 DEF Kept, Lossless
<1> QED BY <1>3, <1>4 DEF Done

\* A request.
LEMMA KeptFetch ==
    ASSUME OneWorker, SyncInv, Base, Kept, NEW w \in Workers, Fetch(w)
    PROVE  Kept'
<1>1. Framed(pc[w], mem[w]) /\ mem[w].todate <= now /\ pc[w] = "fetch"
  BY DEF Base, Steady, Fetch
<1>2. /\ Fresh(mem'[w].batch, mem[w].batch)
      /\ mem'[w].mode = mem[w].mode /\ mem'[w].dry = mem[w].dry
      /\ mem'[w].todate = mem[w].todate /\ mem'[w].fromdate = mem[w].fromdate
      /\ UNCHANGED <<now, activity, docs, job, ended, sync>>
  BY <1>1, FetchFrame DEF site, rows
<1>3. ASSUME mem[w].mode = "INCREMENTAL", ~mem[w].dry
      PROVE  Run(pc'[w], mem'[w], activity, Done(activity, docs, mem[w].todate))
  <2>1. Run(pc[w], mem[w], activity, Done(activity, docs, mem[w].todate))
    BY <1>3 DEF Kept, Follows, IncRun
  <2>2. activity \in [Questions -> Int] /\ mem[w].todate \in Int /\ now \in Int
        /\ \A q \in Questions : activity[q] \in Int /\ Created[q] \in Int
    BY KeptTyped, TimesTyped
  <2>3. \A q \in Questions : /\ Date(Sort(mem[w]), q) = activity[q]
                             /\ activity[q] <= mem[w].todate => Created[q] <= now
    BY <1>1, <1>3, <2>2 DEF Date, Sort, Kept, Born
  <2>4. Below(activity, mem[w].fromdate, mem[w].todate, Done(activity, docs, mem[w].todate))
    BY <1>1, OlderDone
  <2> QED BY <1>1, <2>1, <2>2, <2>3, <2>4, FetchRuns
<1>4. IncRun(pc'[w], mem'[w], activity, docs)
  BY <1>2, <1>3 DEF IncRun
<1>5. Since(pc'[w], mem'[w], sync.watermark)
  BY <1>1, <1>2 DEF Kept, Since
<1>6. WindowEnds' = WindowEnds
  <2>1. \A v \in Workers : mem'[v].todate = mem[v].todate
    BY <1>2 DEF OneWorker
  <2> QED BY <1>2, <2>1 DEF WindowEnds
<1>7. Recent(mem'[w].batch, activity, WindowEnds')
  BY <1>2, <1>6 DEF Kept, Recent, Fresh
<1> QED BY <1>2, <1>4, <1>5, <1>7, KeptLocal

\* Between two requests.
LEMMA KeptThread ==
    ASSUME OneWorker, SyncInv, Kept, NEW w \in Workers, FetchAnswers(w) \/ NextQuestion(w)
    PROVE  Kept'
<1>1. /\ UNCHANGED <<now, activity, docs, job, ended, sync>> /\ mem' = mem
      /\ pc[w] \notin {"idle", "load"}
  BY DEF FetchAnswers, NextQuestion, site, rows
<1>2. ~mem[w].dry /\ Run(pc[w], mem[w], activity, Done(activity, docs, mem[w].todate))
        => Run(pc'[w], mem'[w], activity, Done(activity, docs, mem[w].todate))
  BY ThreadRuns
<1>3. IncRun(pc'[w], mem'[w], activity, docs)
  BY <1>1, <1>2 DEF IncRun, Kept, Follows
<1>4. Since(pc'[w], mem'[w], sync.watermark) /\ WindowEnds' = WindowEnds
  BY <1>1 DEF Kept, Since, WindowEnds
<1> QED BY <1>1, <1>3, <1>4, KeptLocal DEF Kept

\* A thread is stored.
LEMMA KeptIngest ==
    ASSUME OneWorker, SyncInv, Kept, NEW w \in Workers, IngestOne(w)
    PROVE  Kept'
<1>1. /\ mem[w].batch \in Seq(Questions \X Times) /\ Len(mem[w].batch) \in Nat \ {0}
      /\ mem'[w].batch = Tail(mem[w].batch) /\ SameRun(mem'[w], mem[w]) /\ pc[w] = "ingest"
      /\ UNCHANGED <<now, activity, job, ended, sync>>
  BY IngestFrame
<1>2. \A v \in Workers : v = w
  BY DEF OneWorker
<1>3. ASSUME NEW todate \in WindowEnds
      PROVE  /\ Done(activity, docs, todate) \subseteq Done(activity', docs', todate)
             /\ Head(mem[w].batch)[1] \in Done(activity', docs', todate)
  BY IngestDone DEF Kept
<1>4. Born' /\ Lossless'
  <2>1. sync.watermark \in WindowEnds
    BY DEF WindowEnds
  <2> QED BY <1>1, <1>3, <2>1 DEF Kept, Born, Lossless
<1>5. ASSUME NEW row, row.checkpoint.todate \in WindowEnds, IncRow(row, activity, docs)
      PROVE  IncRow(row, activity', docs')
  BY <1>1, <1>3, <1>5 DEF IncRow, Covered
<1>6. (Active => IncRow(job, activity', docs')) /\ IncRow(ended, activity', docs')
  <2>1. job.checkpoint.todate \in WindowEnds /\ ended.checkpoint.todate \in WindowEnds
    BY DEF WindowEnds
  <2> QED BY <1>5, <2>1 DEF Kept, Follows
<1>7. IncState(sync, activity', docs')
  <2>1. sync.todate \in WindowEnds
    BY DEF WindowEnds
  <2> QED BY <1>1, <1>3, <2>1 DEF Kept, Follows, IncState, Covered
<1>8. IncRun(pc'[w], mem'[w], activity', docs')
  <2>1. mem[w].todate \in WindowEnds
    BY DEF WindowEnds
  <2>2. Run(pc[w], mem[w], activity, Done(activity, docs, mem[w].todate))
          => Run(pc'[w], mem'[w], activity, Done(activity', docs', mem[w].todate))
    BY <1>3, <2>1, IngestRuns
  <2> QED BY <1>1, <2>2 DEF IncRun, SameRun, Kept, Follows
<1>9. Since(pc'[w], mem'[w], sync.watermark)
  BY <1>1 DEF Since, SameRun, Kept
<1>10. Recent(mem'[w].batch, activity', WindowEnds')
  <2>1. WindowEnds' = WindowEnds
    BY <1>1, <1>2 DEF WindowEnds, SameRun
  <2>2. \A n \in 1 .. Len(Tail(mem[w].batch)) : /\ n + 1 \in 1 .. Len(mem[w].batch)
                                               /\ Tail(mem[w].batch)[n] = mem[w].batch[n + 1]
    BY <1>1
  <2>3. Recent(mem[w].batch, activity, WindowEnds)
    BY DEF Kept
  <2>4. Recent(Tail(mem[w].batch), activity, WindowEnds)
    BY <2>2, <2>3 DEF Recent
  <2> QED BY <1>1, <2>1, <2>4
<1>11. Follows'
  BY <1>1, <1>2, <1>6, <1>7, <1>8 DEF Follows, Active
<1> QED BY <1>1, <1>2, <1>4, <1>9, <1>10, <1>11 DEF Kept

\* The progress that the owner saves has its past done.
LEMMA KeptSave ==
    ASSUME OneWorker, SyncInv, Base, Kept, NEW w \in Workers, SaveCheckpoint(w)
    PROVE  Kept'
<1>1. CASE ~Owner(w)
  <2>1. /\ UNCHANGED <<now, activity, docs, job, ended, sync>>
        /\ pc'[w] = "idle" /\ mem'[w] = Nothing
    BY <1>1 DEF SaveCheckpoint, site, Escape, Goto, Learn, SyncInv, Handlers
  <2>2. mem'[w].mode = "AUTO" /\ mem'[w].batch = <<>>
    BY <2>1 DEF Nothing
  <2>3. Active' <=> Active
    BY <2>1 DEF Active
  <2> QED BY <2>1, <2>2, <2>3, KeptNothing DEF Kept, Follows
<1>2. CASE Owner(w)
  <2> DEFINE m == mem[w]
             checkpoint == Checkpoint(m)
             G == Done(activity, docs, m.todate)
  <2>1. /\ checkpoint.mode = m.mode /\ checkpoint.todate = m.todate
        /\ job'.checkpoint = checkpoint /\ job'.payload = job.payload
        /\ sync' = IF m.dry THEN sync ELSE Progressed(m, checkpoint)
        /\ mem'[w].mode = m.mode /\ mem'[w].dry = m.dry /\ mem'[w].todate = m.todate
        /\ mem'[w].fromdate = m.fromdate /\ mem'[w].batch = <<>>
        /\ pc[w] = "save" /\ UNCHANGED <<now, activity, docs, ended>>
    BY <1>2, SaveFrame
  <2>2. Framed(pc[w], m) /\ m.dry = job.payload.dry /\ m.dry \in BOOLEAN /\ m.todate # None
    BY <1>2, <2>1, AtWork DEF Base, Steady, Framed, Serves, MemRow
  <2>3. \A v \in Workers : v = w
    BY DEF OneWorker
  <2> HIDE DEF checkpoint
  <2>4. ASSUME m.mode = "INCREMENTAL", ~m.dry
        PROVE  /\ Run(pc'[w], mem'[w], activity, G)
               /\ Covered(activity, m.todate, checkpoint.page, checkpoint.offset, G)
    <3>1. Run(pc[w], m, activity, G)
      BY <2>4 DEF Kept, Follows, IncRun
    <3>2. pc'[w] = "fetch" => m.consumed
      BY <2>4, <3>1, CutEnds
    <3> QED BY <1>2, <2>2, <3>1, <3>2, SaveRuns DEF checkpoint
  <2>5. IncRun(pc'[w], mem'[w], activity, docs)
    BY <2>1, <2>4 DEF IncRun
  <2>6. IncRow(job', activity, docs)
    BY <2>1, <2>2, <2>4 DEF IncRow
  <2>7. IncState(sync', activity, docs) /\ sync'.watermark = sync.watermark
    <3>1. CASE m.dry
      BY <2>1, <3>1 DEF Kept, Follows
    <3>2. CASE ~m.dry
      <4>1. /\ sync'.mode = m.mode /\ sync'.todate = m.todate /\ sync'.page = checkpoint.page
            /\ sync'.offset = checkpoint.offset /\ sync'.watermark = sync.watermark
        BY <2>1, <3>2 DEF Progressed, SyncInv, SyncRow
      <4> QED BY <2>2, <2>4, <3>2, <4>1 DEF IncState
    <3> QED BY <2>2, <3>1, <3>2
  <2>8. Since(pc'[w], mem'[w], sync.watermark) /\ Recent(mem'[w].batch, activity, WindowEnds')
    BY <2>1 DEF Since, Recent, Kept
  <2> QED BY <2>1, <2>3, <2>5, <2>6, <2>7, <2>8, KeptStep DEF Kept, Follows
<1> QED BY <1>1, <1>2

\* The row of a job is put aside only while the job is active.
LEMMA EndsActive ==
    ASSUME SyncInv, NEW w \in Workers, EndStep(w)
    PROVE  Active \/ UNCHANGED <<job, ended>>
<1>1. job.owner = w => Active
  BY SyncAssumption DEF SyncInv, JobTyped, Active
<1>2. CASE job.owner # w
  BY <1>2 DEF EndStep, Stopped, Lost, RequestFails, PageRefused, Finish, Crash, LoseLease, Owner, rows
<1> QED BY <1>1, <1>2

\* A run that completes an incremental synchronisation has done all of its window.
LEMMA CompletedKept ==
    ASSUME SyncInv, Base, Kept, NEW w \in Workers, pc[w] = "finish"
    PROVE  /\ Completed(mem[w]).watermark <= now
           /\ Completed(mem[w]).watermark # None =>
                  \A q \in Questions : activity[q] < Completed(mem[w]).watermark - Overlap =>
                      q \in Done(activity, docs, Completed(mem[w]).watermark)
<1> DEFINE m == mem[w]
           row == Completed(m)
<1>1. row.watermark = IF SyncComplete(m) /\ m.mode = "INCREMENTAL" THEN m.todate ELSE sync.watermark
  BY DEF Completed, SyncInv, SyncRow
<1>2. CASE SyncComplete(m) /\ m.mode = "INCREMENTAL"
  <2>1. ~m.dry /\ m.complete /\ ~TargetReached(m)
    BY <1>2 DEF SyncComplete, TargetReached
  <2>2. Whole(activity, m.todate, Done(activity, docs, m.todate))
    BY <1>2, <2>1 DEF Kept, Follows, IncRun, Run, AtEnd
  <2>3. m.todate <= now /\ m.todate \in Int /\ Overlap \in Nat /\ \A q \in Questions : activity[q] \in Nat
    BY TimesTyped, KeptTyped DEF Base, Steady
  <2>4. \A q \in Questions : activity[q] < m.todate - Overlap => activity[q] <= m.todate
    BY <2>3
  <2>5. row.watermark = m.todate
    BY <1>1, <1>2
  <2> HIDE DEF m, row
  <2> QED BY <2>2, <2>3, <2>4, <2>5 DEF Whole, row, m
<1>3. CASE ~(SyncComplete(m) /\ m.mode = "INCREMENTAL")
  BY <1>1, <1>3 DEF Kept, Born, Lossless
<1> QED BY <1>2, <1>3

\* However a run ends.
LEMMA KeptEnds ==
    ASSUME OneWorker, SyncInv, Base, Kept, NEW w \in Workers, EndStep(w)
    PROVE  Kept'
<1>1. /\ UNCHANGED <<now, activity, docs>> /\ (CutShort(w) \/ Leaves(w))
      /\ SameRow(job', job) /\ (SameRow(ended', ended) \/ SameRow(ended', job))
  BY EndsFrame DEF RowsFollow
<1>2. Active \/ UNCHANGED <<job, ended>>
  BY EndsActive
<1>3. \A v \in Workers : v = w
  BY DEF OneWorker
<1>4. /\ Active => IncRow(job, activity, docs)
      /\ IncRow(ended, activity, docs) /\ IncState(sync, activity, docs)
      /\ IncRun(pc[w], mem[w], activity, docs)
  BY DEF Kept, Follows
<1>5. (Active' => IncRow(job', activity, docs)) /\ IncRow(ended', activity, docs)
  <2>1. CASE Active
    BY <1>1, <1>4, <2>1, RowsFollowed
  <2>2. CASE UNCHANGED <<job, ended>>
    BY <1>4, <2>2 DEF Active
  <2> QED BY <1>2, <2>1, <2>2
<1>6. /\ job'.checkpoint.todate \in WindowEnds /\ ended'.checkpoint.todate \in WindowEnds
      /\ \A n \in 1 .. Len(mem[w].batch) : mem[w].batch[n][1] \in Questions
  BY <1>1, TimesTyped DEF WindowEnds, SameRow
<1>7. ASSUME sync' = sync, mem'[w].todate = mem[w].todate, mem'[w].batch = mem[w].batch
      PROVE  Recent(mem'[w].batch, activity, WindowEnds')
  <2>1. WindowEnds' \subseteq WindowEnds \cup {None}
    BY <1>3, <1>6, <1>7 DEF WindowEnds
  <2> QED BY <1>6, <1>7, <2>1, RecentStep DEF Kept
<1>8. CASE CutShort(w)
  <2>1. /\ sync' = sync /\ pc[w] \in {"fetch", "answers", "next", "ingest", "save"} /\ pc'[w] = "finish"
        /\ SameRun(mem'[w], mem[w]) /\ mem'[w].batch = mem[w].batch
    BY <1>8 DEF CutShort
  <2>2. PICK code : Ends(w, code)
    BY <1>8 DEF CutShort
  <2>3. Run(pc[w], mem[w], activity, Done(activity, docs, mem[w].todate))
          => Run(pc'[w], mem'[w], activity, Done(activity, docs, mem[w].todate))
    BY <2>1, <2>2, EndsRuns
  <2>4. IncRun(pc'[w], mem'[w], activity, docs)
    BY <1>4, <2>1, <2>3 DEF IncRun, SameRun
  <2>5. Since(pc'[w], mem'[w], sync.watermark)
    BY <2>1 DEF Since, SameRun, Kept
  <2>6. Recent(mem'[w].batch, activity, WindowEnds')
    BY <1>7, <2>1 DEF SameRun
  <2> QED BY <1>1, <1>3, <1>4, <1>5, <2>1, <2>4, <2>5, <2>6, KeptStep
<1>9. CASE Leaves(w) /\ sync' = sync
  <2>1. (pc'[w] = "idle" /\ mem'[w] = Nothing) \/ (pc'[w] = pc[w] /\ mem'[w] = mem[w])
    BY <1>9 DEF Leaves
  <2>2. CASE pc'[w] = "idle" /\ mem'[w] = Nothing
    <3>1. mem'[w].mode = "AUTO" /\ mem'[w].batch = <<>>
      BY <2>2 DEF Nothing
    <3> QED BY <1>1, <1>4, <1>5, <1>9, <2>2, <3>1, KeptNothing
  <2>3. CASE pc'[w] = pc[w] /\ mem'[w] = mem[w]
    <3>1. Since(pc'[w], mem'[w], sync.watermark) /\ Recent(mem'[w].batch, activity, WindowEnds')
      BY <1>7, <1>9, <2>3 DEF Kept
    <3> QED BY <1>1, <1>3, <1>4, <1>5, <1>9, <2>3, <3>1, KeptStep
  <2> QED BY <2>1, <2>2, <2>3
<1>10. CASE Leaves(w) /\ sync' # sync
  <2>1. /\ pc[w] = "finish" /\ sync' = Completed(mem[w])
        /\ pc'[w] = "idle" /\ mem'[w] = Nothing
    BY <1>10 DEF Leaves
  <2>2. sync'.mode = "NONE"
    BY <1>10, <2>1 DEF Completed, SyncInv, SyncRow
  <2>3. mem'[w].mode = "AUTO" /\ mem'[w].batch = <<>>
    BY <2>1 DEF Nothing
  <2>4. Born' /\ Lossless'
    BY <1>1, <2>1, CompletedKept DEF Kept, Born, Lossless
  <2>5. IncRun(pc'[w], mem'[w], activity', docs') /\ IncState(sync', activity', docs')
    BY <2>2, <2>3 DEF IncRun, IncState
  <2>6. Follows'
    BY <1>1, <1>3, <1>5, <2>5 DEF Follows
  <2>7. Since(pc'[w], mem'[w], sync'.watermark) /\ Recent(mem'[w].batch, activity', WindowEnds')
    BY <2>1, <2>3 DEF Since, Recent
  <2> QED BY <1>3, <2>4, <2>6, <2>7 DEF Kept
<1> QED BY <1>1, <1>8, <1>9, <1>10

LEMMA KeptNext ==
    ASSUME OneWorker, Calm, StartsKeepWindows
    PROVE  SyncInv /\ Base /\ Kept /\ [Next]_vars /\ ModesKept => Kept'
<1> SUFFICES ASSUME SyncInv, Base, Kept, [Next]_vars, ModesKept PROVE Kept'
  OBVIOUS
<1>1. CASE UNCHANGED vars
  BY <1>1 DEF vars, site, rows, Kept, Born, Lossless, Follows, Active, WindowEnds
<1>2. ASSUME NEW w \in Workers, Handler(w) \/ Faults(w) PROVE Kept'
  BY <1>2, KeptClaim, KeptLoad, KeptFetch, KeptThread, KeptIngest, KeptSave, KeptEnds
     DEF Handler, Faults, EndStep
<1> QED BY <1>1, <1>2, KeptApi, KeptSite, KeptTick DEF Next

LEMMA KeptInit == Init => Kept
<1> SUFFICES ASSUME Init PROVE Kept
  OBVIOUS
<1>1. Today \in Nat /\ sync.watermark = None /\ activity = Created /\ now = Today /\ ~Active
  BY SyncAssumption DEF Init, Active
<1>2. Born /\ Lossless
  BY <1>1 DEF Born, Lossless, None
<1>3. \A w \in Workers : pc[w] = "idle" /\ mem[w].mode = "AUTO" /\ mem[w].batch = <<>>
  BY DEF Init, Nothing
<1>4. Follows
  BY <1>1, <1>3 DEF Follows, IncRow, IncState, IncRun, Init, NoCheckpoint
<1> QED BY <1>2, <1>3, <1>4 DEF Kept, Since, Recent

LEMMA KeptMeans ==
    ASSUME SyncInv, Kept
    PROVE  NothingLost
<1> SUFFICES ASSUME sync.watermark # None, NEW q \in Usable
             PROVE  docs[q] = activity[q] \/ activity[q] >= sync.watermark - Overlap
  BY DEF NothingLost
<1>1. q \in Questions /\ q \notin Unusable
  BY DEF Usable, Published
<1>2. activity[q] \in Nat /\ sync.watermark \in Int /\ Overlap \in Nat
  BY <1>1, KeptTyped
<1>3. activity[q] < sync.watermark - Overlap => docs[q] = activity[q] \/ activity[q] > sync.watermark
  BY <1>1 DEF Kept, Lossless, Done
<1> QED BY <1>2, <1>3

\* The watermark loses nothing: for any site whose questions behind an unfinished
\* incremental traversal stay as they are, any page size, caps, target, crashes, lost
\* leases and requests, with the one worker that is deployed, as long as the API is not
\* asked for INCREMENTAL by name in the middle of an initial run, and no run goes on
\* from a checkpoint of the other mode.
THEOREM NothingLostCorrect ==
    ASSUME OneWorker, Calm, StartsKeepWindows
    PROVE  Spec /\ []ModesKept => []NothingLost
<1> DEFINE Inv == SyncInv /\ Base /\ Kept
<1>1. Init => Inv
  BY InitTyped, BaseInit, KeptInit
<1>2. Inv /\ [Next]_vars /\ ModesKept => Inv'
  BY NextTyped, BaseNext, KeptNext
<1>3. Inv => NothingLost
  BY KeptMeans
<1> HIDE DEF Inv
<1> QED BY <1>1, <1>2, <1>3, PTL DEF Spec

\* When every start names its mode, a retry has the mode of its checkpoint.
StartsNameModes == \A start \in Starts : start[2] # "AUTO"

Named == job.payload.mode # "AUTO" /\ ended.payload.mode # "AUTO"

LEMMA NamedNext ==
    ASSUME StartsNameModes
    PROVE  SyncInv /\ Named /\ [Next]_vars => Named'
<1> SUFFICES ASSUME SyncInv, Named, [Next]_vars PROVE Named'
  OBVIOUS
<1>1. CASE UNCHANGED vars
  BY <1>1 DEF vars, rows, Named
<1>2. ASSUME NEW start \in Starts, NEW cap \in Caps, NEW dry \in BOOLEAN,
             StartSync(start[1], start[2], cap, dry)
      PROVE  Named'
  <2>1. job'.payload.mode = start[2] /\ ended' = ended
    BY <1>2 DEF StartSync, NewJob
  <2> QED BY <2>1 DEF StartsNameModes, Named
<1>3. CASE RetryJob
  BY <1>3 DEF RetryJob, NewJob, Named
<1>4. CASE CancelJob
  <2>1. SameRow(job', job) /\ (SameRow(ended', ended) \/ SameRow(ended', job))
    <3>1. CASE job.status = "QUEUED"
      BY <1>4, <3>1, ClosedRows DEF CancelJob
    <3>2. CASE job.status # "QUEUED"
      BY <1>4, <3>2 DEF CancelJob, SameRow, SyncInv, JobTyped, JobRow
    <3> QED BY <3>1, <3>2
  <2> QED BY <2>1 DEF Named, SameRow
<1>5. ASSUME NEW w \in Workers, EndStep(w) PROVE Named'
  BY <1>5, EndsFrame DEF RowsFollow, SameRow, Named
<1>6. ASSUME NEW w \in Workers, Claim(w) \/ SaveCheckpoint(w) PROVE Named'
  BY <1>6 DEF Claim, SaveCheckpoint, SyncInv, JobTyped, JobRow, Named
<1>7. ASSUME NEW w \in Workers,
             Load(w) \/ Fetch(w) \/ FetchAnswers(w) \/ NextQuestion(w) \/ IngestOne(w)
      PROVE  Named'
  BY <1>7 DEF Load, Fetch, FetchAnswers, NextQuestion, IngestOne, rows, Named
<1>8. CASE (\E q \in Questions : SiteActivity(q)) \/ Tick
  BY <1>8 DEF SiteActivity, Tick, rows, Named
<1> QED BY <1>1, <1>2, <1>3, <1>4, <1>5, <1>6, <1>7, <1>8
        DEF Next, Api, Handler, Faults, EndStep

LEMMA NamedKeeps == SyncInv /\ Base /\ Named => ModesKept
<1> SUFFICES ASSUME SyncInv, Base, Named, NEW w \in Workers, Owner(w), job.checkpoint.page # None
             PROVE  job.checkpoint.mode = Resolved(job.payload.mode)
  BY DEF ModesKept
<1>1. job.checkpoint.mode # "AUTO" /\ job.payload.mode \in {"AUTO", job.checkpoint.mode}
  BY DEF Base, Resumable
<1> QED BY <1>1 DEF Named, Resolved

\* The watermark loses nothing when every start names its mode, retries included.
THEOREM NothingLostNamed ==
    ASSUME OneWorker, Calm, StartsKeepWindows, StartsNameModes
    PROVE  Spec => []NothingLost
<1> DEFINE Inv == SyncInv /\ Base /\ Named
<1>1. Init => Inv
  BY InitTyped, BaseInit DEF Init, NoPayload, Named
<1>2. Inv /\ [Next]_vars => Inv'
  BY NextTyped, BaseNext, NamedNext
<1>3. Inv => ModesKept
  BY NamedKeeps
<1>4. Spec /\ []ModesKept => []NothingLost
  BY NothingLostCorrect
<1> HIDE DEF Inv
<1> QED BY <1>1, <1>2, <1>3, <1>4, PTL DEF Spec

=============================================================================
