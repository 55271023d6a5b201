-------------------------------- MODULE Rag ---------------------------------
(***************************************************************************)
(* Answers of the local model (services/rag.py): calls of /ask and         *)
(* /ask/stream that search, write a row of rag_responses with its sources, *)
(* pass the inference gate, generate and complete the row, beside the      *)
(* ingestion, which replaces the chunks that the sources refer to.         *)
(*                                                                         *)
(* A call is cut at the places where it waits.  The event loop, asyncio's  *)
(* semaphore and the ASGI server, which cancels the handler of a client    *)
(* that went away, are external; so is the model behind Ollama.            *)
(***************************************************************************)
EXTENDS Integers, FiniteSets, Sequences, SequencesExt

CONSTANTS
    Calls,        \* requests to /ask and /ask/stream
    Keys,         \* values of clientRequestId
    KeyOf,        \* the key of each call
    Docs,         \* documents that the search can return, of one chunk each
    Capacity,     \* LLM_MAX_CONCURRENT_REQUESTS
    QueueLimit,   \* LLM_QUEUE_LIMIT
    MaxVersion,   \* bound: contents of a thread on the site
    FaultBudget   \* bound: database errors, repeated cancellations and crashes of the API

ASSUME RagAssumption ==
    /\ IsFiniteSet(Calls) /\ KeyOf \in [Calls -> Keys]
    /\ Capacity \in Nat \ {0} /\ QueueLimit \in Nat
    /\ MaxVersion \in Nat \ {0} /\ FaultBudget \in Nat

VARIABLES
    row,     \* rag_responses with rag_response_sources, by request_id
    call,    \* where each call is, the passages it found, the status it will record
    gate,    \* the inference gate and its semaphore
    thread,  \* the content of each thread on the site
    chunk,   \* the content whose chunk is in document_chunks
    faults

vars == <<row, call, gate, thread, chunk, faults>>
documents == <<thread, chunk>>

Terminal == {"COMPLETED", "FAILED", "CANCELLED"}

\* A chunk, by its document and the content it was made of.
Passage == Docs \X (1 .. MaxVersion)

ResponseRow == [status : {"none", "GENERATING"} \cup Terminal,
                sources : SUBSET Passage]

NoRow == [status |-> "none", sources |-> {}]
NewCall == [place |-> "idle", found |-> {}, outcome |-> "none"]
Over == {"idle", "done"}

Spend == faults < FaultBudget /\ faults' = faults + 1

Place(c) == call[c].place
Row(c) == row[KeyOf[c]]

Goto(c, place) == call' = [call EXCEPT ![c].place = place]
EndCall(c) == call' = [call EXCEPT ![c] = [NewCall EXCEPT !.place = "done"]]
Record(c, status) == call' = [call EXCEPT ![c] = [@ EXCEPT !.place = "mark", !.outcome = status]]

-----------------------------------------------------------------------------
(* prepare_rag: one session, with a commit before the search.              *)

\* A key that has a row is answered from it or refused with 409; a guest, or a
\* client over its rate, is refused too.
Begin(c) ==
    /\ Place(c) = "idle"
    /\ \/ EndCall(c)
       \/ Row(c) = NoRow /\ Goto(c, "search")
    /\ UNCHANGED <<row, gate, documents, faults>>

\* What either query finds.  The index may lag behind: it still returns points of
\* chunks that were replaced.
Points == UNION {{d} \X (1 .. chunk[d]) : d \in Docs}

\* Fusion keeps the best of both lists, up to a limit.
Fused == SUBSET Points

\* _hydrate keeps what PostgreSQL still has.
Visible(points) == {p \in points : chunk[p[1]] = p[2]}

\* Ranked, grouped by document and cut to one page.
Page(points) == SUBSET points

\* _load_passages reads the chunks again after the reranker has answered.
Loaded(results) == Visible(results)

\* The builder drops what overlaps or exceeds its budget.
Context(passages) == SUBSET passages

\* Without an active index, Qdrant, the embedding or the required reranker a call ends
\* with 503.
Search(c) ==
    /\ Place(c) = "search"
    /\ \/ EndCall(c)
       \/ \E points \in Fused : \E results \in Page(Visible(points)) :
          \E sources \in Context(Loaded(results)) :
            call' = [call EXCEPT ![c].place = "insert", ![c].found = sources]
    /\ UNCHANGED <<row, gate, documents, faults>>

\* Mutant: request_id is not unique.
NeverConflicts(c) == FALSE

\* request_id is unique.
Conflicts(c) == Row(c) # NoRow

\* A source refers to a chunk by a foreign key.
ChunksExist(c) == \A passage \in call[c].found : chunk[passage[1]] = passage[2]

\* The row and its sources, in one transaction.  With too little context the answer
\* is fixed and the row complete; otherwise the model is asked.
InsertRow(c) ==
    /\ Place(c) = "insert" /\ ~Conflicts(c) /\ ChunksExist(c)
    /\ \E insufficient \in BOOLEAN :
         /\ call[c].found = {} => insufficient
         /\ row' = [row EXCEPT ![KeyOf[c]] =
                      [status |-> IF insufficient THEN "COMPLETED" ELSE "GENERATING",
                       sources |-> call[c].found]]
         /\ IF insufficient THEN EndCall(c) ELSE Goto(c, "sources")
    /\ UNCHANGED <<gate, documents, faults>>

\* A violated key or foreign key is an error nobody handles.
InsertFails(c) ==
    /\ Place(c) = "insert" /\ (Conflicts(c) \/ ~ChunksExist(c))
    /\ EndCall(c)
    /\ UNCHANGED <<row, gate, documents, faults>>

\* stream_question sends the sources before its try statement begins.
SendSources(c) ==
    /\ Place(c) = "sources"
    /\ Goto(c, "gate")
    /\ UNCHANGED <<row, gate, documents, faults>>

-----------------------------------------------------------------------------
(* InferenceGate.slot over asyncio.Semaphore, which serves its waiters in  *)
(* turn: "queue" are those without a slot, "granted" those that have got   *)
(* one and have not run yet.                                               *)

OpenGate == [free |-> Capacity, active |-> 0, waiting |-> 0, queue |-> <<>>, granted |-> {}]

\* The first in the queue get the free slots, no more than "most".
Woken(g, most) ==
    LET n == Min({most, g.free, Len(g.queue)})
    IN [g EXCEPT !.free = @ - n, !.granted = @ \cup {g.queue[i] : i \in 1 .. n},
                 !.queue = SubSeq(@, n + 1, Len(@))]

\* Nobody overtakes a waiter, not even one that has its slot.
Locked == gate.free = 0 \/ gate.queue # <<>> \/ gate.granted # {}

\* Mutant: off by one.
OverLimit == gate.waiting > QueueLimit

QueueFull == gate.waiting >= QueueLimit

EnterGate(c) ==
    /\ Place(c) = "gate"
    /\ \/ /\ Locked /\ QueueFull
          /\ Record(c, "FAILED") /\ UNCHANGED gate
       \/ /\ Locked /\ ~QueueFull
          /\ Goto(c, "wait")
          /\ gate' = [gate EXCEPT !.queue = Append(@, c), !.waiting = @ + 1]
       \/ /\ ~Locked
          /\ Goto(c, "generate")
          /\ gate' = [gate EXCEPT !.free = @ - 1, !.active = @ + 1]
    /\ UNCHANGED <<row, documents, faults>>

Dequeued(c) ==
    [gate EXCEPT !.queue = RemoveFirst(@, c), !.granted = @ \ {c}, !.waiting = @ - 1]

\* Whoever leaves the queue wakes all that came meanwhile and had to wait their turn.
Resume(c) ==
    /\ Place(c) = "wait" /\ c \in gate.granted
    /\ Goto(c, "generate")
    /\ gate' = [Woken(Dequeued(c), Capacity) EXCEPT !.active = @ + 1]
    /\ UNCHANGED <<row, documents, faults>>

\* Mutant: the count of waiting calls is only taken back when the wait succeeds.
GaveUpCounted(c) ==
    Woken([Dequeued(c) EXCEPT !.free = @ + (IF c \in gate.granted THEN 1 ELSE 0),
                              !.waiting = @ + 1], Capacity)

\* A slot that was granted to a call which gives up goes to the next.
GaveUp(c) ==
    Woken([Dequeued(c) EXCEPT !.free = @ + (IF c \in gate.granted THEN 1 ELSE 0)], Capacity)

LeaveQueue(c, status) ==
    /\ Place(c) = "wait"
    /\ Record(c, status)
    /\ gate' = GaveUp(c)
    /\ UNCHANGED <<row, documents, faults>>

\* LLM_QUEUE_TIMEOUT.
QueueTimeout(c) == LeaveQueue(c, "FAILED")

\* Mutant: the semaphore is not released.
LeftActive == [gate EXCEPT !.active = @ - 1]

Left == Woken([gate EXCEPT !.active = @ - 1, !.free = @ + 1], 1)

-----------------------------------------------------------------------------
(* Generation and the end of a call.                                       *)

\* The model answers to its end, or fails: too long, a timeout, no stream.
Generate(c) ==
    /\ Place(c) = "generate"
    /\ gate' = Left
    /\ Goto(c, "complete") \/ Record(c, "FAILED")
    /\ UNCHANGED <<row, documents, faults>>

Complete(c) ==
    /\ Place(c) = "complete"
    /\ row' = [row EXCEPT ![KeyOf[c]].status = "COMPLETED"]
    /\ Goto(c, "respond")
    /\ UNCHANGED <<gate, documents, faults>>

Respond(c) ==
    /\ Place(c) = "respond"
    /\ EndCall(c)
    /\ UNCHANGED <<row, gate, documents, faults>>

\* Mutant: the status is written whatever it is by then.
AnyMarked(r, status) == [r EXCEPT !.status = status]

\* _mark_terminal leaves a row alone that is complete.
Marked(r, status) == IF r.status = "GENERATING" THEN [r EXCEPT !.status = status] ELSE r

Mark(c) ==
    /\ Place(c) = "mark"
    /\ row' = [row EXCEPT ![KeyOf[c]] = Marked(@, call[c].outcome)]
    /\ EndCall(c)
    /\ UNCHANGED <<gate, documents, faults>>

\* The client went away and the call is cancelled where it waits.  Before the try
\* statement nothing is recorded.
Cancel(c) ==
    \/ /\ Place(c) \in {"search", "insert", "sources"}
       /\ EndCall(c)
       /\ UNCHANGED <<row, gate, documents, faults>>
    \/ LeaveQueue(c, "CANCELLED")
    \/ /\ Place(c) = "generate"
       /\ gate' = Left
       /\ Record(c, "CANCELLED")
       /\ UNCHANGED <<row, documents, faults>>
    \/ /\ Place(c) \in {"complete", "respond"}
       /\ Record(c, "CANCELLED")
       /\ UNCHANGED <<row, gate, documents, faults>>

\* It may also go away while the generator is suspended at a yield, which raises
\* GeneratorExit, or when _complete has set the status without a commit, which the
\* session then takes for the row's: neither records anything, and the slot is released.
Abandon(c) ==
    /\ Place(c) \in {"generate", "complete"}
    /\ gate' = IF Place(c) = "generate" THEN Left ELSE gate
    /\ EndCall(c)
    /\ UNCHANGED <<row, documents, faults>>

\* A database error ends the call, and so does a cancellation that comes again while
\* _mark_terminal waits.
StepFails(c) ==
    /\ Place(c) \in {"search", "insert", "sources", "complete", "respond", "mark"}
    /\ Spend
    /\ EndCall(c)
    /\ UNCHANGED <<row, gate, documents>>

\* The API process dies; its rows stay as they are.
Crash ==
    /\ \E c \in Calls : Place(c) \notin Over
    /\ Spend
    /\ call' = [c \in Calls |-> IF Place(c) \in Over THEN call[c] ELSE [NewCall EXCEPT !.place = "done"]]
    /\ gate' = OpenGate
    /\ UNCHANGED <<row, documents>>

-----------------------------------------------------------------------------
(* The documents.                                                          *)

SiteChanges(d) ==
    /\ thread[d] < MaxVersion
    /\ thread' = [thread EXCEPT ![d] = @ + 1]
    /\ UNCHANGED <<row, call, gate, chunk, faults>>

\* Mutant: no foreign key from the sources to the chunks.
AlwaysReplaceable(d) == TRUE

\* rag_response_sources.chunk_id restricts the deletion of a chunk.
Replaceable(d) == \A k \in Keys : \A source \in row[k].sources : source[1] # d

\* _replace_chunks deletes the chunks of a changed document; where that is refused the
\* ingestion of the thread fails and leaves the document as it was.
Reingest(d) ==
    /\ chunk[d] # thread[d] /\ Replaceable(d)
    /\ chunk' = [chunk EXCEPT ![d] = thread[d]]
    /\ UNCHANGED <<row, call, gate, thread, faults>>

-----------------------------------------------------------------------------
Init ==
    /\ row = [k \in Keys |-> NoRow]
    /\ call = [c \in Calls |-> NewCall]
    /\ gate = OpenGate
    /\ thread = [d \in Docs |-> 1] /\ chunk = thread
    /\ faults = 0

Proceed(c) ==
    \/ Search(c) \/ InsertRow(c) \/ InsertFails(c) \/ SendSources(c)
    \/ EnterGate(c) \/ Resume(c)
    \/ Generate(c) \/ Complete(c) \/ Respond(c) \/ Mark(c)

Next ==
    \/ \E c \in Calls : Begin(c) \/ Proceed(c) \/ QueueTimeout(c)
                        \/ Cancel(c) \/ Abandon(c) \/ StepFails(c)
    \/ Crash
    \/ \E d \in Docs : SiteChanges(d) \/ Reingest(d)

\* The event loop runs what is ready, the timeouts of httpx end every request to the
\* model, and each thread is ingested again and again; a queue timeout is not owed.
Fairness ==
    /\ \A c \in Calls : WF_vars(Proceed(c))
    /\ \A d \in Docs : WF_vars(Reingest(d))

Spec == Init /\ [][Next]_vars /\ Fairness

-----------------------------------------------------------------------------
(* Properties.                                                             *)

At(places) == {c \in Calls : Place(c) \in places}

\* Types, with the bounds of the gate: never more calls generating or waiting than
\* its settings allow.
RagTypeOK ==
    /\ row \in [Keys -> ResponseRow]
    /\ \A c \in Calls : call[c].found \subseteq Passage
    /\ gate.active \in 0 .. Capacity /\ gate.free \in 0 .. Capacity
    /\ gate.waiting \in 0 .. QueueLimit
    /\ thread \in [Docs -> 1 .. MaxVersion] /\ chunk \in [Docs -> 1 .. MaxVersion]

\* The counters of the gate are those of the calls, no slot of the semaphore is lost or
\* handed out twice, and none lies free beside a waiter unless a woken call is about to
\* see to it, through timeouts, cancellations and grants that come too late.
GateBalanced ==
    /\ gate.active = Cardinality(At({"generate"}))
    /\ gate.waiting = Cardinality(At({"wait"}))
    /\ gate.free + gate.active + Cardinality(gate.granted) = Capacity
    /\ gate.queue # <<>> /\ gate.free > 0 => gate.granted # {}

\* However many calls come with one clientRequestId, and when, one of them at most
\* asks the model.
OneGeneration ==
    \A c, e \in At({"sources", "gate", "wait", "generate", "complete"}) :
        KeyOf[c] = KeyOf[e] => c = e

\* An answer that was recorded, and its sources, never change: not by a late
\* cancellation and not by another call with its key.
TerminalIsFinal ==
    [][\A k \in Keys : row[k].status \in Terminal => row'[k] = row[k]]_vars

\* What an answer cites is there as it was cited.
CitationsHold ==
    \A k \in Keys : \A source \in row[k].sources : chunk[source[1]] = source[2]

\* A call that waits at the gate is let in or gives up, even if no queue timeout fires.
WaitersServed == \A c \in Calls : Place(c) = "wait" ~> Place(c) # "wait"

\* A row that is not finished has a call that works on it (what docs/rag-architecture.md
\* says of a disconnect).
UnfinishedIsLive ==
    \A k \in Keys : row[k].status = "GENERATING" =>
        \E c \in Calls : KeyOf[c] = k /\ Place(c) \notin Over

\* A change of a thread replaces the chunks of its document (what
\* docs/stage5-ingestion.md says of it).
ChangesArrive == \A d \in Docs : chunk[d] # thread[d] ~> chunk[d] = thread[d]

=============================================================================
