----------------------------- MODULE RagProofs ------------------------------
(***************************************************************************)
(* What holds of Rag for any finite number of calls, any keys, documents,  *)
(* capacity and limit of the gate: one generation per key, final answers,  *)
(* citations that hold, and a gate that loses no slot.                     *)
(***************************************************************************)
EXTENDS Rag, FiniteSetTheorems, SequenceTheorems, TLAPS

Asking == {"sources", "gate", "wait", "generate", "complete"}

\* The places of a call that has written the row of its key.
Owning == Asking \cup {"respond", "mark"}

CallRow == [place : Owning \cup Over \cup {"search", "insert"}, found : SUBSET Passage,
            outcome : {"none", "FAILED", "CANCELLED"}]

GateRow == [free : Nat, active : Nat, waiting : Nat, queue : Seq(Calls), granted : SUBSET Calls]

\* The types of all the state but the budget.
Typed ==
    /\ row \in [Keys -> ResponseRow] /\ call \in [Calls -> CallRow] /\ gate \in GateRow
    /\ thread \in [Docs -> 1 .. MaxVersion] /\ chunk \in [Docs -> 1 .. MaxVersion]

\* One call owns a row, and it is unfinished while that call asks the model.
Rows ==
    /\ \A c \in Calls : Place(c) \in Owning => Row(c).status # "none"
    /\ \A c \in Calls : Place(c) \in Asking => Row(c).status = "GENERATING"
    /\ \A c, e \in At(Owning) : KeyOf[c] = KeyOf[e] => c = e
    /\ \A c \in Calls : Place(c) = "mark" => call[c].outcome \in {"FAILED", "CANCELLED"}

\* Nobody waits twice, nor after getting a slot.
InTurn(g) ==
    /\ \A i, j \in 1 .. Len(g.queue) : g.queue[i] = g.queue[j] => i = j
    /\ g.granted \cap ToSet(g.queue) = {}

Waiters(g) == g.granted \cup ToSet(g.queue)

\* The gate agrees with the calls that wait and those that generate.
Agrees(g, waiting, generating) ==
    /\ InTurn(g) /\ Waiters(g) = waiting
    /\ g.active = Cardinality(generating) /\ g.waiting = Cardinality(waiting)
    /\ g.waiting <= QueueLimit
    /\ g.free + g.active + Cardinality(g.granted) = Capacity
    /\ g.queue # <<>> /\ g.free > 0 => g.granted # {}

Gate == Agrees(gate, At({"wait"}), At({"generate"}))

RagInv == Typed /\ Rows /\ Gate /\ CitationsHold

-----------------------------------------------------------------------------
(* The queue of the semaphore.                                             *)

\* Taking one waiter out of the queue leaves the others.
LEMMA RemoveFacts ==
    ASSUME NEW q \in Seq(Calls), NEW c,
           \A i, j \in 1 .. Len(q) : q[i] = q[j] => i = j
    PROVE  LET rest == RemoveFirst(q, c)
           IN /\ rest \in Seq(Calls)
              /\ \A i, j \in 1 .. Len(rest) : rest[i] = rest[j] => i = j
              /\ ToSet(rest) = ToSet(q) \ {c}
<1>1. CASE ~\E i \in 1 .. Len(q) : q[i] = c
  BY <1>1 DEF RemoveFirst, ToSet
<1>2. CASE \E i \in 1 .. Len(q) : q[i] = c
  <2> DEFINE I == {i \in 1 .. Len(q) : q[i] = c}
             k == SelectInSeq(q, LAMBDA v : v = c)
  <2>1. PICK i \in 1 .. Len(q) : q[i] = c
    BY <1>2
  <2>2. I = {i}
    BY <2>1
  <2>3. k = i
    BY <2>2 DEF SelectInSeq, Min
  <2>4. RemoveFirst(q, c) = SubSeq(q, 1, i - 1) \o SubSeq(q, i + 1, Len(q))
    BY <1>2, <2>3 DEF RemoveFirst, RemoveAt
  <2> DEFINE left == SubSeq(q, 1, i - 1)
             right == SubSeq(q, i + 1, Len(q))
             rest == left \o right
  <2>5. /\ left \in Seq(Calls) /\ Len(left) = i - 1 /\ \A j \in 1 .. i - 1 : left[j] = q[j]
        /\ right \in Seq(Calls) /\ Len(right) = Len(q) - i
        /\ \A j \in 1 .. Len(q) - i : right[j] = q[i + j]
    BY <2>1
  <2> HIDE DEF left, right
  <2>6. /\ rest \in Seq(Calls) /\ Len(rest) = Len(q) - 1
        /\ \A j \in 1 .. Len(q) - 1 : rest[j] = IF j <= i - 1 THEN left[j] ELSE right[j - (i - 1)]
    <3>1. Len(left) + Len(right) = Len(q) - 1
      BY <2>1, <2>5
    <3>2. /\ rest \in Seq(Calls) /\ Len(rest) = Len(left) + Len(right)
          /\ \A j \in 1 .. Len(left) + Len(right) :
                rest[j] = IF j <= Len(left) THEN left[j] ELSE right[j - Len(left)]
      <4>1. \A s, t \in Seq(Calls) :
               /\ s \o t \in Seq(Calls) /\ Len(s \o t) = Len(s) + Len(t)
               /\ \A j \in 1 .. Len(s) + Len(t) :
                     (s \o t)[j] = IF j <= Len(s) THEN s[j] ELSE t[j - Len(s)]
        BY ConcatProperties
      <4> QED BY <2>5, <4>1, Zenon
    <3> HIDE DEF rest
    <3> QED BY <2>5, <3>1, <3>2
  <2> HIDE DEF rest
  <2>7. \A j \in 1 .. Len(q) - 1 :
           IF j < i THEN rest[j] = q[j] ELSE rest[j] = q[j + 1] /\ j + 1 \in 1 .. Len(q)
    <3> SUFFICES ASSUME NEW j \in 1 .. Len(q) - 1
                 PROVE  IF j < i THEN rest[j] = q[j]
                        ELSE rest[j] = q[j + 1] /\ j + 1 \in 1 .. Len(q)
      OBVIOUS
    <3>1. CASE j < i
      BY <2>1, <2>5, <2>6, <3>1
    <3>2. CASE ~(j < i)
      <4>1. j - (i - 1) \in 1 .. Len(q) - i /\ i + (j - (i - 1)) = j + 1
        BY <2>1, <3>2
      <4> QED BY <2>1, <2>5, <2>6, <3>2, <4>1
    <3> QED BY <3>1, <3>2
  <2>8. \A j \in 1 .. Len(q) : j # i => \E l \in 1 .. Len(q) - 1 : rest[l] = q[j]
    <3> SUFFICES ASSUME NEW j \in 1 .. Len(q), j # i
                 PROVE  \E l \in 1 .. Len(q) - 1 : rest[l] = q[j]
      OBVIOUS
    <3>1. CASE j < i
      BY <2>1, <2>7, <3>1
    <3>2. CASE j > i
      <4>1. j - 1 \in 1 .. Len(q) - 1 /\ ~(j - 1 < i) /\ (j - 1) + 1 = j
        BY <2>1, <3>2
      <4> QED BY <2>7, <4>1
    <3> QED BY <3>1, <3>2
  <2>9. ToSet(rest) = {rest[l] : l \in 1 .. Len(q) - 1} /\ ToSet(q) = {q[j] : j \in 1 .. Len(q)}
    BY <2>6 DEF ToSet
  <2>10. ToSet(rest) = ToSet(q) \ {c}
    <3>1. \A l \in 1 .. Len(q) - 1 : \E j \in 1 .. Len(q) : j # i /\ rest[l] = q[j]
      <4> SUFFICES ASSUME NEW l \in 1 .. Len(q) - 1
                   PROVE  \E j \in 1 .. Len(q) : j # i /\ rest[l] = q[j]
        OBVIOUS
      <4>1. CASE l < i
        BY <2>1, <2>7, <4>1
      <4>2. CASE ~(l < i)
        <5>1. l + 1 \in 1 .. Len(q) /\ l + 1 # i /\ rest[l] = q[l + 1]
          BY <2>1, <2>7, <4>2
        <5> QED BY <5>1
      <4> QED BY <4>1, <4>2
    <3>2. \A l \in 1 .. Len(q) - 1 : rest[l] # c
      BY <2>1, <3>1
    <3>3. ToSet(rest) \subseteq ToSet(q) \ {c}
      BY <2>9, <3>1, <3>2
    <3>4. ToSet(q) \ {c} \subseteq ToSet(rest)
      BY <2>1, <2>8, <2>9
    <3> QED BY <3>3, <3>4
  <2>11. \A j, l \in 1 .. Len(q) - 1 : rest[j] = rest[l] => j = l
    <3> SUFFICES ASSUME NEW j \in 1 .. Len(q) - 1, NEW l \in 1 .. Len(q) - 1, rest[j] = rest[l]
                 PROVE  j = l
      OBVIOUS
    <3> DEFINE at(m) == IF m < i THEN m ELSE m + 1
    <3>1. at(j) \in 1 .. Len(q) /\ at(l) \in 1 .. Len(q) /\ q[at(j)] = q[at(l)]
      BY <2>7
    <3>2. at(j) = at(l)
      BY <3>1
    <3> QED BY <2>1, <3>2
  <2> QED BY <2>4, <2>6, <2>10, <2>11 DEF rest, left, right
<1> QED BY <1>1, <1>2

\* Waking hands free slots to the first in the queue: it changes neither who waits nor the
\* number of slots, and leaves none free beside a waiter unless somebody was woken.
LEMMA WokenFacts ==
    ASSUME NEW g \in GateRow, InTurn(g), NEW most \in Nat \ {0}
    PROVE  LET w == Woken(g, most)
           IN /\ w \in GateRow /\ w.active = g.active /\ w.waiting = g.waiting
              /\ InTurn(w) /\ Waiters(w) = Waiters(g) 
              /\ w.free + Cardinality(w.granted) = g.free + Cardinality(g.granted)
              /\ w.queue # <<>> /\ w.free > 0 => w.granted # {}
<1> DEFINE n == Min({most, g.free, Len(g.queue)})
           new == {g.queue[i] : i \in 1 .. n}
           rest == SubSeq(g.queue, n + 1, Len(g.queue))
           w == Woken(g, most)
<1>1. /\ g.free \in Nat /\ Len(g.queue) \in Nat /\ g.queue \in Seq(Calls)
      /\ g.granted \subseteq Calls
  BY DEF GateRow
<1>2. n \in {most, g.free, Len(g.queue)} /\ n <= most /\ n <= g.free /\ n <= Len(g.queue)
  <2>1. \E x \in {most, g.free, Len(g.queue)} : \A y \in {most, g.free, Len(g.queue)} : x <= y
    BY <1>1
  <2> QED BY <2>1 DEF Min
<1> HIDE DEF n
<1>3. /\ n \in Nat /\ new \subseteq Calls /\ rest \in Seq(Calls) /\ Len(rest) = Len(g.queue) - n
      /\ \A j \in 1 .. Len(rest) : rest[j] = g.queue[j + n]
  BY <1>1, <1>2
<1>4. /\ w = [g EXCEPT !.free = g.free - n, !.granted = g.granted \cup new, !.queue = rest]
      /\ g.free - n \in Nat
  BY <1>1, <1>2, <1>3 DEF Woken, n
<1>5. ToSet(g.queue) = new \cup ToSet(rest) /\ new \cap ToSet(rest) = {}
  <2>1. \A i \in 1 .. Len(g.queue) : i \in 1 .. n \/ (i - n \in 1 .. Len(rest) /\ rest[i - n] = g.queue[i])
    BY <1>1, <1>2, <1>3
  <2>2. \A q \in Seq(Calls) : ToSet(q) = {q[i] : i \in 1 .. Len(q)}
    BY DEF ToSet
  <2> HIDE DEF rest
  <2>3. ToSet(g.queue) \subseteq new \cup ToSet(rest)
    <3> SUFFICES ASSUME NEW i \in 1 .. Len(g.queue)
                 PROVE  g.queue[i] \in new \cup ToSet(rest)
      BY <1>1, <2>2
    <3>1. CASE i \in 1 .. n
      BY <3>1
    <3>2. CASE i - n \in 1 .. Len(rest) /\ rest[i - n] = g.queue[i]
      BY <1>3, <2>2, <3>2
    <3> QED BY <2>1, <3>1, <3>2
  <2>4. \A j \in 1 .. Len(rest) : j + n \in 1 .. Len(g.queue) /\ j + n \notin 1 .. n
    BY <1>1, <1>2, <1>3
  <2>5. 1 .. n \subseteq 1 .. Len(g.queue)
    BY <1>1, <1>2
  <2>6. ToSet(rest) \subseteq ToSet(g.queue) /\ new \subseteq ToSet(g.queue)
    <3>1. ToSet(rest) = {rest[j] : j \in 1 .. Len(rest)}
      BY <1>3, <2>2
    <3>2. ToSet(g.queue) = {g.queue[i] : i \in 1 .. Len(g.queue)}
      BY <1>1, <2>2
    <3>3. \A j \in 1 .. Len(rest) : rest[j] = g.queue[j + n] /\ j + n \in 1 .. Len(g.queue)
      BY <1>3, <2>4
    <3> QED BY <2>5, <3>1, <3>2, <3>3, Zenon
  <2>7. new \cap ToSet(rest) = {}
    BY <1>1, <1>3, <2>2, <2>4, <2>5 DEF InTurn
  <2> QED BY <2>3, <2>6, <2>7
<1>6. InTurn(w) /\ Waiters(w) = Waiters(g)
  <2>1. w.queue = rest /\ w.granted = g.granted \cup new
    BY <1>4 DEF GateRow
  <2>2. \A i, j \in 1 .. Len(rest) : rest[i] = rest[j] => i = j
    BY <1>1, <1>2, <1>3 DEF InTurn
  <2> HIDE DEF rest, new, w
  <2> QED BY <1>5, <2>1, <2>2 DEF InTurn, Waiters
<1>7. Cardinality(new) = n /\ IsFiniteSet(new)
  <2> DEFINE f == [i \in 1 .. n |-> g.queue[i]]
  <2>1. f \in Bijection(1 .. n, new)
    BY <1>1, <1>2, <1>3 DEF InTurn, Bijection, Injection, Surjection, IsInjective
  <2>2. IsFiniteSet(1 .. n) /\ Cardinality(1 .. n) = n
    BY <1>3, FS_Interval
  <2> HIDE DEF f, new
  <2>3. ExistsBijection(1 .. n, new)
    BY <2>1 DEF ExistsBijection
  <2> QED BY <2>2, <2>3, FS_Bijection
<1>8. Cardinality(g.granted \cup new) = Cardinality(g.granted) + n
  <2> HIDE DEF new, rest
  <2>1. IsFiniteSet(g.granted) /\ g.granted \cap new = {}
    BY <1>1, <1>5, RagAssumption, FS_Subset DEF InTurn
  <2>2. Cardinality(g.granted) \in Nat /\ Cardinality(g.granted \cap new) = 0
    BY <2>1, FS_EmptySet, FS_CardinalityType
  <2>3. Cardinality(g.granted \cup new)
          = Cardinality(g.granted) + Cardinality(new) - Cardinality(g.granted \cap new)
    BY <1>7, <2>1, FS_Union
  <2> QED BY <1>3, <1>7, <2>2, <2>3
<1>9. Cardinality(g.granted) \in Nat
  BY <1>1, RagAssumption, FS_Subset, FS_CardinalityType
<1>10. /\ w \in GateRow /\ w.active = g.active /\ w.waiting = g.waiting
       /\ w.free = g.free - n /\ w.granted = g.granted \cup new /\ w.queue = rest
  <2> HIDE DEF rest, new, w
  <2> QED BY <1>1, <1>3, <1>4 DEF GateRow
<1>11. w.queue # <<>> /\ w.free > 0 => w.granted # {}
  <2>1. rest # <<>> /\ g.free - n > 0 => n >= 1
    BY <1>1, <1>2, <1>3
  <2>2. n >= 1 => g.queue[1] \in new
    BY <1>1, <1>2
  <2> HIDE DEF rest, new, w
  <2> QED BY <1>1, <1>3, <1>10, <2>1, <2>2
<1>12. w.free + Cardinality(w.granted) = g.free + Cardinality(g.granted)
  <2>1. Cardinality(w.granted) = Cardinality(g.granted) + n
    BY <1>8, <1>10
  <2> HIDE DEF w, new, rest
  <2> QED BY <1>1, <1>3, <1>9, <1>10, <2>1
<1> QED BY <1>6, <1>10, <1>11, <1>12

-----------------------------------------------------------------------------
(* The steps of the gate.                                                  *)

\* Sizes of sets of calls.
LEMMA Sizes ==
    ASSUME NEW S \in SUBSET Calls, NEW c \in Calls
    PROVE  /\ IsFiniteSet(S) /\ Cardinality(S) \in Nat
           /\ c \in S => Cardinality(S \ {c}) = Cardinality(S) - 1 /\ Cardinality(S) >= 1
           /\ c \notin S => Cardinality(S \cup {c}) = Cardinality(S) + 1
           /\ c \notin S => S \ {c} = S
<1>1. IsFiniteSet(S) /\ Cardinality(S) \in Nat
  BY RagAssumption, FS_Subset, FS_CardinalityType
<1>2. c \in S => Cardinality(S \ {c}) = Cardinality(S) - 1
  BY <1>1, FS_RemoveElement
<1>3. Cardinality(S \ {c}) \in Nat
  BY RagAssumption, FS_Subset, FS_CardinalityType
<1>4. c \notin S => Cardinality(S \cup {c}) = Cardinality(S) + 1
  BY <1>1, FS_AddElement
<1> QED BY <1>1, <1>2, <1>3, <1>4

\* A call that joins the queue, or gets a free slot at once.
LEMMA EnterFacts ==
    ASSUME Typed, Gate, NEW c \in Calls, Place(c) = "gate", EnterGate(c)
    PROVE  \/ gate' = gate /\ Record(c, "FAILED")
           \/ /\ Goto(c, "wait") /\ gate' \in GateRow
              /\ Agrees(gate', At({"wait"}) \cup {c}, At({"generate"}))
           \/ /\ Goto(c, "generate") /\ gate' \in GateRow
              /\ Agrees(gate', At({"wait"}), At({"generate"}) \cup {c})
<1> DEFINE W == At({"wait"})
           G == At({"generate"})
<1>1. /\ gate.free \in Nat /\ gate.active \in Nat /\ gate.waiting \in Nat
      /\ gate.queue \in Seq(Calls) /\ gate.granted \in SUBSET Calls /\ gate \in GateRow
  BY DEF Typed, GateRow
<1>2. W \in SUBSET Calls /\ G \in SUBSET Calls /\ c \notin W /\ c \notin G
  BY DEF At
<1>3. Agrees(gate, W, G)
  BY DEF Gate
<1>4. /\ Cardinality(W \cup {c}) = Cardinality(W) + 1 /\ Cardinality(W) \in Nat
      /\ Cardinality(G \cup {c}) = Cardinality(G) + 1 /\ Cardinality(G) \in Nat
      /\ Cardinality(gate.granted) \in Nat
  BY <1>1, <1>2, Sizes
<1> HIDE DEF W, G
<1>5. CASE Locked /\ QueueFull /\ Record(c, "FAILED") /\ UNCHANGED gate
  BY <1>5
<1>6. CASE Locked /\ ~QueueFull /\ Goto(c, "wait")
           /\ gate' = [gate EXCEPT !.queue = Append(gate.queue, c), !.waiting = gate.waiting + 1]
  <2> DEFINE q == Append(gate.queue, c)
  <2>1. /\ q \in Seq(Calls) /\ Len(q) = Len(gate.queue) + 1 /\ q[Len(gate.queue) + 1] = c
        /\ \A i \in 1 .. Len(gate.queue) : q[i] = gate.queue[i]
        /\ Len(gate.queue) \in Nat
    BY <1>1
  <2> HIDE DEF q
  <2>2. /\ gate'.free = gate.free /\ gate'.active = gate.active
        /\ gate'.waiting = gate.waiting + 1 /\ gate'.queue = q
        /\ gate'.granted = gate.granted /\ gate' \in GateRow
    <3>1. gate' = [gate EXCEPT !.queue = q, !.waiting = gate.waiting + 1]
      BY <1>6 DEF q
    <3>2. gate.waiting + 1 \in Nat
      BY <1>1
    <3> QED BY <1>1, <2>1, <3>1, <3>2 DEF GateRow
  <2>3. ToSet(q) = {q[i] : i \in 1 .. Len(q)}
        /\ ToSet(gate.queue) = {gate.queue[i] : i \in 1 .. Len(gate.queue)}
    BY <1>1, <2>1 DEF ToSet
  <2>4. ToSet(q) = ToSet(gate.queue) \cup {c}
    <3>1. 1 .. Len(q) = (1 .. Len(gate.queue)) \cup {Len(gate.queue) + 1}
      BY <2>1
    <3> QED BY <2>1, <2>3, <3>1
  <2>5. c \notin ToSet(gate.queue) /\ c \notin gate.granted
    BY <1>2, <1>3 DEF Agrees, Waiters
  <2>6. InTurn(gate')
    <3>1. \A i, j \in 1 .. Len(q) : q[i] = q[j] => i = j
      <4> SUFFICES ASSUME NEW i \in 1 .. Len(q), NEW j \in 1 .. Len(q), q[i] = q[j]
                   PROVE  i = j
        OBVIOUS
      <4>1. \A l \in 1 .. Len(q) : l \in 1 .. Len(gate.queue) \/ l = Len(gate.queue) + 1
        BY <2>1
      <4>2. \A l \in 1 .. Len(gate.queue) : q[l] \in ToSet(gate.queue)
        BY <2>1, <2>3
      <4> QED BY <1>3, <2>1, <2>5, <4>1, <4>2 DEF Agrees, InTurn
    <3> QED BY <1>3, <2>2, <2>4, <2>5, <3>1 DEF Agrees, InTurn
  <2>7. Waiters(gate') = W \cup {c}
    BY <1>3, <2>2, <2>4 DEF Agrees, Waiters
  <2>8. gate.free > 0 => gate.granted # {}
    BY <1>1, <1>3, <1>6 DEF Agrees, Locked
  <2>9. gate.waiting + 1 <= QueueLimit
    BY <1>1, <1>6, RagAssumption DEF QueueFull
  <2>10. Agrees(gate', W \cup {c}, G)
    BY <1>3, <1>4, <2>2, <2>6, <2>7, <2>8, <2>9 DEF Agrees
  <2> QED BY <1>6, <2>2, <2>10 DEF W, G
<1>7. CASE ~Locked /\ Goto(c, "generate")
           /\ gate' = [gate EXCEPT !.free = gate.free - 1, !.active = gate.active + 1]
  <2>1. gate.free - 1 \in Nat /\ gate.queue = <<>>
    BY <1>1, <1>7 DEF Locked
  <2>2. /\ gate'.free = gate.free - 1 /\ gate'.active = gate.active + 1
        /\ gate'.waiting = gate.waiting /\ gate'.queue = gate.queue
        /\ gate'.granted = gate.granted /\ gate' \in GateRow
    <3>1. gate' = [gate EXCEPT !.free = gate.free - 1, !.active = gate.active + 1]
      BY <1>7
    <3>2. gate.active + 1 \in Nat
      BY <1>1
    <3> QED BY <1>1, <2>1, <3>1, <3>2 DEF GateRow
  <2>3. InTurn(gate') /\ Waiters(gate') = W
    BY <1>3, <2>2 DEF Agrees, InTurn, Waiters
  <2>4. Agrees(gate', W, G \cup {c})
    BY <1>1, <1>3, <1>4, <2>1, <2>2, <2>3, RagAssumption, SMTT(20) DEF Agrees
  <2> QED BY <1>7, <2>2, <2>4 DEF W, G
<1> QED BY <1>5, <1>6, <1>7 DEF EnterGate

\* A call taken out of the queue, with its slot or without.
LEMMA DequeuedFacts ==
    ASSUME Typed, Gate, NEW c \in Calls, Place(c) = "wait"
    PROVE  LET g == Dequeued(c)
           IN /\ g \in GateRow /\ InTurn(g) /\ Waiters(g) = At({"wait"}) \ {c}
              /\ g.active = gate.active /\ g.free = gate.free /\ g.waiting = gate.waiting - 1
              /\ g.waiting = Cardinality(At({"wait"}) \ {c}) /\ g.waiting <= QueueLimit
              /\ c \in gate.granted =>
                     Cardinality(g.granted) = Cardinality(gate.granted) - 1
              /\ c \notin gate.granted => Cardinality(g.granted) = Cardinality(gate.granted)
<1> DEFINE g == Dequeued(c)
           q == RemoveFirst(gate.queue, c)
           left == gate.granted \ {c}
           W == At({"wait"})
<1>1. /\ gate.free \in Nat /\ gate.active \in Nat /\ gate.waiting \in Nat
      /\ gate.queue \in Seq(Calls) /\ gate.granted \in SUBSET Calls /\ gate \in GateRow
  BY DEF Typed, GateRow
<1>2. W \in SUBSET Calls /\ c \in W
  BY DEF At
<1>3. Agrees(gate, W, At({"generate"}))
  BY DEF Gate
<1>4. /\ Cardinality(W \ {c}) = Cardinality(W) - 1 /\ Cardinality(W) \in Nat
      /\ Cardinality(W) >= 1
  BY <1>2, Sizes
<1>5. /\ c \in gate.granted => Cardinality(left) = Cardinality(gate.granted) - 1
      /\ c \notin gate.granted => Cardinality(left) = Cardinality(gate.granted)
  BY <1>1, Sizes
<1>6. /\ q \in Seq(Calls) /\ ToSet(q) = ToSet(gate.queue) \ {c}
      /\ \A i, j \in 1 .. Len(q) : q[i] = q[j] => i = j
  <2>1. \A i, j \in 1 .. Len(gate.queue) : gate.queue[i] = gate.queue[j] => i = j
    BY <1>3 DEF Agrees, InTurn
  <2> QED BY <1>1, <2>1, RemoveFacts
<1> HIDE DEF q, W
<1>7. gate.waiting - 1 \in Nat /\ gate.waiting - 1 = Cardinality(W \ {c})
      /\ gate.waiting - 1 <= QueueLimit
  BY <1>1, <1>3, <1>4, RagAssumption DEF Agrees
<1>8. g = [gate EXCEPT !.queue = q, !.granted = left, !.waiting = gate.waiting - 1]
  BY DEF Dequeued, q
<1>9. /\ g \in GateRow /\ g.active = gate.active /\ g.free = gate.free
      /\ g.waiting = gate.waiting - 1 /\ g.queue = q /\ g.granted = left
  <2> HIDE DEF g
  <2> QED BY <1>1, <1>6, <1>7, <1>8 DEF GateRow
<1> HIDE DEF g
<1>10. InTurn(g) /\ Waiters(g) = W \ {c}
  BY <1>3, <1>6, <1>9 DEF Agrees, InTurn, Waiters
<1>11. /\ g \in GateRow /\ InTurn(g) /\ Waiters(g) = W \ {c}
       /\ g.active = gate.active /\ g.free = gate.free /\ g.waiting = gate.waiting - 1
       /\ g.waiting = Cardinality(W \ {c}) /\ g.waiting <= QueueLimit
       /\ c \in gate.granted => Cardinality(g.granted) = Cardinality(gate.granted) - 1
       /\ c \notin gate.granted => Cardinality(g.granted) = Cardinality(gate.granted)
  BY <1>5, <1>7, <1>9, <1>10
<1> QED BY <1>11 DEF g, W

\* A waiter that has got its slot goes on; those that came meanwhile are woken.
LEMMA ResumeFacts ==
    ASSUME Typed, Gate, NEW c \in Calls, Resume(c)
    PROVE  /\ gate' \in GateRow
           /\ Agrees(gate', At({"wait"}) \ {c}, At({"generate"}) \cup {c})
<1> DEFINE g == Dequeued(c)
           w == Woken(g, Capacity)
           W == At({"wait"})
           G == At({"generate"})
<1>1. Place(c) = "wait" /\ c \in gate.granted /\ gate' = [w EXCEPT !.active = w.active + 1]
  BY DEF Resume
<1>2. /\ g \in GateRow /\ InTurn(g) /\ Waiters(g) = W \ {c}
      /\ g.active = gate.active /\ g.free = gate.free
      /\ g.waiting = Cardinality(W \ {c}) /\ g.waiting <= QueueLimit
      /\ Cardinality(g.granted) = Cardinality(gate.granted) - 1
  BY <1>1, DequeuedFacts
<1> HIDE DEF g
<1>3. /\ w \in GateRow /\ w.active = g.active /\ w.waiting = g.waiting
      /\ InTurn(w) /\ Waiters(w) = Waiters(g)
      /\ w.free + Cardinality(w.granted) = g.free + Cardinality(g.granted)
      /\ w.queue # <<>> /\ w.free > 0 => w.granted # {}
  BY <1>2, RagAssumption, WokenFacts
<1> HIDE DEF w
<1>4. G \in SUBSET Calls /\ c \notin G
  BY <1>1 DEF At
<1>5. Cardinality(G \cup {c}) = Cardinality(G) + 1 /\ Cardinality(G) \in Nat
  BY <1>4, Sizes
<1>6. gate.granted \in SUBSET Calls /\ gate.free \in Nat /\ gate.active \in Nat
  BY DEF Typed, GateRow
<1>7. Cardinality(gate.granted) \in Nat /\ Cardinality(w.granted) \in Nat
  <2>1. w.granted \in SUBSET Calls
    BY <1>3 DEF GateRow
  <2> QED BY <1>6, <2>1, Sizes
<1>8. Agrees(gate, W, G)
  BY DEF Gate
<1> HIDE DEF W, G
<1>9. w.free \in Nat /\ w.active + 1 \in Nat
  BY <1>3 DEF GateRow
<1>10. /\ gate' \in GateRow /\ gate'.active = w.active + 1
       /\ gate'.free = w.free /\ gate'.waiting = w.waiting
       /\ gate'.queue = w.queue /\ gate'.granted = w.granted
  BY <1>1, <1>3, <1>9 DEF GateRow
<1>11. gate'.free + gate'.active + Cardinality(gate'.granted) = Capacity
  BY <1>2, <1>3, <1>6, <1>7, <1>8, <1>9, <1>10 DEF Agrees
<1>12. gate'.active = Cardinality(G \cup {c})
  BY <1>2, <1>3, <1>5, <1>6, <1>8, <1>10 DEF Agrees
<1>13. InTurn(gate') /\ Waiters(gate') = W \ {c}
  BY <1>2, <1>3, <1>10 DEF InTurn, Waiters
<1>14. Agrees(gate', W \ {c}, G \cup {c})
  BY <1>2, <1>3, <1>10, <1>11, <1>12, <1>13 DEF Agrees
<1> QED BY <1>10, <1>14 DEF W, G

\* A waiter that gives up passes on the slot it may have got.
LEMMA GaveUpFacts ==
    ASSUME Typed, Gate, NEW c \in Calls, Place(c) = "wait"
    PROVE  /\ GaveUp(c) \in GateRow
           /\ Agrees(GaveUp(c), At({"wait"}) \ {c}, At({"generate"}))
<1> DEFINE d == Dequeued(c)
           slot == IF c \in gate.granted THEN 1 ELSE 0
           g == [d EXCEPT !.free = d.free + slot]
           w == Woken(g, Capacity)
           W == At({"wait"})
           G == At({"generate"})
<1>1. GaveUp(c) = w
  BY DEF GaveUp
<1>2. /\ d \in GateRow /\ InTurn(d) /\ Waiters(d) = W \ {c}
      /\ d.active = gate.active /\ d.free = gate.free
      /\ d.waiting = Cardinality(W \ {c}) /\ d.waiting <= QueueLimit
      /\ Cardinality(d.granted) = Cardinality(gate.granted) - slot
  <2>1. gate.granted \in SUBSET Calls
    BY DEF Typed, GateRow
  <2>2. Cardinality(gate.granted) \in Nat
    BY <2>1, Sizes
  <2>3. /\ d \in GateRow /\ InTurn(d) /\ Waiters(d) = W \ {c}
        /\ d.active = gate.active /\ d.free = gate.free
        /\ d.waiting = Cardinality(W \ {c}) /\ d.waiting <= QueueLimit
        /\ c \in gate.granted => Cardinality(d.granted) = Cardinality(gate.granted) - 1
        /\ c \notin gate.granted => Cardinality(d.granted) = Cardinality(gate.granted)
    BY DequeuedFacts
  <2> HIDE DEF d, W
  <2> QED BY <2>2, <2>3
<1> HIDE DEF d
<1>3. slot \in {0, 1} /\ d.free + slot \in Nat
  BY <1>2 DEF GateRow
<1> HIDE DEF slot
<1>4. /\ g \in GateRow /\ g.active = d.active /\ g.waiting = d.waiting /\ g.queue = d.queue
      /\ g.granted = d.granted /\ g.free = d.free + slot
  BY <1>2, <1>3 DEF GateRow
<1> HIDE DEF g
<1>5. InTurn(g) /\ Waiters(g) = W \ {c}
  BY <1>2, <1>4 DEF InTurn, Waiters
<1>6. /\ w \in GateRow /\ w.active = g.active /\ w.waiting = g.waiting
      /\ InTurn(w) /\ Waiters(w) = Waiters(g)
      /\ w.free + Cardinality(w.granted) = g.free + Cardinality(g.granted)
      /\ w.queue # <<>> /\ w.free > 0 => w.granted # {}
  BY <1>4, <1>5, RagAssumption, WokenFacts
<1> HIDE DEF w
<1>7. gate.granted \in SUBSET Calls /\ gate.free \in Nat /\ gate.active \in Nat
  BY DEF Typed, GateRow
<1>8. Cardinality(gate.granted) \in Nat /\ Cardinality(w.granted) \in Nat /\ w.free \in Nat
  <2>1. w.granted \in SUBSET Calls /\ w.free \in Nat
    BY <1>6 DEF GateRow
  <2> QED BY <1>7, <2>1, Sizes
<1>9. Agrees(gate, W, G)
  BY DEF Gate
<1> HIDE DEF W, G
<1>10. w.free + w.active + Cardinality(w.granted) = Capacity
  <2>1. gate.free + gate.active + Cardinality(gate.granted) = Capacity
    BY <1>9 DEF Agrees
  <2>2. w.active = gate.active
    BY <1>2, <1>4, <1>6
  <2>3. g.free = gate.free + slot /\ Cardinality(g.granted) = Cardinality(gate.granted) - slot
    BY <1>2, <1>4
  <2>4. w.free + Cardinality(w.granted) = gate.free + slot + (Cardinality(gate.granted) - slot)
    BY <1>6, <2>3
  <2> QED BY <1>3, <1>7, <1>8, <2>1, <2>2, <2>4
<1>11. Agrees(w, W \ {c}, G)
  BY <1>2, <1>4, <1>5, <1>6, <1>9, <1>10 DEF Agrees
<1> QED BY <1>1, <1>6, <1>11 DEF W, G

\* A call that leaves the gate frees its slot, for the next if there is one.
LEMMA LeftFacts ==
    ASSUME Typed, Gate, NEW c \in Calls, Place(c) = "generate"
    PROVE  Left \in GateRow /\ Agrees(Left, At({"wait"}), At({"generate"}) \ {c})
<1> DEFINE g == [gate EXCEPT !.active = gate.active - 1, !.free = gate.free + 1]
           w == Woken(g, 1)
           W == At({"wait"})
           G == At({"generate"})
<1>1. Left = w
  BY DEF Left
<1>2. G \in SUBSET Calls /\ c \in G
  BY DEF At
<1>3. /\ Cardinality(G \ {c}) = Cardinality(G) - 1 /\ Cardinality(G) \in Nat
      /\ Cardinality(G) >= 1
  BY <1>2, Sizes
<1>4. Agrees(gate, W, G)
  BY DEF Gate
<1> HIDE DEF W, G
<1>5. /\ gate.granted \in SUBSET Calls /\ gate.free \in Nat /\ gate.active \in Nat
      /\ gate \in GateRow
  BY DEF Typed, GateRow
<1>6. gate.active - 1 \in Nat /\ gate.free + 1 \in Nat
  BY <1>3, <1>4, <1>5 DEF Agrees
<1>7. /\ g \in GateRow /\ g.active = gate.active - 1 /\ g.waiting = gate.waiting
      /\ g.queue = gate.queue /\ g.granted = gate.granted /\ g.free = gate.free + 1
  BY <1>5, <1>6 DEF GateRow
<1> HIDE DEF g
<1>8. InTurn(g) /\ Waiters(g) = W
  BY <1>4, <1>7 DEF Agrees, InTurn, Waiters
<1>9. /\ w \in GateRow /\ w.active = g.active /\ w.waiting = g.waiting
      /\ InTurn(w) /\ Waiters(w) = Waiters(g)
      /\ w.free + Cardinality(w.granted) = g.free + Cardinality(g.granted)
      /\ w.queue # <<>> /\ w.free > 0 => w.granted # {}
  BY <1>7, <1>8, WokenFacts
<1> HIDE DEF w
<1>10. Cardinality(gate.granted) \in Nat /\ Cardinality(w.granted) \in Nat /\ w.free \in Nat
  <2>1. w.granted \in SUBSET Calls /\ w.free \in Nat
    BY <1>9 DEF GateRow
  <2> QED BY <1>5, <2>1, Sizes
<1>11. w.free + w.active + Cardinality(w.granted) = Capacity
  <2>1. gate.free + gate.active + Cardinality(gate.granted) = Capacity
    BY <1>4 DEF Agrees
  <2>2. w.active = gate.active - 1
    BY <1>7, <1>9
  <2>3. w.free + Cardinality(w.granted) = gate.free + 1 + Cardinality(gate.granted)
    BY <1>7, <1>9
  <2> QED BY <1>5, <1>10, <2>1, <2>2, <2>3
<1>12. Agrees(w, W, G \ {c})
  BY <1>3, <1>4, <1>5, <1>7, <1>8, <1>9, <1>11 DEF Agrees
<1> QED BY <1>1, <1>9, <1>12 DEF W, G

-----------------------------------------------------------------------------
(* Types and the gate, step by step.                                       *)

\* One call moves and the others stay.
Moved(c, place) ==
    /\ call' \in [Calls -> CallRow] /\ call'[c].place = place
    /\ \A e \in Calls : e # c => call'[e] = call[e]

\* Every way a call moves.
LEMMA Moves ==
    ASSUME Typed, NEW c \in Calls
    PROVE  /\ \A p \in Owning \cup {"search"} : Goto(c, p) => Moved(c, p)
           /\ EndCall(c) => Moved(c, "done")
           /\ \A s \in {"FAILED", "CANCELLED"} :
                  Record(c, s) => Moved(c, "mark") /\ call'[c].outcome = s
<1>1. call \in [Calls -> CallRow] /\ call[c] \in CallRow
  BY DEF Typed
<1>2. ASSUME NEW p \in Owning \cup {"search"}, Goto(c, p)
      PROVE  Moved(c, p)
  <2>1. call' = [call EXCEPT ![c] = [call[c] EXCEPT !.place = p]]
    BY <1>1, <1>2 DEF Goto
  <2>2. [call[c] EXCEPT !.place = p] \in CallRow
    BY <1>1 DEF CallRow
  <2>3. [call[c] EXCEPT !.place = p].place = p
    BY <1>1 DEF CallRow
  <2> QED BY <1>1, <2>1, <2>2, <2>3 DEF Moved
<1>3. ASSUME EndCall(c)
      PROVE  Moved(c, "done")
  <2> DEFINE r == [NewCall EXCEPT !.place = "done"]
  <2>1. call' = [call EXCEPT ![c] = r]
    BY <1>1, <1>3 DEF EndCall
  <2>2. r \in CallRow /\ r.place = "done"
    BY DEF CallRow, NewCall, Over, Passage
  <2> HIDE DEF r
  <2> QED BY <1>1, <2>1, <2>2 DEF Moved
<1>4. ASSUME NEW s \in {"FAILED", "CANCELLED"}, Record(c, s)
      PROVE  Moved(c, "mark") /\ call'[c].outcome = s
  <2> DEFINE r == [call[c] EXCEPT !.place = "mark", !.outcome = s]
  <2>1. call' = [call EXCEPT ![c] = r]
    BY <1>1, <1>4 DEF Record
  <2>2. r \in CallRow /\ r.place = "mark" /\ r.outcome = s
    BY <1>1 DEF CallRow, Owning
  <2> HIDE DEF r
  <2> QED BY <1>1, <2>1, <2>2 DEF Moved
<1> QED BY <1>2, <1>3, <1>4

\* What a search finds are passages.
LEMMA SearchFinds ==
    ASSUME Typed, NEW c \in Calls, Search(c)
    PROVE  \E p \in {"done", "insert"} : Moved(c, p)
<1>1. call \in [Calls -> CallRow] /\ call[c] \in CallRow
  BY DEF Typed
<1>2. CASE EndCall(c)
  BY <1>2, Moves
<1>3. CASE \E points \in Fused : \E results \in Page(Visible(points)) :
             \E sources \in Context(Loaded(results)) :
               call' = [call EXCEPT ![c].place = "insert", ![c].found = sources]
  <2>1. Points \subseteq Passage
    <3>1. \A d \in Docs : chunk[d] \in 1 .. MaxVersion
      BY DEF Typed
    <3>2. \A d \in Docs : 1 .. chunk[d] \subseteq 1 .. MaxVersion
      BY <3>1, RagAssumption
    <3> QED BY <3>2 DEF Points, Passage
  <2>2. PICK points \in Fused : \E results \in Page(Visible(points)) :
          \E sources \in Context(Loaded(results)) :
            call' = [call EXCEPT ![c].place = "insert", ![c].found = sources]
    BY <1>3
  <2>3. PICK results \in Page(Visible(points)) :
          \E sources \in Context(Loaded(results)) :
            call' = [call EXCEPT ![c].place = "insert", ![c].found = sources]
    BY <2>2
  <2>4. PICK sources \in Context(Loaded(results)) :
          call' = [call EXCEPT ![c].place = "insert", ![c].found = sources]
    BY <2>3
  <2>5. points \subseteq Passage
    BY <2>1 DEF Fused
  <2>6. results \subseteq points
    BY DEF Page, Visible
  <2>7. sources \subseteq results
    BY DEF Context, Loaded, Visible
  <2> DEFINE r == [call[c] EXCEPT !.place = "insert", !.found = sources]
  <2>8. call' = [call EXCEPT ![c] = r]
    BY <1>1, <2>4
  <2>9. r \in CallRow /\ r.place = "insert"
    BY <1>1, <2>5, <2>6, <2>7 DEF CallRow
  <2> HIDE DEF r
  <2> QED BY <1>1, <2>8, <2>9 DEF Moved
<1> QED BY <1>2, <1>3 DEF Search

\* Where the calls are after one has moved.
LEMMA MovedAt ==
    ASSUME Typed, NEW c \in Calls, NEW to, Moved(c, to), NEW p
    PROVE  /\ to = p => At({p})' = At({p}) \cup {c}
           /\ to # p => At({p})' = At({p}) \ {c}
           /\ to # p /\ Place(c) # p => At({p})' = At({p})
BY DEF At, Moved, Place

\* A step that leaves the gate alone moves no call into it or out of it.
LEMMA GateUnmoved ==
    ASSUME Typed, Gate, gate' = gate, NEW c \in Calls, NEW to, Moved(c, to),
           Place(c) \notin {"wait", "generate"}, to \notin {"wait", "generate"}
    PROVE  Gate'
<1>1. At({"wait"})' = At({"wait"}) /\ At({"generate"})' = At({"generate"})
  BY MovedAt
<1>2. Agrees(gate', At({"wait"})', At({"generate"})')
  BY <1>1 DEF Gate
<1> QED BY <1>2 DEF Gate

\* A call that leaves the queue and gives up.
LEMMA QueueLeft ==
    ASSUME Typed, Gate, NEW c \in Calls, NEW s \in {"FAILED", "CANCELLED"}, LeaveQueue(c, s)
    PROVE  /\ gate' \in GateRow /\ Gate' /\ Moved(c, "mark") /\ call'[c].outcome = s
<1>1. Moved(c, "mark") /\ call'[c].outcome = s
  BY Moves DEF LeaveQueue
<1>2. /\ gate' = GaveUp(c) /\ GaveUp(c) \in GateRow
      /\ Agrees(GaveUp(c), At({"wait"}) \ {c}, At({"generate"}))
  BY GaveUpFacts DEF LeaveQueue
<1>3. At({"wait"})' = At({"wait"}) \ {c} /\ At({"generate"})' = At({"generate"})
  <2>1. Place(c) = "wait"
    BY DEF LeaveQueue
  <2>2. At({"wait"})' = At({"wait"}) \ {c}
    BY <1>1 DEF At, Moved, Place
  <2>3. At({"generate"})' = At({"generate"})
    BY <1>1, <2>1 DEF At, Moved, Place
  <2> QED BY <2>2, <2>3
<1>4. Agrees(gate', At({"wait"})', At({"generate"})')
  BY <1>2, <1>3
<1> QED BY <1>1, <1>2, <1>4 DEF Gate

\* A call that leaves the model.
LEMMA ModelLeft ==
    ASSUME Typed, Gate, NEW c \in Calls, Place(c) = "generate", gate' = Left,
           NEW to \in {"complete", "mark", "done"}, Moved(c, to)
    PROVE  gate' \in GateRow /\ Gate'
<1>1. Left \in GateRow /\ Agrees(Left, At({"wait"}), At({"generate"}) \ {c})
  BY LeftFacts
<1>2. At({"wait"})' = At({"wait"}) /\ At({"generate"})' = At({"generate"}) \ {c}
  <2>1. At({"wait"})' = At({"wait"})
    BY DEF At, Moved, Place
  <2>2. At({"generate"})' = At({"generate"}) \ {c}
    BY MovedAt
  <2> QED BY <2>1, <2>2
<1>3. Agrees(gate', At({"wait"})', At({"generate"})')
  BY <1>1, <1>2
<1> QED BY <1>1, <1>3 DEF Gate

\* What a step of a call does to the rows: nothing, and no call comes to own one;
Leaves(c, to) ==
    /\ row' = row /\ Moved(c, to)
    /\ to \in Owning => Place(c) \in Owning
    /\ to \in Asking => Place(c) \in Asking
    /\ to = "mark" => call'[c].outcome \in {"FAILED", "CANCELLED"}

\* or it writes the row of its key, which has none;
Writes(c) ==
    /\ Row(c) = NoRow /\ ChunksExist(c) /\ call[c].found \in SUBSET Passage
    /\ \E insufficient \in BOOLEAN :
          /\ row' = [row EXCEPT ![KeyOf[c]] =
                       [status |-> IF insufficient THEN "COMPLETED" ELSE "GENERATING",
                        sources |-> call[c].found]]
          /\ Moved(c, IF insufficient THEN "done" ELSE "sources")

\* or it completes its row, or marks it.
Completes(c) ==
    /\ Place(c) = "complete" /\ Moved(c, "respond")
    /\ row' = [row EXCEPT ![KeyOf[c]] = [Row(c) EXCEPT !.status = "COMPLETED"]]

Marks(c) ==
    /\ Place(c) = "mark" /\ Moved(c, "done")
    /\ row' = [row EXCEPT ![KeyOf[c]] = Marked(Row(c), call[c].outcome)]

CallStep(c) == Begin(c) \/ Proceed(c) \/ QueueTimeout(c)
                 \/ Cancel(c) \/ Abandon(c) \/ StepFails(c)

\* Every step of a call is one of these, and keeps the gate in order.
LEMMA CallEffects ==
    ASSUME Typed, Gate, NEW c \in Calls, CallStep(c)
    PROVE  /\ gate' \in GateRow /\ Gate' /\ UNCHANGED documents
           /\ (\E to : Leaves(c, to)) \/ Writes(c) \/ Completes(c) \/ Marks(c)
<1> USE DEF Asking, Owning
<1>1. /\ gate \in GateRow /\ call \in [Calls -> CallRow] /\ call[c] \in CallRow
      /\ row \in [Keys -> ResponseRow]
  BY DEF Typed
<1>2. CASE EndCall(c) /\ row' = row /\ gate' = gate /\ UNCHANGED documents
           /\ Place(c) \notin {"wait", "generate"}
  <2>1. Moved(c, "done")
    BY <1>2, Moves
  <2>2. Gate'
    BY <1>2, <2>1, GateUnmoved
  <2>3. Leaves(c, "done")
    BY <1>2, <2>1 DEF Leaves
  <2> QED BY <1>1, <1>2, <2>2, <2>3
<1>3. CASE Begin(c)
  <2>1. CASE Goto(c, "search")
    <3>1. Moved(c, "search")
      BY <2>1, Moves
    <3>2. Gate'
      BY <1>3, <3>1, GateUnmoved DEF Begin
    <3>3. Leaves(c, "search")
      BY <1>3, <3>1 DEF Leaves, Begin
    <3> QED BY <1>1, <1>3, <3>2, <3>3 DEF Begin
  <2> QED BY <1>2, <1>3, <2>1 DEF Begin
<1>4. CASE Search(c)
  <2>1. PICK to \in {"done", "insert"} : Moved(c, to)
    BY <1>4, SearchFinds
  <2>2. Gate'
    BY <1>4, <2>1, GateUnmoved DEF Search
  <2>3. Leaves(c, to)
    BY <1>4, <2>1 DEF Leaves, Search
  <2> QED BY <1>1, <1>4, <2>2, <2>3 DEF Search
<1>5. CASE InsertRow(c)
  <2>1. PICK insufficient \in BOOLEAN :
          /\ row' = [row EXCEPT ![KeyOf[c]] =
                       [status |-> IF insufficient THEN "COMPLETED" ELSE "GENERATING",
                        sources |-> call[c].found]]
          /\ IF insufficient THEN EndCall(c) ELSE Goto(c, "sources")
    BY <1>5 DEF InsertRow
  <2>2. Moved(c, IF insufficient THEN "done" ELSE "sources")
    BY <2>1, Moves
  <2>3. Gate'
    BY <1>5, <2>2, GateUnmoved DEF InsertRow
  <2>4. Row(c) = NoRow /\ ChunksExist(c) /\ call[c].found \in SUBSET Passage
    BY <1>1, <1>5 DEF InsertRow, Conflicts, CallRow
  <2>5. Writes(c)
    BY <2>1, <2>2, <2>4 DEF Writes
  <2> QED BY <1>1, <1>5, <2>3, <2>5 DEF InsertRow
<1>6. CASE InsertFails(c)
  BY <1>2, <1>6 DEF InsertFails
<1>7. CASE SendSources(c)
  <2>1. Moved(c, "gate")
    BY <1>7, Moves DEF SendSources
  <2>2. Gate'
    BY <1>7, <2>1, GateUnmoved DEF SendSources
  <2>3. Leaves(c, "gate")
    BY <1>7, <2>1 DEF Leaves, SendSources
  <2> QED BY <1>1, <1>7, <2>2, <2>3 DEF SendSources
<1>8. CASE EnterGate(c)
  <2>1. Place(c) = "gate" /\ row' = row /\ UNCHANGED documents
    BY <1>8 DEF EnterGate
  <2>2. CASE gate' = gate /\ Record(c, "FAILED")
    <3>1. Moved(c, "mark") /\ call'[c].outcome = "FAILED"
      BY <2>2, Moves
    <3>2. Gate'
      BY <2>1, <2>2, <3>1, GateUnmoved
    <3>3. Leaves(c, "mark")
      BY <2>1, <3>1 DEF Leaves
    <3> QED BY <1>1, <2>1, <2>2, <3>2, <3>3
  <2>3. CASE /\ Goto(c, "wait") /\ gate' \in GateRow
             /\ Agrees(gate', At({"wait"}) \cup {c}, At({"generate"}))
    <3>1. Moved(c, "wait")
      BY <2>3, Moves
    <3>2. At({"wait"})' = At({"wait"}) \cup {c}
      BY <3>1 DEF At, Moved, Place
    <3>3. At({"generate"})' = At({"generate"})
      BY <2>1, <3>1 DEF At, Moved, Place
    <3>4. Agrees(gate', At({"wait"})', At({"generate"})')
      BY <2>3, <3>2, <3>3
    <3>5. Leaves(c, "wait")
      BY <2>1, <3>1 DEF Leaves
    <3> QED BY <2>1, <2>3, <3>4, <3>5 DEF Gate
  <2>4. CASE /\ Goto(c, "generate") /\ gate' \in GateRow
             /\ Agrees(gate', At({"wait"}), At({"generate"}) \cup {c})
    <3>1. Moved(c, "generate")
      BY <2>4, Moves
    <3>2. At({"generate"})' = At({"generate"}) \cup {c}
      BY <3>1 DEF At, Moved, Place
    <3>3. At({"wait"})' = At({"wait"})
      BY <2>1, <3>1 DEF At, Moved, Place
    <3>4. Agrees(gate', At({"wait"})', At({"generate"})')
      BY <2>4, <3>2, <3>3
    <3>5. Leaves(c, "generate")
      BY <2>1, <3>1 DEF Leaves
    <3> QED BY <2>1, <2>4, <3>4, <3>5 DEF Gate
  <2> QED BY <1>8, <2>1, <2>2, <2>3, <2>4, EnterFacts
<1>9. CASE Resume(c)
  <2>1. Place(c) = "wait" /\ row' = row /\ UNCHANGED documents /\ Goto(c, "generate")
    BY <1>9 DEF Resume
  <2>2. Moved(c, "generate")
    BY <2>1, Moves
  <2>3. /\ gate' \in GateRow
        /\ Agrees(gate', At({"wait"}) \ {c}, At({"generate"}) \cup {c})
    BY <1>9, ResumeFacts
  <2>4. At({"generate"})' = At({"generate"}) \cup {c} /\ At({"wait"})' = At({"wait"}) \ {c}
    BY <2>1, <2>2 DEF At, Moved, Place
  <2>5. Agrees(gate', At({"wait"})', At({"generate"})')
    BY <2>3, <2>4
  <2>6. Leaves(c, "generate")
    BY <2>1, <2>2 DEF Leaves
  <2> QED BY <2>1, <2>3, <2>5, <2>6 DEF Gate
<1>10. ASSUME NEW s \in {"FAILED", "CANCELLED"}, LeaveQueue(c, s)
       PROVE  /\ gate' \in GateRow /\ Gate' /\ UNCHANGED documents /\ Leaves(c, "mark")
  <2>1. /\ gate' \in GateRow /\ Gate' /\ Moved(c, "mark") /\ call'[c].outcome = s
    BY <1>10, QueueLeft
  <2>2. Place(c) = "wait" /\ row' = row /\ UNCHANGED documents
    BY <1>10 DEF LeaveQueue
  <2> QED BY <2>1, <2>2 DEF Leaves
<1>11. ASSUME NEW s \in {"FAILED", "CANCELLED"}, Place(c) = "generate", gate' = Left,
              Record(c, s), row' = row
       PROVE  gate' \in GateRow /\ Gate' /\ Leaves(c, "mark")
  <2>1. Moved(c, "mark") /\ call'[c].outcome = s
    BY <1>11, Moves
  <2>2. gate' \in GateRow /\ Gate'
    BY <1>11, <2>1, ModelLeft
  <2>3. Leaves(c, "mark")
    BY <1>11, <2>1 DEF Leaves
  <2> QED BY <2>2, <2>3
<1>12. CASE Generate(c)
  <2>1. Place(c) = "generate" /\ gate' = Left /\ row' = row /\ UNCHANGED documents
    BY <1>12 DEF Generate
  <2>2. CASE Goto(c, "complete")
    <3>1. Moved(c, "complete")
      BY <2>2, Moves
    <3>2. gate' \in GateRow /\ Gate'
      BY <2>1, <3>1, ModelLeft
    <3>3. Leaves(c, "complete")
      BY <2>1, <3>1 DEF Leaves
    <3> QED BY <2>1, <3>2, <3>3
  <2>3. CASE Record(c, "FAILED")
    BY <1>11, <2>1, <2>3
  <2> QED BY <1>12, <2>2, <2>3 DEF Generate
<1>13. CASE Complete(c)
  <2>1. Moved(c, "respond")
    BY <1>13, Moves DEF Complete
  <2>2. Gate'
    BY <1>13, <2>1, GateUnmoved DEF Complete
  <2>3. Completes(c)
    BY <1>1, <1>13, <2>1 DEF Completes, Complete, Row
  <2> QED BY <1>1, <1>13, <2>2, <2>3 DEF Complete
<1>14. CASE Respond(c)
  BY <1>2, <1>14 DEF Respond
<1>15. CASE Mark(c)
  <2>1. Moved(c, "done")
    BY <1>15, Moves DEF Mark
  <2>2. Gate'
    BY <1>15, <2>1, GateUnmoved DEF Mark
  <2>3. Marks(c)
    BY <1>1, <1>15, <2>1 DEF Marks, Mark, Row
  <2> QED BY <1>1, <1>15, <2>2, <2>3 DEF Mark
<1>16. CASE QueueTimeout(c)
  BY <1>10, <1>16 DEF QueueTimeout
<1>17. CASE Cancel(c)
  <2>1. CASE Place(c) \in {"search", "insert", "sources"} /\ EndCall(c)
             /\ UNCHANGED <<row, gate, documents, faults>>
    BY <1>2, <2>1
  <2>2. CASE LeaveQueue(c, "CANCELLED")
    BY <1>10, <2>2
  <2>3. CASE Place(c) = "generate" /\ gate' = Left /\ Record(c, "CANCELLED")
             /\ UNCHANGED <<row, documents, faults>>
    BY <1>11, <2>3
  <2>4. CASE Place(c) \in {"complete", "respond"} /\ Record(c, "CANCELLED")
             /\ UNCHANGED <<row, gate, documents, faults>>
    <3>1. Moved(c, "mark") /\ call'[c].outcome = "CANCELLED"
      BY <2>4, Moves
    <3>2. Gate'
      BY <2>4, <3>1, GateUnmoved
    <3>3. Leaves(c, "mark")
      BY <2>4, <3>1 DEF Leaves
    <3> QED BY <1>1, <2>4, <3>2, <3>3
  <2> QED BY <1>17, <2>1, <2>2, <2>3, <2>4 DEF Cancel
<1>18. CASE StepFails(c)
  BY <1>2, <1>18 DEF StepFails
<1>19. CASE Abandon(c)
  <2>1. EndCall(c) /\ row' = row /\ UNCHANGED documents
    BY <1>19 DEF Abandon
  <2>2. CASE Place(c) = "generate"
    <3>1. Moved(c, "done")
      BY <2>1, Moves
    <3>2. gate' = Left
      BY <1>19, <2>2 DEF Abandon
    <3>3. gate' \in GateRow /\ Gate'
      BY <2>2, <3>1, <3>2, ModelLeft
    <3>4. Leaves(c, "done")
      BY <2>1, <3>1 DEF Leaves
    <3> QED BY <2>1, <3>3, <3>4
  <2>3. CASE Place(c) = "complete"
    <3>1. gate' = gate
      BY <1>19, <2>3 DEF Abandon
    <3> QED BY <1>2, <2>1, <2>3, <3>1
  <2> QED BY <1>19, <2>2, <2>3 DEF Abandon
<1> QED BY <1>3, <1>4, <1>5, <1>6, <1>7, <1>8, <1>9, <1>12, <1>13, <1>14, <1>15, <1>16, <1>17,
           <1>18, <1>19 DEF CallStep, Proceed

\* A crash empties the gate and ends every call.
LEMMA CrashEffects ==
    ASSUME Typed, Crash
    PROVE  /\ gate' \in GateRow /\ Gate' /\ call' \in [Calls -> CallRow]
           /\ row' = row /\ UNCHANGED documents
           /\ \A c \in Calls : call'[c].place \in Over
<1> DEFINE r == [NewCall EXCEPT !.place = "done"]
<1>1. call \in [Calls -> CallRow]
  BY DEF Typed
<1>2. r \in CallRow /\ r.place = "done"
  BY DEF CallRow, NewCall, Over, Passage
<1>3. call' = [c \in Calls |-> IF Place(c) \in Over THEN call[c] ELSE r]
  BY DEF Crash
<1> HIDE DEF r
<1>4. call' \in [Calls -> CallRow] /\ \A c \in Calls : call'[c].place \in Over
  BY <1>1, <1>2, <1>3 DEF Over, Place
<1>5. At({"wait"})' = {} /\ At({"generate"})' = {}
  BY <1>4 DEF At, Over, Place
<1>6. gate' = OpenGate /\ row' = row /\ UNCHANGED documents
  BY DEF Crash
<1>7. /\ OpenGate \in GateRow /\ OpenGate.queue = <<>> /\ OpenGate.granted = {}
      /\ OpenGate.free = Capacity /\ OpenGate.active = 0 /\ OpenGate.waiting = 0
  BY RagAssumption DEF OpenGate, GateRow
<1>8. InTurn(OpenGate) /\ Waiters(OpenGate) = {}
  BY <1>7 DEF InTurn, Waiters, ToSet
<1>9. Agrees(OpenGate, {}, {})
  BY <1>7, <1>8, FS_EmptySet, RagAssumption DEF Agrees
<1>10. Agrees(gate', At({"wait"})', At({"generate"})')
  BY <1>5, <1>6, <1>9
<1> QED BY <1>4, <1>6, <1>7, <1>10 DEF Gate

-----------------------------------------------------------------------------
(* Rows and citations, step by step.                                       *)

\* No call of the key owns a row that is not there.
LEMMA NoOwner ==
    ASSUME Typed, Rows, NEW c \in Calls, Row(c) = NoRow,
           NEW e \in Calls, KeyOf[e] = KeyOf[c]
    PROVE  Place(e) \notin Owning
BY DEF Rows, Row, NoRow

\* The rows a step of a call leaves are typed, and it keeps one owner per row.
LEMMA RowSteps ==
    ASSUME Typed, Rows, NEW c \in Calls,
           (\E to : Leaves(c, to)) \/ Writes(c) \/ Completes(c) \/ Marks(c)
    PROVE  row' \in [Keys -> ResponseRow] /\ Rows'
<1>1. /\ row \in [Keys -> ResponseRow] /\ call \in [Calls -> CallRow]
      /\ KeyOf \in [Calls -> Keys] /\ Row(c) \in ResponseRow /\ KeyOf[c] \in Keys
  BY RagAssumption DEF Typed, Row
<1>2. CASE \E to : Leaves(c, to)
  <2>1. PICK to : Leaves(c, to)
    BY <1>2
  <2>2. \A e \in Calls : /\ Place(e)' \in Owning => Place(e) \in Owning
                         /\ Place(e)' \in Asking => Place(e) \in Asking
    BY <2>1 DEF Leaves, Moved, Place
  <2>3. \A e \in Calls : Row(e)' = Row(e)
    BY <2>1 DEF Leaves, Row
  <2>4. \A e \in Calls : Place(e)' = "mark" => call'[e].outcome \in {"FAILED", "CANCELLED"}
    BY <2>1 DEF Leaves, Moved, Place, Rows
  <2>5. \A e, f \in At(Owning)' : KeyOf[e] = KeyOf[f] => e = f
    BY <2>2 DEF At, Rows
  <2> QED BY <1>1, <2>1, <2>2, <2>3, <2>4, <2>5 DEF Rows, Leaves
<1>3. CASE Writes(c)
  <2>1. PICK insufficient \in BOOLEAN :
          /\ row' = [row EXCEPT ![KeyOf[c]] =
                       [status |-> IF insufficient THEN "COMPLETED" ELSE "GENERATING",
                        sources |-> call[c].found]]
          /\ Moved(c, IF insufficient THEN "done" ELSE "sources")
    BY <1>3 DEF Writes
  <2> DEFINE r == [status |-> IF insufficient THEN "COMPLETED" ELSE "GENERATING",
                   sources |-> call[c].found]
  <2>2. r \in ResponseRow /\ r.status # "none" /\ (~insufficient => r.status = "GENERATING")
    BY <1>3 DEF Writes, ResponseRow, Terminal
  <2>3. row' = [row EXCEPT ![KeyOf[c]] = r]
    BY <2>1
  <2> HIDE DEF r
  <2>4. row' \in [Keys -> ResponseRow]
    BY <1>1, <2>2, <2>3
  <2>5. \A e \in Calls : KeyOf[e] = KeyOf[c] => Place(e) \notin Owning
    BY <1>3, NoOwner DEF Writes
  <2>6. \A e \in Calls : /\ KeyOf[e] = KeyOf[c] => Row(e)' = r
                         /\ KeyOf[e] # KeyOf[c] => Row(e)' = Row(e)
    BY <1>1, <2>3 DEF Row
  <2>7. \A e \in Calls : e # c => Place(e)' = Place(e) /\ call'[e] = call[e]
    BY <2>1 DEF Moved, Place
  <2>8. Place(c)' \in {"done", "sources"} /\ (insufficient => Place(c)' = "done")
    BY <2>1 DEF Moved, Place
  <2>9. \A e \in Calls : Place(e)' \in Owning => Row(e)'.status # "none"
    BY <2>2, <2>5, <2>6, <2>7, <2>8 DEF Rows
  <2>10. \A e \in Calls : Place(e)' \in Asking => Row(e)'.status = "GENERATING"
    BY <2>2, <2>5, <2>6, <2>7, <2>8 DEF Rows, Owning, Asking
  <2>11. \A e, f \in At(Owning)' : KeyOf[e] = KeyOf[f] => e = f
    BY <2>5, <2>7 DEF At, Rows
  <2>12. \A e \in Calls : Place(e)' = "mark" => call'[e].outcome \in {"FAILED", "CANCELLED"}
    BY <2>7, <2>8 DEF Rows
  <2> QED BY <2>4, <2>9, <2>10, <2>11, <2>12 DEF Rows
<1>4. ASSUME NEW r \in ResponseRow, row' = [row EXCEPT ![KeyOf[c]] = r], r.status # "none",
             Place(c) \in Owning, NEW to, Moved(c, to), to \notin Asking, to # "mark"
      PROVE  row' \in [Keys -> ResponseRow] /\ Rows'
  <2>1. row' \in [Keys -> ResponseRow]
    BY <1>1, <1>4
  <2>2. \A e \in Calls : KeyOf[e] = KeyOf[c] /\ e # c => Place(e) \notin Owning
    BY <1>4 DEF Rows, At
  <2>3. \A e \in Calls : /\ KeyOf[e] = KeyOf[c] => Row(e)' = r
                         /\ KeyOf[e] # KeyOf[c] => Row(e)' = Row(e)
    BY <1>1, <1>4 DEF Row
  <2>4. \A e \in Calls : e # c => Place(e)' = Place(e) /\ call'[e] = call[e]
    BY <1>4 DEF Moved, Place
  <2>5. Place(c)' = to
    BY <1>4 DEF Moved, Place
  <2>6. \A e \in Calls : Place(e)' \in Owning => Row(e)'.status # "none"
    BY <1>4, <2>3, <2>4 DEF Rows
  <2>7. \A e \in Calls : Place(e)' \in Asking => Row(e)'.status = "GENERATING"
    BY <1>4, <2>2, <2>3, <2>4, <2>5 DEF Rows, Owning
  <2>8. \A e, f \in At(Owning)' : KeyOf[e] = KeyOf[f] => e = f
    BY <1>4, <2>4 DEF At, Rows
  <2>9. \A e \in Calls : Place(e)' = "mark" => call'[e].outcome \in {"FAILED", "CANCELLED"}
    BY <1>4, <2>4, <2>5 DEF Rows
  <2> QED BY <2>1, <2>6, <2>7, <2>8, <2>9 DEF Rows
<1>5. CASE Completes(c)
  <2> DEFINE r == [Row(c) EXCEPT !.status = "COMPLETED"]
  <2>1. r \in ResponseRow /\ r.status # "none"
    BY <1>1 DEF ResponseRow, Terminal
  <2>2. row' = [row EXCEPT ![KeyOf[c]] = r] /\ Moved(c, "respond")
    BY <1>5 DEF Completes
  <2>3. Place(c) \in Owning /\ "respond" \notin Asking
    BY <1>5 DEF Completes, Owning, Asking
  <2> HIDE DEF r
  <2> QED BY <1>4, <2>1, <2>2, <2>3
<1>6. CASE Marks(c)
  <2> DEFINE r == Marked(Row(c), call[c].outcome)
  <2>1. Place(c) \in Owning /\ "done" \notin Asking /\ "done" # "mark"
    BY <1>6 DEF Marks, Owning, Asking
  <2>2. call[c].outcome \in {"FAILED", "CANCELLED"} /\ Row(c).status # "none"
    BY <1>6, <2>1 DEF Marks, Rows
  <2>3. r \in ResponseRow /\ r.status # "none"
    BY <1>1, <2>2 DEF Marked, ResponseRow, Terminal
  <2>4. row' = [row EXCEPT ![KeyOf[c]] = r] /\ Moved(c, "done")
    BY <1>6 DEF Marks
  <2> HIDE DEF r
  <2> QED BY <1>4, <2>1, <2>3, <2>4
<1> QED BY <1>2, <1>3, <1>5, <1>6

\* The sources of a row are what they were, or what a call found and the chunks are.
LEMMA SourceSteps ==
    ASSUME Typed, CitationsHold, NEW c \in Calls, UNCHANGED documents,
           (\E to : Leaves(c, to)) \/ Writes(c) \/ Completes(c) \/ Marks(c)
    PROVE  CitationsHold'
<1>1. /\ row \in [Keys -> ResponseRow] /\ KeyOf[c] \in Keys /\ Row(c) \in ResponseRow
  BY RagAssumption DEF Typed, Row
<1>2. chunk' = chunk
  BY DEF documents
<1>3. ASSUME NEW r, row' = [row EXCEPT ![KeyOf[c]] = r],
             \A source \in r.sources : chunk[source[1]] = source[2]
      PROVE  CitationsHold'
  BY <1>1, <1>2, <1>3 DEF CitationsHold
<1>4. CASE \E to : Leaves(c, to)
  BY <1>2, <1>4 DEF Leaves, CitationsHold
<1>5. CASE Writes(c)
  <2>1. PICK insufficient \in BOOLEAN :
          row' = [row EXCEPT ![KeyOf[c]] =
                   [status |-> IF insufficient THEN "COMPLETED" ELSE "GENERATING",
                    sources |-> call[c].found]]
    BY <1>5 DEF Writes
  <2>2. \A source \in call[c].found : chunk[source[1]] = source[2]
    BY <1>5 DEF Writes, ChunksExist
  <2> DEFINE r == [status |-> IF insufficient THEN "COMPLETED" ELSE "GENERATING",
                   sources |-> call[c].found]
  <2>3. r.sources = call[c].found /\ row' = [row EXCEPT ![KeyOf[c]] = r]
    BY <2>1
  <2> HIDE DEF r
  <2> QED BY <1>3, <2>2, <2>3
<1>6. \A source \in Row(c).sources : chunk[source[1]] = source[2]
  BY <1>1 DEF CitationsHold, Row
<1>7. CASE Completes(c)
  <2>1. [Row(c) EXCEPT !.status = "COMPLETED"].sources = Row(c).sources
    BY <1>1 DEF ResponseRow
  <2> QED BY <1>3, <1>6, <1>7, <2>1 DEF Completes
<1>8. CASE Marks(c)
  <2>1. Marked(Row(c), call[c].outcome).sources = Row(c).sources
    BY <1>1 DEF ResponseRow, Marked
  <2> QED BY <1>3, <1>6, <1>8, <2>1 DEF Marks
<1> QED BY <1>4, <1>5, <1>7, <1>8

-----------------------------------------------------------------------------
(* The invariant.                                                          *)

\* Rows, the gate and the citations do not depend on the state of the site.
LEMMA Unmoved ==
    ASSUME RagInv, row' = row, call' = call, gate' = gate
    PROVE  Rows' /\ Gate'
<1>1. \A places : At(places)' = At(places)
  BY DEF At, Place
<1>2. Rows'
  BY <1>1 DEF RagInv, Rows, Place, Row, At
<1>3. Gate'
  BY <1>1 DEF RagInv, Gate, Agrees, InTurn, Waiters, At, Place
<1> QED BY <1>2, <1>3

\* The initial state satisfies the invariant.
LEMMA InitInv == Init => RagInv
<1> SUFFICES ASSUME Init
             PROVE  RagInv
  OBVIOUS
<1>1. Typed
  <2>1. NoRow \in ResponseRow
    BY DEF NoRow, ResponseRow, Passage
  <2>2. NewCall \in CallRow
    BY DEF NewCall, CallRow, Over, Passage
  <2>3. OpenGate \in GateRow
    BY RagAssumption DEF OpenGate, GateRow
  <2>4. 1 \in 1 .. MaxVersion
    BY RagAssumption
  <2> QED BY <2>1, <2>2, <2>3, <2>4 DEF Init, Typed
<1>2. \A c \in Calls : Place(c) = "idle"
  BY DEF Init, Place, NewCall
<1>3. Rows
  BY <1>2 DEF Rows, At, Owning, Asking
<1>4. Gate
  <2>1. At({"wait"}) = {} /\ At({"generate"}) = {}
    BY <1>2 DEF At
  <2>2. /\ OpenGate.queue = <<>> /\ OpenGate.granted = {} /\ OpenGate.free = Capacity
        /\ OpenGate.active = 0 /\ OpenGate.waiting = 0
    BY DEF OpenGate
  <2>3. InTurn(OpenGate) /\ Waiters(OpenGate) = {}
    BY <2>2 DEF InTurn, Waiters, ToSet
  <2>4. Agrees(OpenGate, {}, {})
    BY <2>2, <2>3, FS_EmptySet, RagAssumption DEF Agrees
  <2> QED BY <2>1, <2>4 DEF Gate, Init
<1>5. CitationsHold
  BY DEF Init, CitationsHold, NoRow
<1> QED BY <1>1, <1>3, <1>4, <1>5 DEF RagInv

\* Every step keeps it.
LEMMA NextInv == RagInv /\ [Next]_vars => RagInv'
<1> SUFFICES ASSUME RagInv, [Next]_vars
             PROVE  RagInv'
  OBVIOUS
<1> USE DEF RagInv
<1>1. CASE \E c \in Calls : CallStep(c)
  <2>1. PICK c \in Calls : CallStep(c)
    BY <1>1
  <2>2. /\ gate' \in GateRow /\ Gate' /\ UNCHANGED documents
        /\ (\E to : Leaves(c, to)) \/ Writes(c) \/ Completes(c) \/ Marks(c)
    BY <2>1, CallEffects
  <2>3. row' \in [Keys -> ResponseRow] /\ Rows'
    BY <2>2, RowSteps
  <2>4. CitationsHold'
    BY <2>2, SourceSteps
  <2>5. call' \in [Calls -> CallRow]
    BY <2>2 DEF Leaves, Writes, Completes, Marks, Moved
  <2> QED BY <2>2, <2>3, <2>4, <2>5 DEF Typed, documents
<1>2. CASE Crash
  <2>1. /\ gate' \in GateRow /\ Gate' /\ call' \in [Calls -> CallRow]
        /\ row' = row /\ UNCHANGED documents
        /\ \A c \in Calls : call'[c].place \in Over
    BY <1>2, CrashEffects
  <2>2. Rows'
    BY <2>1 DEF Rows, At, Over, Owning, Asking, Place
  <2>3. CitationsHold'
    BY <2>1 DEF CitationsHold, documents
  <2> QED BY <2>1, <2>2, <2>3 DEF Typed, documents
<1>3. CASE \E d \in Docs : SiteChanges(d)
  <2>1. PICK d \in Docs : SiteChanges(d)
    BY <1>3
  <2>2. thread' \in [Docs -> 1 .. MaxVersion]
    BY <2>1, RagAssumption DEF SiteChanges, Typed
  <2>3. row' = row /\ call' = call /\ gate' = gate /\ chunk' = chunk
    BY <2>1 DEF SiteChanges
  <2>4. CitationsHold'
    BY <2>3 DEF CitationsHold
  <2> QED BY <2>2, <2>3, <2>4, Unmoved DEF Typed
<1>4. CASE \E d \in Docs : Reingest(d)
  <2>1. PICK d \in Docs : Reingest(d)
    BY <1>4
  <2>2. row' = row /\ call' = call /\ gate' = gate /\ thread' = thread
        /\ chunk' = [chunk EXCEPT ![d] = thread[d]]
    BY <2>1 DEF Reingest
  <2>3. \A k \in Keys : \A source \in row[k].sources : source[1] # d
    BY <2>1 DEF Reingest, Replaceable
  <2>4. \A k \in Keys : \A source \in row[k].sources : source[1] \in Docs
    BY DEF Typed, ResponseRow, Passage
  <2>5. CitationsHold'
    BY <2>2, <2>3, <2>4 DEF CitationsHold, Typed
  <2> QED BY <2>2, <2>5, Unmoved DEF Typed
<1>5. CASE UNCHANGED vars
  <2>1. /\ row' = row /\ call' = call /\ gate' = gate /\ thread' = thread /\ chunk' = chunk
    BY <1>5 DEF vars
  <2>2. CitationsHold'
    BY <2>1 DEF CitationsHold
  <2> QED BY <2>1, <2>2, Unmoved DEF Typed
<1> QED BY <1>1, <1>2, <1>3, <1>4, <1>5 DEF Next, CallStep

\* The invariant holds always.
LEMMA RagInvariant == Spec => []RagInv
BY InitInv, NextInv, PTL DEF Spec

-----------------------------------------------------------------------------
(* The theorems.                                                           *)

\* What follows of the gate from its agreement with the calls.
LEMMA GateFollows == RagInv => RagTypeOK /\ GateBalanced
<1> SUFFICES ASSUME RagInv
             PROVE  RagTypeOK /\ GateBalanced
  OBVIOUS
<1>1. /\ gate.free \in Nat /\ gate.active \in Nat /\ gate.waiting \in Nat
      /\ gate.granted \in SUBSET Calls /\ gate.waiting <= QueueLimit
      /\ gate.free + gate.active + Cardinality(gate.granted) = Capacity
  BY DEF RagInv, Typed, GateRow, Gate, Agrees
<1>2. Cardinality(gate.granted) \in Nat
  BY <1>1, RagAssumption, FS_Subset, FS_CardinalityType
<1>3. gate.free \in 0 .. Capacity /\ gate.active \in 0 .. Capacity
      /\ gate.waiting \in 0 .. QueueLimit
  BY <1>1, <1>2, RagAssumption
<1>4. \A c \in Calls : call[c].found \subseteq Passage
  BY DEF RagInv, Typed, CallRow
<1>5. RagTypeOK
  BY <1>3, <1>4 DEF RagTypeOK, RagInv, Typed
<1> QED BY <1>5 DEF GateBalanced, RagInv, Gate, Agrees

\* Whatever the calls, the gate stays within its settings, and rows, passages and
\* chunks are of their types.
THEOREM RagTypeCorrect == Spec => []RagTypeOK
BY RagInvariant, GateFollows, PTL

\* The counters of the gate are those of the calls and no slot is lost or handed out
\* twice, for any capacity and limit and any interleaving of timeouts, cancellations,
\* releases and crashes.
THEOREM GateBalancedCorrect == Spec => []GateBalanced
BY RagInvariant, GateFollows, PTL

\* Two calls never ask the model for one clientRequestId.
THEOREM OneGenerationCorrect == Spec => []OneGeneration
<1>1. RagInv => OneGeneration
  BY DEF RagInv, Rows, OneGeneration, At, Owning, Asking
<1> QED BY <1>1, RagInvariant, PTL

\* What an answer cites is never replaced.
THEOREM CitationsHoldCorrect == Spec => []CitationsHold
<1>1. RagInv => CitationsHold
  BY DEF RagInv
<1> QED BY <1>1, RagInvariant, PTL

\* A recorded answer never changes.
THEOREM TerminalIsFinalCorrect == Spec => TerminalIsFinal
<1> DEFINE Final == \A k \in Keys : row[k].status \in Terminal => row'[k] = row[k]
<1>1. ASSUME RagInv, Next
      PROVE  Final
  <2>1. CASE \E c \in Calls : CallStep(c)
    <3>1. PICK c \in Calls : CallStep(c)
      BY <2>1
    <3>2. (\E to : Leaves(c, to)) \/ Writes(c) \/ Completes(c) \/ Marks(c)
      BY <1>1, <3>1, CallEffects DEF RagInv
    <3>3. row \in [Keys -> ResponseRow] /\ KeyOf[c] \in Keys
      BY <1>1, RagAssumption DEF RagInv, Typed
    <3>4. CASE \E to : Leaves(c, to)
      BY <3>4 DEF Leaves
    <3>5. CASE Writes(c)
      BY <3>3, <3>5 DEF Writes, Row, NoRow, Terminal
    <3>6. CASE Completes(c)
      <4>1. Row(c).status = "GENERATING"
        BY <1>1, <3>6 DEF Completes, RagInv, Rows, Asking
      <4> QED BY <3>3, <3>6, <4>1 DEF Completes, Row, Terminal
    <3>7. CASE Marks(c)
      BY <3>3, <3>7 DEF Marks, Marked, Row, Terminal
    <3> QED BY <3>2, <3>4, <3>5, <3>6, <3>7
  <2>2. CASE Crash
    BY <2>2 DEF Crash
  <2>3. CASE \E d \in Docs : SiteChanges(d) \/ Reingest(d)
    BY <2>3 DEF SiteChanges, Reingest
  <2> QED BY <1>1, <2>1, <2>2, <2>3 DEF Next, CallStep
<1>2. RagInv /\ [Next]_vars => [Final]_vars
  BY <1>1
<1> QED BY <1>2, RagInvariant, PTL DEF Spec, TerminalIsFinal

=============================================================================
