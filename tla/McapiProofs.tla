----------------------------- MODULE McapiProofs -----------------------------
(***************************************************************************)
(* Proofs about the queues and messages of MCAPI, for every size of the    *)
(* queues, every number of buffers, requests, threads and endpoints, and   *)
(* every application: the types, the exact counters, and that the calls    *)
(* implement the module Mailbox.                                           *)
(***************************************************************************)
EXTENDS McapiMessages, FiniteSetTheorems, TLAPS

-----------------------------------------------------------------------------
(* Numbers.                                                                *)

\* What the constants mean for the ring.
LEMMA Ring ==
  /\ Entries \in Nat /\ 2 <= Entries /\ MaxQueue = Entries - 1 /\ MaxQueue \in Nat
  /\ Slot = 0..(Entries - 1) /\ Slot \subseteq Nat /\ 0 \in Slot
BY QueueAssumption DEF Entries, Slot

\* A step around the ring.
LEMMA Wrap ==
  ASSUME NEW x \in 0..(2 * Entries - 1)
  PROVE  /\ x % Entries = IF x < Entries THEN x ELSE x - Entries
         /\ x % Entries \in Slot
<1>1. CASE x < Entries
  BY <1>1, Ring
<1>2. CASE x >= Entries
  BY <1>2, Ring
<1> QED BY <1>1, <1>2, Ring

\* A set of natural numbers that is not empty has a least element.
LEMMA Least ==
  ASSUME NEW S \in SUBSET Nat, S # {}
  PROVE  Min(S) \in S /\ \A y \in S : Min(S) <= y
<1> DEFINE R == {ss \in Nat \X Nat : ss[1] < ss[2]}
<1>1. IsWellFoundedOn(R, Nat)
  BY NatLessThanWellFounded DEF OpToRel
<1>2. PICK x \in S : \A y \in S : ~ (<<y, x>> \in R)
  BY <1>1, WFMin
<1>3. ASSUME NEW y \in S PROVE x <= y
  <2>1. ~ (<<y, x>> \in R)
    BY <1>2
  <2>2. <<y, x>> \in Nat \X Nat /\ <<y, x>>[1] = y /\ <<y, x>>[2] = x
    OBVIOUS
  <2>3. ~ (y < x)
    BY <2>1, <2>2
  <2> QED BY <2>3
<1> QED BY <1>3 DEF Min

-----------------------------------------------------------------------------
(* The queue of an endpoint.                                               *)

QueueType == [head : Slot, tail : Slot, num : Nat, elements : [Slot -> EntryType]]

\* A message is between the head and the tail.
Before(q, s) == Pos(q, s) < Pos(q, q.tail)
InRing(q) == \A s \in Full(q) : Before(q, s)

\* What holds of every queue between two calls.
QueueOk(q) == q \in QueueType /\ InRing(q) /\ q.num = Cardinality(Full(q))

\* The position is the inverse of the walk.
LEMMA WalkPos ==
  ASSUME NEW q \in QueueType
  PROVE  /\ \A i \in Slot : Walk(q, i) \in Slot /\ Pos(q, Walk(q, i)) = i
         /\ \A s \in Slot : Pos(q, s) \in Slot /\ Walk(q, Pos(q, s)) = s
<1>0. q.head \in Slot
  BY DEF QueueType
<1>1. ASSUME NEW i \in Slot PROVE Walk(q, i) \in Slot /\ Pos(q, Walk(q, i)) = i
  <2>1. q.head + i \in 0..(2 * Entries - 1)
    BY <1>0, Ring
  <2>2. /\ Walk(q, i) = IF q.head + i < Entries THEN q.head + i ELSE q.head + i - Entries
        /\ Walk(q, i) \in Slot
    <3> DEFINE x == q.head + i
    <3>1. x \in 0..(2 * Entries - 1) /\ Walk(q, i) = x % Entries
      BY <2>1 DEF Walk
    <3> HIDE DEF x
    <3>2. Walk(q, i) = (IF x < Entries THEN x ELSE x - Entries) /\ Walk(q, i) \in Slot
      BY <3>1, Wrap
    <3> QED BY <1>0, <2>1, <3>2, Ring DEF x
  <2> QED BY <1>0, <2>2, Ring DEF Pos
<1>2. ASSUME NEW s \in Slot PROVE Pos(q, s) \in Slot /\ Walk(q, Pos(q, s)) = s
  <2>1. Pos(q, s) \in Slot
    BY <1>0, Ring DEF Pos
  <2>2. q.head + Pos(q, s) \in 0..(2 * Entries - 1)
    BY <1>0, <2>1, Ring
  <2>3. Walk(q, Pos(q, s)) = IF q.head + Pos(q, s) < Entries THEN q.head + Pos(q, s)
                             ELSE q.head + Pos(q, s) - Entries
    <3> DEFINE x == q.head + Pos(q, s)
    <3>1. x \in 0..(2 * Entries - 1) /\ Walk(q, Pos(q, s)) = x % Entries
      BY <2>2 DEF Walk
    <3> HIDE DEF x
    <3>2. Walk(q, Pos(q, s)) = (IF x < Entries THEN x ELSE x - Entries)
      BY <3>1, Wrap
    <3> QED BY <1>0, <2>1, <3>2, Ring DEF x
  <2> QED BY <1>0, <2>1, <2>3, Ring DEF Pos
<1> QED BY <1>1, <1>2

\* The entries are finitely many.
LEMMA Finite ==
  ASSUME NEW q \in QueueType
  PROVE  /\ IsFiniteSet(Slot) /\ Cardinality(Slot) = Entries
         /\ IsFiniteSet(Full(q)) /\ Cardinality(Full(q)) \in Nat
<1>1. IsFiniteSet(Slot) /\ Cardinality(Slot) = Entries
  BY Ring, FS_Interval
<1>2. Full(q) \in SUBSET Slot
  BY DEF Full
<1> QED BY <1>1, <1>2, FS_Subset, FS_CardinalityType

\* A queue holds no more messages than its size.
LEMMA Bounded ==
  ASSUME NEW q, QueueOk(q)
  PROVE  q.num \in 0..MaxQueue
<1>0. q \in QueueType /\ q.tail \in Slot /\ InRing(q) /\ q.num = Cardinality(Full(q))
  BY DEF QueueOk, QueueType
<1>1. q.tail \notin Full(q)
  BY <1>0, WalkPos, Ring DEF InRing, Before
<1>2. Full(q) \in SUBSET (Slot \ {q.tail})
  BY <1>1 DEF Full
<1>3. IsFiniteSet(Slot \ {q.tail}) /\ Cardinality(Slot \ {q.tail}) = Entries - 1
  BY <1>0, Finite, FS_RemoveElement
<1>4. Cardinality(Full(q)) <= Entries - 1
  BY <1>2, <1>3, FS_Subset
<1> QED BY <1>0, <1>4, Finite, Ring

\* A queue that counts a message is not empty.
LEMMA NotEmpty ==
  ASSUME NEW q, QueueOk(q), q.num > 0
  PROVE  q.head # q.tail
<1>0. q \in QueueType /\ q.tail \in Slot /\ q.head \in Slot /\ InRing(q)
      /\ q.num = Cardinality(Full(q))
  BY DEF QueueOk, QueueType
<1>1. Full(q) # {}
  BY <1>0, FS_EmptySet
<1>2. PICK s \in Full(q) : TRUE
  BY <1>1
<1>3. Pos(q, s) \in Slot /\ Pos(q, s) < Pos(q, q.tail)
  BY <1>0, <1>2, WalkPos DEF InRing, Before, Full
<1> QED BY <1>0, <1>3, Ring DEF Pos

\* From a head that has moved on, what is not passed is that much nearer.
LEMMA Nearer ==
  ASSUME NEW q \in QueueType, NEW c \in QueueType, NEW k \in Slot, c.head = Walk(q, k),
         NEW s \in Slot, Pos(q, s) >= k
  PROVE  Pos(c, s) = Pos(q, s) - k
<1>0. q.head \in Slot
  BY DEF QueueType
<1>1. c.head = IF q.head + k < Entries THEN q.head + k ELSE q.head + k - Entries
  <2> DEFINE x == q.head + k
  <2>1. x \in 0..(2 * Entries - 1) /\ Walk(q, k) = x % Entries
    BY <1>0, Ring DEF Walk
  <2> HIDE DEF x
  <2>2. Walk(q, k) = (IF x < Entries THEN x ELSE x - Entries)
    BY <2>1, Wrap
  <2> QED BY <1>0, <2>2, Ring DEF x
<1> QED BY <1>0, <1>1, Ring DEF Pos

\* The message of an entry, and the receives that have a reservation.
BufferAt(q, s) == q.elements[s].buffer
RequestAt(q, s) == q.elements[s].request
ReservedOnce(q) ==
  \A s, u \in Slot : RequestAt(q, s) = RequestAt(q, u) /\ RequestAt(q, s) # None => s = u

\* The entries a receive has reserved, and the bubbles.
Asked(q) == {s \in Slot : RequestAt(q, s) # None}
InvalidAt(q, s) == q.elements[s].invalid = TRUE

\* A bubble is an entry before the tail without a message, and has no reservation.
Bubbles(q) ==
  \A s \in Slot : /\ InvalidAt(q, s) <=> Before(q, s) /\ BufferAt(q, s) = None
                  /\ InvalidAt(q, s) => RequestAt(q, s) = None

\* From q to c the entries X are emptied, and the head moves on over entries
\* that are not in use.
Takes(q, c, X) ==
  /\ c.tail = q.tail /\ Pos(q, c.head) <= Pos(q, q.tail)
  /\ \A u \in Slot :
       /\ BufferAt(c, u) = IF u \in X THEN None ELSE BufferAt(q, u)
       /\ RequestAt(c, u) = IF u \in X THEN None ELSE RequestAt(q, u)
       /\ InvalidAt(c, u) <=> Pos(q, u) >= Pos(q, c.head) /\ (InvalidAt(q, u) \/ u \in X)
       /\ Pos(q, u) < Pos(q, c.head) => BufferAt(c, u) = None /\ RequestAt(c, u) = None

\* How far an entry is from another head.
LEMMA Turned ==
  ASSUME NEW q \in QueueType, NEW c \in QueueType, NEW s \in Slot
  PROVE  Pos(c, s) = IF Pos(q, s) >= Pos(q, c.head) THEN Pos(q, s) - Pos(q, c.head)
                     ELSE Pos(q, s) - Pos(q, c.head) + Entries
<1>1. q.head \in 0..(Entries - 1) /\ c.head \in 0..(Entries - 1) /\ s \in 0..(Entries - 1)
      /\ Entries \in Nat
  BY Ring DEF QueueType
<1> QED BY <1>1 DEF Pos

\* Compacting moves the head, to no message's loss.
LEMMA CompactKeeps ==
  ASSUME NEW q \in QueueType
  PROVE  /\ Compact(q) \in QueueType
         /\ \A s \in Full(q) : Before(q, s) => Before(Compact(q), s)
         /\ Compact(q).tail = q.tail /\ Compact(q).num = q.num
         /\ \A s \in Slot : /\ BufferAt(Compact(q), s) = BufferAt(q, s)
                            /\ RequestAt(Compact(q), s) = RequestAt(q, s)
         /\ Takes(q, Compact(q), {})
<1> DEFINE inUse(i) == LET x == q.elements[Walk(q, i)]
                       IN Walk(q, i) = q.tail \/ x.request # None \/ x.buffer # None
           used == {i \in Slot : inUse(i)}
           stop == Min(used)
           passed == {Walk(q, i) : i \in 0..(stop - 1)}
           elements == [s \in Slot |-> IF s \in passed THEN [q.elements[s] EXCEPT !.invalid = FALSE]
                                                       ELSE q.elements[s]]
<1>0. q.head \in Slot /\ q.tail \in Slot /\ q.num \in Nat /\ q.elements \in [Slot -> EntryType]
  BY DEF QueueType
<1>1. Compact(q) = [q EXCEPT !.head = Walk(q, stop), !.elements = elements]
  BY DEF Compact
<1>2. Pos(q, q.tail) \in used
  BY <1>0, WalkPos
<1>3. stop \in Slot /\ \A i \in used : stop <= i
  BY <1>2, Least, Ring
<1>4. \A s \in Slot : Pos(q, s) \notin used =>
        q.elements[s].buffer = None /\ q.elements[s].request = None
  BY WalkPos
<1> HIDE DEF used, inUse, stop
<1>a. \A s \in Slot : s \in passed <=> Pos(q, s) < stop
  <2>1. \A i \in 0..(stop - 1) : i \in Slot
    BY <1>3, Ring
  <2>2. \A s \in Slot : Pos(q, s) < stop => Pos(q, s) \in 0..(stop - 1)
    BY <1>3, WalkPos, Ring
  <2>3. \A i \in 0..(stop - 1) : i < stop
    BY <1>3, Ring
  <2> QED BY <2>1, <2>2, <2>3, WalkPos
<1> HIDE DEF passed
<1>5. elements \in [Slot -> EntryType]
      /\ \A s \in Slot :
           /\ elements[s].buffer = q.elements[s].buffer
           /\ elements[s].request = q.elements[s].request
           /\ elements[s].invalid = IF s \in passed THEN FALSE ELSE q.elements[s].invalid
  BY <1>0 DEF EntryType
<1> HIDE DEF elements
<1>6. /\ Compact(q) \in QueueType
      /\ Compact(q).tail = q.tail /\ Compact(q).num = q.num
      /\ Compact(q).head = Walk(q, stop) /\ Compact(q).elements = elements
  BY <1>0, <1>1, <1>3, <1>5, WalkPos DEF QueueType
<1>7. \A s \in Slot : /\ BufferAt(Compact(q), s) = BufferAt(q, s)
                      /\ RequestAt(Compact(q), s) = RequestAt(q, s)
  BY <1>5, <1>6 DEF BufferAt, RequestAt
<1>9. ASSUME NEW s \in Full(q), Before(q, s) PROVE Before(Compact(q), s)
  <2>1. s \in Slot /\ Pos(q, s) >= stop /\ Pos(q, q.tail) >= stop
    <3>1. s \in Slot /\ Pos(q, s) \in used
      BY <1>4 DEF Full
    <3> QED BY <1>2, <1>3, <3>1
  <2>2. Pos(Compact(q), s) = Pos(q, s) - stop
    BY <1>3, <1>6, <2>1, Nearer
  <2>3. Pos(Compact(q), q.tail) = Pos(q, q.tail) - stop
    BY <1>0, <1>3, <1>6, <2>1, Nearer
  <2>4. Pos(q, s) < Pos(q, q.tail) /\ Pos(q, s) \in Slot /\ Pos(q, q.tail) \in Slot
    BY <1>0, <1>9, <2>1, WalkPos DEF Before
  <2> QED BY <1>3, <1>6, <2>2, <2>3, <2>4, Ring DEF Before
<1>10. Takes(q, Compact(q), {})
  <2>1. Pos(q, Compact(q).head) = stop /\ stop <= Pos(q, q.tail)
    BY <1>2, <1>3, <1>6, WalkPos
  <2>2. \A u \in Slot : Pos(q, u) \in Nat /\ stop \in Nat
    BY <1>3, WalkPos, Ring
  <2>3. \A u \in Slot : InvalidAt(Compact(q), u) <=> ~(Pos(q, u) < stop) /\ InvalidAt(q, u)
    BY <1>5, <1>6, <1>a DEF InvalidAt
  <2>4. \A u \in Slot : Pos(q, u) < stop =>
          BufferAt(Compact(q), u) = None /\ RequestAt(Compact(q), u) = None
    BY <1>3, <1>4, <1>7, <2>2 DEF BufferAt, RequestAt
  <2>5. \A u \in Slot : Pos(q, u) >= stop <=> ~(Pos(q, u) < stop)
    BY <2>2
  <2> QED BY <1>6, <1>7, <2>1, <2>3, <2>4, <2>5 DEF Takes
<1> QED BY <1>6, <1>7, <1>9, <1>10

\* An entry for a message is free, and the message is counted.
LEMMA PushKeeps ==
  ASSUME NEW q, QueueOk(q), ~IsFull(q), NEW b \in Buffer, None \notin Buffer
  PROVE  /\ QueueOk(Push(q, b))
         /\ q.tail \in Slot /\ BufferAt(q, q.tail) = None
         /\ \A s \in Slot : /\ BufferAt(Push(q, b), s) = IF s = q.tail THEN b ELSE BufferAt(q, s)
                            /\ RequestAt(Push(q, b), s) = RequestAt(q, s)
                            /\ InvalidAt(Push(q, b), s) <=> InvalidAt(q, s)
         /\ Push(q, b).head = q.head
         /\ Pos(q, Push(q, b).tail) = Pos(q, q.tail) + 1
<1>0. /\ q \in QueueType /\ InRing(q) /\ q.num = Cardinality(Full(q)) /\ q.num \in Nat
      /\ q.head \in Slot /\ q.tail \in Slot /\ q.elements \in [Slot -> EntryType]
  BY DEF QueueOk, QueueType
<1> DEFINE p == Push(q, b)
           next == (q.tail + 1) % Entries
<1>1. next \in Slot /\ next = (IF q.tail + 1 < Entries THEN q.tail + 1 ELSE 0) /\ next # q.head
  <2> DEFINE x == q.tail + 1
  <2>1. x \in 0..(2 * Entries - 1) /\ next = x % Entries
    BY <1>0, Ring
  <2> HIDE DEF x, next
  <2>2. next \in Slot /\ next = (IF x < Entries THEN x ELSE x - Entries)
    BY <2>1, Wrap
  <2> QED BY <1>0, <2>2, Ring DEF x, next, IsFull
<1> HIDE DEF next
<1>2. /\ p \in QueueType /\ p.head = q.head /\ p.tail = next /\ p.num = q.num + 1
      /\ \A s \in Slot : p.elements[s] = IF s = q.tail THEN [q.elements[s] EXCEPT !.buffer = b]
                                         ELSE q.elements[s]
  <2> DEFINE entry == [q.elements[q.tail] EXCEPT !.buffer = b]
             elements == [q.elements EXCEPT ![q.tail] = entry]
  <2>1. entry \in EntryType
    BY <1>0 DEF EntryType
  <2>2. p = [head |-> q.head, tail |-> next, num |-> q.num + 1, elements |-> elements]
    <3>1. p = [q EXCEPT !.num = q.num + 1, !.tail = next, !.elements = elements]
      BY <1>0 DEF Push, next, QueueType
    <3> HIDE DEF p, elements
    <3> QED BY <1>0, <3>1 DEF QueueType
  <2>3. /\ elements \in [Slot -> EntryType]
        /\ \A s \in Slot : elements[s] = IF s = q.tail THEN entry ELSE q.elements[s]
    <3> HIDE DEF entry
    <3> QED BY <1>0, <2>1
  <2> HIDE DEF elements, p
  <2>4. /\ p \in QueueType /\ p.head = q.head /\ p.tail = next /\ p.num = q.num + 1
        /\ p.elements = elements
    BY <1>0, <1>1, <2>2, <2>3 DEF QueueType
  <2> QED BY <2>3, <2>4
<1>3. \A s \in Slot : /\ BufferAt(p, s) = IF s = q.tail THEN b ELSE BufferAt(q, s)
                      /\ RequestAt(p, s) = RequestAt(q, s)
                      /\ InvalidAt(p, s) <=> InvalidAt(q, s)
  <2> SUFFICES ASSUME NEW s \in Slot
               PROVE  /\ BufferAt(p, s) = IF s = q.tail THEN b ELSE BufferAt(q, s)
                      /\ RequestAt(p, s) = RequestAt(q, s)
                      /\ InvalidAt(p, s) <=> InvalidAt(q, s)
    OBVIOUS
  <2>1. q.elements[s] \in EntryType
    BY <1>0
  <2>2. CASE s = q.tail
    <3>1. p.elements[s] = [q.elements[s] EXCEPT !.buffer = b]
      BY <1>2, <2>2
    <3> QED BY <2>1, <2>2, <3>1 DEF BufferAt, RequestAt, InvalidAt, EntryType
  <2>3. CASE s # q.tail
    BY <1>2, <2>3 DEF BufferAt, RequestAt, InvalidAt
  <2> QED BY <2>2, <2>3
<1>4. q.tail \notin Full(q)
  BY <1>0, WalkPos, Ring DEF InRing, Before
<1>5. Full(p) = Full(q) \union {q.tail}
  BY <1>0, <1>3 DEF Full, BufferAt
<1>6. Cardinality(Full(p)) = Cardinality(Full(q)) + 1
  BY <1>0, <1>4, <1>5, Finite, FS_AddElement
<1>7. \A s \in Slot : Pos(p, s) = Pos(q, s)
  BY <1>2 DEF Pos
<1>8. Pos(q, next) = Pos(q, q.tail) + 1
  <2>1. /\ Entries \in Nat /\ q.head \in 0..(Entries - 1) /\ q.tail \in 0..(Entries - 1)
        /\ next = (IF q.tail + 1 < Entries THEN q.tail + 1 ELSE 0) /\ next # q.head
    BY <1>0, <1>1, Ring
  <2>2. CASE q.tail + 1 < Entries
    BY <2>1, <2>2 DEF Pos
  <2>3. CASE q.tail + 1 = Entries
    <3>1. next = 0 /\ q.head > 0
      BY <2>1, <2>3
    <3> QED BY <2>1, <2>3, <3>1 DEF Pos
  <2> QED BY <2>1, <2>2, <2>3
<1>9. InRing(p)
  <2> SUFFICES ASSUME NEW s \in Full(p) PROVE Pos(p, s) < Pos(p, next)
    BY <1>2 DEF InRing, Before
  <2>1. s \in Slot /\ Pos(q, s) \in Slot /\ Pos(q, q.tail) \in Slot
    BY <1>0, WalkPos DEF Full
  <2>2. Pos(q, s) <= Pos(q, q.tail)
    BY <1>0, <1>5, <2>1, Ring DEF InRing, Before
  <2>3. Pos(p, s) = Pos(q, s) /\ Pos(p, next) = Pos(q, q.tail) + 1
    BY <1>1, <1>7, <1>8, <2>1
  <2> QED BY <2>1, <2>2, <2>3, Ring
<1> QED BY <1>0, <1>2, <1>3, <1>4, <1>6, <1>8, <1>9 DEF QueueOk, Full, BufferAt

\* The fields of a queue some of which have been assigned.
LEMMA Assigned ==
  ASSUME NEW q \in QueueType
  PROVE  /\ \A a, f : [q EXCEPT !.num = a, !.elements = f] =
              [head |-> q.head, tail |-> q.tail, num |-> a, elements |-> f]
         /\ \A f : [q EXCEPT !.elements = f] =
              [head |-> q.head, tail |-> q.tail, num |-> q.num, elements |-> f]
<1>1. q = [head |-> q.head, tail |-> q.tail, num |-> q.num, elements |-> q.elements]
  BY DEF QueueType
<1> DEFINE h == q.head
           t == q.tail
           n == q.num
           e == q.elements
<1>2. q = [head |-> h, tail |-> t, num |-> n, elements |-> e]
  BY <1>1
<1> HIDE DEF h, t, n, e
<1>3. ASSUME NEW a
      PROVE  \A f : [q EXCEPT !.num = a, !.elements = f] =
                      [head |-> h, tail |-> t, num |-> a, elements |-> f]
  <2> DEFINE p == [q EXCEPT !.num = a]
  <2>1. p = [head |-> h, tail |-> t, num |-> a, elements |-> e]
    BY <1>2
  <2>2. \A f : [q EXCEPT !.num = a, !.elements = f] = [p EXCEPT !.elements = f]
    OBVIOUS
  <2> HIDE DEF p
  <2>3. \A f : [p EXCEPT !.elements = f] = [head |-> h, tail |-> t, num |-> a, elements |-> f]
    BY <2>1
  <2> QED BY <2>2, <2>3
<1>4. \A f : [q EXCEPT !.elements = f] = [head |-> h, tail |-> t, num |-> n, elements |-> f]
  BY <1>2
<1> QED BY <1>3, <1>4 DEF h, t, n, e

\* A queue with one entry replaced, and perhaps its head moved.
With(q, s, x, h, n) ==
  [head |-> h, tail |-> q.tail, num |-> n, elements |-> [q.elements EXCEPT ![s] = x]]

LEMMA WithKeeps ==
  ASSUME NEW q \in QueueType, NEW s \in Slot, NEW x \in EntryType, NEW h \in Slot, NEW n \in Nat
  PROVE  /\ With(q, s, x, h, n) \in QueueType
         /\ With(q, s, x, h, n).head = h /\ With(q, s, x, h, n).num = n
         /\ With(q, s, x, h, n).tail = q.tail
         /\ \A u \in Slot : With(q, s, x, h, n).elements[u] = IF u = s THEN x ELSE q.elements[u]
<1> DEFINE elements == [q.elements EXCEPT ![s] = x]
<1>0. q.tail \in Slot /\ q.elements \in [Slot -> EntryType]
  BY DEF QueueType
<1>1. /\ elements \in [Slot -> EntryType]
      /\ \A u \in Slot : elements[u] = IF u = s THEN x ELSE q.elements[u]
  BY <1>0
<1> HIDE DEF elements
<1>2. With(q, s, x, h, n) = [head |-> h, tail |-> q.tail, num |-> n, elements |-> elements]
  BY DEF With, elements
<1> QED BY <1>0, <1>1, <1>2 DEF QueueType

\* One message less.
LEMMA Fewer ==
  ASSUME NEW q, QueueOk(q), NEW p \in QueueType, NEW s \in Full(q),
         Full(p) = Full(q) \ {s}, p.num = q.num - 1,
         \A u \in Full(p) : Before(p, u)
  PROVE  QueueOk(p)
<1>1. q \in QueueType /\ q.num = Cardinality(Full(q))
  BY DEF QueueOk
<1>2. IsFiniteSet(Full(q)) /\ Cardinality(Full(p)) = Cardinality(Full(q)) - 1
  BY <1>1, Finite, FS_RemoveElement
<1> QED BY <1>1, <1>2 DEF QueueOk, InRing

\* A queue with a message counts it.
LEMMA Counted ==
  ASSUME NEW q, QueueOk(q), Full(q) # {}
  PROVE  q.num - 1 \in Nat
<1>1. q \in QueueType /\ q.num = Cardinality(Full(q)) /\ q.num \in Nat
  BY DEF QueueOk, QueueType
<1>2. q.num # 0
  BY <1>1, Finite, FS_EmptySet
<1> QED BY <1>1, <1>2

\* A receive takes a message that is there, unreserved, and nothing else.
LEMMA PopKeeps ==
  ASSUME NEW q, QueueOk(q), HasMessage(q)
  PROVE  /\ QueueOk(Pop(q))
         /\ PopSlot(q) \in Slot
         /\ BufferAt(q, PopSlot(q)) # None /\ RequestAt(q, PopSlot(q)) = None
         /\ \A u \in Slot :
              /\ BufferAt(Pop(q), u) = IF u = PopSlot(q) THEN None ELSE BufferAt(q, u)
              /\ RequestAt(Pop(q), u) = RequestAt(q, u)
         /\ \A u \in Slot : BufferAt(q, u) # None /\ RequestAt(q, u) = None =>
              Pos(q, PopSlot(q)) <= Pos(q, u)
         /\ Bubbles(q) => Takes(q, Pop(q), {PopSlot(q)})
<1> DEFINE s == PopSlot(q)
           x == IF s = q.head THEN q.elements[s] ELSE [q.elements[s] EXCEPT !.invalid = TRUE]
           h == IF s = q.head THEN (q.head + 1) % Entries ELSE q.head
           n == q.num - 1
           taken == With(q, s, x, h, n)
           c == Compact(taken)
           y == [c.elements[s] EXCEPT !.buffer = None]
<1>0. /\ q \in QueueType /\ InRing(q) /\ q.num = Cardinality(Full(q)) /\ q.num \in Nat
      /\ q.head \in Slot /\ q.tail \in Slot /\ q.elements \in [Slot -> EntryType]
  BY DEF QueueOk, QueueType
<1>1. s \in Slot /\ BufferAt(q, s) # None /\ RequestAt(q, s) = None
  <2>1. Min(MessageSteps(q)) \in MessageSteps(q)
    BY Least, Ring DEF HasMessage, MessageSteps
  <2> QED BY <1>0, <2>1, WalkPos DEF PopSlot, MessageSteps, Unreserved, BufferAt, RequestAt
<1>a. \A u \in Slot : BufferAt(q, u) # None /\ RequestAt(q, u) = None => Pos(q, s) <= Pos(q, u)
  <2>1. /\ MessageSteps(q) \in SUBSET Slot /\ MessageSteps(q) \in SUBSET Nat
        /\ MessageSteps(q) # {}
    BY Ring DEF HasMessage, MessageSteps
  <2>2. /\ Min(MessageSteps(q)) \in MessageSteps(q)
        /\ \A i \in MessageSteps(q) : Min(MessageSteps(q)) <= i
    BY <2>1, Least
  <2>3. Pos(q, s) = Min(MessageSteps(q))
    BY <1>0, <2>1, <2>2, WalkPos DEF PopSlot
  <2>4. \A u \in Slot : BufferAt(q, u) # None /\ RequestAt(q, u) = None =>
          Pos(q, u) \in MessageSteps(q)
    BY <1>0, WalkPos DEF MessageSteps, Unreserved, BufferAt, RequestAt
  <2> QED BY <2>2, <2>3, <2>4
<1>2. s \in Full(q) /\ n \in Nat
  BY <1>1, Counted DEF Full, BufferAt
<1>3. /\ x \in EntryType /\ x.buffer = BufferAt(q, s) /\ x.request = RequestAt(q, s)
      /\ x.invalid = IF s = q.head THEN q.elements[s].invalid ELSE TRUE
  <2>1. q.elements[s] \in EntryType
    BY <1>0, <1>1
  <2> QED BY <2>1 DEF EntryType, BufferAt, RequestAt
<1>4. 1 \in Slot /\ h \in Slot /\ (s = q.head => h = Walk(q, 1))
  <2>1. 1 \in Slot /\ Walk(q, 1) = (q.head + 1) % Entries
    BY Ring DEF Walk
  <2> QED BY <1>0, <2>1, WalkPos
<1> HIDE DEF s, x, h, n
<1>5. /\ taken \in QueueType /\ taken.head = h /\ taken.num = n /\ taken.tail = q.tail
      /\ \A u \in Slot : taken.elements[u] = IF u = s THEN x ELSE q.elements[u]
  <2>1. q \in QueueType /\ s \in Slot /\ x \in EntryType /\ h \in Slot /\ n \in Nat
    BY <1>0, <1>1, <1>2, <1>3, <1>4
  <2> QED BY <2>1, WithKeeps
<1>6. Pop(q) = [c EXCEPT !.elements[s].buffer = None]
  <2>1. CASE s = q.head
    <3>1. taken = [q EXCEPT !.num = @ - 1, !.head = (@ + 1) % Entries]
      <4>1. [q.elements EXCEPT ![s] = q.elements[s]] = q.elements
        BY <1>0, <1>1
      <4>2. x = q.elements[s] /\ h = (q.head + 1) % Entries
        BY <2>1 DEF x, h
      <4>3. taken = [head |-> h, tail |-> q.tail, num |-> n, elements |-> q.elements]
        BY <4>1, <4>2 DEF With
      <4>4. [q EXCEPT !.num = n, !.head = h] =
              [head |-> h, tail |-> q.tail, num |-> n, elements |-> q.elements]
        <5> DEFINE p == [q EXCEPT !.num = n]
                   e == q.elements
                   t == q.tail
                   g == q.head
                   m == q.num
        <5>1. q = [head |-> g, tail |-> t, num |-> m, elements |-> e]
          BY <1>0 DEF QueueType
        <5> HIDE DEF e, t, g, m
        <5>2. p = [head |-> g, tail |-> t, num |-> n, elements |-> e]
          BY <5>1
        <5>3. [q EXCEPT !.num = n, !.head = h] = [p EXCEPT !.head = h]
          OBVIOUS
        <5> HIDE DEF p
        <5>4. [p EXCEPT !.head = h] = [head |-> h, tail |-> t, num |-> n, elements |-> e]
          BY <5>2
        <5> QED BY <5>3, <5>4 DEF e, t, g, m
      <4>5. taken = [q EXCEPT !.num = n, !.head = h]
        BY <4>3, <4>4
      <4> QED BY <4>2, <4>5 DEF n
    <3> QED BY <2>1, <3>1 DEF Pop, s
  <2>2. CASE s # q.head
    <3>1. taken = [q EXCEPT !.num = @ - 1, !.elements[s].invalid = TRUE]
      <4>2. x = [q.elements[s] EXCEPT !.invalid = TRUE] /\ h = q.head
        BY <2>2 DEF x, h
      <4>3. taken = [q EXCEPT !.num = n, !.elements = [q.elements EXCEPT ![s] = x]]
        BY <1>0, <4>2, Assigned DEF With
      <4>4. [q.elements EXCEPT ![s].invalid = TRUE] = [q.elements EXCEPT ![s] = x]
        BY <4>2
      <4> QED BY <4>2, <4>3, <4>4 DEF n
    <3> QED BY <2>2, <3>1 DEF Pop, s
  <2> QED BY <2>1, <2>2
<1> HIDE DEF taken
<1>7. ASSUME NEW u \in Full(q), u # s PROVE u \in Full(taken) /\ Before(taken, u)
  <2>1. u \in Slot /\ u \in Full(taken) /\ Pos(q, u) < Pos(q, q.tail)
    BY <1>0, <1>5, <1>7 DEF Full, InRing, Before
  <2>2. CASE s = q.head
    <3>1. Pos(q, u) >= 1 /\ Pos(q, q.tail) >= 1
      BY <1>0, <1>7, <2>1, <2>2, Ring DEF Pos
    <3>2. Pos(taken, u) = Pos(q, u) - 1 /\ Pos(taken, q.tail) = Pos(q, q.tail) - 1
      BY <1>0, <1>4, <1>5, <2>1, <2>2, <3>1, Nearer
    <3>3. Pos(q, u) \in Slot /\ Pos(q, q.tail) \in Slot
      BY <1>0, <2>1, WalkPos
    <3> QED BY <1>5, <2>1, <3>2, <3>3, Ring DEF Before
  <2>3. CASE s # q.head
    BY <1>5, <2>1, <2>3 DEF h, Before, Pos
  <2> QED BY <2>1, <2>2, <2>3
<1>8. /\ c \in QueueType /\ c.tail = q.tail /\ c.num = n
      /\ \A u \in Slot : /\ BufferAt(c, u) = BufferAt(q, u) /\ RequestAt(c, u) = RequestAt(q, u)
      /\ \A u \in Full(q) : u # s => Before(c, u)
      /\ Takes(taken, c, {})
  <2>1. \A u \in Slot : BufferAt(taken, u) = BufferAt(q, u) /\ RequestAt(taken, u) = RequestAt(q, u)
    BY <1>3, <1>5 DEF BufferAt, RequestAt
  <2> QED BY <1>5, <1>7, <2>1, CompactKeeps
<1> HIDE DEF c
<1>9. /\ Pop(q) \in QueueType /\ Pop(q).head = c.head /\ Pop(q).tail = q.tail
      /\ Pop(q).num = n
      /\ \A u \in Slot : Pop(q).elements[u] = IF u = s THEN y ELSE c.elements[u]
  <2>0. c.elements \in [Slot -> EntryType] /\ c.head \in Slot /\ c.num \in Nat
    BY <1>8 DEF QueueType
  <2>1. y \in EntryType
    BY <1>1, <2>0 DEF EntryType
  <2>2. Pop(q) = With(c, s, y, c.head, c.num)
    <3>1. Pop(q) = [c EXCEPT !.elements = [c.elements EXCEPT ![s] = y]]
      BY <1>1, <1>6, <1>8, <2>0 DEF QueueType
    <3> HIDE DEF y
    <3> QED BY <1>8, <3>1, Assigned DEF With
  <2> HIDE DEF y
  <2>3. c \in QueueType /\ s \in Slot
    BY <1>1, <1>8
  <2>4. /\ With(c, s, y, c.head, c.num).head = c.head /\ With(c, s, y, c.head, c.num).tail = c.tail
        /\ With(c, s, y, c.head, c.num).num = c.num
        /\ With(c, s, y, c.head, c.num) \in QueueType
        /\ \A u \in Slot : With(c, s, y, c.head, c.num).elements[u] = IF u = s THEN y ELSE c.elements[u]
    <3> DEFINE hc == c.head
               nc == c.num
    <3>1. hc \in Slot /\ nc \in Nat
      BY <2>0
    <3> HIDE DEF hc, nc
    <3>2. /\ With(c, s, y, hc, nc).head = hc /\ With(c, s, y, hc, nc).tail = c.tail
          /\ With(c, s, y, hc, nc).num = nc
          /\ With(c, s, y, hc, nc) \in QueueType
          /\ \A u \in Slot : With(c, s, y, hc, nc).elements[u] = IF u = s THEN y ELSE c.elements[u]
      BY <2>1, <2>3, <3>1, WithKeeps
    <3> QED BY <3>2 DEF hc, nc
  <2> QED BY <1>8, <2>2, <2>4
<1>10. \A u \in Slot : /\ BufferAt(Pop(q), u) = IF u = s THEN None ELSE BufferAt(q, u)
                       /\ RequestAt(Pop(q), u) = RequestAt(q, u)
  <2>1. y.buffer = None /\ y.request = RequestAt(q, s)
    <3>1. c.elements[s] \in EntryType
      BY <1>1, <1>8 DEF QueueType
    <3> QED BY <1>1, <1>8, <3>1 DEF EntryType, RequestAt
  <2> HIDE DEF y
  <2> QED BY <1>8, <1>9, <2>1 DEF BufferAt, RequestAt
<1>b. \A u \in Slot : InvalidAt(Pop(q), u) <=> InvalidAt(c, u)
  <2>1. y.invalid = c.elements[s].invalid
    <3>1. c.elements[s] \in EntryType
      BY <1>1, <1>8 DEF QueueType
    <3> QED BY <3>1 DEF EntryType
  <2> HIDE DEF y
  <2> QED BY <1>9, <2>1 DEF InvalidAt
<1> HIDE DEF y
<1>11. Full(Pop(q)) = Full(q) \ {s}
  BY <1>10 DEF Full, BufferAt
<1>12. \A u \in Full(Pop(q)) : Before(Pop(q), u)
  BY <1>8, <1>9, <1>11 DEF Before, Pos
<1>13. QueueOk(Pop(q))
  BY <1>2, <1>9, <1>11, <1>12, Fewer DEF n
<1>14. ASSUME Bubbles(q) PROVE Takes(q, Pop(q), {s})
  <2> DEFINE p == Pop(q)
             T == Pos(q, q.tail)
             k == Pos(q, c.head)
  <2>1. /\ T \in 0..(Entries - 1) /\ k \in 0..(Entries - 1) /\ Entries \in Nat
        /\ \A u \in Slot : Pos(q, u) \in 0..(Entries - 1)
    BY <1>0, <1>8, WalkPos, Ring DEF QueueType
  <2>2. Pos(q, s) < T /\ ~InvalidAt(q, s)
    BY <1>0, <1>1, <1>2, <1>14 DEF InRing, Before, Bubbles
  <2>3. \A u \in Slot : InvalidAt(taken, u) <=>
          IF u = s THEN x.invalid = TRUE ELSE InvalidAt(q, u)
    BY <1>5 DEF InvalidAt
  <2>4. \A u \in Slot : /\ InvalidAt(c, u) <=> Pos(taken, u) >= Pos(taken, c.head) /\ InvalidAt(taken, u)
                        /\ Pos(taken, u) < Pos(taken, c.head) =>
                             BufferAt(c, u) = None /\ RequestAt(c, u) = None
    BY <1>8 DEF Takes
  <2>5. Pos(taken, c.head) <= Pos(taken, q.tail)
    BY <1>5, <1>8 DEF Takes
  <2> HIDE DEF T, k, p
  <2>6. CASE s = q.head
    <3>1. x.invalid = q.elements[s].invalid
      BY <1>3, <2>6
    <3>2. \A u \in Slot : InvalidAt(taken, u) <=> InvalidAt(q, u)
      BY <2>3, <3>1 DEF InvalidAt
    <3>3. Pos(q, s) = 0 /\ Pos(q, taken.head) = 1
      <4>1. q.head \in Nat
        BY <1>0, Ring
      <4>2. Pos(q, Walk(q, 1)) = 1
        BY <1>0, <1>4, WalkPos
      <4> QED BY <1>4, <1>5, <2>6, <4>1, <4>2 DEF Pos
    <3>4. \A u \in Slot : /\ Pos(taken, u) = IF Pos(q, u) >= 1 THEN Pos(q, u) - 1 ELSE Entries - 1
                          /\ Pos(q, u) = 0 => u = s
      <4>1. \A u \in Slot : Pos(q, u) = 0 => u = s
        BY <1>0, <1>1, <3>3, WalkPos
      <4>2. \A u \in Slot : Pos(taken, u) = IF Pos(q, u) >= 1 THEN Pos(q, u) - 1
                                            ELSE Pos(q, u) - 1 + Entries
        BY <1>0, <1>5, <3>3, Turned
      <4> QED BY <2>1, <4>1, <4>2
    <3>5. c.head \in Slot /\ q.tail \in Slot /\ Pos(q, q.tail) = T /\ Pos(q, c.head) = k
      BY <1>0, <1>8 DEF QueueType, T, k
    <3>6. Pos(taken, q.tail) = T - 1 /\ T >= 1
      BY <2>1, <2>2, <3>3, <3>4, <3>5
    <3>7. k >= 1 /\ Pos(taken, c.head) = k - 1 /\ k <= T
      BY <2>1, <2>5, <3>4, <3>5, <3>6
    <3>8. ASSUME NEW u \in Slot, u # s
          PROVE  /\ InvalidAt(c, u) <=> Pos(q, u) >= k /\ InvalidAt(q, u)
                 /\ Pos(q, u) < k => BufferAt(c, u) = None /\ RequestAt(c, u) = None
      <4>1. Pos(q, u) \in Nat /\ Pos(taken, u) = Pos(q, u) - 1 /\ k \in Nat
        BY <2>1, <3>4, <3>8
      <4>2. /\ Pos(taken, u) >= Pos(taken, c.head) <=> Pos(q, u) >= k
            /\ Pos(taken, u) < Pos(taken, c.head) <=> Pos(q, u) < k
        BY <3>7, <4>1
      <4> QED BY <2>4, <3>2, <4>2
    <3>12. ~InvalidAt(c, s)
      BY <1>1, <2>2, <2>4, <3>2
    <3>9. ~(Pos(q, s) >= k)
      BY <2>1, <3>3, <3>7
    <3>10. \A u \in Slot : InvalidAt(c, u) <=> Pos(q, u) >= k /\ (InvalidAt(q, u) \/ u = s)
      BY <2>2, <3>8, <3>9, <3>12
    <3>11. \A u \in Slot : Pos(q, u) < k => BufferAt(p, u) = None /\ RequestAt(p, u) = None
      BY <1>1, <1>8, <1>10, <3>8 DEF p
    <3> QED BY <1>1, <1>9, <1>10, <1>b, <3>7, <3>10, <3>11 DEF Takes, p, k, T
  <2>7. CASE s # q.head
    <3>1. \A u \in Slot : Pos(taken, u) = Pos(q, u)
      BY <1>5, <2>7 DEF Pos, h
    <3>2. \A u \in Slot : InvalidAt(taken, u) <=> InvalidAt(q, u) \/ u = s
      BY <1>3, <2>3, <2>7
    <3>3. Pos(taken, c.head) = k /\ k <= T
      BY <1>0, <1>8, <2>5, <3>1 DEF QueueType, k, T
    <3>4. \A u \in Slot : InvalidAt(c, u) <=> Pos(q, u) >= k /\ (InvalidAt(q, u) \/ u = s)
      BY <2>4, <3>1, <3>2, <3>3
    <3>5. \A u \in Slot : Pos(q, u) < k => BufferAt(p, u) = None /\ RequestAt(p, u) = None
      BY <1>1, <1>8, <1>10, <2>4, <3>1, <3>3 DEF p
    <3> QED BY <1>1, <1>9, <1>10, <1>b, <3>3, <3>4, <3>5 DEF Takes, p, k, T
  <2> QED BY <2>6, <2>7 DEF p
<1> QED BY <1>1, <1>10, <1>13, <1>14, <1>a DEF s

\* The entry with the reservation of a receive.
LEMMA TheSlot ==
  ASSUME NEW q \in QueueType, ReservedOnce(q), NEW r \in Reserved(q), None \notin Request
  PROVE  /\ SlotOf(q, r) \in Slot /\ RequestAt(q, SlotOf(q, r)) = r
         /\ \A u \in Slot : RequestAt(q, u) = r => u = SlotOf(q, r)
<1> DEFINE S == {s \in Slot : q.elements[s].request = r}
<1>1. S # {} /\ S \in SUBSET Nat
  BY Ring DEF Reserved, RequestAt
<1>2. SlotOf(q, r) \in S
  BY <1>1, Least DEF SlotOf
<1> QED BY <1>2 DEF ReservedOnce, Reserved, RequestAt

\* A test takes the message of a reservation, and the reservation with it.
LEMMA TakeKeeps ==
  ASSUME NEW q, QueueOk(q), ReservedOnce(q), NEW r \in Reserved(q), None \notin Request,
         BufferAt(q, SlotOf(q, r)) # None
  PROVE  /\ QueueOk(TakeReserved(q, r))
         /\ \A u \in Slot :
              /\ BufferAt(TakeReserved(q, r), u) = IF u = SlotOf(q, r) THEN None ELSE BufferAt(q, u)
              /\ RequestAt(TakeReserved(q, r), u) = IF u = SlotOf(q, r) THEN None ELSE RequestAt(q, u)
         /\ Takes(q, TakeReserved(q, r), {SlotOf(q, r)})
<1> DEFINE s == SlotOf(q, r)
           x == [request |-> None, buffer |-> None, invalid |-> TRUE]
           n == q.num - 1
           h == q.head
           taken == With(q, s, x, h, n)
           c == TakeReserved(q, r)
<1>0. /\ q \in QueueType /\ InRing(q) /\ q.num = Cardinality(Full(q)) /\ q.num \in Nat
      /\ h \in Slot /\ q.tail \in Slot /\ q.elements \in [Slot -> EntryType]
  BY DEF QueueOk, QueueType
<1>1. s \in Slot
  BY <1>0, TheSlot
<1>2. s \in Full(q) /\ n \in Nat
  BY <1>1, Counted DEF Full, BufferAt
<1>3. x \in EntryType /\ x.buffer = None /\ x.request = None /\ x.invalid = TRUE
  BY DEF EntryType
<1>4. c = Compact(taken)
  <2>1. TakeReserved(q, r) = Compact([q EXCEPT !.num = n, !.elements = [q.elements EXCEPT ![s] = x]])
    BY DEF TakeReserved
  <2> HIDE DEF s, x, n
  <2> QED BY <1>0, <2>1, Assigned DEF With
<1> HIDE DEF s, x, h, n
<1>5. /\ taken \in QueueType /\ taken.head = h /\ taken.num = n /\ taken.tail = q.tail
      /\ \A u \in Slot : taken.elements[u] = IF u = s THEN x ELSE q.elements[u]
  <2>1. q \in QueueType /\ s \in Slot /\ x \in EntryType /\ h \in Slot /\ n \in Nat
    BY <1>0, <1>1, <1>2, <1>3
  <2> QED BY <2>1, WithKeeps
<1> HIDE DEF taken, c
<1>6. \A u \in Slot : /\ BufferAt(taken, u) = IF u = s THEN None ELSE BufferAt(q, u)
                      /\ RequestAt(taken, u) = IF u = s THEN None ELSE RequestAt(q, u)
  BY <1>3, <1>5 DEF BufferAt, RequestAt
<1>7. Full(taken) = Full(q) \ {s}
  BY <1>6 DEF Full, BufferAt
<1>8. \A u \in Full(taken) : Before(taken, u)
  BY <1>0, <1>5, <1>7 DEF InRing, Before, Pos, h
<1>9. /\ c \in QueueType /\ c.num = n /\ Takes(taken, c, {})
      /\ \A u \in Full(taken) : Before(c, u)
      /\ \A u \in Slot : BufferAt(c, u) = BufferAt(taken, u) /\ RequestAt(c, u) = RequestAt(taken, u)
  BY <1>4, <1>5, <1>8, CompactKeeps
<1>10. Full(c) = Full(q) \ {s} /\ Full(c) = Full(taken)
  BY <1>7, <1>9 DEF Full, BufferAt
<1>11. QueueOk(c)
  BY <1>2, <1>9, <1>10, Fewer DEF n
<1>12. Takes(q, c, {s})
  <2>1. \A u : Pos(taken, u) = Pos(q, u)
    BY <1>5 DEF Pos, h
  <2>2. \A u \in Slot : InvalidAt(taken, u) <=> InvalidAt(q, u) \/ u = s
    BY <1>3, <1>5 DEF InvalidAt
  <2> QED BY <1>5, <1>6, <1>9, <2>1, <2>2 DEF Takes
<1> QED BY <1>6, <1>9, <1>11, <1>12 DEF s, c

\* From q to c the request r gets the first entry that can be reserved.
Asks(q, c, r) ==
  /\ c.head = q.head /\ c.tail = q.tail
  /\ \E s \in Slot :
       /\ RequestAt(q, s) = None /\ ~InvalidAt(q, s)
       /\ \A u \in Slot :
            /\ BufferAt(c, u) = BufferAt(q, u)
            /\ RequestAt(c, u) = IF u = s THEN r ELSE RequestAt(q, u)
            /\ InvalidAt(c, u) <=> InvalidAt(q, u)
            /\ Pos(q, u) < Pos(q, s) => RequestAt(q, u) # None \/ InvalidAt(q, u)

\* A receive that waits gets one reservation more.
LEMMA ReserveKeeps ==
  ASSUME NEW q, QueueOk(q), ReservableSteps(q) # {}, NEW r \in Request, None \notin Request,
         ReservedOnce(q), r \notin Reserved(q)
  PROVE  /\ QueueOk(Reserve(q, r)) /\ ReservedOnce(Reserve(q, r))
         /\ Reserved(Reserve(q, r)) = Reserved(q) \union {r}
         /\ \A u \in Slot : BufferAt(Reserve(q, r), u) = BufferAt(q, u)
         /\ Asks(q, Reserve(q, r), r)
<1> DEFINE s == Walk(q, Min(ReservableSteps(q)))
           x == [q.elements[s] EXCEPT !.request = r]
           n == q.num
           h == q.head
           c == With(q, s, x, h, n)
<1>0. /\ q \in QueueType /\ InRing(q) /\ q.num = Cardinality(Full(q)) /\ n \in Nat
      /\ h \in Slot /\ q.tail \in Slot /\ q.elements \in [Slot -> EntryType]
  BY DEF QueueOk, QueueType
<1>1. /\ s \in Slot /\ RequestAt(q, s) = None /\ ~InvalidAt(q, s)
      /\ \A u \in Slot : Pos(q, u) < Pos(q, s) => RequestAt(q, u) # None \/ InvalidAt(q, u)
  <2> DEFINE i == Min(ReservableSteps(q))
  <2>1. ReservableSteps(q) \in SUBSET Slot /\ ReservableSteps(q) \in SUBSET Nat
    BY Ring DEF ReservableSteps
  <2>2. i \in ReservableSteps(q) /\ \A j \in ReservableSteps(q) : i <= j
    BY <2>1, Least
  <2> HIDE DEF i
  <2>3. i \in Slot /\ s = Walk(q, i)
    BY <2>1, <2>2 DEF i
  <2> HIDE DEF s
  <2>4. s \in Slot /\ Pos(q, s) = i /\ RequestAt(q, s) = None /\ ~InvalidAt(q, s)
    BY <1>0, <2>2, <2>3, WalkPos DEF ReservableSteps, Reservable, RequestAt, InvalidAt
  <2>5. ASSUME NEW u \in Slot, Pos(q, u) < Pos(q, s), RequestAt(q, u) = None, ~InvalidAt(q, u)
        PROVE  FALSE
    <3>1. Pos(q, u) \in Slot /\ Walk(q, Pos(q, u)) = u
      BY <1>0, WalkPos
    <3>2. q.elements[u].invalid \in BOOLEAN
      BY <1>0 DEF EntryType
    <3>3. Pos(q, u) \in ReservableSteps(q)
      BY <2>5, <3>1, <3>2 DEF ReservableSteps, Reservable, RequestAt, InvalidAt
    <3>4. Pos(q, u) \in Nat /\ i \in Nat
      BY <2>3, <3>1, Ring
    <3> QED BY <2>2, <2>4, <2>5, <3>3, <3>4
  <2> QED BY <2>4, <2>5
<1>2. Reserve(q, r) = c
  <2>1. Reserve(q, r) = [q EXCEPT !.elements = [q.elements EXCEPT ![s] = x]]
    BY <1>0 DEF Reserve, QueueType
  <2> HIDE DEF s, x
  <2> QED BY <1>0, <2>1, Assigned DEF With
<1> HIDE DEF s
<1>3. /\ x \in EntryType /\ x.buffer = BufferAt(q, s) /\ x.request = r
      /\ x.invalid = q.elements[s].invalid
  <2>1. q.elements[s] \in EntryType
    BY <1>0, <1>1
  <2> QED BY <2>1 DEF EntryType, BufferAt
<1> HIDE DEF x, h, n
<1>4. /\ c \in QueueType /\ c.head = h /\ c.num = n /\ c.tail = q.tail
      /\ \A u \in Slot : c.elements[u] = IF u = s THEN x ELSE q.elements[u]
  <2>1. q \in QueueType /\ s \in Slot /\ x \in EntryType /\ h \in Slot /\ n \in Nat
    BY <1>0, <1>1, <1>3
  <2> QED BY <2>1, WithKeeps
<1> HIDE DEF c
<1>5. \A u \in Slot : /\ BufferAt(c, u) = BufferAt(q, u)
                      /\ RequestAt(c, u) = IF u = s THEN r ELSE RequestAt(q, u)
  BY <1>3, <1>4 DEF BufferAt, RequestAt
<1>6. Full(c) = Full(q)
  BY <1>5 DEF Full, BufferAt
<1>7. QueueOk(c)
  BY <1>0, <1>4, <1>6 DEF QueueOk, InRing, Before, Pos, h, n
<1>8. ReservedOnce(c)
  BY <1>1, <1>5 DEF ReservedOnce, Reserved, RequestAt
<1>9. Reserved(c) = Reserved(q) \union {r}
  BY <1>1, <1>5 DEF Reserved, RequestAt
<1>10. Asks(q, c, r)
  <2>1. \A u \in Slot : InvalidAt(c, u) <=> InvalidAt(q, u)
    BY <1>3, <1>4 DEF InvalidAt
  <2> QED BY <1>1, <1>4, <1>5, <2>1 DEF Asks, h
<1> QED BY <1>2, <1>5, <1>7, <1>8, <1>9, <1>10

\* Around the ring from any entry, there and back.
LEMMA Around ==
  ASSUME NEW a \in Slot
  PROVE  /\ \A i \in Slot : (a + i) % Entries \in Slot /\ (((a + i) % Entries) - a + Entries) % Entries = i
         /\ \A s \in Slot : \A y : y = (s - a + Entries) % Entries =>
              y \in Slot /\ (a + y) % Entries = s
<1>1. ASSUME NEW i \in Slot
      PROVE  (a + i) % Entries \in Slot /\ (((a + i) % Entries) - a + Entries) % Entries = i
  <2> DEFINE x == a + i
             y == x % Entries
             z == y - a + Entries
  <2>1. x \in 0..(2 * Entries - 1)
    BY Ring
  <2>2. y \in Slot /\ y = (IF x < Entries THEN x ELSE x - Entries)
    <3> HIDE DEF x
    <3> QED BY <2>1, Wrap
  <2>3. z \in 0..(2 * Entries - 1)
    <3> HIDE DEF y
    <3> QED BY <2>2, Ring
  <2>4. z % Entries = IF z < Entries THEN z ELSE z - Entries
    <3> HIDE DEF z
    <3> QED BY <2>3, Wrap
  <2>5. z % Entries = i
    <3> HIDE DEF y
    <3> QED BY <2>2, <2>4, Ring DEF z, x
  <2> QED BY <2>2, <2>5
<1>2. ASSUME NEW s \in Slot, NEW y, y = (s - a + Entries) % Entries
      PROVE  y \in Slot /\ (a + y) % Entries = s
  <2> DEFINE x == s - a + Entries
             z == a + y
  <2>1. x \in 0..(2 * Entries - 1)
    BY Ring
  <2>2. y \in Slot /\ y = (IF x < Entries THEN x ELSE x - Entries)
    <3>1. y = x % Entries
      BY <1>2
    <3> HIDE DEF x
    <3> QED BY <2>1, <3>1, Wrap
  <2>3. z \in 0..(2 * Entries - 1)
    BY <2>2, Ring
  <2>4. z % Entries = IF z < Entries THEN z ELSE z - Entries
    <3> HIDE DEF z
    <3> QED BY <2>3, Wrap
  <2>5. z % Entries = s
    BY <2>2, <2>4, Ring
  <2> QED BY <2>2, <2>5
<1> QED BY <1>1, <1>2

\* g is f without its first value and those at the places H, a place before.
Shifts(n, H, f, g) ==
  /\ \A i \in 0..n : i \in H \union {0} => f[i] # None
  /\ \A i, j \in 0..n : f[i] = f[j] /\ f[i] # None => i = j
  /\ \A i \in 0..n :
       g[i] = IF i \notin H \union {0} THEN f[i]
              ELSE IF {k \in H : k > i} = {} THEN None
              ELSE f[Min({k \in H : k > i})]

\* g has the values of f but the first, and each once.
AllButFirst(n, f, g) ==
  /\ \A i, j \in 0..n : g[i] = g[j] /\ g[i] # None => i = j
  /\ \A i \in 0..n : g[i] # None => g[i] # f[0] /\ \E k \in 0..n : f[k] = g[i]
  /\ \A k \in 0..n : f[k] # None /\ f[k] # f[0] => \E i \in 0..n : g[i] = f[k]

\* The first value is dropped and those at some places move to the place
\* before: what is left is there once as before.
LEMMA ShiftDown ==
  ASSUME NEW n \in Nat, NEW H \in SUBSET (1..n), NEW f, NEW g, Shifts(n, H, f, g)
  PROVE  AllButFirst(n, f, g)
<1> DEFINE M == H \union {0}
           next(i) == {k \in H : k > i}
           m(i) == Min(next(i))
<1>0. /\ M \subseteq 0..n /\ H \subseteq 0..n /\ 0 \notin H /\ 0 \in M /\ 0 \in 0..n
      /\ M \subseteq Nat /\ H \subseteq Nat
  OBVIOUS
<1>1. ASSUME NEW i \in 0..n, next(i) # {}
      PROVE  m(i) \in H /\ m(i) > i /\ \A k \in H : k > i => m(i) <= k
  <2>1. next(i) \in SUBSET Nat
    BY <1>0
  <2>2. m(i) \in next(i) /\ \A k \in next(i) : m(i) <= k
    BY <1>1, <2>1, Least
  <2> QED BY <2>2
<1>2. \A i \in M : next(i) = {} => g[i] = None
  BY <1>0 DEF Shifts
<1>3. \A i \in M : next(i) # {} => g[i] = f[m(i)]
  BY <1>0 DEF Shifts
<1>4. \A i \in 0..n : i \notin M => g[i] = f[i]
  BY DEF Shifts
<1>9. /\ \A i \in M : f[i] # None
      /\ \A i, j \in 0..n : f[i] = f[j] /\ f[i] # None => i = j
  BY <1>0 DEF Shifts
<1> HIDE DEF m, next
<1>5. ASSUME NEW i \in 0..n, g[i] # None
      PROVE  g[i] # f[0] /\ \E k \in 0..n : f[k] = g[i]
  <2>1. CASE i \in M
    <3>1. g[i] = f[m(i)] /\ m(i) \in H
      BY <1>9, <1>0, <1>1, <1>2, <1>3, <1>5, <2>1
    <3> QED BY <1>9, <1>0, <3>1
  <2>2. CASE i \notin M
    BY <1>9, <1>0, <1>4, <1>5, <2>2
  <2> QED BY <2>1, <2>2
<1>6. ASSUME NEW i \in 0..n, NEW j \in 0..n, g[i] = g[j], g[i] # None, i < j
      PROVE  FALSE
  <2>1. CASE i \in M /\ j \in M
    <3>1. next(i) # {} /\ next(j) # {}
      BY <1>2, <1>6, <2>1
    <3>2. m(i) \in H /\ m(j) \in H /\ m(j) > j /\ f[m(i)] = f[m(j)]
      BY <1>9, <1>0, <1>1, <1>3, <1>6, <2>1, <3>1
    <3>3. j \in H /\ m(i) <= j
      BY <1>1, <1>6, <2>1, <3>1
    <3>4. m(i) = m(j)
      BY <1>9, <1>0, <3>2
    <3>5. m(i) \in Nat /\ m(j) \in Nat
      BY <1>9, <1>0, <3>2
    <3>6. j \in Nat
      OBVIOUS
    <3> QED BY <3>2, <3>3, <3>4, <3>5, <3>6
  <2>2. CASE i \in M /\ j \notin M
    <3>1. f[m(i)] = f[j] /\ m(i) \in H
      BY <1>9, <1>0, <1>1, <1>2, <1>3, <1>4, <1>6, <2>2
    <3> QED BY <1>9, <1>0, <2>2, <3>1
  <2>3. CASE i \notin M /\ j \in M
    <3>1. f[m(j)] = f[i] /\ m(j) \in H
      BY <1>9, <1>0, <1>1, <1>2, <1>3, <1>4, <1>6, <2>3
    <3> QED BY <1>9, <1>0, <2>3, <3>1
  <2>4. CASE i \notin M /\ j \notin M
    BY <1>9, <1>4, <1>6, <2>4
  <2> QED BY <2>1, <2>2, <2>3, <2>4
<1>7. \A i, j \in 0..n : g[i] = g[j] /\ g[i] # None => i = j
  BY <1>6
<1>8. ASSUME NEW k \in 0..n, f[k] # None, f[k] # f[0]
      PROVE  \E i \in 0..n : g[i] = f[k]
  <2>1. CASE k \notin M
    BY <1>4, <2>1
  <2>2. CASE k \in M
    <3> DEFINE D == {k - i : i \in {x \in M : x < k}}
    <3>1. k \in H /\ k > 0
      BY <1>8, <2>2
    <3>2. k \in D /\ D \in SUBSET Nat
      BY <1>0, <3>1
    <3>3. Min(D) \in D /\ \A y \in D : Min(D) <= y
      BY <3>2, Least
    <3>4. PICK i \in M : i < k /\ Min(D) = k - i
      BY <3>3
    <3>5. \A x \in M : x < k => x <= i
      <4> SUFFICES ASSUME NEW x \in M, x < k PROVE x <= i
        OBVIOUS
      <4>1. k - x \in D
        OBVIOUS
      <4>2. k - i <= k - x
        BY <3>3, <3>4, <4>1
      <4> QED BY <1>0, <4>2
    <3>6. next(i) # {}
      BY <3>1, <3>4 DEF next
    <3>7. m(i) \in H /\ m(i) > i /\ m(i) <= k
      BY <1>9, <1>0, <1>1, <3>1, <3>4, <3>6
    <3>8. m(i) = k
      <4>1. m(i) \in M /\ m(i) \in Nat /\ i \in Nat
        BY <1>0, <3>4, <3>7
      <4>2. ~ (m(i) < k)
        BY <3>5, <3>7, <4>1
      <4> QED BY <3>7, <4>1, <4>2
    <3>9. g[i] = f[k]
      BY <1>3, <3>4, <3>6, <3>8
    <3> QED BY <1>0, <3>4, <3>9
  <2> QED BY <2>1, <2>2
<1> QED BY <1>5, <1>7, <1>8 DEF AllButFirst

\* Up to w g has the values of f in their order, each nearer, and the last
\* place is empty; beyond w nothing changes.
KeepsOrder(n, w, f, g) ==
  /\ \E z \in 0..w : /\ f[z] # None
                     /\ \A i \in 0..n : g[i] # None <=> f[i] # None /\ i # z
                     /\ \A i \in 0..w : i > z => f[i] = None
  /\ \A i, k \in 0..n : g[i] # None /\ g[i] = f[k] =>
       IF i <= w THEN i < k /\ k <= w ELSE k = i
  /\ \A i, j, k, l \in 0..n :
       i < j /\ j <= w /\ g[i] # None /\ g[j] # None /\ g[i] = f[k] /\ g[j] = f[l]
         => k < l

\* So it is when the places are all up to w that have a value.
LEMMA ShiftOrder ==
  ASSUME NEW n \in Nat, NEW H \in SUBSET (1..n), NEW f, NEW g, Shifts(n, H, f, g),
         NEW w \in 0..n, H = {i \in 1..w : f[i] # None}
  PROVE  KeepsOrder(n, w, f, g)
<1> DEFINE M == H \union {0}
           next(i) == {k \in H : k > i}
           m(i) == Min(next(i))
<1>0. /\ M \subseteq 0..w /\ H \subseteq 1..w /\ 0 \in M /\ 0 \in 0..n
      /\ M \subseteq Nat /\ H \subseteq Nat /\ 0..w \subseteq 0..n
      /\ n \in Nat /\ w \in Nat
  OBVIOUS
<1>1. ASSUME NEW i \in 0..n, next(i) # {}
      PROVE  m(i) \in H /\ m(i) > i /\ \A k \in H : k > i => m(i) <= k
  <2>1. next(i) \in SUBSET Nat
    BY <1>0
  <2>2. m(i) \in next(i) /\ \A k \in next(i) : m(i) <= k
    BY <1>1, <2>1, Least
  <2> QED BY <2>2
<1>2. \A i \in M : next(i) = {} => g[i] = None
  BY <1>0 DEF Shifts
<1>3. \A i \in M : next(i) # {} => g[i] = f[m(i)]
  BY <1>0 DEF Shifts
<1>4. \A i \in 0..n : i \notin M => g[i] = f[i]
  BY DEF Shifts
<1>5. /\ \A i \in M : f[i] # None
      /\ \A i, j \in 0..n : f[i] = f[j] /\ f[i] # None => i = j
  BY <1>0 DEF Shifts
<1>6. \A i \in 0..w : i \notin M => f[i] = None
  OBVIOUS
<1>7. \A i \in M, j \in H : j > i => next(i) # {}
  OBVIOUS
<1> HIDE DEF m, next, M
<1>8. ASSUME NEW i \in 0..n, NEW k \in 0..n, g[i] # None, g[i] = f[k], i <= w
      PROVE  i \in M /\ next(i) # {} /\ k = m(i)
  <2>1. i \in M
    BY <1>0, <1>4, <1>6, <1>8
  <2>2. next(i) # {}
    BY <1>2, <1>8, <2>1
  <2>3. m(i) \in 0..n /\ g[i] = f[m(i)]
    BY <1>0, <1>1, <1>3, <2>1, <2>2
  <2> QED BY <1>5, <1>8, <2>1, <2>2, <2>3
<1>9. ASSUME NEW i \in 0..n, NEW k \in 0..n, g[i] # None, g[i] = f[k]
      PROVE  IF i <= w THEN i < k /\ k <= w ELSE k = i
  <2>1. CASE i <= w
    <3>1. k \in H /\ k > i
      BY <1>1, <1>8, <1>9, <2>1
    <3> QED BY <1>0, <2>1, <3>1
  <2>2. CASE ~(i <= w)
    <3>1. i \notin M
      BY <1>0, <2>2
    <3> QED BY <1>4, <1>5, <1>9, <2>2, <3>1
  <2> QED BY <2>1, <2>2
<1>10. ASSUME NEW i \in 0..n, NEW j \in 0..n, NEW k \in 0..n, NEW l \in 0..n,
              i < j, j <= w, g[i] # None, g[j] # None, g[i] = f[k], g[j] = f[l]
       PROVE  k < l
  <2>1. i <= w
    BY <1>0, <1>10
  <2>2. k = m(i) /\ next(i) # {} /\ j \in M
    BY <1>8, <1>10, <2>1
  <2>3. j < l /\ l <= w
    BY <1>9, <1>10
  <2>4. j \in H
    BY <1>10, <2>2 DEF M
  <2>5. k <= j
    BY <1>1, <1>10, <2>2, <2>4
  <2> QED BY <2>3, <2>5
<1>11. \E z \in 0..w : /\ f[z] # None
                       /\ \A i \in 0..n : g[i] # None <=> f[i] # None /\ i # z
                       /\ \A i \in 0..w : i > z => f[i] = None
  <2> DEFINE D == {n - i : i \in M}
  <2>1. n - 0 \in D
    BY <1>0
  <2>2. D \in SUBSET Nat /\ D # {}
    <3>1. \A i \in M : n - i \in Nat
      BY <1>0
    <3> QED BY <2>1, <3>1
  <2>3. Min(D) \in D /\ \A y \in D : Min(D) <= y
    BY <2>2, Least
  <2>4. PICK z \in M : Min(D) = n - z
    BY <2>3
  <2>5. \A i \in M : n - i \in D
    OBVIOUS
  <2> HIDE DEF D
  <2>6. ASSUME NEW i \in M PROVE i <= z
    <3>1. n - z <= n - i
      BY <2>3, <2>4, <2>5
    <3> QED BY <1>0, <3>1
  <2>7. z \in 0..w /\ f[z] # None
    BY <1>0, <1>5
  <2>8. g[z] = None
    <3>1. next(z) = {}
      <4> SUFFICES ASSUME NEW k \in H, k > z PROVE FALSE
        BY DEF next
      <4>1. k \in M
        BY DEF M
      <4>2. k <= z
        BY <2>6, <4>1
      <4> QED BY <1>0, <4>1, <4>2
    <3> QED BY <1>2, <3>1
  <2>9. ASSUME NEW i \in 0..n, i # z PROVE g[i] # None <=> f[i] # None
    <3>1. CASE i \in M
      <4>1. i < z
        BY <1>0, <2>6, <2>9, <3>1
      <4>2. z \in H
        BY <1>0, <4>1 DEF M
      <4>3. next(i) # {}
        BY <1>7, <3>1, <4>1, <4>2
      <4>4. m(i) \in M /\ g[i] = f[m(i)]
        BY <1>1, <1>3, <3>1, <4>3 DEF M
      <4> QED BY <1>5, <3>1, <4>4
    <3>2. CASE i \notin M
      BY <1>4, <3>2
    <3> QED BY <3>1, <3>2
  <2>10. ASSUME NEW i \in 0..w, i > z PROVE f[i] = None
    <3>1. i \notin M
      BY <1>0, <2>6, <2>10
    <3> QED BY <1>6, <3>1
  <2> QED BY <1>0, <2>7, <2>8, <2>9, <2>10
<1> QED BY <1>9, <1>10, <1>11 DEF KeepsOrder

\* From q to c the reservation of r is given back: each later reservation of
\* its part of the ring, up to the tail or from there to the head, comes nearer.
Unasks(q, c, r) ==
  /\ c.head = q.head /\ c.tail = q.tail
  /\ \A u \in Slot : BufferAt(c, u) = BufferAt(q, u) /\ (InvalidAt(c, u) <=> InvalidAt(q, u))
  /\ \E z \in Asked(q) :
       /\ Asked(c) = Asked(q) \ {z}
       /\ Pos(q, SlotOf(q, r)) <= Pos(q, z)
       /\ \A v \in Asked(q) : Pos(q, z) < Pos(q, v) => Before(q, z) /\ ~Before(q, v)
  /\ \A s, u \in Asked(c), v, w \in Slot :
       RequestAt(q, v) = RequestAt(c, s) /\ RequestAt(q, w) = RequestAt(c, u)
         /\ Pos(q, s) < Pos(q, u) => Pos(q, v) < Pos(q, w)

\* A cancel takes one reservation away and moves others; messages stay.
LEMMA UnreserveKeeps ==
  ASSUME NEW q, QueueOk(q), ReservedOnce(q), NEW r \in Reserved(q), None \notin Request
  PROVE  /\ QueueOk(Unreserve(q, r)) /\ ReservedOnce(Unreserve(q, r))
         /\ Reserved(Unreserve(q, r)) = Reserved(q) \ {r}
         /\ \A u \in Slot : BufferAt(Unreserve(q, r), u) = BufferAt(q, u)
         /\ Unasks(q, Unreserve(q, r), r)
<1> DEFINE start == SlotOf(q, r)
           after(i) == (start + i) % Entries
           bounds == {i \in 1..(Entries - 1) : after(i) \in {q.head, q.tail}}
           last == Min(bounds \union {Entries})
           holders == {i \in 1..(last - 1) : q.elements[after(i)].request # None}
           moved == {0} \union holders
           next(i) == {k \in holders : k > i}
           shifted(i) == IF next(i) = {} THEN None ELSE q.elements[after(Min(next(i)))].request
           offset(s) == (s - start + Entries) % Entries
           elements == [s \in Slot |->
             IF offset(s) \in moved THEN [q.elements[s] EXCEPT !.request = shifted(offset(s))]
                                    ELSE q.elements[s]]
           c == Unreserve(q, r)
           f == [i \in Slot |-> RequestAt(q, after(i))]
           g == [i \in Slot |-> RequestAt(c, after(i))]
           a == Pos(q, start)
           T == Pos(q, q.tail)
           L == IF a < T THEN T ELSE Entries
<1>0. /\ q \in QueueType /\ InRing(q) /\ q.num = Cardinality(Full(q)) /\ q.num \in Nat
      /\ q.head \in Slot /\ q.tail \in Slot /\ q.elements \in [Slot -> EntryType]
  BY DEF QueueOk, QueueType
<1>1. start \in Slot /\ RequestAt(q, start) = r /\ r # None
  BY <1>0, TheSlot DEF Reserved, RequestAt
<1>2. c = [q EXCEPT !.elements = elements]
  BY DEF Unreserve
<1> HIDE DEF start
<1>3. /\ \A i \in Slot : after(i) \in Slot /\ offset(after(i)) = i
      /\ \A s \in Slot : offset(s) \in Slot /\ after(offset(s)) = s
  BY <1>1, Around
<1>a. /\ a \in 0..(Entries - 1) /\ T \in 0..(Entries - 1) /\ Entries \in Nat /\ 2 <= Entries
      /\ \A i \in Slot : Pos(q, after(i)) = IF a + i < Entries THEN a + i ELSE a + i - Entries
  <2>1. a \in 0..(Entries - 1) /\ T \in 0..(Entries - 1) /\ Entries \in Nat /\ 2 <= Entries
    BY <1>0, <1>1, WalkPos, Ring
  <2>2. ASSUME NEW i \in Slot
        PROVE  Pos(q, after(i)) = IF a + i < Entries THEN a + i ELSE a + i - Entries
    <3> DEFINE x == start + i
               y == x % Entries
    <3>1. x \in 0..(2 * Entries - 1)
      BY <1>1, Ring
    <3>2. y = IF x < Entries THEN x ELSE x - Entries
      <4> HIDE DEF x
      <4> QED BY <3>1, Wrap
    <3>3. start \in 0..(Entries - 1) /\ q.head \in 0..(Entries - 1) /\ i \in 0..(Entries - 1)
      BY <1>0, <1>1, Ring
    <3> HIDE DEF y
    <3>4. Pos(q, y) = IF a + i < Entries THEN a + i ELSE a + i - Entries
      BY <2>1, <3>2, <3>3 DEF Pos
    <3> QED BY <3>4 DEF y
  <2> QED BY <2>1, <2>2
<1>b. \A i : i \in bounds <=> i \in 1..(Entries - 1) /\ Pos(q, after(i)) \in {0, T}
  <2>1. Pos(q, q.head) = 0
    BY <1>0, Ring DEF Pos
  <2>2. \A i \in 1..(Entries - 1) : after(i) \in Slot
    BY <1>3, Ring
  <2> HIDE DEF after
  <2>3. \A i \in 1..(Entries - 1) : after(i) \in {q.head, q.tail} <=> Pos(q, after(i)) \in {0, T}
    BY <1>0, <2>1, <2>2, WalkPos
  <2> QED BY <2>3
<1> HIDE DEF bounds, after, offset, a, T
<1>4. last = L - a
  <2> DEFINE S == bounds \union {Entries}
  <2>1. S \in SUBSET Nat /\ Entries \in S
    BY <1>b, Ring
  <2>2. Min(S) \in S /\ \A y \in S : Min(S) <= y
    BY <2>1, Least
  <2>3. \A i \in 1..(Entries - 1) :
          /\ i \in Slot
          /\ i \in bounds <=> (IF a + i < Entries THEN a + i ELSE a + i - Entries) \in {0, T}
    <3> SUFFICES ASSUME NEW i \in 1..(Entries - 1)
                 PROVE  /\ i \in Slot
                        /\ i \in bounds <=>
                             (IF a + i < Entries THEN a + i ELSE a + i - Entries) \in {0, T}
      OBVIOUS
    <3>1. i \in Slot
      BY Ring
    <3>2. Pos(q, after(i)) = IF a + i < Entries THEN a + i ELSE a + i - Entries
      BY <1>a, <3>1
    <3> QED BY <1>b, <3>1, <3>2
  <2>4. L - a \in S
    <3>1. CASE a < T
      <4>1. L - a = T - a /\ T - a \in 1..(Entries - 1) /\ a + (T - a) = T /\ T < Entries
        BY <1>a, <3>1
      <4> QED BY <2>3, <4>1
    <3>2. CASE ~(a < T) /\ a # 0
      <4>1. /\ L - a = Entries - a /\ Entries - a \in 1..(Entries - 1)
            /\ a + (Entries - a) = Entries /\ Entries - Entries = 0
        BY <1>a, <3>2
      <4> QED BY <1>a, <2>3, <4>1
    <3>3. CASE ~(a < T) /\ a = 0
      <4>1. L - a = Entries
        BY <1>a, <3>3
      <4> QED BY <2>1, <4>1
    <3> QED BY <3>1, <3>2, <3>3
  <2>5. ASSUME NEW y \in S PROVE L - a <= y
    <3>1. CASE y = Entries
      BY <1>a, <3>1
    <3>2. CASE y \in bounds
      <4>1. y \in 1..(Entries - 1)
            /\ (IF a + y < Entries THEN a + y ELSE a + y - Entries) \in {0, T}
        BY <1>b, <2>3, <3>2
      <4>2. CASE a + y < Entries
        <5>1. a + y = T
          BY <1>a, <4>1, <4>2
        <5> QED BY <1>a, <4>1, <5>1
      <4>3. CASE ~(a + y < Entries)
        BY <1>a, <4>1, <4>3
      <4> QED BY <4>2, <4>3
    <3> QED BY <3>1, <3>2
  <2>6. last = Min(S) /\ Min(S) \in Nat /\ L - a \in Nat
    BY <2>1, <2>2, <2>4
  <2> HIDE DEF S, L, last
  <2> QED BY <2>2, <2>4, <2>5, <2>6
<1>c. last \in 1..Entries
  BY <1>4, <1>a
<1> HIDE DEF last, L
<1>5. holders \in SUBSET (1..(Entries - 1)) /\ holders \subseteq Slot /\ moved \subseteq Slot
      /\ \A i \in holders : q.elements[after(i)].request # None
  BY <1>c, Ring
<1>d. \A i : i \in holders <=> i \in 1..(last - 1) /\ RequestAt(q, after(i)) # None
  BY DEF RequestAt
<1>6. \A i \in Slot : next(i) # {} => Min(next(i)) \in holders
  <2> SUFFICES ASSUME NEW i \in Slot, next(i) # {} PROVE Min(next(i)) \in holders
    OBVIOUS
  <2>1. next(i) \in SUBSET Nat
    BY <1>5, Ring
  <2>2. Min(next(i)) \in next(i)
    <3> HIDE DEF next
    <3> QED BY <2>1, Least
  <2> QED BY <2>2
<1> HIDE DEF holders
<1>7. \A i \in Slot : shifted(i) \in Request \union {None}
  <2> SUFFICES ASSUME NEW i \in Slot, next(i) # {}
               PROVE  q.elements[after(Min(next(i)))].request \in Request \union {None}
    OBVIOUS
  <2>1. after(Min(next(i))) \in Slot
    <3> HIDE DEF next
    <3> QED BY <1>3, <1>5, <1>6
  <2>2. q.elements[after(Min(next(i)))] \in EntryType
    BY <1>0, <2>1
  <2> QED BY <2>2 DEF EntryType
<1> HIDE DEF next, shifted, moved
<1>8. \A s \in Slot :
        /\ elements[s] \in EntryType
        /\ elements[s].buffer = q.elements[s].buffer
        /\ elements[s].request = IF offset(s) \in moved THEN shifted(offset(s))
                                                       ELSE q.elements[s].request
        /\ elements[s].invalid = q.elements[s].invalid
  <2> SUFFICES ASSUME NEW s \in Slot
               PROVE  /\ elements[s] \in EntryType
                      /\ elements[s].buffer = q.elements[s].buffer
                      /\ elements[s].request = IF offset(s) \in moved THEN shifted(offset(s))
                                                       ELSE q.elements[s].request
                      /\ elements[s].invalid = q.elements[s].invalid
    OBVIOUS
  <2>1. q.elements[s] \in EntryType
    BY <1>0
  <2>2. CASE offset(s) \in moved
    <3>1. elements[s] = [q.elements[s] EXCEPT !.request = shifted(offset(s))]
      BY <2>2
    <3>2. shifted(offset(s)) \in Request \union {None}
      BY <1>3, <1>7
    <3> QED BY <2>1, <2>2, <3>1, <3>2 DEF EntryType
  <2>3. CASE offset(s) \notin moved
    BY <2>1, <2>3
  <2> QED BY <2>2, <2>3
<1>9. elements \in [Slot -> EntryType]
  <2>1. \E F : elements = [s \in Slot |-> F[s]]
    <3>1. elements = [s \in Slot |-> elements[s]]
      OBVIOUS
    <3> QED BY <3>1
  <2> HIDE DEF elements
  <2> QED BY <1>8, <2>1
<1> HIDE DEF elements
<1>10. /\ c \in QueueType /\ c.head = q.head /\ c.tail = q.tail /\ c.num = q.num
       /\ c.elements = elements
  BY <1>0, <1>2, <1>9 DEF QueueType
<1> HIDE DEF c
<1>11. \A s \in Slot :
         /\ BufferAt(c, s) = BufferAt(q, s)
         /\ RequestAt(c, s) = IF offset(s) \in moved THEN shifted(offset(s)) ELSE RequestAt(q, s)
         /\ InvalidAt(c, s) <=> InvalidAt(q, s)
  BY <1>8, <1>10 DEF BufferAt, RequestAt, InvalidAt
<1>12. Full(c) = Full(q)
  BY <1>11 DEF Full, BufferAt
<1>13. QueueOk(c)
  BY <1>0, <1>10, <1>12 DEF QueueOk, InRing, Before, Pos
<1>14. /\ \A i \in Slot : f[i] = RequestAt(q, after(i)) /\ g[i] = RequestAt(c, after(i))
       /\ \A s \in Slot : f[offset(s)] = RequestAt(q, s) /\ g[offset(s)] = RequestAt(c, s)
       /\ f[0] = r
  <2>1. after(0) = start
    BY <1>1, Ring DEF after
  <2> QED BY <1>1, <1>3, <2>1, Ring
<1> HIDE DEF f, g
<1>15. /\ \A i, j \in Slot : g[i] = g[j] /\ g[i] # None => i = j
       /\ \A i \in Slot : g[i] # None => g[i] # f[0] /\ \E k \in Slot : f[k] = g[i]
       /\ \A k \in Slot : f[k] # None /\ f[k] # f[0] => \E i \in Slot : g[i] = f[k]
       /\ Shifts(Entries - 1, holders, f, g)
  <2> DEFINE n == Entries - 1
  <2>1. n \in Nat /\ Slot = 0..n /\ holders \in SUBSET (1..n)
    BY <1>5, Ring
  <2>2. \A i \in 0..n : i \in holders \union {0} => f[i] # None
    BY <1>1, <1>5, <1>14, <2>1 DEF RequestAt
  <2>3. \A i, j \in 0..n : f[i] = f[j] /\ f[i] # None => i = j
    <3> SUFFICES ASSUME NEW i \in Slot, NEW j \in Slot, f[i] = f[j], f[i] # None PROVE i = j
      BY <2>1
    <3>1. after(i) = after(j)
      BY <1>3, <1>14 DEF ReservedOnce
    <3> QED BY <1>3, <3>1
  <2>4. \A i \in 0..n :
          g[i] = IF i \notin holders \union {0} THEN f[i]
                 ELSE IF {k \in holders : k > i} = {} THEN None
                 ELSE f[Min({k \in holders : k > i})]
    <3> SUFFICES ASSUME NEW i \in Slot
                 PROVE  g[i] = IF i \notin holders \union {0} THEN f[i]
                               ELSE IF next(i) = {} THEN None ELSE f[Min(next(i))]
      BY <2>1 DEF next
    <3>1. g[i] = IF i \in moved THEN shifted(i) ELSE f[i]
      BY <1>3, <1>11, <1>14
    <3>2. next(i) # {} => f[Min(next(i))] = q.elements[after(Min(next(i)))].request
      BY <1>5, <1>6, <1>14 DEF RequestAt
    <3>3. i \in moved <=> i \in holders \union {0}
      BY DEF moved
    <3> QED BY <3>1, <3>2, <3>3 DEF shifted
  <2> HIDE DEF n
  <2>5. Shifts(n, holders, f, g)
    BY <2>2, <2>3, <2>4 DEF Shifts
  <2>6. AllButFirst(n, f, g)
    BY <2>1, <2>5, ShiftDown
  <2> QED BY <2>1, <2>5, <2>6 DEF AllButFirst, n
<1>16. ReservedOnce(c)
  <2> SUFFICES ASSUME NEW s \in Slot, NEW u \in Slot, RequestAt(c, s) = RequestAt(c, u),
                      RequestAt(c, s) # None
               PROVE  s = u
    BY DEF ReservedOnce
  <2>1. offset(s) = offset(u)
    BY <1>3, <1>14, <1>15
  <2> QED BY <1>3, <2>1
<1>17. ASSUME NEW x \in Request
       PROVE  x \in Reserved(c) <=> x \in Reserved(q) /\ x # r
  <2>1. x \in Reserved(c) <=> \E i \in Slot : g[i] = x
    BY <1>3, <1>14 DEF Reserved, RequestAt
  <2>2. x \in Reserved(q) <=> \E i \in Slot : f[i] = x
    BY <1>3, <1>14 DEF Reserved, RequestAt
  <2> QED BY <1>14, <1>15, <2>1, <2>2
<1>18. Reserved(c) = Reserved(q) \ {r}
  BY <1>17 DEF Reserved, RequestAt
<1>19. /\ \E z \in 0..(last - 1) :
            /\ f[z] # None
            /\ \A i \in Slot : g[i] # None <=> f[i] # None /\ i # z
            /\ \A i \in 0..(last - 1) : i > z => f[i] = None
       /\ \A i, k \in Slot : g[i] # None /\ g[i] = f[k] =>
            IF i <= last - 1 THEN i < k /\ k <= last - 1 ELSE k = i
       /\ \A i, j, k, l \in Slot :
            i < j /\ j <= last - 1 /\ g[i] # None /\ g[j] # None /\ g[i] = f[k] /\ g[j] = f[l]
              => k < l
  <2> DEFINE n == Entries - 1
             w == last - 1
  <2>1. n \in Nat /\ Slot = 0..n /\ holders \in SUBSET (1..n) /\ w \in 0..n
    BY <1>5, <1>a, <1>c, Ring
  <2>2. Shifts(n, holders, f, g)
    BY <1>15
  <2>3. holders = {i \in 1..w : f[i] # None}
    <3>1. \A i \in 1..w : i \in Slot
      BY <2>1
    <3> QED BY <1>14, <1>d, <3>1
  <2> HIDE DEF n, w
  <2>4. KeepsOrder(n, w, f, g)
    BY <2>1, <2>2, <2>3, ShiftOrder
  <2> QED BY <2>1, <2>4 DEF w, KeepsOrder
<1>e. /\ \A s \in Slot : LET i == offset(s)
                         IN /\ i \in 0..(Entries - 1) /\ i \in Slot
                            /\ f[i] = RequestAt(q, s) /\ g[i] = RequestAt(c, s)
                            /\ Pos(q, s) = IF a + i < Entries THEN a + i ELSE a + i - Entries
      /\ 1 <= last /\ a + last = L /\ (L = T \/ L = Entries) /\ L <= Entries
      /\ \A s \in Slot : Before(q, s) <=> Pos(q, s) < T
  <2>1. \A s \in Slot : offset(s) \in Slot /\ after(offset(s)) = s
    BY <1>3
  <2>2. last = L - a /\ 1 <= last /\ L \in Nat /\ (L = T \/ L = Entries) /\ L <= Entries
    BY <1>4, <1>a, <1>c DEF L
  <2>3. a + last = L
    BY <1>a, <2>2
  <2> QED BY <1>14, <1>a, <2>1, <2>2, <2>3, Ring DEF Before, T
<1>20. \E z \in Asked(q) :
         /\ Asked(c) = Asked(q) \ {z}
         /\ a <= Pos(q, z)
         /\ \A v \in Asked(q) : Pos(q, z) < Pos(q, v) => Before(q, z) /\ ~Before(q, v)
  <2>1. PICK y \in 0..(last - 1) :
               /\ f[y] # None
               /\ \A i \in Slot : g[i] # None <=> f[i] # None /\ i # y
               /\ \A i \in 0..(last - 1) : i > y => f[i] = None
    BY <1>19
  <2>2. y \in Slot /\ y \in Nat /\ y <= last - 1
    BY <1>c, Ring
  <2>3. PICK z \in Slot : z = after(y)
    BY <1>3, <2>2
  <2>4. offset(z) = y /\ RequestAt(q, z) # None /\ Pos(q, z) = a + y
    BY <1>3, <1>14, <1>a, <1>c, <1>e, <2>1, <2>2, <2>3
  <2>5. \A s \in Slot : offset(s) = y => s = z
    BY <1>3, <2>3
  <2>6. Asked(c) = Asked(q) \ {z}
    BY <1>e, <2>1, <2>4, <2>5 DEF Asked
  <2>7. ASSUME NEW v \in Asked(q), Pos(q, z) < Pos(q, v)
        PROVE  Before(q, z) /\ ~Before(q, v)
    <3>1. v \in Slot /\ RequestAt(q, v) # None
      BY DEF Asked
    <3> DEFINE i == offset(v)
    <3>2. /\ i \in 0..(Entries - 1) /\ f[i] # None
          /\ Pos(q, v) = IF a + i < Entries THEN a + i ELSE a + i - Entries
      BY <1>e, <3>1
    <3> HIDE DEF i
    <3>3. ~(i > y /\ i <= last - 1)
      BY <1>c, <2>1, <3>2
    <3>4. L <= Pos(q, v) /\ Pos(q, v) < Entries
      BY <1>a, <1>c, <1>e, <2>2, <2>4, <2>7, <3>2, <3>3
    <3>5. L = T /\ Pos(q, z) < L
      BY <1>a, <1>c, <1>e, <2>2, <2>4, <3>2, <3>4
    <3> QED BY <1>a, <1>e, <2>3, <3>1, <3>2, <3>4, <3>5
  <2>8. z \in Asked(q) /\ a <= Pos(q, z)
    BY <1>a, <2>2, <2>4 DEF Asked
  <2> QED BY <2>6, <2>7, <2>8
<1>21. ASSUME NEW s \in Asked(c), NEW u \in Asked(c), NEW v \in Slot, NEW x \in Slot,
              RequestAt(q, v) = RequestAt(c, s), RequestAt(q, x) = RequestAt(c, u),
              Pos(q, s) < Pos(q, u)
       PROVE  Pos(q, v) < Pos(q, x)
  <2>1. s \in Slot /\ u \in Slot /\ RequestAt(c, s) # None /\ RequestAt(c, u) # None
    BY DEF Asked
  <2> DEFINE i == offset(s)
             j == offset(u)
             k == offset(v)
             l == offset(x)
             P(y) == IF a + y < Entries THEN a + y ELSE a + y - Entries
             w == last - 1
  <2>2. /\ i \in Slot /\ j \in Slot /\ k \in Slot /\ l \in Slot
        /\ i \in 0..(Entries - 1) /\ j \in 0..(Entries - 1)
        /\ k \in 0..(Entries - 1) /\ l \in 0..(Entries - 1)
        /\ g[i] # None /\ g[j] # None /\ g[i] = f[k] /\ g[j] = f[l]
        /\ Pos(q, s) = P(i) /\ Pos(q, u) = P(j) /\ Pos(q, v) = P(k) /\ Pos(q, x) = P(l)
    BY <1>e, <1>21, <2>1
  <2> HIDE DEF i, j, k, l
  <2>3. /\ IF i <= w THEN i < k /\ k <= w ELSE k = i
        /\ IF j <= w THEN j < l /\ l <= w ELSE l = j
        /\ i < j /\ j <= w => k < l
    BY <1>19, <2>2
  <2>4. P(i) < P(j)
    BY <1>21, <2>2
  <2>5. w \in Nat /\ a + w < L /\ L <= a + w + 1 /\ L <= Entries
    BY <1>a, <1>c, <1>e
  <2> HIDE DEF w
  <2>6. P(k) < P(l)
    <3>0. /\ a \in Nat /\ Entries \in Nat /\ L \in Nat /\ w \in Nat /\ a < Entries
          /\ i \in Nat /\ j \in Nat /\ k \in Nat /\ l \in Nat
          /\ i < Entries /\ j < Entries /\ k < Entries /\ l < Entries
      BY <1>a, <1>e, <2>2, <2>5
    <3>1. CASE i <= w /\ j <= w
      <4>1. i < j
        BY <2>4, <2>5, <3>0, <3>1
      <4> QED BY <2>3, <2>5, <3>0, <3>1, <4>1
    <3>2. CASE i <= w /\ ~(j <= w)
      <4>1. l = j /\ k <= w /\ i < k
        BY <2>3, <3>2
      <4> QED BY <2>4, <2>5, <3>0, <3>2, <4>1
    <3>3. CASE ~(i <= w) /\ j <= w
      <4>1. k = i /\ l <= w /\ j < l
        BY <2>3, <3>3
      <4> QED BY <2>4, <2>5, <3>0, <3>3, <4>1
    <3>4. CASE ~(i <= w) /\ ~(j <= w)
      <4>1. k = i /\ l = j
        BY <2>3, <3>4
      <4> QED BY <2>4, <4>1
    <3> QED BY <3>1, <3>2, <3>3, <3>4
  <2> QED BY <2>2, <2>6
<1>22. Unasks(q, c, r)
  BY <1>10, <1>11, <1>20, <1>21 DEF Unasks, a, start
<1> QED BY <1>11, <1>13, <1>16, <1>18, <1>22 DEF c

-----------------------------------------------------------------------------
(* The inductive invariant.                                                *)

\* The queues of the endpoints.
QueuesInv ==
  /\ queue \in [Endpoint -> QueueType]
  /\ \A e \in Endpoint : QueueOk(queue[e]) /\ ReservedOnce(queue[e])

\* A buffer in use is in one entry of one queue or lent, and its message is
\* one that has been sent.
BuffersInv ==
  /\ sent \in 0..MaxSent /\ received \subseteq 1..sent
  /\ buffers \in [Buffer -> (1..sent) \union {None}] /\ lent \subseteq Buffer
  /\ \A e, d \in Endpoint : \A s, u \in Slot :
       BufferAt(queue[e], s) = BufferAt(queue[d], u) /\ BufferAt(queue[e], s) # None
         => e = d /\ s = u
  /\ \A e \in Endpoint, s \in Slot : BufferAt(queue[e], s) # None =>
       buffers[BufferAt(queue[e], s)] # None /\ BufferAt(queue[e], s) \notin lent
  /\ \A b \in lent : buffers[b] # None
  /\ \A b \in Buffer : buffers[b] # None /\ b \notin lent =>
       \E e \in Endpoint, s \in Slot : BufferAt(queue[e], s) = b

\* The receives that wait are those with a reservation, in their own queue; a
\* request of the list is clear and in the list once.
RequestsInv ==
  /\ requests \in [Request -> [type : {"other", "send", "recv"}, on : Endpoint \union {None},
                               completed : BOOLEAN, status : Status]]
  /\ \A r \in Request : requests[r].type = "recv" => requests[r].on \in Endpoint
  /\ \A e \in Endpoint :
       Reserved(queue[e]) = {r \in Request : Outstanding(r) /\ requests[r].on = e}
  /\ free \in Seq(Request) /\ IsInjective(free)
  /\ \A i \in DOMAIN free : requests[free[i]] = Cleared

\* The calls of the threads.
CallsInv ==
  /\ app \in Applications
  /\ call \in [Thread -> CallType]
  /\ held \subseteq Request
  /\ ordered \in [Endpoint -> BOOLEAN]

Inv == QueuesInv /\ BuffersInv /\ RequestsInv /\ CallsInv

\* The reservations of a step: as before, one more, or one less.
SameReserved == \A e \in Endpoint : Reserved(queue'[e]) = Reserved(queue[e])
OneReserved(d, r) ==
  \A e \in Endpoint :
    Reserved(queue'[e]) = IF e = d THEN Reserved(queue[e]) \union {r} ELSE Reserved(queue[e])
OneUnreserved(d, r) ==
  \A e \in Endpoint :
    Reserved(queue'[e]) = IF e = d THEN Reserved(queue[e]) \ {r} ELSE Reserved(queue[e])

\* What the constants mean.
LEMMA Names ==
  /\ None \notin Request /\ None \notin Buffer /\ None \notin Nat
  /\ MaxSent \in Nat /\ Buffer \subseteq Nat /\ IsFiniteSet(Request)
BY MessagesAssumption DEF Buffer

\* Two queues with the same reservations have the same receives waiting.
LEMMA ReservedSame ==
  ASSUME NEW q, NEW p, ReservedOnce(q), \A u \in Slot : RequestAt(p, u) = RequestAt(q, u)
  PROVE  Reserved(p) = Reserved(q) /\ ReservedOnce(p)
BY DEF Reserved, ReservedOnce, RequestAt

\* A message that is sent is in one entry of its queue, and in a buffer that
\* was free.
LEMMA PutStep ==
  ASSUME QueuesInv, BuffersInv, NEW e \in Endpoint, PutMessage(e), UNCHANGED <<lent, received>>
  PROVE  QueuesInv' /\ BuffersInv' /\ SameReserved
<1> DEFINE q == queue[e]
           b == Min(FreeBuffers)
           p == Push(q, b)
<1>1. b \in Buffer /\ buffers[b] = None
  <2>1. FreeBuffers \in SUBSET Nat /\ FreeBuffers # {}
    BY Names DEF PutMessage, FreeBuffers
  <2>2. b \in FreeBuffers
    <3> HIDE DEF FreeBuffers
    <3> QED BY <2>1, Least
  <2> QED BY <2>2 DEF FreeBuffers
<1> HIDE DEF b
<1>2. /\ queue' = [queue EXCEPT ![e] = p] /\ buffers' = [buffers EXCEPT ![b] = sent + 1]
      /\ sent' = sent + 1 /\ sent < MaxSent /\ ~IsFull(q)
  BY DEF PutMessage, b
<1>3. q \in QueueType /\ QueueOk(q) /\ ReservedOnce(q)
  BY DEF QueuesInv
<1> HIDE DEF q
<1>4. /\ QueueOk(p)
      /\ q.tail \in Slot /\ BufferAt(q, q.tail) = None
      /\ \A s \in Slot : /\ BufferAt(p, s) = IF s = q.tail THEN b ELSE BufferAt(q, s)
                         /\ RequestAt(p, s) = RequestAt(q, s)
  BY <1>1, <1>2, <1>3, Names, PushKeeps
<1> HIDE DEF p
<1>5. Reserved(p) = Reserved(q) /\ ReservedOnce(p)
  BY <1>3, <1>4, ReservedSame
<1>6. queue' \in [Endpoint -> QueueType]
      /\ \A d \in Endpoint : queue'[d] = IF d = e THEN p ELSE queue[d]
  BY <1>2, <1>4 DEF QueuesInv, QueueOk
<1>7. QueuesInv' /\ SameReserved
  BY <1>4, <1>5, <1>6 DEF QueuesInv, SameReserved, q
<1>8. \A d \in Endpoint, s \in Slot :
        BufferAt(queue'[d], s) = IF d = e /\ s = q.tail THEN b ELSE BufferAt(queue[d], s)
  BY <1>4, <1>6 DEF q
<1>9. BuffersInv'
  <2>1. /\ sent' \in 0..MaxSent /\ received' \subseteq 1..sent' /\ lent' \subseteq Buffer
        /\ buffers' \in [Buffer -> (1..sent') \union {None}]
        /\ \A c \in Buffer : buffers'[c] = IF c = b THEN sent' ELSE buffers[c]
        /\ sent' # None
    BY <1>1, <1>2, Names DEF BuffersInv
  <2>2. \A d \in Endpoint, s \in Slot : BufferAt(queue[d], s) \in Buffer \union {None}
    BY DEF QueuesInv, QueueType, EntryType, BufferAt
  <2>3. \A d \in Endpoint, s \in Slot : BufferAt(queue[d], s) # b
    BY <1>1, Names DEF BuffersInv
  <2>4. b \notin lent /\ b # None
    BY <1>1, Names DEF BuffersInv
  <2>5. \A d, c \in Endpoint : \A s, u \in Slot :
          BufferAt(queue'[d], s) = BufferAt(queue'[c], u) /\ BufferAt(queue'[d], s) # None
            => d = c /\ s = u
    BY <1>8, <2>3 DEF BuffersInv
  <2>6. \A d \in Endpoint, s \in Slot : BufferAt(queue'[d], s) # None =>
          buffers'[BufferAt(queue'[d], s)] # None /\ BufferAt(queue'[d], s) \notin lent'
    BY <1>1, <1>8, <2>1, <2>2, <2>4 DEF BuffersInv
  <2>7. \A c \in lent' : buffers'[c] # None
    BY <2>1, <2>4 DEF BuffersInv
  <2>8. \A c \in Buffer : buffers'[c] # None /\ c \notin lent' =>
          \E d \in Endpoint, s \in Slot : BufferAt(queue'[d], s) = c
    <3> SUFFICES ASSUME NEW c \in Buffer, buffers'[c] # None, c \notin lent
                 PROVE  \E d \in Endpoint, s \in Slot : BufferAt(queue'[d], s) = c
      OBVIOUS
    <3>1. CASE c = b
      BY <1>4, <1>8, <3>1
    <3>2. CASE c # b
      <4>1. PICK d \in Endpoint, s \in Slot : BufferAt(queue[d], s) = c
        BY <2>1, <3>2 DEF BuffersInv
      <4>2. ~(d = e /\ s = q.tail)
        BY <1>4, <4>1, Names DEF q
      <4> QED BY <1>8, <4>1, <4>2
    <3> QED BY <3>1, <3>2
  <2> QED BY <2>1, <2>5, <2>6, <2>7, <2>8 DEF BuffersInv
<1> QED BY <1>7, <1>9

\* The queues after one of them has been assigned.
LEMMA QueuesNext ==
  ASSUME QueuesInv, NEW e \in Endpoint, NEW p, QueueOk(p), ReservedOnce(p),
         queue' = [queue EXCEPT ![e] = p]
  PROVE  /\ QueuesInv'
         /\ \A d \in Endpoint : queue'[d] = IF d = e THEN p ELSE queue[d]
<1>1. queue' \in [Endpoint -> QueueType]
      /\ \A d \in Endpoint : queue'[d] = IF d = e THEN p ELSE queue[d]
  BY DEF QueuesInv, QueueOk
<1> QED BY <1>1 DEF QueuesInv

\* A message that is delivered leaves its entry; the buffer of a packet is lent.
LEMMA DeliverStep ==
  ASSUME QueuesInv, BuffersInv, NEW e \in Endpoint, NEW s \in Slot, NEW p,
         BufferAt(queue[e], s) # None, Deliver(e, BufferAt(queue[e], s)), UNCHANGED sent,
         queue' = [queue EXCEPT ![e] = p], QueueOk(p), ReservedOnce(p),
         \A u \in Slot : BufferAt(p, u) = IF u = s THEN None ELSE BufferAt(queue[e], u)
  PROVE  QueuesInv' /\ BuffersInv'
<1> DEFINE b == BufferAt(queue[e], s)
<1>0. \A d \in Endpoint, u \in Slot : BufferAt(queue[d], u) \in Buffer \union {None}
  BY DEF QueuesInv, QueueType, EntryType, BufferAt
<1>1. b \in Buffer /\ b # None /\ b \notin lent /\ buffers[b] \in 1..sent
  BY <1>0 DEF BuffersInv
<1>2. QueuesInv' /\ \A d \in Endpoint : queue'[d] = IF d = e THEN p ELSE queue[d]
  BY QueuesNext
<1>3. \A d \in Endpoint, u \in Slot :
        BufferAt(queue'[d], u) = IF d = e /\ u = s THEN None ELSE BufferAt(queue[d], u)
  BY <1>2
<1>4. \A d \in Endpoint, u \in Slot : BufferAt(queue'[d], u) # b
  BY <1>1, <1>3 DEF BuffersInv
<1>5. /\ received' \subseteq 1..sent' /\ sent' = sent
      /\ lent' \subseteq Buffer /\ lent \subseteq lent' /\ lent' \subseteq lent \union {b}
      /\ buffers' \in [Buffer -> (1..sent') \union {None}]
      /\ \A c \in Buffer : c # b => buffers'[c] = buffers[c]
      /\ b \in lent' \/ buffers'[b] = None
      /\ b \in lent' => buffers'[b] # None
  <2>1. received' = received \union {buffers[b]}
    BY DEF Deliver
  <2>2. received' \subseteq 1..sent' /\ sent' = sent
    BY <1>1, <2>1 DEF BuffersInv
  <2>3. CASE Kind[e] = "packet"
    <3>1. lent' = lent \union {b} /\ buffers' = buffers
      BY <2>3 DEF Deliver
    <3> QED BY <1>1, <2>2, <3>1, Names DEF BuffersInv
  <2>4. CASE Kind[e] # "packet"
    <3>1. lent' = lent /\ buffers' = [buffers EXCEPT ![b] = None]
      BY <2>4 DEF Deliver
    <3> QED BY <1>1, <2>2, <3>1, Names DEF BuffersInv
  <2> QED BY <2>3, <2>4
<1> HIDE DEF b
<1>6. \A d, c \in Endpoint : \A t, u \in Slot :
        BufferAt(queue'[d], t) = BufferAt(queue'[c], u) /\ BufferAt(queue'[d], t) # None
          => d = c /\ t = u
  BY <1>3 DEF BuffersInv
<1>7. \A d \in Endpoint, u \in Slot : BufferAt(queue'[d], u) # None =>
        buffers'[BufferAt(queue'[d], u)] # None /\ BufferAt(queue'[d], u) \notin lent'
  <2> SUFFICES ASSUME NEW d \in Endpoint, NEW u \in Slot, BufferAt(queue'[d], u) # None
               PROVE  buffers'[BufferAt(queue'[d], u)] # None /\ BufferAt(queue'[d], u) \notin lent'
    OBVIOUS
  <2>1. BufferAt(queue'[d], u) = BufferAt(queue[d], u) /\ BufferAt(queue'[d], u) # b
    BY <1>3, <1>4
  <2> QED BY <1>0, <1>5, <2>1 DEF BuffersInv
<1>8. \A c \in lent' : buffers'[c] # None
  BY <1>5 DEF BuffersInv
<1>9. \A c \in Buffer : buffers'[c] # None /\ c \notin lent' =>
        \E d \in Endpoint, u \in Slot : BufferAt(queue'[d], u) = c
  <2> SUFFICES ASSUME NEW c \in Buffer, buffers'[c] # None, c \notin lent'
               PROVE  \E d \in Endpoint, u \in Slot : BufferAt(queue'[d], u) = c
    OBVIOUS
  <2>1. c # b /\ c # None /\ c \notin lent /\ buffers[c] # None
    BY <1>5, Names
  <2>2. PICK d \in Endpoint, u \in Slot : BufferAt(queue[d], u) = c
    BY <2>1 DEF BuffersInv
  <2>3. ~(d = e /\ u = s)
    BY <2>1, <2>2 DEF b
  <2> QED BY <1>3, <2>2, <2>3
<1>10. sent' \in 0..MaxSent
  BY <1>5 DEF BuffersInv
<1> QED BY <1>2, <1>5, <1>6, <1>7, <1>8, <1>9, <1>10 DEF BuffersInv

\* A step that leaves the messages where they are.
LEMMA SameBuffers ==
  ASSUME BuffersInv, UNCHANGED <<buffers, lent, sent, received>>,
         \A e \in Endpoint, s \in Slot : BufferAt(queue'[e], s) = BufferAt(queue[e], s)
  PROVE  BuffersInv'
<1>1. \A e, d \in Endpoint : \A s, u \in Slot :
        BufferAt(queue'[e], s) = BufferAt(queue'[d], u) /\ BufferAt(queue'[e], s) # None
          => e = d /\ s = u
  BY DEF BuffersInv
<1>2. \A e \in Endpoint, s \in Slot : BufferAt(queue'[e], s) # None =>
        buffers'[BufferAt(queue'[e], s)] # None /\ BufferAt(queue'[e], s) \notin lent'
  BY DEF BuffersInv
<1>3. \A b \in Buffer : buffers'[b] # None /\ b \notin lent' =>
        \E e \in Endpoint, s \in Slot : BufferAt(queue'[e], s) = b
  BY DEF BuffersInv
<1> QED BY <1>1, <1>2, <1>3 DEF BuffersInv

\* A refused send only compacts.
LEMMA RefusedStep ==
  ASSUME QueuesInv, BuffersInv, NEW e \in Endpoint, SendRefused(e), UNCHANGED <<lent, received>>
  PROVE  QueuesInv' /\ BuffersInv' /\ SameReserved
<1> DEFINE q == queue[e]
           p == IF IsFull(q) THEN Compact(q) ELSE q
<1>1. q \in QueueType /\ QueueOk(q) /\ ReservedOnce(q) /\ InRing(q)
  BY DEF QueuesInv, QueueOk
<1>2. queue' = [queue EXCEPT ![e] = p] /\ UNCHANGED <<buffers, sent>>
  BY DEF SendRefused
<1>3. /\ QueueOk(p)
      /\ \A s \in Slot : BufferAt(p, s) = BufferAt(q, s) /\ RequestAt(p, s) = RequestAt(q, s)
  <2> DEFINE c == Compact(q)
  <2> HIDE DEF q, c
  <2>1. /\ c \in QueueType /\ c.tail = q.tail /\ c.num = q.num
        /\ \A s \in Full(q) : Before(c, s)
        /\ \A s \in Slot : BufferAt(c, s) = BufferAt(q, s) /\ RequestAt(c, s) = RequestAt(q, s)
    BY <1>1, CompactKeeps DEF c, InRing
  <2>2. Full(c) = Full(q)
    BY <2>1 DEF Full, BufferAt
  <2>3. QueueOk(c)
    BY <1>1, <2>1, <2>2 DEF QueueOk, InRing
  <2> QED BY <1>1, <2>1, <2>3 DEF c
<1> HIDE DEF p, q
<1>4. Reserved(p) = Reserved(q) /\ ReservedOnce(p)
  BY <1>1, <1>3, ReservedSame
<1>5. QueuesInv' /\ \A d \in Endpoint : queue'[d] = IF d = e THEN p ELSE queue[d]
  BY <1>2, <1>3, <1>4, QueuesNext
<1>6. BuffersInv'
  BY <1>2, <1>3, <1>5, SameBuffers DEF q
<1>7. SameReserved
  BY <1>4, <1>5 DEF SameReserved, q
<1> QED BY <1>5, <1>6, <1>7

\* A receive that finds a message.
LEMMA GetStep ==
  ASSUME QueuesInv, BuffersInv, NEW e \in Endpoint, GetMessage(e), UNCHANGED sent
  PROVE  QueuesInv' /\ BuffersInv' /\ SameReserved
<1> DEFINE q == queue[e]
           p == Pop(q)
           s == PopSlot(q)
<1>1. q \in QueueType /\ QueueOk(q) /\ ReservedOnce(q) /\ HasMessage(q)
  BY DEF QueuesInv, QueueOk, GetMessage
<1>2. queue' = [queue EXCEPT ![e] = p] /\ Deliver(e, BufferAt(q, s))
  BY DEF GetMessage, BufferAt
<1> HIDE DEF q
<1>3. /\ QueueOk(p) /\ s \in Slot /\ BufferAt(q, s) # None
      /\ \A u \in Slot : /\ BufferAt(p, u) = IF u = s THEN None ELSE BufferAt(q, u)
                         /\ RequestAt(p, u) = RequestAt(q, u)
  BY <1>1, PopKeeps
<1> HIDE DEF p, s
<1>4. Reserved(p) = Reserved(q) /\ ReservedOnce(p)
  BY <1>1, <1>3, ReservedSame
<1>5. QueuesInv' /\ BuffersInv'
  BY <1>2, <1>3, <1>4, DeliverStep DEF q
<1>6. SameReserved
  BY <1>2, <1>3, <1>4, QueuesNext DEF SameReserved, q
<1> QED BY <1>5, <1>6

\* A test that takes the message of a reservation.
LEMMA TakeStep ==
  ASSUME QueuesInv, BuffersInv, RequestsInv, NEW r \in Request, Arrived(r), TakeMessage(r),
         UNCHANGED sent
  PROVE  /\ QueuesInv' /\ BuffersInv' /\ OneUnreserved(requests[r].on, r)
<1> DEFINE e == requests[r].on
           q == queue[e]
           p == TakeReserved(q, r)
           s == SlotOf(q, r)
<1>0. e \in Endpoint /\ r \in Reserved(q)
  BY DEF RequestsInv, Arrived, Outstanding
<1>1. q \in QueueType /\ QueueOk(q) /\ ReservedOnce(q) /\ BufferAt(q, s) # None
  BY <1>0 DEF QueuesInv, QueueOk, Arrived, BufferAt
<1>2. queue' = [queue EXCEPT ![e] = p] /\ Deliver(e, BufferAt(q, s))
  BY DEF TakeMessage, BufferAt
<1> HIDE DEF e, q
<1>3. s \in Slot /\ RequestAt(q, s) = r
  BY <1>0, <1>1, Names, TheSlot
<1>4. /\ QueueOk(p)
      /\ \A u \in Slot : /\ BufferAt(p, u) = IF u = s THEN None ELSE BufferAt(q, u)
                         /\ RequestAt(p, u) = IF u = s THEN None ELSE RequestAt(q, u)
  BY <1>0, <1>1, Names, TakeKeeps
<1> HIDE DEF p, s
<1>5. ReservedOnce(p)
  BY <1>1, <1>4 DEF ReservedOnce
<1>6. Reserved(p) = Reserved(q) \ {r}
  BY <1>1, <1>3, <1>4, Names DEF Reserved, ReservedOnce, RequestAt
<1>7. QueuesInv' /\ BuffersInv'
  BY <1>0, <1>1, <1>2, <1>3, <1>4, <1>5, DeliverStep DEF q
<1>8. OneUnreserved(e, r)
  <2>1. \A d \in Endpoint : queue'[d] = IF d = e THEN p ELSE queue[d]
    BY <1>0, <1>2, <1>4, <1>5, QueuesNext
  <2> QED BY <1>6, <2>1 DEF OneUnreserved, q
<1> QED BY <1>7, <1>8 DEF e

\* A receive that waits makes a reservation.
LEMMA ReserveStep ==
  ASSUME QueuesInv, BuffersInv, NEW e \in Endpoint, NEW r \in Request,
         r \notin Reserved(queue[e]), ReservableSteps(queue[e]) # {},
         queue' = [queue EXCEPT ![e] = Reserve(@, r)],
         UNCHANGED <<buffers, lent, sent, received>>
  PROVE  QueuesInv' /\ BuffersInv' /\ OneReserved(e, r)
<1> DEFINE q == queue[e]
           p == Reserve(q, r)
<1>1. q \in QueueType /\ QueueOk(q) /\ ReservedOnce(q)
  BY DEF QueuesInv, QueueOk
<1>2. queue' = [queue EXCEPT ![e] = p]
  OBVIOUS
<1>3. /\ QueueOk(p) /\ ReservedOnce(p) /\ Reserved(p) = Reserved(q) \union {r}
      /\ \A u \in Slot : BufferAt(p, u) = BufferAt(q, u)
  BY <1>1, Names, ReserveKeeps
<1> HIDE DEF p
<1>4. QueuesInv' /\ \A d \in Endpoint : queue'[d] = IF d = e THEN p ELSE queue[d]
  BY <1>2, <1>3, QueuesNext
<1>5. BuffersInv'
  BY <1>3, <1>4, SameBuffers
<1> QED BY <1>3, <1>4, <1>5 DEF OneReserved

\* A cancel takes a reservation back.
LEMMA UnreserveStep ==
  ASSUME QueuesInv, BuffersInv, NEW e \in Endpoint, NEW r \in Reserved(queue[e]),
         queue' = [queue EXCEPT ![e] = Unreserve(@, r)],
         UNCHANGED <<buffers, lent, sent, received>>
  PROVE  QueuesInv' /\ BuffersInv' /\ OneUnreserved(e, r)
<1> DEFINE q == queue[e]
           p == Unreserve(q, r)
<1>1. q \in QueueType /\ QueueOk(q) /\ ReservedOnce(q)
  BY DEF QueuesInv, QueueOk
<1>2. queue' = [queue EXCEPT ![e] = p]
  OBVIOUS
<1>3. /\ QueueOk(p) /\ ReservedOnce(p) /\ Reserved(p) = Reserved(q) \ {r}
      /\ \A u \in Slot : BufferAt(p, u) = BufferAt(q, u)
  BY <1>1, Names, UnreserveKeeps
<1> HIDE DEF p
<1>4. QueuesInv' /\ \A d \in Endpoint : queue'[d] = IF d = e THEN p ELSE queue[d]
  BY <1>2, <1>3, QueuesNext
<1>5. BuffersInv'
  BY <1>3, <1>4, SameBuffers
<1> QED BY <1>3, <1>4, <1>5 DEF OneUnreserved

\* The application gives a packet back.
LEMMA FreeStep ==
  ASSUME QueuesInv, BuffersInv, NEW b \in lent,
         buffers' = [buffers EXCEPT ![b] = None], lent' = lent \ {b},
         UNCHANGED <<queue, sent, received>>
  PROVE  BuffersInv'
<1>0. \A d \in Endpoint, u \in Slot : BufferAt(queue[d], u) \in Buffer \union {None}
  BY DEF QueuesInv, QueueType, EntryType, BufferAt
<1>1. /\ buffers' \in [Buffer -> (1..sent') \union {None}]
      /\ \A c \in Buffer : buffers'[c] = IF c = b THEN None ELSE buffers[c]
  BY DEF BuffersInv
<1>2. \A e \in Endpoint, s \in Slot : BufferAt(queue'[e], s) # None =>
        buffers'[BufferAt(queue'[e], s)] # None /\ BufferAt(queue'[e], s) \notin lent'
  BY <1>0, <1>1 DEF BuffersInv
<1>3. \A c \in lent' : buffers'[c] # None
  BY <1>1 DEF BuffersInv
<1>4. \A c \in Buffer : buffers'[c] # None /\ c \notin lent' =>
        \E e \in Endpoint, s \in Slot : BufferAt(queue'[e], s) = c
  BY <1>1 DEF BuffersInv
<1> QED BY <1>1, <1>2, <1>3, <1>4 DEF BuffersInv

-----------------------------------------------------------------------------
(* The requests.                                                           *)

\* A list of requests without its first is one with each of them once.
LEMMA TailOnce ==
  ASSUME NEW f \in Seq(Request), IsInjective(f), f # <<>>
  PROVE  /\ Tail(f) \in Seq(Request) /\ IsInjective(Tail(f)) /\ Head(f) \in Request
         /\ \A i \in DOMAIN Tail(f) : i + 1 \in DOMAIN f /\ Tail(f)[i] = f[i + 1] /\ Tail(f)[i] # Head(f)
<1>1. /\ Tail(f) \in Seq(Request) /\ Head(f) \in Request /\ Head(f) = f[1] /\ 1 \in DOMAIN f
      /\ \A i \in DOMAIN Tail(f) : i + 1 \in DOMAIN f /\ Tail(f)[i] = f[i + 1] /\ i \in Nat /\ i # 0
  OBVIOUS
<1>2. \A i \in DOMAIN Tail(f) : Tail(f)[i] # Head(f)
  BY <1>1 DEF IsInjective
<1>3. IsInjective(Tail(f))
  BY <1>1 DEF IsInjective
<1> QED BY <1>1, <1>2, <1>3

\* A list of requests with one more in front.
LEMMA FrontOnce ==
  ASSUME NEW f \in Seq(Request), IsInjective(f), NEW r \in Request, \A i \in DOMAIN f : f[i] # r
  PROVE  /\ <<r>> \o f \in Seq(Request) /\ IsInjective(<<r>> \o f)
         /\ \A i \in DOMAIN (<<r>> \o f) :
              (<<r>> \o f)[i] = r \/ \E j \in DOMAIN f : (<<r>> \o f)[i] = f[j]
<1> DEFINE g == <<r>> \o f
<1>1. /\ g \in Seq(Request)
      /\ DOMAIN g = 1..(Len(f) + 1) /\ DOMAIN f = 1..Len(f) /\ Len(f) \in Nat
      /\ \A i \in DOMAIN g : g[i] = IF i = 1 THEN r ELSE f[i - 1]
  OBVIOUS
<1> HIDE DEF g
<1>2. \A i \in DOMAIN g : i # 1 => i - 1 \in DOMAIN f /\ g[i] = f[i - 1]
  BY <1>1
<1>3. IsInjective(g)
  <2> SUFFICES ASSUME NEW i \in DOMAIN g, NEW j \in DOMAIN g, g[i] = g[j] PROVE i = j
    BY DEF IsInjective
  <2>1. CASE i = 1 \/ j = 1
    BY <1>1, <1>2, <2>1
  <2>2. CASE i # 1 /\ j # 1
    <3>1. i - 1 = j - 1
      BY <1>2, <2>2 DEF IsInjective
    <3> QED BY <1>1, <3>1
  <2> QED BY <2>1, <2>2
<1>4. \A i \in DOMAIN g : g[i] = r \/ \E j \in DOMAIN f : g[i] = f[j]
  BY <1>1, <1>2
<1> QED BY <1>1, <1>3, <1>4 DEF g

\* A request that is taken from the list waits for nothing.
LEMMA Taken ==
  ASSUME RequestsInv, NEW r, ReserveRequest(r)
  PROVE  /\ r \in Request /\ requests[r] = Cleared /\ ~Outstanding(r)
         /\ \A e \in Endpoint : r \notin Reserved(queue[e])
         /\ free' \in Seq(Request) /\ IsInjective(free')
         /\ \A i \in DOMAIN free' : free'[i] # r /\ requests[free'[i]] = Cleared
<1>1. free \in Seq(Request) /\ IsInjective(free) /\ free # <<>> /\ r = Head(free) /\ free' = Tail(free)
  BY DEF RequestsInv, ReserveRequest
<1>2. /\ free' \in Seq(Request) /\ IsInjective(free') /\ r \in Request
      /\ \A i \in DOMAIN free' : i + 1 \in DOMAIN free /\ free'[i] = free[i + 1] /\ free'[i] # r
  BY <1>1, TailOnce
<1>3. r = free[1] /\ 1 \in DOMAIN free
  BY <1>1
<1>4. requests[r] = Cleared
  BY <1>3 DEF RequestsInv
<1>5. ~Outstanding(r)
  BY <1>4 DEF Outstanding, Cleared
<1> QED BY <1>2, <1>4, <1>5 DEF RequestsInv

\* A request that is collected goes to the front of the list.
LEMMA Collected ==
  ASSUME RequestsInv, NEW r \in Request, requests[r] # Cleared, CollectRequest(r)
  PROVE  /\ free' \in Seq(Request) /\ IsInjective(free')
         /\ \A i \in DOMAIN free' : requests'[free'[i]] = Cleared
<1>1. /\ free \in Seq(Request) /\ IsInjective(free)
      /\ \A i \in DOMAIN free : free[i] \in Request /\ free[i] # r /\ requests[free[i]] = Cleared
  <2>1. free \in Seq(Request) /\ IsInjective(free)
        /\ \A i \in DOMAIN free : requests[free[i]] = Cleared
    BY DEF RequestsInv
  <2> QED BY <2>1
<1>2. /\ free' = <<r>> \o free
      /\ \A x \in Request : requests'[x] = IF x = r THEN Cleared ELSE requests[x]
  BY DEF CollectRequest, RequestsInv
<1>3. /\ free' \in Seq(Request) /\ IsInjective(free')
      /\ \A i \in DOMAIN free' : free'[i] = r \/ \E j \in DOMAIN free : free'[i] = free[j]
  BY <1>1, <1>2, FrontOnce
<1> QED BY <1>1, <1>2, <1>3

RequestType == [type : {"other", "send", "recv"}, on : Endpoint \union {None},
                completed : BOOLEAN, status : Status]

\* The requests and the list as they were, and so the reservations.
LEMMA RequestsSame ==
  ASSUME RequestsInv, UNCHANGED <<requests, free>>, SameReserved
  PROVE  RequestsInv'
<1>1. \A e \in Endpoint :
        Reserved(queue'[e]) = {r \in Request : Outstanding(r)' /\ requests'[r].on = e}
  BY DEF RequestsInv, SameReserved, Outstanding
<1> QED BY <1>1 DEF RequestsInv

\* A request that completes at once.
LEMMA RequestsCompleted ==
  ASSUME RequestsInv, NEW r, ReserveRequest(r), NEW type \in {"send", "recv"},
         NEW e \in Endpoint, NEW status \in Status, SetupRequest(r, type, e, TRUE, status),
         SameReserved
  PROVE  RequestsInv'
<1> DEFINE x == [type |-> type, on |-> e, completed |-> TRUE, status |-> status]
<1>1. /\ r \in Request /\ ~Outstanding(r)
      /\ free' \in Seq(Request) /\ IsInjective(free')
      /\ \A i \in DOMAIN free' : free'[i] # r /\ requests[free'[i]] = Cleared
  BY Taken
<1>2. x \in RequestType /\ x.on \in Endpoint /\ x.completed = TRUE
  BY DEF RequestType
<1>3. requests' = [requests EXCEPT ![r] = x]
  BY DEF SetupRequest
<1> HIDE DEF x
<1>4. /\ requests' \in [Request -> RequestType]
      /\ \A y \in Request : requests'[y] = IF y = r THEN x ELSE requests[y]
  BY <1>1, <1>2, <1>3 DEF RequestsInv, RequestType
<1>5. \A y \in Request : requests'[y].type = "recv" => requests'[y].on \in Endpoint
  BY <1>2, <1>4 DEF RequestsInv
<1>6. \A d \in Endpoint :
        Reserved(queue'[d]) = {y \in Request : Outstanding(y)' /\ requests'[y].on = d}
  BY <1>1, <1>2, <1>4 DEF RequestsInv, SameReserved, Outstanding
<1>7. \A i \in DOMAIN free' : requests'[free'[i]] = Cleared
  <2>1. \A i \in DOMAIN free' : free'[i] \in Request
    BY <1>1
  <2> QED BY <1>1, <1>4, <2>1
<1> QED BY <1>1, <1>4, <1>5, <1>6, <1>7 DEF RequestsInv, RequestType

\* A receive that waits.
LEMMA RequestsWaiting ==
  ASSUME RequestsInv, NEW r, ReserveRequest(r), NEW e \in Endpoint,
         SetupRequest(r, "recv", e, FALSE, "success"), OneReserved(e, r)
  PROVE  RequestsInv'
<1> DEFINE x == [type |-> "recv", on |-> e, completed |-> FALSE, status |-> "success"]
<1>1. /\ r \in Request /\ ~Outstanding(r)
      /\ free' \in Seq(Request) /\ IsInjective(free')
      /\ \A i \in DOMAIN free' : free'[i] # r /\ requests[free'[i]] = Cleared
  BY Taken
<1>2. x \in RequestType /\ x.on = e /\ x.completed = FALSE /\ x.type = "recv"
  BY DEF RequestType, Status
<1>3. requests' = [requests EXCEPT ![r] = x]
  BY DEF SetupRequest
<1> HIDE DEF x
<1>4. /\ requests' \in [Request -> RequestType]
      /\ \A y \in Request : requests'[y] = IF y = r THEN x ELSE requests[y]
  BY <1>1, <1>2, <1>3 DEF RequestsInv, RequestType
<1>5. \A y \in Request : requests'[y].type = "recv" => requests'[y].on \in Endpoint
  BY <1>2, <1>4 DEF RequestsInv
<1>6. Outstanding(r)' /\ requests'[r].on = e
  BY <1>1, <1>2, <1>4 DEF Outstanding
<1>7. \A y \in Request \ {r} : Outstanding(y)' = Outstanding(y) /\ requests'[y] = requests[y]
  BY <1>4 DEF Outstanding
<1>8. ASSUME NEW d \in Endpoint
      PROVE  Reserved(queue'[d]) = {y \in Request : Outstanding(y)' /\ requests'[y].on = d}
  <2>0. Reserved(queue[d]) = {y \in Request : Outstanding(y) /\ requests[y].on = d}
    BY DEF RequestsInv
  <2>1. CASE d = e
    <3>1. Reserved(queue'[d]) = Reserved(queue[d]) \union {r}
      BY <2>1 DEF OneReserved
    <3> QED BY <1>1, <1>6, <1>7, <2>0, <2>1, <3>1
  <2>2. CASE d # e
    <3>1. Reserved(queue'[d]) = Reserved(queue[d])
      BY <2>2 DEF OneReserved
    <3> QED BY <1>1, <1>6, <1>7, <2>0, <2>2, <3>1
  <2> QED BY <2>1, <2>2
<1>9. \A i \in DOMAIN free' : requests'[free'[i]] = Cleared
  <2>1. \A i \in DOMAIN free' : free'[i] \in Request
    BY <1>1
  <2> QED BY <1>1, <1>4, <2>1
<1> QED BY <1>1, <1>4, <1>5, <1>8, <1>9 DEF RequestsInv, RequestType

\* A request that is cleared, after it has completed or when it gives up its
\* reservation.
LEMMA RequestsCleared ==
  ASSUME RequestsInv, NEW r \in Request, requests[r] # Cleared,
         requests' = [requests EXCEPT ![r] = Cleared],
         \/ requests[r].completed /\ SameReserved
         \/ Outstanding(r) /\ OneUnreserved(requests[r].on, r),
         free' = free \/ CollectRequest(r)
  PROVE  RequestsInv'
<1>1. Cleared \in RequestType /\ Cleared.type = "other"
  BY DEF Cleared, RequestType, Status
<1>2. /\ requests' \in [Request -> RequestType]
      /\ \A y \in Request : requests'[y] = IF y = r THEN Cleared ELSE requests[y]
  BY <1>1 DEF RequestsInv, RequestType
<1>3. /\ free' \in Seq(Request) /\ IsInjective(free')
      /\ \A i \in DOMAIN free' : requests'[free'[i]] = Cleared
  <2>1. CASE free' = free
    <3>1. free \in Seq(Request) /\ IsInjective(free)
          /\ \A i \in DOMAIN free : requests[free[i]] = Cleared
      BY DEF RequestsInv
    <3>2. \A i \in DOMAIN free : free[i] \in Request
      BY <3>1
    <3> QED BY <1>2, <2>1, <3>1, <3>2
  <2>2. CASE CollectRequest(r)
    BY <2>2, Collected
  <2> QED BY <2>1, <2>2
<1>4. \A y \in Request : requests'[y].type = "recv" => requests'[y].on \in Endpoint
  BY <1>1, <1>2 DEF RequestsInv
<1>5. ~Outstanding(r)'
  BY <1>1, <1>2 DEF Outstanding
<1>6. \A y \in Request \ {r} : Outstanding(y)' = Outstanding(y) /\ requests'[y] = requests[y]
  BY <1>2 DEF Outstanding
<1>7. ASSUME NEW d \in Endpoint
      PROVE  Reserved(queue'[d]) = {y \in Request : Outstanding(y)' /\ requests'[y].on = d}
  <2>0. Reserved(queue[d]) = {y \in Request : Outstanding(y) /\ requests[y].on = d}
    BY DEF RequestsInv
  <2>1. CASE requests[r].completed /\ SameReserved
    <3>1. ~Outstanding(r)
      BY <2>1 DEF Outstanding
    <3> QED BY <1>5, <1>6, <2>0, <2>1, <3>1 DEF SameReserved
  <2>2. CASE Outstanding(r) /\ OneUnreserved(requests[r].on, r)
    <3>1. Reserved(queue'[d]) = Reserved(queue[d]) \ {r}
      BY <2>0, <2>2 DEF OneUnreserved
    <3> QED BY <1>5, <1>6, <2>0, <3>1
  <2> QED BY <2>1, <2>2
<1> QED BY <1>2, <1>3, <1>4, <1>7 DEF RequestsInv, RequestType

-----------------------------------------------------------------------------
(* The invariant.                                                          *)

\* The list of all requests has each of them once.
LEMMA AllOnce ==
  /\ SetToSeq(Request) \in Seq(Request) /\ IsInjective(SetToSeq(Request))
<1>1. Cardinality(Request) \in Nat /\ ExistsBijection(1..Cardinality(Request), Request)
  BY Names, FS_CardinalityType
<1>2. PICK f \in [1..Cardinality(Request) -> Request] : IsInjective(f)
  BY <1>1 DEF ExistsBijection, Bijection, Injection, IsInjective
<1>3. /\ SetToSeq(Request) \in [1..Cardinality(Request) -> Request]
      /\ IsInjective(SetToSeq(Request))
  BY <1>2 DEF SetToSeq
<1> QED BY <1>1, <1>3

\* A queue that nothing has been sent to.
LEMMA ClearedOk ==
  /\ QueueOk(ClearedQueue) /\ ReservedOnce(ClearedQueue) /\ Reserved(ClearedQueue) = {}
  /\ \A s \in Slot : BufferAt(ClearedQueue, s) = None
<1>1. EmptyEntry \in EntryType /\ EmptyEntry.buffer = None /\ EmptyEntry.request = None
  BY DEF EmptyEntry, EntryType
<1>2. /\ ClearedQueue \in QueueType /\ ClearedQueue.num = 0
      /\ \A s \in Slot : ClearedQueue.elements[s] = EmptyEntry
  BY <1>1, Ring DEF ClearedQueue, QueueType
<1>3. Full(ClearedQueue) = {}
  BY <1>1, <1>2 DEF Full
<1>4. QueueOk(ClearedQueue)
  BY <1>2, <1>3, FS_EmptySet DEF QueueOk, InRing
<1> QED BY <1>1, <1>2, <1>4, Names DEF ReservedOnce, Reserved, RequestAt, BufferAt

\* The invariant holds at the beginning.
LEMMA InitInv == Init => Inv
<1> SUFFICES ASSUME Init PROVE Inv
  OBVIOUS
<1>1. \A e \in Endpoint : queue[e] = ClearedQueue
  BY DEF Init
<1>2. QueuesInv
  <2>1. ClearedQueue \in QueueType
    BY ClearedOk DEF QueueOk
  <2> QED BY <1>1, <2>1, ClearedOk DEF Init, QueuesInv
<1>3. BuffersInv
  <2>1. \A b \in Buffer : buffers[b] = None
    BY DEF Init
  <2>2. /\ sent \in 0..MaxSent /\ received \subseteq 1..sent
        /\ buffers \in [Buffer -> (1..sent) \union {None}] /\ lent = {}
    BY Names DEF Init
  <2>3. \A e \in Endpoint, s \in Slot : BufferAt(queue[e], s) = None
    BY <1>1, ClearedOk
  <2> QED BY <2>1, <2>2, <2>3 DEF BuffersInv
<1>4. RequestsInv
  <2>1. Cleared \in RequestType /\ Cleared.type = "other"
    BY DEF Cleared, RequestType, Status
  <2>2. requests \in [Request -> RequestType] /\ \A r \in Request : requests[r] = Cleared
    BY <2>1 DEF Init
  <2>3. free \in Seq(Request) /\ IsInjective(free)
    BY AllOnce DEF Init
  <2>4. \A i \in DOMAIN free : requests[free[i]] = Cleared
    BY <2>2, <2>3
  <2>5. \A e \in Endpoint :
          Reserved(queue[e]) = {r \in Request : Outstanding(r) /\ requests[r].on = e}
    BY <1>1, <2>1, <2>2, ClearedOk DEF Outstanding
  <2> QED BY <2>1, <2>2, <2>3, <2>4, <2>5 DEF RequestsInv, RequestType
<1>5. CallsInv
  BY DEF Init, CallsInv, CallType
<1> QED BY <1>2, <1>3, <1>4, <1>5 DEF Inv

\* The part of the invariant about the database.
DataInv == QueuesInv /\ BuffersInv /\ RequestsInv

\* A non-blocking send.
LEMMA SendIStep ==
  ASSUME DataInv, NEW e \in Endpoint, NEW status \in Status, NEW r, SendI(e, status, r)
  PROVE  DataInv' /\ r \in Request
<1>1. /\ QueuesInv /\ BuffersInv /\ RequestsInv /\ ReserveRequest(r)
      /\ UNCHANGED <<lent, received>> /\ r \in Request
  BY Taken DEF DataInv, SendI
<1>2. CASE status = "success" /\ PutMessage(e) /\ SetupRequest(r, "send", e, TRUE, "success")
  <2>1. QueuesInv' /\ BuffersInv' /\ SameReserved
    BY <1>1, <1>2, PutStep
  <2>2. "success" \in Status /\ "send" \in {"send", "recv"}
    BY DEF Status
  <2> QED BY <1>1, <1>2, <2>1, <2>2, RequestsCompleted DEF DataInv
<1>3. CASE status = "success" /\ SendRefused(e) /\ SetupRequest(r, "send", e, TRUE, "mem_limit")
  <2>1. QueuesInv' /\ BuffersInv' /\ SameReserved
    BY <1>1, <1>3, RefusedStep
  <2>2. "mem_limit" \in Status /\ "send" \in {"send", "recv"}
    BY DEF Status
  <2> QED BY <1>1, <1>3, <2>1, <2>2, RequestsCompleted DEF DataInv
<1>4. CASE /\ status # "success" /\ SetupRequest(r, "send", e, TRUE, status)
           /\ UNCHANGED <<queue, buffers, sent>>
  <2>1. QueuesInv' /\ BuffersInv' /\ SameReserved
    BY <1>1, <1>4 DEF QueuesInv, BuffersInv, SameReserved
  <2> QED BY <1>1, <1>4, <2>1, RequestsCompleted DEF DataInv
<1> QED BY <1>1, <1>2, <1>3, <1>4 DEF SendI

\* A non-blocking receive.
LEMMA RecvIStep ==
  ASSUME DataInv, NEW e \in Endpoint, NEW status \in Status, NEW r, RecvI(e, status, r)
  PROVE  DataInv' /\ r \in Request
<1>1. /\ QueuesInv /\ BuffersInv /\ RequestsInv /\ ReserveRequest(r)
      /\ UNCHANGED sent /\ r \in Request /\ r \notin Reserved(queue[e])
  BY Taken DEF DataInv, RecvI
<1>2. /\ "success" \in Status /\ "mem_limit" \in Status
      /\ "recv" \in {"send", "recv"}
  BY DEF Status
<1>3. CASE status = "success" /\ GetMessage(e) /\ SetupRequest(r, "recv", e, TRUE, "success")
  <2>1. QueuesInv' /\ BuffersInv' /\ SameReserved
    BY <1>1, <1>3, GetStep
  <2> QED BY <1>1, <1>2, <1>3, <2>1, RequestsCompleted DEF DataInv
<1>4. CASE /\ ReservableSteps(queue[e]) # {}
           /\ queue' = [queue EXCEPT ![e] = Reserve(@, r)]
           /\ SetupRequest(r, "recv", e, FALSE, "success")
           /\ UNCHANGED <<buffers, lent, received>>
  <2>1. QueuesInv' /\ BuffersInv' /\ OneReserved(e, r)
    BY <1>1, <1>4, ReserveStep
  <2> QED BY <1>1, <1>4, <2>1, RequestsWaiting DEF DataInv
<1>5. CASE /\ SetupRequest(r, "recv", e, TRUE, "mem_limit")
           /\ UNCHANGED <<queue, buffers, lent, received>>
  <2>1. QueuesInv' /\ BuffersInv' /\ SameReserved
    BY <1>1, <1>5 DEF QueuesInv, BuffersInv, SameReserved
  <2> QED BY <1>1, <1>2, <1>5, <2>1, RequestsCompleted DEF DataInv
<1>6. CASE /\ SetupRequest(r, "recv", e, TRUE, status)
           /\ UNCHANGED <<queue, buffers, lent, received>>
  <2>1. QueuesInv' /\ BuffersInv' /\ SameReserved
    BY <1>1, <1>6 DEF QueuesInv, BuffersInv, SameReserved
  <2> QED BY <1>1, <1>2, <1>6, <2>1, RequestsCompleted DEF DataInv
<1> QED BY <1>1, <1>3, <1>4, <1>5, <1>6 DEF RecvI

\* A test, a wait that returns.
LEMMA TestIStep ==
  ASSUME DataInv, NEW r \in Request, TestI(r)
  PROVE  DataInv'
<1>1. QueuesInv /\ BuffersInv /\ RequestsInv /\ UNCHANGED sent
  BY DEF DataInv, TestI
<1>2. CASE UNCHANGED <<queue, buffers, requests, free, lent, received>>
  <2>1. QueuesInv' /\ BuffersInv' /\ SameReserved
    BY <1>1, <1>2 DEF QueuesInv, BuffersInv, SameReserved
  <2> QED BY <1>1, <1>2, <2>1, RequestsSame DEF DataInv
<1>3. CASE /\ requests[r].completed /\ CollectRequest(r)
           /\ UNCHANGED <<queue, buffers, lent, received>>
  <2>1. QueuesInv' /\ BuffersInv' /\ SameReserved
    BY <1>1, <1>3 DEF QueuesInv, BuffersInv, SameReserved
  <2>2. requests[r] # Cleared /\ requests' = [requests EXCEPT ![r] = Cleared]
    BY <1>3 DEF Cleared, CollectRequest
  <2> QED BY <1>1, <1>3, <2>1, <2>2, RequestsCleared DEF DataInv
<1>4. CASE Arrived(r) /\ TakeMessage(r) /\ CollectRequest(r)
  <2>1. QueuesInv' /\ BuffersInv' /\ OneUnreserved(requests[r].on, r)
    BY <1>1, <1>4, TakeStep
  <2>2. /\ Outstanding(r) /\ requests[r] # Cleared
        /\ requests' = [requests EXCEPT ![r] = Cleared]
    BY <1>4 DEF Cleared, CollectRequest, Arrived, Outstanding
  <2> QED BY <1>1, <1>4, <2>1, <2>2, RequestsCleared DEF DataInv
<1> QED BY <1>2, <1>3, <1>4 DEF TestI

\* A cancel.
LEMMA CancelStep ==
  ASSUME DataInv, CallsInv, NEW t, NEW r \in Request, CallCancel(t, r)
  PROVE  DataInv'
<1>1. /\ QueuesInv /\ BuffersInv /\ RequestsInv /\ Outstanding(r)
      /\ UNCHANGED <<buffers, free, lent, sent, received>>
      /\ requests' = [requests EXCEPT ![r] = Cleared] /\ requests[r] # Cleared
  BY DEF DataInv, CallCancel, Outstanding, Cleared
<1>2. requests[r].on \in Endpoint /\ r \in Reserved(queue[requests[r].on])
  BY <1>1 DEF RequestsInv, Outstanding
<1>3. queue' = [queue EXCEPT ![requests[r].on] = Unreserve(@, r)]
  BY DEF CallCancel
<1>4. QueuesInv' /\ BuffersInv' /\ OneUnreserved(requests[r].on, r)
  BY <1>1, <1>2, <1>3, UnreserveStep
<1> QED BY <1>1, <1>4, RequestsCleared DEF DataInv

\* A step that leaves the database as it is.
LEMMA DataSame ==
  ASSUME DataInv, UNCHANGED <<queue, buffers, requests, free, lent, sent, received>>
  PROVE  DataInv'
<1>1. QueuesInv' /\ BuffersInv' /\ SameReserved
  BY DEF DataInv, QueuesInv, BuffersInv, SameReserved
<1> QED BY <1>1, RequestsSame DEF DataInv

\* What a call of a thread may be.
LEMMA CallTypes ==
  /\ NoCall \in CallType
  /\ \A e \in Endpoint, status \in Status :
       InLoop("send", e, status) \in CallType /\ InLoop("recv", e, status) \in CallType
  /\ \A rs \in SUBSET Request, b \in BOOLEAN : rs # {} => Waiting(rs, b) \in CallType
  /\ \A c \in CallType :
       /\ c.do \in {"send", "recv"} =>
            /\ c.on \in Endpoint /\ c.status \in Status
            /\ [c EXCEPT !.status = "request_limit"] \in CallType
       /\ c.do = "wait" => c.on \in SUBSET Request
<1>1. NoCall \in CallType /\ NoCall.do = "none" /\ "request_limit" \in Status
  BY DEF CallType, NoCall, Status
<1>2. /\ \A e \in Endpoint, status \in Status :
           InLoop("send", e, status) \in CallType /\ InLoop("recv", e, status) \in CallType
      /\ \A rs \in SUBSET Request, b \in BOOLEAN : rs # {} => Waiting(rs, b) \in CallType
  <2>1. \A rs \in SUBSET Request, b \in BOOLEAN : rs # {} =>
          Waiting(rs, b) \in [do : {"wait"}, on : (SUBSET Request) \ {{}}, blocking : BOOLEAN]
    <3> SUFFICES ASSUME NEW rs \in SUBSET Request, NEW b \in BOOLEAN, rs # {}
                 PROVE  [do |-> "wait", on |-> rs, blocking |-> b] \in
                          [do : {"wait"}, on : (SUBSET Request) \ {{}}, blocking : BOOLEAN]
      BY DEF Waiting
    <3>1. rs \in (SUBSET Request) \ {{}}
      OBVIOUS
    <3> HIDE DEF Waiting
    <3> QED BY <3>1
  <2>2. \A e \in Endpoint, status \in Status :
          /\ InLoop("send", e, status) \in [do : {"send", "recv"}, on : Endpoint, status : Status]
          /\ InLoop("recv", e, status) \in [do : {"send", "recv"}, on : Endpoint, status : Status]
    BY DEF InLoop
  <2> QED BY <2>1, <2>2 DEF CallType
<1>3. ASSUME NEW c \in CallType, c.do \in {"send", "recv"}
      PROVE  /\ c.on \in Endpoint /\ c.status \in Status
             /\ [c EXCEPT !.status = "request_limit"] \in CallType
  <2>1. c \in [do : {"send", "recv"}, on : Endpoint, status : Status]
    BY <1>1, <1>3 DEF CallType
  <2>2. [c EXCEPT !.status = "request_limit"] \in
          [do : {"send", "recv"}, on : Endpoint, status : Status]
    BY <1>1, <2>1
  <2> QED BY <2>1, <2>2 DEF CallType
<1>4. ASSUME NEW c \in CallType, c.do = "wait" PROVE c.on \in SUBSET Request
  <2>1. c \in [do : {"wait"}, on : (SUBSET Request) \ {{}}, blocking : BOOLEAN]
    BY <1>1, <1>4 DEF CallType
  <2> QED BY <2>1
<1> QED BY <1>1, <1>2, <1>3, <1>4

\* The call of a thread, after the thread has entered another.
LEMMA EnterStep ==
  ASSUME CallsInv, NEW t \in Thread, NEW c \in CallType, Enter(t, c)
  PROVE  call' \in [Thread -> CallType]
BY DEF CallsInv, Enter

\* A call of the application is on an endpoint of the application.
LEMMA OnEndpoint ==
  ASSUME CallsInv, NEW t \in Thread
  PROVE  app[t].on \subseteq Endpoint
<1>1. app \in [Thread -> [calls : SUBSET STRING, on : SUBSET Endpoint]]
  BY MessagesAssumption DEF CallsInv
<1> QED BY <1>1

\* The loops of the blocking calls, and the wait.
LEMMA ThreadInv ==
  ASSUME Inv, NEW t \in Thread, ThreadStep(t)
  PROVE  Inv'
<1>1. DataInv /\ CallsInv /\ call[t] \in CallType
  BY DEF Inv, DataInv, CallsInv
<1>2. CASE SendLoop(t)
  <2>1. call[t].on \in Endpoint /\ call[t].status \in Status
        /\ [call[t] EXCEPT !.status = "request_limit"] \in CallType
    BY <1>1, <1>2, CallTypes DEF SendLoop, Doing
  <2>2. CASE /\ Enter(t, [call[t] EXCEPT !.status = "request_limit"])
             /\ UNCHANGED <<app, queue, buffers, requests, free, lent, sent, received, ordered>>
    <3>1. DataInv' /\ call' \in [Thread -> CallType]
      BY <1>1, <2>1, <2>2, DataSame, EnterStep
    <3> QED BY <1>1, <1>2, <2>2, <3>1 DEF Inv, DataInv, CallsInv, SendLoop
  <2>3. ASSUME NEW r \in Request, SendI(call[t].on, call[t].status, r),
               Enter(t, Waiting({r}, TRUE))
        PROVE  Inv'
    <3>1. DataInv'
      BY <1>1, <2>1, <2>3, SendIStep
    <3>2. call' \in [Thread -> CallType]
      BY <1>1, <2>3, CallTypes, EnterStep
    <3> QED BY <1>1, <1>2, <2>3, <3>1, <3>2 DEF Inv, DataInv, CallsInv, SendLoop, SendI
  <2> QED BY <1>2, <2>2, <2>3 DEF SendLoop
<1>3. CASE RecvLoop(t)
  <2>1. call[t].on \in Endpoint /\ call[t].status \in Status
        /\ [call[t] EXCEPT !.status = "request_limit"] \in CallType
    BY <1>1, <1>3, CallTypes DEF RecvLoop, Doing
  <2>2. CASE /\ Enter(t, [call[t] EXCEPT !.status = "request_limit"])
             /\ UNCHANGED <<app, queue, buffers, requests, free, lent, sent, received, ordered>>
    <3>1. DataInv' /\ call' \in [Thread -> CallType]
      BY <1>1, <2>1, <2>2, DataSame, EnterStep
    <3> QED BY <1>1, <1>3, <2>2, <3>1 DEF Inv, DataInv, CallsInv, RecvLoop
  <2>3. ASSUME NEW r \in Request, RecvI(call[t].on, call[t].status, r),
               UNCHANGED call \/ Enter(t, Waiting({r}, TRUE))
        PROVE  Inv'
    <3>1. DataInv'
      BY <1>1, <2>1, <2>3, RecvIStep
    <3>2. call' \in [Thread -> CallType]
      <4>1. CASE UNCHANGED call
        BY <1>1, <4>1 DEF CallsInv
      <4>2. CASE Enter(t, Waiting({r}, TRUE))
        BY <1>1, <4>2, CallTypes, EnterStep
      <4> QED BY <2>3, <4>1, <4>2
    <3> QED BY <1>1, <1>3, <2>3, <3>1, <3>2 DEF Inv, DataInv, CallsInv, RecvLoop, RecvI
  <2> QED BY <1>3, <2>2, <2>3 DEF RecvLoop
<1>4. CASE WaitLoop(t)
  <2>1. PICK r \in Request : TestI(r)
    BY <1>1, <1>4, CallTypes DEF WaitLoop, Doing
  <2>2. DataInv'
    BY <1>1, <2>1, TestIStep
  <2>3. call' \in [Thread -> CallType]
    BY <1>1, <1>4, CallTypes, EnterStep DEF WaitLoop
  <2> QED BY <1>1, <2>1, <2>2, <2>3 DEF Inv, DataInv, CallsInv, TestI
<1> QED BY <1>2, <1>3, <1>4 DEF ThreadStep

\* The calls of the application.
LEMMA AppInv ==
  ASSUME Inv, NEW t \in Thread, AppCall(t)
  PROVE  Inv'
<1>1. DataInv /\ CallsInv /\ app[t].on \subseteq Endpoint
  BY OnEndpoint DEF Inv, DataInv
<1>2. ASSUME NEW e \in Endpoint, CallSendI(t, e) PROVE Inv'
  <2>1. PICK r \in Request : SendI(e, "success", r) /\ held' = held \union {r}
    BY <1>2 DEF CallSendI
  <2>2. DataInv'
    <3>1. "success" \in Status
      BY DEF Status
    <3> QED BY <1>1, <2>1, <3>1, SendIStep
  <2> QED BY <1>1, <1>2, <2>1, <2>2 DEF Inv, DataInv, CallsInv, CallSendI, SendI
<1>3. ASSUME NEW e \in Endpoint, CallRecvI(t, e) PROVE Inv'
  <2>1. PICK r \in Request : RecvI(e, "success", r) /\ held' = held \union {r}
    BY <1>3 DEF CallRecvI
  <2>2. DataInv'
    <3>1. "success" \in Status
      BY DEF Status
    <3> QED BY <1>1, <2>1, <3>1, RecvIStep
  <2> QED BY <1>1, <1>3, <2>1, <2>2 DEF Inv, DataInv, CallsInv, CallRecvI, RecvI
<1>4. ASSUME NEW e \in Endpoint, CallSend(t, e) \/ CallRecv(t, e) PROVE Inv'
  <2>1. PICK c \in CallType : Enter(t, c)
    <3>1. "success" \in Status
      BY DEF Status
    <3> QED BY <1>4, <3>1, CallTypes DEF CallSend, CallRecv
  <2>2. DataInv' /\ call' \in [Thread -> CallType]
    BY <1>1, <1>4, <2>1, DataSame, EnterStep DEF CallSend, CallRecv
  <2> QED BY <1>1, <1>4, <2>2 DEF Inv, DataInv, CallsInv, CallSend, CallRecv
<1>5. ASSUME NEW e \in Endpoint, SendScalar(t, e) PROVE Inv'
  <2>1. QueuesInv' /\ BuffersInv' /\ SameReserved
    BY <1>1, <1>5, PutStep, RefusedStep DEF DataInv, SendScalar
  <2>2. RequestsInv'
    BY <1>1, <1>5, <2>1, RequestsSame DEF DataInv, SendScalar
  <2> QED BY <1>1, <1>5, <2>1, <2>2 DEF Inv, CallsInv, SendScalar
<1>6. ASSUME NEW e \in Endpoint, RecvScalar(t, e) PROVE Inv'
  <2>1. QueuesInv' /\ BuffersInv' /\ SameReserved
    BY <1>1, <1>6, GetStep DEF DataInv, RecvScalar
  <2>2. RequestsInv'
    BY <1>1, <1>6, <2>1, RequestsSame DEF DataInv, RecvScalar
  <2> QED BY <1>1, <1>6, <2>1, <2>2 DEF Inv, CallsInv, RecvScalar
<1>7. ASSUME NEW rs \in SUBSET held, CallWait(t, rs) PROVE Inv'
  <2>1. Waiting(rs, FALSE) \in CallType
    BY <1>1, <1>7, CallTypes DEF CallsInv, CallWait
  <2>2. DataInv' /\ call' \in [Thread -> CallType]
    BY <1>1, <1>7, <2>1, DataSame, EnterStep DEF CallWait
  <2> QED BY <1>1, <1>7, <2>2 DEF Inv, DataInv, CallsInv, CallWait
<1>8. ASSUME NEW r \in held, CallTest(t, r) PROVE Inv'
  <2>1. r \in Request /\ TestI(r)
    BY <1>1, <1>8 DEF CallsInv, CallTest
  <2>2. DataInv'
    BY <1>1, <2>1, TestIStep
  <2> QED BY <1>1, <1>8, <2>1, <2>2 DEF Inv, DataInv, CallsInv, CallTest, TestI
<1>9. ASSUME NEW r \in held, CallCancel(t, r) PROVE Inv'
  <2>1. r \in Request /\ requests[r].on \in Endpoint
    BY <1>1, <1>9 DEF DataInv, RequestsInv, CallsInv, CallCancel
  <2>2. DataInv'
    BY <1>1, <1>9, <2>1, CancelStep
  <2>3. ordered' \in [Endpoint -> BOOLEAN]
    BY <1>1, <1>9 DEF CallsInv, CallCancel
  <2> QED BY <1>1, <1>9, <2>1, <2>2, <2>3 DEF Inv, DataInv, CallsInv, CallCancel
<1>10. ASSUME NEW b \in lent, FreePacket(t, b) PROVE Inv'
  <2>1. BuffersInv' /\ QueuesInv' /\ SameReserved
    BY <1>1, <1>10, FreeStep DEF DataInv, FreePacket, QueuesInv, SameReserved
  <2>2. RequestsInv'
    BY <1>1, <1>10, <2>1, RequestsSame DEF DataInv, FreePacket
  <2> QED BY <1>1, <1>10, <2>1, <2>2 DEF Inv, CallsInv, FreePacket
<1>11. CASE Timeout(t)
  <2>1. DataInv' /\ call' \in [Thread -> CallType]
    BY <1>1, <1>11, DataSame, CallTypes, EnterStep DEF Timeout
  <2> QED BY <1>1, <1>11, <2>1 DEF Inv, DataInv, CallsInv, Timeout
<1> QED BY <1>2, <1>3, <1>4, <1>5, <1>6, <1>7, <1>8, <1>9, <1>10, <1>11 DEF AppCall

\* Every step keeps the invariant.
LEMMA StepInv == Inv /\ [Next]_vars => Inv'
<1> SUFFICES ASSUME Inv, [Next]_vars PROVE Inv'
  OBVIOUS
<1>1. CASE Next
  BY <1>1, ThreadInv, AppInv DEF Next
<1>2. CASE UNCHANGED vars
  <2>1. DataInv'
    BY <1>2, DataSame DEF Inv, DataInv, vars
  <2> QED BY <1>2, <2>1 DEF Inv, DataInv, CallsInv, vars
<1> QED BY <1>1, <1>2

-----------------------------------------------------------------------------
(* The properties.                                                         *)

\* A set with at most one element, one with exactly one.
LEMMA AtMostOne ==
  ASSUME NEW S, \A x, y \in S : x = y
  PROVE  Cardinality(S) <= 1 /\ (S # {} => Cardinality(S) = 1)
<1>1. CASE S = {}
  BY <1>1, FS_EmptySet
<1>2. CASE S # {}
  <2>1. PICK x : S = {x}
    BY <1>2
  <2> QED BY <2>1, FS_Singleton
<1> QED BY <1>1, <1>2

\* The invariant has the types.
LEMMA InvType == Inv => TypeOK
<1> SUFFICES ASSUME Inv PROVE TypeOK
  OBVIOUS
<1>1. queue \in [Endpoint -> [head : Slot, tail : Slot, num : 0..MaxQueue,
                              elements : [Slot -> EntryType]]]
  <2>1. ASSUME NEW e \in Endpoint
        PROVE  queue[e] \in [head : Slot, tail : Slot, num : 0..MaxQueue,
                             elements : [Slot -> EntryType]]
    <3>1. queue[e] \in QueueType /\ queue[e].num \in 0..MaxQueue
      BY Bounded DEF Inv, QueuesInv, QueueOk
    <3> QED BY <3>1 DEF QueueType
  <2> QED BY <2>1 DEF Inv, QueuesInv
<1>2. IsInjective(free) /\ ToSet(free) \subseteq Request
      /\ \A r \in ToSet(free) : requests[r] = Cleared
  <2>1. free \in Seq(Request)
    BY DEF Inv, RequestsInv
  <2> QED BY <2>1 DEF Inv, RequestsInv, ToSet
<1>3. sent \in 0..MaxSent /\ buffers \in [Buffer -> 1..MaxSent \union {None}]
  BY Names DEF Inv, BuffersInv
<1> QED BY <1>1, <1>2, <1>3 DEF Inv, TypeOK, BuffersInv, RequestsInv, CallsInv

\* The invariant counts the queues and the reservations.
LEMMA InvExact == Inv => QueueExact
<1> SUFFICES ASSUME Inv PROVE QueueExact
  OBVIOUS
<1>0. QueuesInv /\ BuffersInv /\ RequestsInv
  BY DEF Inv
<1>1. ASSUME NEW e \in Endpoint
      PROVE  /\ queue[e].num = Cardinality({s \in Slot : queue[e].elements[s].buffer # None})
             /\ queue[e].num > 0 => queue[e].head # queue[e].tail
             /\ \A s \in Slot : queue[e].elements[s].request # None =>
                  /\ Outstanding(queue[e].elements[s].request)
                  /\ requests[queue[e].elements[s].request].on = e
  <2>1. QueueOk(queue[e]) /\ queue[e] \in QueueType
    BY <1>0 DEF QueuesInv
  <2>2. queue[e].num > 0 => queue[e].head # queue[e].tail
    BY <2>1, NotEmpty
  <2>3. ASSUME NEW s \in Slot, queue[e].elements[s].request # None
        PROVE  queue[e].elements[s].request \in Reserved(queue[e])
    BY <2>1, <2>3 DEF QueueType, EntryType, Reserved, RequestAt
  <2> QED BY <1>0, <2>1, <2>2, <2>3 DEF QueueOk, Full, RequestsInv
<1>2. ASSUME NEW b \in Buffer
      PROVE  LET places == {p \in Endpoint \X Slot : queue[p[1]].elements[p[2]].buffer = b}
             IN /\ Cardinality(places) <= 1
                /\ (buffers[b] # None) <=> (places # {} \/ b \in lent)
                /\ ~(places # {} /\ b \in lent)
  <2> DEFINE places == {p \in Endpoint \X Slot : queue[p[1]].elements[p[2]].buffer = b}
  <2>0. b # None
    BY Names
  <2>1. \A p \in places : p = <<p[1], p[2]>> /\ p[1] \in Endpoint /\ p[2] \in Slot
                          /\ BufferAt(queue[p[1]], p[2]) = b
    BY DEF BufferAt
  <2>2. \A e \in Endpoint, s \in Slot : BufferAt(queue[e], s) = b => <<e, s>> \in places
    BY DEF BufferAt
  <2> HIDE DEF places
  <2>3. ASSUME NEW p \in places, NEW o \in places PROVE p = o
    <3>1. p[1] = o[1] /\ p[2] = o[2]
      BY <1>0, <2>0, <2>1 DEF BuffersInv
    <3> QED BY <2>1, <3>1
  <2>4. Cardinality(places) <= 1
    BY <2>3, AtMostOne
  <2>5. places # {} => buffers[b] # None /\ b \notin lent
    <3> SUFFICES ASSUME NEW p \in places PROVE buffers[b] # None /\ b \notin lent
      OBVIOUS
    <3> QED BY <1>0, <2>0, <2>1 DEF BuffersInv
  <2>6. b \in lent => buffers[b] # None
    BY <1>0 DEF BuffersInv
  <2>7. buffers[b] # None /\ b \notin lent => places # {}
    BY <1>0, <2>2 DEF BuffersInv
  <2> QED BY <2>4, <2>5, <2>6, <2>7 DEF places
<1>3. ASSUME NEW r \in Request, Outstanding(r)
      PROVE  Cardinality({s \in Slot : queue[requests[r].on].elements[s].request = r}) = 1
  <2> DEFINE e == requests[r].on
             S == {s \in Slot : queue[e].elements[s].request = r}
  <2>1. e \in Endpoint /\ r \in Reserved(queue[e]) /\ ReservedOnce(queue[e])
    BY <1>0, <1>3 DEF RequestsInv, QueuesInv, Outstanding
  <2>2. \A s, u \in S : s = u
    BY <2>1, Names DEF ReservedOnce, RequestAt
  <2>3. S # {}
    BY <2>1 DEF Reserved, RequestAt
  <2> HIDE DEF S
  <2>4. Cardinality(S) = 1
    BY <2>2, <2>3, AtMostOne
  <2> QED BY <2>4 DEF S
<1> QED BY <1>1, <1>2, <1>3 DEF QueueExact

\* In every execution every part of the database has its type, and an index is
\* in the list of free requests once only.
THEOREM TypeCorrect == Spec => []TypeOK
<1>1. Spec => []Inv
  BY InitInv, StepInv, PTL DEF Spec
<1> QED BY <1>1, InvType, PTL

\* In every execution the counter of a queue is the number of its messages, a
\* buffer in use is in one place, and a receive that waits has one reservation.
THEOREM QueuesExact == Spec => []QueueExact
<1>1. Spec => []Inv
  BY InitInv, StepInv, PTL DEF Spec
<1> QED BY <1>1, InvExact, PTL

-----------------------------------------------------------------------------
(* The elements of a set in order.                                         *)

\* The positions tell the elements apart.
Orders(S, pos) ==
  /\ IsFiniteSet(S)
  /\ \A x \in S : pos[x] \in Nat
  /\ \A x, y \in S : pos[x] = pos[y] => x = y

\* Two ways to put a set in the same order.
SameOrder(S, p, r) == \A x, y \in S : p[x] <= p[y] <=> r[x] <= r[y]

\* The places of the elements are the numbers up to the size of the set.
LEMMA RankIs ==
  ASSUME NEW S, NEW pos, Orders(S, pos)
  PROVE  /\ Cardinality(S) \in Nat
         /\ \A x \in S : Rank(S, pos, x) \in 1..Cardinality(S)
         /\ \A x, y \in S : Rank(S, pos, x) <= Rank(S, pos, y) <=> pos[x] <= pos[y]
         /\ \A x, y \in S : Rank(S, pos, x) = Rank(S, pos, y) => x = y
         /\ \A i \in 1..Cardinality(S) : \E x \in S : Rank(S, pos, x) = i
<1> DEFINE upto(x) == {y \in S : pos[y] <= pos[x]}
           n == Cardinality(S)
<1>1. IsFiniteSet(S) /\ n \in Nat
  BY FS_CardinalityType DEF Orders
<1>2. \A x : Rank(S, pos, x) = Cardinality(upto(x))
  BY DEF Rank
<1>3. ASSUME NEW x \in S PROVE /\ IsFiniteSet(upto(x)) /\ Rank(S, pos, x) \in 1..n
  <2>1. upto(x) \in SUBSET S /\ x \in upto(x)
    BY DEF Orders
  <2> HIDE DEF upto
  <2>2. IsFiniteSet(upto(x)) /\ Cardinality(upto(x)) <= n
    BY <1>1, <2>1, FS_Subset
  <2>3. Cardinality(upto(x)) \in Nat /\ Cardinality(upto(x)) # 0
    BY <2>1, <2>2, FS_CardinalityType, FS_EmptySet
  <2> QED BY <1>1, <1>2, <2>2, <2>3
<1>4. ASSUME NEW x \in S, NEW y \in S, pos[x] < pos[y]
      PROVE  Rank(S, pos, x) < Rank(S, pos, y)
  <2>1. upto(x) \in SUBSET upto(y) /\ y \in upto(y) /\ y \notin upto(x)
    BY <1>4 DEF Orders
  <2>2. IsFiniteSet(upto(y)) /\ Rank(S, pos, x) \in Nat /\ Rank(S, pos, y) \in Nat
    <3> HIDE DEF n, upto
    <3>1. IsFiniteSet(upto(y)) /\ Rank(S, pos, x) \in 1..n /\ Rank(S, pos, y) \in 1..n
      BY <1>3
    <3> QED BY <1>1, <3>1
  <2> HIDE DEF upto
  <2>3. Cardinality(upto(x)) <= Cardinality(upto(y)) /\ Cardinality(upto(x)) # Cardinality(upto(y))
    <3>1. /\ Cardinality(upto(x)) <= Cardinality(upto(y))
          /\ Cardinality(upto(y)) = Cardinality(upto(x)) => upto(y) = upto(x)
      BY <2>1, <2>2, FS_Subset
    <3> QED BY <2>1, <3>1
  <2> QED BY <1>2, <2>2, <2>3
<1>5. ASSUME NEW x \in S, NEW y \in S
      PROVE  /\ Rank(S, pos, x) <= Rank(S, pos, y) <=> pos[x] <= pos[y]
             /\ Rank(S, pos, x) = Rank(S, pos, y) => x = y
  <2>1. pos[x] \in Nat /\ pos[y] \in Nat /\ (pos[x] = pos[y] => x = y)
    BY DEF Orders
  <2>2. Rank(S, pos, x) \in Nat /\ Rank(S, pos, y) \in Nat
    <3> HIDE DEF n, upto
    <3>1. Rank(S, pos, x) \in 1..n /\ Rank(S, pos, y) \in 1..n
      BY <1>3
    <3> QED BY <1>1, <3>1
  <2>3. /\ pos[x] < pos[y] => Rank(S, pos, x) < Rank(S, pos, y)
        /\ pos[y] < pos[x] => Rank(S, pos, y) < Rank(S, pos, x)
    BY <1>4
  <2> QED BY <2>1, <2>2, <2>3
<1>6. \A i \in 1..n : \E x \in S : Rank(S, pos, x) = i
  <2> DEFINE f == [x \in S |-> Rank(S, pos, x)]
  <2>1. f \in Injection(S, 1..n)
    BY <1>3, <1>5 DEF Injection, IsInjective
  <2>2. IsFiniteSet(1..n) /\ Cardinality(1..n) = n
    BY <1>1, FS_Interval
  <2>3. f \in Surjection(S, 1..n)
    <3> HIDE DEF f
    <3> QED BY <2>1, <2>2, FS_Injection
  <2> QED BY <2>3 DEF Surjection
<1> QED BY <1>1, <1>3, <1>5, <1>6

\* The list of them.
LEMMA SortedIs ==
  ASSUME NEW S, NEW pos, Orders(S, pos)
  PROVE  /\ Sorted(S, pos) \in Seq(S) /\ Len(Sorted(S, pos)) = Cardinality(S)
         /\ \A i \in 1..Cardinality(S) :
              Sorted(S, pos)[i] \in S /\ Rank(S, pos, Sorted(S, pos)[i]) = i
         /\ \A x \in S : Sorted(S, pos)[Rank(S, pos, x)] = x
<1> DEFINE n == Cardinality(S)
           z == Sorted(S, pos)
<1>1. /\ n \in Nat
      /\ \A x \in S : Rank(S, pos, x) \in 1..n
      /\ \A x, y \in S : Rank(S, pos, x) = Rank(S, pos, y) => x = y
      /\ \A i \in 1..n : \E x \in S : Rank(S, pos, x) = i
  BY RankIs
<1>2. \A i \in 1..n : z[i] = CHOOSE x \in S : Rank(S, pos, x) = i
  BY DEF Sorted
<1>3. ASSUME NEW i \in 1..n PROVE z[i] \in S /\ Rank(S, pos, z[i]) = i
  BY <1>1, <1>2
<1>4. z = [i \in 1..n |-> z[i]]
  BY DEF Sorted
<1> HIDE DEF n, z
<1>5. z \in [1..n -> S]
  BY <1>3, <1>4
<1>6. z \in Seq(S) /\ Len(z) = n
  BY <1>1, <1>5
<1>7. ASSUME NEW x \in S PROVE z[Rank(S, pos, x)] = x
  BY <1>1, <1>3
<1> QED BY <1>3, <1>6, <1>7 DEF n, z

\* A list that has its elements at their places is the sorted one.
LEMMA SortedOnly ==
  ASSUME NEW S, NEW pos, Orders(S, pos), NEW z \in Seq(S), Len(z) = Cardinality(S),
         \A x \in S : z[Rank(S, pos, x)] = x
  PROVE  z = Sorted(S, pos)
<1> DEFINE n == Cardinality(S)
           y == Sorted(S, pos)
<1>1. /\ n \in Nat /\ y \in Seq(S) /\ Len(y) = n
      /\ \A i \in 1..n : y[i] \in S /\ Rank(S, pos, y[i]) = i
  BY RankIs, SortedIs
<1> HIDE DEF n, y
<1>2. ASSUME NEW i \in 1..n PROVE z[i] = y[i]
  BY <1>1
<1>3. Len(z) = n
  BY DEF n
<1> QED BY <1>1, <1>2, <1>3 DEF n, y

\* The same order of the positions gives the same list.
LEMMA SortedSame ==
  ASSUME NEW S, NEW p, NEW r, Orders(S, p), Orders(S, r), SameOrder(S, p, r)
  PROVE  /\ Sorted(S, r) = Sorted(S, p)
         /\ \A x \in S : Rank(S, r, x) = Rank(S, p, x)
<1>1. ASSUME NEW x \in S PROVE Rank(S, r, x) = Rank(S, p, x)
  <2>1. {y \in S : r[y] <= r[x]} = {y \in S : p[y] <= p[x]}
    BY DEF SameOrder
  <2> QED BY <2>1 DEF Rank
<1>2. /\ Sorted(S, p) \in Seq(S) /\ Len(Sorted(S, p)) = Cardinality(S)
      /\ \A x \in S : Sorted(S, p)[Rank(S, r, x)] = x
  BY <1>1, SortedIs
<1>3. Sorted(S, p) = Sorted(S, r)
  BY <1>2, SortedOnly
<1> QED BY <1>1, <1>3

\* An element behind all others.
LEMMA SortedAppend ==
  ASSUME NEW S, NEW p, NEW r, NEW x, x \notin S, Orders(S, p), Orders(S \union {x}, r),
         SameOrder(S, p, r), \A y \in S : r[y] < r[x]
  PROVE  Sorted(S \union {x}, r) = Append(Sorted(S, p), x)
<1> DEFINE U == S \union {x}
           n == Cardinality(S)
           z == Sorted(S, p)
<1>1. Orders(S, r)
  <2>1. S \in SUBSET U /\ IsFiniteSet(U)
    BY DEF Orders
  <2>2. IsFiniteSet(S)
    BY DEF Orders
  <2> QED BY <2>2 DEF Orders
<1>2. /\ n \in Nat /\ z \in Seq(S) /\ Len(z) = n
      /\ \A y \in S : Rank(S, r, y) = Rank(S, p, y) /\ Rank(S, p, y) \in 1..n
      /\ \A y \in S : z[Rank(S, p, y)] = y
  BY <1>1, RankIs, SortedIs, SortedSame
<1>3. IsFiniteSet(S) /\ Cardinality(U) = n + 1
  BY FS_AddElement DEF Orders
<1>4. r[x] \in Nat /\ \A y \in S : r[y] \in Nat
  BY DEF Orders
<1>5. Rank(U, r, x) = n + 1
  <2>1. {y \in U : r[y] <= r[x]} = U
    BY <1>4
  <2> QED BY <1>3, <2>1 DEF Rank
<1>6. ASSUME NEW y \in S PROVE Rank(U, r, y) = Rank(S, p, y)
  <2>1. {w \in U : r[w] <= r[y]} = {w \in S : r[w] <= r[y]}
    BY <1>4
  <2>2. Rank(U, r, y) = Rank(S, r, y)
    BY <2>1 DEF Rank
  <2> QED BY <1>2, <2>2
<1> HIDE DEF z, n
<1> DEFINE a == Append(z, x)
<1>7. /\ a \in Seq(U) /\ Len(a) = n + 1 /\ a[n + 1] = x
      /\ \A i \in 1..n : a[i] = z[i]
  <2>1. z \in Seq(U)
    BY <1>2
  <2> QED BY <1>2, <2>1
<1> HIDE DEF a
<1>8. ASSUME NEW y \in U PROVE a[Rank(U, r, y)] = y
  <2>1. CASE y = x
    BY <1>5, <1>7, <2>1
  <2>2. CASE y \in S
    BY <1>2, <1>6, <1>7, <2>2
  <2> QED BY <2>1, <2>2
<1> HIDE DEF U
<1>9. Orders(U, r)
  BY DEF U
<1>10. a = Sorted(U, r)
  BY <1>3, <1>7, <1>8, <1>9, SortedOnly
<1> QED BY <1>10 DEF U, a, z

\* The parts of a list.
LEMMA Concat ==
  ASSUME NEW S, NEW a \in Seq(S), NEW b \in Seq(S)
  PROVE  a \o b \in Seq(S) /\ Len(a \o b) = Len(a) + Len(b)
OBVIOUS

\* A list with one place taken out.
LEMMA RemoveIs ==
  ASSUME NEW S, NEW z \in Seq(S), NEW k \in 1..Len(z)
  PROVE  /\ RemoveAt(z, k) \in Seq(S) /\ Len(RemoveAt(z, k)) = Len(z) - 1
         /\ \A i \in 1..(Len(z) - 1) : RemoveAt(z, k)[i] = IF i < k THEN z[i] ELSE z[i + 1]
<1> DEFINE a == SubSeq(z, 1, k - 1)
           b == SubSeq(z, k + 1, Len(z))
           n == Len(z)
<1>1. n \in Nat /\ k \in Nat /\ 1 <= k /\ k <= n
  OBVIOUS
<1>2. /\ a \in Seq(S) /\ Len(a) = k - 1 /\ \A i \in 1..(k - 1) : a[i] = z[i]
  BY <1>1
<1>3. /\ b \in Seq(S) /\ Len(b) = n - k /\ \A i \in 1..(n - k) : b[i] = z[k + i]
  BY <1>1
<1> HIDE DEF a, b
<1>4. RemoveAt(z, k) = a \o b
  BY DEF RemoveAt, a, b
<1>5. a \o b \in Seq(S) /\ Len(a \o b) = n - 1
  <2>1. a \o b \in Seq(S) /\ Len(a \o b) = Len(a) + Len(b)
    BY <1>2, <1>3, Concat
  <2>2. Len(a) + Len(b) = n - 1
    BY <1>1, <1>2, <1>3
  <2> QED BY <2>1, <2>2
<1>6. ASSUME NEW i \in 1..(n - 1) PROVE (a \o b)[i] = IF i < k THEN z[i] ELSE z[i + 1]
  <2>1. CASE i < k
    BY <1>1, <1>2, <1>3, <2>1
  <2>2. CASE i >= k
    <3>1. i - (k - 1) \in 1..(n - k) /\ k + (i - (k - 1)) = i + 1
      BY <1>1, <2>2
    <3>2. (a \o b)[i] = b[i - (k - 1)]
      BY <1>1, <1>2, <1>3, <2>2
    <3>3. b[i - (k - 1)] = z[i + 1] /\ ~(i < k)
      BY <1>1, <1>3, <2>2, <3>1
    <3> QED BY <3>2, <3>3
  <2>3. i < k \/ i >= k
    BY <1>1
  <2> QED BY <2>1, <2>2, <2>3
<1> QED BY <1>4, <1>5, <1>6

\* One element less.
LEMMA SortedRemove ==
  ASSUME NEW S, NEW p, NEW r, NEW x \in S, Orders(S, p), Orders(S \ {x}, r),
         SameOrder(S \ {x}, p, r)
  PROVE  Sorted(S \ {x}, r) = RemoveAt(Sorted(S, p), Rank(S, p, x))
<1> DEFINE U == S \ {x}
           n == Cardinality(S)
           z == Sorted(S, p)
           k == Rank(S, p, x)
<1>1. IsFiniteSet(S) /\ n \in Nat
  BY FS_CardinalityType DEF Orders
<1>2. Cardinality(U) = n - 1
  BY <1>1, FS_RemoveElement
<1>3. /\ z \in Seq(S) /\ Len(z) = n
      /\ \A y \in S : Rank(S, p, y) \in 1..n /\ z[Rank(S, p, y)] = y
      /\ \A i \in 1..n : z[i] \in S /\ Rank(S, p, z[i]) = i
      /\ \A y, w \in S : Rank(S, p, y) <= Rank(S, p, w) <=> p[y] <= p[w]
      /\ \A y, w \in S : Rank(S, p, y) = Rank(S, p, w) => y = w
  BY RankIs, SortedIs
<1>4. k \in 1..n /\ z[k] = x
  BY <1>3
<1>5. Orders(U, p)
  <2>1. IsFiniteSet(U)
    BY <1>1, FS_RemoveElement
  <2> QED BY <2>1 DEF Orders
<1>6. ASSUME NEW y \in U
      PROVE  Rank(U, r, y) = IF Rank(S, p, y) < k THEN Rank(S, p, y) ELSE Rank(S, p, y) - 1
  <2> DEFINE V == {w \in S : p[w] <= p[y]}
  <2>1. Rank(U, r, y) = Rank(U, p, y)
    BY <1>5, SortedSame
  <2>2. {w \in U : p[w] <= p[y]} = V \ {x}
    OBVIOUS
  <2>3. IsFiniteSet(V)
    <3>1. V \in SUBSET S
      OBVIOUS
    <3> QED BY <1>1, <3>1, FS_Subset
  <2>4. Cardinality(V \ {x}) = IF x \in V THEN Cardinality(V) - 1 ELSE Cardinality(V)
    BY <2>3, FS_RemoveElement
  <2>5. Cardinality(V) = Rank(S, p, y) /\ Rank(U, p, y) = Cardinality(V \ {x})
    BY <2>2 DEF Rank
  <2>6. x \in V <=> k <= Rank(S, p, y)
    BY <1>3
  <2>7. Rank(S, p, y) \in Nat /\ k \in Nat
    BY <1>3, <1>4
  <2> QED BY <2>1, <2>4, <2>5, <2>6, <2>7
<1> DEFINE a == RemoveAt(z, k)
<1> HIDE DEF z, k, n
<1>7. /\ a \in Seq(S) /\ Len(a) = n - 1
      /\ \A i \in 1..(n - 1) : a[i] = IF i < k THEN z[i] ELSE z[i + 1]
  BY <1>3, <1>4, RemoveIs
<1> HIDE DEF a
<1>8. a \in Seq(U)
  <2>1. ASSUME NEW i \in 1..(n - 1) PROVE a[i] \in U
    <3>1. CASE i < k
      <4>1. a[i] = z[i] /\ i \in 1..n /\ i # k
        BY <1>1, <1>4, <1>7, <3>1
      <4>2. z[i] \in S /\ Rank(S, p, z[i]) = i
        BY <1>3, <4>1
      <4> QED BY <1>3, <4>1, <4>2 DEF k
    <3>2. CASE ~(i < k)
      <4>1. a[i] = z[i + 1] /\ i + 1 \in 1..n /\ i + 1 # k
        BY <1>1, <1>4, <1>7, <3>2
      <4>2. z[i + 1] \in S /\ Rank(S, p, z[i + 1]) = i + 1
        BY <1>3, <4>1
      <4> QED BY <1>3, <4>1, <4>2 DEF k
    <3> QED BY <3>1, <3>2
  <2> HIDE DEF U
  <2>2. a \in [1..(n - 1) -> U]
    BY <1>7, <2>1
  <2>3. n - 1 \in Nat
    BY <1>1, <1>4
  <2> QED BY <2>2, <2>3
<1>9. ASSUME NEW y \in U PROVE a[Rank(U, r, y)] = y
  <2>1. y \in S /\ Rank(S, p, y) \in 1..n /\ Rank(S, p, y) # k /\ z[Rank(S, p, y)] = y
    BY <1>3 DEF k
  <2>2. CASE Rank(S, p, y) < k
    <3>1. Rank(U, r, y) = Rank(S, p, y)
      BY <1>6, <2>2
    <3>2. Rank(S, p, y) \in 1..(n - 1)
      BY <1>1, <1>4, <2>1, <2>2
    <3> QED BY <1>7, <2>1, <2>2, <3>1, <3>2
  <2>3. CASE ~(Rank(S, p, y) < k)
    <3>1. Rank(U, r, y) = Rank(S, p, y) - 1
      BY <1>6, <2>3
    <3>2. Rank(S, p, y) - 1 \in 1..(n - 1) /\ ~(Rank(S, p, y) - 1 < k) /\ (Rank(S, p, y) - 1) + 1 = Rank(S, p, y)
      BY <1>1, <1>4, <2>1, <2>3
    <3> QED BY <1>7, <2>1, <3>1, <3>2
  <2> QED BY <2>2, <2>3
<1> HIDE DEF U
<1>10. Orders(U, r)
  BY DEF U
<1>11. a = Sorted(U, r)
  BY <1>2, <1>7, <1>8, <1>9, <1>10, SortedOnly
<1> QED BY <1>11 DEF U, a, z, k

\* One to one, and in the same order.
LEMMA RankImage ==
  ASSUME NEW S, NEW T, NEW p, NEW r, NEW h \in [S -> T], Orders(S, p), Orders(T, r),
         \A x, y \in S : h[x] = h[y] => x = y,
         \A y \in T : \E x \in S : h[x] = y,
         \A x \in S : p[x] = r[h[x]]
  PROVE  /\ Cardinality(T) = Cardinality(S)
         /\ \A x \in S : Rank(S, p, x) = Rank(T, r, h[x])
<1>1. IsFiniteSet(S) /\ IsFiniteSet(T)
  BY DEF Orders
<1>2. h \in Bijection(S, T)
  BY DEF Bijection, Injection, Surjection, IsInjective
<1>3. Cardinality(T) = Cardinality(S)
  BY <1>1, <1>2, FS_Bijection DEF ExistsBijection
<1>4. ASSUME NEW x \in S PROVE Rank(S, p, x) = Rank(T, r, h[x])
  <2> DEFINE A == {y \in S : p[y] <= p[x]}
             B == {y \in T : r[y] <= r[h[x]]}
             j == [y \in A |-> h[y]]
  <2>1. IsFiniteSet(A)
    <3>1. A \in SUBSET S
      OBVIOUS
    <3> QED BY <1>1, <3>1, FS_Subset
  <2>2. \A y \in A : j[y] \in B
    OBVIOUS
  <2>3. \A y, z \in A : j[y] = j[z] => y = z
    OBVIOUS
  <2>4. \A y \in B : \E z \in A : j[z] = y
    OBVIOUS
  <2>5. j \in [A -> B]
    BY <2>2
  <2> HIDE DEF A, B, j
  <2>6. j \in Bijection(A, B)
    BY <2>3, <2>4, <2>5 DEF Bijection, Injection, Surjection, IsInjective
  <2>7. Cardinality(B) = Cardinality(A)
    BY <2>1, <2>6, FS_Bijection DEF ExistsBijection
  <2> QED BY <2>7 DEF Rank, A, B
<1> QED BY <1>3, <1>4

\* The values of a function at the elements of a list.
Mapped(z, h) == [i \in DOMAIN z |-> h[z[i]]]

\* A list of images is as long as the list it comes from.
LEMMA MapIs ==
  ASSUME NEW S, NEW z \in Seq(S), NEW h
  PROVE  /\ \E V : Mapped(z, h) \in Seq(V)
         /\ Len(Mapped(z, h)) = Len(z)
         /\ \A i \in 1..Len(z) : Mapped(z, h)[i] = h[z[i]]
<1> DEFINE V == {h[x] : x \in S}
           n == Len(z)
           m == Mapped(z, h)
<1>1. n \in Nat /\ DOMAIN z = 1..n /\ \A i \in 1..n : z[i] \in S
  OBVIOUS
<1>2. \A i \in 1..n : h[z[i]] \in V
  BY <1>1
<1>3. m = [i \in 1..n |-> h[z[i]]]
  BY <1>1 DEF Mapped
<1> HIDE DEF V, m, n
<1>4. m \in [1..n -> V] /\ \A i \in 1..n : m[i] = h[z[i]]
  BY <1>2, <1>3
<1>5. m \in Seq(V) /\ Len(m) = n
  BY <1>1, <1>4
<1> QED BY <1>4, <1>5 DEF m, n

\* Lists with the same elements in the same places are the same.
LEMMA SameList ==
  ASSUME NEW S, NEW T, NEW a \in Seq(S), NEW b \in Seq(T), Len(a) = Len(b),
         \A i \in 1..Len(a) : a[i] = b[i]
  PROVE  a = b
OBVIOUS

\* Functions that agree on a list map it to the same list.
LEMMA MapSame ==
  ASSUME NEW S, NEW z \in Seq(S), NEW h, NEW j, \A x \in S : h[x] = j[x]
  PROVE  Mapped(z, h) = Mapped(z, j)
BY DEF Mapped

\* Appending before or after the mapping.
LEMMA MapAppend ==
  ASSUME NEW S, NEW z \in Seq(S), NEW x, NEW h
  PROVE  Mapped(Append(z, x), h) = Append(Mapped(z, h), h[x])
<1> DEFINE T == S \union {x}
           n == Len(z)
           y == Append(z, x)
           v == h[x]
           a == Mapped(y, h)
           m == Mapped(z, h)
           b == Append(m, v)
<1>1. n \in Nat /\ z \in Seq(T)
  OBVIOUS
<1>2. y \in Seq(T) /\ Len(y) = n + 1 /\ y[n + 1] = x /\ \A i \in 1..n : y[i] = z[i]
  BY <1>1
<1> HIDE DEF T, y
<1>3. PICK V : m \in Seq(V)
  BY MapIs
<1>4. Len(m) = n /\ \A i \in 1..n : m[i] = h[z[i]]
  BY MapIs
<1>5. PICK W : a \in Seq(W)
  BY <1>2, MapIs
<1>6. Len(a) = n + 1 /\ \A i \in 1..(n + 1) : a[i] = h[y[i]]
  BY <1>2, MapIs
<1> HIDE DEF a, m, v, n
<1> DEFINE U == V \union {v}
<1>7. m \in Seq(U) /\ v \in U
  BY <1>3
<1> HIDE DEF U
<1>8. b \in Seq(U) /\ Len(b) = n + 1 /\ b[n + 1] = v /\ \A i \in 1..n : b[i] = m[i]
  BY <1>4, <1>7
<1> HIDE DEF b
<1>9. ASSUME NEW i \in 1..(n + 1) PROVE a[i] = b[i]
  <2>1. CASE i = n + 1
    BY <1>2, <1>6, <1>8, <2>1 DEF v
  <2>2. CASE i # n + 1
    <3>1. i \in 1..n
      BY <1>1, <2>2
    <3> QED BY <1>2, <1>4, <1>6, <1>8, <3>1
  <2> QED BY <2>1, <2>2
<1>10. a = b
  BY <1>5, <1>6, <1>8, <1>9, SameList
<1> QED BY <1>10 DEF a, b, m, v, y

\* Removing before or after the mapping.
LEMMA MapRemove ==
  ASSUME NEW S, NEW z \in Seq(S), NEW k \in 1..Len(z), NEW h
  PROVE  Mapped(RemoveAt(z, k), h) = RemoveAt(Mapped(z, h), k)
<1> DEFINE n == Len(z)
           y == RemoveAt(z, k)
           a == Mapped(y, h)
           m == Mapped(z, h)
           b == RemoveAt(m, k)
<1>1. n \in Nat /\ k \in 1..n
  OBVIOUS
<1>2. /\ y \in Seq(S) /\ Len(y) = n - 1
      /\ \A i \in 1..(n - 1) : y[i] = IF i < k THEN z[i] ELSE z[i + 1]
  BY RemoveIs
<1> HIDE DEF y
<1>3. PICK V : m \in Seq(V)
  BY MapIs
<1>4. Len(m) = n /\ \A i \in 1..n : m[i] = h[z[i]]
  BY MapIs
<1>5. PICK W : a \in Seq(W)
  BY <1>2, MapIs
<1>6. Len(a) = n - 1 /\ \A i \in 1..(n - 1) : a[i] = h[y[i]]
  BY <1>2, MapIs
<1> HIDE DEF a, m, n
<1>7. /\ b \in Seq(V) /\ Len(b) = n - 1
      /\ \A i \in 1..(n - 1) : b[i] = IF i < k THEN m[i] ELSE m[i + 1]
  BY <1>1, <1>3, <1>4, RemoveIs
<1> HIDE DEF b
<1>8. ASSUME NEW i \in 1..(n - 1) PROVE a[i] = b[i]
  <2>1. i \in 1..n /\ i + 1 \in 1..n
    BY <1>1
  <2> QED BY <1>2, <1>4, <1>6, <1>7, <2>1
<1>9. a = b
  BY <1>5, <1>6, <1>7, <1>8, SameList
<1> QED BY <1>9 DEF a, b, m, y

-----------------------------------------------------------------------------
(* The order of a queue.                                                   *)

\* From the tail on the reservations leave no gap.
Contiguous(q) ==
  \A s, v \in Slot :
    ~Before(q, s) /\ Pos(q, s) < Pos(q, v) /\ v \in Asked(q) => s \in Asked(q)

\* A message that no receive waits for is behind every reservation.
Fifo(q) ==
  \A s \in Full(q), v \in Asked(q) : s \notin Asked(q) => Pos(q, v) < Pos(q, s)

Shaped(q) == Bubbles(q) /\ Contiguous(q)

\* An entry with a message.
LEMMA InFull ==
  \A q, s : s \in Full(q) <=> s \in Slot /\ BufferAt(q, s) # None
BY DEF Full, BufferAt

\* An entry with a reservation.
LEMMA InAsked ==
  \A q, s : s \in Asked(q) <=> s \in Slot /\ RequestAt(q, s) # None
BY DEF Asked

\* Positions are numbers and tell the entries apart.
LEMMA Positions ==
  ASSUME NEW q \in QueueType
  PROVE  /\ q.tail \in Slot /\ Pos(q, q.tail) \in 0..(Entries - 1)
         /\ \A s \in Slot : Pos(q, s) \in 0..(Entries - 1) /\ Pos(q, s) \in Nat
         /\ \A s, u \in Slot : Pos(q, s) = Pos(q, u) => s = u
<1>1. q.tail \in Slot
  BY DEF QueueType
<1> QED BY <1>1, WalkPos, Ring

\* The entries in use of c are in the order they have in q.
SameUse(q, c) ==
  \A s, u \in Slot :
    s \in Full(c) \union Asked(c) /\ u \in Full(c) \union Asked(c) =>
      (Pos(c, s) <= Pos(c, u) <=> Pos(q, s) <= Pos(q, u))

\* Messages that are taken leave the rest in order.
LEMMA TakesShape ==
  ASSUME NEW q \in QueueType, NEW c \in QueueType, NEW X \in SUBSET Full(q),
         InRing(q), Shaped(q), Takes(q, c, X)
  PROVE  Shaped(c) /\ SameUse(q, c) /\ (Fifo(q) => Fifo(c))
<1> DEFINE k == Pos(q, c.head)
           T == Pos(q, q.tail)
<1>1. /\ k \in Nat /\ T \in Nat /\ Entries \in Nat /\ k <= T /\ T < Entries
      /\ \A s \in Slot : Pos(q, s) \in Nat /\ Pos(q, s) < Entries
      /\ q.tail \in Slot /\ c.tail = q.tail
  <2>1. c.head \in Slot
    BY DEF QueueType
  <2> QED BY <2>1, Positions, Ring DEF Takes
<1>2. \A u \in Slot :
        /\ BufferAt(c, u) = IF u \in X THEN None ELSE BufferAt(q, u)
        /\ RequestAt(c, u) = IF u \in X THEN None ELSE RequestAt(q, u)
        /\ InvalidAt(c, u) <=> Pos(q, u) >= k /\ (InvalidAt(q, u) \/ u \in X)
        /\ Pos(q, u) < k => BufferAt(c, u) = None /\ RequestAt(c, u) = None
  BY DEF Takes
<1>3. \A s \in Slot :
        Pos(c, s) = IF Pos(q, s) >= k THEN Pos(q, s) - k ELSE Pos(q, s) - k + Entries
  BY Turned
<1>4. \A s \in Slot : Before(q, s) <=> Pos(q, s) < T
  BY DEF Before
<1> HIDE DEF k, T
<1>5. Pos(c, c.tail) = T - k
  BY <1>1, <1>3 DEF T
<1>6. ASSUME NEW s \in Slot PROVE Before(c, s) <=> Before(q, s) /\ Pos(q, s) >= k
  BY <1>1, <1>3, <1>4, <1>5 DEF Before
<1>7. \A s \in Slot : s \in X => Before(q, s) /\ BufferAt(q, s) # None
  BY InFull DEF InRing
<1>8. Bubbles(c)
  <2> SUFFICES ASSUME NEW s \in Slot
               PROVE  /\ InvalidAt(c, s) <=> Before(c, s) /\ BufferAt(c, s) = None
                      /\ InvalidAt(c, s) => RequestAt(c, s) = None
    BY DEF Bubbles
  <2>1. /\ InvalidAt(q, s) <=> Before(q, s) /\ BufferAt(q, s) = None
        /\ InvalidAt(q, s) => RequestAt(q, s) = None
    BY DEF Shaped, Bubbles
  <2> QED BY <1>2, <1>6, <1>7, <2>1
<1>9. ASSUME NEW s \in Full(c) \union Asked(c)
      PROVE  /\ s \in Slot /\ Pos(q, s) >= k /\ s \notin X
             /\ s \in Full(c) => s \in Full(q)
             /\ s \in Asked(c) => s \in Asked(q)
  BY <1>1, <1>2, InFull, InAsked
<1>10. SameUse(q, c)
  <2> SUFFICES ASSUME NEW s \in Full(c) \union Asked(c), NEW u \in Full(c) \union Asked(c)
               PROVE  Pos(c, s) <= Pos(c, u) <=> Pos(q, s) <= Pos(q, u)
    BY DEF SameUse
  <2>1. /\ Pos(c, s) = Pos(q, s) - k /\ Pos(c, u) = Pos(q, u) - k
        /\ Pos(q, s) \in Nat /\ Pos(q, u) \in Nat
    BY <1>1, <1>3, <1>9
  <2> QED BY <1>1, <2>1
<1>11. Contiguous(c)
  <2> SUFFICES ASSUME NEW s \in Slot, NEW v \in Asked(c), ~Before(c, s), Pos(c, s) < Pos(c, v)
               PROVE  s \in Asked(c)
    BY DEF Contiguous
  <2>1. v \in Slot /\ Pos(c, v) = Pos(q, v) - k /\ v \in Asked(q) /\ Pos(q, v) \in Nat
        /\ Pos(q, v) < Entries /\ Pos(q, s) \in Nat
    BY <1>1, <1>3, <1>9
  <2>2. Pos(q, s) >= k /\ Pos(c, s) = Pos(q, s) - k
    BY <1>1, <1>3, <2>1
  <2>3. ~Before(q, s) /\ Pos(q, s) < Pos(q, v)
    BY <1>1, <1>6, <2>1, <2>2
  <2>4. s \in Asked(q)
    BY <2>1, <2>3 DEF Shaped, Contiguous
  <2> QED BY <1>2, <1>7, <2>3, <2>4, InAsked
<1>12. ASSUME Fifo(q) PROVE Fifo(c)
  <2> SUFFICES ASSUME NEW s \in Full(c), NEW v \in Asked(c), s \notin Asked(c)
               PROVE  Pos(c, v) < Pos(c, s)
    BY DEF Fifo
  <2>1. s \in Full(q) /\ v \in Asked(q) /\ s \notin Asked(q)
    BY <1>2, <1>9, InAsked
  <2>2. Pos(q, v) < Pos(q, s)
    BY <1>12, <2>1 DEF Fifo
  <2>3. /\ Pos(c, s) = Pos(q, s) - k /\ Pos(c, v) = Pos(q, v) - k
        /\ Pos(q, s) \in Nat /\ Pos(q, v) \in Nat
    BY <1>1, <1>3, <1>9
  <2> QED BY <1>1, <2>2, <2>3
<1> QED BY <1>8, <1>10, <1>11, <1>12 DEF Shaped

\* From q to c the message in b is behind the others.
Pushes(q, c, b) ==
  /\ c.head = q.head /\ Pos(q, c.tail) = Pos(q, q.tail) + 1
  /\ BufferAt(q, q.tail) = None
  /\ \A s \in Slot : /\ BufferAt(c, s) = IF s = q.tail THEN b ELSE BufferAt(q, s)
                     /\ RequestAt(c, s) = RequestAt(q, s)
                     /\ InvalidAt(c, s) <=> InvalidAt(q, s)

\* A message that is sent comes behind the others.
LEMMA PushShape ==
  ASSUME NEW q \in QueueType, NEW c \in QueueType, NEW b, b # None,
         InRing(q), Shaped(q), Pushes(q, c, b)
  PROVE  /\ Shaped(c) /\ SameUse(q, c) /\ (Fifo(q) => Fifo(c))
         /\ Full(c) = Full(q) \union {q.tail} /\ q.tail \notin Full(q)
         /\ \A s \in Full(q) : Pos(c, s) < Pos(c, q.tail)
<1> DEFINE T == Pos(q, q.tail)
<1>1. /\ T \in Nat /\ q.tail \in Slot
      /\ \A s \in Slot : Pos(q, s) \in Nat
      /\ \A s \in Slot : Pos(q, s) = T => s = q.tail
  BY Positions
<1>2. \A s \in Slot : Pos(c, s) = Pos(q, s)
  BY DEF Pushes, Pos
<1>3. \A s \in Slot : Before(q, s) <=> Pos(q, s) < T
  BY DEF Before
<1>4. Pos(c, c.tail) = T + 1
  <2>1. c.tail \in Slot /\ Pos(q, c.tail) = T + 1
    BY Positions DEF Pushes
  <2> QED BY <1>2, <2>1
<1> HIDE DEF T
<1>5. \A s \in Slot : Before(c, s) <=> Before(q, s) \/ s = q.tail
  BY <1>1, <1>2, <1>3, <1>4 DEF Before, T
<1>6. \A s \in Slot : /\ BufferAt(c, s) = IF s = q.tail THEN b ELSE BufferAt(q, s)
                      /\ RequestAt(c, s) = RequestAt(q, s)
                      /\ InvalidAt(c, s) <=> InvalidAt(q, s)
  BY DEF Pushes
<1>7. ~Before(q, q.tail) /\ BufferAt(q, q.tail) = None
  BY <1>1, <1>3 DEF Pushes, T
<1>8. Bubbles(c)
  <2> SUFFICES ASSUME NEW s \in Slot
               PROVE  /\ InvalidAt(c, s) <=> Before(c, s) /\ BufferAt(c, s) = None
                      /\ InvalidAt(c, s) => RequestAt(c, s) = None
    BY DEF Bubbles
  <2>1. /\ InvalidAt(q, s) <=> Before(q, s) /\ BufferAt(q, s) = None
        /\ InvalidAt(q, s) => RequestAt(q, s) = None
    BY DEF Shaped, Bubbles
  <2> QED BY <1>5, <1>6, <1>7, <2>1
<1>9. Asked(c) = Asked(q)
  BY <1>6, InAsked
<1>10. Full(c) = Full(q) \union {q.tail} /\ q.tail \notin Full(q)
  BY <1>1, <1>6, <1>7, InFull
<1>11. Contiguous(c)
  <2> SUFFICES ASSUME NEW s \in Slot, NEW v \in Slot, ~Before(c, s), Pos(c, s) < Pos(c, v),
                      v \in Asked(q)
               PROVE  s \in Asked(q)
    BY <1>9 DEF Contiguous
  <2>1. ~Before(q, s) /\ Pos(q, s) < Pos(q, v)
    BY <1>2, <1>5
  <2> QED BY <2>1 DEF Shaped, Contiguous
<1>12. ASSUME NEW s \in Full(q) PROVE Pos(q, s) < T
  BY <1>3, InFull DEF InRing
<1>13. ASSUME Fifo(q) PROVE Fifo(c)
  <2> SUFFICES ASSUME NEW s \in Full(c), NEW v \in Asked(q), s \notin Asked(q)
               PROVE  Pos(q, v) < Pos(q, s)
    BY <1>2, <1>9, InFull, InAsked DEF Fifo
  <2>1. CASE s \in Full(q)
    BY <1>13, <2>1 DEF Fifo
  <2>2. CASE s = q.tail
    <3>1. v \in Slot /\ Pos(q, v) \in Nat /\ v # q.tail
      BY <1>1, <2>2, InAsked
    <3>2. ~(T < Pos(q, v))
      BY <1>1, <1>7, <2>2, <3>1 DEF Shaped, Contiguous, T
    <3> QED BY <1>1, <2>2, <3>1, <3>2 DEF T
  <2> QED BY <1>10, <2>1, <2>2
<1>14. \A s \in Full(q) : Pos(c, s) < Pos(c, q.tail)
  BY <1>1, <1>2, <1>12, InFull DEF T
<1>15. SameUse(q, c)
  BY <1>2 DEF SameUse
<1> QED BY <1>8, <1>10, <1>11, <1>13, <1>14, <1>15 DEF Shaped

\* When there is nothing for a receive that comes now, it is the last to wait.
LEMMA AskShape ==
  ASSUME NEW q \in QueueType, NEW c \in QueueType, NEW r, r # None,
         Shaped(q), Full(q) \subseteq Asked(q), Asks(q, c, r)
  PROVE  /\ Shaped(c) /\ Fifo(c) /\ SameUse(q, c) /\ Full(c) = Full(q)
         /\ \A u \in Slot : BufferAt(c, u) = BufferAt(q, u)
         /\ \E s \in Slot \ Asked(q) :
              /\ Asked(c) = Asked(q) \union {s}
              /\ RequestAt(c, s) = r
              /\ \A u \in Asked(q) : RequestAt(c, u) = RequestAt(q, u) /\ Pos(c, u) < Pos(c, s)
<1>1. PICK s \in Slot :
        /\ RequestAt(q, s) = None /\ ~InvalidAt(q, s)
        /\ \A u \in Slot :
             /\ BufferAt(c, u) = BufferAt(q, u)
             /\ RequestAt(c, u) = IF u = s THEN r ELSE RequestAt(q, u)
             /\ InvalidAt(c, u) <=> InvalidAt(q, u)
             /\ Pos(q, u) < Pos(q, s) => RequestAt(q, u) # None \/ InvalidAt(q, u)
  BY DEF Asks
<1>2. /\ \A u \in Slot : Pos(c, u) = Pos(q, u)
      /\ \A u \in Slot : Before(c, u) <=> Before(q, u)
  <2>1. c.head = q.head /\ c.tail = q.tail
    BY DEF Asks
  <2> QED BY <2>1 DEF Pos, Before
<1>3. /\ \A u \in Slot : Pos(q, u) \in Nat
      /\ \A u, v \in Slot : Pos(q, u) = Pos(q, v) => u = v
  BY Positions
<1>4. Full(c) = Full(q) /\ Asked(c) = Asked(q) \union {s} /\ s \notin Asked(q)
  BY <1>1, InFull, InAsked
<1>5. ~Before(q, s)
  <2>1. BufferAt(q, s) = None
    BY <1>4, InFull
  <2> QED BY <1>1, <2>1 DEF Shaped, Bubbles
<1>6. ASSUME NEW u \in Asked(q) PROVE Pos(q, u) < Pos(q, s)
  <2>1. u \in Slot /\ u # s
    BY <1>4, InAsked
  <2>2. ~(Pos(q, s) < Pos(q, u))
    BY <1>4, <1>5, <2>1 DEF Shaped, Contiguous
  <2> QED BY <1>3, <2>1, <2>2
<1>7. Bubbles(c)
  <2> SUFFICES ASSUME NEW u \in Slot
               PROVE  /\ InvalidAt(c, u) <=> Before(c, u) /\ BufferAt(c, u) = None
                      /\ InvalidAt(c, u) => RequestAt(c, u) = None
    BY DEF Bubbles
  <2>1. /\ InvalidAt(q, u) <=> Before(q, u) /\ BufferAt(q, u) = None
        /\ InvalidAt(q, u) => RequestAt(q, u) = None
    BY DEF Shaped, Bubbles
  <2> QED BY <1>1, <1>2, <2>1
<1>8. Contiguous(c)
  <2> SUFFICES ASSUME NEW u \in Slot, NEW v \in Asked(c), ~Before(q, u), Pos(q, u) < Pos(q, v)
               PROVE  u \in Asked(c)
    BY <1>2, InAsked DEF Contiguous
  <2>1. CASE v \in Asked(q)
    <3>1. u \in Asked(q)
      BY <2>1, InAsked DEF Shaped, Contiguous
    <3> QED BY <1>4, <3>1
  <2>2. CASE v = s
    <3>1. RequestAt(q, u) # None
      BY <1>1, <2>2 DEF Shaped, Bubbles
    <3> QED BY <1>4, <3>1, InAsked
  <2> QED BY <1>4, <2>1, <2>2
<1>9. Fifo(c)
  BY <1>4 DEF Fifo
<1>10. SameUse(q, c)
  BY <1>2 DEF SameUse
<1>11. \A u \in Asked(q) : RequestAt(c, u) = RequestAt(q, u) /\ Pos(c, u) < Pos(c, s)
  BY <1>1, <1>2, <1>4, <1>6, InAsked
<1> QED BY <1>1, <1>4, <1>7, <1>8, <1>9, <1>10, <1>11 DEF Shaped

\* Without a message for a receive that comes now all messages are reserved.
LEMMA NoneLeft ==
  ASSUME NEW q \in QueueType, InRing(q), ~HasMessage(q)
  PROVE  Full(q) \subseteq Asked(q)
<1> SUFFICES ASSUME NEW s \in Full(q), s \notin Asked(q) PROVE FALSE
  OBVIOUS
<1>1. s \in Slot /\ BufferAt(q, s) # None /\ RequestAt(q, s) = None /\ Before(q, s)
  BY InFull, InAsked DEF InRing
<1>2. Pos(q, s) \in MessageSteps(q)
  BY <1>1, WalkPos DEF MessageSteps, Unreserved, BufferAt, RequestAt
<1>3. q.head # q.tail
  <2>1. Pos(q, s) \in Nat /\ Pos(q, s) < Pos(q, q.tail) /\ q.head \in Nat
    BY <1>1, Positions, Ring DEF Before, QueueType
  <2> QED BY <2>1 DEF Pos
<1> QED BY <1>2, <1>3 DEF HasMessage

\* An entry with a reservation and before the tail has its message.
LEMMA AskedFull ==
  ASSUME NEW q, Shaped(q), NEW s \in Asked(q), Before(q, s)
  PROVE  s \in Full(q)
BY InFull, InAsked DEF Shaped, Bubbles

\* The entry of a receive that waits.
LEMMA AskedSlot ==
  ASSUME NEW q \in QueueType, ReservedOnce(q)
  PROVE  /\ \A r \in Reserved(q) : SlotOf(q, r) \in Asked(q) /\ RequestAt(q, SlotOf(q, r)) = r
         /\ \A s \in Asked(q) : RequestAt(q, s) \in Reserved(q) /\ SlotOf(q, RequestAt(q, s)) = s
<1>1. \A r \in Reserved(q) :
        /\ SlotOf(q, r) \in Slot /\ RequestAt(q, SlotOf(q, r)) = r
        /\ \A u \in Slot : RequestAt(q, u) = r => u = SlotOf(q, r)
  BY TheSlot, Names
<1>2. \A r \in Reserved(q) : r # None
  BY Names DEF Reserved
<1>3. \A s \in Asked(q) : s \in Slot /\ RequestAt(q, s) \in Reserved(q)
  <2> SUFFICES ASSUME NEW s \in Asked(q) PROVE s \in Slot /\ RequestAt(q, s) \in Reserved(q)
    OBVIOUS
  <2>1. s \in Slot /\ RequestAt(q, s) # None
    BY InAsked
  <2>2. q.elements[s] \in EntryType
    BY <2>1 DEF QueueType
  <2> QED BY <2>1, <2>2 DEF Reserved, RequestAt, EntryType
<1> QED BY <1>1, <1>2, <1>3, InAsked

\* What makes a cancel late.
LEMMA LateIs ==
  ASSUME NEW q, NEW r
  PROVE  Late(q, r) <=> BufferAt(q, SlotOf(q, r)) # None /\ ~(Asked(q) \subseteq Full(q))
BY InAsked, InFull DEF Late, BufferAt, RequestAt, Asked, Full

\* A receive that is cancelled leaves the others in order, and if the cancel is
\* not late each message is still for the receive it was for.
LEMMA CancelShape ==
  ASSUME NEW q \in QueueType, NEW c \in QueueType, NEW r \in Reserved(q),
         ReservedOnce(q), InRing(q), Shaped(q), Unasks(q, c, r)
  PROVE  /\ Shaped(c) /\ SameUse(q, c) /\ Full(c) = Full(q)
         /\ \A u \in Slot : BufferAt(c, u) = BufferAt(q, u)
         /\ Fifo(q) /\ ~Late(q, r) => Fifo(c)
<1> DEFINE a == SlotOf(q, r)
<1>1. PICK z \in Asked(q) :
        /\ Asked(c) = Asked(q) \ {z}
        /\ Pos(q, a) <= Pos(q, z)
        /\ \A v \in Asked(q) : Pos(q, z) < Pos(q, v) => Before(q, z) /\ ~Before(q, v)
  BY DEF Unasks
<1>2. /\ \A u \in Slot : Pos(c, u) = Pos(q, u)
      /\ \A u \in Slot : Before(c, u) <=> Before(q, u)
  <2>1. c.head = q.head /\ c.tail = q.tail
    BY DEF Unasks
  <2> QED BY <2>1 DEF Pos, Before
<1>3. \A u \in Slot : BufferAt(c, u) = BufferAt(q, u) /\ (InvalidAt(c, u) <=> InvalidAt(q, u))
  BY DEF Unasks
<1>4. /\ \A u \in Slot : Pos(q, u) \in Nat
      /\ \A u, v \in Slot : Pos(q, u) = Pos(q, v) => u = v
      /\ Pos(q, q.tail) \in Nat
  BY Positions
<1>5. a \in Asked(q) /\ a \in Slot /\ z \in Slot
  BY AskedSlot, InAsked
<1>6. Full(c) = Full(q)
  BY <1>3, InFull
<1> HIDE DEF a
<1>7. Bubbles(c)
  <2> SUFFICES ASSUME NEW u \in Slot
               PROVE  /\ InvalidAt(c, u) <=> Before(c, u) /\ BufferAt(c, u) = None
                      /\ InvalidAt(c, u) => RequestAt(c, u) = None
    BY DEF Bubbles
  <2>1. /\ InvalidAt(q, u) <=> Before(q, u) /\ BufferAt(q, u) = None
        /\ InvalidAt(q, u) => u \notin Asked(q)
    BY InAsked DEF Shaped, Bubbles
  <2>2. u \notin Asked(q) => RequestAt(c, u) = None
    BY <1>1, InAsked
  <2> QED BY <1>2, <1>3, <2>1, <2>2
<1>8. Contiguous(c)
  <2> SUFFICES ASSUME NEW u \in Slot, NEW v \in Asked(c), ~Before(q, u), Pos(q, u) < Pos(q, v)
               PROVE  u \in Asked(c)
    BY <1>2, InAsked DEF Contiguous
  <2>1. u \in Asked(q)
    BY <1>1, InAsked DEF Shaped, Contiguous
  <2>2. u # z
    BY <1>1
  <2> QED BY <1>1, <2>1, <2>2
<1>9. ASSUME Fifo(q), ~Late(q, r) PROVE Fifo(c)
  <2> SUFFICES ASSUME NEW s \in Full(q), NEW v \in Asked(c), s \notin Asked(c)
               PROVE  Pos(q, v) < Pos(q, s)
    BY <1>2, <1>6, InFull, InAsked DEF Fifo
  <2>0. v \in Asked(q) /\ v # z /\ v \in Slot /\ s \in Slot
    BY <1>1, InFull, InAsked
  <2>1. CASE s \notin Asked(q)
    BY <1>9, <2>0, <2>1 DEF Fifo
  <2>2. CASE s \in Asked(q)
    <3>1. s = z
      BY <1>1, <2>2
    <3>2. Before(q, z)
      BY <3>1, InFull DEF InRing
    <3>3. Before(q, a)
      BY <1>1, <1>4, <1>5, <3>2 DEF Before
    <3>4. BufferAt(q, a) # None
      BY <1>5, <3>3, AskedFull, InFull
    <3>5. v \in Full(q)
      BY <1>9, <2>0, <3>4, LateIs DEF a
    <3>6. Before(q, v)
      BY <3>5 DEF InRing
    <3>7. ~(Pos(q, z) < Pos(q, v))
      BY <1>1, <2>0, <3>6
    <3> QED BY <1>4, <1>5, <2>0, <3>1, <3>7
  <2> QED BY <2>1, <2>2
<1>10. SameUse(q, c)
  BY <1>2 DEF SameUse
<1> QED BY <1>3, <1>6, <1>7, <1>8, <1>9, <1>10 DEF Shaped

-----------------------------------------------------------------------------
(* The lists of a queue.                                                   *)

\* The entries are in order, and so are the receives that wait.
LEMMA SlotOrders ==
  ASSUME NEW q \in QueueType
  PROVE  /\ \A s \in Slot : SlotPos(q)[s] = Pos(q, s)
         /\ \A S \in SUBSET Slot : Orders(S, SlotPos(q))
         /\ Orders(Full(q), SlotPos(q)) /\ Orders(Asked(q), SlotPos(q))
<1>1. \A s \in Slot : SlotPos(q)[s] = Pos(q, s)
  BY DEF SlotPos
<1>2. ASSUME NEW S \in SUBSET Slot PROVE Orders(S, SlotPos(q))
  <2>1. IsFiniteSet(S)
    BY Finite, FS_Subset
  <2>2. \A s \in S : SlotPos(q)[s] \in Nat
    BY <1>1, Positions
  <2>3. \A s, u \in S : SlotPos(q)[s] = SlotPos(q)[u] => s = u
    BY <1>1, Positions
  <2> QED BY <2>1, <2>2, <2>3 DEF Orders
<1>3. Full(q) \in SUBSET Slot /\ Asked(q) \in SUBSET Slot
  BY InFull, InAsked
<1> QED BY <1>1, <1>2, <1>3

\* The receives that wait are in the order of their entries.
LEMMA RequestOrders ==
  ASSUME NEW q \in QueueType, ReservedOnce(q)
  PROVE  /\ \A r \in Reserved(q) : RequestPos(q)[r] = Pos(q, SlotOf(q, r))
         /\ Orders(Reserved(q), RequestPos(q))
         /\ Cardinality(Reserved(q)) = Cardinality(Asked(q))
         /\ \A r \in Reserved(q) :
              Rank(Reserved(q), RequestPos(q), r) = Rank(Asked(q), SlotPos(q), SlotOf(q, r))
<1> DEFINE S == Reserved(q)
           T == Asked(q)
           h == [r \in S |-> SlotOf(q, r)]
           p == RequestPos(q)
           o == SlotPos(q)
<1>1. \A r \in S : p[r] = Pos(q, SlotOf(q, r))
  BY DEF RequestPos
<1>2. /\ \A r \in S : SlotOf(q, r) \in T /\ RequestAt(q, SlotOf(q, r)) = r
      /\ \A s \in T : RequestAt(q, s) \in S /\ SlotOf(q, RequestAt(q, s)) = s
  BY AskedSlot
<1>3. \A s \in T : s \in Slot
  BY InAsked
<1>4. Orders(S, p)
  <2>1. S \in SUBSET Request
    BY DEF Reserved
  <2>2. IsFiniteSet(S)
    BY <2>1, Names, FS_Subset
  <2>3. \A r \in S : p[r] \in Nat
    BY <1>1, <1>2, <1>3, Positions
  <2>4. \A x, y \in S : p[x] = p[y] => x = y
    <3> SUFFICES ASSUME NEW x \in S, NEW y \in S, p[x] = p[y] PROVE x = y
      OBVIOUS
    <3>1. SlotOf(q, x) = SlotOf(q, y)
      BY <1>1, <1>2, <1>3, Positions
    <3> QED BY <1>2, <3>1
  <2> QED BY <2>2, <2>3, <2>4 DEF Orders
<1>5. Orders(T, o) /\ \A s \in T : o[s] = Pos(q, s)
  BY <1>3, SlotOrders
<1>6. /\ \A r \in S : h[r] = SlotOf(q, r)
      /\ h \in [S -> T]
  BY <1>2
<1> HIDE DEF h, S, T, p, o
<1>7. \A r \in S : p[r] = o[h[r]]
  BY <1>1, <1>2, <1>5, <1>6
<1>8. \A x, y \in S : h[x] = h[y] => x = y
  BY <1>2, <1>6
<1>9. \A y \in T : \E x \in S : h[x] = y
  BY <1>2, <1>6
<1>10. /\ Cardinality(T) = Cardinality(S)
       /\ \A x \in S : Rank(S, p, x) = Rank(T, o, h[x])
  BY <1>4, <1>5, <1>6, <1>7, <1>8, <1>9, RankImage
<1> QED BY <1>1, <1>4, <1>6, <1>10 DEF S, T, p, o

\* The messages of a queue, when m is what the buffers hold.
Text(q, m) == Mapped(Sorted(Full(q), SlotPos(q)), [s \in Slot |-> m[BufferAt(q, s)]])

\* The messages of a queue, before a step.
LEMMA MessagesText ==
  ASSUME NEW q \in QueueType
  PROVE  Messages(q) = Text(q, buffers)
<1> DEFINE z == Sorted(Full(q), SlotPos(q))
           h == [s \in Slot |-> buffers[BufferAt(q, s)]]
<1>1. z \in Seq(Full(q))
  BY SlotOrders, SortedIs
<1> HIDE DEF z
<1>2. \A i \in DOMAIN z : z[i] \in Slot
  BY <1>1, InFull
<1>3. \A i \in DOMAIN z : h[z[i]] = buffers[q.elements[z[i]].buffer]
  BY <1>2 DEF BufferAt
<1>4. Messages(q) = [i \in DOMAIN z |-> buffers[q.elements[z[i]].buffer]]
  BY DEF Messages, z
<1> HIDE DEF h
<1> QED BY <1>3, <1>4 DEF Text, Mapped, z, h

\* There is a message for each full entry, at the place of the entry.
LEMMA TextIs ==
  ASSUME NEW q \in QueueType, NEW m
  PROVE  /\ \E V : Text(q, m) \in Seq(V)
         /\ Len(Text(q, m)) = Cardinality(Full(q)) /\ Cardinality(Full(q)) \in Nat
         /\ \A s \in Full(q) :
              /\ Rank(Full(q), SlotPos(q), s) \in 1..Cardinality(Full(q))
              /\ Text(q, m)[Rank(Full(q), SlotPos(q), s)] = m[BufferAt(q, s)]
<1> DEFINE S == Full(q)
           p == SlotPos(q)
           z == Sorted(S, p)
           h == [s \in Slot |-> m[BufferAt(q, s)]]
<1>1. Orders(S, p)
  BY SlotOrders
<1>2. \A s \in S : h[s] = m[BufferAt(q, s)]
  BY InFull
<1> HIDE DEF S, p, h
<1>3. /\ z \in Seq(S) /\ Len(z) = Cardinality(S) /\ Cardinality(S) \in Nat
      /\ \A s \in S : Rank(S, p, s) \in 1..Cardinality(S) /\ z[Rank(S, p, s)] = s
  BY <1>1, RankIs, SortedIs
<1> HIDE DEF z
<1>4. /\ \E V : Mapped(z, h) \in Seq(V)
      /\ Len(Mapped(z, h)) = Len(z)
      /\ \A i \in 1..Len(z) : Mapped(z, h)[i] = h[z[i]]
  BY <1>3, MapIs
<1>5. \A s \in S : Mapped(z, h)[Rank(S, p, s)] = m[BufferAt(q, s)]
  BY <1>2, <1>3, <1>4
<1>6. Text(q, m) = Mapped(z, h)
  BY DEF Text, S, p, z, h
<1> QED BY <1>3, <1>4, <1>5, <1>6 DEF S, p

\* The entries in use are in the same order.
LEMMA UseOrder ==
  ASSUME NEW q \in QueueType, NEW c \in QueueType, SameUse(q, c),
         NEW S \in SUBSET (Full(c) \union Asked(c))
  PROVE  SameOrder(S, SlotPos(q), SlotPos(c))
<1>1. \A s \in S : s \in Slot /\ s \in Full(c) \union Asked(c)
  BY InFull, InAsked
<1>2. \A s \in S : SlotPos(q)[s] = Pos(q, s) /\ SlotPos(c)[s] = Pos(c, s)
  BY <1>1, SlotOrders
<1> QED BY <1>1, <1>2 DEF SameOrder, SameUse

\* What h and j map to is the same where a list has its elements.
LEMMA TextKeep ==
  ASSUME NEW q \in QueueType, NEW c \in QueueType, NEW m, NEW n,
         Full(c) = Full(q), SameUse(q, c),
         \A s \in Full(c) : n[BufferAt(c, s)] = m[BufferAt(q, s)]
  PROVE  Text(c, n) = Text(q, m)
<1> DEFINE S == Full(c)
           h == [s \in Slot |-> n[BufferAt(c, s)]]
           j == [s \in Slot |-> m[BufferAt(q, s)]]
           o == SlotPos(q)
           p == SlotPos(c)
<1>1. Orders(S, o) /\ Orders(S, p) /\ SameOrder(S, o, p)
  <2>1. S \in SUBSET (Full(c) \union Asked(c))
    OBVIOUS
  <2> QED BY <2>1, SlotOrders, UseOrder
<1>2. \A s \in S : h[s] = j[s]
  BY InFull
<1>3. Text(c, n) = Mapped(Sorted(S, p), h) /\ Text(q, m) = Mapped(Sorted(S, o), j)
  BY DEF Text
<1> HIDE DEF S, h, j, o, p
<1>4. Sorted(S, p) = Sorted(S, o) /\ Sorted(S, o) \in Seq(S)
  BY <1>1, SortedSame, SortedIs
<1>5. Mapped(Sorted(S, o), h) = Mapped(Sorted(S, o), j)
  BY <1>2, <1>4, MapSame
<1> QED BY <1>3, <1>4, <1>5

\* One message less.
LEMMA TextTake ==
  ASSUME NEW q \in QueueType, NEW c \in QueueType, NEW m, NEW n, NEW x \in Full(q),
         Full(c) = Full(q) \ {x}, SameUse(q, c),
         \A s \in Full(c) : n[BufferAt(c, s)] = m[BufferAt(q, s)]
  PROVE  Text(c, n) = RemoveAt(Text(q, m), Rank(Full(q), SlotPos(q), x))
<1> DEFINE S == Full(q)
           h == [s \in Slot |-> n[BufferAt(c, s)]]
           j == [s \in Slot |-> m[BufferAt(q, s)]]
           o == SlotPos(q)
           p == SlotPos(c)
           z == Sorted(S, o)
           k == Rank(S, o, x)
           y == RemoveAt(z, k)
<1>1. Orders(S, o) /\ Orders(S \ {x}, p) /\ SameOrder(S \ {x}, o, p)
  <2>1. S \ {x} \in SUBSET (Full(c) \union Asked(c))
    OBVIOUS
  <2>2. SameOrder(S \ {x}, o, p)
    BY <2>1, UseOrder
  <2>3. Orders(Full(c), SlotPos(c))
    BY SlotOrders
  <2> QED BY <2>2, <2>3, SlotOrders
<1>2. \A s \in S \ {x} : h[s] = j[s]
  BY InFull
<1>3. Text(c, n) = Mapped(Sorted(S \ {x}, p), h) /\ Text(q, m) = Mapped(Sorted(S, o), j)
  BY DEF Text
<1> HIDE DEF S, h, j, o, p
<1>4. z \in Seq(S) /\ k \in 1..Len(z)
  BY <1>1, RankIs, SortedIs DEF S
<1>5. Sorted(S \ {x}, p) = y
  BY <1>1, SortedRemove DEF S
<1>6. y \in Seq(S \ {x})
  <2>1. Orders(S \ {x}, p)
    BY <1>1
  <2>2. Sorted(S \ {x}, p) \in Seq(S \ {x})
    BY <2>1, SortedIs
  <2> QED BY <1>5, <2>2
<1>7. Mapped(y, h) = Mapped(y, j)
  <2> HIDE DEF y
  <2> DEFINE U == S \ {x}
  <2>1. y \in Seq(U) /\ \A s \in U : h[s] = j[s]
    BY <1>2, <1>6
  <2> HIDE DEF U
  <2> QED BY <2>1, MapSame
<1> HIDE DEF z, k
<1>8. Mapped(y, j) = RemoveAt(Mapped(z, j), k)
  BY <1>4, MapRemove
<1> QED BY <1>3, <1>5, <1>7, <1>8 DEF z, k, S, o

\* From q to c a message comes into the entry x, behind the others, which stay.
Adds(q, c, x) ==
  /\ x \notin Full(q) /\ Full(c) = Full(q) \union {x}
  /\ \A s \in Full(q) : Pos(c, s) < Pos(c, x)
Stays(q, c, m, n) == \A s \in Full(q) : n[BufferAt(c, s)] = m[BufferAt(q, s)]
Puts(q, c, m, n, x) == Text(c, n) = Append(Text(q, m), n[BufferAt(c, x)])

\* One message more, behind the others.
LEMMA TextPut ==
  ASSUME NEW q \in QueueType, NEW c \in QueueType, NEW m, NEW n, NEW x \in Slot,
         SameUse(q, c), Adds(q, c, x), Stays(q, c, m, n)
  PROVE  Puts(q, c, m, n, x)
<1>0. /\ x \notin Full(q) /\ Full(c) = Full(q) \union {x}
      /\ \A s \in Full(q) : Pos(c, s) < Pos(c, x)
      /\ \A s \in Full(q) : n[BufferAt(c, s)] = m[BufferAt(q, s)]
  BY DEF Adds, Stays
<1> DEFINE S == Full(q)
           h == [s \in Slot |-> n[BufferAt(c, s)]]
           j == [s \in Slot |-> m[BufferAt(q, s)]]
           o == SlotPos(q)
           p == SlotPos(c)
           z == Sorted(S, o)
<1>1. Orders(S, o) /\ Orders(S \union {x}, p) /\ SameOrder(S, o, p) /\ \A s \in S : p[s] < p[x]
  <2>1. S \in SUBSET (Full(c) \union Asked(c))
    BY <1>0
  <2>2. SameOrder(S, o, p)
    BY <2>1, UseOrder
  <2>3. Orders(Full(c), SlotPos(c)) /\ \A s \in Slot : p[s] = Pos(c, s)
    BY SlotOrders
  <2>4. \A s \in S : p[s] < p[x]
    BY <1>0, <2>3, InFull
  <2> QED BY <1>0, <2>2, <2>3, <2>4, SlotOrders
<1>2. /\ \A s \in S : h[s] = j[s]
      /\ h[x] = n[BufferAt(c, x)]
  BY <1>0, InFull
<1>3. Text(c, n) = Mapped(Sorted(S \union {x}, p), h) /\ Text(q, m) = Mapped(Sorted(S, o), j)
  BY <1>0 DEF Text
<1>a. x \notin S
  BY <1>0
<1> HIDE DEF S, h, j, o, p
<1>4. z \in Seq(S)
  BY <1>1, SortedIs
<1>5. Sorted(S \union {x}, p) = Append(z, x)
  BY <1>1, <1>a, SortedAppend
<1> HIDE DEF z
<1>6. Mapped(Append(z, x), h) = Append(Mapped(z, h), h[x])
  BY <1>4, MapAppend
<1>7. Mapped(z, h) = Mapped(z, j)
  BY <1>2, <1>4, MapSame
<1> QED BY <1>2, <1>3, <1>5, <1>6, <1>7 DEF z, Puts

\* The receives that wait: the same, one less, one more behind the others.
LEMMA ReceivesIs ==
  ASSUME NEW q \in QueueType, ReservedOnce(q)
  PROVE  /\ Receives(q) \in Seq(Reserved(q))
         /\ Len(Receives(q)) = Cardinality(Asked(q)) /\ Cardinality(Asked(q)) \in Nat
         /\ \A r \in Reserved(q) :
              Rank(Asked(q), SlotPos(q), SlotOf(q, r)) \in 1..Cardinality(Asked(q))
<1> DEFINE S == Reserved(q)
           p == RequestPos(q)
<1>1. /\ Orders(S, p) /\ Cardinality(S) = Cardinality(Asked(q))
      /\ \A r \in S : Rank(S, p, r) = Rank(Asked(q), SlotPos(q), SlotOf(q, r))
  BY RequestOrders
<1> HIDE DEF S, p
<1>2. /\ Sorted(S, p) \in Seq(S) /\ Len(Sorted(S, p)) = Cardinality(S) /\ Cardinality(S) \in Nat
      /\ \A r \in S : Rank(S, p, r) \in 1..Cardinality(S)
  BY <1>1, RankIs, SortedIs
<1> QED BY <1>1, <1>2 DEF Receives, S, p

\* The receives of c wait in the order they have in q.
SameWait(q, c) ==
  \A x, y \in Reserved(c) :
    Pos(c, SlotOf(c, x)) <= Pos(c, SlotOf(c, y)) <=> Pos(q, SlotOf(q, x)) <= Pos(q, SlotOf(q, y))

\* Receives that wait in the same order have their positions in the same order.
LEMMA WaitOrder ==
  ASSUME NEW q \in QueueType, NEW c \in QueueType, ReservedOnce(q), ReservedOnce(c),
         SameWait(q, c), NEW S \in SUBSET Reserved(q), S \subseteq Reserved(c)
  PROVE  SameOrder(S, RequestPos(q), RequestPos(c))
<1>1. \A r \in S : /\ RequestPos(q)[r] = Pos(q, SlotOf(q, r))
                   /\ RequestPos(c)[r] = Pos(c, SlotOf(c, r))
  BY RequestOrders
<1> QED BY <1>1 DEF SameOrder, SameWait

\* Where the reservations stay they are in the same order.
LEMMA WaitStays ==
  ASSUME NEW q \in QueueType, NEW c \in QueueType, ReservedOnce(q), ReservedOnce(c), SameUse(q, c),
         \A s \in Asked(c) \intersect Asked(q) : RequestAt(c, s) = RequestAt(q, s),
         \A r \in Reserved(q) \intersect Reserved(c) : SlotOf(q, r) \in Asked(c)
  PROVE  /\ \A r \in Reserved(q) \intersect Reserved(c) : SlotOf(c, r) = SlotOf(q, r)
         /\ SameOrder(Reserved(q) \intersect Reserved(c), RequestPos(q), RequestPos(c))
<1>1. ASSUME NEW r \in Reserved(q), r \in Reserved(c)
      PROVE  SlotOf(c, r) = SlotOf(q, r) /\ SlotOf(c, r) \in Asked(c) /\ SlotOf(c, r) \in Slot
  <2>1. SlotOf(q, r) \in Asked(q) /\ RequestAt(q, SlotOf(q, r)) = r /\ SlotOf(q, r) \in Asked(c)
    BY <1>1, AskedSlot
  <2>2. RequestAt(c, SlotOf(q, r)) = r
    BY <2>1
  <2> QED BY <2>1, <2>2, AskedSlot, InAsked
<1>2. ASSUME NEW x \in Reserved(q), x \in Reserved(c), NEW y \in Reserved(q), y \in Reserved(c)
      PROVE  Pos(c, SlotOf(c, x)) <= Pos(c, SlotOf(c, y)) <=> Pos(q, SlotOf(q, x)) <= Pos(q, SlotOf(q, y))
  BY <1>1, <1>2 DEF SameUse
<1>3. \A r \in Reserved(q) \intersect Reserved(c) :
        /\ RequestPos(q)[r] = Pos(q, SlotOf(q, r))
        /\ RequestPos(c)[r] = Pos(c, SlotOf(c, r))
  BY RequestOrders
<1>4. SameOrder(Reserved(q) \intersect Reserved(c), RequestPos(q), RequestPos(c))
  BY <1>2, <1>3 DEF SameOrder
<1> QED BY <1>1, <1>4

\* The same receives wait.
LEMMA ReceivesKeep ==
  ASSUME NEW q \in QueueType, NEW c \in QueueType, ReservedOnce(q), ReservedOnce(c),
         Reserved(c) = Reserved(q), SameOrder(Reserved(q), RequestPos(q), RequestPos(c))
  PROVE  Receives(c) = Receives(q)
<1> DEFINE S == Reserved(q)
           o == RequestPos(q)
           p == RequestPos(c)
<1>1. Orders(S, o) /\ Orders(S, p) /\ SameOrder(S, o, p)
  BY RequestOrders
<1> HIDE DEF S, o, p
<1>2. Sorted(S, p) = Sorted(S, o)
  BY <1>1, SortedSame
<1> QED BY <1>2 DEF Receives, S, o, p

\* One receive less waits.
LEMMA ReceivesDrop ==
  ASSUME NEW q \in QueueType, NEW c \in QueueType, ReservedOnce(q), ReservedOnce(c),
         NEW r \in Reserved(q), Reserved(c) = Reserved(q) \ {r},
         SameOrder(Reserved(c), RequestPos(q), RequestPos(c))
  PROVE  Receives(c) = RemoveAt(Receives(q), Rank(Asked(q), SlotPos(q), SlotOf(q, r)))
<1> DEFINE S == Reserved(q)
           o == RequestPos(q)
           p == RequestPos(c)
<1>1. /\ Orders(S, o) /\ Orders(S \ {r}, p) /\ SameOrder(S \ {r}, o, p)
      /\ Rank(S, o, r) = Rank(Asked(q), SlotPos(q), SlotOf(q, r))
  BY RequestOrders
<1>2. r \in S
  OBVIOUS
<1>3. Receives(c) = Sorted(S \ {r}, p) /\ Receives(q) = Sorted(S, o)
  BY DEF Receives
<1> HIDE DEF S, o, p
<1>4. Sorted(S \ {r}, p) = RemoveAt(Sorted(S, o), Rank(S, o, r))
  BY <1>1, <1>2, SortedRemove
<1> QED BY <1>1, <1>3, <1>4

\* One receive more waits, behind the others.
LEMMA ReceivesAdd ==
  ASSUME NEW q \in QueueType, NEW c \in QueueType, ReservedOnce(q), ReservedOnce(c),
         NEW r, r \notin Reserved(q), Reserved(c) = Reserved(q) \union {r},
         SameOrder(Reserved(q), RequestPos(q), RequestPos(c)),
         \A x \in Reserved(q) : Pos(c, SlotOf(c, x)) < Pos(c, SlotOf(c, r))
  PROVE  Receives(c) = Append(Receives(q), r)
<1> DEFINE S == Reserved(q)
           o == RequestPos(q)
           p == RequestPos(c)
<1>1. /\ Orders(S, o) /\ Orders(S \union {r}, p) /\ SameOrder(S, o, p)
      /\ \A x \in S : p[x] < p[r]
  BY RequestOrders
<1>2. r \notin S
  OBVIOUS
<1>3. Receives(c) = Sorted(S \union {r}, p) /\ Receives(q) = Sorted(S, o)
  BY DEF Receives
<1> HIDE DEF S, o, p
<1>4. Sorted(S \union {r}, p) = Append(Sorted(S, o), r)
  BY <1>1, <1>2, SortedAppend
<1> QED BY <1>3, <1>4

-----------------------------------------------------------------------------
(* The places of the messages and of the receives.                         *)

\* In an ordered queue a receive that comes now gets the message behind those
\* of the receives that wait.
LEMMA GetRank ==
  ASSUME NEW q \in QueueType, InRing(q), Shaped(q), Fifo(q), NEW x \in Full(q), x \notin Asked(q),
         \A u \in Full(q) : u \notin Asked(q) => Pos(q, x) <= Pos(q, u)
  PROVE  Rank(Full(q), SlotPos(q), x) = Cardinality(Asked(q)) + 1
<1> DEFINE A == {y \in Full(q) : SlotPos(q)[y] <= SlotPos(q)[x]}
<1>1. \A s \in Slot : SlotPos(q)[s] = Pos(q, s) /\ Pos(q, s) \in Nat
  BY SlotOrders, Positions
<1>2. x \in Slot /\ Full(q) \subseteq Slot /\ Asked(q) \subseteq Slot
  BY InFull, InAsked
<1>3. ASSUME NEW y \in A PROVE y \in Asked(q) \union {x}
  <2>1. y \in Full(q) /\ Pos(q, y) <= Pos(q, x) /\ y \in Slot
    BY <1>1, <1>2
  <2>2. CASE y \notin Asked(q)
    <3>1. Pos(q, y) = Pos(q, x)
      BY <1>1, <1>2, <2>1, <2>2
    <3> QED BY <1>2, <2>1, <3>1, Positions
  <2> QED BY <2>2
<1>4. ASSUME NEW y \in Asked(q) PROVE y \in A
  <2>1. Pos(q, y) < Pos(q, x) /\ y \in Slot
    BY <1>2 DEF Fifo
  <2>2. Pos(q, x) < Pos(q, q.tail) /\ Pos(q, q.tail) \in Nat
    BY Positions DEF InRing, Before
  <2>3. Before(q, y)
    BY <1>1, <1>2, <2>1, <2>2 DEF Before
  <2>4. y \in Full(q)
    BY <2>3, AskedFull
  <2> QED BY <1>1, <1>2, <2>1, <2>4
<1>5. x \in A
  BY <1>1, <1>2
<1>6. Asked(q) \union {x} = A
  BY <1>3, <1>4, <1>5
<1>7. IsFiniteSet(Asked(q))
  BY SlotOrders DEF Orders
<1>8. Cardinality(A) = Cardinality(Asked(q)) + 1
  BY <1>6, <1>7, FS_AddElement
<1> QED BY <1>8 DEF Rank

\* A receive that waits is as far in the list as its message.
LEMMA TakeRank ==
  ASSUME NEW q \in QueueType, InRing(q), Shaped(q), Fifo(q), NEW x \in Full(q), x \in Asked(q)
  PROVE  Rank(Full(q), SlotPos(q), x) = Rank(Asked(q), SlotPos(q), x)
<1>1. \A s \in Slot : SlotPos(q)[s] = Pos(q, s) /\ Pos(q, s) \in Nat
  BY SlotOrders, Positions
<1>2. x \in Slot /\ Full(q) \subseteq Slot /\ Asked(q) \subseteq Slot
  BY InFull, InAsked
<1>3. ASSUME NEW y \in Full(q), Pos(q, y) <= Pos(q, x) PROVE y \in Asked(q)
  <2>1. ~(Pos(q, x) < Pos(q, y))
    BY <1>1, <1>2, <1>3
  <2> QED BY <2>1 DEF Fifo
<1>4. ASSUME NEW y \in Asked(q), Pos(q, y) <= Pos(q, x) PROVE y \in Full(q)
  <2>1. Pos(q, x) < Pos(q, q.tail) /\ Pos(q, q.tail) \in Nat
    BY Positions DEF InRing, Before
  <2>2. Before(q, y)
    BY <1>1, <1>2, <1>4, <2>1 DEF Before
  <2> QED BY <2>2, AskedFull
<1>5. {y \in Full(q) : SlotPos(q)[y] <= SlotPos(q)[x]} = {y \in Asked(q) : SlotPos(q)[y] <= SlotPos(q)[x]}
  BY <1>1, <1>2, <1>3, <1>4
<1> QED BY <1>5 DEF Rank

\* When no message is left every one has a receive that waits for it.
LEMMA AskCount ==
  ASSUME NEW q \in QueueType, Full(q) \subseteq Asked(q)
  PROVE  /\ Cardinality(Full(q)) <= Cardinality(Asked(q))
         /\ Cardinality(Full(q)) < Cardinality(Asked(q)) <=> ~(Asked(q) \subseteq Full(q))
<1>1. IsFiniteSet(Asked(q)) /\ IsFiniteSet(Full(q))
  BY SlotOrders DEF Orders
<1>2. Cardinality(Asked(q)) \in Nat /\ Cardinality(Full(q)) \in Nat
  BY <1>1, FS_CardinalityType
<1>3. /\ Cardinality(Full(q)) <= Cardinality(Asked(q))
      /\ Cardinality(Asked(q)) = Cardinality(Full(q)) => Asked(q) = Full(q)
  BY <1>1, FS_Subset
<1> QED BY <1>2, <1>3

\* In an ordered queue a cancel is late when the lists say so.
LEMMA LateRank ==
  ASSUME NEW q \in QueueType, InRing(q), Shaped(q), Fifo(q), NEW a \in Asked(q)
  PROVE  a \in Full(q) /\ ~(Asked(q) \subseteq Full(q)) <=>
           /\ Rank(Asked(q), SlotPos(q), a) <= Cardinality(Full(q))
           /\ Cardinality(Full(q)) < Cardinality(Asked(q))
<1>1. \A s \in Slot : SlotPos(q)[s] = Pos(q, s) /\ Pos(q, s) \in Nat
  BY SlotOrders, Positions
<1>2. a \in Slot /\ Full(q) \subseteq Slot /\ Asked(q) \subseteq Slot
  BY InFull, InAsked
<1>3. IsFiniteSet(Asked(q)) /\ IsFiniteSet(Full(q))
      /\ Cardinality(Asked(q)) \in Nat /\ Cardinality(Full(q)) \in Nat
  BY SlotOrders, FS_CardinalityType DEF Orders
<1>4. \A s \in Full(q) : Pos(q, s) < Pos(q, q.tail) /\ Pos(q, q.tail) \in Nat
  BY Positions DEF InRing, Before
<1>5. CASE ~(Full(q) \subseteq Asked(q))
  <2>1. PICK u \in Full(q) : u \notin Asked(q)
    BY <1>5
  <2>2. ASSUME NEW v \in Asked(q) PROVE v \in Full(q)
    <3>1. Pos(q, v) < Pos(q, u)
      BY <2>1 DEF Fifo
    <3>2. Before(q, v)
      BY <1>1, <1>2, <1>4, <3>1 DEF Before
    <3> QED BY <3>2, AskedFull
  <2>3. Asked(q) \in SUBSET Full(q)
    BY <2>2
  <2>4. Cardinality(Asked(q)) <= Cardinality(Full(q))
    BY <1>3, <2>3, FS_Subset
  <2> QED BY <1>3, <2>3, <2>4
<1>6. CASE Full(q) \subseteq Asked(q)
  <2>1. Cardinality(Full(q)) < Cardinality(Asked(q)) <=> ~(Asked(q) \subseteq Full(q))
    BY <1>6, AskCount
  <2>2. CASE a \in Full(q)
    <3>1. Rank(Full(q), SlotPos(q), a) \in 1..Cardinality(Full(q))
      BY <2>2, SlotOrders, RankIs
    <3>2. Rank(Asked(q), SlotPos(q), a) <= Cardinality(Full(q))
      BY <1>3, <2>2, <3>1, TakeRank
    <3> QED BY <2>1, <2>2, <3>2
  <2>3. CASE a \notin Full(q)
    <3> DEFINE A == {y \in Asked(q) : SlotPos(q)[y] <= SlotPos(q)[a]}
    <3>1. ~Before(q, a)
      BY <2>3, AskedFull
    <3>2. \A s \in Full(q) : Pos(q, s) <= Pos(q, a)
      BY <1>1, <1>2, <1>4, <3>1 DEF Before
    <3>3. Full(q) \union {a} \in SUBSET A /\ A \in SUBSET Asked(q)
      BY <1>1, <1>2, <1>6, <3>2
    <3> HIDE DEF A
    <3>4. IsFiniteSet(A) /\ Cardinality(Full(q) \union {a}) = Cardinality(Full(q)) + 1
      BY <1>3, <2>3, <3>3, FS_Subset, FS_AddElement
    <3>5. Cardinality(Full(q)) + 1 <= Cardinality(A) /\ Cardinality(A) \in Nat
      BY <3>3, <3>4, FS_Subset, FS_CardinalityType
    <3>6. ~(Rank(Asked(q), SlotPos(q), a) <= Cardinality(Full(q)))
      BY <1>3, <3>5 DEF Rank, A
    <3> QED BY <2>3, <3>6
  <2> QED BY <2>2, <2>3
<1> QED BY <1>5, <1>6

-----------------------------------------------------------------------------
(* The lists of the endpoints.                                             *)

\* The order of the queues, as long as no cancel came late.
OrderInv ==
  \A e \in Endpoint : Shaped(queue[e]) /\ (ordered[e] => Fifo(queue[e]))

AllMessages == [e \in Endpoint |-> Messages(queue[e])]
AllReceives == [e \in Endpoint |-> Receives(queue[e])]

\* The messages of an endpoint after a step.
LEMMA MessagesNext ==
  ASSUME QueuesInv', NEW e \in Endpoint
  PROVE  Messages(queue[e])' = Text(queue'[e], buffers')
<1> DEFINE q == queue'[e]
           n == buffers'
           z == Sorted(Full(q), SlotPos(q))
           h == [s \in Slot |-> n[BufferAt(q, s)]]
<1>0. q \in QueueType
  BY DEF QueuesInv
<1>1. z \in Seq(Full(q))
  BY <1>0, SlotOrders, SortedIs
<1>2. Messages(queue[e])' = [i \in DOMAIN z |-> n[q.elements[z[i]].buffer]]
  BY DEF Messages
<1> HIDE DEF z, q, n
<1>3. \A i \in DOMAIN z : z[i] \in Slot
  BY <1>1, InFull
<1>4. \A i \in DOMAIN z : h[z[i]] = n[q.elements[z[i]].buffer]
  BY <1>3 DEF BufferAt
<1>5. Text(q, n) = Mapped(z, h)
  BY DEF Text, z
<1> HIDE DEF h
<1>6. Messages(queue[e])' = Text(q, n)
  BY <1>2, <1>4, <1>5 DEF Mapped
<1> QED BY <1>6 DEF q, n

\* The messages of every endpoint, before a step and after it.
LEMMA AllText ==
  ASSUME QueuesInv
  PROVE  AllMessages = [e \in Endpoint |-> Text(queue[e], buffers)]
<1>1. \A e \in Endpoint : Messages(queue[e]) = Text(queue[e], buffers)
  BY MessagesText DEF QueuesInv
<1> QED BY <1>1 DEF AllMessages

\* After a step the messages are those of the next queues and buffers.
LEMMA AllTextNext ==
  ASSUME QueuesInv'
  PROVE  AllMessages' = [e \in Endpoint |-> Text(queue'[e], buffers')]
<1>1. \A e \in Endpoint : Messages(queue[e])' = Text(queue'[e], buffers')
  BY MessagesNext
<1> QED BY <1>1 DEF AllMessages

\* A step of one queue that leaves the messages of the others where they are.
Only(e) ==
  \A d \in Endpoint : d # e =>
    /\ queue'[d] = queue[d]
    /\ \A s \in Full(queue[d]) : buffers'[BufferAt(queue[d], s)] = buffers[BufferAt(queue[d], s)]

\* A step of one queue changes the messages of that endpoint,
LEMMA OneText ==
  ASSUME QueuesInv, QueuesInv', NEW e \in Endpoint, Only(e)
  PROVE  AllMessages' = [AllMessages EXCEPT ![e] = Text(queue'[e], buffers')]
<1>1. ASSUME NEW d \in Endpoint, d # e
      PROVE  Text(queue'[d], buffers') = Text(queue[d], buffers)
  <2>1. queue[d] \in QueueType /\ queue'[d] = queue[d]
    BY <1>1 DEF QueuesInv, Only
  <2>2. SameUse(queue[d], queue[d])
    BY DEF SameUse
  <2>3. \A s \in Full(queue[d]) : buffers'[BufferAt(queue[d], s)] = buffers[BufferAt(queue[d], s)]
    BY <1>1 DEF Only
  <2>4. Text(queue[d], buffers') = Text(queue[d], buffers)
    BY <2>1, <2>2, <2>3, TextKeep
  <2> QED BY <2>1, <2>4
<1>2. /\ AllMessages = [d \in Endpoint |-> Text(queue[d], buffers)]
      /\ AllMessages' = [d \in Endpoint |-> Text(queue'[d], buffers')]
  BY AllText, AllTextNext
<1> QED BY <1>1, <1>2

\* and the receives of that endpoint,
LEMMA OneList ==
  ASSUME NEW e \in Endpoint, Only(e)
  PROVE  AllReceives' = [AllReceives EXCEPT ![e] = Receives(queue'[e])]
BY DEF Only, AllReceives

\* and no messages when those of the endpoint stay,
LEMMA NoText ==
  ASSUME QueuesInv, QueuesInv', NEW e \in Endpoint, Only(e),
         Text(queue'[e], buffers') = Text(queue[e], buffers)
  PROVE  AllMessages' = AllMessages
<1>1. AllMessages' = [AllMessages EXCEPT ![e] = Text(queue[e], buffers)]
  BY OneText
<1>2. AllMessages = [d \in Endpoint |-> Text(queue[d], buffers)]
  BY AllText
<1> QED BY <1>1, <1>2

\* and no receives when those of the endpoint stay.
LEMMA NoList ==
  ASSUME NEW e \in Endpoint, Only(e), Receives(queue'[e]) = Receives(queue[e])
  PROVE  AllReceives' = AllReceives
BY DEF Only, AllReceives

\* The order of the other queues.
LEMMA OneOrder ==
  ASSUME OrderInv, NEW e \in Endpoint, Only(e), Shaped(queue'[e]),
         ordered' \in [Endpoint -> BOOLEAN], \A d \in Endpoint : d # e => ordered'[d] = ordered[d],
         ordered'[e] => Fifo(queue'[e])
  PROVE  OrderInv'
BY DEF OrderInv, Only

\* Where the reservations stay the receives wait in the same order.
LEMMA SameReceives ==
  ASSUME NEW q \in QueueType, NEW c \in QueueType, ReservedOnce(q), ReservedOnce(c), SameUse(q, c),
         \A s \in Slot : RequestAt(c, s) = RequestAt(q, s)
  PROVE  Receives(c) = Receives(q)
<1>1. Reserved(c) = Reserved(q) /\ Asked(c) = Asked(q)
  BY ReservedSame DEF Asked
<1>2. \A s \in Asked(c) \intersect Asked(q) : RequestAt(c, s) = RequestAt(q, s)
  BY InAsked
<1>3. \A r \in Reserved(q) \intersect Reserved(c) : SlotOf(q, r) \in Asked(c)
  BY <1>1, AskedSlot
<1>4. SameOrder(Reserved(q) \intersect Reserved(c), RequestPos(q), RequestPos(c))
  BY <1>2, <1>3, WaitStays
<1>5. Reserved(q) \intersect Reserved(c) = Reserved(q)
  BY <1>1
<1>6. SameOrder(Reserved(q), RequestPos(q), RequestPos(c))
  BY <1>4, <1>5
<1> QED BY <1>1, <1>6, ReceivesKeep

-----------------------------------------------------------------------------
(* The steps of the mailbox.                                               *)

\* A message that is sent is behind the others of its endpoint.
LEMMA SendMail ==
  ASSUME Inv, OrderInv, NEW e \in Endpoint, PutMessage(e), UNCHANGED <<lent, received, ordered>>
  PROVE  OrderInv' /\ Mail!Send(e)
<1> DEFINE q == queue[e]
           b == Min(FreeBuffers)
           c == Push(q, b)
<1>0. QueuesInv /\ BuffersInv /\ CallsInv /\ QueuesInv'
  BY PutStep DEF Inv
<1>1. b \in Buffer /\ buffers[b] = None
  <2>1. FreeBuffers \in SUBSET Nat /\ FreeBuffers # {}
    BY Names DEF PutMessage, FreeBuffers
  <2>2. b \in FreeBuffers
    <3> HIDE DEF FreeBuffers
    <3> QED BY <2>1, Least
  <2> QED BY <2>2 DEF FreeBuffers
<1> HIDE DEF b
<1>2. /\ queue' = [queue EXCEPT ![e] = c] /\ buffers' = [buffers EXCEPT ![b] = sent + 1]
      /\ sent' = sent + 1 /\ ~IsFull(q)
  BY DEF PutMessage, b
<1>3. q \in QueueType /\ QueueOk(q) /\ ReservedOnce(q) /\ InRing(q) /\ Shaped(q)
  BY <1>0 DEF QueuesInv, QueueOk, OrderInv
<1>4. /\ \A d \in Endpoint : queue'[d] = IF d = e THEN c ELSE queue[d]
      /\ \A x \in Buffer : buffers'[x] = IF x = b THEN sent + 1 ELSE buffers[x]
  BY <1>0, <1>2 DEF QueuesInv, BuffersInv
<1>5. c \in QueueType /\ ReservedOnce(c)
  BY <1>0, <1>4 DEF QueuesInv
<1>6. \A d \in Endpoint : \A s \in Full(queue[d]) :
        BufferAt(queue[d], s) \in Buffer /\ BufferAt(queue[d], s) # b
  <2>1. \A d \in Endpoint, s \in Slot : BufferAt(queue[d], s) \in Buffer \union {None}
    BY <1>0 DEF QueuesInv, QueueType, EntryType, BufferAt
  <2> QED BY <1>0, <1>1, <2>1, InFull DEF BuffersInv
<1>7. Only(e)
  BY <1>4, <1>6 DEF Only
<1>8. \A s \in Full(q) : BufferAt(q, s) \in Buffer /\ BufferAt(q, s) # b
  BY <1>6
<1> HIDE DEF q
<1>9. /\ Pushes(q, c, b) /\ q.tail \in Slot
      /\ \A s \in Slot : /\ BufferAt(c, s) = IF s = q.tail THEN b ELSE BufferAt(q, s)
                         /\ RequestAt(c, s) = RequestAt(q, s)
  BY <1>1, <1>2, <1>3, Names, PushKeeps DEF Pushes
<1> HIDE DEF c
<1>10. /\ Shaped(c) /\ SameUse(q, c) /\ (Fifo(q) => Fifo(c))
       /\ Full(c) = Full(q) \union {q.tail} /\ q.tail \notin Full(q)
       /\ \A s \in Full(q) : Pos(c, s) < Pos(c, q.tail)
  <2>1. b # None
    BY <1>1, Names
  <2> QED BY <1>3, <1>5, <1>9, <2>1, PushShape
<1>11. Text(c, buffers') = Append(Text(q, buffers), sent + 1)
  <2>1. \A s \in Full(q) : buffers'[BufferAt(c, s)] = buffers[BufferAt(q, s)]
    BY <1>4, <1>8, <1>9, <1>10, InFull
  <2>2. Text(c, buffers') = Append(Text(q, buffers), buffers'[BufferAt(c, q.tail)])
    <3>1. Adds(q, c, q.tail) /\ Stays(q, c, buffers, buffers')
      BY <1>10, <2>1 DEF Adds, Stays
    <3>2. Puts(q, c, buffers, buffers', q.tail)
      BY <1>3, <1>5, <1>9, <1>10, <3>1, TextPut
    <3> QED BY <3>2 DEF Puts
  <2>3. buffers'[BufferAt(c, q.tail)] = sent + 1
    BY <1>1, <1>4, <1>9
  <2> QED BY <2>2, <2>3
<1>12. Receives(c) = Receives(q)
  BY <1>3, <1>5, <1>9, <1>10, SameReceives
<1>13. OrderInv'
  BY <1>0, <1>4, <1>7, <1>10, OneOrder DEF CallsInv, OrderInv, q
<1>14. AllMessages' = [AllMessages EXCEPT ![e] = Append(AllMessages[e], sent + 1)]
  <2>1. AllMessages' = [AllMessages EXCEPT ![e] = Text(c, buffers')]
    BY <1>0, <1>4, <1>7, OneText
  <2>2. AllMessages[e] = Text(q, buffers)
    BY <1>0, AllText DEF q
  <2> QED BY <1>11, <2>1, <2>2
<1>15. AllReceives' = AllReceives
  BY <1>4, <1>7, <1>12, NoList DEF q
<1> QED BY <1>2, <1>13, <1>14, <1>15 DEF Mail!Send, AllMessages, AllReceives

\* A refused send changes nothing that a receiver can see.
LEMMA RefusedMail ==
  ASSUME Inv, OrderInv, NEW e \in Endpoint, SendRefused(e), UNCHANGED <<lent, received, ordered>>
  PROVE  OrderInv' /\ UNCHANGED Mail!vars
<1> DEFINE q == queue[e]
           c == IF IsFull(q) THEN Compact(q) ELSE q
<1>0. QueuesInv /\ BuffersInv /\ CallsInv /\ QueuesInv'
  BY RefusedStep DEF Inv
<1>1. queue' = [queue EXCEPT ![e] = c] /\ UNCHANGED <<buffers, sent>>
  BY DEF SendRefused
<1>2. q \in QueueType /\ ReservedOnce(q) /\ InRing(q) /\ Shaped(q)
  BY <1>0 DEF QueuesInv, QueueOk, OrderInv
<1>3. \A d \in Endpoint : queue'[d] = IF d = e THEN c ELSE queue[d]
  BY <1>0, <1>1 DEF QueuesInv
<1>4. c \in QueueType /\ ReservedOnce(c)
  BY <1>0, <1>3 DEF QueuesInv
<1>5. Only(e)
  BY <1>1, <1>3 DEF Only
<1> HIDE DEF q
<1>6. /\ Shaped(c) /\ SameUse(q, c) /\ (Fifo(q) => Fifo(c))
      /\ \A s \in Slot : BufferAt(c, s) = BufferAt(q, s) /\ RequestAt(c, s) = RequestAt(q, s)
  <2>1. CASE IsFull(q)
    <3>1. c = Compact(q)
      BY <2>1
    <3> HIDE DEF c
    <3>2. /\ Takes(q, c, {})
          /\ \A s \in Slot : BufferAt(c, s) = BufferAt(q, s) /\ RequestAt(c, s) = RequestAt(q, s)
      BY <1>2, <3>1, CompactKeeps
    <3>3. {} \in SUBSET Full(q)
      OBVIOUS
    <3> QED BY <1>2, <1>4, <3>2, <3>3, TakesShape
  <2>2. CASE ~IsFull(q)
    <3>1. c = q
      BY <2>2
    <3>2. SameUse(q, q)
      BY DEF SameUse
    <3> QED BY <1>2, <3>1, <3>2
  <2> QED BY <2>1, <2>2
<1> HIDE DEF c
<1>7. Text(c, buffers') = Text(q, buffers)
  <2>1. Full(c) = Full(q)
    BY <1>6, InFull
  <2>2. \A s \in Full(c) : buffers'[BufferAt(c, s)] = buffers[BufferAt(q, s)]
    BY <1>1, <1>6, InFull
  <2> QED BY <1>2, <1>4, <1>6, <2>1, <2>2, TextKeep
<1>8. Receives(c) = Receives(q)
  BY <1>2, <1>4, <1>6, SameReceives
<1>9. OrderInv'
  BY <1>0, <1>3, <1>5, <1>6, OneOrder DEF CallsInv, OrderInv, q
<1>10. AllMessages' = AllMessages
  BY <1>0, <1>3, <1>5, <1>7, NoText DEF q
<1>11. AllReceives' = AllReceives
  BY <1>3, <1>5, <1>8, NoList DEF q
<1> QED BY <1>1, <1>9, <1>10, <1>11 DEF Mail!vars, AllMessages, AllReceives

\* Removing is the same in a mailbox.
LEMMA MailRemoves ==
  \A s, i : Mail!RemoveAt(s, i) = RemoveAt(s, i)
BY DEF RemoveAt, Mail!RemoveAt

\* Messages that are delivered from an entry of a queue, and what stays.
LEMMA DeliverRest ==
  ASSUME QueuesInv, BuffersInv, NEW e \in Endpoint, NEW x \in Slot, BufferAt(queue[e], x) # None,
         Deliver(e, BufferAt(queue[e], x))
  PROVE  /\ received' = received \union {buffers[BufferAt(queue[e], x)]}
         /\ \A d \in Endpoint : \A s \in Full(queue[d]) : d # e \/ s # x =>
              buffers'[BufferAt(queue[d], s)] = buffers[BufferAt(queue[d], s)]
<1> DEFINE b == BufferAt(queue[e], x)
<1>1. \A d \in Endpoint, s \in Slot : BufferAt(queue[d], s) \in Buffer \union {None}
  BY DEF QueuesInv, QueueType, EntryType, BufferAt
<1>2. \A d \in Endpoint : \A s \in Full(queue[d]) : d # e \/ s # x =>
        BufferAt(queue[d], s) \in Buffer /\ BufferAt(queue[d], s) # b
  BY <1>1, InFull DEF BuffersInv
<1> HIDE DEF b
<1>3. received' = received \union {buffers[b]} /\ (buffers' = buffers \/ buffers' = [buffers EXCEPT ![b] = None])
  BY DEF Deliver, b
<1>4. \A y \in Buffer : y # b => buffers'[y] = buffers[y]
  BY <1>3 DEF BuffersInv
<1> QED BY <1>2, <1>3, <1>4 DEF b

\* A receive that finds a message gets one of its endpoint: the one behind those
\* the other receives wait for, if the endpoint is ordered.
LEMMA GetMail ==
  ASSUME Inv, OrderInv, NEW e \in Endpoint, GetMessage(e), UNCHANGED <<sent, ordered>>
  PROVE  OrderInv' /\ Mail!Receive(e)
<1> DEFINE q == queue[e]
           c == Pop(q)
<1>0. QueuesInv /\ BuffersInv /\ CallsInv /\ QueuesInv'
  BY GetStep DEF Inv
<1>1. queue' = [queue EXCEPT ![e] = c] /\ HasMessage(q) /\ Deliver(e, BufferAt(q, PopSlot(q)))
  BY DEF GetMessage, BufferAt
<1>2. q \in QueueType /\ QueueOk(q) /\ ReservedOnce(q) /\ InRing(q) /\ Shaped(q)
      /\ (ordered[e] => Fifo(q))
  BY <1>0 DEF QueuesInv, QueueOk, OrderInv
<1>3. \A d \in Endpoint : queue'[d] = IF d = e THEN c ELSE queue[d]
  BY <1>0, <1>1 DEF QueuesInv
<1>4. c \in QueueType /\ ReservedOnce(c)
  BY <1>0, <1>3 DEF QueuesInv
<1> HIDE DEF q
<1>5. PICK x \in Slot :
        /\ x = PopSlot(q) /\ BufferAt(q, x) # None /\ RequestAt(q, x) = None
        /\ \A u \in Slot : /\ BufferAt(c, u) = IF u = x THEN None ELSE BufferAt(q, u)
                           /\ RequestAt(c, u) = RequestAt(q, u)
        /\ \A u \in Slot : BufferAt(q, u) # None /\ RequestAt(q, u) = None => Pos(q, x) <= Pos(q, u)
        /\ Takes(q, c, {x})
  BY <1>1, <1>2, PopKeeps DEF Shaped
<1> HIDE DEF c
<1>6. /\ received' = received \union {buffers[BufferAt(q, x)]}
      /\ \A d \in Endpoint : \A s \in Full(queue[d]) : d # e \/ s # x =>
           buffers'[BufferAt(queue[d], s)] = buffers[BufferAt(queue[d], s)]
  BY <1>0, <1>1, <1>5, DeliverRest DEF q
<1>7. Only(e)
  BY <1>3, <1>6 DEF Only
<1>8. x \in Full(q) /\ x \notin Asked(q) /\ Full(c) = Full(q) \ {x}
  BY <1>5, InFull, InAsked
<1>9. Shaped(c) /\ SameUse(q, c) /\ (Fifo(q) => Fifo(c))
  <2>1. {x} \in SUBSET Full(q)
    BY <1>8
  <2> QED BY <1>2, <1>4, <1>5, <2>1, TakesShape
<1> DEFINE i == Rank(Full(q), SlotPos(q), x)
<1>10. Text(c, buffers') = RemoveAt(Text(q, buffers), i)
  <2>1. \A s \in Full(q) : s # x => buffers'[BufferAt(q, s)] = buffers[BufferAt(q, s)]
    BY <1>6 DEF q
  <2>2. \A s \in Full(c) : buffers'[BufferAt(c, s)] = buffers[BufferAt(q, s)]
    BY <1>5, <1>8, <2>1, InFull
  <2> QED BY <1>2, <1>4, <1>8, <1>9, <2>2, TextTake
<1>11. Receives(c) = Receives(q)
  BY <1>2, <1>4, <1>5, <1>9, SameReceives
<1>12. /\ i \in DOMAIN Text(q, buffers) /\ Text(q, buffers)[i] = buffers[BufferAt(q, x)]
  <2>1. PICK V : Text(q, buffers) \in Seq(V)
    BY <1>2, TextIs
  <2>2. /\ Len(Text(q, buffers)) = Cardinality(Full(q)) /\ i \in 1..Cardinality(Full(q))
        /\ Text(q, buffers)[i] = buffers[BufferAt(q, x)]
    BY <1>2, <1>8, TextIs
  <2> HIDE DEF i
  <2> QED BY <2>1, <2>2
<1>13. ordered[e] => i = Len(Receives(q)) + 1
  <2>1. \A u \in Full(q) : u \notin Asked(q) => Pos(q, x) <= Pos(q, u)
    BY <1>5, InFull, InAsked
  <2> QED BY <1>2, <1>8, <2>1, GetRank, ReceivesIs
<1> HIDE DEF i
<1>14. OrderInv'
  BY <1>0, <1>2, <1>3, <1>7, <1>9, OneOrder DEF CallsInv
<1>15. AllMessages[e] = Text(q, buffers) /\ AllReceives[e] = Receives(q)
  BY <1>0, AllText DEF q, AllReceives
<1>16. AllMessages' = [AllMessages EXCEPT ![e] = RemoveAt(AllMessages[e], i)]
  <2>1. AllMessages' = [AllMessages EXCEPT ![e] = Text(c, buffers')]
    BY <1>0, <1>3, <1>7, OneText
  <2> QED BY <1>10, <1>15, <2>1
<1>17. AllReceives' = AllReceives
  BY <1>3, <1>7, <1>11, NoList DEF q
<1>18. Mail!GetMessage(e, i)
  BY <1>6, <1>12, <1>15, <1>16, MailRemoves DEF Mail!GetMessage, AllMessages, q
<1>19. i \in DOMAIN AllMessages[e] /\ (ordered[e] => i = Len(AllReceives[e]) + 1)
  BY <1>12, <1>13, <1>15
<1> QED BY <1>14, <1>17, <1>18, <1>19 DEF Mail!Receive, AllMessages, AllReceives

\* A receive that finds nothing waits behind the others.
LEMMA AskMail ==
  ASSUME Inv, OrderInv, NEW e \in Endpoint, NEW r \in Request,
         r \notin Reserved(queue[e]), ReservableSteps(queue[e]) # {}, ~HasMessage(queue[e]),
         queue' = [queue EXCEPT ![e] = Reserve(@, r)],
         UNCHANGED <<buffers, lent, sent, received, ordered>>
  PROVE  OrderInv' /\ Mail!Ask(e, r)
<1> DEFINE q == queue[e]
           c == Reserve(q, r)
<1>0. QueuesInv /\ BuffersInv /\ CallsInv /\ QueuesInv'
  BY ReserveStep DEF Inv
<1>1. queue' = [queue EXCEPT ![e] = c]
  OBVIOUS
<1>2. q \in QueueType /\ QueueOk(q) /\ ReservedOnce(q) /\ InRing(q) /\ Shaped(q)
  BY <1>0 DEF QueuesInv, QueueOk, OrderInv
<1>3. \A d \in Endpoint : queue'[d] = IF d = e THEN c ELSE queue[d]
  BY <1>0, <1>1 DEF QueuesInv
<1>4. c \in QueueType /\ ReservedOnce(c)
  BY <1>0, <1>3 DEF QueuesInv
<1>5. Only(e)
  BY <1>3 DEF Only
<1>6. r \notin Reserved(q) /\ ReservableSteps(q) # {} /\ ~HasMessage(q)
  OBVIOUS
<1> HIDE DEF q
<1>7. Reserved(c) = Reserved(q) \union {r} /\ Asks(q, c, r) /\ r # None
  BY <1>2, <1>6, Names, ReserveKeeps
<1> HIDE DEF c
<1>8. Full(q) \subseteq Asked(q)
  BY <1>2, <1>6, NoneLeft
<1>9. /\ Shaped(c) /\ Fifo(c) /\ SameUse(q, c) /\ Full(c) = Full(q)
      /\ \A u \in Slot : BufferAt(c, u) = BufferAt(q, u)
      /\ \E s \in Slot \ Asked(q) :
           /\ Asked(c) = Asked(q) \union {s} /\ RequestAt(c, s) = r
           /\ \A u \in Asked(q) : RequestAt(c, u) = RequestAt(q, u) /\ Pos(c, u) < Pos(c, s)
  BY <1>2, <1>4, <1>7, <1>8, AskShape
<1>10. PICK s \in Slot \ Asked(q) :
         /\ Asked(c) = Asked(q) \union {s} /\ RequestAt(c, s) = r
         /\ \A u \in Asked(q) : RequestAt(c, u) = RequestAt(q, u) /\ Pos(c, u) < Pos(c, s)
  BY <1>9
<1>11. Text(c, buffers') = Text(q, buffers)
  <2>1. \A u \in Full(c) : buffers'[BufferAt(c, u)] = buffers[BufferAt(q, u)]
    BY <1>9, InFull
  <2> QED BY <1>2, <1>4, <1>9, <2>1, TextKeep
<1>12. Receives(c) = Append(Receives(q), r)
  <2>1. \A u \in Asked(c) \intersect Asked(q) : RequestAt(c, u) = RequestAt(q, u)
    BY <1>10
  <2>2. \A x \in Reserved(q) \intersect Reserved(c) : SlotOf(q, x) \in Asked(c)
    BY <1>2, <1>10, AskedSlot
  <2>3. /\ \A x \in Reserved(q) \intersect Reserved(c) : SlotOf(c, x) = SlotOf(q, x)
        /\ SameOrder(Reserved(q) \intersect Reserved(c), RequestPos(q), RequestPos(c))
    BY <1>2, <1>4, <1>9, <2>1, <2>2, WaitStays
  <2>4. Reserved(q) \intersect Reserved(c) = Reserved(q)
    BY <1>7
  <2>5. /\ \A x \in Reserved(q) : SlotOf(c, x) = SlotOf(q, x)
        /\ SameOrder(Reserved(q), RequestPos(q), RequestPos(c))
    BY <2>3, <2>4
  <2>6. SlotOf(c, r) = s
    BY <1>4, <1>10, AskedSlot
  <2>7. \A x \in Reserved(q) : Pos(c, SlotOf(c, x)) < Pos(c, SlotOf(c, r))
    BY <1>2, <1>10, <2>5, <2>6, AskedSlot
  <2> QED BY <1>2, <1>4, <1>6, <1>7, <2>5, <2>7, ReceivesAdd
<1>13. OrderInv'
  BY <1>0, <1>3, <1>5, <1>9, OneOrder DEF CallsInv
<1>14. AllMessages[e] = Text(q, buffers) /\ AllReceives[e] = Receives(q)
  BY <1>0, AllText DEF q, AllReceives
<1>15. AllMessages' = AllMessages
  BY <1>0, <1>3, <1>5, <1>11, NoText DEF q
<1>16. AllReceives' = [AllReceives EXCEPT ![e] = Append(AllReceives[e], r)]
  <2>1. AllReceives' = [AllReceives EXCEPT ![e] = Receives(c)]
    BY <1>3, <1>5, OneList
  <2> QED BY <1>12, <1>14, <2>1
<1>17. Len(AllMessages[e]) <= Len(AllReceives[e])
  BY <1>2, <1>8, <1>14, AskCount, TextIs, ReceivesIs
<1> QED BY <1>13, <1>15, <1>16, <1>17 DEF Mail!Ask, AllMessages, AllReceives

\* A receive that waited takes the message of its entry: its own, if the
\* endpoint is ordered.
LEMMA TakeMail ==
  ASSUME Inv, OrderInv, NEW r \in Request, Arrived(r), TakeMessage(r), UNCHANGED <<sent, ordered>>
  PROVE  OrderInv' /\ Mail!Next
<1>0. QueuesInv /\ BuffersInv /\ RequestsInv /\ CallsInv /\ QueuesInv' /\ OneUnreserved(requests[r].on, r)
  BY TakeStep DEF Inv
<1>a. requests[r].on \in Endpoint /\ r \in Reserved(queue[requests[r].on])
  BY <1>0 DEF RequestsInv, Arrived, Outstanding
<1>b. PICK e \in Endpoint : e = requests[r].on
  BY <1>a
<1> DEFINE q == queue[e]
           c == TakeReserved(q, r)
<1>1. /\ queue' = [queue EXCEPT ![e] = c] /\ Deliver(e, BufferAt(q, SlotOf(q, r)))
      /\ r \in Reserved(q) /\ BufferAt(q, SlotOf(q, r)) # None
  BY <1>a, <1>b DEF TakeMessage, Arrived, BufferAt
<1>2. q \in QueueType /\ QueueOk(q) /\ ReservedOnce(q) /\ InRing(q) /\ Shaped(q)
      /\ (ordered[e] => Fifo(q))
  BY <1>0 DEF QueuesInv, QueueOk, OrderInv
<1>3. \A d \in Endpoint : queue'[d] = IF d = e THEN c ELSE queue[d]
  BY <1>0, <1>1 DEF QueuesInv
<1>4. c \in QueueType /\ ReservedOnce(c) /\ Reserved(c) = Reserved(q) \ {r}
  BY <1>0, <1>b, <1>3 DEF QueuesInv, OneUnreserved
<1> HIDE DEF q
<1>5. PICK x \in Slot :
        /\ x = SlotOf(q, r) /\ RequestAt(q, x) = r
        /\ \A u \in Slot : /\ BufferAt(c, u) = IF u = x THEN None ELSE BufferAt(q, u)
                           /\ RequestAt(c, u) = IF u = x THEN None ELSE RequestAt(q, u)
        /\ Takes(q, c, {x})
  BY <1>1, <1>2, Names, TheSlot, TakeKeeps
<1> HIDE DEF c
<1>6. /\ received' = received \union {buffers[BufferAt(q, x)]}
      /\ \A d \in Endpoint : \A s \in Full(queue[d]) : d # e \/ s # x =>
           buffers'[BufferAt(queue[d], s)] = buffers[BufferAt(queue[d], s)]
  BY <1>0, <1>1, <1>5, DeliverRest DEF q
<1>7. Only(e)
  BY <1>3, <1>6 DEF Only
<1>8. x \in Full(q) /\ x \in Asked(q) /\ Full(c) = Full(q) \ {x} /\ Asked(c) = Asked(q) \ {x}
  BY <1>1, <1>5, InFull, InAsked, Names
<1>9. Shaped(c) /\ SameUse(q, c) /\ (Fifo(q) => Fifo(c))
  <2>1. {x} \in SUBSET Full(q)
    BY <1>8
  <2> QED BY <1>2, <1>4, <1>5, <2>1, TakesShape
<1> DEFINE i == Rank(Full(q), SlotPos(q), x)
           k == Rank(Asked(q), SlotPos(q), x)
<1>10. Text(c, buffers') = RemoveAt(Text(q, buffers), i)
  <2>1. \A s \in Full(q) : s # x => buffers'[BufferAt(q, s)] = buffers[BufferAt(q, s)]
    BY <1>6 DEF q
  <2>2. \A s \in Full(c) : buffers'[BufferAt(c, s)] = buffers[BufferAt(q, s)]
    BY <1>5, <1>8, <2>1, InFull
  <2> QED BY <1>2, <1>4, <1>8, <1>9, <2>2, TextTake
<1>11. Receives(c) = RemoveAt(Receives(q), k)
  <2>1. \A s \in Asked(c) \intersect Asked(q) : RequestAt(c, s) = RequestAt(q, s)
    BY <1>5, <1>8, InAsked
  <2>2. \A y \in Reserved(q) \intersect Reserved(c) : SlotOf(q, y) \in Asked(c)
    BY <1>2, <1>4, <1>5, <1>8, AskedSlot
  <2>3. SameOrder(Reserved(q) \intersect Reserved(c), RequestPos(q), RequestPos(c))
    BY <1>2, <1>4, <1>9, <2>1, <2>2, WaitStays
  <2>4. Reserved(q) \intersect Reserved(c) = Reserved(c)
    BY <1>4
  <2>5. SameOrder(Reserved(c), RequestPos(q), RequestPos(c))
    BY <2>3, <2>4
  <2> QED BY <1>1, <1>2, <1>4, <1>5, <2>5, ReceivesDrop
<1>12. /\ i \in DOMAIN Text(q, buffers) /\ Text(q, buffers)[i] = buffers[BufferAt(q, x)]
  <2>1. PICK V : Text(q, buffers) \in Seq(V)
    BY <1>2, TextIs
  <2>2. /\ Len(Text(q, buffers)) = Cardinality(Full(q)) /\ i \in 1..Cardinality(Full(q))
        /\ Text(q, buffers)[i] = buffers[BufferAt(q, x)]
    BY <1>2, <1>8, TextIs
  <2> HIDE DEF i
  <2> QED BY <2>1, <2>2
<1>13. k \in DOMAIN Receives(q)
  <2>1. /\ Receives(q) \in Seq(Reserved(q)) /\ Len(Receives(q)) = Cardinality(Asked(q))
        /\ k \in 1..Cardinality(Asked(q))
    BY <1>1, <1>2, <1>5, ReceivesIs
  <2> HIDE DEF k
  <2> QED BY <2>1
<1>14. ordered[e] => i = k
  BY <1>2, <1>8, TakeRank
<1> HIDE DEF i, k
<1>15. OrderInv'
  BY <1>0, <1>2, <1>3, <1>7, <1>9, OneOrder DEF CallsInv
<1>16. AllMessages[e] = Text(q, buffers) /\ AllReceives[e] = Receives(q)
  BY <1>0, AllText DEF q, AllReceives
<1>17. AllMessages' = [AllMessages EXCEPT ![e] = RemoveAt(AllMessages[e], i)]
  <2>1. AllMessages' = [AllMessages EXCEPT ![e] = Text(c, buffers')]
    BY <1>0, <1>3, <1>7, OneText
  <2> QED BY <1>10, <1>16, <2>1
<1>18. AllReceives' = [AllReceives EXCEPT ![e] = RemoveAt(AllReceives[e], k)]
  <2>1. AllReceives' = [AllReceives EXCEPT ![e] = Receives(c)]
    BY <1>3, <1>7, OneList
  <2> QED BY <1>11, <1>16, <2>1
<1>19. Mail!GetMessage(e, i)
  BY <1>6, <1>12, <1>16, <1>17, MailRemoves DEF Mail!GetMessage, AllMessages, q
<1>20. Mail!Take(e, i, k)
  BY <1>14, <1>18, <1>19, MailRemoves DEF Mail!Take, AllReceives
<1>21. i \in DOMAIN AllMessages[e] /\ k \in DOMAIN AllReceives[e]
  BY <1>12, <1>13, <1>16
<1> QED BY <1>15, <1>20, <1>21 DEF Mail!Next, AllMessages, AllReceives

\* A receive that is cancelled leaves the list; the cancel is late when the
\* lists say so.
LEMMA CancelMail ==
  ASSUME Inv, OrderInv, NEW t, NEW r \in Request, CallCancel(t, r)
  PROVE  OrderInv' /\ Mail!Next
<1>0. /\ QueuesInv /\ BuffersInv /\ RequestsInv /\ CallsInv
      /\ UNCHANGED <<buffers, lent, sent, received>>
      /\ requests[r].on \in Endpoint /\ r \in Reserved(queue[requests[r].on])
  BY DEF Inv, CallCancel, RequestsInv, Outstanding
<1>a. PICK e \in Endpoint : e = requests[r].on
  BY <1>0
<1> DEFINE q == queue[e]
           c == Unreserve(q, r)
<1>1. /\ queue' = [queue EXCEPT ![e] = c] /\ r \in Reserved(q)
      /\ ordered' = [ordered EXCEPT ![e] = @ /\ ~Late(q, r)]
  BY <1>0, <1>a DEF CallCancel
<1>b. QueuesInv' /\ OneUnreserved(e, r)
  BY <1>0, <1>1, UnreserveStep
<1>2. q \in QueueType /\ QueueOk(q) /\ ReservedOnce(q) /\ InRing(q) /\ Shaped(q)
      /\ (ordered[e] => Fifo(q))
  BY <1>0 DEF QueuesInv, QueueOk, OrderInv
<1>3. \A d \in Endpoint : queue'[d] = IF d = e THEN c ELSE queue[d]
  BY <1>0, <1>1 DEF QueuesInv
<1>4. c \in QueueType /\ ReservedOnce(c) /\ Reserved(c) = Reserved(q) \ {r}
  BY <1>b, <1>3 DEF QueuesInv, OneUnreserved
<1>5. Only(e)
  BY <1>0, <1>3 DEF Only
<1> HIDE DEF q
<1>6. Unasks(q, c, r)
  BY <1>1, <1>2, Names, UnreserveKeeps
<1> HIDE DEF c
<1>7. /\ Shaped(c) /\ SameUse(q, c) /\ Full(c) = Full(q)
      /\ \A u \in Slot : BufferAt(c, u) = BufferAt(q, u)
      /\ Fifo(q) /\ ~Late(q, r) => Fifo(c)
  BY <1>1, <1>2, <1>4, <1>6, CancelShape
<1> DEFINE k == Rank(Asked(q), SlotPos(q), SlotOf(q, r))
<1>8. Text(c, buffers') = Text(q, buffers)
  <2>1. \A u \in Full(c) : buffers'[BufferAt(c, u)] = buffers[BufferAt(q, u)]
    BY <1>0, <1>7, InFull
  <2> QED BY <1>2, <1>4, <1>7, <2>1, TextKeep
<1>9. SameWait(q, c)
  <2>1. \A s, u \in Asked(c), v, w \in Slot :
          RequestAt(q, v) = RequestAt(c, s) /\ RequestAt(q, w) = RequestAt(c, u)
            /\ Pos(q, s) < Pos(q, u) => Pos(q, v) < Pos(q, w)
    BY <1>6 DEF Unasks
  <2>2. \A s \in Slot : Pos(c, s) = Pos(q, s)
    BY <1>6 DEF Unasks, Pos
  <2> SUFFICES ASSUME NEW x \in Reserved(c), NEW y \in Reserved(c)
               PROVE  Pos(c, SlotOf(c, x)) <= Pos(c, SlotOf(c, y))
                        <=> Pos(q, SlotOf(q, x)) <= Pos(q, SlotOf(q, y))
    BY DEF SameWait
  <2>3. PICK s \in Asked(c) : s = SlotOf(c, x) /\ RequestAt(c, s) = x
    BY <1>4, AskedSlot
  <2>4. PICK u \in Asked(c) : u = SlotOf(c, y) /\ RequestAt(c, u) = y
    BY <1>4, AskedSlot
  <2>5. PICK v \in Asked(q) : v = SlotOf(q, x) /\ RequestAt(q, v) = x
    BY <1>2, <1>4, AskedSlot
  <2>6. PICK w \in Asked(q) : w = SlotOf(q, y) /\ RequestAt(q, w) = y
    BY <1>2, <1>4, AskedSlot
  <2>7. s \in Slot /\ u \in Slot /\ v \in Slot /\ w \in Slot
    BY InAsked
  <2>8. /\ Pos(q, s) < Pos(q, u) => Pos(q, v) < Pos(q, w)
        /\ Pos(q, u) < Pos(q, s) => Pos(q, w) < Pos(q, v)
    BY <2>1, <2>3, <2>4, <2>5, <2>6, <2>7
  <2>9. /\ Pos(q, s) \in Nat /\ Pos(q, u) \in Nat /\ Pos(q, v) \in Nat /\ Pos(q, w) \in Nat
        /\ Pos(q, s) = Pos(q, u) => s = u
    BY <1>2, <2>7, Positions
  <2>10. s = u => v = w
    BY <2>3, <2>4, <2>5, <2>6
  <2>11. Pos(q, s) <= Pos(q, u) <=> Pos(q, v) <= Pos(q, w)
    BY <2>8, <2>9, <2>10
  <2> QED BY <2>2, <2>3, <2>4, <2>5, <2>6, <2>7, <2>11
<1>10. Receives(c) = RemoveAt(Receives(q), k)
  <2>1. Reserved(c) \in SUBSET Reserved(c) /\ Reserved(c) \subseteq Reserved(q)
    BY <1>4
  <2>2. SameOrder(Reserved(c), RequestPos(q), RequestPos(c))
    BY <1>2, <1>4, <1>9, <2>1, WaitOrder
  <2> QED BY <1>1, <1>2, <1>4, <2>2, ReceivesDrop
<1>11. /\ Len(Text(q, buffers)) = Cardinality(Full(q))
       /\ Receives(q) \in Seq(Reserved(q)) /\ Len(Receives(q)) = Cardinality(Asked(q))
       /\ k \in 1..Cardinality(Asked(q))
  BY <1>1, <1>2, TextIs, ReceivesIs
<1>12. ordered[e] => (Late(q, r) <=> k <= Len(Text(q, buffers))
                                       /\ Len(Text(q, buffers)) < Len(Receives(q)))
  <2>1. PICK a \in Asked(q) : a = SlotOf(q, r)
    BY <1>1, <1>2, AskedSlot
  <2>2. Late(q, r) <=> a \in Full(q) /\ ~(Asked(q) \subseteq Full(q))
    BY <2>1, LateIs, InFull, InAsked
  <2>3. ASSUME Fifo(q)
        PROVE  a \in Full(q) /\ ~(Asked(q) \subseteq Full(q)) <=>
                 /\ Rank(Asked(q), SlotPos(q), a) <= Cardinality(Full(q))
                 /\ Cardinality(Full(q)) < Cardinality(Asked(q))
    BY <1>2, <2>3, LateRank
  <2> QED BY <1>2, <1>11, <2>1, <2>2, <2>3
<1> HIDE DEF k
<1>13. k \in DOMAIN Receives(q)
  BY <1>11
<1>14. /\ ordered' \in [Endpoint -> BOOLEAN] /\ \A d \in Endpoint : d # e => ordered'[d] = ordered[d]
       /\ ordered'[e] <=> ordered[e] /\ ~Late(q, r)
  BY <1>0, <1>1 DEF CallsInv
<1>15. OrderInv'
  <2>1. ordered'[e] => Fifo(queue'[e])
    BY <1>2, <1>3, <1>7, <1>14
  <2>2. Shaped(queue'[e])
    BY <1>3, <1>7
  <2> QED BY <1>5, <1>14, <2>1, <2>2, OneOrder
<1>16. AllMessages[e] = Text(q, buffers) /\ AllReceives[e] = Receives(q)
  BY <1>0, AllText DEF q, AllReceives
<1>17. AllMessages' = AllMessages
  BY <1>0, <1>b, <1>3, <1>5, <1>8, NoText DEF q
<1>18. AllReceives' = [AllReceives EXCEPT ![e] = RemoveAt(AllReceives[e], k)]
  <2>1. AllReceives' = [AllReceives EXCEPT ![e] = Receives(c)]
    BY <1>3, <1>5, OneList
  <2> QED BY <1>10, <1>16, <2>1
<1>19. ordered' = [ordered EXCEPT ![e] =
                     @ /\ ~(k <= Len(AllMessages[e]) /\ Len(AllMessages[e]) < Len(AllReceives[e]))]
  <2>1. ordered \in [Endpoint -> BOOLEAN]
    BY <1>0 DEF CallsInv
  <2>2. (ordered[e] /\ ~Late(q, r)) =
          (ordered[e] /\ ~(k <= Len(AllMessages[e]) /\ Len(AllMessages[e]) < Len(AllReceives[e])))
    BY <1>12, <1>16
  <2> QED BY <1>1, <2>1, <2>2
<1>20. Mail!Cancel(e, k)
  BY <1>0, <1>17, <1>18, <1>19, MailRemoves DEF Mail!Cancel, AllMessages, AllReceives
<1>21. k \in DOMAIN AllReceives[e]
  BY <1>13, <1>16
<1> QED BY <1>15, <1>20, <1>21 DEF Mail!Next, AllReceives

\* A step that leaves the queues and their messages as they are.
LEMMA SameMail ==
  ASSUME Inv, Inv', OrderInv, UNCHANGED <<queue, sent, received, ordered>>,
         \A d \in Endpoint : \A s \in Full(queue[d]) :
           buffers'[BufferAt(queue[d], s)] = buffers[BufferAt(queue[d], s)]
  PROVE  OrderInv' /\ UNCHANGED Mail!vars
<1>0. QueuesInv /\ QueuesInv'
  BY DEF Inv
<1>1. OrderInv'
  BY DEF OrderInv
<1>2. AllReceives' = AllReceives
  BY DEF AllReceives
<1>3. ASSUME NEW d \in Endpoint PROVE Text(queue'[d], buffers') = Text(queue[d], buffers)
  <2>1. queue[d] \in QueueType /\ queue'[d] = queue[d]
    BY <1>0 DEF QueuesInv
  <2>2. SameUse(queue[d], queue[d])
    BY DEF SameUse
  <2>3. Text(queue[d], buffers') = Text(queue[d], buffers)
    BY <2>1, <2>2, TextKeep
  <2> QED BY <2>1, <2>3
<1>4. AllMessages' = AllMessages
  BY <1>0, <1>3, AllText, AllTextNext
<1> QED BY <1>1, <1>2, <1>4 DEF Mail!vars, AllMessages, AllReceives

\* What a step is for the mailbox.
MailStep == Mail!Next \/ UNCHANGED Mail!vars

\* A non-blocking send sends, or changes nothing.
LEMMA SendIMail ==
  ASSUME Inv, Inv', OrderInv, NEW e \in Endpoint, NEW status, NEW r, SendI(e, status, r)
  PROVE  OrderInv' /\ MailStep
<1>1. UNCHANGED <<lent, received, ordered>>
  BY DEF SendI
<1>2. CASE PutMessage(e)
  BY <1>1, <1>2, SendMail DEF MailStep, Mail!Next
<1>3. CASE SendRefused(e)
  BY <1>1, <1>3, RefusedMail DEF MailStep
<1>4. CASE UNCHANGED <<queue, buffers, sent>>
  BY <1>1, <1>4, SameMail DEF MailStep
<1> QED BY <1>2, <1>3, <1>4 DEF SendI

\* A non-blocking receive gets a message, waits, or changes nothing.
LEMMA RecvIMail ==
  ASSUME Inv, Inv', OrderInv, NEW e \in Endpoint, NEW status, NEW r, RecvI(e, status, r)
  PROVE  OrderInv' /\ MailStep
<1>1. UNCHANGED <<sent, ordered>> /\ ReserveRequest(r) /\ RequestsInv
  BY DEF RecvI, Inv
<1>2. CASE GetMessage(e)
  BY <1>1, <1>2, GetMail DEF MailStep, Mail!Next
<1>3. CASE /\ ~HasMessage(queue[e]) /\ ReservableSteps(queue[e]) # {}
           /\ queue' = [queue EXCEPT ![e] = Reserve(@, r)]
           /\ UNCHANGED <<buffers, lent, received>>
  <2>1. r \in Request /\ r \notin Reserved(queue[e])
    BY <1>1, Taken
  <2> QED BY <1>1, <1>3, <2>1, AskMail DEF MailStep, Mail!Next
<1>4. CASE UNCHANGED <<queue, buffers, lent, received>>
  BY <1>1, <1>4, SameMail DEF MailStep
<1> QED BY <1>2, <1>3, <1>4 DEF RecvI

\* A test takes a message, or changes nothing.
LEMMA TestIMail ==
  ASSUME Inv, Inv', OrderInv, NEW r \in Request, TestI(r)
  PROVE  OrderInv' /\ MailStep
<1>1. UNCHANGED <<sent, ordered>>
  BY DEF TestI
<1>2. CASE UNCHANGED <<queue, buffers, lent, received>>
  BY <1>1, <1>2, SameMail DEF MailStep
<1>3. CASE Arrived(r) /\ TakeMessage(r)
  BY <1>1, <1>3, TakeMail DEF MailStep
<1> QED BY <1>2, <1>3 DEF TestI

\* A packet that is given back is in no queue.
LEMMA FreeMail ==
  ASSUME Inv, Inv', OrderInv, NEW t, NEW b \in lent, FreePacket(t, b)
  PROVE  OrderInv' /\ MailStep
<1>1. UNCHANGED <<queue, sent, received, ordered>> /\ buffers' = [buffers EXCEPT ![b] = None]
  BY DEF FreePacket
<1>2. \A d \in Endpoint, s \in Slot : BufferAt(queue[d], s) \in Buffer \union {None}
  BY DEF Inv, QueuesInv, QueueType, EntryType, BufferAt
<1>3. ASSUME NEW d \in Endpoint, NEW s \in Full(queue[d])
      PROVE  buffers'[BufferAt(queue[d], s)] = buffers[BufferAt(queue[d], s)]
  <2>1. BufferAt(queue[d], s) \in Buffer /\ BufferAt(queue[d], s) # b
    BY <1>2, InFull DEF Inv, BuffersInv
  <2> QED BY <1>1, <2>1 DEF Inv, BuffersInv
<1> QED BY <1>1, <1>3, SameMail DEF MailStep

\* The loops of the blocking calls, and the wait.
LEMMA ThreadMail ==
  ASSUME Inv, Inv', OrderInv, NEW t \in Thread, ThreadStep(t)
  PROVE  OrderInv' /\ MailStep
<1>1. call[t] \in CallType
  BY DEF Inv, CallsInv
<1>2. CASE SendLoop(t)
  <2>1. call[t].on \in Endpoint
    BY <1>1, <1>2, CallTypes DEF SendLoop, Doing
  <2>2. CASE UNCHANGED <<queue, buffers, sent, received, ordered>>
    BY <2>2, SameMail DEF MailStep
  <2>3. CASE \E r \in Request : SendI(call[t].on, call[t].status, r)
    BY <2>1, <2>3, SendIMail
  <2> QED BY <1>2, <2>2, <2>3 DEF SendLoop
<1>3. CASE RecvLoop(t)
  <2>1. call[t].on \in Endpoint
    BY <1>1, <1>3, CallTypes DEF RecvLoop, Doing
  <2>2. CASE UNCHANGED <<queue, buffers, sent, received, ordered>>
    BY <2>2, SameMail DEF MailStep
  <2>3. CASE \E r \in Request : RecvI(call[t].on, call[t].status, r)
    BY <2>1, <2>3, RecvIMail
  <2> QED BY <1>3, <2>2, <2>3 DEF RecvLoop
<1>4. CASE WaitLoop(t)
  <2>1. \E r \in Request : TestI(r)
    BY <1>1, <1>4, CallTypes DEF WaitLoop, Doing
  <2> QED BY <2>1, TestIMail
<1> QED BY <1>2, <1>3, <1>4 DEF ThreadStep

\* The calls of the application.
LEMMA AppMail ==
  ASSUME Inv, Inv', OrderInv, NEW t \in Thread, AppCall(t)
  PROVE  OrderInv' /\ MailStep
<1>1. held \subseteq Request
  BY DEF Inv, CallsInv
<1>2. CASE UNCHANGED <<queue, buffers, sent, received, ordered>>
  BY <1>2, SameMail DEF MailStep
<1>3. ASSUME NEW e \in Endpoint, CallSendI(t, e) PROVE OrderInv' /\ MailStep
  BY <1>3, SendIMail DEF CallSendI
<1>4. ASSUME NEW e \in Endpoint, CallRecvI(t, e) PROVE OrderInv' /\ MailStep
  BY <1>4, RecvIMail DEF CallRecvI
<1>5. ASSUME NEW e \in Endpoint, SendScalar(t, e) PROVE OrderInv' /\ MailStep
  <2>1. UNCHANGED <<lent, received, ordered>> /\ (PutMessage(e) \/ SendRefused(e))
    BY <1>5 DEF SendScalar
  <2> QED BY <2>1, SendMail, RefusedMail DEF MailStep, Mail!Next
<1>6. ASSUME NEW e \in Endpoint, RecvScalar(t, e) PROVE OrderInv' /\ MailStep
  <2>1. UNCHANGED <<sent, ordered>> /\ GetMessage(e)
    BY <1>6 DEF RecvScalar
  <2> QED BY <2>1, GetMail DEF MailStep, Mail!Next
<1>7. ASSUME NEW r \in held, CallTest(t, r) PROVE OrderInv' /\ MailStep
  BY <1>1, <1>7, TestIMail DEF CallTest
<1>8. ASSUME NEW r \in held, CallCancel(t, r) PROVE OrderInv' /\ MailStep
  BY <1>1, <1>8, CancelMail DEF MailStep
<1>9. ASSUME NEW b \in lent, FreePacket(t, b) PROVE OrderInv' /\ MailStep
  BY <1>9, FreeMail
<1>10. ASSUME NEW e \in Endpoint, CallSend(t, e) \/ CallRecv(t, e) PROVE OrderInv' /\ MailStep
  BY <1>2, <1>10 DEF CallSend, CallRecv
<1>11. ASSUME NEW rs \in SUBSET held, CallWait(t, rs) PROVE OrderInv' /\ MailStep
  BY <1>2, <1>11 DEF CallWait
<1>12. ASSUME Timeout(t) PROVE OrderInv' /\ MailStep
  BY <1>2, <1>12 DEF Timeout
<1> QED BY <1>3, <1>4, <1>5, <1>6, <1>7, <1>8, <1>9, <1>10, <1>11, <1>12 DEF AppCall

\* Every step of the calls is one of the mailboxes, or none.
LEMMA StepMail == Inv /\ OrderInv /\ [Next]_vars => OrderInv' /\ [Mail!Next]_Mail!vars
<1> SUFFICES ASSUME Inv, OrderInv, [Next]_vars PROVE OrderInv' /\ MailStep
  BY DEF MailStep
<1>0. Inv'
  BY StepInv
<1>1. CASE Next
  BY <1>0, <1>1, ThreadMail, AppMail DEF Next
<1>2. CASE UNCHANGED vars
  BY <1>0, <1>2, SameMail DEF MailStep, vars
<1> QED BY <1>1, <1>2

\* The queues begin empty.
LEMMA InitMail == Init => OrderInv /\ Mail!Init
<1> SUFFICES ASSUME Init PROVE OrderInv /\ Mail!Init
  OBVIOUS
<1> DEFINE q == ClearedQueue
<1>0. QueuesInv
  BY InitInv DEF Inv
<1>1. \A e \in Endpoint : queue[e] = q
  BY DEF Init
<1>2. /\ q.head = 0 /\ q.tail = 0
      /\ \A s \in Slot : BufferAt(q, s) = None /\ RequestAt(q, s) = None /\ ~InvalidAt(q, s)
  BY DEF ClearedQueue, EmptyEntry, BufferAt, RequestAt, InvalidAt
<1> HIDE DEF q
<1>3. Full(q) = {} /\ Asked(q) = {} /\ Reserved(q) = {}
  <2>1. Full(q) = {} /\ Asked(q) = {}
    BY <1>2, InFull, InAsked
  <2>2. Reserved(q) = {}
    BY <1>2, Names DEF Reserved, RequestAt
  <2> QED BY <2>1, <2>2
<1>4. Shaped(q) /\ Fifo(q)
  <2>1. \A s \in Slot : ~Before(q, s)
    <3>1. \A s \in Slot : Pos(q, s) = s /\ s \in Nat
      BY <1>2, Ring DEF Pos
    <3>2. Pos(q, q.tail) = 0
      BY <1>2, <3>1, Ring
    <3> QED BY <3>1, <3>2 DEF Before
  <2>2. Bubbles(q)
    BY <1>2, <2>1 DEF Bubbles
  <2>3. Contiguous(q) /\ Fifo(q)
    BY <1>3 DEF Contiguous, Fifo
  <2> QED BY <2>2, <2>3 DEF Shaped
<1>5. OrderInv
  BY <1>1, <1>4 DEF OrderInv
<1>6. ASSUME NEW S, NEW p, S = {} PROVE Sorted(S, p) = <<>>
  <2>1. Cardinality(S) = 0
    BY <1>6, FS_EmptySet
  <2>2. 1..0 = {}
    OBVIOUS
  <2> QED BY <2>1, <2>2 DEF Sorted
<1>7. ASSUME NEW e \in Endpoint PROVE Messages(queue[e]) = <<>> /\ Receives(queue[e]) = <<>>
  <2>1. Sorted(Full(q), SlotPos(q)) = <<>> /\ Sorted(Reserved(q), RequestPos(q)) = <<>>
    BY <1>3, <1>6
  <2>2. Receives(q) = <<>>
    BY <2>1 DEF Receives
  <2>3. Messages(q) = <<>>
    BY <2>1 DEF Messages
  <2> QED BY <1>1, <2>2, <2>3
<1>8. Mail!Init
  BY <1>7 DEF Mail!Init, Init
<1> QED BY <1>5, <1>8

\* The calls keep the promise of the mailboxes: no message is lost or received
\* twice, and until a cancel comes late the receives of an endpoint are served
\* in FIFO order (transport_sm.c, queue management).
THEOREM Refinement == Spec => ImplementsMailbox
<1>1. Inv /\ OrderInv /\ [Next]_vars => Inv' /\ OrderInv' /\ [Mail!Next]_Mail!vars
  BY StepInv, StepMail
<1> QED BY InitInv, InitMail, <1>1, PTL DEF Spec, ImplementsMailbox, Mail!Spec

=============================================================================
