----------------------------- MODULE McapiQueue -----------------------------
(***************************************************************************)
(* The receive queue of an MCAPI endpoint (transport_sm.c, section queue   *)
(* management).  It is a ring of entries; an entry holds a buffer, the     *)
(* reservation of an outstanding receive, both, or neither.  Receives      *)
(* reserve entries in order, on both sides of the tail, and a message is   *)
(* taken from wherever its entry is: what it leaves behind is a bubble,    *)
(* marked invalid until the head has passed it.                            *)
(***************************************************************************)
EXTENDS Integers, FiniteSets, FiniteSetsExt

CONSTANTS
  MaxQueue,    \* MCAPI_MAX_QUEUE_ELEMENTS
  None

ASSUME QueueAssumption == MaxQueue \in Nat \ {0}

\* MCAPI_MAX_QUEUE_ENTRIES: one stays free, to tell full from empty.
Entries == MaxQueue + 1
Slot == 0..(Entries - 1)

EmptyEntry == [request |-> None, buffer |-> None, invalid |-> FALSE]
ClearedQueue == [head |-> 0, tail |-> 0, num |-> 0, elements |-> [s \in Slot |-> EmptyEntry]]

\* The queue is walked from its head.
Walk(q, i) == (q.head + i) % Entries

\* A message for a receive that comes now; an entry for one that has to wait.
Unreserved(x) == x.request = None /\ x.buffer # None
Reservable(x) == x.request = None /\ ~x.invalid
MessageSteps(q) == {i \in Slot : Unreserved(q.elements[Walk(q, i)])}
ReservableSteps(q) == {i \in Slot : Reservable(q.elements[Walk(q, i)])}

IsFull(q) == (q.tail + 1) % Entries = q.head

\* mcapi_trans_empty_queue: empty means that nothing is there for a new receive.
HasMessage(q) == q.head # q.tail /\ MessageSteps(q) # {}

\* mcapi_trans_compact_queue moves the head to the first entry in use.
Compact(q) ==
  LET InUse(i) == LET x == q.elements[Walk(q, i)]
                  IN Walk(q, i) = q.tail \/ x.request # None \/ x.buffer # None
      stop == Min({i \in Slot : InUse(i)})
      passed == {Walk(q, i) : i \in 0..(stop - 1)}
  IN [q EXCEPT !.head = Walk(q, stop),
               !.elements = [s \in Slot |->
                  IF s \in passed THEN [@[s] EXCEPT !.invalid = FALSE] ELSE @[s]]]

\* mcapi_trans_push_queue and the entry of the buffer.
Push(q, b) ==
  [q EXCEPT !.num = @ + 1,
            !.tail = (@ + 1) % Entries,
            !.elements[q.tail].buffer = b]

\* mcapi_trans_pop_queue takes the first message without a reservation.  The
\* buffer leaves the entry after the queue has been compacted.
PopSlot(q) == Walk(q, Min(MessageSteps(q)))
Pop(q) ==
  LET s == PopSlot(q)
      taken == IF s = q.head
               THEN [q EXCEPT !.num = @ - 1, !.head = (@ + 1) % Entries]
               ELSE [q EXCEPT !.num = @ - 1, !.elements[s].invalid = TRUE]
  IN [Compact(taken) EXCEPT !.elements[s].buffer = None]

\* A receive reserves the first entry that has no reservation.
Reserve(q, r) == [q EXCEPT !.elements[Walk(q, Min(ReservableSteps(q)))].request = r]

SlotOf(q, r) == Min({s \in Slot : q.elements[s].request = r})

\* Fault: the bubble is not marked invalid.
TakeReservedUnmarked(q, r) ==
  LET s == SlotOf(q, r)
  IN Compact([q EXCEPT !.num = @ - 1,
                       !.elements[s] = [request |-> None, buffer |-> None, invalid |-> FALSE]])

\* Fault: num_elements is not decreased.
TakeReservedUncounted(q, r) ==
  LET s == SlotOf(q, r)
  IN Compact([q EXCEPT !.elements[s] =
                [request |-> None, buffer |-> None, invalid |-> TRUE]])

\* check_receive_request_have_lock takes the message of a reservation.
TakeReserved(q, r) ==
  LET s == SlotOf(q, r)
  IN Compact([q EXCEPT !.num = @ - 1,
                       !.elements[s] = [request |-> None, buffer |-> None, invalid |-> TRUE]])

\* cancel_receive_request_have_lock shifts later reservations down; it goes
\* on to the tail or the head and not beyond.
Unreserve(q, r) ==
  LET start == SlotOf(q, r)
      after(i) == (start + i) % Entries
      bounds == {i \in 1..(Entries - 1) : after(i) \in {q.head, q.tail}}
      last == Min(bounds \union {Entries})
      holders == {i \in 1..(last - 1) : q.elements[after(i)].request # None}
      moved == {0} \union holders
      next(i) == {k \in holders : k > i}
      shifted(i) == IF next(i) = {} THEN None ELSE q.elements[after(Min(next(i)))].request
      offset(s) == (s - start + Entries) % Entries
  IN [q EXCEPT !.elements = [s \in Slot |->
        IF offset(s) \in moved THEN [@[s] EXCEPT !.request = shifted(offset(s))] ELSE @[s]]]
=============================================================================
