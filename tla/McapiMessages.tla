---------------------------- MODULE McapiMessages ----------------------------
(***************************************************************************)
(* Messages, packets and scalars of MCAPI over shared memory               *)
(* (mcapi_trans_sm/transport_sm.c).  Every call runs under the lock of the *)
(* database and is one step; the blocking calls are loops of such steps:   *)
(* they retry until they get a request, then test it until it has          *)
(* completed.  Endpoints are created, connected and open.                  *)
(***************************************************************************)
EXTENDS McapiQueue, Sequences, SequencesExt

CONSTANTS
  Thread,
  Endpoint,
  Kind,          \* recv_queue.channel_type: "message", "packet" or "scalar"
  MaxBuffers,    \* MCAPI_MAX_BUFFERS
  Request,       \* the indices of the requests array
  MaxSent,       \* bound: messages sent in a behaviour
  Applications   \* the applications: what each thread may call, and on which endpoints

ASSUME MessagesAssumption ==
  /\ MaxBuffers \in Nat /\ MaxSent \in Nat
  /\ IsFiniteSet(Request) /\ None \notin Request \union Nat
  /\ Kind \in [Endpoint -> {"message", "packet", "scalar"}]
  /\ Applications \subseteq [Thread -> [calls : SUBSET STRING, on : SUBSET Endpoint]]

Buffer == 1..MaxBuffers
Status == {"success", "request_limit", "mem_limit"}

VARIABLES
  app,         \* the application that runs
  queue,       \* recv_queue of an endpoint
  buffers,     \* the message in a buffer; None when magic_num is 0
  requests,    \* the requests array; Cleared when valid is false
  free,        \* the list from empty_head_index
  call,        \* the call a thread is in
  held,        \* handles of non-blocking calls the application may use
  lent,        \* packet buffers the application has not released
  sent,        \* the number of messages sent so far
  received,    \* the messages copied, or lent, to the application
  ordered      \* history: see Mailbox

vars == <<app, queue, buffers, requests, free, call, held, lent, sent, received,
          ordered>>

Cleared == [type |-> "other", on |-> None, completed |-> FALSE, status |-> "success"]
NoCall == [do |-> "none"]
InLoop(what, e, status) == [do |-> what, on |-> e, status |-> status]
Waiting(rs, blocking) == [do |-> "wait", on |-> rs, blocking |-> blocking]

Init ==
  /\ app \in Applications
  /\ queue = [e \in Endpoint |-> ClearedQueue]
  /\ buffers = [b \in Buffer |-> None]
  /\ requests = [r \in Request |-> Cleared]
  /\ free = SetToSeq(Request)
  /\ call = [t \in Thread |-> NoCall]
  /\ held = {} /\ lent = {} /\ sent = 0 /\ received = {}
  /\ ordered = [e \in Endpoint |-> TRUE]

Enter(t, c) == call' = [call EXCEPT ![t] = c]
Calls(t, what) == call[t] = NoCall /\ what \in app[t].calls
CallsOn(t, what, e) == Calls(t, what) /\ e \in app[t].on
Doing(t, what) == call[t].do = what
WaitedFor == UNION {call[t].on : t \in {u \in Thread : Doing(u, "wait")}}

-----------------------------------------------------------------------------
(* Requests *)

\* Fault: the index stays in the list.
ReserveRequestKeeps(r) == free # <<>> /\ r = Head(free) /\ UNCHANGED free

\* mcapi_trans_reserve_request_have_lock
ReserveRequest(r) == free # <<>> /\ r = Head(free) /\ free' = Tail(free)

\* setup_request_have_lock
SetupRequest(r, type, e, completed, status) ==
  requests' = [requests EXCEPT ![r] =
    [type |-> type, on |-> e, completed |-> completed, status |-> status]]

\* The end of mcapi_trans_test_i, with mcapi_trans_remove_request_have_lock.
CollectRequest(r) ==
  /\ free' = <<r>> \o free
  /\ requests' = [requests EXCEPT ![r] = Cleared]

-----------------------------------------------------------------------------
(* Sending and receiving *)

FreeBuffers == {b \in Buffer : buffers[b] = None}

\* mcapi_trans_send_have_lock, when there is room.
PutMessage(e) ==
  /\ ~IsFull(queue[e]) /\ FreeBuffers # {} /\ sent < MaxSent
  /\ sent' = sent + 1
  /\ buffers' = [buffers EXCEPT ![Min(FreeBuffers)] = sent + 1]
  /\ queue' = [queue EXCEPT ![e] = Push(@, Min(FreeBuffers))]

\* mcapi_trans_send_have_lock, when there is none.
SendRefused(e) ==
  /\ IsFull(queue[e]) \/ FreeBuffers = {}
  /\ queue' = [queue EXCEPT ![e] = IF IsFull(@) THEN Compact(@) ELSE @]
  /\ UNCHANGED <<buffers, sent>>

\* mcapi_trans_recv_have_lock_: a packet stays in its buffer.
Deliver(e, b) ==
  /\ received' = received \union {buffers[b]}
  /\ IF Kind[e] = "packet"
     THEN lent' = lent \union {b} /\ UNCHANGED buffers
     ELSE buffers' = [buffers EXCEPT ![b] = None] /\ UNCHANGED lent

\* mcapi_trans_recv_have_lock of a queue that is not empty
GetMessage(e) ==
  /\ HasMessage(queue[e])
  /\ Deliver(e, queue[e].elements[PopSlot(queue[e])].buffer)
  /\ queue' = [queue EXCEPT ![e] = Pop(@)]

\* mcapi_trans_msg_send_i and mcapi_trans_pktchan_send_i.  A status that is
\* not success on entry completes the request and sends nothing.
SendI(e, status, r) ==
  /\ Kind[e] # "scalar" /\ ReserveRequest(r)
  /\ \/ status = "success" /\ PutMessage(e) /\ SetupRequest(r, "send", e, TRUE, "success")
     \/ status = "success" /\ SendRefused(e) /\ SetupRequest(r, "send", e, TRUE, "mem_limit")
     \/ status # "success" /\ SetupRequest(r, "send", e, TRUE, status)
                           /\ UNCHANGED <<queue, buffers, sent>>
  /\ UNCHANGED <<app, lent, received, ordered>>

\* mcapi_trans_msg_recv_i and mcapi_trans_pktchan_recv_i.  A receive that
\* finds nothing reserves an entry of the queue, if one is left.
RecvI(e, status, r) ==
  /\ Kind[e] # "scalar" /\ ReserveRequest(r)
  /\ \/ status = "success" /\ GetMessage(e) /\ SetupRequest(r, "recv", e, TRUE, "success")
     \/ /\ status = "success" /\ ~HasMessage(queue[e])
        /\ ReservableSteps(queue[e]) # {}
        /\ queue' = [queue EXCEPT ![e] = Reserve(@, r)]
        /\ SetupRequest(r, "recv", e, FALSE, "success")
        /\ UNCHANGED <<buffers, lent, received>>
     \/ /\ status = "success" /\ ~HasMessage(queue[e])
        /\ ReservableSteps(queue[e]) = {}
        /\ SetupRequest(r, "recv", e, TRUE, "mem_limit")
        /\ UNCHANGED <<queue, buffers, lent, received>>
     \/ status # "success" /\ SetupRequest(r, "recv", e, TRUE, status)
                           /\ UNCHANGED <<queue, buffers, lent, received>>
  /\ UNCHANGED <<app, sent, ordered>>

\* Fault: only the head of the queue is looked at.
ArrivedAtHead(r) ==
  /\ requests[r].type = "recv" /\ ~requests[r].completed
  /\ LET q == queue[requests[r].on]
     IN q.elements[q.head].request = r /\ q.elements[q.head].buffer # None

\* check_receive_request_have_lock: the message of a reservation has come.
Arrived(r) ==
  /\ requests[r].type = "recv" /\ ~requests[r].completed
  /\ LET q == queue[requests[r].on] IN q.elements[SlotOf(q, r)].buffer # None

TakeMessage(r) ==
  LET e == requests[r].on
      s == SlotOf(queue[e], r)
  IN /\ Deliver(e, queue[e].elements[s].buffer)
     /\ queue' = [queue EXCEPT ![e] = TakeReserved(@, r)]

\* mcapi_trans_test_i, when it returns true.
TestI(r) ==
  /\ \/ requests[r] = Cleared
        /\ UNCHANGED <<queue, buffers, requests, free, lent, received>>
     \/ requests[r].completed /\ CollectRequest(r)
        /\ UNCHANGED <<queue, buffers, lent, received>>
     \/ Arrived(r) /\ TakeMessage(r) /\ CollectRequest(r)
  /\ held' = held \ {r}
  /\ UNCHANGED <<app, sent, ordered>>

-----------------------------------------------------------------------------
(* What a thread of the application does *)

\* The non-blocking calls.
CallSendI(t, e) ==
  /\ CallsOn(t, "send_i", e)
  /\ \E r \in Request : SendI(e, "success", r) /\ held' = held \union {r}
  /\ UNCHANGED call

CallRecvI(t, e) ==
  /\ CallsOn(t, "recv_i", e)
  /\ \E r \in Request : RecvI(e, "success", r) /\ held' = held \union {r}
  /\ UNCHANGED call

\* mcapi_trans_msg_send and mcapi_trans_pktchan_send retry as long as the
\* status is request_limit; the status is an input of the next try.
CallSend(t, e) ==
  /\ CallsOn(t, "send", e) /\ Kind[e] # "scalar"
  /\ Enter(t, InLoop("send", e, "success"))
  /\ UNCHANGED <<app, queue, buffers, requests, free, held, lent, sent, received, ordered>>

SendLoop(t) ==
  /\ Doing(t, "send")
  /\ \/ /\ free = <<>> /\ Enter(t, [call[t] EXCEPT !.status = "request_limit"])
        /\ UNCHANGED <<app, queue, buffers, requests, free, lent, sent, received, ordered>>
     \/ \E r \in Request :
          SendI(call[t].on, call[t].status, r) /\ Enter(t, Waiting({r}, TRUE))
  /\ UNCHANGED held

\* mcapi_trans_msg_recv and mcapi_trans_pktchan_recv: nothing resets the status.
CallRecv(t, e) ==
  /\ CallsOn(t, "recv", e) /\ Kind[e] # "scalar"
  /\ Enter(t, InLoop("recv", e, "success"))
  /\ UNCHANGED <<app, queue, buffers, requests, free, held, lent, sent, received, ordered>>

RecvLoop(t) ==
  /\ Doing(t, "recv")
  /\ \/ /\ free = <<>> /\ Enter(t, [call[t] EXCEPT !.status = "request_limit"])
        /\ UNCHANGED <<app, queue, buffers, requests, free, lent, sent, received, ordered>>
     \/ \E r \in Request :
          /\ RecvI(call[t].on, call[t].status, r)
          /\ IF call[t].status = "request_limit"
             THEN UNCHANGED call
             ELSE Enter(t, Waiting({r}, TRUE))
  /\ UNCHANGED held

\* mcapi_trans_wait and mcapi_trans_wait_any, of requests no other thread waits for.
CallWait(t, rs) ==
  /\ Calls(t, "wait") /\ rs # {} /\ rs \subseteq held \ WaitedFor
  /\ Enter(t, Waiting(rs, FALSE))
  /\ UNCHANGED <<app, queue, buffers, requests, free, held, lent, sent, received, ordered>>

WaitLoop(t) ==
  /\ Doing(t, "wait")
  /\ \E r \in call[t].on : TestI(r)
  /\ Enter(t, NoCall)

\* The request stays.
Timeout(t) ==
  /\ Doing(t, "wait") /\ ~call[t].blocking
  /\ Enter(t, NoCall)
  /\ UNCHANGED <<app, queue, buffers, requests, free, held, lent, sent, received, ordered>>

CallTest(t, r) ==
  /\ Calls(t, "test") /\ r \in held \ WaitedFor
  /\ TestI(r)
  /\ UNCHANGED call

\* A message came for a receive that is cancelled while another receive waits.
Late(q, r) ==
  /\ q.elements[SlotOf(q, r)].buffer # None
  /\ \E s \in Slot : q.elements[s].request # None /\ q.elements[s].buffer = None

\* mcapi_trans_cancel of a receive, also while another thread waits for it.
\* The request is cleared and not put back into the list.
CallCancel(t, r) ==
  /\ Calls(t, "cancel") /\ r \in held
  /\ requests[r].type = "recv" /\ ~requests[r].completed
  /\ LET e == requests[r].on
     IN /\ queue' = [queue EXCEPT ![e] = Unreserve(@, r)]
        /\ ordered' = [ordered EXCEPT ![e] = @ /\ ~Late(queue[e], r)]
  /\ requests' = [requests EXCEPT ![r] = Cleared]
  /\ held' = held \ {r}
  /\ UNCHANGED <<app, buffers, free, call, lent, sent, received>>

\* mcapi_trans_pktchan_free
FreePacket(t, b) ==
  /\ Calls(t, "free") /\ b \in lent
  /\ buffers' = [buffers EXCEPT ![b] = None]
  /\ lent' = lent \ {b}
  /\ UNCHANGED <<app, queue, requests, free, call, held, sent, received, ordered>>

\* mcapi_trans_sclchan_send and mcapi_trans_sclchan_recv use no request.
SendScalar(t, e) ==
  /\ CallsOn(t, "send", e) /\ Kind[e] = "scalar"
  /\ PutMessage(e) \/ SendRefused(e)
  /\ UNCHANGED <<app, requests, free, call, held, lent, received, ordered>>

RecvScalar(t, e) ==
  /\ CallsOn(t, "recv", e) /\ Kind[e] = "scalar" /\ GetMessage(e)
  /\ UNCHANGED <<app, requests, free, call, held, sent, ordered>>

ThreadStep(t) == SendLoop(t) \/ RecvLoop(t) \/ WaitLoop(t)

AppCall(t) ==
  \/ \E e \in Endpoint :
       \/ CallSendI(t, e) \/ CallRecvI(t, e) \/ CallSend(t, e) \/ CallRecv(t, e)
       \/ SendScalar(t, e) \/ RecvScalar(t, e)
  \/ \E rs \in SUBSET held : CallWait(t, rs)
  \/ \E r \in held : CallTest(t, r) \/ CallCancel(t, r)
  \/ \E b \in lent : FreePacket(t, b)
  \/ Timeout(t)

Next == \E t \in Thread : ThreadStep(t) \/ AppCall(t)

Spec == Init /\ [][Next]_vars

\* Threads in a call go on; the lock of the database is taken in the end.
FairSpec == Spec /\ \A t \in Thread : WF_vars(ThreadStep(t))

-----------------------------------------------------------------------------
(* Properties *)

EntryType == [request : Request \union {None}, buffer : Buffer \union {None},
              invalid : BOOLEAN]

CallType ==
  {NoCall}
    \union [do : {"send", "recv"}, on : Endpoint, status : Status]
    \union [do : {"wait"}, on : (SUBSET Request) \ {{}}, blocking : BOOLEAN]

\* Every part of the database has its type, and an index is free once only.
TypeOK ==
  /\ app \in Applications
  /\ queue \in [Endpoint -> [head : Slot, tail : Slot, num : 0..MaxQueue,
                             elements : [Slot -> EntryType]]]
  /\ buffers \in [Buffer -> 1..MaxSent \union {None}]
  /\ requests \in [Request -> [type : {"other", "send", "recv"},
                               on : Endpoint \union {None},
                               completed : BOOLEAN, status : Status]]
  /\ IsInjective(free) /\ ToSet(free) \subseteq Request
  /\ \A r \in ToSet(free) : requests[r] = Cleared
  /\ call \in [Thread -> CallType]
  /\ held \subseteq Request /\ lent \subseteq Buffer
  /\ sent \in 0..MaxSent /\ received \subseteq 1..sent
  /\ ordered \in [Endpoint -> BOOLEAN]

Outstanding(r) == requests[r].type = "recv" /\ ~requests[r].completed

\* Whatever the order of sends, receives, tests and cancels: the counter of a
\* queue (mcapi_msg_available) is the number of its messages, a buffer in use
\* is in one entry of one queue or lent, and an outstanding receive has one
\* reservation, in its own queue.  The assertions of pop_queue, compact_queue,
\* check_receive_request and cancel_receive_request hold because of this.
QueueExact ==
  /\ \A e \in Endpoint :
       LET q == queue[e]
       IN /\ q.num = Cardinality({s \in Slot : q.elements[s].buffer # None})
          /\ q.num > 0 => q.head # q.tail
          /\ \A s \in Slot : q.elements[s].request # None =>
               Outstanding(q.elements[s].request) /\ requests[q.elements[s].request].on = e
  /\ \A b \in Buffer :
       LET places == {p \in Endpoint \X Slot : queue[p[1]].elements[p[2]].buffer = b}
       IN /\ Cardinality(places) <= 1
          /\ (buffers[b] # None) <=> (places # {} \/ b \in lent)
          /\ ~(places # {} /\ b \in lent)
  /\ \A r \in Request : Outstanding(r) =>
       Cardinality({s \in Slot : queue[requests[r].on].elements[s].request = r}) = 1

\* How far an entry is from the head.
Pos(q, s) == IF s >= q.head THEN s - q.head ELSE s - q.head + Entries

\* The entries with a message, and the receives that have a reservation.
Full(q) == {s \in Slot : q.elements[s].buffer # None}
Reserved(q) == {r \in Request : \E s \in Slot : q.elements[s].request = r}

\* The elements of a set in the order of their positions.
Rank(S, pos, x) == Cardinality({y \in S : pos[y] <= pos[x]})
Sorted(S, pos) == [i \in 1..Cardinality(S) |-> CHOOSE x \in S : Rank(S, pos, x) = i]

\* The queue from its head: its messages, and its outstanding receives.
SlotPos(q) == [s \in Slot |-> Pos(q, s)]
RequestPos(q) == [r \in Reserved(q) |-> Pos(q, SlotOf(q, r))]
Messages(q) ==
  LET slots == Sorted(Full(q), SlotPos(q))
  IN [i \in DOMAIN slots |-> buffers[q.elements[slots[i]].buffer]]
Receives(q) == Sorted(Reserved(q), RequestPos(q))

Mail == INSTANCE Mailbox WITH
          msgs <- [e \in Endpoint |-> Messages(queue[e])],
          reqs <- [e \in Endpoint |-> Receives(queue[e])]

\* The ring with its bubbles and reservations is a mailbox: no message is lost
\* or received twice, and as long as no cancel comes late the requests are
\* satisfied in FIFO order (transport_sm.c, queue management).
ImplementsMailbox == Mail!Spec

Ready(r) ==
  \/ requests[r].completed
  \/ \E e \in Endpoint, s \in Slot :
       queue[e].elements[s].request = r /\ queue[e].elements[s].buffer # None

\* A thread in mcapi_wait or mcapi_wait_any returns when a request it waits for
\* has completed or its message has come, whatever other threads send, receive
\* and cancel in the meantime.
WaitEnds ==
  \A t \in Thread, r \in Request :
    Doing(t, "wait") /\ r \in call[t].on /\ Ready(r) ~> ~Doing(t, "wait")
=============================================================================
