------------------------------- MODULE Mailbox -------------------------------
(***************************************************************************)
(* What an MCAPI endpoint promises (mcapi.c, the comment on queue          *)
(* management in transport_sm.c): no message is lost or received twice,    *)
(* and the requests of an endpoint are satisfied in FIFO order: its i-th   *)
(* message is for its i-th outstanding receive.                            *)
(*                                                                         *)
(* The order of an endpoint ends with the cancel of a receive whose        *)
(* message has come while a later receive still waits for one.             *)
(***************************************************************************)
EXTENDS Integers, Sequences, SequencesExt

CONSTANTS Endpoint, Request

VARIABLES
  sent,        \* the number of messages sent: message m is the m-th
  received,    \* the messages received
  msgs,        \* the messages in an endpoint
  reqs,        \* its outstanding receives
  ordered      \* whether the endpoint keeps the order

vars == <<sent, received, msgs, reqs, ordered>>

Init ==
  /\ sent = 0
  /\ received = {}
  /\ msgs = [e \in Endpoint |-> <<>>]
  /\ reqs = [e \in Endpoint |-> <<>>]
  /\ ordered = [e \in Endpoint |-> TRUE]

Send(e) ==
  /\ sent' = sent + 1
  /\ msgs' = [msgs EXCEPT ![e] = Append(@, sent + 1)]
  /\ UNCHANGED <<received, reqs, ordered>>

GetMessage(e, i) ==
  /\ received' = received \union {msgs[e][i]}
  /\ msgs' = [msgs EXCEPT ![e] = RemoveAt(@, i)]

\* A receive that finds a message no earlier receive waits for.
Receive(e) ==
  \E i \in DOMAIN msgs[e] :
    /\ ordered[e] => i = Len(reqs[e]) + 1
    /\ GetMessage(e, i)
    /\ UNCHANGED <<sent, reqs, ordered>>

\* A receive that finds none becomes outstanding.
Ask(e, r) ==
  /\ ordered[e] => Len(msgs[e]) <= Len(reqs[e])
  /\ reqs' = [reqs EXCEPT ![e] = Append(@, r)]
  /\ UNCHANGED <<sent, received, msgs, ordered>>

\* An outstanding receive takes its message, in any order of the receives.
Take(e, i, k) ==
  /\ ordered[e] => i = k
  /\ GetMessage(e, i)
  /\ reqs' = [reqs EXCEPT ![e] = RemoveAt(@, k)]
  /\ UNCHANGED <<sent, ordered>>

\* The later receives move up.
Cancel(e, k) ==
  /\ reqs' = [reqs EXCEPT ![e] = RemoveAt(@, k)]
  /\ ordered' = [ordered EXCEPT ![e] =
                   @ /\ ~(k <= Len(msgs[e]) /\ Len(msgs[e]) < Len(reqs[e]))]
  /\ UNCHANGED <<sent, received, msgs>>

Next ==
  \E e \in Endpoint :
    \/ Send(e) \/ Receive(e)
    \/ \E r \in Request : Ask(e, r)
    \/ \E k \in DOMAIN reqs[e] : Cancel(e, k) \/ \E i \in DOMAIN msgs[e] : Take(e, i, k)

Spec == Init /\ [][Next]_vars
=============================================================================
