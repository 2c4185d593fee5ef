-------------------------------- MODULE Locks --------------------------------
(***************************************************************************)
(* What the mutexes, semaphores and reader-writer locks of MRAPI promise   *)
(* (mrapi.c): a lock has a number of shares, a mutex one; a node takes one *)
(* share or, as a writer, all of them; the shares taken never exceed the   *)
(* limit; a lock goes when the node that holds all shares deletes it, or   *)
(* when the last node that uses it ends.                                   *)
(***************************************************************************)
EXTENDS Integers, FiniteSets

CONSTANTS Node, Lock, MaxShares

VARIABLES
  present, \* the nodes that have not ended
  live,    \* the locks that exist
  using,   \* the nodes that have created or got a lock
  limit,   \* the shares of a lock
  owned    \* the shares of a lock a node has been granted

vars == <<present, live, using, limit, owned>>

Nobody == [n \in Node |-> 0]
Taken(l) == Cardinality({x \in Node \X (1..MaxShares) : x[2] <= owned[l][x[1]]})

Init ==
  /\ present = Node /\ live = {}
  /\ using = [l \in Lock |-> {}]
  /\ limit = [l \in Lock |-> 0]
  /\ owned = [l \in Lock |-> Nobody]

Create(n, l) ==
  /\ n \in present /\ l \notin live
  /\ live' = live \union {l}
  /\ using' = [using EXCEPT ![l] = {n}]
  /\ \E shares \in 1..MaxShares : limit' = [limit EXCEPT ![l] = shares]
  /\ owned' = [owned EXCEPT ![l] = Nobody]
  /\ UNCHANGED present

Get(n, l) ==
  /\ n \in present
  /\ using' = [using EXCEPT ![l] = @ \union {n}]
  /\ UNCHANGED <<present, live, limit, owned>>

Acquire(n, l) ==
  /\ n \in present /\ l \in live
  /\ \E shares \in {1, limit[l]} :
       /\ Taken(l) + shares <= limit[l]
       /\ owned' = [owned EXCEPT ![l][n] = @ + shares]
  /\ UNCHANGED <<present, live, using, limit>>

Release(n, l) ==
  /\ n \in present /\ l \in live /\ owned[l][n] > 0
  /\ owned' = [owned EXCEPT ![l][n] = 0]
  /\ UNCHANGED <<present, live, using, limit>>

Delete(n, l) ==
  /\ n \in present /\ l \in live /\ owned[l][n] = limit[l]
  /\ live' = live \ {l}
  /\ owned' = [owned EXCEPT ![l] = Nobody]
  /\ UNCHANGED <<present, using, limit>>

\* A node ends; a lock that another node uses stays.
Leave(n) ==
  /\ n \in present /\ present' = present \ {n}
  /\ live' \subseteq live /\ \A l \in live \ live' : using[l] \intersect present' = {}
  /\ UNCHANGED <<using, limit, owned>>

\* All nodes end: one with several shares of a lock has asked to give back fewer.
End(n, l) ==
  /\ n \in present /\ l \in live /\ owned[l][n] > 1
  /\ present' = {} /\ live' = {}
  /\ owned' = [k \in Lock |-> Nobody]
  /\ UNCHANGED <<using, limit>>

Next ==
  \E n \in Node :
    \/ Leave(n)
    \/ \E l \in Lock : \/ Create(n, l) \/ Get(n, l) \/ Acquire(n, l) \/ Release(n, l)
                       \/ Delete(n, l) \/ End(n, l)

Spec == Init /\ [][Next]_vars
=============================================================================
