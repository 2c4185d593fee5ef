-------------------------------- MODULE Tasks --------------------------------
(***************************************************************************)
(* What MTAPI promises of tasks (mtapi.c): the function of a task runs     *)
(* once; a task is complete when it has run and the tasks it has started   *)
(* are complete; the tasks of a queue run one after the other in the order *)
(* they were enqueued; a wait returns for complete tasks only.             *)
(***************************************************************************)
EXTENDS Sequences

CONSTANTS Task, Queue, None

VARIABLES
  phase,     \* of a task: "idle", "started", "running", "waiting" or "complete"
  parent,    \* the task that started it, or None
  order,     \* the tasks in a queue
  awaited    \* the tasks a wait has returned for

vars == <<phase, parent, order, awaited>>

Init ==
  /\ phase = [t \in Task |-> "idle"]
  /\ parent = [t \in Task |-> None]
  /\ order = [q \in Queue |-> <<>>]
  /\ awaited = {}

Move(t, from, to) ==
  phase[t] \in from /\ phase' = [phase EXCEPT ![t] = to]

InQueue(t, q) == \E i \in DOMAIN order[q] : order[q][i] = t

\* Started by the application or by a task that runs, with or without a queue.
Start(t) ==
  /\ Move(t, {"idle"}, "started")
  /\ \E p \in {None} \union {u \in Task : phase[u] = "running"} :
       parent' = [parent EXCEPT ![t] = p]
  /\ \/ UNCHANGED order
     \/ \E q \in Queue : order' = [order EXCEPT ![q] = Append(@, t)]
  /\ UNCHANGED awaited

\* A task in a queue runs when it is at its head.
Run(t) ==
  /\ Move(t, {"started"}, "running")
  /\ \A q \in Queue : InQueue(t, q) => Head(order[q]) = t
  /\ UNCHANGED <<parent, order, awaited>>

Returned(t) ==
  /\ Move(t, {"running"}, "waiting")
  /\ UNCHANGED <<parent, order, awaited>>

Complete(t) ==
  /\ Move(t, {"running", "waiting"}, "complete")
  /\ \A c \in Task : parent[c] = t => phase[c] = "complete"
  /\ UNCHANGED <<parent, order, awaited>>

Leave(q) ==
  /\ order[q] # <<>> /\ phase[Head(order[q])] = "complete"
  /\ order' = [order EXCEPT ![q] = Tail(@)]
  /\ UNCHANGED <<phase, parent, awaited>>

\* A wait for a task or for all tasks of a group returns.
Wait ==
  /\ awaited \subseteq awaited' /\ awaited' \subseteq Task
  /\ \A t \in awaited' \ awaited : phase[t] = "complete"
  /\ UNCHANGED <<phase, parent, order>>

Next ==
  \/ \E t \in Task : Start(t) \/ Run(t) \/ Returned(t) \/ Complete(t)
  \/ \E q \in Queue : Leave(q)
  \/ Wait

Spec == Init /\ [][Next]_vars
=============================================================================
