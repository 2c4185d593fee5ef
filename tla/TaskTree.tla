------------------------------ MODULE TaskTree ------------------------------
(***************************************************************************)
(* What the OpenUH runtime promises of explicit tasks: a task runs once,   *)
(* after its creation; a taskwait returns when the children are done; a    *)
(* task whose children use its stack frame stays until they have left; a   *)
(* thread gets through a barrier when all threads have come to it and      *)
(* every task created before it is done.                                   *)
(***************************************************************************)
EXTENDS Naturals

CONSTANTS Task, Thread, None

VARIABLES
  phase,     \* of a task: "none", "created", "running", "done" or "left"
  parent,    \* the task, or the thread's implicit task, that created it
  blocking,  \* the tasks that use the stack frame of their parent
  epoch,     \* the number of barriers before a task was created
  awaited,   \* the tasks a taskwait has returned for
  arrived,   \* the number of barriers a thread has come to,
  passed     \* and got through

vars == <<phase, parent, blocking, epoch, awaited, arrived, passed>>

Init ==
  /\ phase = [t \in Task |-> "none"]
  /\ parent = [t \in Task |-> None]
  /\ blocking \in SUBSET Task
  /\ epoch = [t \in Task |-> 0]
  /\ awaited = {}
  /\ arrived = [th \in Thread |-> 0] /\ passed = [th \in Thread |-> 0]

Over(t) == phase[t] \in {"done", "left"}

Child(t, p) == phase[t] # "none" /\ parent[t] = p

Create(t, p) ==
  /\ phase[t] = "none"
  /\ phase' = [phase EXCEPT ![t] = "created"]
  /\ parent' = [parent EXCEPT ![t] = p]
  /\ \/ p \in Thread /\ arrived[p] = passed[p] /\ epoch' = [epoch EXCEPT ![t] = passed[p]]
     \/ p \in Task /\ phase[p] = "running" /\ epoch' = [epoch EXCEPT ![t] = epoch[p]]
  /\ UNCHANGED <<blocking, awaited, arrived, passed>>

Move(t, from, to) ==
  /\ phase[t] = from /\ phase' = [phase EXCEPT ![t] = to]
  /\ UNCHANGED <<parent, blocking, epoch, awaited, arrived, passed>>

Run(t) == Move(t, "created", "running")

Done(t) == Move(t, "running", "done")

\* The stack frame of t goes away.
Leave(t) ==
  /\ \A c \in blocking : Child(c, t) => phase[c] = "left"
  /\ Move(t, "done", "left")

\* A taskwait of p returns.
Await(p) ==
  /\ \A t \in Task : Child(t, p) => Over(t)
  /\ awaited' = awaited \union {t \in Task : Child(t, p)}
  /\ UNCHANGED <<phase, parent, blocking, epoch, arrived, passed>>

Arrive(th) ==
  /\ arrived[th] = passed[th]
  /\ arrived' = [arrived EXCEPT ![th] = @ + 1]
  /\ UNCHANGED <<phase, parent, blocking, epoch, awaited, passed>>

Pass(th) ==
  /\ \A u \in Thread : arrived[u] > passed[th]
  /\ \A t \in Task : phase[t] # "none" /\ epoch[t] <= passed[th] => Over(t)
  /\ passed' = [passed EXCEPT ![th] = @ + 1]
  /\ UNCHANGED <<phase, parent, blocking, epoch, awaited, arrived>>

Next ==
  \/ \E t \in Task : Run(t) \/ Done(t) \/ Leave(t)
  \/ \E t \in Task, p \in Task \union Thread : Create(t, p)
  \/ \E p \in Task \union Thread : Await(p)
  \/ \E th \in Thread : Arrive(th) \/ Pass(th)

Spec == Init /\ [][Next]_vars
=============================================================================
