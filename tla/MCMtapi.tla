------------------------------- MODULE MCMtapi -------------------------------
(***************************************************************************)
(* Instances of MtapiRemote for TLC: which programs run.                   *)
(***************************************************************************)
EXTENDS MtapiRemote, TLC

CONSTANTS a, b,            \* the nodes
          t1, t2, t3, t4,  \* the tasks
          j, k,            \* the jobs: the action of j is on a, that of k on b
          theQueue, theGroup

Nodes == {a, b}
Tasks4 == {t1, t2, t3, t4}
Jobs == {j, k}
Queues == {theQueue}
Groups == {theGroup}
Workers == [n \in Nodes |-> IF n = a THEN {"w1", "w2"} ELSE {"w1"}]

Do(what, on) == [do |-> what, on |-> on]
Act(x) == Do("action", x)
Start(t) == Do("start", t)
Wait(t) == Do("wait", t)
AllOf == Do("all", theGroup)
AnyOne == Do("any", theGroup)

\* A program: main of the nodes, bodies, tasks of job k, in the queue, in the group.
Prog(mainA, mainB, body, remote, queued, grouped) ==
  [main |-> [n \in Nodes |-> IF n = a THEN mainA ELSE mainB],
   body |-> [t \in Tasks4 |-> IF t \in DOMAIN body THEN body[t] ELSE <<>>],
   job |-> [t \in Tasks4 |-> IF t \in remote THEN k ELSE j],
   queue |-> [t \in Tasks4 |-> IF t \in queued THEN theQueue ELSE None],
   group |-> [t \in Tasks4 |-> IF t \in grouped THEN theGroup ELSE None],
   distributed |-> mainB # <<>>]

NoBody == << >>

LocalPrograms == {
  \* three tasks in a queue, waited for out of order
  Prog(<<Act(j), Start(t1), Start(t2), Start(t3), Wait(t3), Wait(t1)>>, <<>>,
       NoBody, {}, {t1, t2, t3}, {}),
  \* a group with a task of a queue; any, then all
  Prog(<<Act(j), Start(t1), Start(t2), Start(t3), AnyOne, AllOf>>, <<>>,
       NoBody, {}, {t1, t2}, {t2, t3}),
  \* children: one waited for, one not; the parent waits for both
  Prog(<<Act(j), Start(t1), Wait(t1)>>, <<>>,
       (t1 :> <<Start(t2), Start(t3), Wait(t2)>> @@ t3 :> <<Start(t4)>>), {}, {}, {}),
  \* a wait in a task, after which its currentTask is lost
  Prog(<<Act(j), Start(t1), Start(t4), Wait(t1)>>, <<>>,
       (t1 :> <<Start(t2), AnyOne, Start(t3), AllOf>>), {}, {t2, t4}, {t2, t3}) }

RemotePrograms == {
  \* a remote task and a task of its own on the other node
  Prog(<<Act(j), Start(t1), Wait(t1)>>, <<Act(k), Start(t2)>>, NoBody, {t1, t2}, {}, {}),
  \* a remote task in a queue and a group, with a child where it runs
  Prog(<<Start(t1), Start(t2), AllOf>>, <<Act(k)>>,
       (t1 :> <<Start(t3)>>), {t1, t2, t3}, {t1, t2}, {t1, t2}) }

AllPrograms == LocalPrograms \union RemotePrograms

\* The hypothesis of the theorems about waits holds of the programs that run.
ASSUME ProgramsWait == \A p \in Programs : WaitsForOwn(p)
=============================================================================
