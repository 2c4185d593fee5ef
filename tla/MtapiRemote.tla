----------------------------- MODULE MtapiRemote -----------------------------
(***************************************************************************)
(* Remote tasks of the MTAPI runtime (MTAPI/mtapi/src/mtapi_runtime.c),    *)
(* composed with MtapiTasks: two nodes, each with a list of messages, the  *)
(* thread processer_func, which processes the messages of the list and     *)
(* sends to the other node, and the thread listener_func, which receives,  *)
(* acknowledges and puts what it received into the list.                   *)
(*                                                                         *)
(* MCAPI is external here: an endpoint is a FIFO channel without loss.     *)
(***************************************************************************)
EXTENDS MtapiTasks

VARIABLES
  messages,    \* messageListHead ... messageListTail of a node
  served,      \* message->type of the message a task was received with
  net,         \* messages sent to the listener of a node
  acks,        \* acknowledgements sent to the processer of a node
  processer    \* where processer_func is, and its message

remoteVars == <<messages, served, net, acks, processer>>
vars == <<taskVars, remoteVars>>

ASSUME RemoteAssumption ==
  \A p \in Programs : p.distributed => \E m, n \in Node : m # n /\ Node = {m, n}

Other(n) == CHOOSE m \in Node : m # n

\* The types of messages and what they are about.  The type of a received
\* task's message changes while it is in the list: RECEIVE_REMOTE_TASK,
\* AWAIT_LOCAL_TASK, COMPLETE_LOCAL_TASK; it is kept in served.
Message ==
  [type : {"CREATE_ACTION", "ADD_REMOTE_ACTION"}, on : Job]
    \union [type : {"START_REMOTE_TASK", "SERVE", "COMPLETE_REMOTE_TASK"}, on : Task]

Msg(type, on) == [type |-> type, on |-> on]
Idle == [at |-> "idle", msg |-> None]

\* What listener_func makes of a message it receives.
Decode(m) ==
  CASE m.type = "START_REMOTE_TASK"    -> Msg("SERVE", m.on)
    [] m.type = "COMPLETE_LOCAL_TASK"  -> Msg("COMPLETE_REMOTE_TASK", m.on)
    [] m.type = "CREATE_ACTION"        -> Msg("ADD_REMOTE_ACTION", m.on)

Init ==
  /\ TasksInit
  /\ messages = [n \in Node |-> <<>>]
  /\ served = [t \in Task |-> "RECEIVE_REMOTE_TASK"]
  /\ net = [n \in Node |-> <<>>]
  /\ acks = [n \in Node |-> 0]
  /\ processer = [n \in Node |-> Idle]

InsertMessage(n, m) == messages' = [messages EXCEPT ![n] = Append(@, m)]
SendTo(n, m) == net' = [net EXCEPT ![n] = Append(@, m)]

-----------------------------------------------------------------------------
(* What the threads of MtapiTasks do with messages *)

\* The end of mtapiRT_createAction.
Announce(th) ==
  /\ At(th, "announce")
  /\ InsertMessage(th[1], Msg("CREATE_ACTION", On(th)))
  /\ NextOp(th)
  /\ UNCHANGED <<prog, action, task, taskList, queue, group, current,
                 filled, awaited, served, net, acks, processer>>

\* ProcessTask of a task whose action is on the other node.
InsertStart(th) ==
  /\ At(th, "send")
  /\ InsertMessage(th[1], Msg("START_REMOTE_TASK", Mine(th)))
  /\ Goto(th, "schedule")
  /\ UNCHANGED <<prog, action, task, taskList, queue, group, current,
                 filled, awaited, served, net, acks, processer>>

\* The last stage of SetTaskComplete: the message can be answered.
MessageComplete(th) ==
  /\ Completing(th, "message")
  /\ served' = [served EXCEPT ![Mine(th)] = "COMPLETE_LOCAL_TASK"]
  /\ UNCHANGED <<prog, action, task, taskList, queue, group, current,
                 filled, awaited, messages, net, acks, processer>>

ThreadStep(th) ==
  \/ TaskStep(th) /\ UNCHANGED remoteVars
  \/ Announce(th) \/ InsertStart(th) \/ MessageComplete(th)

-----------------------------------------------------------------------------
(* processer_func and ProcessMessage *)

Processer(n, at) == processer[n].at = at
Step(n, at) == processer' = [processer EXCEPT ![n].at = at]
Done(n) == processer' = [processer EXCEPT ![n] = Idle]

PopMessage(n) ==
  /\ Processer(n, "idle") /\ messages[n] # <<>>
  /\ messages' = [messages EXCEPT ![n] = Tail(@)]
  /\ processer' = [processer EXCEPT ![n] = [at |-> "process", msg |-> Head(messages[n])]]
  /\ UNCHANGED <<taskVars, served, net, acks>>

Handling(n, type) == Processer(n, "process") /\ processer[n].msg.type = type
Subject(n) == processer[n].msg.on

\* CreateAction tells the other node and needs no acknowledgement.
SendAction(n) ==
  /\ Handling(n, "CREATE_ACTION")
  /\ SendTo(Other(n), Msg("CREATE_ACTION", Subject(n)))
  /\ Done(n)
  /\ UNCHANGED <<taskVars, messages, served, acks>>

\* AddRemoteAction, mtapiRT_createActionDummy
AddRemoteAction(n) ==
  /\ Handling(n, "ADD_REMOTE_ACTION")
  /\ action' = [action EXCEPT ![n][Subject(n)] = IF @ = None THEN "REMOTE" ELSE @]
  /\ Done(n)
  /\ UNCHANGED <<prog, task, taskList, queue, group, stack, current,
                 filled, awaited, messages, served, net, acks>>

\* StartRemoteTask sends the task and waits for the acknowledgement.
StartRemoteTask(n) ==
  /\ Handling(n, "START_REMOTE_TASK")
  /\ SendTo(Other(n), Msg("START_REMOTE_TASK", Subject(n)))
  /\ Step(n, "ack")
  /\ UNCHANGED <<taskVars, messages, served, acks>>

AwaitAck(n) ==
  /\ Processer(n, "ack") /\ acks[n] > 0
  /\ acks' = [acks EXCEPT ![n] = @ - 1]
  /\ Done(n)
  /\ UNCHANGED <<taskVars, messages, served, net>>

\* ReceiveRemoteTask: mtapiRT_startTask with the message, without a queue or
\* a group; currentTask of the processer is NULL.
ReceiveRemoteTask(n) ==
  /\ Handling(n, "SERVE") /\ served[Subject(n)] = "RECEIVE_REMOTE_TASK"
  /\ NewTask(n, Subject(n), None, None, None, TRUE)
  /\ Step(n, "list")
  /\ UNCHANGED <<prog, action, taskList, queue, group, stack, current,
                 filled, awaited, messages, served, net, acks>>

ListReceived(n) ==
  /\ Processer(n, "list")
  /\ InsertTask(n, Subject(n))
  /\ Step(n, "await")
  /\ UNCHANGED <<prog, action, task, queue, group, stack, current,
                 filled, awaited, messages, served, net, acks>>

\* The end of ReceiveRemoteTask, after the task can have been run.
SetAwaiting(n) ==
  /\ Processer(n, "await")
  /\ served' = [served EXCEPT ![Subject(n)] = "AWAIT_LOCAL_TASK"]
  /\ InsertMessage(n, processer[n].msg)
  /\ Done(n)
  /\ UNCHANGED <<taskVars, net, acks>>

\* ProcessMessage has read the type; AwaitLocalTask inserts the message again.
SeeAwaiting(n) ==
  /\ Handling(n, "SERVE") /\ served[Subject(n)] = "AWAIT_LOCAL_TASK"
  /\ Step(n, "again")
  /\ UNCHANGED <<taskVars, messages, served, net, acks>>

AwaitLocalTask(n) ==
  /\ Processer(n, "again")
  /\ InsertMessage(n, processer[n].msg)
  /\ Done(n)
  /\ UNCHANGED <<taskVars, served, net, acks>>

\* CompleteLocalTask sends the result and waits for the acknowledgement.
CompleteLocalTask(n) ==
  /\ Handling(n, "SERVE") /\ served[Subject(n)] = "COMPLETE_LOCAL_TASK"
  /\ SendTo(Other(n), Msg("COMPLETE_LOCAL_TASK", Subject(n)))
  /\ Step(n, "ack")
  /\ UNCHANGED <<taskVars, messages, served, acks>>

\* Fault: the result is not copied.
CompleteRemoteTaskEmpty(n) ==
  /\ Handling(n, "COMPLETE_REMOTE_TASK")
  /\ task' = [task EXCEPT ![n][Subject(n)].status = "WAITING"]
  /\ Done(n)
  /\ UNCHANGED <<prog, action, taskList, queue, group, stack, current,
                 filled, awaited, messages, served, net, acks>>

\* CompleteRemoteTask copies the result and lets the task be completed.
CompleteRemoteTask(n) ==
  /\ Handling(n, "COMPLETE_REMOTE_TASK")
  /\ filled' = filled \union {<<n, Subject(n)>>}
  /\ task' = [task EXCEPT ![n][Subject(n)].status = "WAITING"]
  /\ Done(n)
  /\ UNCHANGED <<prog, action, taskList, queue, group, stack, current,
                 awaited, messages, served, net, acks>>

ProcesserStep(n) ==
  \/ PopMessage(n) \/ SendAction(n) \/ AddRemoteAction(n)
  \/ StartRemoteTask(n) \/ AwaitAck(n)
  \/ ReceiveRemoteTask(n) \/ ListReceived(n) \/ SetAwaiting(n)
  \/ SeeAwaiting(n) \/ AwaitLocalTask(n)
  \/ CompleteLocalTask(n) \/ CompleteRemoteTask(n)

\* Fault: results are not acknowledged.
ListenerStepTasksOnly(n) ==
  /\ net[n] # <<>>
  /\ net' = [net EXCEPT ![n] = Tail(@)]
  /\ acks' = [acks EXCEPT ![Other(n)] =
                IF Head(net[n]).type = "START_REMOTE_TASK" THEN @ + 1 ELSE @]
  /\ InsertMessage(n, Decode(Head(net[n])))
  /\ UNCHANGED <<taskVars, served, processer>>

\* listener_func: receives a message, acknowledges a task or a result, and
\* inserts the message, all under messageListMutex.
ListenerStep(n) ==
  /\ net[n] # <<>>
  /\ net' = [net EXCEPT ![n] = Tail(@)]
  /\ acks' = [acks EXCEPT ![Other(n)] =
                IF Head(net[n]).type = "CREATE_ACTION" THEN @ ELSE @ + 1]
  /\ InsertMessage(n, Decode(Head(net[n])))
  /\ UNCHANGED <<taskVars, served, processer>>

-----------------------------------------------------------------------------
Next ==
  \/ \E th \in Thread : ThreadStep(th)
  \/ \E n \in Node : ProcesserStep(n) \/ ListenerStep(n)

Spec == Init /\ [][Next]_vars

\* Every thread runs: all of them poll, none waits for an event that the
\* scheduler could withhold.
Fairness ==
  /\ \A th \in Thread : WF_vars(ThreadStep(th))
  /\ \A n \in Node : WF_vars(ProcesserStep(n)) /\ WF_vars(ListenerStep(n))

FairSpec == Spec /\ Fairness

-----------------------------------------------------------------------------
(* Properties *)

\* The type of the state; an action of a job is on one node at most.
TypeOK ==
  /\ prog \in Programs
  /\ action \in [Node -> [Job -> {None, "LOCAL", "REMOTE"}]]
  /\ \A n \in Node, t \in Task : task[n][t] \in
       [status : {"NONE", "CREATED", "RUNNING", "WAITING", "SCHEDULED", "COMPLETED"},
        type : {None, "LOCAL", "REMOTE"}, parent : Task \union {None},
        childCount : Nat, queue : Queue \union {None}, group : Group \union {None},
        message : BOOLEAN]
  /\ taskList \in [Node -> Seq(Task)]
  /\ queue \in [Queue -> Seq(Task)]
  /\ group \in [Group -> [num : Nat, current : Nat, result : Task \union {None}]]
  /\ \A th \in Thread : stack[th] \in
       Seq([task : Task \union {None}, at : Place, ip : Nat \ {0},
            stages : Seq(Stage), seen : Nat])
  /\ current \in [Thread -> Task \union {None}]
  /\ filled \subseteq Node \X Task
  /\ awaited \subseteq Task
  /\ messages \in [Node -> Seq(Message)]
  /\ served \in [Task -> {"RECEIVE_REMOTE_TASK", "AWAIT_LOCAL_TASK", "COMPLETE_LOCAL_TASK"}]
  /\ acks \in [Node -> Nat]

\* The node that started a task; the other one may serve it.
StartedOn(n, t) == task[n][t].status # "NONE" /\ ~task[n][t].message

\* A thread is at some place of the start of a task of its node.
Starting(n, t, places) ==
  \/ \E th \in Thread : /\ th[1] = n /\ stack[th] # <<>>
                        /\ Top(th).at \in places /\ On(th) = t
  \/ "list" \in places /\ Processer(n, "list") /\ Subject(n) = t

\* How often a task is in the list of its node, in a call of ProcessTask or
\* about to be listed for the first time.
Places(n, t) ==
    Cardinality({i \in DOMAIN taskList[n] : taskList[n][i] = t})
  + Cardinality(UNION {{<<th, i>> : i \in {k \in DOMAIN stack[th] : stack[th][k].task = t}} :
                         th \in {x \in Thread : x[1] = n}})
  + IF Starting(n, t, {"entry", "grow", "count", "list"}) THEN 1 ELSE 0

\* No task is lost and none is in two hands: until it is complete a task is
\* in the list or with one thread (InsertTask, GetTaskFromHead, ProcessTask).
NoneLostOrShared ==
  \A n \in Node, t \in Task :
    /\ Places(n, t) <= 1
    /\ task[n][t].status \notin {"NONE", "COMPLETED"} => Places(n, t) = 1

\* What is left of SetTaskComplete for a task.
Left(n, t) ==
  UNION {ToSet(stack[th][Len(stack[th])].stages) :
           th \in {x \in Thread : x[1] = n /\ At(x, "complete") /\ Mine(x) = t}}

\* The task counts, with its parent or its group, until that stage is done.
Counts(n, t, stage) ==
  task[n][t].status \notin {"NONE", "COMPLETED"} \/ stage \in Left(n, t)

\* The counters waitForGroupAll and ProcessTask decide by are exact in every
\* state: childCount is the number of children, currentNumOfTask the number
\* of members, that have not been signed off; at most numOfTask are counted.
CountersExact ==
  /\ \A n \in Node, t \in Task : task[n][t].status # "NONE" =>
       task[n][t].childCount =
         Cardinality({c \in Task : task[n][c].parent = t /\ Counts(n, c, "parent")})
  /\ \A g \in Group : group[g].current =
       Cardinality({p \in Node \X Task :
         /\ task[p[1]][p[2]].group = g /\ Counts(p[1], p[2], "group")
         /\ ~Starting(p[1], p[2], {"entry", "grow"})})

\* When a wait has returned for a task, its result is in the buffer the
\* application gave for it, also if the task ran on the other node.
ResultsThere ==
  \A t \in awaited, n \in Node : StartedOn(n, t) => <<n, t>> \in filled

\* waitForGroupAny returns only after a task of the group has completed.
AnyAfterFirst ==
  [][\A th \in Thread : FetchResult(th) =>
       \E t \in Members(th[1], On(th)) : task[th[1]][t].status = "COMPLETED"]_vars

\* The phase of a task as the promise sees it: the function of a remote task
\* runs on the other node, but the task is complete when it is so where it
\* was started.
Phase(t) ==
  LET Is(status) == \E n \in Node : task[n][t].status = status IN
  IF \A n \in Node : StartedOn(n, t) =>
       /\ task[n][t].status = "CREATED" /\ task[n][t].queue # None
       /\ t \notin ToSet(queue[task[n][t].queue])
  THEN "idle"
  ELSE IF \E n \in Node : StartedOn(n, t) /\ task[n][t].status = "COMPLETED" THEN "complete"
  ELSE IF Is("RUNNING") THEN "running"
  ELSE IF Is("WAITING") \/ Is("COMPLETED") THEN "waiting"
  ELSE "started"

Parent(t) ==
  IF Phase(t) = "idle" THEN None
  ELSE task[CHOOSE n \in Node : StartedOn(n, t)][t].parent

Promise == INSTANCE Tasks WITH
  phase <- [t \in Task |-> Phase(t)], parent <- [t \in Task |-> Parent(t)],
  order <- queue

\* The runtime keeps the promise of mtapi.c: the function of every task runs
\* once, on one node; tasks of a queue run one at a time and in order; a task
\* is complete after its children; a wait returns for complete tasks only.
ImplementsTasks == Promise!Spec

\* The application of a node has returned from its last operation.
MainEnds(n) ==
  LET main == stack[<<n, "main">>] IN
  Len(main) = 1 /\ main[1].at = "body" /\ main[1].ip > Len(prog.main[n])

\* On a single node every wait returns and every task is completed, whatever
\* the number of workers and however waiting threads nest tasks.
LocalEnds ==
  ~prog.distributed =>
    <>( /\ \A n \in Node : MainEnds(n) /\ taskList[n] = <<>>
        /\ \A n \in Node, t \in Task : task[n][t].status \in {"NONE", "COMPLETED"} )

\* The processers of two nodes that send to each other never wait for each
\* other: every send is acknowledged, by a thread that never waits.
AcksArrive == \A n \in Node : Processer(n, "ack") ~> Processer(n, "idle")

\* What a wait promises, that it returns for the task ("waits for the
\* completion of the specified task", mtapi.c), for remote tasks.
RemoteEnds == <>(\A n \in Node : MainEnds(n))
=============================================================================
