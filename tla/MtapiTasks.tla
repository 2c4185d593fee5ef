----------------------------- MODULE MtapiTasks -----------------------------
(***************************************************************************)
(* Tasks, groups and queues of the MTAPI runtime                           *)
(* (MTAPI/mtapi/src/mtapi_runtime.c): the application's thread of a node   *)
(* and its workers share one list of tasks; each takes a task from the     *)
(* head of the list and processes it; a thread that waits processes tasks  *)
(* meanwhile, inside of the task it is running.  What the node's message   *)
(* threads do is in MtapiRemote, which composes the two.                   *)
(*                                                                         *)
(* A step is one access to what threads share: a section under a mutex, an *)
(* atomic operation, or an unlocked read or write.                         *)
(***************************************************************************)
EXTENDS Naturals, Sequences, SequencesExt, FiniteSets

CONSTANTS
  Node,       \* the MTAPI nodes
  Worker,     \* of each node: its threads that run thread_func (NUM_THREAD)
  Task, Job, Queue, Group,
  Programs,   \* what the application does, see Program
  None        \* no task, queue, group or action

\* What the application and its action functions do: create the action of a
\* job, start (or enqueue) a task, wait for a task, for all tasks or for any
\* task of a group.
Op == [do : {"action"}, on : Job] \union [do : {"start", "wait"}, on : Task]
        \union [do : {"all", "any"}, on : Group]

Program ==
  [main : [Node -> Seq(Op)], body : [Task -> Seq(Op)], job : [Task -> Job],
   queue : [Task -> Queue \union {None}], group : [Task -> Group \union {None}],
   distributed : BOOLEAN]        \* NODE_COUNT > 1

\* A task is the object one call of mtapiRT_startTask or mtapiRT_enqueueTask
\* makes: no two operations of a program start the same one.
StartsAt(script, i, t) ==
  i \in DOMAIN script /\ script[i].do = "start" /\ script[i].on = t

StartedOnce(p) ==
  \A t \in Task :
    /\ \A m, n \in Node : \A h \in DOMAIN p.main[m], i \in DOMAIN p.main[n] :
         StartsAt(p.main[m], h, t) /\ StartsAt(p.main[n], i, t) => m = n /\ h = i
    /\ \A u, v \in Task : \A h \in DOMAIN p.body[u], i \in DOMAIN p.body[v] :
         StartsAt(p.body[u], h, t) /\ StartsAt(p.body[v], i, t) => u = v /\ h = i
    /\ \A n \in Node, u \in Task : \A h \in DOMAIN p.main[n], i \in DOMAIN p.body[u] :
         ~(StartsAt(p.main[n], h, t) /\ StartsAt(p.body[u], i, t))

\* A script waits for a group it starts the tasks of itself and, where there are
\* two nodes, for tasks it has started: a handle means nothing on the other one.
Scripts(p) == {p.main[n] : n \in Node} \union {p.body[t] : t \in Task}

WaitsForOwn(p) ==
  \A s \in Scripts(p) : \A i \in DOMAIN s :
    /\ s[i].do = "wait" /\ p.distributed => \E h \in 1..(i - 1) : StartsAt(s, h, s[i].on)
    /\ s[i].do \in {"all", "any"} =>
         \A r \in Scripts(p), t \in Task : \A h \in DOMAIN r :
           StartsAt(r, h, t) /\ p.group[t] = s[i].on => r = s

ASSUME MtapiAssumption ==
  /\ \A n \in Node : "main" \notin Worker[n]
  /\ None \notin Task \union Queue \union Group \union {"LOCAL", "REMOTE"}
  /\ \A p \in Programs : p \in Program /\ StartedOnce(p)

Thread == UNION {{n} \X (Worker[n] \union {"main"}) : n \in Node}

VARIABLES
  prog,       \* the program that runs, chosen at the start
  action,     \* the first action in jobList[j].actionList: None, "LOCAL", "REMOTE"
  task,       \* mtapiRT_TaskInfo_t of a task on a node
  taskList,   \* taskListHead ... taskListTail
  queue,      \* the entries of a queue, head first
  group,      \* mtapiRT_GroupInfo_t
  stack,      \* the calls a thread is in, the innermost one last
  current,    \* currentTask, one for each thread
  filled,     \* the result buffers that have been written
  awaited     \* history: the tasks a wait has returned for (and waitForTask freed)

taskVars == <<prog, action, task, taskList, queue, group, stack, current,
              filled, awaited>>

NoTask == [status |-> "NONE", type |-> None, parent |-> None, childCount |-> 0,
           queue |-> None, group |-> None, message |-> FALSE]

\* The rest of SetTaskComplete, after the status, for a task.
Stage == {"parent", "queue", "group", "result", "message"}

Stages(rec) ==
  LET If(c, stages) == IF c THEN stages ELSE <<>> IN
    If(rec.parent # None, <<"parent">>) \o If(rec.queue # None, <<"queue">>)
      \o If(rec.group # None, <<"group", "result">>) \o If(rec.message, <<"message">>)

\* A call: ProcessTask(task), or the application's main (None), where it is,
\* the operation of the body it has come to, what is left of SetTaskComplete
\* and the counter waitForGroupAny has read.
Place == {"process", "body", "announce", "entry", "grow", "count", "list",
          "pop", "compare", "fetch", "send", "schedule", "insert", "complete"}

Frame(t, place) ==
  [task |-> t, at |-> place, ip |-> 1, stages |-> <<>>, seen |-> 0]

TasksInit ==
  /\ prog \in Programs
  /\ action = [n \in Node |-> [j \in Job |-> None]]
  /\ task = [n \in Node |-> [t \in Task |-> NoTask]]
  /\ taskList = [n \in Node |-> <<>>]
  /\ queue = [q \in Queue |-> <<>>]
  /\ group = [g \in Group |-> [num |-> 0, current |-> 0, result |-> None]]
  /\ stack = [th \in Thread |->
                IF th[2] = "main" THEN <<Frame(None, "body")>> ELSE <<>>]
  /\ current = [th \in Thread |-> None]
  /\ filled = {} /\ awaited = {}

-----------------------------------------------------------------------------
(* The calls of a thread *)

Top(th) == Last(stack[th])
Mine(th) == Top(th).task
At(th, place) == stack[th] # <<>> /\ Top(th).at = place
Script(th) == IF Mine(th) = None THEN prog.main[th[1]] ELSE prog.body[Mine(th)]

\* The operation the thread has come to.
Doing(th, what) ==
  /\ At(th, "body") /\ Top(th).ip <= Len(Script(th))
  /\ Script(th)[Top(th).ip].do = what

On(th) == Script(th)[Top(th).ip].on

SetTop(th, frame) == stack' = [stack EXCEPT ![th] = Append(Front(@), frame)]
Goto(th, place) == SetTop(th, [Top(th) EXCEPT !.at = place])
NextOp(th) == SetTop(th, [Top(th) EXCEPT !.at = "body", !.ip = @ + 1])
Return(th) == stack' = [stack EXCEPT ![th] = Front(@)]

InsertTask(n, t) == taskList' = [taskList EXCEPT ![n] = Append(@, t)]

-----------------------------------------------------------------------------
(* Operations of the application *)

\* mtapiRT_createAction: getAction returns the first action of the job.
CreateAction(th) ==
  LET n == th[1] IN
  /\ Doing(th, "action")
  /\ action' = [action EXCEPT ![n][On(th)] = IF @ = None THEN "LOCAL" ELSE @]
  /\ IF prog.distributed THEN Goto(th, "announce") ELSE NextOp(th)
  /\ UNCHANGED <<prog, task, taskList, queue, group, current, filled, awaited>>

\* Fault: the parent does not count the new task.
NewTaskUncounted(n, t, parent, q, g, message) ==
  /\ action[n][prog.job[t]] # None
  /\ task' = [task EXCEPT ![n][t] =
       [status |-> "CREATED", type |-> action[n][prog.job[t]], parent |-> parent,
        childCount |-> 0, queue |-> q, group |-> g, message |-> message]]

\* A new task of node n; getAction spins until the job has an action.
NewTask(n, t, parent, q, g, message) ==
  /\ action[n][prog.job[t]] # None
  /\ task' = [task EXCEPT ![n] = [u \in Task |->
       IF u = t THEN [status |-> "CREATED", type |-> action[n][prog.job[t]],
                      parent |-> parent, childCount |-> 0,
                      queue |-> q, group |-> g, message |-> message]
       ELSE IF u = parent THEN [task[n][u] EXCEPT !.childCount = @ + 1]
       ELSE task[n][u]]]

\* mtapiRT_startTask and mtapiRT_enqueueTask up to the first step others see.
StartTask(th) ==
  LET t == On(th) q == prog.queue[t] g == prog.group[t] IN
  /\ Doing(th, "start")
  /\ NewTask(th[1], t, current[th], q, g, FALSE)
  /\ Goto(th, IF q # None THEN "entry" ELSE IF g # None THEN "grow" ELSE "list")
  /\ UNCHANGED <<prog, action, taskList, queue, group, current, filled, awaited>>

\* Fault: a task with a queue is not counted in its group.
EnterQueueOnly(th) ==
  /\ At(th, "entry")
  /\ queue' = [queue EXCEPT ![prog.queue[On(th)]] = Append(@, On(th))]
  /\ Goto(th, "list")
  /\ UNCHANGED <<prog, action, task, taskList, group, current, filled, awaited>>

EnterQueue(th) ==
  LET t == On(th) IN
  /\ At(th, "entry")
  /\ queue' = [queue EXCEPT ![prog.queue[t]] = Append(@, t)]
  /\ Goto(th, IF prog.group[t] # None THEN "grow" ELSE "list")
  /\ UNCHANGED <<prog, action, task, taskList, group, current, filled, awaited>>

GrowGroup(th) ==
  /\ At(th, "grow")
  /\ group' = [group EXCEPT ![prog.group[On(th)]].current = @ + 1]
  /\ Goto(th, "count")
  /\ UNCHANGED <<prog, action, task, taskList, queue, current, filled, awaited>>

CountInGroup(th) ==
  /\ At(th, "count")
  /\ group' = [group EXCEPT ![prog.group[On(th)]].num = @ + 1]
  /\ Goto(th, "list")
  /\ UNCHANGED <<prog, action, task, taskList, queue, current, filled, awaited>>

ListTask(th) ==
  /\ At(th, "list")
  /\ InsertTask(th[1], On(th))
  /\ NextOp(th)
  /\ UNCHANGED <<prog, action, task, queue, group, current, filled, awaited>>

\* mtapiRT_waitForTask: a complete task is freed; else the thread takes a task.
WaitTask(th) ==
  LET n == th[1] t == On(th) IN
  /\ Doing(th, "wait")
  /\ IF task[n][t].status = "COMPLETED"
     THEN awaited' = awaited \union {t} /\ NextOp(th)
     ELSE Goto(th, "pop") /\ UNCHANGED awaited
  /\ UNCHANGED <<prog, action, task, taskList, queue, group, current, filled>>

Members(n, g) ==
  {t \in Task : task[n][t].status # "NONE" /\ task[n][t].group = g}

\* mtapiRT_waitForGroupAll
WaitGroupAll(th) ==
  /\ Doing(th, "all")
  /\ IF group[On(th)].current = 0
     THEN awaited' = awaited \union Members(th[1], On(th)) /\ NextOp(th)
     ELSE Goto(th, "pop") /\ UNCHANGED awaited
  /\ UNCHANGED <<prog, action, task, taskList, queue, group, current, filled>>

\* mtapiRT_waitForGroupAny reads currentNumOfTask, ...
WaitGroupAny(th) ==
  /\ Doing(th, "any")
  /\ SetTop(th, [Top(th) EXCEPT !.at = "compare", !.seen = group[On(th)].current])
  /\ UNCHANGED <<prog, action, task, taskList, queue, group, current, filled, awaited>>

\* Fault: <= in the place of <.
CompareGroupEqual(th) ==
  /\ At(th, "compare")
  /\ Goto(th, IF Top(th).seen <= group[On(th)].num THEN "fetch" ELSE "pop")
  /\ UNCHANGED <<prog, action, task, taskList, queue, group, current, filled, awaited>>

\* ... compares it with numOfTask, ...
CompareGroup(th) ==
  /\ At(th, "compare")
  /\ Goto(th, IF Top(th).seen < group[On(th)].num THEN "fetch" ELSE "pop")
  /\ UNCHANGED <<prog, action, task, taskList, queue, group, current, filled, awaited>>

\* ... and returns the result of the group.
FetchResult(th) ==
  /\ At(th, "fetch")
  /\ NextOp(th)
  /\ UNCHANGED <<prog, action, task, taskList, queue, group, current, filled, awaited>>

\* A waiting thread takes a task; ProcessTask(NULL) only resets currentTask.
PopWaiting(th) ==
  LET n == th[1] back == [Top(th) EXCEPT !.at = "body"] IN
  /\ At(th, "pop")
  /\ IF taskList[n] = <<>>
     THEN /\ current' = [current EXCEPT ![th] = None]
          /\ SetTop(th, back)
          /\ UNCHANGED taskList
     ELSE /\ taskList' = [taskList EXCEPT ![n] = Tail(@)]
          /\ stack' = [stack EXCEPT ![th] =
                         Front(@) \o <<back, Frame(Head(taskList[n]), "process")>>]
          /\ UNCHANGED current
  /\ UNCHANGED <<prog, action, task, queue, group, filled, awaited>>

-----------------------------------------------------------------------------
(* thread_func and ProcessTask *)

PopWorker(th) ==
  LET n == th[1] IN
  /\ stack[th] = <<>> /\ taskList[n] # <<>>
  /\ taskList' = [taskList EXCEPT ![n] = Tail(@)]
  /\ stack' = [stack EXCEPT ![th] = <<Frame(Head(taskList[n]), "process")>>]
  /\ UNCHANGED <<prog, action, task, queue, group, current, filled, awaited>>

\* The thread is at the start of ProcessTask with a task of this status.
Processing(th, status) ==
  At(th, "process") /\ task[th[1]][Mine(th)].status = status

\* Fault: the queue of a task is not looked at.
MayRunAlways(n, t) == TRUE

MayRun(n, t) == task[n][t].queue # None => Head(queue[task[n][t].queue]) = t

\* Fault: a task that is not at the head of its queue is dropped.
NotYetDrops(th) ==
  /\ Processing(th, "CREATED") /\ ~MayRun(th[1], Mine(th))
  /\ Return(th)
  /\ UNCHANGED <<prog, action, task, taskList, queue, group, current, filled, awaited>>

\* A task that is not at the head of its queue goes back into the list.
NotYet(th) ==
  /\ Processing(th, "CREATED") /\ ~MayRun(th[1], Mine(th))
  /\ Goto(th, "insert")
  /\ UNCHANGED <<prog, action, task, taskList, queue, group, current, filled, awaited>>

RunTask(th) ==
  LET n == th[1] t == Mine(th) IN
  /\ Processing(th, "CREATED") /\ MayRun(n, t) /\ task[n][t].type = "LOCAL"
  /\ task' = [task EXCEPT ![n][t].status = "RUNNING"]
  /\ current' = [current EXCEPT ![th] = t]
  /\ Goto(th, "body")
  /\ UNCHANGED <<prog, action, taskList, queue, group, filled, awaited>>

\* A task whose action is on the other node: see MtapiRemote.
RunRemotely(th) ==
  LET n == th[1] t == Mine(th) IN
  /\ Processing(th, "CREATED") /\ MayRun(n, t) /\ task[n][t].type = "REMOTE"
  /\ Goto(th, "send")
  /\ UNCHANGED <<prog, action, task, taskList, queue, group, current, filled, awaited>>

\* The status after the message has been inserted.
SetScheduled(th) ==
  /\ At(th, "schedule")
  /\ task' = [task EXCEPT ![th[1]][Mine(th)].status = "SCHEDULED"]
  /\ Goto(th, "insert")
  /\ UNCHANGED <<prog, action, taskList, queue, group, current, filled, awaited>>

\* SetTaskComplete as far as the status; the rest follows in CompleteStep.
SetComplete(th) ==
  LET n == th[1] t == Mine(th) stages == Stages(task[n][t]) IN
  /\ task' = [task EXCEPT ![n][t].status = "COMPLETED"]
  /\ IF stages = <<>> THEN Return(th)
     ELSE SetTop(th, [Top(th) EXCEPT !.at = "complete", !.stages = stages])

\* The action function returns.
EndBody(th) ==
  LET n == th[1] t == Mine(th) IN
  /\ At(th, "body") /\ t # None /\ Top(th).ip > Len(Script(th))
  /\ current' = [current EXCEPT ![th] = None]
  /\ filled' = filled \union {<<n, t>>}
  /\ IF task[n][t].childCount = 0 THEN SetComplete(th)
     ELSE /\ task' = [task EXCEPT ![n][t].status = "WAITING"]
          /\ Goto(th, "insert")
  /\ UNCHANGED <<prog, action, taskList, queue, group, awaited>>

\* A task that has run, here or on the other node, waits for its children.
CheckWaiting(th) ==
  /\ Processing(th, "WAITING")
  /\ IF task[th[1]][Mine(th)].childCount = 0 THEN SetComplete(th)
     ELSE Goto(th, "insert") /\ UNCHANGED task
  /\ UNCHANGED <<prog, action, taskList, queue, group, current, filled, awaited>>

CheckScheduled(th) ==
  /\ Processing(th, "SCHEDULED")
  /\ Goto(th, "insert")
  /\ UNCHANGED <<prog, action, task, taskList, queue, group, current, filled, awaited>>

Reinsert(th) ==
  /\ At(th, "insert")
  /\ InsertTask(th[1], Mine(th))
  /\ Return(th)
  /\ UNCHANGED <<prog, action, task, queue, group, current, filled, awaited>>

\* The rest of SetTaskComplete, one stage in a step.
Completing(th, stage) ==
  /\ At(th, "complete") /\ Head(Top(th).stages) = stage
  /\ IF Len(Top(th).stages) = 1 THEN Return(th)
     ELSE SetTop(th, [Top(th) EXCEPT !.stages = Tail(@)])

LeaveParent(th) ==
  LET n == th[1] IN
  /\ Completing(th, "parent")
  /\ task' = [task EXCEPT ![n][task[n][Mine(th)].parent].childCount = @ - 1]
  /\ UNCHANGED <<prog, action, taskList, queue, group, current, filled, awaited>>

\* Fault: the entry stays in the queue.
LeaveQueueNot(th) ==
  /\ Completing(th, "queue")
  /\ UNCHANGED <<prog, action, task, taskList, queue, group, current, filled, awaited>>

LeaveQueue(th) ==
  /\ Completing(th, "queue")
  /\ queue' = [queue EXCEPT ![task[th[1]][Mine(th)].queue] = Tail(@)]
  /\ UNCHANGED <<prog, action, task, taskList, group, current, filled, awaited>>

LeaveGroup(th) ==
  /\ Completing(th, "group")
  /\ group' = [group EXCEPT ![task[th[1]][Mine(th)].group].current = @ - 1]
  /\ UNCHANGED <<prog, action, task, taskList, queue, current, filled, awaited>>

GroupResult(th) ==
  /\ Completing(th, "result")
  /\ group' = [group EXCEPT ![task[th[1]][Mine(th)].group].result = Mine(th)]
  /\ UNCHANGED <<prog, action, task, taskList, queue, current, filled, awaited>>

\* Steps of a thread that touch the state of this module only.
TaskStep(th) ==
  \/ CreateAction(th) \/ StartTask(th) \/ EnterQueue(th) \/ GrowGroup(th)
  \/ CountInGroup(th) \/ ListTask(th)
  \/ WaitTask(th) \/ WaitGroupAll(th) \/ WaitGroupAny(th) \/ CompareGroup(th)
  \/ FetchResult(th) \/ PopWaiting(th)
  \/ PopWorker(th)
  \/ NotYet(th) \/ RunTask(th) \/ RunRemotely(th) \/ SetScheduled(th)
  \/ EndBody(th) \/ CheckWaiting(th) \/ CheckScheduled(th) \/ Reinsert(th)
  \/ LeaveParent(th) \/ LeaveQueue(th) \/ LeaveGroup(th) \/ GroupResult(th)
=============================================================================
