------------------------------ MODULE OmpTasks ------------------------------
(***************************************************************************)
(* Explicit tasks of the OpenUH runtime (libopenmp_OpenUH_new/omp_task.c), *)
(* its default pool with two queues for each thread (omp_task_pool.c, the  *)
(* array queues of omp_queue.c taken as deques), and the two barriers in   *)
(* which threads run tasks: __ompc_barrier_wait (omp_thread.h) inside of a *)
(* parallel region and __ompc_level_1_barrier (omp_thread.c) at its end.   *)
(*                                                                         *)
(* A step is one access to what threads share: a section under a lock, an  *)
(* atomic operation, or an unlocked read or write.  A deleted task object  *)
(* keeps its content, as it does until malloc hands the memory out again.  *)
(***************************************************************************)
EXTENDS Naturals, Sequences, SequencesExt, FiniteSets

CONSTANTS
  Thread,     \* the team, 0 the master: v-thread ids
  Task,       \* the explicit tasks
  Slots,      \* __omp_task_queue_num_slots
  Programs,   \* what the region does, see Program
  None

\* Create a task, taskwait, barrier.
Op == [do : {"task"}, on : Task] \union [do : {"wait", "barrier"}, on : {None}]

\* The bodies of the implicit and the explicit tasks, which tasks are tied and
\* which use the stack frame of their parent.
Program ==
  [main : [Thread -> Seq(Op)], body : [Task -> Seq(Op)],
   tied : SUBSET Task, blocks : SUBSET Task]

ASSUME OmpTasksAssumption ==
  /\ IsFiniteSet(Thread) /\ Cardinality(Thread) > 1 /\ 0 \in Thread
  /\ Thread \intersect Task = {} /\ None \notin Task \union Thread
  /\ Slots \in Nat \ {0}
  /\ \A p \in Programs : p \in Program

\* A thread's name stands for its implicit task as well.
Object == Task \union Thread

VARIABLES
  prog,      \* the program of the region, chosen at the start
  task,      \* omp_task_t
  freed,     \* history: the objects __ompc_task_delete has freed
  pending,   \* num_pending_tasks
  tiedQueue, untiedQueue,   \* the queues of a thread, head first
  stack,     \* the tasks a thread is in, the innermost one last
  suspended, \* num_suspended_tied_tasks of a thread
  count,     \* barrier_count
  count2,    \* barrier_count2
  flag,      \* barrier_flag
  exits,     \* __omp_level_1_exit_count
  awaited    \* history: the tasks a taskwait has returned for

poolVars == <<pending, tiedQueue, untiedQueue>>
teamVars == <<count, count2, flag, exits>>
vars == <<prog, task, freed, poolVars, stack, suspended, teamVars, awaited>>

State == {"none", "UNSCHEDULED", "READY", "RUNNING", "WAITING", "IN_BARRIER", "EXITING", "FINISHED"}

NewObject(state) ==
  [state |-> state, children |-> 0, blocking |-> 0, parent |-> None, epoch |-> 0]

\* A task a thread is in: the operation it has come to, where the thread is in
\* the runtime, the loop that looks for other tasks meanwhile, and what the
\* runtime keeps in local variables: the victims still to look at, a flag.
Place == {"body", "pending", "signal", "put", "uncount", "parent", "unblock",
          "return", "finish", "arrived", "loop", "drowse", "asleep", "inner",
          "own", "steal", "stealTied", "through", "flag", "exit", "last"}

LoopKind == {"none", "wait", "exit", "barrier", "join"}

Frame(t) == [task |-> t, ip |-> 1, at |-> "body", loop |-> "none",
             left |-> {}, bit |-> 0]

Init ==
  /\ prog \in Programs
  /\ task = [t \in Object |-> NewObject(IF t \in Thread THEN "RUNNING" ELSE "none")]
  /\ freed = {} /\ awaited = {}
  /\ pending = 0
  /\ tiedQueue = [th \in Thread |-> <<>>] /\ untiedQueue = [th \in Thread |-> <<>>]
  /\ stack = [th \in Thread |-> <<Frame(th)>>]
  /\ suspended = [th \in Thread |-> 0]
  /\ count = 0 /\ count2 = 0 /\ flag = 0 /\ exits = 0

-----------------------------------------------------------------------------
Top(th) == Last(stack[th])
Mine(th) == Top(th).task               \* __omp_current_task
Parent(th) == task[Mine(th)].parent
At(th, place) == stack[th] # <<>> /\ Top(th).at = place
Script(t) == IF t \in Thread THEN prog.main[t] ELSE prog.body[t]

Tied(t) == t \in Thread \/ t \in prog.tied

\* The operation the thread has come to.
Doing(th, what) ==
  /\ At(th, "body") /\ Top(th).ip <= Len(Script(Mine(th)))
  /\ Script(Mine(th))[Top(th).ip].do = what

On(th) == Script(Mine(th))[Top(th).ip].on

AtEnd(th) == At(th, "body") /\ Top(th).ip > Len(Script(Mine(th)))

SetTop(th, frame) == stack' = [stack EXCEPT ![th] = Append(Front(@), frame)]
Goto(th, place) == SetTop(th, [Top(th) EXCEPT !.at = place])
NextOp(th) == SetTop(th, [Top(th) EXCEPT !.at = "body", !.loop = "none", !.ip = @ + 1])
Enter(th, loop, place) == SetTop(th, [Top(th) EXCEPT !.at = place, !.loop = loop])

\* The barriers the implicit task of a thread is past.
Passed(th) ==
  LET main == prog.main[th]
      ip == IF stack[th] = <<>> THEN Len(main) + 2 ELSE stack[th][1].ip
  IN  Cardinality({i \in 1..(ip-1) : i = Len(main) + 1 \/ main[i].do = "barrier"})

-----------------------------------------------------------------------------
(* __ompc_task_create with may_delay, __ompc_add_task_to_pool_default *)

NewTask(th) ==
  LET t == On(th) p == Mine(th) IN
  /\ Doing(th, "task")
  /\ task' = [task EXCEPT
       ![t] = [NewObject("UNSCHEDULED") EXCEPT !.parent = p,
                 !.epoch = IF p \in Thread THEN Passed(th) ELSE task[p].epoch],
       ![p].children = @ + 1,
       ![p].blocking = IF t \in prog.blocks THEN @ + 1 ELSE @]
  /\ Goto(th, "pending")
  /\ UNCHANGED <<prog, freed, poolVars, suspended, teamVars, awaited>>

CountPending(th) ==
  /\ At(th, "pending")
  /\ pending' = pending + 1
  /\ Goto(th, IF pending = 0 THEN "signal" ELSE "put")
  /\ UNCHANGED <<prog, task, freed, tiedQueue, untiedQueue, suspended, teamVars, awaited>>

\* Fault: nobody is woken.
BroadcastNone(th, place) == Goto(th, place)

\* pthread_cond_broadcast of pool_cond: the threads that sleep go on.
Broadcast(th, place) ==
  stack' = [u \in Thread |->
    CASE u = th          -> Append(Front(stack[u]), [Top(u) EXCEPT !.at = place])
      [] At(u, "asleep") -> Append(Front(stack[u]), [Top(u) EXCEPT !.at = "inner"])
      [] OTHER           -> stack[u]]

SignalTask(th) ==
  /\ At(th, "signal") /\ Broadcast(th, "put")
  /\ UNCHANGED <<prog, task, freed, poolVars, suspended, teamVars, awaited>>

\* __ompc_task_switch: a tied task that is not in a barrier is suspended.
Suspends(t, state) == Tied(t) /\ state # "IN_BARRIER"

Switch(th, t, frame) ==
  stack' = [stack EXCEPT ![th] = Front(@) \o <<frame, Frame(t)>>]

\* __ompc_queue_array_put_tail: one slot of the array stays empty.
IsFull(q) == Len(q) = Slots - 1

\* A task the pool has no room for is executed at once.
PutTask(th) ==
  LET t == On(th) tied == t \in prog.tied
      q == IF tied THEN tiedQueue[th] ELSE untiedQueue[th]
  IN
  /\ At(th, "put")
  /\ IF IsFull(q)
     THEN /\ task' = [task EXCEPT ![Mine(th)].state = "READY", ![t].state = "RUNNING"]
          /\ suspended' = [suspended EXCEPT ![th] = IF Tied(Mine(th)) THEN @ + 1 ELSE @]
          /\ Switch(th, t, [Top(th) EXCEPT !.at = "body", !.ip = @ + 1])
          /\ UNCHANGED <<tiedQueue, untiedQueue>>
     ELSE /\ tiedQueue' = IF tied THEN [tiedQueue EXCEPT ![th] = Append(@, t)] ELSE tiedQueue
          /\ untiedQueue' = IF tied THEN untiedQueue ELSE [untiedQueue EXCEPT ![th] = Append(@, t)]
          /\ NextOp(th)
          /\ UNCHANGED <<task, suspended>>
  /\ UNCHANGED <<prog, freed, pending, teamVars, awaited>>

-----------------------------------------------------------------------------
(* __ompc_remove_task_from_pool_default, and the switch to what it finds *)

\* Where the loop that looks for a task goes on.
Back(th) == IF Top(th).loop \in {"wait", "exit"} THEN "loop" ELSE "inner"

Miss(th) ==
  SetTop(th, [Top(th) EXCEPT !.left = {}, !.at = Back(th)])

Found(th, t) ==
  LET orig == Mine(th) IN
  /\ task' = [task EXCEPT ![t].state = "RUNNING"]
  /\ suspended' = [suspended EXCEPT ![th] =
                      IF Suspends(orig, task[orig].state) THEN @ + 1 ELSE @]
  /\ Switch(th, t, [Top(th) EXCEPT !.left = {}, !.at = Back(th)])

Victims(th) == Thread \ {th}

\* The thread's own queues, from the tail; only the thread itself puts there.
TakeOwn(th) ==
  /\ At(th, "own")
  /\ IF tiedQueue[th] # <<>>
     THEN /\ tiedQueue' = [tiedQueue EXCEPT ![th] = Front(@)]
          /\ Found(th, Last(tiedQueue[th]))
          /\ UNCHANGED untiedQueue
     ELSE IF untiedQueue[th] # <<>>
     THEN /\ untiedQueue' = [untiedQueue EXCEPT ![th] = Front(@)]
          /\ Found(th, Last(untiedQueue[th]))
          /\ UNCHANGED tiedQueue
     ELSE /\ SetTop(th, [Top(th) EXCEPT !.at = "steal", !.left = Victims(th)])
          /\ UNCHANGED <<task, suspended, tiedQueue, untiedQueue>>
  /\ UNCHANGED <<prog, freed, pending, teamVars, awaited>>

MayStealTied(th) ==
  /\ suspended[th] = 0
  /\ task[Mine(th)].state = "IN_BARRIER" \/ ~Tied(Mine(th))

\* The next victim, from a random one on.  (A steal that finds the lock taken
\* is tried again.)
StealUntied(th) ==
  /\ At(th, "steal")
  /\ \E v \in Top(th).left :
       IF untiedQueue[v] # <<>>
       THEN /\ untiedQueue' = [untiedQueue EXCEPT ![v] = Tail(@)]
            /\ Found(th, Head(untiedQueue[v]))
       ELSE /\ IF Top(th).left # {v}
               THEN SetTop(th, [Top(th) EXCEPT !.left = @ \ {v}])
               ELSE IF MayStealTied(th)
               THEN SetTop(th, [Top(th) EXCEPT !.at = "stealTied", !.left = Victims(th)])
               ELSE Miss(th)
            /\ UNCHANGED <<task, suspended, untiedQueue>>
  /\ UNCHANGED <<prog, freed, pending, tiedQueue, teamVars, awaited>>

\* Fault: a thief takes the task that was put last.
StolenTail(q) == Last(q)

\* __ompc_queue_array_steal_head
Stolen(q) == Head(q)

StealTied(th) ==
  /\ At(th, "stealTied")
  /\ \E v \in Top(th).left :
       IF tiedQueue[v] # <<>>
       THEN /\ tiedQueue' = [tiedQueue EXCEPT ![v] = Remove(@, Stolen(@))]
            /\ Found(th, Stolen(tiedQueue[v]))
       ELSE /\ IF Top(th).left # {v}
               THEN SetTop(th, [Top(th) EXCEPT !.left = @ \ {v}])
               ELSE Miss(th)
            /\ UNCHANGED <<task, suspended, tiedQueue>>
  /\ UNCHANGED <<prog, freed, pending, untiedQueue, teamVars, awaited>>

-----------------------------------------------------------------------------
(* __ompc_task_wait, __ompc_task_exit and the end of __ompc_task_switch *)

TaskWait(th) ==
  /\ Doing(th, "wait")
  /\ task' = [task EXCEPT ![Mine(th)].state = "WAITING"]
  /\ Enter(th, "wait", "loop")
  /\ UNCHANGED <<prog, freed, poolVars, suspended, teamVars, awaited>>

Children(p) == {t \in Task : task[t].parent = p}

WaitLoop(th) ==
  LET p == Mine(th) IN
  /\ At(th, "loop") /\ Top(th).loop = "wait"
  /\ IF task[p].children = 0
     THEN /\ awaited' = awaited \union Children(p)
          /\ task' = [task EXCEPT ![p].state = "RUNNING"]
          /\ NextOp(th)
     ELSE Goto(th, "own") /\ UNCHANGED <<task, awaited>>
  /\ UNCHANGED <<prog, freed, poolVars, suspended, teamVars>>

\* The body of an explicit task is over.
EndBody(th) ==
  /\ AtEnd(th) /\ Mine(th) \in Task
  /\ task' = [task EXCEPT ![Mine(th)].state = "EXITING"]
  /\ pending' = pending - 1
  /\ Goto(th, "uncount")
  /\ UNCHANGED <<prog, freed, tiedQueue, untiedQueue, suspended, teamVars, awaited>>

\* num_siblings is what is left.
Uncount(th) ==
  LET p == Parent(th) IN
  /\ At(th, "uncount")
  /\ task' = [task EXCEPT ![p].children = @ - 1]
  /\ Enter(th, "exit", IF task[p].children = 1 THEN "parent" ELSE "loop")
  /\ UNCHANGED <<prog, freed, poolVars, suspended, teamVars, awaited>>

\* The last of the children of a deferred task that has finished deletes it.
FreeParent(th) ==
  LET p == Parent(th) IN
  /\ At(th, "parent")
  /\ freed' = IF p \in Task /\ task[p].state = "FINISHED" THEN freed \union {p} ELSE freed
  /\ Goto(th, "loop")
  /\ UNCHANGED <<prog, task, poolVars, suspended, teamVars, awaited>>

\* Fault: a task tells its parent before its own children have left.
ExitLoopTellsFirst(th) ==
  LET t == Mine(th) IN
  /\ At(th, "loop") /\ Top(th).loop = "exit"
  /\ Goto(th, IF t \in prog.blocks THEN "unblock"
              ELSE IF task[t].blocking # 0 THEN "own" ELSE "return")
  /\ UNCHANGED <<prog, task, freed, poolVars, suspended, teamVars, awaited>>

\* A task stays while its children use its stack frame, and tells its parent last.
ExitLoop(th) ==
  LET t == Mine(th) IN
  /\ At(th, "loop") /\ Top(th).loop = "exit"
  /\ Goto(th, IF task[t].blocking # 0 THEN "own"
              ELSE IF t \in prog.blocks THEN "unblock" ELSE "return")
  /\ UNCHANGED <<prog, task, freed, poolVars, suspended, teamVars, awaited>>

Unblock(th) ==
  /\ At(th, "unblock")
  /\ task' = [task EXCEPT ![Parent(th)].blocking = @ - 1]
  /\ Goto(th, "return")
  /\ UNCHANGED <<prog, freed, poolVars, suspended, teamVars, awaited>>

\* Back in the task the thread has switched from; its state is RUNNING again
\* when it was in __ompc_task_create.
Orig(th) == Last(Front(stack[th]))

Resume(th, objects) ==
  LET orig == Orig(th).task IN
  /\ stack' = [stack EXCEPT ![th] = Front(@)]
  /\ suspended' = [suspended EXCEPT ![th] =
                      IF Suspends(orig, task[orig].state) THEN @ - 1 ELSE @]
  /\ task' = IF Orig(th).at = "body" THEN [objects EXCEPT ![orig].state = "RUNNING"]
             ELSE objects

\* Without children the task is deleted.
ReturnTask(th) ==
  /\ At(th, "return")
  /\ IF task[Mine(th)].children = 0
     THEN freed' = freed \union {Mine(th)} /\ Resume(th, task)
     ELSE Goto(th, "finish") /\ UNCHANGED <<freed, suspended, task>>
  /\ UNCHANGED <<prog, poolVars, teamVars, awaited>>

\* (The unlock of the task's lock, which nobody ever takes, is left out.)
FinishTask(th) ==
  /\ At(th, "finish")
  /\ Resume(th, [task EXCEPT ![Mine(th)].state = "FINISHED"])
  /\ UNCHANGED <<prog, freed, poolVars, teamVars, awaited>>

-----------------------------------------------------------------------------
(* __ompc_barrier_wait and __ompc_level_1_barrier *)

SetState(t, state) == task' = [task EXCEPT ![t].state = state]

\* The end of the region is a barrier of its own kind.
Arrive(th) ==
  /\ At(th, "body") /\ Mine(th) = th
  /\ \/ /\ Doing(th, "barrier")
        /\ SetTop(th, [Top(th) EXCEPT !.at = "arrived", !.loop = "barrier", !.bit = flag])
     \/ /\ AtEnd(th)
        /\ Enter(th, "join", "arrived")
  /\ SetState(th, "IN_BARRIER")
  /\ count' = count + 1
  /\ UNCHANGED <<prog, freed, poolVars, suspended, count2, flag, exits, awaited>>

SignalArrival(th) ==
  /\ At(th, "arrived") /\ Broadcast(th, "loop")
  /\ UNCHANGED <<prog, task, freed, poolVars, suspended, teamVars, awaited>>

InBarrier(th) == Top(th).loop \in {"barrier", "join"}

\* Nothing to do, and somebody missing.
Idle == pending = 0 /\ count < Cardinality(Thread)

\* Beyond __omp_spin_count rounds a thread may go to sleep.
BarrierLoop(th) ==
  /\ At(th, "loop") /\ InBarrier(th)
  /\ IF count < Cardinality(Thread) \/ pending # 0
     THEN Goto(th, "drowse") \/ Goto(th, "inner")
     ELSE Goto(th, "through")
  /\ UNCHANGED <<prog, task, freed, poolVars, suspended, teamVars, awaited>>

\* pthread_cond_wait on pool_cond, decided under pool_lock.
Drowse(th) ==
  /\ At(th, "drowse")
  /\ Goto(th, IF Idle THEN "asleep" ELSE "inner")
  /\ UNCHANGED <<prog, task, freed, poolVars, suspended, teamVars, awaited>>

Inner(th) ==
  /\ At(th, "inner")
  /\ Goto(th, IF pending # 0 THEN "own" ELSE "loop")
  /\ UNCHANGED <<prog, task, freed, poolVars, suspended, teamVars, awaited>>

\* The last thread resets the barrier.
ResetsAt(n) == n = Cardinality(Thread)

Through(th) ==
  /\ At(th, "through") /\ Top(th).loop = "barrier"
  /\ IF ResetsAt(count2 + 1)
     THEN /\ count' = 0 /\ count2' = 0 /\ flag' = 1 - Top(th).bit
          /\ SetState(th, "RUNNING") /\ NextOp(th)
     ELSE /\ count2' = count2 + 1 /\ Goto(th, "flag")
          /\ UNCHANGED <<task, count, flag>>
  /\ UNCHANGED <<prog, freed, poolVars, suspended, exits, awaited>>

\* A thread that sees the flag while it spins returns with the state as it is.
SeeFlag(th) ==
  /\ At(th, "flag") /\ flag # Top(th).bit
  /\ SetState(th, "RUNNING") \/ UNCHANGED task
  /\ NextOp(th)
  /\ UNCHANGED <<prog, freed, poolVars, suspended, teamVars, awaited>>

\* The implicit task is deleted.
LeaveTeam(th) ==
  /\ At(th, "through") /\ Top(th).loop = "join"
  /\ freed' = freed \union {th}
  /\ suspended' = [suspended EXCEPT ![th] = 0]
  /\ SetTop(th, [Top(th) EXCEPT !.at = "exit", !.loop = "none", !.ip = @ + 1])
  /\ UNCHANGED <<prog, task, poolVars, teamVars, awaited>>

CountExit(th) ==
  /\ At(th, "exit")
  /\ exits' = exits + 1
  /\ IF th = 0 THEN Goto(th, "last") ELSE stack' = [stack EXCEPT ![th] = <<>>]
  /\ UNCHANGED <<prog, task, freed, poolVars, suspended, count, count2, flag, awaited>>

\* The master goes on when all have left.
EndRegion(th) ==
  /\ At(th, "last") /\ exits = Cardinality(Thread)
  /\ exits' = 0 /\ count' = 0
  /\ stack' = [stack EXCEPT ![th] = <<>>]
  /\ UNCHANGED <<prog, task, freed, poolVars, suspended, count2, flag, awaited>>

-----------------------------------------------------------------------------
CreateStep(th) == NewTask(th) \/ CountPending(th) \/ SignalTask(th) \/ PutTask(th)

SearchStep(th) == TakeOwn(th) \/ StealUntied(th) \/ StealTied(th)

ExitStep(th) ==
  \/ EndBody(th) \/ Uncount(th) \/ FreeParent(th) \/ ExitLoop(th)
  \/ Unblock(th) \/ ReturnTask(th) \/ FinishTask(th)

BarrierStep(th) ==
  \/ Arrive(th) \/ SignalArrival(th) \/ BarrierLoop(th) \/ Drowse(th) \/ Inner(th)
  \/ Through(th) \/ SeeFlag(th) \/ LeaveTeam(th) \/ CountExit(th) \/ EndRegion(th)

ThreadStep(th) ==
  \/ CreateStep(th) \/ SearchStep(th) \/ TaskWait(th) \/ WaitLoop(th)
  \/ ExitStep(th) \/ BarrierStep(th)

Next == \E th \in Thread : ThreadStep(th)

Spec == Init /\ [][Next]_vars

\* The operating system runs every thread that is not blocked.
FairSpec == Spec /\ \A th \in Thread : WF_vars(ThreadStep(th))

-----------------------------------------------------------------------------
ObjectType ==
  [state : State, children : Nat, blocking : Nat,
   parent : Object \union {None}, epoch : Nat]

FrameType ==
  [task : Object, ip : Nat \ {0}, at : Place, loop : LoopKind,
   left : SUBSET Thread, bit : {0, 1}]

\* Every variable has its type.
TypeOK ==
  /\ prog \in Programs
  /\ task \in [Object -> ObjectType]
  /\ freed \subseteq Object /\ awaited \subseteq Task
  /\ pending \in Nat
  /\ tiedQueue \in [Thread -> Seq(Task)] /\ untiedQueue \in [Thread -> Seq(Task)]
  /\ stack \in [Thread -> Seq(FrameType)]
  /\ suspended \in [Thread -> Nat]
  /\ count \in Nat /\ count2 \in Nat /\ flag \in {0, 1} /\ exits \in Nat

\* The function of t may still be on a stack and reach the frame of its parent.
OnStack(t) ==
  \E th \in Thread : \E i \in 1..Len(stack[th]) :
    stack[th][i].task = t /\ stack[th][i].at \notin {"return", "finish"}

Phase(t) ==
  CASE task[t].state = "none" -> "none"
    [] task[t].state = "UNSCHEDULED" -> "created"
    [] task[t].state \in {"READY", "RUNNING", "WAITING", "IN_BARRIER"} -> "running"
    [] OTHER -> IF OnStack(t) THEN "done" ELSE "left"

Waits(th) == stack[th] # <<>> /\ stack[th][1].loop \in {"barrier", "join"}

Tree == INSTANCE TaskTree WITH
  phase    <- [t \in Task |-> Phase(t)],
  parent   <- [t \in Task |-> task[t].parent],
  blocking <- prog.blocks,
  epoch    <- [t \in Task |-> task[t].epoch],
  arrived  <- [th \in Thread |-> Passed(th) + (IF Waits(th) THEN 1 ELSE 0)],
  passed   <- [th \in Thread |-> Passed(th)]

\* A task runs once and after its creation, a taskwait returns when the
\* children are done, a stack frame stays while children use it, and a barrier
\* opens when all threads have come and every task created before it is done
\* (omp_task.c, omp_task_pool.c, __ompc_barrier_wait, __ompc_level_1_barrier).
ImplementsTaskTree == Tree!Spec

\* t is p or descends from it.
Descends(t, p) ==
  LET up[n \in 0..Cardinality(Task)] == IF n = 0 THEN t ELSE
        IF up[n-1] \in Task THEN task[up[n-1]].parent ELSE up[n-1]
  IN  \E n \in 0..Cardinality(Task) : up[n] = p

\* omp_task_pool.c:234-236: a tied task runs on a thread only if it descends
\* from every suspended tied task of the thread that is not at a barrier.
TiedUnderAncestors ==
  \A th \in Thread : \A j \in 1..Len(stack[th]) : \A i \in 1..(j-1) :
    LET p == stack[th][i].task
        t == stack[th][j].task
    IN  Tied(p) /\ Tied(t) /\ task[p].state # "IN_BARRIER" => Descends(t, p)

\* That holds in a program without untied tasks.  An untied task can be stolen
\* from anywhere and run above a suspended tied task, and the tied tasks it
\* creates follow it.
TiedDescends == prog.tied = Task => TiedUnderAncestors

\* Every region ends: no thread sleeps for good in a barrier, no task is left in
\* a queue nobody may take it from, and no two waits wait for each other
\* (the loops of __ompc_task_wait, __ompc_task_exit and the barriers).
RegionEnds == <>(\A th \in Thread : stack[th] = <<>>)

\* omp_task.c:238-240: a task object is not freed while a child may still use it
\* when it exits (num_children, the flags and the state of the parent).
DeletedNotUsed ==
  \A th \in Thread :
    At(th, "uncount") \/ At(th, "parent") => Parent(th) \notin freed
=============================================================================
