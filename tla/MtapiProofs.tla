----------------------------- MODULE MtapiProofs -----------------------------
(***************************************************************************)
(* Proofs about tasks, local and remote, for every set of nodes, workers,  *)
(* tasks, queues and groups, and every application.  First the inductive   *)
(* invariant, where a task is, what its status says and the messages there *)
(* are about it, and what each step does; then that no task is lost or in  *)
(* two hands.                                                              *)
(***************************************************************************)
EXTENDS MtapiRemote, Integers, SequenceTheorems, FiniteSetTheorems, TLAPS

-----------------------------------------------------------------------------
(* What a frame of a stack can be.                                         *)

\* Places of a frame whose script runs, and of these while a task is started.
RunPlace == {"body", "announce", "entry", "grow", "count", "list",
             "pop", "compare", "fetch"}
BeginPlace == {"entry", "grow", "count", "list"}

FrameType ==
  [task : Task \union {None}, at : Place, ip : Nat \ {0},
   stages : Seq(Stage), seen : Int]

ScriptOf(th, f) == IF f.task = None THEN prog.main[th[1]] ELSE prog.body[f.task]
OpOf(th, f) == ScriptOf(th, f)[f.ip]

\* The operation of a frame is one that has its place.
OpOk(th, f) ==
  /\ f.at \in RunPlace \ {"body"} =>
       f.ip \in DOMAIN ScriptOf(th, f) /\ OpOf(th, f) \in Op
  /\ f.at \in BeginPlace => OpOf(th, f).do = "start"
  /\ f.at = "entry" => prog.queue[OpOf(th, f).on] # None
  /\ f.at \in {"grow", "count"} => prog.group[OpOf(th, f).on] # None
  /\ f.at = "announce" => OpOf(th, f).do = "action" /\ prog.distributed
  /\ f.at = "pop" => OpOf(th, f).do \in {"wait", "all", "any"}
  /\ f.at \in {"compare", "fetch"} => OpOf(th, f).do = "any"

Distinct(s) == \A i, k \in DOMAIN s : s[i] = s[k] => i = k

\* Only the application's thread has a frame without a task, its first one.
GoodFrame(th, i, f) ==
  /\ f.task = None <=> i = 1 /\ th[2] = "main"
  /\ f.task = None => f.at \in RunPlace
  /\ f.at = "complete" => f.stages # <<>> /\ Distinct(f.stages)
  /\ OpOk(th, f)

\* Only the last frame of a stack is in a call.
StackOk(th) ==
  /\ \A i \in DOMAIN stack[th] : GoodFrame(th, i, stack[th][i])
  /\ \A i \in DOMAIN stack[th] : i < Len(stack[th]) => stack[th][i].at = "body"
  /\ th[2] = "main" => stack[th] # <<>>

TaskInfo ==
  [status : {"NONE", "CREATED", "RUNNING", "WAITING", "SCHEDULED", "COMPLETED"},
   type : {None, "LOCAL", "REMOTE"}, parent : Task \union {None},
   childCount : Int, queue : Queue \union {None}, group : Group \union {None},
   message : BOOLEAN]

NetMessage ==
  [type : {"CREATE_ACTION"}, on : Job]
    \union [type : {"START_REMOTE_TASK", "COMPLETE_LOCAL_TASK"}, on : Task]

HandPlace == {"idle", "process", "ack", "list", "await", "again"}

ProcesserOk(n) ==
  /\ processer[n].at # "idle" => processer[n].msg \in Message
  /\ processer[n].at \in {"list", "await", "again"} => processer[n].msg.type = "SERVE"
  /\ processer[n].at = "ack" => processer[n].msg.on \in Task

Silent ==
  ~prog.distributed => \A n \in Node :
    messages[n] = <<>> /\ net[n] = <<>> /\ processer[n].at = "idle"

\* Types, but for the counters, which are only integers here, and the queues.
Typed ==
  /\ prog \in Programs
  /\ action \in [Node -> [Job -> {None, "LOCAL", "REMOTE"}]]
  /\ task \in [Node -> [Task -> TaskInfo]]
  /\ taskList \in [Node -> Seq(Task)]
  /\ queue = [q \in Queue |-> queue[q]]
  /\ group \in [Group -> [num : Nat, current : Int, result : Task \union {None}]]
  /\ stack \in [Thread -> Seq(FrameType)]
  /\ current \in [Thread -> Task \union {None}]
  /\ filled \subseteq Node \X Task /\ awaited \subseteq Task
  /\ messages \in [Node -> Seq(Message)]
  /\ served \in [Task -> {"RECEIVE_REMOTE_TASK", "AWAIT_LOCAL_TASK", "COMPLETE_LOCAL_TASK"}]
  /\ net \in [Node -> Seq(NetMessage)]
  /\ acks \in [Node -> Nat]
  /\ processer \in [Node -> [at : HandPlace, msg : Message \union {None}]]

Shape ==
  /\ \A th \in Thread : StackOk(th)
  /\ \A n \in Node : ProcesserOk(n)
  /\ Silent

Inv1 == Typed /\ Shape

-----------------------------------------------------------------------------
(* Where a task is.                                                        *)

\* Frame i of a thread of node n has the task.
In(th, i, n, t) == th[1] = n /\ i \in DOMAIN stack[th] /\ stack[th][i].task = t

\* Frame i of a thread of node n is at the start of the task.
Begins(th, i, n, t) ==
  /\ th[1] = n /\ i \in DOMAIN stack[th]
  /\ stack[th][i].at \in BeginPlace /\ OpOf(th, stack[th][i]).on = t

Listed(n, t) == \E i \in DOMAIN taskList[n] : taskList[n][i] = t
Held(n, t) == \E th \in Thread : \E i \in DOMAIN stack[th] : In(th, i, n, t)
Begun(n, t) == \E th \in Thread : \E i \in DOMAIN stack[th] : Begins(th, i, n, t)
Receiving(n, t) == processer[n].at = "list" /\ processer[n].msg.on = t

ListInv ==
  \A n \in Node :
    /\ Distinct(taskList[n])
    /\ \A i \in DOMAIN taskList[n] :
         /\ task[n][taskList[n][i]].status \in {"CREATED", "SCHEDULED", "WAITING"}
         /\ ~Held(n, taskList[n][i])

\* The status and the type of a task whose frame is at a place.
StatusAt(place, status, type) ==
  /\ place = "process" => status \in {"CREATED", "SCHEDULED", "WAITING"}
  /\ place \in RunPlace => status = "RUNNING" /\ type = "LOCAL"
  /\ place = "send" => status = "CREATED" /\ type = "REMOTE"
  /\ place = "schedule" => status \in {"CREATED", "WAITING"} /\ type = "REMOTE"
  /\ place = "insert" => status \in {"CREATED", "SCHEDULED", "WAITING"}
  /\ place = "complete" => status = "COMPLETED"

HeldInv ==
  \A th \in Thread : \A i \in DOMAIN stack[th] :
    LET f == stack[th][i] IN
    f.task # None =>
      /\ StatusAt(f.at, task[th[1]][f.task].status, task[th[1]][f.task].type)
      /\ \A uh \in Thread : \A k \in DOMAIN stack[uh] :
           In(uh, k, th[1], f.task) => uh = th /\ k = i

BeginInv ==
  \A th \in Thread : \A i \in DOMAIN stack[th] : \A t \in Task :
    Begins(th, i, th[1], t) =>
      /\ task[th[1]][t].status = "CREATED"
      /\ task[th[1]][t].queue = prog.queue[t] /\ task[th[1]][t].group = prog.group[t]
      /\ ~task[th[1]][t].message
      /\ ~Listed(th[1], t) /\ ~Held(th[1], t)

ReceiveInv ==
  \A n \in Node, t \in Task :
    Receiving(n, t) =>
      /\ task[n][t].status = "CREATED" /\ task[n][t].message
      /\ ~Listed(n, t) /\ ~Held(n, t)

SomewhereInv ==
  \A n \in Node, t \in Task :
    task[n][t].status \notin {"NONE", "COMPLETED"} =>
      Listed(n, t) \/ Held(n, t) \/ Begun(n, t) \/ Receiving(n, t)

-----------------------------------------------------------------------------
(* Records, actions and messages of a task.                                *)

\* A task that was received is local, and is remote where it was started.
RecordInv ==
  \A n \in Node, t \in Task :
    LET rec == task[n][t] IN
    /\ rec.status = "NONE" <=> rec.type = None
    /\ rec.status = "NONE" => /\ rec.parent = None /\ rec.queue = None
                              /\ rec.group = None /\ ~rec.message
    /\ rec.status # "NONE" => rec.type = action[n][prog.job[t]]
    /\ rec.status = "SCHEDULED" => rec.type = "REMOTE"
    /\ rec.type = "REMOTE" => ~rec.message
    /\ rec.message => /\ rec.queue = None /\ rec.group = None /\ rec.parent = None
                      /\ \E m \in Node : m # n /\ task[m][t].type = "REMOTE"
    /\ ~rec.message /\ rec.status # "NONE" =>
         \A m \in Node : m # n => task[m][t].status = "NONE" \/ task[m][t].message

\* A job has its action on one of the nodes that know it.
ActionInv ==
  \A n \in Node, j \in Job :
    /\ action[n][j] = "REMOTE" =>
         prog.distributed /\ action[Other(n)][j] = "LOCAL"
    /\ \A i \in DOMAIN messages[n] :
         messages[n][i] = Msg("CREATE_ACTION", j) => action[n][j] # None
    /\ \A i \in DOMAIN messages[n] :
         messages[n][i] = Msg("ADD_REMOTE_ACTION", j) => action[Other(n)][j] # None
    /\ \A i \in DOMAIN net[n] :
         net[n][i] = Msg("CREATE_ACTION", j) => action[Other(n)][j] # None
    /\ processer[n].at = "process" /\ processer[n].msg = Msg("CREATE_ACTION", j) =>
         action[n][j] # None
    /\ processer[n].at = "process" /\ processer[n].msg = Msg("ADD_REMOTE_ACTION", j) =>
         action[Other(n)][j] # None
    /\ \A th \in Thread : \A i \in DOMAIN stack[th] :
         th[1] = n /\ stack[th][i].at = "announce" /\ OpOf(th, stack[th][i]).on = j =>
           action[n][j] # None

\* The function of a task has been called.
Ran(t) ==
  \E n \in Node : task[n][t].type = "LOCAL"
                   /\ task[n][t].status \in {"RUNNING", "WAITING", "COMPLETED"}

Fresh(t) == \A n \in Node : task[n][t].status = "NONE"

\* A frame has still to come to operation p of its script.
Ahead(f, p) == f.ip < p \/ (f.ip = p /\ f.at \notin BeginPlace)

\* What a script has still to start is not started.
FreshInv ==
  /\ \A th \in Thread : \A i \in DOMAIN stack[th] : \A t \in Task :
       LET f == stack[th][i] IN
       f.at \in RunPlace =>
         \A p \in DOMAIN ScriptOf(th, f) :
           Ahead(f, p) /\ StartsAt(ScriptOf(th, f), p, t) => Fresh(t)
  /\ \A u, t \in Task : ~Ran(u) =>
       \A p \in DOMAIN prog.body[u] : StartsAt(prog.body[u], p, t) => Fresh(t)

\* Task t was sent by node n and has not been answered.
Sent(n, t) ==
  /\ task[n][t].type = "REMOTE" /\ prog.distributed
  /\ \/ task[n][t].status = "SCHEDULED"
     \/ /\ task[n][t].status = "CREATED"
        /\ \E th \in Thread : \E i \in DOMAIN stack[th] :
             In(th, i, n, t) /\ stack[th][i].at = "schedule"

TaskTypes == {"START_REMOTE_TASK", "SERVE", "COMPLETE_REMOTE_TASK", "COMPLETE_LOCAL_TASK"}

\* A message m about a task, which node n has, says where the task is.
About(n, m) ==
  /\ m.type = "START_REMOTE_TASK" =>
       Sent(n, m.on) /\ task[Other(n)][m.on].status = "NONE"
         /\ served[m.on] = "RECEIVE_REMOTE_TASK"
  /\ m.type = "SERVE" =>
       Sent(Other(n), m.on)
         /\ (served[m.on] = "RECEIVE_REMOTE_TASK" <=> task[n][m.on].status = "NONE")
  /\ m.type = "COMPLETE_REMOTE_TASK" => Sent(n, m.on)

Carried(n) == processer[n].at \in {"process", "list", "await", "again"}

TokenInv ==
  \A n \in Node :
    /\ \A i \in DOMAIN messages[n] : About(n, messages[n][i])
    /\ processer[n].at = "process" => About(n, processer[n].msg)
    /\ processer[n].at \in {"list", "await", "again"} =>
         /\ Sent(Other(n), processer[n].msg.on)
         /\ task[n][processer[n].msg.on].status # "NONE"
         /\ processer[n].at = "again" => served[processer[n].msg.on] # "RECEIVE_REMOTE_TASK"
    /\ \A i \in DOMAIN net[n] :
         /\ net[n][i].type = "START_REMOTE_TASK" =>
              Sent(Other(n), net[n][i].on) /\ task[n][net[n][i].on].status = "NONE"
                /\ served[net[n][i].on] = "RECEIVE_REMOTE_TASK"
         /\ net[n][i].type = "COMPLETE_LOCAL_TASK" => Sent(n, net[n][i].on)

\* There is one message at most about a task.
Same(m, k) == m.type \in TaskTypes /\ k.type \in TaskTypes /\ m.on = k.on

OneTokenInv ==
  \A m, n \in Node :
    /\ \A i \in DOMAIN messages[m], k \in DOMAIN messages[n] :
         Same(messages[m][i], messages[n][k]) => m = n /\ i = k
    /\ \A i \in DOMAIN net[m], k \in DOMAIN net[n] :
         Same(net[m][i], net[n][k]) => m = n /\ i = k
    /\ Carried(m) /\ Carried(n) /\ Same(processer[m].msg, processer[n].msg) => m = n
    /\ \A i \in DOMAIN messages[m], k \in DOMAIN net[n] : ~Same(messages[m][i], net[n][k])
    /\ Carried(n) =>
         /\ \A i \in DOMAIN messages[m] : ~Same(messages[m][i], processer[n].msg)
         /\ \A i \in DOMAIN net[m] : ~Same(net[m][i], processer[n].msg)

\* The message of a received task is told of its end by the task only, and
\* nobody has received a task that was not sent.
ServedInv ==
  \A t \in Task :
    served[t] # "RECEIVE_REMOTE_TASK" => \E n \in Node : task[n][t].message

UnsentInv ==
  \A n \in Node, t \in Task :
    task[n][t].status = "CREATED" /\ task[n][t].type = "REMOTE" /\ ~Sent(n, t) =>
      \A m \in Node : ~task[m][t].message

\* What is left of SetTaskComplete concerns the task.
StagesFit(stages, rec) ==
  /\ "parent" \in ToSet(stages) => rec.parent # None
  /\ "queue" \in ToSet(stages) => rec.queue # None
  /\ "group" \in ToSet(stages) \/ "result" \in ToSet(stages) => rec.group # None
  /\ "message" \in ToSet(stages) => rec.message

StagesInv ==
  \A th \in Thread : \A i \in DOMAIN stack[th] :
    stack[th][i].at = "complete" =>
      StagesFit(stack[th][i].stages, task[th[1]][stack[th][i].task])

Inv2 ==
  /\ ServedInv /\ UnsentInv /\ StagesInv
  /\ ListInv /\ HeldInv /\ BeginInv /\ ReceiveInv /\ SomewhereInv
  /\ RecordInv /\ ActionInv /\ FreshInv /\ TokenInv /\ OneTokenInv


-----------------------------------------------------------------------------
(* Threads, programs and stacks.                                           *)

\* A thread belongs to a node; every node has a main thread.
LEMMA ThreadOk ==
  /\ \A th \in Thread : th[1] \in Node /\ th = <<th[1], th[2]>>
  /\ \A n \in Node : <<n, "main">> \in Thread
BY DEF Thread

\* The other node.
LEMMA OtherOk ==
  ASSUME prog \in Programs, prog.distributed, NEW n \in Node
  PROVE  Other(n) \in Node /\ Other(n) # n /\ Other(Other(n)) = n /\ Node = {n, Other(n)}
<1>1. PICK a, b \in Node : a # b /\ Node = {a, b}
  BY RemoteAssumption
<1>2. \A m \in Node : Other(m) \in Node /\ Other(m) # m
  BY <1>1 DEF Other
<1> QED BY <1>1, <1>2

\* What an operation is about.
LEMMA OpTyped ==
  ASSUME NEW o \in Op
  PROVE  /\ o.do \in {"action", "start", "wait", "all", "any"}
         /\ o.do = "action" => o.on \in Job
         /\ o.do \in {"start", "wait"} => o.on \in Task
         /\ o.do \in {"all", "any"} => o.on \in Group
BY DEF Op

LEMMA ProgTyped ==
  ASSUME prog \in Programs
  PROVE  /\ prog.main \in [Node -> Seq(Op)] /\ prog.body \in [Task -> Seq(Op)]
         /\ prog.job \in [Task -> Job] /\ prog.queue \in [Task -> Queue \union {None}]
         /\ prog.group \in [Task -> Group \union {None}] /\ prog.distributed \in BOOLEAN
         /\ StartedOnce(prog)
BY MtapiAssumption DEF Program

LEMMA ScriptTyped ==
  ASSUME prog \in Programs, NEW th \in Thread, NEW f, f.task \in Task \union {None}
  PROVE  ScriptOf(th, f) \in Seq(Op)
BY ProgTyped, ThreadOk DEF ScriptOf

\* The frame on top of a stack.
LEMMA TopOk ==
  ASSUME Inv1, NEW th \in Thread, stack[th] # <<>>
  PROVE  /\ Len(stack[th]) \in Nat \ {0} /\ Len(stack[th]) \in DOMAIN stack[th]
         /\ DOMAIN stack[th] = 1..Len(stack[th])
         /\ Top(th) \in FrameType /\ Top(th) = stack[th][Len(stack[th])]
         /\ GoodFrame(th, Len(stack[th]), Top(th))
         /\ Script(th) = ScriptOf(th, Top(th)) /\ Script(th) \in Seq(Op)
         /\ On(th) = OpOf(th, Top(th)).on
<1>1. stack[th] \in Seq(FrameType)
  BY DEF Inv1, Typed
<1>2. Len(stack[th]) \in Nat \ {0} /\ DOMAIN stack[th] = 1..Len(stack[th])
  BY <1>1
<1>3. Top(th) = stack[th][Len(stack[th])] /\ Top(th) \in FrameType
  BY <1>1, <1>2 DEF Top, Last
<1>4. GoodFrame(th, Len(stack[th]), Top(th))
  BY <1>2, <1>3 DEF Inv1, Shape, StackOk
<1>5. Script(th) = ScriptOf(th, Top(th))
  BY DEF Script, ScriptOf, Mine
<1>6. ScriptOf(th, Top(th)) \in Seq(Op)
  BY <1>3, ScriptTyped DEF Inv1, Typed, FrameType
<1> QED BY <1>2, <1>3, <1>4, <1>5, <1>6 DEF On, OpOf

\* What a step does to the stacks: it replaces, removes or adds the top frame
\* of one of them.
Replaced(th, f) ==
  /\ stack' \in [Thread -> Seq(FrameType)]
  /\ Len(stack'[th]) = Len(stack[th])
  /\ stack'[th][Len(stack[th])] = f
  /\ \A i \in 1..(Len(stack[th]) - 1) : stack'[th][i] = stack[th][i]
  /\ \A uh \in Thread : uh # th => stack'[uh] = stack[uh]

Removed(th) ==
  /\ stack' \in [Thread -> Seq(FrameType)]
  /\ Len(stack'[th]) = Len(stack[th]) - 1
  /\ \A i \in 1..(Len(stack[th]) - 1) : stack'[th][i] = stack[th][i]
  /\ \A uh \in Thread : uh # th => stack'[uh] = stack[uh]

\* The frames below stay, but for the place of the one that was on top.
Added(th, f) ==
  /\ stack' \in [Thread -> Seq(FrameType)]
  /\ Len(stack'[th]) = Len(stack[th]) + 1
  /\ stack'[th][Len(stack[th]) + 1] = f
  /\ \A i \in 1..(Len(stack[th]) - 1) : stack'[th][i] = stack[th][i]
  /\ stack[th] # <<>> => stack'[th][Len(stack[th])] = [Top(th) EXCEPT !.at = "body"]
  /\ \A uh \in Thread : uh # th => stack'[uh] = stack[uh]

LEMMA SeqTop ==
  ASSUME NEW S, NEW s \in Seq(S), s # <<>>, NEW f \in S
  PROVE  /\ Append(Front(s), f) \in Seq(S) /\ Len(Append(Front(s), f)) = Len(s)
         /\ Append(Front(s), f)[Len(s)] = f
         /\ \A i \in 1..(Len(s) - 1) : Append(Front(s), f)[i] = s[i]
         /\ Front(s) \in Seq(S) /\ Len(Front(s)) = Len(s) - 1
         /\ \A i \in 1..(Len(s) - 1) : Front(s)[i] = s[i]
<1>1. Len(s) \in Nat \ {0}
  OBVIOUS
<1>2. /\ Front(s) \in Seq(S) /\ Len(Front(s)) = Len(s) - 1
      /\ \A i \in 1..(Len(s) - 1) : Front(s)[i] = s[i]
  <2>1. \A i \in 1..(Len(s) - 1) : s[i] \in S
    OBVIOUS
  <2>2. Len(s) - 1 \in Int /\ 1 \in Int
    BY <1>1
  <2> DEFINE r == SubSeq(s, 1, Len(s) - 1)
  <2>3. /\ r \in Seq(S) /\ Len(r) = IF 1 <= Len(s) - 1 THEN Len(s) - 1 - 1 + 1 ELSE 0
        /\ \A i \in 1..(Len(s) - 1 - 1 + 1) : r[i] = s[1 + i - 1]
    BY <2>1, <2>2, SubSeqProperties
  <2>4. Front(s) = r
    BY DEF Front
  <2> HIDE DEF r
  <2> QED BY <1>1, <2>3, <2>4
<1> QED BY <1>1, <1>2

LEMMA ReplaceTop ==
  ASSUME Inv1, NEW th \in Thread, stack[th] # <<>>, NEW f \in FrameType, SetTop(th, f)
  PROVE  Replaced(th, f)
<1>1. stack \in [Thread -> Seq(FrameType)]
  BY DEF Inv1, Typed
<1>2. stack' = [stack EXCEPT ![th] = Append(Front(stack[th]), f)]
  BY DEF SetTop
<1>3. Append(Front(stack[th]), f) \in Seq(FrameType)
  BY <1>1, SeqTop
<1>4. stack'[th] = Append(Front(stack[th]), f) /\ stack' \in [Thread -> Seq(FrameType)]
  BY <1>1, <1>2, <1>3
<1>5. \A uh \in Thread : uh # th => stack'[uh] = stack[uh]
  BY <1>1, <1>2
<1> QED BY <1>1, <1>4, <1>5, SeqTop DEF Replaced

LEMMA RemoveTop ==
  ASSUME Inv1, NEW th \in Thread, stack[th] # <<>>, Return(th)
  PROVE  Removed(th)
<1>1. stack \in [Thread -> Seq(FrameType)]
  BY DEF Inv1, Typed
<1>2. stack' = [stack EXCEPT ![th] = Front(stack[th])]
  BY DEF Return
<1>3. Front(stack[th]) \in Seq(FrameType)
  BY <1>1, <1>2, SeqTop, TopOk
<1>4. stack'[th] = Front(stack[th]) /\ stack' \in [Thread -> Seq(FrameType)]
  BY <1>1, <1>2, <1>3
<1>5. \A uh \in Thread : uh # th => stack'[uh] = stack[uh]
  BY <1>1, <1>2
<1>6. Top(th) \in FrameType
  BY TopOk
<1> QED BY <1>1, <1>4, <1>5, <1>6, SeqTop DEF Removed

-----------------------------------------------------------------------------
(* The stacks keep their shape.                                            *)

LEMMA GoodKept ==
  ASSUME prog' = prog, NEW th, NEW i, NEW f
  PROVE  GoodFrame(th, i, f)' <=> GoodFrame(th, i, f)
<1>1. ScriptOf(th, f)' = ScriptOf(th, f)
  BY DEF ScriptOf
<1>2. OpOf(th, f)' = OpOf(th, f)
  BY <1>1 DEF OpOf
<1>3. OpOk(th, f)' <=> OpOk(th, f)
  BY <1>1, <1>2 DEF OpOk
<1> QED BY <1>3 DEF GoodFrame

LEMMA OtherStack ==
  ASSUME prog' = prog, NEW uh \in Thread, stack'[uh] = stack[uh], StackOk(uh)
  PROVE  StackOk(uh)'
<1>1. \A i \in DOMAIN stack'[uh] : GoodFrame(uh, i, stack'[uh][i])
  BY DEF StackOk
<1>2. \A i \in DOMAIN stack'[uh] : GoodFrame(uh, i, stack[uh][i])'
  BY <1>1, GoodKept
<1> QED BY <1>2 DEF StackOk

LEMMA ReplacedOk ==
  ASSUME Inv1, NEW th \in Thread, stack[th] # <<>>, NEW f \in FrameType,
         Replaced(th, f), GoodFrame(th, Len(stack[th]), f), prog' = prog
  PROVE  \A uh \in Thread : StackOk(uh)'
<1> SUFFICES ASSUME NEW uh \in Thread PROVE StackOk(uh)'
  OBVIOUS
<1>1. stack[uh] \in Seq(FrameType) /\ stack'[uh] \in Seq(FrameType) /\ StackOk(uh)
  BY DEF Inv1, Typed, Shape, Replaced
<1>2. CASE uh # th
  BY <1>1, <1>2, OtherStack DEF Replaced
<1>3. CASE uh = th
  <2>1. Len(stack[th]) \in Nat \ {0} /\ Len(stack'[th]) = Len(stack[th])
        /\ DOMAIN stack'[th] = 1..Len(stack[th]) /\ DOMAIN stack[th] = 1..Len(stack[th])
    BY <1>1, <1>3, TopOk DEF Replaced
  <2>2. \A i \in 1..(Len(stack[th]) - 1) :
          /\ stack'[th][i] = stack[th][i]
          /\ GoodFrame(th, i, stack[th][i]) /\ stack[th][i].at = "body"
    <3>1. \A i \in 1..(Len(stack[th]) - 1) : i \in DOMAIN stack[th] /\ i < Len(stack[th])
      BY <2>1
    <3> QED BY <1>1, <1>3, <3>1 DEF Replaced, StackOk
  <2>3. stack'[th][Len(stack[th])] = f
    BY DEF Replaced
  <2>4. \A i \in 1..Len(stack[th]) : GoodFrame(th, i, stack'[th][i])
    BY <2>1, <2>2, <2>3
  <2>5. \A i \in 1..Len(stack[th]) : GoodFrame(th, i, stack[th][i])'
    BY <2>4, GoodKept
  <2>6. \A i \in 1..Len(stack[th]) : i < Len(stack[th]) => stack'[th][i].at = "body"
    BY <2>1, <2>2
  <2>7. stack'[th] # <<>>
    BY <2>1
  <2> QED BY <1>3, <2>1, <2>5, <2>6, <2>7 DEF StackOk
<1> QED BY <1>2, <1>3

LEMMA RemovedOk ==
  ASSUME Inv1, NEW th \in Thread, stack[th] # <<>>, Top(th).task # None,
         Removed(th), prog' = prog
  PROVE  \A uh \in Thread : StackOk(uh)'
<1> SUFFICES ASSUME NEW uh \in Thread PROVE StackOk(uh)'
  OBVIOUS
<1>1. stack[uh] \in Seq(FrameType) /\ stack'[uh] \in Seq(FrameType) /\ StackOk(uh)
  BY DEF Inv1, Typed, Shape, Removed
<1>2. CASE uh # th
  BY <1>1, <1>2, OtherStack DEF Removed
<1>3. CASE uh = th
  <2>1. Len(stack[th]) \in Nat \ {0} /\ Len(stack'[th]) = Len(stack[th]) - 1
        /\ DOMAIN stack'[th] = 1..(Len(stack[th]) - 1)
        /\ DOMAIN stack[th] = 1..Len(stack[th])
    BY <1>1, <1>3, TopOk DEF Removed
  <2>2. \A i \in 1..(Len(stack[th]) - 1) :
          /\ stack'[th][i] = stack[th][i]
          /\ GoodFrame(th, i, stack[th][i]) /\ stack[th][i].at = "body"
    <3>1. \A i \in 1..(Len(stack[th]) - 1) : i \in DOMAIN stack[th] /\ i < Len(stack[th])
      BY <2>1
    <3> QED BY <1>1, <1>3, <3>1 DEF Removed, StackOk
  <2>5. \A i \in 1..(Len(stack[th]) - 1) : GoodFrame(th, i, stack[th][i])'
    BY <2>2, GoodKept
  <2>6. GoodFrame(th, Len(stack[th]), Top(th))
    BY TopOk
  <2>7. th[2] = "main" => stack'[th] # <<>>
    <3> SUFFICES ASSUME th[2] = "main" PROVE stack'[th] # <<>>
      OBVIOUS
    <3>1. Top(th).task = None <=> Len(stack[th]) = 1 /\ th[2] = "main"
      BY <2>6 DEF GoodFrame
    <3>2. Len(stack[th]) # 1
      BY <3>1
    <3>3. Len(stack'[th]) # 0
      BY <2>1, <3>2
    <3> QED BY <1>1, <1>3, <3>3
  <2> QED BY <1>3, <2>1, <2>2, <2>5, <2>7 DEF StackOk
<1> QED BY <1>2, <1>3

LEMMA AddedOk ==
  ASSUME Inv1, NEW th \in Thread, NEW f \in FrameType, Added(th, f), prog' = prog,
         f.task # None, f.at \notin RunPlace \union {"complete"}
  PROVE  \A uh \in Thread : StackOk(uh)'
<1> SUFFICES ASSUME NEW uh \in Thread PROVE StackOk(uh)'
  OBVIOUS
<1>1. stack[uh] \in Seq(FrameType) /\ stack'[uh] \in Seq(FrameType) /\ StackOk(uh)
  BY DEF Inv1, Typed, Shape, Added
<1>2. CASE uh # th
  BY <1>1, <1>2, OtherStack DEF Added
<1>3. CASE uh = th
  <2> DEFINE d == Len(stack[th])
  <2>1. d \in Nat /\ Len(stack'[th]) = d + 1 /\ DOMAIN stack'[th] = 1..(d + 1)
        /\ DOMAIN stack[th] = 1..d
    BY <1>1, <1>3 DEF Added
  <2>2. \A i \in 1..(d - 1) : stack'[th][i] = stack[th][i]
        /\ GoodFrame(th, i, stack[th][i]) /\ stack[th][i].at = "body"
    BY <1>1, <1>3, <2>1 DEF Added, StackOk
  <2>3. stack'[th][d + 1] = f
    BY DEF Added
  <2>4. d # 0 => /\ stack[th] # <<>> /\ stack'[th][d] = [Top(th) EXCEPT !.at = "body"]
                 /\ Top(th) \in FrameType /\ GoodFrame(th, d, Top(th))
    BY <1>1, <1>3, <2>1, TopOk DEF Added
  <2>5. d = 0 => th[2] # "main"
    BY <1>1, <1>3, <2>1 DEF StackOk
  <2> HIDE DEF d
  <2>7. d # 0 => GoodFrame(th, d, stack'[th][d]) /\ stack'[th][d].at = "body"
    <3> SUFFICES ASSUME d # 0 PROVE GoodFrame(th, d, stack'[th][d]) /\ stack'[th][d].at = "body"
      OBVIOUS
    <3> DEFINE g == [Top(th) EXCEPT !.at = "body"]
    <3>1. g.at = "body" /\ g.task = Top(th).task
      BY <2>4 DEF FrameType
    <3>2. stack'[th][d] = g /\ GoodFrame(th, d, Top(th))
      BY <2>4
    <3> HIDE DEF g
    <3>3. GoodFrame(th, d, g)
      BY <3>1, <3>2 DEF GoodFrame, OpOk, RunPlace, BeginPlace
    <3> QED BY <3>1, <3>2, <3>3
  <2>8. GoodFrame(th, d + 1, f)
    <3>1. ~(d + 1 = 1 /\ th[2] = "main")
      BY <2>1, <2>5
    <3>2. OpOk(th, f)
      BY DEF OpOk, RunPlace, BeginPlace
    <3> QED BY <3>1, <3>2 DEF GoodFrame
  <2>9. stack'[th] # <<>>
    BY <2>1
  <2>10. \A i \in 1..(d + 1) : i \in 1..(d - 1) \/ (i = d /\ d # 0) \/ i = d + 1
    BY <2>1
  <2>11. \A i \in 1..(d + 1) : i < d + 1 => stack'[th][i].at = "body"
    BY <2>1, <2>2, <2>7, <2>10
  <2>12. \A i \in 1..(d + 1) : GoodFrame(th, i, stack'[th][i])
    BY <2>2, <2>3, <2>7, <2>8, <2>10
  <2>13. \A i \in 1..(d + 1) : GoodFrame(th, i, stack[th][i])'
    BY <2>12, GoodKept
  <2> QED BY <1>3, <2>1, <2>9, <2>11, <2>13 DEF StackOk
<1> QED BY <1>2, <1>3

\* The frame on top with another place, or with the next operation.
Moved(th, place) == [Top(th) EXCEPT !.at = place]
Advanced(th) == [Top(th) EXCEPT !.at = "body", !.ip = @ + 1]

LEMMA GotoOk ==
  ASSUME Inv1, NEW th \in Thread, stack[th] # <<>>, prog' = prog,
         NEW place \in Place, place # "complete", Goto(th, place),
         Top(th).task = None => place \in RunPlace, OpOk(th, Moved(th, place))
  PROVE  /\ Moved(th, place) \in FrameType /\ Replaced(th, Moved(th, place))
         /\ \A uh \in Thread : StackOk(uh)'
<1> DEFINE g == Moved(th, place)
<1>1. g \in FrameType /\ g.task = Top(th).task /\ g.at = place
  BY TopOk DEF Moved, FrameType
<1>2. SetTop(th, g)
  BY DEF Goto, Moved
<1>3. Replaced(th, g)
  BY <1>1, <1>2, ReplaceTop
<1>4. GoodFrame(th, Len(stack[th]), g)
  BY <1>1, TopOk DEF GoodFrame
<1> HIDE DEF g
<1>5. \A uh \in Thread : StackOk(uh)'
  BY <1>1, <1>3, <1>4, ReplacedOk
<1> QED BY <1>1, <1>3, <1>5 DEF g

LEMMA NextOk ==
  ASSUME Inv1, NEW th \in Thread, stack[th] # <<>>, prog' = prog, NextOp(th)
  PROVE  /\ Advanced(th) \in FrameType /\ Replaced(th, Advanced(th))
         /\ \A uh \in Thread : StackOk(uh)'
<1> DEFINE g == Advanced(th)
<1>1. g \in FrameType /\ g.task = Top(th).task /\ g.at = "body"
  <2>1. Top(th) \in FrameType /\ Top(th).ip + 1 \in Nat \ {0} /\ "body" \in Place
    BY TopOk DEF FrameType, Place
  <2> QED BY <2>1 DEF Advanced, FrameType
<1>2. SetTop(th, g)
  BY DEF NextOp, Advanced
<1>3. Replaced(th, g)
  BY <1>1, <1>2, ReplaceTop
<1>4. GoodFrame(th, Len(stack[th]), g)
  BY <1>1, TopOk DEF GoodFrame, OpOk, RunPlace, BeginPlace
<1> HIDE DEF g
<1>5. \A uh \in Thread : StackOk(uh)'
  BY <1>1, <1>3, <1>4, ReplacedOk
<1> QED BY <1>1, <1>3, <1>5 DEF g

LEMMA ReturnOk ==
  ASSUME Inv1, NEW th \in Thread, stack[th] # <<>>, prog' = prog, Return(th),
         Top(th).task # None
  PROVE  Removed(th) /\ \A uh \in Thread : StackOk(uh)'
BY RemoveTop, RemovedOk

-----------------------------------------------------------------------------
(* Steps within a script: types, and the effect on frames.                 *)

LEMMA RestShape ==
  ASSUME Inv1, \A uh \in Thread : StackOk(uh)', UNCHANGED <<prog, messages, net, processer>>
  PROVE  Shape'
BY DEF Inv1, Shape, ProcesserOk, Silent

\* A thread goes on in a script, and not from or to the start of a task.
Walk(th, g) ==
  /\ stack[th] # <<>> /\ Top(th).at \in RunPlace /\ Replaced(th, g)
  /\ g.at \in RunPlace /\ g.task = Top(th).task /\ Top(th).ip <= g.ip
  /\ g.at \in BeginPlace \/ Top(th).at \in BeginPlace =>
       g.at \in BeginPlace /\ Top(th).at \in BeginPlace /\ g.ip = Top(th).ip
  /\ UNCHANGED <<prog, task, taskList, served, net, processer>>

\* The operation at hand.
LEMMA DoingOk ==
  ASSUME Inv1, NEW th \in Thread, NEW what, Doing(th, what)
  PROVE  /\ stack[th] # <<>> /\ Top(th).at = "body" /\ Top(th).ip \in DOMAIN ScriptOf(th, Top(th))
         /\ OpOf(th, Top(th)) \in Op /\ OpOf(th, Top(th)).do = what
         /\ what = "action" => On(th) \in Job
         /\ what \in {"start", "wait"} => On(th) \in Task
         /\ what \in {"all", "any"} => On(th) \in Group
<1>1. stack[th] # <<>> /\ Top(th).at = "body"
  BY DEF Doing, At
<1>2. Top(th).ip \in Nat \ {0} /\ Top(th).ip <= Len(Script(th)) /\ Script(th) \in Seq(Op)
  BY <1>1, TopOk DEF Doing, FrameType
<1>3. Top(th).ip \in DOMAIN Script(th) /\ Script(th)[Top(th).ip] \in Op
  BY <1>2
<1>4. Script(th) = ScriptOf(th, Top(th)) /\ On(th) = OpOf(th, Top(th)).on
  BY <1>1, TopOk
<1>5. OpOf(th, Top(th)) \in Op /\ OpOf(th, Top(th)).do = what
  BY <1>3, <1>4 DEF OpOf, Doing
<1> QED BY <1>1, <1>3, <1>4, <1>5, OpTyped

\* The operation of a thread that is in a call of it.
LEMMA CallOk ==
  ASSUME Inv1, NEW th \in Thread, NEW place, At(th, place), place \in RunPlace \ {"body"}
  PROVE  /\ stack[th] # <<>> /\ Top(th).at = place /\ Top(th).ip \in DOMAIN ScriptOf(th, Top(th))
         /\ OpOf(th, Top(th)) \in Op
         /\ place \in BeginPlace => OpOf(th, Top(th)).do = "start" /\ On(th) \in Task
         /\ place = "entry" => prog.queue[On(th)] \in Queue
         /\ place \in {"grow", "count"} => prog.group[On(th)] \in Group
         /\ place = "announce" => On(th) \in Job /\ prog.distributed
         /\ place \in {"compare", "fetch"} => OpOf(th, Top(th)).do = "any" /\ On(th) \in Group
<1>1. stack[th] # <<>> /\ Top(th).at = place
  BY DEF At
<1>2. OpOk(th, Top(th)) /\ On(th) = OpOf(th, Top(th)).on
  BY <1>1, TopOk DEF GoodFrame
<1>3. OpOf(th, Top(th)) \in Op /\ Top(th).ip \in DOMAIN ScriptOf(th, Top(th))
  BY <1>1, <1>2 DEF OpOk
<1>4. place \in BeginPlace => OpOf(th, Top(th)).do = "start" /\ On(th) \in Task
  BY <1>1, <1>2, <1>3, OpTyped DEF OpOk
<1>5. place = "entry" => prog.queue[On(th)] \in Queue
  BY <1>1, <1>2, <1>4, ProgTyped DEF OpOk, Inv1, Typed, BeginPlace
<1>6. place \in {"grow", "count"} => prog.group[On(th)] \in Group
  BY <1>1, <1>2, <1>4, ProgTyped DEF OpOk, Inv1, Typed, BeginPlace
<1>7. place = "announce" => On(th) \in Job /\ prog.distributed
  BY <1>1, <1>2, <1>3, OpTyped DEF OpOk
<1>8. place \in {"compare", "fetch"} => OpOf(th, Top(th)).do = "any" /\ On(th) \in Group
  BY <1>1, <1>2, <1>3, OpTyped DEF OpOk
<1> QED BY <1>1, <1>3, <1>4, <1>5, <1>6, <1>7, <1>8

\* Going to another place of the same operation, and to the next operation.
LEMMA WalkTo ==
  ASSUME Inv1, NEW th \in Thread, stack[th] # <<>>, Top(th).at \in RunPlace,
         NEW place \in RunPlace, Goto(th, place), OpOk(th, Moved(th, place)),
         Top(th).at \in BeginPlace <=> place \in BeginPlace,
         UNCHANGED <<prog, task, taskList, served, net, processer>>
  PROVE  /\ Walk(th, Moved(th, place)) /\ \A uh \in Thread : StackOk(uh)'
         /\ Moved(th, place).at = place
<1>1. place \in Place /\ place # "complete"
  BY DEF RunPlace, Place
<1>2. Top(th) \in FrameType
  BY TopOk
<1>3. /\ Moved(th, place).at = place /\ Moved(th, place).task = Top(th).task
      /\ Moved(th, place).ip = Top(th).ip /\ Top(th).ip \in Nat
  BY <1>2 DEF Moved, FrameType
<1> QED BY <1>1, <1>3, GotoOk DEF Walk

LEMMA WalkOn ==
  ASSUME Inv1, NEW th \in Thread, stack[th] # <<>>, Top(th).at \in RunPlace \ BeginPlace,
         NextOp(th), UNCHANGED <<prog, task, taskList, served, net, processer>>
  PROVE  /\ Walk(th, Advanced(th)) /\ \A uh \in Thread : StackOk(uh)'
         /\ Advanced(th).at = "body"
<1>1. Top(th) \in FrameType
  BY TopOk
<1>2. /\ Advanced(th).at = "body" /\ Advanced(th).task = Top(th).task
      /\ Advanced(th).ip = Top(th).ip + 1 /\ Top(th).ip \in Nat
  BY <1>1 DEF Advanced, FrameType
<1>3. Top(th).ip <= Advanced(th).ip
  BY <1>2
<1> QED BY <1>2, <1>3, NextOk DEF Walk, RunPlace, BeginPlace

\* The types of what most steps leave alone.
LEMMA TypedStep ==
  ASSUME Inv1, UNCHANGED <<prog, messages, net, acks, processer>>,
         stack' \in [Thread -> Seq(FrameType)],
         action' \in [Node -> [Job -> {None, "LOCAL", "REMOTE"}]],
         task' \in [Node -> [Task -> TaskInfo]], taskList' \in [Node -> Seq(Task)],
         queue' = [q \in Queue |-> queue'[q]],
         group' \in [Group -> [num : Nat, current : Int, result : Task \union {None}]],
         current' \in [Thread -> Task \union {None}],
         filled' \subseteq Node \X Task, awaited' \subseteq Task,
         served' \in [Task -> {"RECEIVE_REMOTE_TASK", "AWAIT_LOCAL_TASK", "COMPLETE_LOCAL_TASK"}],
         \A uh \in Thread : StackOk(uh)'
  PROVE  Inv1'
BY RestShape DEF Inv1, Typed

LEMMA CreateActionStep ==
  ASSUME Inv1, NEW th \in Thread, CreateAction(th), UNCHANGED remoteVars
  PROVE  /\ Inv1' /\ messages' = messages /\ On(th) \in Job
         /\ \E g : Walk(th, g) /\ (g.at = "announce" => OpOf(th, g).on = On(th))
         /\ action' = [action EXCEPT ![th[1]][On(th)] =
                         IF action[th[1]][On(th)] = None THEN "LOCAL" ELSE action[th[1]][On(th)]]
<1>1. /\ stack[th] # <<>> /\ Top(th).at = "body" /\ On(th) \in Job
      /\ Top(th).ip \in DOMAIN ScriptOf(th, Top(th))
      /\ OpOf(th, Top(th)) \in Op /\ OpOf(th, Top(th)).do = "action"
      /\ On(th) = OpOf(th, Top(th)).on /\ Top(th) \in FrameType
  BY DoingOk, TopOk DEF CreateAction
<1>2. UNCHANGED <<prog, task, taskList, queue, group, current, filled, awaited,
                  messages, served, net, acks, processer>>
  BY DEF CreateAction, remoteVars
<1>3. action' = [action EXCEPT ![th[1]][On(th)] =
                   IF action[th[1]][On(th)] = None THEN "LOCAL" ELSE action[th[1]][On(th)]]
  BY DEF CreateAction
<1>4. action' \in [Node -> [Job -> {None, "LOCAL", "REMOTE"}]]
  BY <1>1, <1>3, ThreadOk DEF Inv1, Typed
<1>5. \E g : /\ Walk(th, g) /\ (g.at = "announce" => OpOf(th, g).on = On(th))
             /\ \A uh \in Thread : StackOk(uh)'
  <2>1. CASE prog.distributed
    <3>1. Goto(th, "announce")
      BY <2>1 DEF CreateAction
    <3>2. /\ Moved(th, "announce").at = "announce" /\ Moved(th, "announce").task = Top(th).task
          /\ Moved(th, "announce").ip = Top(th).ip
      BY <1>1 DEF Moved, FrameType
    <3>3. OpOf(th, Moved(th, "announce")) = OpOf(th, Top(th))
          /\ ScriptOf(th, Moved(th, "announce")) = ScriptOf(th, Top(th))
      BY <3>2 DEF OpOf, ScriptOf
    <3>4. OpOk(th, Moved(th, "announce"))
      BY <1>1, <2>1, <3>2, <3>3 DEF OpOk, BeginPlace
    <3> QED BY <1>1, <1>2, <3>1, <3>3, <3>4, WalkTo DEF RunPlace, BeginPlace
  <2>2. CASE ~prog.distributed
    <3>1. NextOp(th)
      BY <2>2 DEF CreateAction
    <3> QED BY <1>1, <1>2, <3>1, WalkOn DEF RunPlace, BeginPlace
  <2> QED BY <2>1, <2>2
<1>6. stack' \in [Thread -> Seq(FrameType)]
  BY <1>5 DEF Walk, Replaced
<1>7. Inv1'
  BY <1>2, <1>4, <1>5, <1>6, TypedStep DEF Inv1, Typed
<1> QED BY <1>1, <1>2, <1>3, <1>5, <1>7

LEMMA MovedOp ==
  ASSUME Inv1, NEW th \in Thread, stack[th] # <<>>, NEW place
  PROVE  /\ Moved(th, place).at = place /\ Moved(th, place).task = Top(th).task
         /\ Moved(th, place).ip = Top(th).ip /\ Moved(th, place).stages = Top(th).stages
         /\ OpOf(th, Moved(th, place)) = OpOf(th, Top(th))
         /\ ScriptOf(th, Moved(th, place)) = ScriptOf(th, Top(th))
<1>1. Top(th) \in FrameType
  BY TopOk
<1>2. /\ Moved(th, place).at = place /\ Moved(th, place).task = Top(th).task
      /\ Moved(th, place).ip = Top(th).ip /\ Moved(th, place).stages = Top(th).stages
  BY <1>1 DEF Moved, FrameType
<1> QED BY <1>2 DEF OpOf, ScriptOf

\* A step in a script that leaves actions and messages alone.
PlainWalk(th) ==
  /\ \E g : Walk(th, g) /\ g.at # "announce"
  /\ UNCHANGED <<action, messages>>

\* A step of a script with a certain operation at hand is such a step.
LEMMA PlainWalkTo ==
  ASSUME Inv1, NEW th \in Thread, NEW place \in RunPlace \ {"announce"}, Goto(th, place),
         stack[th] # <<>>, Top(th).at \in RunPlace,
         OpOk(th, Moved(th, place)), Top(th).at \in BeginPlace <=> place \in BeginPlace,
         UNCHANGED <<prog, action, messages, task, taskList, served, net, acks, processer>>,
         queue' = [q \in Queue |-> queue'[q]],
         group' \in [Group -> [num : Nat, current : Int, result : Task \union {None}]],
         current' \in [Thread -> Task \union {None}],
         filled' \subseteq Node \X Task, awaited' \subseteq Task
  PROVE  Inv1' /\ PlainWalk(th)
<1>1. /\ Walk(th, Moved(th, place)) /\ \A uh \in Thread : StackOk(uh)'
      /\ Moved(th, place).at = place
  BY WalkTo
<1>2. stack' \in [Thread -> Seq(FrameType)]
  BY <1>1 DEF Walk, Replaced
<1>3. Inv1'
  BY <1>1, <1>2, TypedStep DEF Inv1, Typed
<1> QED BY <1>1, <1>3 DEF PlainWalk

LEMMA PlainWalkOn ==
  ASSUME Inv1, NEW th \in Thread, NextOp(th),
         stack[th] # <<>>, Top(th).at \in RunPlace \ BeginPlace,
         UNCHANGED <<prog, action, messages, task, taskList, served, net, acks, processer>>,
         queue' = [q \in Queue |-> queue'[q]],
         group' \in [Group -> [num : Nat, current : Int, result : Task \union {None}]],
         current' \in [Thread -> Task \union {None}],
         filled' \subseteq Node \X Task, awaited' \subseteq Task
  PROVE  Inv1' /\ PlainWalk(th)
<1>1. /\ Walk(th, Advanced(th)) /\ \A uh \in Thread : StackOk(uh)'
      /\ Advanced(th).at = "body"
  BY WalkOn
<1>2. stack' \in [Thread -> Seq(FrameType)]
  BY <1>1 DEF Walk, Replaced
<1>3. Inv1'
  BY <1>1, <1>2, TypedStep DEF Inv1, Typed
<1> QED BY <1>1, <1>3 DEF PlainWalk

LEMMA GroupCounted ==
  ASSUME NEW G \in [Group -> [num : Nat, current : Int, result : Task \union {None}]],
         NEW g \in Group
  PROVE  /\ [G EXCEPT ![g].current = @ + 1] \in
              [Group -> [num : Nat, current : Int, result : Task \union {None}]]
         /\ [G EXCEPT ![g].current = @ - 1] \in
              [Group -> [num : Nat, current : Int, result : Task \union {None}]]
         /\ [G EXCEPT ![g].num = @ + 1] \in
              [Group -> [num : Nat, current : Int, result : Task \union {None}]]
<1> DEFINE T == [num : Nat, current : Int, result : Task \union {None}]
<1>1. /\ [G[g] EXCEPT !.current = @ + 1] \in T /\ [G[g] EXCEPT !.current = @ - 1] \in T
      /\ [G[g] EXCEPT !.num = @ + 1] \in T
  BY G[g].current + 1 \in Int, G[g].current - 1 \in Int, G[g].num + 1 \in Nat
<1> HIDE DEF T
<1> QED BY <1>1 DEF T

LEMMA EnterQueueStep ==
  ASSUME Inv1, NEW th \in Thread, EnterQueue(th), UNCHANGED remoteVars
  PROVE  Inv1' /\ PlainWalk(th)
<1>1. /\ stack[th] # <<>> /\ Top(th).at = "entry" /\ On(th) \in Task
      /\ Top(th).ip \in DOMAIN ScriptOf(th, Top(th))
      /\ OpOf(th, Top(th)) \in Op /\ OpOf(th, Top(th)).do = "start"
      /\ On(th) = OpOf(th, Top(th)).on /\ prog.queue[On(th)] \in Queue
  BY CallOk, TopOk DEF EnterQueue, RunPlace, BeginPlace
<1>2. PICK place \in {"grow", "list"} :
        Goto(th, place) /\ (place = "grow" => prog.group[On(th)] # None)
  BY DEF EnterQueue
<1>3. OpOk(th, Moved(th, place))
  BY <1>1, <1>2, MovedOp DEF OpOk
<1>4. UNCHANGED <<prog, action, task, taskList, group, current, filled, awaited,
                  messages, served, net, acks, processer>>
  BY DEF EnterQueue, remoteVars
<1>5. queue' = [q \in Queue |-> queue'[q]]
  BY DEF EnterQueue, Inv1, Typed
<1>6. Top(th).at \in RunPlace \intersect BeginPlace /\ place \in RunPlace \intersect BeginPlace
      /\ place # "announce"
  BY <1>1, <1>2 DEF RunPlace, BeginPlace
<1>7. /\ group' \in [Group -> [num : Nat, current : Int, result : Task \union {None}]]
      /\ current' \in [Thread -> Task \union {None}]
      /\ filled' \subseteq Node \X Task /\ awaited' \subseteq Task
  BY <1>4 DEF Inv1, Typed
<1> QED BY <1>1, <1>2, <1>3, <1>4, <1>5, <1>6, <1>7, PlainWalkTo

LEMMA GrowGroupStep ==
  ASSUME Inv1, NEW th \in Thread, GrowGroup(th), UNCHANGED remoteVars
  PROVE  Inv1' /\ PlainWalk(th)
<1>1. /\ stack[th] # <<>> /\ Top(th).at = "grow" /\ On(th) \in Task
      /\ Top(th).ip \in DOMAIN ScriptOf(th, Top(th))
      /\ OpOf(th, Top(th)) \in Op /\ OpOf(th, Top(th)).do = "start"
      /\ On(th) = OpOf(th, Top(th)).on /\ prog.group[On(th)] \in Group
  BY CallOk, TopOk DEF GrowGroup, RunPlace, BeginPlace
<1>2. Goto(th, "count") /\ prog.group[On(th)] # None
  BY <1>1, MtapiAssumption DEF GrowGroup
<1>3. OpOk(th, Moved(th, "count"))
  BY <1>1, <1>2, MovedOp DEF OpOk
<1>4. UNCHANGED <<prog, action, task, taskList, queue, current, filled, awaited,
                  messages, served, net, acks, processer>>
  BY DEF GrowGroup, remoteVars
<1>5. group' \in [Group -> [num : Nat, current : Int, result : Task \union {None}]]
  BY <1>1, GroupCounted DEF GrowGroup, Inv1, Typed
<1>6. /\ queue' = [q \in Queue |-> queue'[q]]
      /\ current' \in [Thread -> Task \union {None}]
      /\ filled' \subseteq Node \X Task /\ awaited' \subseteq Task
  BY <1>4 DEF Inv1, Typed
<1> QED BY <1>1, <1>2, <1>3, <1>4, <1>5, <1>6, PlainWalkTo DEF RunPlace, BeginPlace

LEMMA CountInGroupStep ==
  ASSUME Inv1, NEW th \in Thread, CountInGroup(th), UNCHANGED remoteVars
  PROVE  Inv1' /\ PlainWalk(th)
<1>1. /\ stack[th] # <<>> /\ Top(th).at = "count" /\ On(th) \in Task
      /\ Top(th).ip \in DOMAIN ScriptOf(th, Top(th))
      /\ OpOf(th, Top(th)) \in Op /\ OpOf(th, Top(th)).do = "start"
      /\ On(th) = OpOf(th, Top(th)).on /\ prog.group[On(th)] \in Group
  BY CallOk, TopOk DEF CountInGroup, RunPlace, BeginPlace
<1>2. Goto(th, "list")
  BY DEF CountInGroup
<1>3. OpOk(th, Moved(th, "list"))
  BY <1>1, MovedOp DEF OpOk
<1>4. UNCHANGED <<prog, action, task, taskList, queue, current, filled, awaited,
                  messages, served, net, acks, processer>>
  BY DEF CountInGroup, remoteVars
<1>5. group' \in [Group -> [num : Nat, current : Int, result : Task \union {None}]]
  BY <1>1, GroupCounted DEF CountInGroup, Inv1, Typed
<1>6. /\ queue' = [q \in Queue |-> queue'[q]]
      /\ current' \in [Thread -> Task \union {None}]
      /\ filled' \subseteq Node \X Task /\ awaited' \subseteq Task
  BY <1>4 DEF Inv1, Typed
<1> QED BY <1>1, <1>2, <1>3, <1>4, <1>5, <1>6, PlainWalkTo DEF RunPlace, BeginPlace

LEMMA WaitTaskStep ==
  ASSUME Inv1, NEW th \in Thread, WaitTask(th), UNCHANGED remoteVars
  PROVE  Inv1' /\ PlainWalk(th)
<1>1. /\ stack[th] # <<>> /\ Top(th).at = "body" /\ On(th) \in Task
      /\ Top(th).ip \in DOMAIN ScriptOf(th, Top(th))
      /\ OpOf(th, Top(th)) \in Op /\ OpOf(th, Top(th)).do = "wait"
  BY DoingOk DEF WaitTask
<1>2. UNCHANGED <<prog, action, task, taskList, queue, group, current, filled,
                  messages, served, net, acks, processer>>
  BY DEF WaitTask, remoteVars
<1>3. OpOk(th, Moved(th, "pop"))
  BY <1>1, MovedOp DEF OpOk, BeginPlace
<1>4. /\ group' \in [Group -> [num : Nat, current : Int, result : Task \union {None}]]
      /\ queue' = [q \in Queue |-> queue'[q]]
      /\ current' \in [Thread -> Task \union {None}] /\ filled' \subseteq Node \X Task
  BY <1>2 DEF Inv1, Typed
<1>5. awaited' \subseteq Task
  BY <1>1 DEF WaitTask, Inv1, Typed
<1>6. NextOp(th) \/ Goto(th, "pop")
  BY DEF WaitTask
<1> QED BY <1>1, <1>2, <1>3, <1>4, <1>5, <1>6, PlainWalkTo, PlainWalkOn DEF RunPlace, BeginPlace

LEMMA WaitGroupAllStep ==
  ASSUME Inv1, NEW th \in Thread, WaitGroupAll(th), UNCHANGED remoteVars
  PROVE  Inv1' /\ PlainWalk(th)
<1>1. /\ stack[th] # <<>> /\ Top(th).at = "body"
      /\ Top(th).ip \in DOMAIN ScriptOf(th, Top(th))
      /\ OpOf(th, Top(th)) \in Op /\ OpOf(th, Top(th)).do = "all"
  BY DoingOk DEF WaitGroupAll
<1>2. UNCHANGED <<prog, action, task, taskList, queue, group, current, filled,
                  messages, served, net, acks, processer>>
  BY DEF WaitGroupAll, remoteVars
<1>3. OpOk(th, Moved(th, "pop"))
  BY <1>1, MovedOp DEF OpOk, BeginPlace
<1>4. /\ group' \in [Group -> [num : Nat, current : Int, result : Task \union {None}]]
      /\ queue' = [q \in Queue |-> queue'[q]]
      /\ current' \in [Thread -> Task \union {None}] /\ filled' \subseteq Node \X Task
  BY <1>2 DEF Inv1, Typed
<1>5. awaited' \subseteq Task
  BY DEF WaitGroupAll, Inv1, Typed, Members
<1>6. NextOp(th) \/ Goto(th, "pop")
  BY DEF WaitGroupAll
<1> QED BY <1>1, <1>2, <1>3, <1>4, <1>5, <1>6, PlainWalkTo, PlainWalkOn DEF RunPlace, BeginPlace

LEMMA WaitGroupAnyStep ==
  ASSUME Inv1, NEW th \in Thread, WaitGroupAny(th), UNCHANGED remoteVars
  PROVE  Inv1' /\ PlainWalk(th)
<1>1. /\ stack[th] # <<>> /\ Top(th).at = "body" /\ On(th) \in Group
      /\ Top(th).ip \in DOMAIN ScriptOf(th, Top(th)) /\ Top(th) \in FrameType
      /\ OpOf(th, Top(th)) \in Op /\ OpOf(th, Top(th)).do = "any"
      /\ GoodFrame(th, Len(stack[th]), Top(th))
  BY DoingOk, TopOk DEF WaitGroupAny
<1>2. UNCHANGED <<prog, action, task, taskList, queue, group, current, filled, awaited,
                  messages, served, net, acks, processer>>
  BY DEF WaitGroupAny, remoteVars
<1> DEFINE g == [Top(th) EXCEPT !.at = "compare", !.seen = group[On(th)].current]
<1>3. group[On(th)].current \in Int
  BY <1>1 DEF Inv1, Typed
<1>4. g \in FrameType /\ g.at = "compare" /\ g.task = Top(th).task /\ g.ip = Top(th).ip
      /\ Top(th).ip \in Nat
  BY <1>1, <1>3 DEF FrameType, Place
<1>5. SetTop(th, g)
  BY DEF WaitGroupAny
<1> HIDE DEF g
<1>6. Replaced(th, g)
  BY <1>1, <1>4, <1>5, ReplaceTop
<1>7. ScriptOf(th, g) = ScriptOf(th, Top(th)) /\ OpOf(th, g) = OpOf(th, Top(th))
  BY <1>4 DEF ScriptOf, OpOf
<1>8. OpOk(th, g)
  BY <1>1, <1>4, <1>7 DEF OpOk, BeginPlace
<1>9. GoodFrame(th, Len(stack[th]), g)
  BY <1>1, <1>4, <1>8 DEF GoodFrame, RunPlace
<1>10. \A uh \in Thread : StackOk(uh)'
  BY <1>1, <1>2, <1>4, <1>6, <1>9, ReplacedOk
<1>11. Walk(th, g) /\ g.at # "announce"
  BY <1>1, <1>2, <1>4, <1>6 DEF Walk, RunPlace, BeginPlace
<1>12. stack' \in [Thread -> Seq(FrameType)]
  BY <1>6 DEF Replaced
<1>13. Inv1'
  BY <1>2, <1>10, <1>12, TypedStep DEF Inv1, Typed
<1> QED BY <1>2, <1>11, <1>13 DEF PlainWalk

LEMMA CompareGroupStep ==
  ASSUME Inv1, NEW th \in Thread, CompareGroup(th), UNCHANGED remoteVars
  PROVE  Inv1' /\ PlainWalk(th)
<1>1. /\ stack[th] # <<>> /\ Top(th).at = "compare"
      /\ Top(th).ip \in DOMAIN ScriptOf(th, Top(th))
      /\ OpOf(th, Top(th)) \in Op /\ OpOf(th, Top(th)).do = "any"
  BY CallOk DEF CompareGroup, RunPlace
<1>2. PICK place \in {"fetch", "pop"} : Goto(th, place)
  BY DEF CompareGroup
<1>3. OpOk(th, Moved(th, place))
  BY <1>1, <1>2, MovedOp DEF OpOk, BeginPlace
<1>4. UNCHANGED <<prog, action, task, taskList, queue, group, current, filled, awaited,
                  messages, served, net, acks, processer>>
  BY DEF CompareGroup, remoteVars
<1>5. Top(th).at \in RunPlace \ BeginPlace /\ place \in RunPlace \ BeginPlace
      /\ place # "announce"
  BY <1>1, <1>2 DEF RunPlace, BeginPlace
<1>6. /\ group' \in [Group -> [num : Nat, current : Int, result : Task \union {None}]]
      /\ queue' = [q \in Queue |-> queue'[q]]
      /\ current' \in [Thread -> Task \union {None}]
      /\ filled' \subseteq Node \X Task /\ awaited' \subseteq Task
  BY <1>4 DEF Inv1, Typed
<1> QED BY <1>1, <1>2, <1>3, <1>4, <1>5, <1>6, PlainWalkTo

LEMMA FetchResultStep ==
  ASSUME Inv1, NEW th \in Thread, FetchResult(th), UNCHANGED remoteVars
  PROVE  Inv1' /\ PlainWalk(th)
<1>1. stack[th] # <<>> /\ Top(th).at \in RunPlace \ BeginPlace /\ NextOp(th)
  BY CallOk DEF FetchResult, RunPlace, BeginPlace
<1>2. UNCHANGED <<prog, action, task, taskList, queue, group, current, filled, awaited,
                  messages, served, net, acks, processer>>
  BY DEF FetchResult, remoteVars
<1>3. /\ group' \in [Group -> [num : Nat, current : Int, result : Task \union {None}]]
      /\ queue' = [q \in Queue |-> queue'[q]]
      /\ current' \in [Thread -> Task \union {None}]
      /\ filled' \subseteq Node \X Task /\ awaited' \subseteq Task
  BY <1>2 DEF Inv1, Typed
<1> QED BY <1>1, <1>2, <1>3, PlainWalkOn

\* A thread that waits finds no task to process.
PopIdle(th) == PopWaiting(th) /\ taskList[th[1]] = <<>>

LEMMA PopIdleStep ==
  ASSUME Inv1, NEW th \in Thread, PopIdle(th), UNCHANGED remoteVars
  PROVE  Inv1' /\ PlainWalk(th)
<1>1. stack[th] # <<>> /\ Top(th).at = "pop"
  BY CallOk DEF PopIdle, PopWaiting, RunPlace
<1>2. Goto(th, "body")
  BY DEF PopIdle, PopWaiting, Goto
<1>3. UNCHANGED <<prog, action, task, taskList, queue, group, filled, awaited,
                  messages, served, net, acks, processer>>
  BY DEF PopIdle, PopWaiting, remoteVars
<1>4. current' \in [Thread -> Task \union {None}]
  BY DEF PopIdle, PopWaiting, Inv1, Typed
<1>5. /\ group' \in [Group -> [num : Nat, current : Int, result : Task \union {None}]]
      /\ queue' = [q \in Queue |-> queue'[q]]
      /\ filled' \subseteq Node \X Task /\ awaited' \subseteq Task
  BY <1>3 DEF Inv1, Typed
<1>6. OpOk(th, Moved(th, "body"))
  BY <1>1, MovedOp DEF OpOk, BeginPlace
<1> QED BY <1>1, <1>2, <1>3, <1>4, <1>5, <1>6, PlainWalkTo DEF RunPlace, BeginPlace

LEMMA AnnounceStep ==
  ASSUME Inv1, NEW th \in Thread, Announce(th)
  PROVE  /\ Inv1' /\ action' = action /\ prog.distributed /\ On(th) \in Job
         /\ \E g : Walk(th, g) /\ g.at # "announce"
         /\ Top(th).at = "announce"
         /\ messages' = [messages EXCEPT ![th[1]] = Append(messages[th[1]], Msg("CREATE_ACTION", On(th)))]
<1>1. /\ stack[th] # <<>> /\ Top(th).at = "announce" /\ On(th) \in Job /\ prog.distributed
      /\ NextOp(th)
  BY CallOk DEF Announce, RunPlace
<1>2. UNCHANGED <<prog, action, task, taskList, queue, group, current, filled, awaited,
                  served, net, acks, processer>>
  BY DEF Announce
<1>3. /\ Walk(th, Advanced(th)) /\ \A uh \in Thread : StackOk(uh)'
      /\ Advanced(th).at = "body"
  BY <1>1, <1>2, WalkOn DEF RunPlace, BeginPlace
<1>4. stack' \in [Thread -> Seq(FrameType)]
  BY <1>3 DEF Walk, Replaced
<1>5. messages' = [messages EXCEPT ![th[1]] = Append(messages[th[1]], Msg("CREATE_ACTION", On(th)))]
  BY DEF Announce, InsertMessage
<1>6. Msg("CREATE_ACTION", On(th)) \in Message
  BY <1>1 DEF Msg, Message
<1>7. messages' \in [Node -> Seq(Message)]
  BY <1>5, <1>6, ThreadOk DEF Inv1, Typed
<1>8. Shape'
  BY <1>1, <1>2, <1>3 DEF Inv1, Shape, ProcesserOk, Silent
<1>9. Inv1'
  BY <1>2, <1>4, <1>7, <1>8 DEF Inv1, Typed
<1> QED BY <1>1, <1>2, <1>3, <1>5, <1>9

-----------------------------------------------------------------------------
(* Steps of ProcessTask and SetTaskComplete.                               *)

LEMMA ConcatDistinct ==
  ASSUME NEW S, NEW s \in Seq(S), NEW r \in Seq(S), Distinct(s), Distinct(r),
         ToSet(s) \intersect ToSet(r) = {}
  PROVE  /\ s \o r \in Seq(S) /\ Distinct(s \o r) /\ ToSet(s \o r) = ToSet(s) \union ToSet(r)
         /\ Len(s \o r) = Len(s) + Len(r)
<1> DEFINE q == s \o r
<1>1. /\ q \in Seq(S) /\ Len(q) = Len(s) + Len(r) /\ Len(s) \in Nat /\ Len(r) \in Nat
      /\ \A i \in 1..Len(s) : q[i] = s[i]
      /\ \A i \in (Len(s) + 1)..(Len(s) + Len(r)) : q[i] = r[i - Len(s)]
  OBVIOUS
<1> HIDE DEF q
<1>2. \A i \in 1..Len(s) : s[i] \in ToSet(s)
  BY DEF ToSet
<1>3. \A i \in 1..Len(r) : r[i] \in ToSet(r)
  BY DEF ToSet
<1>4. \A i, k \in 1..Len(s) : s[i] = s[k] => i = k
  BY DEF Distinct
<1>5. \A i, k \in 1..Len(r) : r[i] = r[k] => i = k
  BY DEF Distinct
<1>6. \A i \in 1..Len(q) : i \in 1..Len(s) \/ (i \in (Len(s) + 1)..(Len(s) + Len(r)) /\ i - Len(s) \in 1..Len(r))
  BY <1>1
<1>7. Distinct(q)
  <2> SUFFICES ASSUME NEW i \in 1..Len(q), NEW k \in 1..Len(q), q[i] = q[k] PROVE i = k
    BY <1>1 DEF Distinct
  <2>1. CASE i \in 1..Len(s) /\ k \in 1..Len(s)
    BY <1>1, <1>4, <2>1
  <2>2. CASE i \notin 1..Len(s) /\ k \notin 1..Len(s)
    <3>1. i - Len(s) = k - Len(s)
      BY <1>1, <1>5, <1>6, <2>2
    <3> QED BY <1>1, <3>1
  <2>3. CASE i \in 1..Len(s) /\ k \notin 1..Len(s)
    BY <1>1, <1>2, <1>3, <1>6, <2>3
  <2>4. CASE i \notin 1..Len(s) /\ k \in 1..Len(s)
    BY <1>1, <1>2, <1>3, <1>6, <2>4
  <2> QED BY <2>1, <2>2, <2>3, <2>4
<1>8. ToSet(q) \subseteq ToSet(s) \union ToSet(r)
  <2>1. \A i \in 1..Len(q) : q[i] \in ToSet(s) \union ToSet(r)
    BY <1>1, <1>2, <1>3, <1>6
  <2> QED BY <1>1, <2>1 DEF ToSet
<1>9. ToSet(s) \union ToSet(r) \subseteq ToSet(q)
  <2>1. \A i \in 1..Len(s) : i \in 1..Len(q) /\ q[i] = s[i]
    BY <1>1
  <2>2. \A i \in 1..Len(r) : Len(s) + i \in 1..Len(q) /\ q[Len(s) + i] = r[i]
    <3> SUFFICES ASSUME NEW i \in 1..Len(r)
                 PROVE  Len(s) + i \in 1..Len(q) /\ q[Len(s) + i] = r[i]
      OBVIOUS
    <3>1. Len(s) + i \in (Len(s) + 1)..(Len(s) + Len(r)) /\ (Len(s) + i) - Len(s) = i
      BY <1>1
    <3>2. q[Len(s) + i] = r[(Len(s) + i) - Len(s)]
      BY <1>1, <3>1
    <3> QED BY <1>1, <3>1, <3>2
  <2>3. \A i \in 1..Len(q) : q[i] \in ToSet(q)
    BY <1>1 DEF ToSet
  <2>4. \A x \in ToSet(s) : \E i \in 1..Len(s) : s[i] = x
    BY DEF ToSet
  <2>5. \A x \in ToSet(r) : \E i \in 1..Len(r) : r[i] = x
    BY DEF ToSet
  <2>6. ToSet(s) \subseteq ToSet(q)
    BY <2>1, <2>3, <2>4
  <2>7. ToSet(r) \subseteq ToSet(q)
    BY <2>2, <2>3, <2>5
  <2> QED BY <2>6, <2>7
<1> QED BY <1>1, <1>7, <1>8, <1>9 DEF q

LEMMA Literals ==
  /\ <<>> \in Seq(Stage) /\ Distinct(<<>>) /\ ToSet(<<>>) = {}
  /\ \A x \in Stage : <<x>> \in Seq(Stage) /\ Distinct(<<x>>) /\ ToSet(<<x>>) = {x}
  /\ \A x, y \in Stage : x # y =>
       <<x, y>> \in Seq(Stage) /\ Distinct(<<x, y>>) /\ ToSet(<<x, y>>) = {x, y}
<1>1. <<>> \in Seq(Stage) /\ Distinct(<<>>) /\ ToSet(<<>>) = {}
  BY DEF Distinct, ToSet
<1>2. ASSUME NEW x \in Stage
      PROVE  <<x>> \in Seq(Stage) /\ Distinct(<<x>>) /\ ToSet(<<x>>) = {x}
  <2>1. <<x>> \in Seq(Stage) /\ DOMAIN <<x>> = {1} /\ <<x>>[1] = x
    OBVIOUS
  <2> QED BY <2>1 DEF Distinct, ToSet
<1>3. ASSUME NEW x \in Stage, NEW y \in Stage, x # y
      PROVE  <<x, y>> \in Seq(Stage) /\ Distinct(<<x, y>>) /\ ToSet(<<x, y>>) = {x, y}
  <2>1. /\ <<x, y>> \in Seq(Stage) /\ DOMAIN <<x, y>> = {1, 2}
        /\ <<x, y>>[1] = x /\ <<x, y>>[2] = y
    OBVIOUS
  <2> QED BY <1>3, <2>1 DEF Distinct, ToSet
<1> QED BY <1>1, <1>2, <1>3

\* What SetTaskComplete does after the status, in an order without repetition.
LEMMA StagesOk ==
  ASSUME NEW rec \in TaskInfo
  PROVE  /\ Stages(rec) \in Seq(Stage) /\ Distinct(Stages(rec))
         /\ "parent" \in ToSet(Stages(rec)) <=> rec.parent # None
         /\ "queue" \in ToSet(Stages(rec)) <=> rec.queue # None
         /\ "group" \in ToSet(Stages(rec)) <=> rec.group # None
         /\ "result" \in ToSet(Stages(rec)) <=> rec.group # None
         /\ "message" \in ToSet(Stages(rec)) <=> rec.message
<1> DEFINE a == IF rec.parent # None THEN <<"parent">> ELSE <<>>
           b == IF rec.queue # None THEN <<"queue">> ELSE <<>>
           c == IF rec.group # None THEN <<"group", "result">> ELSE <<>>
           d == IF rec.message THEN <<"message">> ELSE <<>>
<1>1. Stages(rec) = a \o b \o c \o d
  BY DEF Stages
<1>2. /\ a \in Seq(Stage) /\ Distinct(a)
      /\ rec.parent # None => ToSet(a) = {"parent"}
      /\ ~(rec.parent # None) => ToSet(a) = {}
  BY Literals DEF Stage
<1>3. /\ b \in Seq(Stage) /\ Distinct(b)
      /\ rec.queue # None => ToSet(b) = {"queue"}
      /\ ~(rec.queue # None) => ToSet(b) = {}
  BY Literals DEF Stage
<1>4. /\ c \in Seq(Stage) /\ Distinct(c)
      /\ rec.group # None => ToSet(c) = {"group", "result"}
      /\ ~(rec.group # None) => ToSet(c) = {}
  BY Literals DEF Stage
<1>5. /\ d \in Seq(Stage) /\ Distinct(d)
      /\ rec.message => ToSet(d) = {"message"}
      /\ ~(rec.message) => ToSet(d) = {}
  BY Literals DEF Stage
<1> HIDE DEF a, b, c, d
<1>9. /\ ToSet(a) \intersect ToSet(b) = {} /\ (ToSet(a) \union ToSet(b)) \intersect ToSet(c) = {}
      /\ (ToSet(a) \union ToSet(b) \union ToSet(c)) \intersect ToSet(d) = {}
  BY <1>2, <1>3, <1>4, <1>5
<1> DEFINE ab == a \o b
           abc == ab \o c
           abcd == abc \o d
<1>6. ab \in Seq(Stage) /\ Distinct(ab) /\ ToSet(ab) = ToSet(a) \union ToSet(b)
  BY <1>2, <1>3, <1>9, ConcatDistinct
<1> HIDE DEF ab
<1>7. abc \in Seq(Stage) /\ Distinct(abc) /\ ToSet(abc) = ToSet(a) \union ToSet(b) \union ToSet(c)
  <2>1. ToSet(ab) \intersect ToSet(c) = {}
    BY <1>6, <1>9
  <2> QED BY <1>4, <1>6, <2>1, ConcatDistinct
<1> HIDE DEF abc
<1>8. /\ abcd \in Seq(Stage) /\ Distinct(abcd)
      /\ ToSet(abcd) = ToSet(a) \union ToSet(b) \union ToSet(c) \union ToSet(d)
  <2>1. ToSet(abc) \intersect ToSet(d) = {}
    BY <1>7, <1>9
  <2> QED BY <1>5, <1>7, <2>1, ConcatDistinct
<1> HIDE DEF abcd
<1>10. Stages(rec) = abcd
  BY <1>1 DEF ab, abc, abcd
<1>11. /\ "parent" \in ToSet(abcd) <=> rec.parent # None
       /\ "queue" \in ToSet(abcd) <=> rec.queue # None
  BY <1>2, <1>3, <1>4, <1>5, <1>8
<1>12. /\ "group" \in ToSet(abcd) <=> rec.group # None
       /\ "result" \in ToSet(abcd) <=> rec.group # None
  BY <1>2, <1>3, <1>4, <1>5, <1>8
<1>13. "message" \in ToSet(abcd) <=> rec.message
  BY <1>2, <1>3, <1>4, <1>5, <1>8
<1> QED BY <1>8, <1>10, <1>11, <1>12, <1>13

\* The parts of a record that stay as they were made.
Alike(r, q) ==
  /\ r.type = q.type /\ r.parent = q.parent /\ r.queue = q.queue
  /\ r.group = q.group /\ r.message = q.message

\* At most the status of one task changes, and the number of children.
Changed(n, t, status) ==
  /\ task' \in [Node -> [Task -> TaskInfo]]
  /\ \A m \in Node, u \in Task : Alike(task'[m][u], task[m][u])
  /\ task'[n][t].status = status
  /\ \A m \in Node, u \in Task : m # n \/ u # t => task'[m][u].status = task[m][u].status

LEMMA StatusSet ==
  ASSUME Inv1, NEW n \in Node, NEW t \in Task,
         NEW status \in {"CREATED", "RUNNING", "WAITING", "SCHEDULED", "COMPLETED"},
         task' = [task EXCEPT ![n][t].status = status]
  PROVE  /\ Changed(n, t, status)
         /\ \A m \in Node, u \in Task : task'[m][u].childCount = task[m][u].childCount
<1>1. task \in [Node -> [Task -> TaskInfo]]
  BY DEF Inv1, Typed
<1> DEFINE rec == [task[n][t] EXCEPT !.status = status]
<1>2. /\ rec \in TaskInfo /\ Alike(rec, task[n][t]) /\ rec.status = status
      /\ rec.childCount = task[n][t].childCount
  <2>1. task[n][t] \in TaskInfo
    BY <1>1
  <2> HIDE <1>1
  <2> QED BY <2>1 DEF TaskInfo, Alike
<1>3. task' = [task EXCEPT ![n] = [task[n] EXCEPT ![t] = rec]]
  BY <1>1
<1> HIDE DEF rec
<1>4. task'[n][t] = rec /\ task' \in [Node -> [Task -> TaskInfo]]
      /\ \A m \in Node, u \in Task : m # n \/ u # t => task'[m][u] = task[m][u]
  BY <1>1, <1>2, <1>3
<1> QED BY <1>2, <1>4 DEF Changed, Alike

LEMMA NothingSet ==
  ASSUME Inv1, NEW n \in Node, NEW t \in Task, task' = task
  PROVE  Changed(n, t, task[n][t].status)
BY DEF Inv1, Typed, Changed, Alike

RWC == {"RUNNING", "WAITING", "COMPLETED"}

\* A thread goes on with its task, in ProcessTask or SetTaskComplete.
Turn(th, g, status) ==
  LET f == Top(th) rec == task[th[1]][Top(th).task] IN
  /\ stack[th] # <<>> /\ f.task # None /\ Replaced(th, g)
  /\ g.task = f.task /\ g.ip = f.ip
  /\ f.at \notin BeginPlace /\ g.at \notin BeginPlace \union {"announce"}
  /\ Changed(th[1], f.task, status)
  /\ rec.status # "NONE" /\ status # "NONE"
  /\ StatusAt(g.at, status, rec.type)
  /\ status = "SCHEDULED" => rec.type = "REMOTE"
  /\ status = "CREATED" => rec.status = "CREATED"
  /\ f.at = "schedule" \/ rec.status = "SCHEDULED" => status = "SCHEDULED"
  /\ g.at = "schedule" => f.at = "send"
  /\ rec.type = "LOCAL" /\ rec.status \in RWC => status \in RWC
  /\ g.at \in RunPlace => f.at = "process" /\ rec.status = "CREATED" /\ rec.type = "LOCAL"
  /\ g.at = "complete" => StagesFit(g.stages, rec)
  /\ UNCHANGED <<prog, action, taskList, net, processer>>

\* A thread is done with a task: the task is complete, or listed again.
Gone(th, status) ==
  LET f == Top(th) rec == task[th[1]][Top(th).task] IN
  /\ stack[th] # <<>> /\ f.task # None /\ Removed(th)
  /\ f.at \notin BeginPlace \union {"schedule"}
  /\ Changed(th[1], f.task, status)
  /\ \/ /\ status = "COMPLETED" /\ rec.status \in RWC
        /\ taskList' = taskList
     \/ /\ f.at = "insert" /\ status = rec.status
        /\ status \in {"CREATED", "SCHEDULED", "WAITING"}
        /\ taskList' = [taskList EXCEPT ![th[1]] = Append(taskList[th[1]], f.task)]
  /\ UNCHANGED <<prog, action, net, processer, messages>>

Handled(th) ==
  \E status : \/ Gone(th, status)
              \/ \E g : Turn(th, g, status) /\ messages' = messages

LEMMA HeldTop ==
  ASSUME Inv1, HeldInv, NEW th \in Thread, stack[th] # <<>>, Top(th).task # None
  PROVE  /\ StatusAt(Top(th).at, task[th[1]][Top(th).task].status, task[th[1]][Top(th).task].type)
         /\ Top(th).task \in Task /\ task[th[1]][Top(th).task] \in TaskInfo
         /\ th[1] \in Node /\ Mine(th) = Top(th).task
<1>1. Top(th) = stack[th][Len(stack[th])] /\ Len(stack[th]) \in DOMAIN stack[th]
      /\ Top(th) \in FrameType
  BY TopOk
<1>2. Top(th).task \in Task /\ th[1] \in Node
  BY <1>1, ThreadOk DEF FrameType
<1> QED BY <1>1, <1>2 DEF HeldInv, Inv1, Typed, Mine

\* A frame outside of a script has a task.
LEMMA TaskTop ==
  ASSUME Inv1, NEW th \in Thread, NEW place, At(th, place), place \notin RunPlace
  PROVE  stack[th] # <<>> /\ Top(th).at = place /\ Top(th).task # None
BY TopOk DEF At, GoodFrame

\* One stage of SetTaskComplete.
LEMMA CompletingOk ==
  ASSUME Inv1, HeldInv, StagesInv, NEW th \in Thread, NEW stage, Completing(th, stage),
         Changed(th[1], Mine(th), task[th[1]][Mine(th)].status),
         UNCHANGED <<prog, action, messages, taskList, net, processer>>
  PROVE  /\ Handled(th) /\ stage \in ToSet(Top(th).stages)
         /\ StagesFit(Top(th).stages, task[th[1]][Mine(th)])
         /\ \A uh \in Thread : StackOk(uh)'
         /\ stack' \in [Thread -> Seq(FrameType)]
         /\ stack[th] # <<>> /\ Top(th).task # None /\ Top(th).at = "complete"
         /\ \/ Removed(th) /\ ToSet(Top(th).stages) = {stage}
            \/ \E g : /\ Replaced(th, g) /\ g.task = Top(th).task /\ g.at = "complete"
                      /\ ToSet(g.stages) = ToSet(Top(th).stages) \ {stage}
                      /\ g.seen = Top(th).seen
<1> DEFINE f == Top(th) s == Top(th).stages rec == task[th[1]][Top(th).task]
<1>1. stack[th] # <<>> /\ f.at = "complete" /\ f.task # None
  BY TaskTop DEF Completing, RunPlace
<1>2. /\ f \in FrameType /\ s \in Seq(Stage) /\ s # <<>> /\ Distinct(s)
      /\ f.ip \in Nat \ {0} /\ f.seen \in Int /\ f.task \in Task \union {None}
      /\ GoodFrame(th, Len(stack[th]), f)
  BY <1>1, TopOk DEF GoodFrame, FrameType
<1>3. Len(s) \in Nat \ {0} /\ s[1] = stage /\ DOMAIN s = 1..Len(s)
  BY <1>2 DEF Completing
<1>4. stage \in ToSet(s)
  BY <1>3 DEF ToSet
<1>5. rec.status = "COMPLETED" /\ Mine(th) = f.task /\ rec \in TaskInfo /\ th[1] \in Node
  BY <1>1, HeldTop DEF StatusAt
<1>6. StagesFit(s, rec)
  BY <1>1, TopOk DEF StagesInv
<1>7. CASE Len(s) = 1
  <2>1. Return(th) /\ Removed(th)
    BY <1>1, <1>7, RemoveTop DEF Completing
  <2>2. ToSet(s) = {stage}
    BY <1>3, <1>7 DEF ToSet
  <2>3. Gone(th, "COMPLETED")
    BY <1>1, <1>5, <2>1 DEF Gone, BeginPlace, RWC
  <2>4. stack' \in [Thread -> Seq(FrameType)]
    BY <2>1 DEF Removed
  <2>5. \A uh \in Thread : StackOk(uh)'
    BY <1>1, <2>1, ReturnOk
  <2>6. Handled(th)
    BY <2>3 DEF Handled
  <2> QED BY <1>1, <1>4, <1>5, <1>6, <2>1, <2>2, <2>4, <2>5, <2>6
<1>8. CASE Len(s) # 1
  <2> DEFINE g == [f EXCEPT !.stages = Tail(s)]
  <2>1. SetTop(th, g)
    BY <1>8 DEF Completing
  <2>2. /\ Tail(s) \in Seq(Stage) /\ Len(Tail(s)) = Len(s) - 1
        /\ \A i \in 1..(Len(s) - 1) : Tail(s)[i] = s[i + 1]
    BY <1>2, <1>3
  <2>3. g \in FrameType /\ g.task = f.task /\ g.ip = f.ip /\ g.at = "complete"
        /\ g.stages = Tail(s) /\ g.seen = f.seen
    BY <1>1, <1>2, <2>2 DEF FrameType
  <2> HIDE DEF g
  <2> DEFINE r == Tail(s)
  <2>4. r \in Seq(Stage) /\ Len(r) = Len(s) - 1 /\ \A i \in 1..(Len(s) - 1) : r[i] = s[i + 1]
    BY <2>2
  <2> HIDE DEF r
  <2>14. \A i, k \in 1..Len(s) : s[i] = s[k] => i = k
    BY <1>2, <1>3 DEF Distinct
  <2>15. \A i \in 1..Len(r) : i + 1 \in 1..Len(s) /\ r[i] = s[i + 1] /\ i + 1 # 1
    BY <1>3, <2>4
  <2>5. Distinct(r) /\ r # <<>>
    <3>1. \A i, k \in 1..Len(r) : r[i] = r[k] => i = k
      BY <2>14, <2>15
    <3>2. DOMAIN r = 1..Len(r) /\ Len(r) # 0
      BY <1>3, <1>8, <2>4
    <3> QED BY <3>1, <3>2 DEF Distinct
  <2>6. ToSet(r) = ToSet(s) \ {stage}
    <3>1. \A i \in 1..Len(r) : i + 1 \in 1..Len(s) /\ r[i] = s[i + 1] /\ s[i + 1] # s[1]
      BY <1>3, <2>14, <2>15
    <3>2. ToSet(r) \subseteq ToSet(s) \ {stage}
      BY <1>3, <2>4, <3>1 DEF ToSet
    <3>3. \A i \in 1..Len(s) : s[i] # stage => i - 1 \in 1..Len(r) /\ r[i - 1] = s[i]
      BY <1>3, <2>4
    <3>4. \A i \in 1..Len(r) : r[i] \in ToSet(r)
      BY <2>4 DEF ToSet
    <3>5. \A x \in ToSet(s) : \E i \in 1..Len(s) : x = s[i]
      BY <1>3 DEF ToSet
    <3> QED BY <3>2, <3>3, <3>4, <3>5
  <2>7. Replaced(th, g)
    BY <1>1, <2>1, <2>3, ReplaceTop
  <2>8. GoodFrame(th, Len(stack[th]), g)
    <3>1. OpOk(th, g)
      BY <2>3 DEF OpOk, RunPlace, BeginPlace
    <3> QED BY <1>1, <1>2, <2>3, <2>5, <3>1 DEF GoodFrame, r
  <2>9. \A uh \in Thread : StackOk(uh)'
    BY <1>1, <2>3, <2>7, <2>8, ReplacedOk
  <2>10. StagesFit(g.stages, rec)
    BY <1>6, <2>3, <2>6 DEF StagesFit, r
  <2>11. Turn(th, g, "COMPLETED")
    BY <1>1, <1>5, <2>3, <2>7, <2>10 DEF Turn, StatusAt, RunPlace, BeginPlace, RWC
  <2>12. stack' \in [Thread -> Seq(FrameType)]
    BY <2>7 DEF Replaced
  <2>13. Handled(th)
    BY <2>11 DEF Handled
  <2> QED BY <1>1, <1>4, <1>5, <1>6, <2>3, <2>6, <2>7, <2>9, <2>12, <2>13 DEF r
<1> QED BY <1>7, <1>8

\* The status of a task becomes COMPLETED.
LEMMA SetCompleteOk ==
  ASSUME Inv1, HeldInv, NEW th \in Thread, SetComplete(th), stack[th] # <<>>, Top(th).task # None,
         task[th[1]][Mine(th)].status \in {"RUNNING", "WAITING"}, Top(th).at \notin BeginPlace,
         Top(th).at # "schedule",
         UNCHANGED <<prog, action, messages, taskList, net, processer>>
  PROVE  /\ Handled(th)
         /\ Changed(th[1], Mine(th), "COMPLETED")
         /\ \A m \in Node, u \in Task : task'[m][u].childCount = task[m][u].childCount
         /\ \A uh \in Thread : StackOk(uh)'
         /\ stack' \in [Thread -> Seq(FrameType)]
         /\ \/ Removed(th) /\ Stages(task[th[1]][Mine(th)]) = <<>>
            \/ \E g : /\ Replaced(th, g) /\ g.task = Top(th).task /\ g.at = "complete"
                      /\ g.stages = Stages(task[th[1]][Mine(th)]) /\ g.seen = Top(th).seen
<1> DEFINE f == Top(th) rec == task[th[1]][Top(th).task]
<1>1. f.task \in Task /\ rec \in TaskInfo /\ th[1] \in Node /\ Mine(th) = f.task
  BY HeldTop
<1>2. /\ f \in FrameType /\ f.ip \in Nat \ {0} /\ f.seen \in Int
      /\ GoodFrame(th, Len(stack[th]), f)
  BY TopOk DEF FrameType
<1>3. /\ Stages(rec) \in Seq(Stage) /\ Distinct(Stages(rec)) /\ StagesFit(Stages(rec), rec)
  BY <1>1, StagesOk DEF StagesFit
<1>4. task' = [task EXCEPT ![th[1]][f.task].status = "COMPLETED"]
  BY <1>1 DEF SetComplete
<1>5. /\ Changed(th[1], f.task, "COMPLETED")
      /\ \A m \in Node, u \in Task : task'[m][u].childCount = task[m][u].childCount
  BY <1>1, <1>4, StatusSet
<1>6. CASE Stages(rec) = <<>>
  <2>1. Return(th) /\ Removed(th)
    BY <1>1, <1>6, RemoveTop DEF SetComplete
  <2>2. Gone(th, "COMPLETED")
    BY <1>1, <1>5, <2>1 DEF Gone, RWC
  <2>3. stack' \in [Thread -> Seq(FrameType)]
    BY <2>1 DEF Removed
  <2>4. \A uh \in Thread : StackOk(uh)'
    BY <2>1, ReturnOk
  <2>5. Handled(th)
    BY <2>2 DEF Handled
  <2> QED BY <1>1, <1>5, <1>6, <2>1, <2>3, <2>4, <2>5
<1>7. CASE Stages(rec) # <<>>
  <2> DEFINE g == [f EXCEPT !.at = "complete", !.stages = Stages(rec)]
  <2>1. SetTop(th, g)
    BY <1>1, <1>7 DEF SetComplete
  <2>2. g \in FrameType /\ g.task = f.task /\ g.ip = f.ip /\ g.at = "complete"
        /\ g.stages = Stages(rec) /\ g.seen = f.seen
    BY <1>2, <1>3 DEF FrameType, Place
  <2> HIDE DEF g
  <2>3. Replaced(th, g)
    BY <2>1, <2>2, ReplaceTop
  <2>4. GoodFrame(th, Len(stack[th]), g)
    <3>1. OpOk(th, g)
      BY <2>2 DEF OpOk, RunPlace, BeginPlace
    <3> QED BY <1>2, <1>3, <1>7, <2>2, <3>1 DEF GoodFrame
  <2>5. \A uh \in Thread : StackOk(uh)'
    BY <2>2, <2>3, <2>4, ReplacedOk
  <2>6. StagesFit(g.stages, rec)
    BY <1>3, <2>2
  <2>7. Turn(th, g, "COMPLETED")
    BY <1>1, <1>5, <2>2, <2>3, <2>6 DEF Turn, StatusAt, RunPlace, BeginPlace, RWC
  <2>8. stack' \in [Thread -> Seq(FrameType)]
    BY <2>3 DEF Replaced
  <2>9. Handled(th)
    BY <2>7 DEF Handled
  <2> QED BY <1>1, <1>5, <2>2, <2>3, <2>5, <2>8, <2>9
<1> QED BY <1>6, <1>7

LEMMA TurnTo ==
  ASSUME Inv1, HeldInv, NEW th \in Thread, stack[th] # <<>>, Top(th).task # None,
         Top(th).at \notin BeginPlace,
         NEW place \in {"insert", "send", "schedule", "body"}, Goto(th, place),
         NEW status \in {"CREATED", "RUNNING", "WAITING", "SCHEDULED"},
         Changed(th[1], Top(th).task, status),
         StatusAt(place, status, task[th[1]][Top(th).task].type),
         status = "SCHEDULED" => task[th[1]][Top(th).task].type = "REMOTE",
         task[th[1]][Top(th).task].status # "NONE",
         status = "CREATED" => task[th[1]][Top(th).task].status = "CREATED",
         Top(th).at = "schedule" \/ task[th[1]][Top(th).task].status = "SCHEDULED"
           => status = "SCHEDULED",
         place = "schedule" => Top(th).at = "send",
         task[th[1]][Top(th).task].type = "LOCAL" /\ task[th[1]][Top(th).task].status \in RWC
           => status \in RWC,
         place = "body" => /\ Top(th).at = "process"
                           /\ task[th[1]][Top(th).task].status = "CREATED"
                           /\ task[th[1]][Top(th).task].type = "LOCAL",
         UNCHANGED <<prog, action, taskList, net, processer>>
  PROVE  /\ Turn(th, Moved(th, place), status)
         /\ \A uh \in Thread : StackOk(uh)'
         /\ stack' \in [Thread -> Seq(FrameType)]
<1> DEFINE g == Moved(th, place)
<1>1. g.at = place /\ g.task = Top(th).task /\ g.ip = Top(th).ip
  BY MovedOp
<1>2. place \in Place /\ place # "complete"
  BY DEF Place
<1>3. OpOk(th, g)
  BY <1>1 DEF OpOk, RunPlace, BeginPlace
<1>4. Replaced(th, g) /\ \A uh \in Thread : StackOk(uh)'
  BY <1>2, <1>3, GotoOk
<1> HIDE DEF g
<1>5. Turn(th, g, status)
  BY <1>1, <1>4 DEF Turn, RunPlace, BeginPlace
<1>6. stack' \in [Thread -> Seq(FrameType)]
  BY <1>4 DEF Replaced
<1> QED BY <1>4, <1>5, <1>6 DEF g

\* The types after a step that changes the record of a task and counters only.
LEMMA HandledTyped ==
  ASSUME Inv1, \A uh \in Thread : StackOk(uh)', stack' \in [Thread -> Seq(FrameType)],
         UNCHANGED <<prog, action, messages, queue, net, acks, processer, awaited, served>>,
         task' \in [Node -> [Task -> TaskInfo]],
         group' \in [Group -> [num : Nat, current : Int, result : Task \union {None}]],
         taskList' \in [Node -> Seq(Task)],
         current' \in [Thread -> Task \union {None}], filled' \subseteq Node \X Task
  PROVE  Inv1'
BY TypedStep DEF Inv1, Typed

\* The steps of a thread that has come to a task of the list, or to its end.
Handling1(th) ==
  \/ NotYet(th) \/ RunRemotely(th) \/ CheckScheduled(th) \/ RunTask(th)
  \/ SetScheduled(th)

LEMMA ProcessStep ==
  ASSUME Inv1, HeldInv, RecordInv, NEW th \in Thread, Handling1(th), UNCHANGED remoteVars
  PROVE  Inv1' /\ Handled(th)
<1> DEFINE t == Top(th).task n == th[1]
<1> DEFINE Kept == UNCHANGED <<prog, action, taskList, queue, group, filled, awaited>>
<1>1. ASSUME NEW place \in {"insert", "send", "body"}, NEW status,
             Turn(th, Moved(th, place), status), \A uh \in Thread : StackOk(uh)',
             stack' \in [Thread -> Seq(FrameType)], Kept,
             current' \in [Thread -> Task \union {None}]
      PROVE  Inv1' /\ Handled(th)
  <2>1. Handled(th)
    BY <1>1 DEF Handled, remoteVars
  <2>2. task' \in [Node -> [Task -> TaskInfo]]
    BY <1>1 DEF Turn, Changed
  <2>3. Inv1'
    BY <1>1, <2>2, HandledTyped DEF remoteVars, Inv1, Typed
  <2> QED BY <2>1, <2>3
<1>2. ASSUME NEW status, Processing(th, status)
      PROVE  /\ stack[th] # <<>> /\ Top(th).at = "process" /\ t # None /\ t \in Task
             /\ task[n][t].status = status /\ n \in Node /\ Mine(th) = t
  <2>1. stack[th] # <<>> /\ Top(th).at = "process" /\ t # None
    BY <1>2, TaskTop DEF Processing, RunPlace
  <2> QED BY <1>2, <2>1, HeldTop DEF Processing
<1>8. UNCHANGED <<messages, served, net, acks, processer>>
  BY DEF remoteVars
<1>3. CASE NotYet(th)
  <2>1. Processing(th, "CREATED") /\ Goto(th, "insert") /\ task' = task /\ Kept /\ current' = current
    BY <1>3 DEF NotYet
  <2>2. Changed(n, t, "CREATED")
    BY <1>2, <2>1, NothingSet
  <2>3. StatusAt("insert", "CREATED", task[n][t].type)
    BY DEF StatusAt, RunPlace
  <2>4. current' \in [Thread -> Task \union {None}]
    BY <2>1 DEF Inv1, Typed
  <2>6. /\ stack[th] # <<>> /\ Top(th).at = "process" /\ t # None /\ Top(th).at \notin BeginPlace
        /\ task[n][t].status = "CREATED" /\ (task[n][t].status \in RWC => FALSE)
    BY <1>2, <2>1 DEF BeginPlace, RWC
  <2>5. /\ Turn(th, Moved(th, "insert"), "CREATED") /\ \A uh \in Thread : StackOk(uh)'
        /\ stack' \in [Thread -> Seq(FrameType)]
    BY <1>8, <2>1, <2>2, <2>3, <2>6, TurnTo
  <2> QED BY <1>1, <2>1, <2>4, <2>5
<1>4. CASE RunRemotely(th)
  <2>1. Processing(th, "CREATED") /\ Goto(th, "send") /\ task' = task /\ Kept /\ current' = current
    BY <1>4 DEF RunRemotely
  <2>2. Changed(n, t, "CREATED")
    BY <1>2, <2>1, NothingSet
  <2>3. StatusAt("send", "CREATED", task[n][t].type)
    BY <1>2, <1>4, <2>1 DEF StatusAt, RunPlace, RunRemotely
  <2>4. current' \in [Thread -> Task \union {None}]
    BY <2>1 DEF Inv1, Typed
  <2>6. /\ stack[th] # <<>> /\ Top(th).at = "process" /\ t # None /\ Top(th).at \notin BeginPlace
        /\ task[n][t].status = "CREATED" /\ (task[n][t].status \in RWC => FALSE)
    BY <1>2, <2>1 DEF BeginPlace, RWC
  <2>5. /\ Turn(th, Moved(th, "send"), "CREATED") /\ \A uh \in Thread : StackOk(uh)'
        /\ stack' \in [Thread -> Seq(FrameType)]
    BY <1>8, <2>1, <2>2, <2>3, <2>6, TurnTo
  <2> QED BY <1>1, <2>1, <2>4, <2>5
<1>5. CASE CheckScheduled(th)
  <2>1. Processing(th, "SCHEDULED") /\ Goto(th, "insert") /\ task' = task /\ Kept /\ current' = current
    BY <1>5 DEF CheckScheduled
  <2>2. Changed(n, t, "SCHEDULED")
    BY <1>2, <2>1, NothingSet
  <2>3. StatusAt("insert", "SCHEDULED", task[n][t].type)
    BY DEF StatusAt, RunPlace
  <2>4. current' \in [Thread -> Task \union {None}]
    BY <2>1 DEF Inv1, Typed
  <2>6. /\ stack[th] # <<>> /\ Top(th).at = "process" /\ t # None /\ Top(th).at \notin BeginPlace
        /\ task[n][t].status = "SCHEDULED" /\ (task[n][t].status \in RWC => FALSE)
    BY <1>2, <2>1 DEF BeginPlace, RWC
  <2>7. task[n][t].type = "REMOTE"
    BY <1>2, <2>1 DEF RecordInv
  <2>5. /\ Turn(th, Moved(th, "insert"), "SCHEDULED") /\ \A uh \in Thread : StackOk(uh)'
        /\ stack' \in [Thread -> Seq(FrameType)]
    BY <1>8, <2>1, <2>2, <2>3, <2>6, <2>7, TurnTo
  <2> QED BY <1>1, <2>1, <2>4, <2>5
<1>6. CASE RunTask(th)
  <2>1. /\ Processing(th, "CREATED") /\ Goto(th, "body") /\ Kept
        /\ task' = [task EXCEPT ![n][t].status = "RUNNING"] /\ task[n][t].type = "LOCAL"
        /\ current' = [current EXCEPT ![th] = t]
    BY <1>2, <1>6 DEF RunTask
  <2>2. Changed(n, t, "RUNNING")
    BY <1>2, <2>1, StatusSet
  <2>3. StatusAt("body", "RUNNING", task[n][t].type)
    BY <2>1 DEF StatusAt, RunPlace
  <2>4. current' \in [Thread -> Task \union {None}]
    BY <1>2, <2>1 DEF Inv1, Typed
  <2>6. /\ stack[th] # <<>> /\ Top(th).at = "process" /\ t # None /\ Top(th).at \notin BeginPlace
        /\ task[n][t].status = "CREATED" /\ (task[n][t].status \in RWC => FALSE)
    BY <1>2, <2>1 DEF BeginPlace, RWC
  <2>5. /\ Turn(th, Moved(th, "body"), "RUNNING") /\ \A uh \in Thread : StackOk(uh)'
        /\ stack' \in [Thread -> Seq(FrameType)]
    BY <1>8, <2>1, <2>2, <2>3, <2>6, TurnTo DEF RWC
  <2> QED BY <1>1, <2>1, <2>4, <2>5
<1>7. CASE SetScheduled(th)
  <2>1. /\ At(th, "schedule") /\ Goto(th, "insert") /\ Kept /\ current' = current
        /\ task' = [task EXCEPT ![n][Mine(th)].status = "SCHEDULED"]
    BY <1>7 DEF SetScheduled
  <2>2. stack[th] # <<>> /\ Top(th).at = "schedule" /\ t # None
    BY <2>1, TaskTop DEF RunPlace
  <2>3. /\ t \in Task /\ n \in Node /\ Mine(th) = t
        /\ task[n][t].status \in {"CREATED", "WAITING"} /\ task[n][t].type = "REMOTE"
    BY <2>2, HeldTop DEF StatusAt
  <2>4. Changed(n, t, "SCHEDULED")
    BY <2>1, <2>3, StatusSet
  <2>5. StatusAt("insert", "SCHEDULED", task[n][t].type)
    BY DEF StatusAt, RunPlace
  <2>6. current' \in [Thread -> Task \union {None}]
    BY <2>1 DEF Inv1, Typed
  <2>7. task[n][t].type # "LOCAL"
    BY <2>3
  <2>8. /\ Turn(th, Moved(th, "insert"), "SCHEDULED") /\ \A uh \in Thread : StackOk(uh)'
        /\ stack' \in [Thread -> Seq(FrameType)]
    BY <2>1, <2>2, <2>3, <2>4, <2>5, <2>7, TurnTo DEF remoteVars, BeginPlace
  <2> QED BY <1>1, <2>1, <2>6, <2>8
<1> QED BY <1>3, <1>4, <1>5, <1>6, <1>7 DEF Handling1

LEMMA EndBodyStep ==
  ASSUME Inv1, HeldInv, NEW th \in Thread, EndBody(th), UNCHANGED remoteVars
  PROVE  Inv1' /\ Handled(th)
<1> DEFINE t == Top(th).task n == th[1]
<1>1. stack[th] # <<>> /\ Top(th).at = "body" /\ t # None
  BY DEF EndBody, At, Mine
<1>2. /\ t \in Task /\ n \in Node /\ Mine(th) = t
      /\ task[n][t].status = "RUNNING" /\ task[n][t].type = "LOCAL"
  BY <1>1, HeldTop DEF StatusAt, RunPlace
<1>3. UNCHANGED <<prog, action, taskList, queue, group, awaited, messages, served, net, acks, processer>>
  BY DEF EndBody, remoteVars
<1>4. current' \in [Thread -> Task \union {None}] /\ filled' \subseteq Node \X Task
  BY <1>2 DEF EndBody, Inv1, Typed
<1>5. Handled(th) /\ (\A uh \in Thread : StackOk(uh)') /\ stack' \in [Thread -> Seq(FrameType)]
      /\ task' \in [Node -> [Task -> TaskInfo]]
  <2>1. CASE task[n][t].childCount = 0
    <3>1. SetComplete(th)
      BY <1>2, <2>1 DEF EndBody
    <3>2. task[n][t].status \in {"RUNNING", "WAITING"} /\ Top(th).at \notin BeginPlace
          /\ Top(th).at # "schedule"
      BY <1>1, <1>2 DEF BeginPlace
    <3> QED BY <1>1, <1>2, <1>3, <3>1, <3>2, SetCompleteOk DEF Changed
  <2>2. CASE task[n][t].childCount # 0
    <3>1. Goto(th, "insert") /\ task' = [task EXCEPT ![n][t].status = "WAITING"]
      BY <1>2, <2>2 DEF EndBody
    <3>2. Changed(n, t, "WAITING")
      BY <1>2, <3>1, StatusSet
    <3>3. StatusAt("insert", "WAITING", task[n][t].type)
      BY DEF StatusAt, RunPlace
    <3>4. /\ Turn(th, Moved(th, "insert"), "WAITING") /\ \A uh \in Thread : StackOk(uh)'
          /\ stack' \in [Thread -> Seq(FrameType)]
      BY <1>1, <1>2, <1>3, <3>1, <3>2, <3>3, TurnTo DEF BeginPlace, RWC
    <3> QED BY <1>3, <3>2, <3>4 DEF Handled, Changed
  <2> QED BY <2>1, <2>2
<1> QED BY <1>3, <1>4, <1>5, HandledTyped DEF Inv1, Typed

LEMMA CheckWaitingStep ==
  ASSUME Inv1, HeldInv, NEW th \in Thread, CheckWaiting(th), UNCHANGED remoteVars
  PROVE  Inv1' /\ Handled(th)
<1> DEFINE t == Top(th).task n == th[1]
<1>1. stack[th] # <<>> /\ Top(th).at = "process" /\ t # None
  BY TaskTop DEF CheckWaiting, Processing, RunPlace
<1>2. /\ t \in Task /\ n \in Node /\ Mine(th) = t /\ task[n][t].status = "WAITING"
  BY <1>1, HeldTop DEF CheckWaiting, Processing
<1>3. UNCHANGED <<prog, action, taskList, queue, group, current, filled, awaited,
                  messages, served, net, acks, processer>>
  BY DEF CheckWaiting, remoteVars
<1>5. Handled(th) /\ (\A uh \in Thread : StackOk(uh)') /\ stack' \in [Thread -> Seq(FrameType)]
      /\ task' \in [Node -> [Task -> TaskInfo]]
  <2>1. CASE task[n][t].childCount = 0
    <3>1. SetComplete(th)
      BY <1>2, <2>1 DEF CheckWaiting
    <3>2. task[n][t].status \in {"RUNNING", "WAITING"} /\ Top(th).at \notin BeginPlace
          /\ Top(th).at # "schedule"
      BY <1>1, <1>2 DEF BeginPlace
    <3> QED BY <1>1, <1>2, <1>3, <3>1, <3>2, SetCompleteOk DEF Changed
  <2>2. CASE task[n][t].childCount # 0
    <3>1. Goto(th, "insert") /\ task' = task
      BY <1>2, <2>2 DEF CheckWaiting
    <3>2. Changed(n, t, "WAITING")
      BY <1>2, <3>1, NothingSet
    <3>3. StatusAt("insert", "WAITING", task[n][t].type)
      BY DEF StatusAt, RunPlace
    <3>4. /\ Turn(th, Moved(th, "insert"), "WAITING") /\ \A uh \in Thread : StackOk(uh)'
          /\ stack' \in [Thread -> Seq(FrameType)]
      BY <1>1, <1>2, <1>3, <3>1, <3>2, <3>3, TurnTo DEF BeginPlace, RWC
    <3> QED BY <1>3, <3>2, <3>4 DEF Handled, Changed
  <2> QED BY <2>1, <2>2
<1> QED BY <1>3, <1>5, HandledTyped DEF Inv1, Typed

LEMMA ReinsertStep ==
  ASSUME Inv1, HeldInv, NEW th \in Thread, Reinsert(th), UNCHANGED remoteVars
  PROVE  Inv1' /\ Handled(th)
<1> DEFINE t == Top(th).task n == th[1]
<1>1. stack[th] # <<>> /\ Top(th).at = "insert" /\ t # None
  BY TaskTop DEF Reinsert, RunPlace
<1>2. /\ t \in Task /\ n \in Node /\ Mine(th) = t
      /\ task[n][t].status \in {"CREATED", "SCHEDULED", "WAITING"}
  BY <1>1, HeldTop DEF StatusAt
<1>3. UNCHANGED <<prog, action, task, queue, group, current, filled, awaited,
                  messages, served, net, acks, processer>>
  BY DEF Reinsert, remoteVars
<1>4. taskList' = [taskList EXCEPT ![n] = Append(taskList[n], t)] /\ Return(th)
  BY <1>2 DEF Reinsert, InsertTask
<1>5. Removed(th) /\ \A uh \in Thread : StackOk(uh)'
  BY <1>1, <1>3, <1>4, ReturnOk, RemoveTop
<1>6. stack' \in [Thread -> Seq(FrameType)]
  BY <1>5 DEF Removed
<1>7. Changed(n, t, task[n][t].status)
  BY <1>2, <1>3, NothingSet
<1>8. Gone(th, task[n][t].status)
  BY <1>1, <1>2, <1>3, <1>4, <1>5, <1>7 DEF Gone, BeginPlace
<1>9. taskList' \in [Node -> Seq(Task)]
  BY <1>2, <1>4 DEF Inv1, Typed
<1>10. Inv1'
  BY <1>3, <1>5, <1>6, <1>9, HandledTyped DEF Inv1, Typed
<1> QED BY <1>8, <1>10 DEF Handled

-----------------------------------------------------------------------------
(* Signing off, and the start and the taking of a task.                    *)

LEMMA LeaveParentStep ==
  ASSUME Inv1, HeldInv, StagesInv, NEW th \in Thread, LeaveParent(th), UNCHANGED remoteVars
  PROVE  Inv1' /\ Handled(th)
<1> DEFINE t == Mine(th) n == th[1] p == task[th[1]][Mine(th)].parent
<1>1. Completing(th, "parent")
  BY DEF LeaveParent
<1>2. stack[th] # <<>> /\ Top(th).at = "complete" /\ Top(th).task # None
  BY <1>1, TaskTop DEF Completing, RunPlace
<1>3. "parent" \in ToSet(Top(th).stages)
  BY <1>1, <1>2, TopOk DEF Completing, ToSet, GoodFrame, FrameType
<1>4. t \in Task /\ n \in Node /\ task[n][t] \in TaskInfo
  BY <1>2, HeldTop
<1>5. p \in Task
  <2>1. StagesFit(Top(th).stages, task[n][t])
    BY <1>2, TopOk, HeldTop DEF StagesInv
  <2> QED BY <1>3, <1>4, <2>1 DEF StagesFit, TaskInfo
<1>6. task' = [task EXCEPT ![n][p].childCount = @ - 1]
  BY DEF LeaveParent
<1>7. Changed(n, t, task[n][t].status)
  <2> DEFINE rec == [task[n][p] EXCEPT !.childCount = @ - 1]
  <2>1. task \in [Node -> [Task -> TaskInfo]]
    BY DEF Inv1, Typed
  <2>2. task[n][p] \in TaskInfo
    BY <1>4, <1>5, <2>1
  <2>3. task[n][p].childCount - 1 \in Int
    BY <2>2 DEF TaskInfo
  <2>4. rec \in TaskInfo /\ Alike(rec, task[n][p]) /\ rec.status = task[n][p].status
    BY <2>2, <2>3 DEF TaskInfo, Alike
  <2>5. task' = [task EXCEPT ![n] = [task[n] EXCEPT ![p] = rec]]
    BY <1>6, <2>1
  <2> HIDE DEF rec
  <2>6. /\ task' \in [Node -> [Task -> TaskInfo]] /\ task'[n][p] = rec
        /\ \A m \in Node, u \in Task : m # n \/ u # p => task'[m][u] = task[m][u]
    BY <1>4, <1>5, <2>1, <2>4, <2>5
  <2> QED BY <1>4, <1>5, <2>4, <2>6 DEF Changed, Alike
<1>8. UNCHANGED <<prog, action, taskList, queue, group, current, filled, awaited,
                  messages, served, net, acks, processer>>
  BY DEF LeaveParent, remoteVars
<1>9. Handled(th) /\ (\A uh \in Thread : StackOk(uh)') /\ stack' \in [Thread -> Seq(FrameType)]
  BY <1>1, <1>7, <1>8, CompletingOk
<1>10. task' \in [Node -> [Task -> TaskInfo]]
  BY <1>7 DEF Changed
<1> QED BY <1>8, <1>9, <1>10, HandledTyped DEF Inv1, Typed

LEMMA LeaveQueueStep ==
  ASSUME Inv1, HeldInv, StagesInv, NEW th \in Thread, LeaveQueue(th), UNCHANGED remoteVars
  PROVE  Inv1' /\ Handled(th)
<1> DEFINE t == Mine(th) n == th[1]
<1>1. Completing(th, "queue")
  BY DEF LeaveQueue
<1>2. stack[th] # <<>> /\ Top(th).task # None
  BY <1>1, TaskTop DEF Completing, RunPlace
<1>3. t \in Task /\ n \in Node
  BY <1>2, HeldTop
<1>4. UNCHANGED <<prog, action, task, taskList, group, current, filled, awaited,
                  messages, served, net, acks, processer>>
  BY DEF LeaveQueue, remoteVars
<1>5. Changed(n, t, task[n][t].status)
  BY <1>3, <1>4, NothingSet
<1>6. Handled(th) /\ (\A uh \in Thread : StackOk(uh)') /\ stack' \in [Thread -> Seq(FrameType)]
  BY <1>1, <1>4, <1>5, CompletingOk
<1>7. queue' = [q \in Queue |-> queue'[q]]
  BY DEF LeaveQueue, Inv1, Typed
<1> QED BY <1>4, <1>6, <1>7, TypedStep DEF Inv1, Typed

LEMMA LeaveGroupStep ==
  ASSUME Inv1, HeldInv, StagesInv, NEW th \in Thread, LeaveGroup(th), UNCHANGED remoteVars
  PROVE  Inv1' /\ Handled(th)
<1> DEFINE t == Mine(th) n == th[1] g == task[th[1]][Mine(th)].group
<1>1. Completing(th, "group")
  BY DEF LeaveGroup
<1>2. stack[th] # <<>> /\ Top(th).task # None
  BY <1>1, TaskTop DEF Completing, RunPlace
<1>3. t \in Task /\ n \in Node /\ task[n][t] \in TaskInfo
  BY <1>2, HeldTop
<1>4. UNCHANGED <<prog, action, task, taskList, queue, current, filled, awaited,
                  messages, served, net, acks, processer>>
  BY DEF LeaveGroup, remoteVars
<1>5. Changed(n, t, task[n][t].status)
  BY <1>3, <1>4, NothingSet
<1>6. Handled(th) /\ (\A uh \in Thread : StackOk(uh)') /\ stack' \in [Thread -> Seq(FrameType)]
      /\ "group" \in ToSet(Top(th).stages) /\ StagesFit(Top(th).stages, task[n][t])
  BY <1>1, <1>4, <1>5, CompletingOk
<1>7. g \in Group
  BY <1>3, <1>6 DEF StagesFit, TaskInfo
<1>8. group' \in [Group -> [num : Nat, current : Int, result : Task \union {None}]]
  <2>1. group' = [group EXCEPT ![g].current = @ - 1]
    BY DEF LeaveGroup
  <2> HIDE DEF g
  <2>2. group \in [Group -> [num : Nat, current : Int, result : Task \union {None}]]
    BY DEF Inv1, Typed
  <2> QED BY <1>7, <2>1, <2>2, GroupCounted
<1> QED BY <1>4, <1>6, <1>8, TypedStep DEF Inv1, Typed

LEMMA GroupResultStep ==
  ASSUME Inv1, HeldInv, StagesInv, NEW th \in Thread, GroupResult(th), UNCHANGED remoteVars
  PROVE  Inv1' /\ Handled(th)
<1> DEFINE t == Mine(th) n == th[1] g == task[th[1]][Mine(th)].group
<1>1. Completing(th, "result")
  BY DEF GroupResult
<1>2. stack[th] # <<>> /\ Top(th).task # None
  BY <1>1, TaskTop DEF Completing, RunPlace
<1>3. t \in Task /\ n \in Node /\ task[n][t] \in TaskInfo
  BY <1>2, HeldTop
<1>4. UNCHANGED <<prog, action, task, taskList, queue, current, filled, awaited,
                  messages, served, net, acks, processer>>
  BY DEF GroupResult, remoteVars
<1>5. Changed(n, t, task[n][t].status)
  BY <1>3, <1>4, NothingSet
<1>6. Handled(th) /\ (\A uh \in Thread : StackOk(uh)') /\ stack' \in [Thread -> Seq(FrameType)]
  BY <1>1, <1>4, <1>5, CompletingOk
<1>8. group' \in [Group -> [num : Nat, current : Int, result : Task \union {None}]]
  <2>1. group' = [group EXCEPT ![g].result = t]
    BY DEF GroupResult
  <2>2. group \in [Group -> [num : Nat, current : Int, result : Task \union {None}]]
    BY DEF Inv1, Typed
  <2> HIDE DEF g
  <2> QED BY <1>3, <2>1, <2>2
<1> QED BY <1>4, <1>6, <1>8, TypedStep DEF Inv1, Typed

LEMMA MessageCompleteStep ==
  ASSUME Inv1, HeldInv, StagesInv, NEW th \in Thread, MessageComplete(th)
  PROVE  /\ Inv1' /\ Handled(th) /\ Mine(th) \in Task /\ task[th[1]][Mine(th)].message
         /\ task' = task
         /\ served' = [served EXCEPT ![Mine(th)] = "COMPLETE_LOCAL_TASK"]
<1> DEFINE t == Mine(th) n == th[1]
<1>1. Completing(th, "message") /\ served' = [served EXCEPT ![t] = "COMPLETE_LOCAL_TASK"]
  BY DEF MessageComplete
<1>2. stack[th] # <<>> /\ Top(th).task # None
  BY <1>1, TaskTop DEF Completing, RunPlace
<1>3. t \in Task /\ n \in Node
  BY <1>2, HeldTop
<1>4. UNCHANGED <<prog, action, task, taskList, queue, group, current, filled, awaited,
                  messages, net, acks, processer>>
  BY DEF MessageComplete
<1>5. Changed(n, t, task[n][t].status)
  BY <1>3, <1>4, NothingSet
<1>6. Handled(th) /\ (\A uh \in Thread : StackOk(uh)') /\ stack' \in [Thread -> Seq(FrameType)]
      /\ "message" \in ToSet(Top(th).stages) /\ StagesFit(Top(th).stages, task[n][t])
  BY <1>1, <1>4, <1>5, CompletingOk
<1>7. served' \in [Task -> {"RECEIVE_REMOTE_TASK", "AWAIT_LOCAL_TASK", "COMPLETE_LOCAL_TASK"}]
  BY <1>1, <1>3 DEF Inv1, Typed
<1>8. Inv1'
  BY <1>4, <1>6, <1>7, TypedStep DEF Inv1, Typed
<1> QED BY <1>1, <1>3, <1>4, <1>6, <1>8 DEF StagesFit

\* The message that starts a remote task.
Send(th) ==
  /\ Turn(th, Moved(th, "schedule"), "CREATED") /\ Top(th).at = "send"
  /\ prog.distributed /\ served' = served
  /\ messages' = [messages EXCEPT ![th[1]] =
                    Append(messages[th[1]], Msg("START_REMOTE_TASK", Top(th).task))]

LEMMA InsertStartStep ==
  ASSUME Inv1, HeldInv, RecordInv, ActionInv, NEW th \in Thread, InsertStart(th)
  PROVE  Inv1' /\ Send(th) /\ Top(th).task \in Task
<1> DEFINE t == Top(th).task n == th[1]
<1>1. stack[th] # <<>> /\ Top(th).at = "send" /\ t # None
  BY TaskTop DEF InsertStart, RunPlace
<1>2. /\ t \in Task /\ n \in Node /\ Mine(th) = t
      /\ task[n][t].status = "CREATED" /\ task[n][t].type = "REMOTE"
  BY <1>1, HeldTop DEF StatusAt
<1>3. prog.distributed
  <2>1. prog.job[t] \in Job
    BY <1>2, ProgTyped DEF Inv1, Typed
  <2>2. task[n][t].type = action[n][prog.job[t]]
    BY <1>2 DEF RecordInv
  <2> QED BY <1>2, <2>1, <2>2 DEF ActionInv
<1>4. UNCHANGED <<prog, action, task, taskList, queue, group, current, filled, awaited,
                  served, net, acks, processer>>
  BY DEF InsertStart
<1>5. Goto(th, "schedule")
      /\ messages' = [messages EXCEPT ![n] = Append(messages[n], Msg("START_REMOTE_TASK", t))]
  BY <1>2 DEF InsertStart, InsertMessage
<1>6. Changed(n, t, "CREATED")
  BY <1>2, <1>4, NothingSet
<1>7. StatusAt("schedule", "CREATED", task[n][t].type)
  BY <1>2 DEF StatusAt, RunPlace
<1>8. task[n][t].type # "LOCAL" /\ Top(th).at \notin BeginPlace
  BY <1>1, <1>2 DEF BeginPlace
<1>9. /\ Turn(th, Moved(th, "schedule"), "CREATED") /\ \A uh \in Thread : StackOk(uh)'
      /\ stack' \in [Thread -> Seq(FrameType)]
  BY <1>1, <1>2, <1>4, <1>5, <1>6, <1>7, <1>8, TurnTo
<1>10. Msg("START_REMOTE_TASK", t) \in Message
  BY <1>2 DEF Msg, Message
<1>11. messages' \in [Node -> Seq(Message)]
  BY <1>2, <1>5, <1>10 DEF Inv1, Typed
<1>12. Shape'
  BY <1>3, <1>4, <1>9 DEF Inv1, Shape, ProcesserOk, Silent
<1>13. Inv1'
  BY <1>4, <1>9, <1>11, <1>12 DEF Inv1, Typed
<1> QED BY <1>1, <1>2, <1>3, <1>4, <1>5, <1>9, <1>13 DEF Send

\* A new record of a task.
Made(n, t, parent, q, g, message) ==
  /\ action[n][prog.job[t]] # None
  /\ task' \in [Node -> [Task -> TaskInfo]]
  /\ task'[n][t] = [status |-> "CREATED", type |-> action[n][prog.job[t]], parent |-> parent,
                    childCount |-> 0, queue |-> q, group |-> g, message |-> message]
  /\ \A m \in Node, u \in Task : m # n \/ u # t =>
       Alike(task'[m][u], task[m][u]) /\ task'[m][u].status = task[m][u].status

LEMMA NewTaskMade ==
  ASSUME Inv1, NEW n \in Node, NEW t \in Task, NEW parent \in Task \union {None},
         NEW q \in Queue \union {None}, NEW g \in Group \union {None}, NEW message \in BOOLEAN,
         NewTask(n, t, parent, q, g, message)
  PROVE  /\ Made(n, t, parent, q, g, message)
         /\ \A m \in Node, u \in Task : m # n \/ u # t =>
              task'[m][u].childCount = IF m = n /\ u = parent THEN task[m][u].childCount + 1
                                       ELSE task[m][u].childCount
<1>1. task \in [Node -> [Task -> TaskInfo]] /\ action[n][prog.job[t]] \in {None, "LOCAL", "REMOTE"}
  BY ProgTyped DEF Inv1, Typed
<1> DEFINE rec == [status |-> "CREATED", type |-> action[n][prog.job[t]], parent |-> parent,
                   childCount |-> 0, queue |-> q, group |-> g, message |-> message]
           up(u) == [task[n][u] EXCEPT !.childCount = @ + 1]
           row == [u \in Task |-> IF u = t THEN rec ELSE IF u = parent THEN up(u) ELSE task[n][u]]
<1>2. rec \in TaskInfo
  BY <1>1 DEF TaskInfo
<1>3. ASSUME NEW u \in Task
      PROVE  /\ up(u) \in TaskInfo /\ Alike(up(u), task[n][u])
             /\ up(u).status = task[n][u].status /\ up(u).childCount = task[n][u].childCount + 1
  <2>1. task[n][u] \in TaskInfo
    BY <1>1
  <2>2. task[n][u].childCount + 1 \in Int
    BY <2>1 DEF TaskInfo
  <2> QED BY <2>1, <2>2 DEF TaskInfo, Alike
<1>4. task' = [task EXCEPT ![n] = row] /\ action[n][prog.job[t]] # None
  <2>1. action[n][prog.job[t]] # None
        /\ task' = [task EXCEPT ![n] = [u \in Task |->
             IF u = t THEN rec
             ELSE IF u = parent THEN [task[n][u] EXCEPT !.childCount = @ + 1] ELSE task[n][u]]]
    BY DEF NewTask
  <2> QED BY <2>1
<1> HIDE DEF rec, up
<1>5. row \in [Task -> TaskInfo]
  BY <1>1, <1>2, <1>3
<1>6. /\ task' \in [Node -> [Task -> TaskInfo]] /\ task'[n] = row
      /\ \A m \in Node : m # n => task'[m] = task[m]
  BY <1>1, <1>4, <1>5
<1>7. task'[n][t] = rec
  BY <1>6
<1>8. \A u \in Task : u # t => task'[n][u] = IF u = parent THEN up(u) ELSE task[n][u]
  BY <1>6
<1>9. \A m \in Node, u \in Task : m # n \/ u # t =>
        /\ Alike(task'[m][u], task[m][u]) /\ task'[m][u].status = task[m][u].status
        /\ task'[m][u].childCount = IF m = n /\ u = parent THEN task[m][u].childCount + 1
                                    ELSE task[m][u].childCount
  BY <1>3, <1>6, <1>8 DEF Alike
<1> QED BY <1>4, <1>6, <1>7, <1>9 DEF Made, rec

\* A task is started.
Start(th, t, g) ==
  /\ stack[th] # <<>> /\ Top(th).at = "body" /\ t \in Task /\ Replaced(th, g)
  /\ g.at \in BeginPlace /\ g.task = Top(th).task /\ g.ip = Top(th).ip
  /\ OpOf(th, g).on = t
  /\ Top(th).ip \in DOMAIN ScriptOf(th, Top(th)) /\ StartsAt(ScriptOf(th, Top(th)), Top(th).ip, t)
  /\ Made(th[1], t, current[th], prog.queue[t], prog.group[t], FALSE)
  /\ g.at = "entry" <=> prog.queue[t] # None
  /\ g.at = "grow" => prog.group[t] # None
  /\ prog.queue[t] = None /\ prog.group[t] # None => g.at = "grow"
  /\ UNCHANGED <<prog, action, taskList, messages, served, net, processer>>

LEMMA StartTaskStep ==
  ASSUME Inv1, NEW th \in Thread, StartTask(th), UNCHANGED remoteVars
  PROVE  Inv1' /\ \E g : Start(th, On(th), g)
<1> DEFINE t == On(th)
<1>1. /\ stack[th] # <<>> /\ Top(th).at = "body" /\ t \in Task
      /\ Top(th).ip \in DOMAIN ScriptOf(th, Top(th))
      /\ OpOf(th, Top(th)) \in Op /\ OpOf(th, Top(th)).do = "start" /\ t = OpOf(th, Top(th)).on
  BY DoingOk, TopOk DEF StartTask
<1>2. UNCHANGED <<prog, action, taskList, queue, group, current, filled, awaited,
                  messages, served, net, acks, processer>>
  BY DEF StartTask, remoteVars
<1>3. current[th] \in Task \union {None} /\ prog.queue[t] \in Queue \union {None}
      /\ prog.group[t] \in Group \union {None} /\ th[1] \in Node
  BY <1>1, ProgTyped, ThreadOk DEF Inv1, Typed
<1>4. Made(th[1], t, current[th], prog.queue[t], prog.group[t], FALSE)
  BY <1>1, <1>3, NewTaskMade DEF StartTask
<1>5. PICK place \in {"entry", "grow", "list"} :
        /\ Goto(th, place)
        /\ place = "entry" <=> prog.queue[t] # None
        /\ place = "grow" => prog.group[t] # None
        /\ prog.queue[t] = None /\ prog.group[t] # None => place = "grow"
  BY DEF StartTask
<1> DEFINE g == Moved(th, place)
<1>6. /\ g.at = place /\ g.task = Top(th).task /\ g.ip = Top(th).ip
      /\ OpOf(th, g) = OpOf(th, Top(th)) /\ ScriptOf(th, g) = ScriptOf(th, Top(th))
  BY <1>1, MovedOp
<1>7. OpOk(th, g)
  BY <1>1, <1>5, <1>6 DEF OpOk
<1>8. place \in Place /\ place # "complete" /\ place \in RunPlace /\ place \in BeginPlace
  BY DEF Place, RunPlace, BeginPlace
<1>9. Replaced(th, g) /\ \A uh \in Thread : StackOk(uh)'
  BY <1>1, <1>2, <1>5, <1>7, <1>8, GotoOk
<1> HIDE DEF g
<1>10. stack' \in [Thread -> Seq(FrameType)] /\ task' \in [Node -> [Task -> TaskInfo]]
  BY <1>4, <1>9 DEF Replaced, Made
<1>11. Inv1'
  BY <1>2, <1>9, <1>10, TypedStep DEF Inv1, Typed
<1>12. StartsAt(ScriptOf(th, Top(th)), Top(th).ip, t)
  BY <1>1 DEF StartsAt, OpOf
<1>13. Start(th, t, g)
  BY <1>1, <1>2, <1>4, <1>5, <1>6, <1>8, <1>9, <1>12 DEF Start
<1> QED BY <1>11, <1>13

\* A task is put into the list when its start ends.
Lists(th, t, g) ==
  /\ stack[th] # <<>> /\ Top(th).at = "list" /\ t \in Task /\ Replaced(th, g)
  /\ g.at = "body" /\ g.task = Top(th).task /\ g.ip = Top(th).ip + 1
  /\ Begins(th, Len(stack[th]), th[1], t)
  /\ taskList' = [taskList EXCEPT ![th[1]] = Append(taskList[th[1]], t)]
  /\ UNCHANGED <<prog, action, task, messages, served, net, processer>>

LEMMA ListTaskStep ==
  ASSUME Inv1, NEW th \in Thread, ListTask(th), UNCHANGED remoteVars
  PROVE  Inv1' /\ \E g : Lists(th, On(th), g)
<1>1. /\ stack[th] # <<>> /\ Top(th).at = "list" /\ On(th) \in Task /\ NextOp(th)
      /\ On(th) = OpOf(th, Top(th)).on
  BY CallOk, TopOk DEF ListTask, RunPlace, BeginPlace
<1>2. UNCHANGED <<prog, action, task, queue, group, current, filled, awaited,
                  messages, served, net, acks, processer>>
  BY DEF ListTask, remoteVars
<1>3. taskList' = [taskList EXCEPT ![th[1]] = Append(taskList[th[1]], On(th))]
  BY DEF ListTask, InsertTask
<1> DEFINE g == Advanced(th)
<1>4. Replaced(th, g) /\ \A uh \in Thread : StackOk(uh)'
  BY <1>1, <1>2, NextOk
<1>5. Top(th) \in FrameType /\ Top(th) = stack[th][Len(stack[th])]
      /\ Len(stack[th]) \in DOMAIN stack[th]
  BY <1>1, TopOk
<1>6. g.at = "body" /\ g.task = Top(th).task /\ g.ip = Top(th).ip + 1
  BY <1>5 DEF Advanced, FrameType
<1> HIDE DEF g
<1>7. Begins(th, Len(stack[th]), th[1], On(th))
  BY <1>1, <1>5 DEF Begins, BeginPlace
<1>8. stack' \in [Thread -> Seq(FrameType)] /\ taskList' \in [Node -> Seq(Task)]
  BY <1>1, <1>3, <1>4, ThreadOk DEF Replaced, Inv1, Typed
<1>9. Inv1'
  BY <1>2, <1>4, <1>8, TypedStep DEF Inv1, Typed
<1>10. Lists(th, On(th), g)
  BY <1>1, <1>2, <1>3, <1>4, <1>6, <1>7 DEF Lists
<1> QED BY <1>9, <1>10

LEMMA Concat ==
  ASSUME NEW S, NEW s \in Seq(S), NEW r \in Seq(S)
  PROVE  /\ s \o r \in Seq(S) /\ Len(s \o r) = Len(s) + Len(r)
         /\ \A i \in 1..Len(s) : (s \o r)[i] = s[i]
         /\ \A i \in (Len(s) + 1)..(Len(s) + Len(r)) : (s \o r)[i] = r[i - Len(s)]
OBVIOUS

\* A thread takes the first task of the list.
Take(th, g) ==
  /\ taskList[th[1]] # <<>> /\ Added(th, g)
  /\ g.task = Head(taskList[th[1]]) /\ g.at = "process" /\ g.ip = 1 /\ g.seen = 0
  /\ stack[th] # <<>> => Top(th).at = "pop"
  /\ taskList' = [taskList EXCEPT ![th[1]] = Tail(taskList[th[1]])]
  /\ UNCHANGED <<prog, action, task, messages, served, net, processer>>

LEMMA TakeStep ==
  ASSUME Inv1, NEW th \in Thread, UNCHANGED remoteVars,
         (PopWaiting(th) /\ taskList[th[1]] # <<>>) \/ PopWorker(th)
  PROVE  Inv1' /\ \E g : Take(th, g)
<1> DEFINE n == th[1] g == Frame(Head(taskList[th[1]]), "process")
<1>1. n \in Node /\ taskList[n] # <<>> /\ taskList \in [Node -> Seq(Task)]
      /\ taskList' = [taskList EXCEPT ![n] = Tail(taskList[n])]
  BY ThreadOk DEF PopWaiting, PopWorker, Inv1, Typed
<1>2. UNCHANGED <<prog, action, task, queue, group, current, filled, awaited,
                  messages, served, net, acks, processer>>
  BY DEF PopWaiting, PopWorker, remoteVars
<1>3. Head(taskList[n]) \in Task /\ Tail(taskList[n]) \in Seq(Task)
  BY <1>1
<1>4. g \in FrameType /\ g.task = Head(taskList[n]) /\ g.at = "process" /\ g.ip = 1 /\ g.seen = 0
  BY <1>3 DEF FrameType, Frame, Place
<1>5. g.task # None /\ g.at \notin RunPlace \union {"complete"}
  BY <1>3, <1>4, MtapiAssumption DEF RunPlace
<1> HIDE DEF g
<1>6. stack \in [Thread -> Seq(FrameType)]
  BY DEF Inv1, Typed
<1>7. Added(th, g) /\ (stack[th] # <<>> => Top(th).at = "pop")
  <2>1. CASE PopWorker(th)
    <3>1. stack[th] = <<>> /\ stack' = [stack EXCEPT ![th] = <<g>>]
      BY <2>1 DEF PopWorker, g
    <3>2. <<g>> \in Seq(FrameType) /\ Len(<<g>>) = 1 /\ <<g>>[1] = g
      BY <1>4
    <3>3. stack'[th] = <<g>> /\ stack' \in [Thread -> Seq(FrameType)]
          /\ \A uh \in Thread : uh # th => stack'[uh] = stack[uh]
      BY <1>6, <3>1, <3>2
    <3>4. Len(stack[th]) = 0
      BY <3>1
    <3> QED BY <3>1, <3>2, <3>3, <3>4 DEF Added
  <2>2. CASE PopWaiting(th) /\ taskList[n] # <<>>
    <3> DEFINE b == [Top(th) EXCEPT !.at = "body"] s == stack[th]
    <3>1. /\ stack[th] # <<>> /\ Top(th).at = "pop"
          /\ stack' = [stack EXCEPT ![th] = Front(s) \o <<b, g>>]
      BY <2>2 DEF PopWaiting, At, g
    <3>2. Top(th) \in FrameType /\ b \in FrameType /\ Len(s) \in Nat \ {0}
      BY <3>1, TopOk DEF FrameType, Place
    <3>3. Front(s) \in Seq(FrameType) /\ Len(Front(s)) = Len(s) - 1
          /\ \A i \in 1..(Len(s) - 1) : Front(s)[i] = s[i]
      BY <1>6, <3>1, <3>2, SeqTop
    <3> HIDE DEF b
    <3> DEFINE f == Front(s) r == f \o <<b, g>>
    <3>4. <<b, g>> \in Seq(FrameType) /\ Len(<<b, g>>) = 2 /\ <<b, g>>[1] = b /\ <<b, g>>[2] = g
      BY <1>4, <3>2
    <3> HIDE DEF f
    <3> DEFINE e == <<b, g>>
    <3>14. e \in Seq(FrameType) /\ Len(e) = 2 /\ e[1] = b /\ e[2] = g
      BY <3>4
    <3>15. f \in Seq(FrameType) /\ Len(f) = Len(s) - 1 /\ \A i \in 1..(Len(s) - 1) : f[i] = s[i]
      BY <3>3 DEF f
    <3> HIDE DEF e
    <3>16. r = f \o e
      BY DEF e
    <3> HIDE DEF r
    <3>17. /\ r \in Seq(FrameType) /\ Len(r) = Len(f) + Len(e)
           /\ \A i \in 1..Len(f) : r[i] = f[i]
           /\ \A i \in (Len(f) + 1)..(Len(f) + Len(e)) : r[i] = e[i - Len(f)]
      BY <3>14, <3>15, <3>16, Concat, ZenonT(30)
    <3>18. /\ Len(s) \in (Len(f) + 1)..(Len(f) + Len(e)) /\ Len(s) - Len(f) = 1
           /\ Len(s) + 1 \in (Len(f) + 1)..(Len(f) + Len(e)) /\ (Len(s) + 1) - Len(f) = 2
      BY <3>2, <3>14, <3>15
    <3>19. r[Len(s)] = b /\ r[Len(s) + 1] = g
      BY <3>14, <3>17, <3>18
    <3>5. /\ r \in Seq(FrameType) /\ Len(r) = Len(s) + 1 /\ r[Len(s)] = b /\ r[Len(s) + 1] = g
          /\ \A i \in 1..(Len(s) - 1) : r[i] = s[i]
      BY <3>2, <3>14, <3>15, <3>17, <3>19
    <3>6. stack'[th] = r /\ stack' \in [Thread -> Seq(FrameType)]
          /\ \A uh \in Thread : uh # th => stack'[uh] = stack[uh]
      <4>1. stack' = [stack EXCEPT ![th] = r]
        BY <3>1 DEF r, e, f
      <4> QED BY <1>6, <3>5, <4>1
    <3> QED BY <3>1, <3>5, <3>6 DEF Added, b
  <2> QED BY <2>1, <2>2
<1>8. \A uh \in Thread : StackOk(uh)'
  BY <1>2, <1>4, <1>5, <1>7, AddedOk
<1>9. stack' \in [Thread -> Seq(FrameType)] /\ taskList' \in [Node -> Seq(Task)]
  BY <1>1, <1>3, <1>7 DEF Added
<1>10. Inv1'
  BY <1>2, <1>8, <1>9, TypedStep DEF Inv1, Typed
<1>11. Take(th, g)
  BY <1>1, <1>2, <1>4, <1>7 DEF Take
<1> QED BY <1>10, <1>11

-----------------------------------------------------------------------------
(* Lists and messages.                                                     *)

\* G is the sequences F of the nodes after x was appended to that of n.
PutIn(F, G, n, x) ==
  /\ \A m \in Node : \A i \in DOMAIN G[m] :
       \/ i \in DOMAIN F[m] /\ G[m][i] = F[m][i]
       \/ m = n /\ i = Len(F[n]) + 1 /\ G[m][i] = x
  /\ \A m \in Node : \A i \in DOMAIN F[m] : i \in DOMAIN G[m] /\ G[m][i] = F[m][i]
  /\ Len(F[n]) + 1 \in DOMAIN G[n] /\ G[n][Len(F[n]) + 1] = x
  /\ Len(F[n]) + 1 \notin DOMAIN F[n]

\* G is F after the head was taken from the sequence of n.
GotIn(F, G, n) ==
  /\ \A m \in Node : m # n => G[m] = F[m]
  /\ \A i \in DOMAIN G[n] : i \in Nat \ {0} /\ i + 1 \in DOMAIN F[n] /\ G[n][i] = F[n][i + 1]
  /\ \A i \in DOMAIN F[n] :
       i \in Nat /\ (i = 1 \/ (i - 1 \in DOMAIN G[n] /\ G[n][i - 1] = F[n][i]))
  /\ 1 \in DOMAIN F[n] /\ F[n][1] = Head(F[n])

LEMMA PutInOk ==
  ASSUME NEW T, NEW F \in [Node -> Seq(T)], NEW n \in Node, NEW x \in T,
         NEW G \in [Node -> Seq(T)], G[n] = Append(F[n], x),
         \A m \in Node : m # n => G[m] = F[m]
  PROVE  PutIn(F, G, n, x)
<1> DEFINE s == F[n] r == Append(F[n], x)
<1>1. /\ s \in Seq(T) /\ r \in Seq(T) /\ Len(r) = Len(s) + 1 /\ Len(s) \in Nat
      /\ r[Len(s) + 1] = x /\ \A i \in 1..Len(s) : r[i] = s[i]
  OBVIOUS
<1>2. G[n] = r /\ \A m \in Node : m # n => G[m] = F[m]
  OBVIOUS
<1>3. DOMAIN s = 1..Len(s) /\ DOMAIN r = 1..(Len(s) + 1)
  BY <1>1
<1> HIDE DEF r
<1>4. \A i \in DOMAIN r : (i \in DOMAIN s /\ r[i] = s[i]) \/ (i = Len(s) + 1 /\ r[i] = x)
  BY <1>1, <1>3
<1>5. \A i \in DOMAIN s : i \in DOMAIN r /\ r[i] = s[i]
  BY <1>1, <1>3
<1>6. Len(s) + 1 \in DOMAIN r /\ Len(s) + 1 \notin DOMAIN s
  BY <1>1, <1>3
<1> QED BY <1>1, <1>2, <1>4, <1>5, <1>6 DEF PutIn

LEMMA GotInOk ==
  ASSUME NEW T, NEW F \in [Node -> Seq(T)], NEW n \in Node, F[n] # <<>>,
         NEW G, G = [F EXCEPT ![n] = Tail(F[n])]
  PROVE  G \in [Node -> Seq(T)] /\ Head(F[n]) \in T /\ GotIn(F, G, n)
<1> DEFINE s == F[n] r == Tail(F[n])
<1>1. /\ s \in Seq(T) /\ r \in Seq(T) /\ Len(s) \in Nat \ {0} /\ Len(r) = Len(s) - 1
      /\ s[1] = Head(s) /\ s[1] \in T /\ \A i \in 1..(Len(s) - 1) : r[i] = s[i + 1]
  <2>1. s \in Seq(T) /\ Len(s) \in Nat \ {0} /\ s # <<>>
    OBVIOUS
  <2> QED BY <2>1
<1>2. G[n] = r /\ G \in [Node -> Seq(T)] /\ \A m \in Node : m # n => G[m] = F[m]
  BY <1>1
<1> HIDE DEF r
<1>3. DOMAIN s = 1..Len(s) /\ DOMAIN r = 1..(Len(s) - 1)
  BY <1>1
<1>4. \A i \in DOMAIN r : i \in Nat \ {0} /\ i + 1 \in DOMAIN s /\ r[i] = s[i + 1]
  BY <1>1, <1>3
<1>5. \A i \in DOMAIN s : i \in Nat /\ (i = 1 \/ (i - 1 \in DOMAIN r /\ r[i - 1] = s[i]))
  <2> SUFFICES ASSUME NEW i \in DOMAIN s, i # 1 PROVE i - 1 \in DOMAIN r /\ r[i - 1] = s[i]
    BY <1>3
  <2>1. i - 1 \in 1..(Len(s) - 1) /\ (i - 1) + 1 = i
    BY <1>1, <1>3
  <2> QED BY <1>1, <1>3, <2>1
<1>6. 1 \in DOMAIN s
  BY <1>1, <1>3
<1> QED BY <1>1, <1>2, <1>4, <1>5, <1>6 DEF GotIn

\* What the processer of a node does next, and with which message.
Hand(n, at, msg) ==
  /\ processer' \in [Node -> [at : HandPlace, msg : Message \union {None}]]
  /\ processer'[n].at = at /\ processer'[n].msg = msg
  /\ \A m \in Node : m # n => processer'[m] = processer[m]

LEMMA HandOk ==
  ASSUME Inv1, NEW n \in Node
  PROVE  /\ \A at \in HandPlace : Step(n, at) => Hand(n, at, processer[n].msg)
         /\ Done(n) => Hand(n, "idle", None)
         /\ \A msg \in Message :
              processer' = [processer EXCEPT ![n] = [at |-> "process", msg |-> msg]]
                => Hand(n, "process", msg)
<1>1. processer \in [Node -> [at : HandPlace, msg : Message \union {None}]]
  BY DEF Inv1, Typed
<1>2. ASSUME NEW at \in HandPlace, Step(n, at) PROVE Hand(n, at, processer[n].msg)
  BY <1>1, <1>2 DEF Step, Hand
<1>5. ASSUME NEW at \in HandPlace, NEW msg \in Message \union {None},
             processer' = [processer EXCEPT ![n] = [at |-> at, msg |-> msg]]
      PROVE  Hand(n, at, msg)
  <2> DEFINE v == [at |-> at, msg |-> msg]
  <2>3. processer' = [processer EXCEPT ![n] = v]
    BY <1>5
  <2>1. v \in [at : HandPlace, msg : Message \union {None}] /\ v.at = at /\ v.msg = msg
    OBVIOUS
  <2> HIDE DEF v
  <2>2. /\ processer' \in [Node -> [at : HandPlace, msg : Message \union {None}]]
        /\ processer'[n] = v /\ \A m \in Node : m # n => processer'[m] = processer[m]
    BY <1>1, <2>1, <2>3
  <2> QED BY <2>1, <2>2 DEF Hand
<1>3. ASSUME Done(n) PROVE Hand(n, "idle", None)
  <2>1. processer' = [processer EXCEPT ![n] = [at |-> "idle", msg |-> None]]
    BY <1>3 DEF Done, Idle
  <2>2. "idle" \in HandPlace /\ None \in Message \union {None}
    BY DEF HandPlace
  <2> QED BY <1>5, <2>1, <2>2
<1>4. ASSUME NEW msg \in Message,
             processer' = [processer EXCEPT ![n] = [at |-> "process", msg |-> msg]]
      PROVE  Hand(n, "process", msg)
  <2>1. "process" \in HandPlace /\ msg \in Message \union {None}
    BY DEF HandPlace
  <2> QED BY <1>4, <1>5, <2>1
<1> QED BY <1>2, <1>3, <1>4

\* Messages are a matter of two nodes.
LEMMA Busy ==
  ASSUME Inv1, NEW n \in Node,
         processer[n].at # "idle" \/ messages[n] # <<>> \/ net[n] # <<>>
  PROVE  prog.distributed /\ Other(n) \in Node /\ Other(n) # n /\ Other(Other(n)) = n
         /\ Node = {n, Other(n)}
<1>1. prog.distributed
  BY DEF Inv1, Shape, Silent
<1> QED BY <1>1, OtherOk DEF Inv1, Typed

\* The types after a step of a processer or a listener.
LEMMA RemoteTyped ==
  ASSUME Inv1, prog.distributed, NEW n \in Node, NEW at, NEW msg,
         UNCHANGED <<prog, queue, group, stack, current, awaited>>,
         action' \in [Node -> [Job -> {None, "LOCAL", "REMOTE"}]],
         task' \in [Node -> [Task -> TaskInfo]], taskList' \in [Node -> Seq(Task)],
         filled' \subseteq Node \X Task,
         messages' \in [Node -> Seq(Message)],
         served' \in [Task -> {"RECEIVE_REMOTE_TASK", "AWAIT_LOCAL_TASK", "COMPLETE_LOCAL_TASK"}],
         net' \in [Node -> Seq(NetMessage)], acks' \in [Node -> Nat],
         processer' = processer \/ Hand(n, at, msg),
         at # "idle" => msg \in Message,
         at \in {"list", "await", "again"} => msg.type = "SERVE",
         at = "ack" => msg.on \in Task
  PROVE  Inv1'
<1>1. \A th \in Thread : StackOk(th)'
  BY OtherStack DEF Inv1, Shape
<1>2. \A m \in Node : ProcesserOk(m)'
  <2> SUFFICES ASSUME NEW m \in Node PROVE ProcesserOk(m)'
    OBVIOUS
  <2>1. ProcesserOk(m)
    BY DEF Inv1, Shape
  <2>2. CASE processer'[m] = processer[m]
    BY <2>1, <2>2 DEF ProcesserOk
  <2>3. CASE m = n /\ Hand(n, at, msg)
    <3>1. processer'[m].at = at /\ processer'[m].msg = msg
      BY <2>3 DEF Hand
    <3> QED BY <3>1 DEF ProcesserOk
  <2> QED BY <2>2, <2>3 DEF Hand
<1>3. processer' \in [Node -> [at : HandPlace, msg : Message \union {None}]]
  BY DEF Hand, Inv1, Typed
<1>4. prog'.distributed
  OBVIOUS
<1>5. Shape'
  BY <1>1, <1>2, <1>4 DEF Shape, Silent
<1> QED BY <1>3, <1>5 DEF Inv1, Typed

\* The message a processer has to do with.
LEMMA HandlingOk ==
  ASSUME Inv1, NEW n \in Node, processer[n].at # "idle"
  PROVE  /\ processer[n].msg \in Message
         /\ processer[n].msg.type \in {"CREATE_ACTION", "ADD_REMOTE_ACTION"} => Subject(n) \in Job
         /\ processer[n].msg.type \in {"START_REMOTE_TASK", "SERVE", "COMPLETE_REMOTE_TASK"} =>
              Subject(n) \in Task
         /\ processer[n].msg = Msg(processer[n].msg.type, Subject(n))
<1>1. processer[n].msg \in Message
  BY DEF Inv1, Shape, ProcesserOk
<1> QED BY <1>1 DEF Message, Subject, Msg

-----------------------------------------------------------------------------
(* Steps of a processer and of a listener.                                 *)

LEMMA PopMessageStep ==
  ASSUME Inv1, NEW n \in Node, PopMessage(n)
  PROVE  /\ Inv1' /\ processer[n].at = "idle" /\ Hand(n, "process", messages[n][1])
         /\ GotIn(messages, messages', n)
<1>1. /\ processer[n].at = "idle" /\ messages[n] # <<>>
      /\ messages' = [messages EXCEPT ![n] = Tail(messages[n])]
  BY DEF PopMessage, Processer
<1>2. messages \in [Node -> Seq(Message)]
  BY DEF Inv1, Typed
<1>3. messages' \in [Node -> Seq(Message)] /\ Head(messages[n]) \in Message
      /\ GotIn(messages, messages', n)
  BY <1>1, <1>2, GotInOk
<1>4. Hand(n, "process", Head(messages[n]))
  BY <1>3, HandOk DEF PopMessage
<1>5. prog.distributed
  BY <1>1, Busy
<1>6. UNCHANGED <<taskVars, served, net, acks>>
  BY DEF PopMessage
<1>7. Inv1'
  BY <1>3, <1>4, <1>5, <1>6, RemoteTyped DEF taskVars, Inv1, Typed
<1> QED BY <1>1, <1>3, <1>4, <1>7 DEF GotIn

LEMMA SendOk ==
  ASSUME Inv1, NEW n \in Node, NEW m \in NetMessage, SendTo(n, m)
  PROVE  net' \in [Node -> Seq(NetMessage)] /\ PutIn(net, net', n, m)
<1>1. net \in [Node -> Seq(NetMessage)]
  BY DEF Inv1, Typed
<1>2. net' = [net EXCEPT ![n] = Append(net[n], m)]
  BY DEF SendTo
<1>3. /\ net' \in [Node -> Seq(NetMessage)] /\ net'[n] = Append(net[n], m)
      /\ \A k \in Node : k # n => net'[k] = net[k]
  BY <1>1, <1>2
<1> QED BY <1>1, <1>3, PutInOk

LEMMA InsertOk ==
  ASSUME Inv1, NEW n \in Node, NEW m \in Message, InsertMessage(n, m)
  PROVE  messages' \in [Node -> Seq(Message)] /\ PutIn(messages, messages', n, m)
<1>1. messages \in [Node -> Seq(Message)]
  BY DEF Inv1, Typed
<1>2. messages' = [messages EXCEPT ![n] = Append(messages[n], m)]
  BY DEF InsertMessage
<1>3. /\ messages' \in [Node -> Seq(Message)] /\ messages'[n] = Append(messages[n], m)
      /\ \A k \in Node : k # n => messages'[k] = messages[k]
  BY <1>1, <1>2
<1> QED BY <1>1, <1>3, PutInOk

LEMMA SendActionStep ==
  ASSUME Inv1, NEW n \in Node, SendAction(n)
  PROVE  /\ Inv1' /\ Subject(n) \in Job /\ Hand(n, "idle", None)
         /\ processer[n].at = "process" /\ processer[n].msg = Msg("CREATE_ACTION", Subject(n))
         /\ Other(n) \in Node /\ Other(Other(n)) = n
         /\ PutIn(net, net', Other(n), Msg("CREATE_ACTION", Subject(n)))
<1>1. processer[n].at = "process" /\ processer[n].msg.type = "CREATE_ACTION"
  BY DEF SendAction, Handling, Processer
<1>2. Subject(n) \in Job /\ processer[n].msg = Msg("CREATE_ACTION", Subject(n))
  BY <1>1, HandlingOk
<1>3. prog.distributed /\ Other(n) \in Node /\ Other(Other(n)) = n
  BY <1>1, Busy
<1>4. Msg("CREATE_ACTION", Subject(n)) \in NetMessage
  BY <1>2 DEF Msg, NetMessage
<1>5. net' \in [Node -> Seq(NetMessage)]
      /\ PutIn(net, net', Other(n), Msg("CREATE_ACTION", Subject(n)))
  BY <1>3, <1>4, SendOk DEF SendAction
<1>6. Hand(n, "idle", None)
  BY HandOk DEF SendAction
<1>7. UNCHANGED <<taskVars, messages, served, acks>>
  BY DEF SendAction
<1>8. Inv1'
  BY <1>3, <1>5, <1>6, <1>7, RemoteTyped DEF taskVars, Inv1, Typed, HandPlace
<1> QED BY <1>1, <1>2, <1>3, <1>5, <1>6, <1>8

LEMMA AddRemoteActionStep ==
  ASSUME Inv1, NEW n \in Node, AddRemoteAction(n)
  PROVE  /\ Inv1' /\ Subject(n) \in Job /\ Hand(n, "idle", None) /\ prog.distributed
         /\ processer[n].at = "process" /\ processer[n].msg = Msg("ADD_REMOTE_ACTION", Subject(n))
         /\ Other(n) \in Node /\ Other(n) # n
         /\ action' = [action EXCEPT ![n][Subject(n)] =
                         IF action[n][Subject(n)] = None THEN "REMOTE" ELSE action[n][Subject(n)]]
<1>1. processer[n].at = "process" /\ processer[n].msg.type = "ADD_REMOTE_ACTION"
  BY DEF AddRemoteAction, Handling, Processer
<1>2. Subject(n) \in Job /\ processer[n].msg = Msg("ADD_REMOTE_ACTION", Subject(n))
  BY <1>1, HandlingOk
<1>3. prog.distributed /\ Other(n) \in Node /\ Other(n) # n
  BY <1>1, Busy
<1>4. action' = [action EXCEPT ![n][Subject(n)] =
                   IF action[n][Subject(n)] = None THEN "REMOTE" ELSE action[n][Subject(n)]]
  BY DEF AddRemoteAction
<1>5. action' \in [Node -> [Job -> {None, "LOCAL", "REMOTE"}]]
  BY <1>2, <1>4 DEF Inv1, Typed
<1>6. Hand(n, "idle", None)
  BY HandOk DEF AddRemoteAction
<1>7. UNCHANGED <<prog, task, taskList, queue, group, stack, current,
                  filled, awaited, messages, served, net, acks>>
  BY DEF AddRemoteAction
<1>8. Inv1'
  BY <1>3, <1>5, <1>6, <1>7, RemoteTyped DEF Inv1, Typed, HandPlace
<1> QED BY <1>1, <1>2, <1>3, <1>4, <1>6, <1>8

LEMMA StartRemoteTaskStep ==
  ASSUME Inv1, NEW n \in Node, StartRemoteTask(n)
  PROVE  /\ Inv1' /\ Subject(n) \in Task /\ Hand(n, "ack", processer[n].msg)
         /\ processer[n].at = "process" /\ processer[n].msg.type = "START_REMOTE_TASK"
         /\ Other(n) \in Node /\ Other(Other(n)) = n /\ Other(n) # n
         /\ PutIn(net, net', Other(n), Msg("START_REMOTE_TASK", Subject(n)))
<1>1. processer[n].at = "process" /\ processer[n].msg.type = "START_REMOTE_TASK"
  BY DEF StartRemoteTask, Handling, Processer
<1>2. Subject(n) \in Task /\ processer[n].msg \in Message
  BY <1>1, HandlingOk
<1>3. prog.distributed /\ Other(n) \in Node /\ Other(Other(n)) = n /\ Other(n) # n
  BY <1>1, Busy
<1>4. Msg("START_REMOTE_TASK", Subject(n)) \in NetMessage
  BY <1>2 DEF Msg, NetMessage
<1>5. net' \in [Node -> Seq(NetMessage)]
      /\ PutIn(net, net', Other(n), Msg("START_REMOTE_TASK", Subject(n)))
  BY <1>3, <1>4, SendOk DEF StartRemoteTask
<1>6. Hand(n, "ack", processer[n].msg)
  BY HandOk DEF StartRemoteTask, HandPlace
<1>7. UNCHANGED <<taskVars, messages, served, acks>>
  BY DEF StartRemoteTask
<1>8. Inv1'
  BY <1>2, <1>3, <1>5, <1>6, <1>7, RemoteTyped DEF taskVars, Inv1, Typed, HandPlace, Subject
<1> QED BY <1>1, <1>2, <1>3, <1>5, <1>6, <1>8

LEMMA AwaitAckStep ==
  ASSUME Inv1, NEW n \in Node, AwaitAck(n)
  PROVE  Inv1' /\ Hand(n, "idle", None) /\ processer[n].at = "ack"
<1>1. processer[n].at = "ack" /\ acks[n] > 0 /\ acks' = [acks EXCEPT ![n] = acks[n] - 1]
  BY DEF AwaitAck, Processer
<1>2. prog.distributed
  BY <1>1, Busy
<1>3. acks' \in [Node -> Nat]
  <2>1. acks \in [Node -> Nat]
    BY DEF Inv1, Typed
  <2>2. acks[n] - 1 \in Nat
    BY <1>1, <2>1
  <2> QED BY <1>1, <2>1, <2>2
<1>4. Hand(n, "idle", None)
  BY HandOk DEF AwaitAck
<1>5. UNCHANGED <<taskVars, messages, served, net>>
  BY DEF AwaitAck
<1>6. Inv1'
  BY <1>2, <1>3, <1>4, <1>5, RemoteTyped DEF taskVars, Inv1, Typed, HandPlace
<1> QED BY <1>1, <1>4, <1>6

LEMMA ReceiveRemoteTaskStep ==
  ASSUME Inv1, NEW n \in Node, ReceiveRemoteTask(n)
  PROVE  /\ Inv1' /\ Subject(n) \in Task /\ Hand(n, "list", processer[n].msg)
         /\ processer[n].at = "process" /\ processer[n].msg.type = "SERVE"
         /\ served[Subject(n)] = "RECEIVE_REMOTE_TASK"
         /\ Other(n) \in Node /\ Other(Other(n)) = n /\ Other(n) # n /\ Node = {n, Other(n)}
         /\ Made(n, Subject(n), None, None, None, TRUE)
         /\ \A m \in Node, u \in Task : m # n \/ u # Subject(n) =>
              task'[m][u].childCount = task[m][u].childCount
<1>1. processer[n].at = "process" /\ processer[n].msg.type = "SERVE"
      /\ served[Subject(n)] = "RECEIVE_REMOTE_TASK"
  BY DEF ReceiveRemoteTask, Handling, Processer
<1>2. Subject(n) \in Task /\ processer[n].msg \in Message
  BY <1>1, HandlingOk
<1>3. prog.distributed /\ Other(n) \in Node /\ Other(Other(n)) = n /\ Other(n) # n
      /\ Node = {n, Other(n)}
  BY <1>1, Busy
<1>4. /\ Made(n, Subject(n), None, None, None, TRUE)
      /\ \A m \in Node, u \in Task : m # n \/ u # Subject(n) =>
           task'[m][u].childCount = IF m = n /\ u = None THEN task[m][u].childCount + 1
                                    ELSE task[m][u].childCount
  <2>1. NewTask(n, Subject(n), None, None, None, TRUE)
    BY DEF ReceiveRemoteTask
  <2>2. TRUE \in BOOLEAN /\ None \in Task \union {None} /\ None \in Queue \union {None}
        /\ None \in Group \union {None}
    OBVIOUS
  <2>3. PICK v \in Task : v = Subject(n)
    BY <1>2
  <2>4. NewTask(n, v, None, None, None, TRUE)
    BY <2>1, <2>3
  <2>5. /\ Made(n, v, None, None, None, TRUE)
        /\ \A m \in Node, u \in Task : m # n \/ u # v =>
             task'[m][u].childCount = IF m = n /\ u = None THEN task[m][u].childCount + 1
                                      ELSE task[m][u].childCount
    BY <2>2, <2>4, NewTaskMade, ZenonT(30)
  <2> QED BY <2>3, <2>5
<1>5. Hand(n, "list", processer[n].msg)
  BY HandOk DEF ReceiveRemoteTask, HandPlace
<1>6. UNCHANGED <<prog, action, taskList, queue, group, stack, current,
                  filled, awaited, messages, served, net, acks>>
  BY DEF ReceiveRemoteTask
<1>7. task' \in [Node -> [Task -> TaskInfo]]
  BY <1>4 DEF Made
<1>8. Inv1'
  BY <1>1, <1>2, <1>3, <1>5, <1>6, <1>7, RemoteTyped DEF Inv1, Typed, HandPlace
<1> QED BY <1>1, <1>2, <1>3, <1>4, <1>5, <1>8, MtapiAssumption

LEMMA ListReceivedStep ==
  ASSUME Inv1, NEW n \in Node, ListReceived(n)
  PROVE  /\ Inv1' /\ Subject(n) \in Task /\ Hand(n, "await", processer[n].msg)
         /\ processer[n].at = "list" /\ PutIn(taskList, taskList', n, Subject(n))
<1>1. processer[n].at = "list"
  BY DEF ListReceived, Processer
<1>2. processer[n].msg.type = "SERVE"
  BY <1>1 DEF Inv1, Shape, ProcesserOk
<1>3. Subject(n) \in Task /\ processer[n].msg \in Message
  BY <1>1, <1>2, HandlingOk
<1>4. prog.distributed
  BY <1>1, Busy
<1>5. taskList' \in [Node -> Seq(Task)] /\ PutIn(taskList, taskList', n, Subject(n))
  <2>1. taskList \in [Node -> Seq(Task)]
    BY DEF Inv1, Typed
  <2>2. taskList' = [taskList EXCEPT ![n] = Append(taskList[n], Subject(n))]
    BY DEF ListReceived, InsertTask
  <2>3. /\ taskList' \in [Node -> Seq(Task)] /\ taskList'[n] = Append(taskList[n], Subject(n))
        /\ \A k \in Node : k # n => taskList'[k] = taskList[k]
    BY <1>3, <2>1, <2>2
  <2> QED BY <1>3, <2>1, <2>3, PutInOk
<1>6. Hand(n, "await", processer[n].msg)
  BY HandOk DEF ListReceived, HandPlace
<1>7. UNCHANGED <<prog, action, task, queue, group, stack, current,
                  filled, awaited, messages, served, net, acks>>
  BY DEF ListReceived
<1>8. Inv1'
  BY <1>2, <1>3, <1>4, <1>5, <1>6, <1>7, RemoteTyped DEF Inv1, Typed, HandPlace
<1> QED BY <1>1, <1>3, <1>5, <1>6, <1>8

LEMMA SetAwaitingStep ==
  ASSUME Inv1, NEW n \in Node, SetAwaiting(n)
  PROVE  /\ Inv1' /\ Subject(n) \in Task /\ Hand(n, "idle", None)
         /\ processer[n].at = "await" /\ processer[n].msg.type = "SERVE"
         /\ processer[n].msg \in Message /\ PutIn(messages, messages', n, processer[n].msg)
         /\ served' = [served EXCEPT ![Subject(n)] = "AWAIT_LOCAL_TASK"]
<1>1. processer[n].at = "await"
  BY DEF SetAwaiting, Processer
<1>2. processer[n].msg.type = "SERVE"
  BY <1>1 DEF Inv1, Shape, ProcesserOk
<1>3. Subject(n) \in Task /\ processer[n].msg \in Message
  BY <1>1, <1>2, HandlingOk
<1>4. prog.distributed
  BY <1>1, Busy
<1>5. messages' \in [Node -> Seq(Message)] /\ PutIn(messages, messages', n, processer[n].msg)
  BY <1>3, InsertOk DEF SetAwaiting
<1>6. Hand(n, "idle", None)
  BY HandOk DEF SetAwaiting
<1>7. UNCHANGED <<taskVars, net, acks>>
      /\ served' = [served EXCEPT ![Subject(n)] = "AWAIT_LOCAL_TASK"]
  BY DEF SetAwaiting
<1>8. served' \in [Task -> {"RECEIVE_REMOTE_TASK", "AWAIT_LOCAL_TASK", "COMPLETE_LOCAL_TASK"}]
  BY <1>3, <1>7 DEF Inv1, Typed
<1>9. Inv1'
  BY <1>4, <1>5, <1>6, <1>7, <1>8, RemoteTyped DEF taskVars, Inv1, Typed, HandPlace
<1> QED BY <1>1, <1>2, <1>3, <1>5, <1>6, <1>7, <1>9

LEMMA SeeAwaitingStep ==
  ASSUME Inv1, NEW n \in Node, SeeAwaiting(n)
  PROVE  /\ Inv1' /\ Subject(n) \in Task /\ Hand(n, "again", processer[n].msg)
         /\ processer[n].at = "process" /\ processer[n].msg.type = "SERVE"
         /\ served[Subject(n)] = "AWAIT_LOCAL_TASK"
<1>1. processer[n].at = "process" /\ processer[n].msg.type = "SERVE"
      /\ served[Subject(n)] = "AWAIT_LOCAL_TASK"
  BY DEF SeeAwaiting, Handling, Processer
<1>2. Subject(n) \in Task /\ processer[n].msg \in Message
  BY <1>1, HandlingOk
<1>3. prog.distributed
  BY <1>1, Busy
<1>4. Hand(n, "again", processer[n].msg)
  BY HandOk DEF SeeAwaiting, HandPlace
<1>5. UNCHANGED <<taskVars, messages, served, net, acks>>
  BY DEF SeeAwaiting
<1>6. Inv1'
  BY <1>1, <1>2, <1>3, <1>4, <1>5, RemoteTyped DEF taskVars, Inv1, Typed, HandPlace
<1> QED BY <1>1, <1>2, <1>4, <1>6

LEMMA AwaitLocalTaskStep ==
  ASSUME Inv1, NEW n \in Node, AwaitLocalTask(n)
  PROVE  /\ Inv1' /\ Subject(n) \in Task /\ Hand(n, "idle", None)
         /\ processer[n].at = "again" /\ processer[n].msg.type = "SERVE"
         /\ processer[n].msg \in Message /\ PutIn(messages, messages', n, processer[n].msg)
<1>1. processer[n].at = "again"
  BY DEF AwaitLocalTask, Processer
<1>2. processer[n].msg.type = "SERVE"
  BY <1>1 DEF Inv1, Shape, ProcesserOk
<1>3. Subject(n) \in Task /\ processer[n].msg \in Message
  BY <1>1, <1>2, HandlingOk
<1>4. prog.distributed
  BY <1>1, Busy
<1>5. messages' \in [Node -> Seq(Message)] /\ PutIn(messages, messages', n, processer[n].msg)
  BY <1>3, InsertOk DEF AwaitLocalTask
<1>6. Hand(n, "idle", None)
  BY HandOk DEF AwaitLocalTask
<1>7. UNCHANGED <<taskVars, served, net, acks>>
  BY DEF AwaitLocalTask
<1>8. Inv1'
  BY <1>4, <1>5, <1>6, <1>7, RemoteTyped DEF taskVars, Inv1, Typed, HandPlace
<1> QED BY <1>1, <1>2, <1>3, <1>5, <1>6, <1>8

LEMMA CompleteLocalTaskStep ==
  ASSUME Inv1, NEW n \in Node, CompleteLocalTask(n)
  PROVE  /\ Inv1' /\ Subject(n) \in Task /\ Hand(n, "ack", processer[n].msg)
         /\ processer[n].at = "process" /\ processer[n].msg.type = "SERVE"
         /\ served[Subject(n)] = "COMPLETE_LOCAL_TASK"
         /\ Other(n) \in Node /\ Other(Other(n)) = n /\ Other(n) # n
         /\ PutIn(net, net', Other(n), Msg("COMPLETE_LOCAL_TASK", Subject(n)))
<1>1. processer[n].at = "process" /\ processer[n].msg.type = "SERVE"
      /\ served[Subject(n)] = "COMPLETE_LOCAL_TASK"
  BY DEF CompleteLocalTask, Handling, Processer
<1>2. Subject(n) \in Task /\ processer[n].msg \in Message
  BY <1>1, HandlingOk
<1>3. prog.distributed /\ Other(n) \in Node /\ Other(Other(n)) = n /\ Other(n) # n
  BY <1>1, Busy
<1>4. Msg("COMPLETE_LOCAL_TASK", Subject(n)) \in NetMessage
  BY <1>2 DEF Msg, NetMessage
<1>5. net' \in [Node -> Seq(NetMessage)]
      /\ PutIn(net, net', Other(n), Msg("COMPLETE_LOCAL_TASK", Subject(n)))
  BY <1>3, <1>4, SendOk DEF CompleteLocalTask
<1>6. Hand(n, "ack", processer[n].msg)
  BY HandOk DEF CompleteLocalTask, HandPlace
<1>7. UNCHANGED <<taskVars, messages, served, acks>>
  BY DEF CompleteLocalTask
<1>8. Inv1'
  BY <1>2, <1>3, <1>5, <1>6, <1>7, RemoteTyped DEF taskVars, Inv1, Typed, HandPlace, Subject
<1> QED BY <1>1, <1>2, <1>3, <1>5, <1>6, <1>8

LEMMA CompleteRemoteTaskStep ==
  ASSUME Inv1, NEW n \in Node, CompleteRemoteTask(n)
  PROVE  /\ Inv1' /\ Subject(n) \in Task /\ Hand(n, "idle", None)
         /\ processer[n].at = "process" /\ processer[n].msg.type = "COMPLETE_REMOTE_TASK"
         /\ Changed(n, Subject(n), "WAITING")
         /\ \A m \in Node, u \in Task : task'[m][u].childCount = task[m][u].childCount
<1>1. processer[n].at = "process" /\ processer[n].msg.type = "COMPLETE_REMOTE_TASK"
  BY DEF CompleteRemoteTask, Handling, Processer
<1>2. Subject(n) \in Task
  BY <1>1, HandlingOk
<1>3. prog.distributed
  BY <1>1, Busy
<1>4. task' = [task EXCEPT ![n][Subject(n)].status = "WAITING"]
  BY DEF CompleteRemoteTask
<1>5. /\ Changed(n, Subject(n), "WAITING")
      /\ \A m \in Node, u \in Task : task'[m][u].childCount = task[m][u].childCount
  BY <1>2, <1>4, StatusSet
<1>6. Hand(n, "idle", None)
  BY HandOk DEF CompleteRemoteTask
<1>7. UNCHANGED <<prog, action, taskList, queue, group, stack, current,
                  awaited, messages, served, net, acks>>
  BY DEF CompleteRemoteTask
<1>8. filled' \subseteq Node \X Task
  BY <1>2 DEF CompleteRemoteTask, Inv1, Typed
<1>9. Inv1'
  BY <1>3, <1>5, <1>6, <1>7, <1>8, RemoteTyped DEF Changed, Inv1, Typed, HandPlace
<1> QED BY <1>1, <1>2, <1>5, <1>6, <1>9

LEMMA DecodeOk ==
  ASSUME NEW m \in NetMessage
  PROVE  /\ Decode(m) \in Message /\ Decode(m).on = m.on
         /\ m.type = "START_REMOTE_TASK" => Decode(m).type = "SERVE" /\ m.on \in Task
         /\ m.type = "COMPLETE_LOCAL_TASK" => Decode(m).type = "COMPLETE_REMOTE_TASK" /\ m.on \in Task
         /\ m.type = "CREATE_ACTION" =>
              Decode(m) = Msg("ADD_REMOTE_ACTION", m.on) /\ m = Msg("CREATE_ACTION", m.on)
                /\ m.on \in Job
         /\ m.type \in {"START_REMOTE_TASK", "COMPLETE_LOCAL_TASK", "CREATE_ACTION"}
<1>1. CASE m \in [type : {"CREATE_ACTION"}, on : Job]
  BY <1>1 DEF Decode, Msg, Message
<1>2. CASE m \in [type : {"START_REMOTE_TASK", "COMPLETE_LOCAL_TASK"}, on : Task]
  BY <1>2 DEF Decode, Msg, Message
<1> QED BY <1>1, <1>2 DEF NetMessage

LEMMA ListenerStepStep ==
  ASSUME Inv1, NEW n \in Node, ListenerStep(n)
  PROVE  /\ Inv1' /\ net[n][1] \in NetMessage /\ GotIn(net, net', n)
         /\ PutIn(messages, messages', n, Decode(net[n][1]))
         /\ Other(n) \in Node /\ Other(Other(n)) = n /\ Other(n) # n
<1>1. net[n] # <<>> /\ net' = [net EXCEPT ![n] = Tail(net[n])]
  BY DEF ListenerStep
<1>2. prog.distributed /\ Other(n) \in Node /\ Other(Other(n)) = n /\ Other(n) # n
  BY <1>1, Busy
<1>3. net \in [Node -> Seq(NetMessage)]
  BY DEF Inv1, Typed
<1>4. net' \in [Node -> Seq(NetMessage)] /\ GotIn(net, net', n)
      /\ Head(net[n]) \in NetMessage /\ net[n][1] = Head(net[n])
  BY <1>1, <1>3, GotInOk DEF GotIn
<1>5. Decode(net[n][1]) \in Message
  BY <1>4, DecodeOk
<1>6. messages' \in [Node -> Seq(Message)] /\ PutIn(messages, messages', n, Decode(net[n][1]))
  BY <1>4, <1>5, InsertOk DEF ListenerStep
<1>7. acks' \in [Node -> Nat]
  <2>1. acks \in [Node -> Nat]
    BY DEF Inv1, Typed
  <2>2. acks[Other(n)] \in Nat /\ acks[Other(n)] + 1 \in Nat
    BY <1>2, <2>1
  <2>3. \E v \in {acks[Other(n)], acks[Other(n)] + 1} : acks' = [acks EXCEPT ![Other(n)] = v]
    BY DEF ListenerStep
  <2> QED BY <2>1, <2>2, <2>3
<1>8. UNCHANGED <<taskVars, served, processer>>
  BY DEF ListenerStep
<1>9. Inv1'
  BY <1>2, <1>4, <1>6, <1>7, <1>8, RemoteTyped DEF taskVars, Inv1, Typed, HandPlace
<1> QED BY <1>2, <1>4, <1>6, <1>9

-----------------------------------------------------------------------------
(* What a step does to the frames.                                         *)

LEMMA ListTyped ==
  ASSUME Inv1
  PROVE  \A m \in Node : \A i \in DOMAIN taskList[m] : taskList[m][i] \in Task
<1>1. taskList \in [Node -> Seq(Task)]
  BY DEF Inv1, Typed
<1> QED BY <1>1

\* The frame on top is replaced by g.
LEMMA FramesReplaced ==
  ASSUME Inv1, NEW th \in Thread, stack[th] # <<>>, NEW g, Replaced(th, g)
  PROVE  /\ Len(stack[th]) \in DOMAIN stack[th] /\ stack[th][Len(stack[th])] = Top(th)
         /\ stack'[th][Len(stack[th])] = g
         /\ \A uh \in Thread : DOMAIN stack'[uh] = DOMAIN stack[uh]
         /\ \A uh \in Thread : \A i \in DOMAIN stack[uh] :
              uh # th \/ i # Len(stack[th]) => stack'[uh][i] = stack[uh][i]
<1>1. /\ Len(stack[th]) \in Nat \ {0} /\ DOMAIN stack[th] = 1..Len(stack[th])
      /\ Top(th) = stack[th][Len(stack[th])]
  BY TopOk
<1>2. stack'[th] \in Seq(FrameType) /\ Len(stack'[th]) = Len(stack[th])
  BY DEF Replaced
<1>3. DOMAIN stack'[th] = 1..Len(stack[th])
  BY <1>2
<1>4. \A i \in DOMAIN stack[th] : i # Len(stack[th]) => i \in 1..(Len(stack[th]) - 1)
  BY <1>1
<1>5. stack'[th][Len(stack[th])] = g
  BY DEF Replaced
<1>6. \A uh \in Thread : DOMAIN stack'[uh] = DOMAIN stack[uh]
  BY <1>1, <1>3 DEF Replaced
<1>7. \A uh \in Thread : \A i \in DOMAIN stack[uh] :
        uh # th \/ i # Len(stack[th]) => stack'[uh][i] = stack[uh][i]
  BY <1>4 DEF Replaced
<1> QED BY <1>1, <1>5, <1>6, <1>7

\* The frame on top is removed.
LEMMA FramesRemoved ==
  ASSUME Inv1, NEW th \in Thread, stack[th] # <<>>, Removed(th)
  PROVE  /\ Len(stack[th]) \in DOMAIN stack[th] /\ stack[th][Len(stack[th])] = Top(th)
         /\ \A uh \in Thread : \A i \in DOMAIN stack'[uh] :
              /\ i \in DOMAIN stack[uh] /\ stack'[uh][i] = stack[uh][i]
              /\ uh # th \/ i # Len(stack[th])
         /\ \A uh \in Thread : \A i \in DOMAIN stack[uh] :
              uh # th \/ i # Len(stack[th]) => i \in DOMAIN stack'[uh]
<1>1. /\ Len(stack[th]) \in Nat \ {0} /\ DOMAIN stack[th] = 1..Len(stack[th])
      /\ Top(th) = stack[th][Len(stack[th])]
  BY TopOk
<1>2. stack'[th] \in Seq(FrameType) /\ Len(stack'[th]) = Len(stack[th]) - 1
  BY DEF Removed
<1>3. DOMAIN stack'[th] = 1..(Len(stack[th]) - 1)
  BY <1>2
<1>4. \A i \in DOMAIN stack[th] : i # Len(stack[th]) <=> i \in 1..(Len(stack[th]) - 1)
  BY <1>1
<1>5. \A i \in 1..(Len(stack[th]) - 1) : i \in DOMAIN stack[th] /\ i # Len(stack[th])
  BY <1>1
<1>6. \A i \in DOMAIN stack'[th] : i \in 1..(Len(stack[th]) - 1) /\ stack'[th][i] = stack[th][i]
  BY <1>3 DEF Removed
<1>7. \A uh \in Thread : uh # th => stack'[uh] = stack[uh]
  BY DEF Removed
<1>8. \A uh \in Thread : \A i \in DOMAIN stack'[uh] :
        i \in DOMAIN stack[uh] /\ stack'[uh][i] = stack[uh][i] /\ (uh # th \/ i # Len(stack[th]))
  BY <1>1, <1>4, <1>5, <1>6, <1>7
<1>9. \A uh \in Thread : \A i \in DOMAIN stack[uh] :
        uh # th \/ i # Len(stack[th]) => i \in DOMAIN stack'[uh]
  BY <1>3, <1>4, <1>7
<1>10. Len(stack[th]) \in DOMAIN stack[th]
  BY <1>1
<1> QED BY <1>1, <1>8, <1>9, <1>10

\* A frame is added; the one that was on top is in a script.
LEMMA FramesAdded ==
  ASSUME Inv1, NEW th \in Thread, NEW g, Added(th, g),
         stack[th] # <<>> => Top(th).at = "pop"
  PROVE  /\ Len(stack[th]) + 1 \notin DOMAIN stack[th]
         /\ stack'[th][Len(stack[th]) + 1] = g
         /\ DOMAIN stack'[th] = DOMAIN stack[th] \union {Len(stack[th]) + 1}
         /\ \A uh \in Thread : uh # th => stack'[uh] = stack[uh]
         /\ \A i \in DOMAIN stack[th] :
              \/ stack'[th][i] = stack[th][i]
              \/ /\ stack[th][i].at = "pop" /\ stack'[th][i].at = "body"
                 /\ stack'[th][i].task = stack[th][i].task /\ stack'[th][i].ip = stack[th][i].ip
<1>1. stack[th] \in Seq(FrameType) /\ stack'[th] \in Seq(FrameType)
      /\ Len(stack'[th]) = Len(stack[th]) + 1
  BY DEF Added, Inv1, Typed
<1>2. Len(stack[th]) \in Nat /\ DOMAIN stack[th] = 1..Len(stack[th])
      /\ DOMAIN stack'[th] = 1..(Len(stack[th]) + 1)
  BY <1>1
<1>3. \A i \in DOMAIN stack[th] : i \in 1..(Len(stack[th]) - 1) \/ i = Len(stack[th])
  BY <1>2
<1>4. ASSUME NEW i \in DOMAIN stack[th], i = Len(stack[th])
      PROVE  /\ stack[th][i].at = "pop" /\ stack'[th][i].at = "body"
             /\ stack'[th][i].task = stack[th][i].task /\ stack'[th][i].ip = stack[th][i].ip
  <2>1. stack[th] # <<>>
    BY <1>1, <1>2, <1>4
  <2>2. Top(th) = stack[th][i] /\ Top(th) \in FrameType
    BY <1>4, <2>1, TopOk
  <2>3. stack'[th][i] = [Top(th) EXCEPT !.at = "body"]
    BY <1>4, <2>1 DEF Added
  <2> QED BY <2>1, <2>2, <2>3 DEF FrameType
<1>5. /\ Len(stack[th]) + 1 \notin DOMAIN stack[th]
      /\ DOMAIN stack'[th] = DOMAIN stack[th] \union {Len(stack[th]) + 1}
  BY <1>2
<1> QED BY <1>3, <1>4, <1>5 DEF Added

\* The script and the operation of a frame do not change.
LEMMA OpSame ==
  ASSUME prog' = prog, NEW th, NEW f
  PROVE  ScriptOf(th, f)' = ScriptOf(th, f) /\ OpOf(th, f)' = OpOf(th, f)
BY DEF ScriptOf, OpOf

\* No thread takes or gives up a task.
SameTasks ==
  \A uh \in Thread :
    /\ DOMAIN stack'[uh] = DOMAIN stack[uh]
    /\ \A i \in DOMAIN stack[uh] : stack'[uh][i].task = stack[uh][i].task

\* No thread begins or ends the start of a task.
SameBegins ==
  \A uh \in Thread : \A i \in DOMAIN stack[uh] : \A n \in Node : \A t \in Task :
    Begins(uh, i, n, t)' <=> Begins(uh, i, n, t)

LEMMA SameHands ==
  ASSUME SameTasks
  PROVE  /\ \A uh \in Thread : \A i \in DOMAIN stack[uh] : \A n \in Node : \A t \in Task :
              In(uh, i, n, t)' <=> In(uh, i, n, t)
         /\ \A n \in Node, t \in Task : Held(n, t)' <=> Held(n, t)
         /\ SameBegins => \A n \in Node, t \in Task : Begun(n, t)' <=> Begun(n, t)
<1>1. \A uh \in Thread : \A i \in DOMAIN stack[uh] : \A n \in Node : \A t \in Task :
        In(uh, i, n, t)' <=> In(uh, i, n, t)
  BY DEF SameTasks, In
<1>2. \A n \in Node, t \in Task : Held(n, t)' <=> Held(n, t)
  BY <1>1 DEF Held, SameTasks
<1>3. SameBegins => \A n \in Node, t \in Task : Begun(n, t)' <=> Begun(n, t)
  BY DEF Begun, SameTasks, SameBegins
<1> QED BY <1>1, <1>2, <1>3

LEMMA ReplacedTasks ==
  ASSUME Inv1, NEW th \in Thread, stack[th] # <<>>, NEW g, Replaced(th, g), g.task = Top(th).task
  PROVE  SameTasks
BY FramesReplaced DEF SameTasks

LEMMA ReplacedBegins ==
  ASSUME Inv1, NEW th \in Thread, stack[th] # <<>>, NEW g, Replaced(th, g), g.task = Top(th).task,
         prog' = prog, g.at \in BeginPlace <=> Top(th).at \in BeginPlace,
         g.at \in BeginPlace => g.ip = Top(th).ip
  PROVE  SameBegins
<1> SUFFICES ASSUME NEW uh \in Thread, NEW i \in DOMAIN stack[uh], NEW n \in Node, NEW t \in Task
             PROVE  Begins(uh, i, n, t)' <=> Begins(uh, i, n, t)
  BY DEF SameBegins
<1>1. i \in DOMAIN stack'[uh]
  BY FramesReplaced
<1>2. CASE uh # th \/ i # Len(stack[th])
  <2>1. stack'[uh][i] = stack[uh][i]
    BY <1>2, FramesReplaced
  <2>2. OpOf(uh, stack[uh][i])' = OpOf(uh, stack[uh][i])
    BY <2>1 DEF OpOf, ScriptOf
  <2> QED BY <1>1, <2>1, <2>2 DEF Begins
<1>3. CASE uh = th /\ i = Len(stack[th])
  <2>1. stack[uh][i] = Top(th) /\ stack'[uh][i] = g
    BY <1>3, FramesReplaced
  <2>2. g.at \in BeginPlace => (OpOf(uh, stack[uh][i]).on)' = OpOf(uh, stack[uh][i]).on
    BY <2>1 DEF OpOf, ScriptOf
  <2> QED BY <1>1, <2>1, <2>2 DEF Begins
<1> QED BY <1>2, <1>3

-----------------------------------------------------------------------------
(* A thread goes on in its script.                                         *)

LEMMA SentSame ==
  ASSUME SameTasks, UNCHANGED <<prog, task>>,
         \A uh \in Thread : \A i \in DOMAIN stack[uh] :
           stack'[uh][i].at = "schedule" <=> stack[uh][i].at = "schedule"
  PROVE  \A n \in Node, t \in Task : Sent(n, t)' <=> Sent(n, t)
BY SameHands DEF Sent, SameTasks

LEMMA WalkFrames ==
  ASSUME Inv1, NEW th \in Thread, NEW g, Walk(th, g)
  PROVE  /\ SameTasks /\ SameBegins
         /\ \A n \in Node, t \in Task : Sent(n, t)' <=> Sent(n, t)
         /\ \A uh \in Thread : \A i \in DOMAIN stack[uh] :
              \/ stack'[uh][i] = stack[uh][i]
              \/ /\ uh = th /\ i = Len(stack[th]) /\ stack[uh][i] = Top(th) /\ stack'[uh][i] = g
                 /\ stack[uh][i].at \in RunPlace /\ stack'[uh][i].at \in RunPlace
                 /\ stack'[uh][i].task = stack[uh][i].task
<1>1. /\ stack[th] # <<>> /\ Replaced(th, g) /\ g.task = Top(th).task /\ prog' = prog
      /\ g.at \in BeginPlace <=> Top(th).at \in BeginPlace
      /\ g.at \in BeginPlace => g.ip = Top(th).ip
      /\ Top(th).at \in RunPlace /\ g.at \in RunPlace /\ task' = task
  BY DEF Walk
<1>2. SameTasks /\ SameBegins
  BY <1>1, ReplacedTasks, ReplacedBegins
<1>3. \A uh \in Thread : \A i \in DOMAIN stack[uh] :
        \/ stack'[uh][i] = stack[uh][i]
        \/ /\ uh = th /\ i = Len(stack[th]) /\ stack[uh][i] = Top(th) /\ stack'[uh][i] = g
           /\ stack[uh][i].at \in RunPlace /\ stack'[uh][i].at \in RunPlace
           /\ stack'[uh][i].task = stack[uh][i].task
  BY <1>1, FramesReplaced
<1>4. \A uh \in Thread : \A i \in DOMAIN stack[uh] :
        stack'[uh][i].at = "schedule" <=> stack[uh][i].at = "schedule"
  BY <1>3 DEF RunPlace
<1> QED BY <1>1, <1>2, <1>3, <1>4, SentSame

LEMMA WalkPlaces ==
  ASSUME Inv1, Inv2, NEW th \in Thread, NEW g, Walk(th, g)
  PROVE  ListInv' /\ HeldInv' /\ BeginInv' /\ ReceiveInv' /\ SomewhereInv' /\ StagesInv'
<1>1. SameTasks /\ SameBegins
  BY WalkFrames
<1>2. UNCHANGED <<prog, task, taskList, processer>>
  BY DEF Walk
<1>3. \A n \in Node, t \in Task :
        /\ Held(n, t)' <=> Held(n, t)
        /\ Begun(n, t)' <=> Begun(n, t)
        /\ Listed(n, t)' <=> Listed(n, t)
        /\ Receiving(n, t)' <=> Receiving(n, t)
  BY <1>1, <1>2, SameHands DEF Listed, Receiving
<1>4. taskList \in [Node -> Seq(Task)]
  BY DEF Inv1, Typed
<1>5. ListInv'
  <2>1. \A n \in Node : \A i \in DOMAIN taskList[n] : taskList[n][i] \in Task
    BY <1>4
  <2> QED BY <1>2, <1>3, <2>1 DEF ListInv, Inv2
<1>6. HeldInv'
  <2> SUFFICES ASSUME NEW uh \in Thread, NEW i \in DOMAIN stack'[uh], stack'[uh][i].task # None
               PROVE  /\ StatusAt(stack'[uh][i].at, task'[uh[1]][stack'[uh][i].task].status,
                                  task'[uh[1]][stack'[uh][i].task].type)
                      /\ \A vh \in Thread : \A k \in DOMAIN stack'[vh] :
                           In(vh, k, uh[1], stack[uh][i].task)' => vh = uh /\ k = i
    BY DEF HeldInv
  <2>1. i \in DOMAIN stack[uh] /\ stack'[uh][i].task = stack[uh][i].task
    BY <1>1 DEF SameTasks
  <2>2. StatusAt(stack[uh][i].at, task[uh[1]][stack[uh][i].task].status,
                 task[uh[1]][stack[uh][i].task].type)
    BY <2>1 DEF HeldInv, Inv2
  <2>3. stack'[uh][i].at = stack[uh][i].at
        \/ (stack'[uh][i].at \in RunPlace /\ stack[uh][i].at \in RunPlace)
    BY <2>1, WalkFrames
  <2>4. StatusAt(stack'[uh][i].at, task[uh[1]][stack[uh][i].task].status,
                 task[uh[1]][stack[uh][i].task].type)
    BY <2>2, <2>3 DEF StatusAt, RunPlace
  <2>5. \A vh \in Thread : \A k \in DOMAIN stack[vh] :
          stack[vh][k].task = stack[uh][i].task /\ vh[1] = uh[1] => vh = uh /\ k = i
    BY <2>1 DEF HeldInv, Inv2, In
  <2>6. \A vh \in Thread : \A k \in DOMAIN stack'[vh] :
          In(vh, k, uh[1], stack[uh][i].task)' => vh = uh /\ k = i
    BY <1>1, <2>1, <2>5 DEF In, SameTasks
  <2> QED BY <1>2, <2>1, <2>4, <2>6
<1>7. BeginInv'
  <2> SUFFICES ASSUME NEW uh \in Thread, NEW i \in DOMAIN stack'[uh], NEW t \in Task,
                      Begins(uh, i, uh[1], t)'
               PROVE  /\ task'[uh[1]][t].status = "CREATED"
                      /\ task'[uh[1]][t].queue = prog'.queue[t]
                      /\ task'[uh[1]][t].group = prog'.group[t]
                      /\ ~task'[uh[1]][t].message
                      /\ ~Listed(uh[1], t)' /\ ~Held(uh[1], t)'
    BY DEF BeginInv
  <2>1. i \in DOMAIN stack[uh] /\ uh[1] \in Node
    BY <1>1, ThreadOk DEF SameTasks
  <2>2. Begins(uh, i, uh[1], t)
    BY <1>1, <2>1 DEF SameBegins
  <2> QED BY <1>2, <1>3, <2>1, <2>2 DEF BeginInv, Inv2
<1>8. ReceiveInv'
  BY <1>2, <1>3 DEF ReceiveInv, Inv2
<1>9. SomewhereInv'
  BY <1>2, <1>3 DEF SomewhereInv, Inv2
<1>10. StagesInv'
  <2> SUFFICES ASSUME NEW uh \in Thread, NEW i \in DOMAIN stack'[uh],
                      stack'[uh][i].at = "complete"
               PROVE  StagesFit(stack'[uh][i].stages, task'[uh[1]][stack'[uh][i].task])
    BY DEF StagesInv
  <2>1. i \in DOMAIN stack[uh] /\ stack'[uh][i] = stack[uh][i]
    BY <1>1, WalkFrames DEF SameTasks, RunPlace
  <2> QED BY <1>2, <2>1 DEF StagesInv, Inv2
<1> QED BY <1>5, <1>6, <1>7, <1>8, <1>9, <1>10

LEMMA WalkRecords ==
  ASSUME Inv1, Inv2, NEW th \in Thread, NEW g, Walk(th, g)
  PROVE  ServedInv' /\ UnsentInv' /\ FreshInv'
<1>1. SameTasks /\ \A n \in Node, t \in Task : Sent(n, t)' <=> Sent(n, t)
  BY WalkFrames
<1>2. UNCHANGED <<prog, task, served>>
  BY DEF Walk
<1>3. ServedInv'
  BY <1>2 DEF ServedInv, Inv2
<1>4. UnsentInv'
  BY <1>1, <1>2 DEF UnsentInv, Inv2
<1>5. \A t : Fresh(t)' <=> Fresh(t)
  BY <1>2 DEF Fresh
<1>6. \A u, t \in Task : ~Ran(u)' =>
        \A p \in DOMAIN prog.body[u] : StartsAt(prog.body[u], p, t) => Fresh(t)'
  BY <1>2, <1>5 DEF Ran, FreshInv, Inv2
<1>7. ASSUME NEW uh \in Thread, NEW i \in DOMAIN stack'[uh], NEW t \in Task,
             stack'[uh][i].at \in RunPlace,
             NEW p \in DOMAIN ScriptOf(uh, stack'[uh][i]),
             Ahead(stack'[uh][i], p), StartsAt(ScriptOf(uh, stack'[uh][i]), p, t)
      PROVE  Fresh(t)
  <2>1. i \in DOMAIN stack[uh]
    BY <1>1 DEF SameTasks
  <2>2. CASE stack'[uh][i] = stack[uh][i]
    BY <1>7, <2>1, <2>2 DEF FreshInv, Inv2
  <2>3. CASE uh = th /\ i = Len(stack[th]) /\ stack[uh][i] = Top(th) /\ stack'[uh][i] = g
    <3>1. /\ Top(th).at \in RunPlace /\ g.task = Top(th).task /\ Top(th).ip <= g.ip
          /\ Top(th).at \in BeginPlace => g.at \in BeginPlace /\ g.ip = Top(th).ip
      BY DEF Walk
    <3>2. ScriptOf(uh, g) = ScriptOf(uh, Top(th))
      BY <3>1 DEF ScriptOf
    <3>3. Top(th).ip \in Nat /\ g.ip \in Nat /\ p \in Nat
      <4>1. stack[th] # <<>> /\ stack'[uh][i] \in FrameType /\ Top(th) \in FrameType
        BY <2>3, TopOk DEF Walk, Replaced
      <4>2. ScriptOf(uh, g) \in Seq(Op)
        BY <2>3, <4>1, ScriptTyped DEF FrameType, Inv1, Typed
      <4> QED BY <1>7, <2>3, <4>1, <4>2 DEF FrameType
    <3>4. Ahead(Top(th), p)
      <4>1. g.ip < p \/ (g.ip = p /\ g.at \notin BeginPlace)
        BY <1>7, <2>3 DEF Ahead
      <4>2. Top(th).ip < p \/ (Top(th).ip = p /\ Top(th).at \notin BeginPlace)
        BY <3>1, <3>3, <4>1
      <4> QED BY <4>2 DEF Ahead
    <3> QED BY <1>7, <2>1, <2>3, <3>1, <3>2, <3>4 DEF FreshInv, Inv2
  <2> QED BY <2>1, <2>2, <2>3, WalkFrames
<1>8. \A uh \in Thread : \A i \in DOMAIN stack'[uh] : \A t \in Task :
        stack'[uh][i].at \in RunPlace =>
          \A p \in DOMAIN ScriptOf(uh, stack[uh][i])' :
            Ahead(stack[uh][i], p)' /\ StartsAt(ScriptOf(uh, stack[uh][i]), p, t)' => Fresh(t)'
  <2> SUFFICES ASSUME NEW uh \in Thread, NEW i \in DOMAIN stack'[uh], NEW t \in Task,
                      stack'[uh][i].at \in RunPlace,
                      NEW p \in DOMAIN ScriptOf(uh, stack[uh][i])',
                      Ahead(stack[uh][i], p)', StartsAt(ScriptOf(uh, stack[uh][i]), p, t)'
               PROVE  Fresh(t)'
    OBVIOUS
  <2>1. ScriptOf(uh, stack[uh][i])' = ScriptOf(uh, stack'[uh][i])
    BY <1>2 DEF ScriptOf
  <2>2. Ahead(stack'[uh][i], p) /\ StartsAt(ScriptOf(uh, stack'[uh][i]), p, t)
    BY <2>1 DEF Ahead, StartsAt
  <2> QED BY <1>5, <1>7, <2>1, <2>2
<1>9. FreshInv'
  BY <1>2, <1>6, <1>8 DEF FreshInv
<1> QED BY <1>3, <1>4, <1>9

\* What is said about messages does not depend on more than this.
LEMMA AboutSame ==
  ASSUME \A n \in Node, t \in Task : Sent(n, t)' <=> Sent(n, t),
         UNCHANGED <<task, served>>, NEW n \in Node, NEW m,
         m.type \in TaskTypes => m.on \in Task, Other(n) \in Node
  PROVE  About(n, m)' <=> About(n, m)
BY DEF About, TaskTypes

LEMMA MessageTyped ==
  ASSUME Inv1, NEW n \in Node
  PROVE  /\ \A i \in DOMAIN messages[n] : messages[n][i] \in Message
              /\ (messages[n][i].type \in TaskTypes => messages[n][i].on \in Task)
         /\ \A i \in DOMAIN net[n] : net[n][i] \in NetMessage
              /\ (net[n][i].type \in TaskTypes => net[n][i].on \in Task)
         /\ processer[n].at # "idle" => processer[n].msg \in Message
              /\ (processer[n].msg.type \in TaskTypes => processer[n].msg.on \in Task)
         /\ processer[n].at \in {"list", "await", "again"} =>
              processer[n].msg.type = "SERVE" /\ processer[n].msg.on \in Task
<1>1. \A m \in Message : m.type \in TaskTypes => m.on \in Task
  BY DEF Message, TaskTypes
<1>2. \A m \in NetMessage : m.type \in TaskTypes => m.on \in Task
  BY DEF NetMessage, TaskTypes
<1>3. \A i \in DOMAIN messages[n] : messages[n][i] \in Message
  BY DEF Inv1, Typed
<1>4. \A i \in DOMAIN net[n] : net[n][i] \in NetMessage
  BY DEF Inv1, Typed
<1>5. processer[n].at # "idle" => processer[n].msg \in Message
  BY DEF Inv1, Shape, ProcesserOk
<1>6. processer[n].at \in {"list", "await", "again"} => processer[n].msg.type = "SERVE"
  BY DEF Inv1, Shape, ProcesserOk
<1> QED BY <1>1, <1>2, <1>3, <1>4, <1>5, <1>6 DEF TaskTypes

\* A new message is about an action, a new action is local.
NewAction ==
  /\ \A n \in Node, j \in Job :
       action'[n][j] = action[n][j] \/ (action[n][j] = None /\ action'[n][j] = "LOCAL")
  /\ \A n \in Node : \A i \in DOMAIN messages'[n] :
       \/ i \in DOMAIN messages[n] /\ messages'[n][i] = messages[n][i]
       \/ \E j \in Job : messages'[n][i] = Msg("CREATE_ACTION", j) /\ action[n][j] # None

LEMMA WalkRecordInv ==
  ASSUME Inv1, Inv2, NEW th \in Thread, NEW g, Walk(th, g), NewAction
  PROVE  RecordInv'
<1>1. UNCHANGED <<prog, task>>
  BY DEF Walk
<1>2. \A t \in Task : prog.job[t] \in Job
  BY ProgTyped DEF Inv1, Typed
<1>3. \A n \in Node, t \in Task : task[n][t].status # "NONE" =>
        action'[n][prog.job[t]] = action[n][prog.job[t]]
  BY <1>2 DEF NewAction, RecordInv, Inv2
<1> QED BY <1>1, <1>3 DEF RecordInv, Inv2

LEMMA WalkActionInv ==
  ASSUME Inv1, Inv1', Inv2, NEW th \in Thread, NEW g, Walk(th, g), NewAction,
         g.at = "announce" => action'[th[1]][OpOf(th, g).on] # None
  PROVE  ActionInv'
<1> SUFFICES ASSUME NEW n \in Node, NEW j \in Job
    PROVE
    /\ action'[n][j] = "REMOTE" => prog'.distributed /\ action'[Other(n)][j] = "LOCAL"
    /\ \A i \in DOMAIN messages'[n] :
         messages'[n][i] = Msg("CREATE_ACTION", j) => action'[n][j] # None
    /\ \A i \in DOMAIN messages'[n] :
         messages'[n][i] = Msg("ADD_REMOTE_ACTION", j) => action'[Other(n)][j] # None
    /\ \A i \in DOMAIN net'[n] :
         net'[n][i] = Msg("CREATE_ACTION", j) => action'[Other(n)][j] # None
    /\ processer'[n].at = "process" /\ processer'[n].msg = Msg("CREATE_ACTION", j) =>
         action'[n][j] # None
    /\ processer'[n].at = "process" /\ processer'[n].msg = Msg("ADD_REMOTE_ACTION", j) =>
         action'[Other(n)][j] # None
    /\ \A uh \in Thread : \A i \in DOMAIN stack'[uh] :
         uh[1] = n /\ stack'[uh][i].at = "announce" /\ OpOf(uh, stack[uh][i])'.on = j =>
           action'[n][j] # None
  BY DEF ActionInv
<1>1. UNCHANGED <<prog, net, processer>>
  BY DEF Walk
<1>2. \A m \in Node : /\ action[m][j] # None => action'[m][j] = action[m][j]
                      /\ action'[m][j] = "REMOTE" => action[m][j] = "REMOTE"
  BY DEF NewAction
<1>3. prog.distributed => Other(n) \in Node
  BY OtherOk DEF Inv1, Typed
<1>4. ActionInv
  BY DEF Inv2
<1>5. action'[n][j] = "REMOTE" => prog'.distributed /\ action'[Other(n)][j] = "LOCAL"
  BY <1>1, <1>2, <1>3, <1>4, MtapiAssumption DEF ActionInv
<1>6. ASSUME NEW i \in DOMAIN messages'[n]
      PROVE  /\ messages'[n][i] = Msg("CREATE_ACTION", j) => action'[n][j] # None
             /\ messages'[n][i] = Msg("ADD_REMOTE_ACTION", j) => action'[Other(n)][j] # None
  <2>1. messages'[n] # <<>>
    BY DEF Inv1, Typed
  <2>2. Other(n) \in Node
    <3>1. prog'.distributed
      BY <2>1 DEF Inv1, Shape, Silent
    <3> QED BY <1>1, <1>3, <3>1
  <2>3. CASE i \in DOMAIN messages[n] /\ messages'[n][i] = messages[n][i]
    BY <1>2, <1>4, <2>2, <2>3 DEF ActionInv
  <2>4. CASE \E k \in Job : messages'[n][i] = Msg("CREATE_ACTION", k) /\ action[n][k] # None
    BY <1>2, <2>4 DEF Msg
  <2> QED BY <2>3, <2>4 DEF NewAction
<1>7. ASSUME NEW i \in DOMAIN net'[n]
      PROVE  net'[n][i] = Msg("CREATE_ACTION", j) => action'[Other(n)][j] # None
  <2>1. net[n] # <<>>
    BY <1>1 DEF Inv1, Typed
  <2>2. Other(n) \in Node
    BY <1>3, <2>1 DEF Inv1, Shape, Silent
  <2> QED BY <1>1, <1>2, <1>4, <2>2 DEF ActionInv
<1>8. /\ processer'[n].at = "process" /\ processer'[n].msg = Msg("CREATE_ACTION", j) =>
           action'[n][j] # None
      /\ processer'[n].at = "process" /\ processer'[n].msg = Msg("ADD_REMOTE_ACTION", j) =>
           action'[Other(n)][j] # None
  <2>1. processer[n].at = "process" => Other(n) \in Node
    BY <1>3 DEF Inv1, Shape, Silent
  <2> QED BY <1>1, <1>2, <1>4, <2>1 DEF ActionInv
<1>9. ASSUME NEW uh \in Thread, NEW i \in DOMAIN stack'[uh], uh[1] = n,
             stack'[uh][i].at = "announce", OpOf(uh, stack[uh][i])'.on = j
      PROVE  action'[n][j] # None
  <2>1. i \in DOMAIN stack[uh]
    BY WalkFrames DEF SameTasks
  <2>2. OpOf(uh, stack[uh][i])' = OpOf(uh, stack'[uh][i])
    BY <1>1 DEF OpOf, ScriptOf
  <2>3. CASE stack'[uh][i] = stack[uh][i]
    BY <1>2, <1>4, <1>9, <2>1, <2>2, <2>3 DEF ActionInv
  <2>4. CASE uh = th /\ stack'[uh][i] = g
    BY <1>9, <2>2, <2>4
  <2> QED BY <2>1, <2>3, <2>4, WalkFrames
<1> QED BY <1>5, <1>6, <1>7, <1>8, <1>9

LEMMA WalkTokens ==
  ASSUME Inv1, Inv1', Inv2, NEW th \in Thread, NEW g, Walk(th, g), NewAction
  PROVE  TokenInv' /\ OneTokenInv'
<1>1. UNCHANGED <<prog, task, served, net, processer>>
  BY DEF Walk
<1>2. \A n \in Node, t \in Task : Sent(n, t)' <=> Sent(n, t)
  BY WalkFrames
<1>3. ASSUME NEW n \in Node, NEW i \in DOMAIN messages'[n]
      PROVE  \/ i \in DOMAIN messages[n] /\ messages'[n][i] = messages[n][i]
             \/ messages'[n][i].type = "CREATE_ACTION"
  <2>1. \A j : Msg("CREATE_ACTION", j).type = "CREATE_ACTION"
    BY DEF Msg
  <2> QED BY <2>1 DEF NewAction
<1>4. ASSUME NEW n \in Node, messages'[n] # <<>> \/ net[n] # <<>> \/ processer[n].at # "idle"
      PROVE  Other(n) \in Node
  <2>1. prog.distributed
    BY <1>1, <1>4 DEF Inv1, Shape, Silent
  <2> QED BY <2>1, OtherOk DEF Inv1, Typed
<1>5. TokenInv'
  <2> SUFFICES ASSUME NEW n \in Node
      PROVE
      /\ \A i \in DOMAIN messages'[n] : About(n, messages[n][i])'
      /\ processer'[n].at = "process" => About(n, processer[n].msg)'
      /\ processer'[n].at \in {"list", "await", "again"} =>
           /\ Sent(Other(n), processer[n].msg.on)'
           /\ task'[n][processer'[n].msg.on].status # "NONE"
           /\ processer'[n].at = "again" => served'[processer'[n].msg.on] # "RECEIVE_REMOTE_TASK"
      /\ \A i \in DOMAIN net'[n] :
           /\ net'[n][i].type = "START_REMOTE_TASK" =>
                Sent(Other(n), net[n][i].on)' /\ task'[n][net'[n][i].on].status = "NONE"
                  /\ served'[net'[n][i].on] = "RECEIVE_REMOTE_TASK"
           /\ net'[n][i].type = "COMPLETE_LOCAL_TASK" => Sent(n, net[n][i].on)'
    BY DEF TokenInv
  <2>1. ASSUME NEW i \in DOMAIN messages'[n] PROVE About(n, messages[n][i])'
    <3>1. CASE i \in DOMAIN messages[n] /\ messages'[n][i] = messages[n][i]
      <4>1. messages'[n] # <<>>
        BY DEF Inv1, Typed
      <4>2. Other(n) \in Node
        BY <1>4, <4>1
      <4>3. About(n, messages[n][i])
        BY <3>1 DEF TokenInv, Inv2
      <4>4. messages[n][i].type \in TaskTypes => messages[n][i].on \in Task
        BY <3>1, MessageTyped
      <4> QED BY <1>1, <1>2, <3>1, <4>2, <4>3, <4>4 DEF About, TaskTypes
    <3>2. CASE messages'[n][i].type = "CREATE_ACTION"
      BY <3>2 DEF About
    <3> QED BY <1>3, <3>1, <3>2
  <2>2. ASSUME processer'[n].at = "process" PROVE About(n, processer[n].msg)'
    <3>1. Other(n) \in Node
      BY <1>1, <1>4, <2>2
    <3>2. About(n, processer[n].msg)
      BY <1>1, <2>2 DEF TokenInv, Inv2
    <3>3. processer[n].msg.type \in TaskTypes => processer[n].msg.on \in Task
      BY <1>1, <2>2, MessageTyped
    <3> QED BY <1>1, <1>2, <3>1, <3>2, <3>3 DEF About, TaskTypes
  <2>3. ASSUME processer'[n].at \in {"list", "await", "again"}
        PROVE  /\ Sent(Other(n), processer[n].msg.on)'
               /\ task'[n][processer'[n].msg.on].status # "NONE"
               /\ processer'[n].at = "again" =>
                    served'[processer'[n].msg.on] # "RECEIVE_REMOTE_TASK"
    <3>1. Other(n) \in Node
      BY <1>1, <1>4, <2>3
    <3>2. processer[n].msg.on \in Task
      BY <1>1, <2>3, MessageTyped
    <3>3. /\ Sent(Other(n), processer[n].msg.on) /\ task[n][processer[n].msg.on].status # "NONE"
          /\ processer[n].at = "again" => served[processer[n].msg.on] # "RECEIVE_REMOTE_TASK"
      BY <1>1, <2>3 DEF TokenInv, Inv2
    <3>4. Sent(Other(n), processer[n].msg.on)'
      BY <1>1, <1>2, <3>1, <3>2, <3>3
    <3> QED BY <1>1, <3>3, <3>4
  <2>4. ASSUME NEW i \in DOMAIN net'[n]
        PROVE /\ net'[n][i].type = "START_REMOTE_TASK" =>
                   Sent(Other(n), net[n][i].on)' /\ task'[n][net'[n][i].on].status = "NONE"
                     /\ served'[net'[n][i].on] = "RECEIVE_REMOTE_TASK"
              /\ net'[n][i].type = "COMPLETE_LOCAL_TASK" => Sent(n, net[n][i].on)'
    <3>1. Other(n) \in Node
      <4>1. net[n] # <<>>
        BY <1>1 DEF Inv1, Typed
      <4> QED BY <1>4, <4>1
    <3>2. net[n][i].type \in TaskTypes => net[n][i].on \in Task
      BY <1>1, MessageTyped
    <3>3. /\ net[n][i].type = "START_REMOTE_TASK" =>
               Sent(Other(n), net[n][i].on) /\ task[n][net[n][i].on].status = "NONE"
                 /\ served[net[n][i].on] = "RECEIVE_REMOTE_TASK"
          /\ net[n][i].type = "COMPLETE_LOCAL_TASK" => Sent(n, net[n][i].on)
      BY <1>1 DEF TokenInv, Inv2
    <3> QED BY <1>1, <1>2, <3>1, <3>2, <3>3 DEF TaskTypes
  <2> QED BY <2>1, <2>2, <2>3, <2>4
<1>6. OneTokenInv'
  <2>1. \A m : m.type = "CREATE_ACTION" => \A k : ~Same(m, k) /\ ~Same(k, m)
    BY DEF Same, TaskTypes
  <2> QED BY <1>1, <1>3, <2>1 DEF OneTokenInv, Inv2, Carried
<1> QED BY <1>5, <1>6

LEMMA WalkInv2 ==
  ASSUME Inv1, Inv1', Inv2, NEW th \in Thread, NEW g, Walk(th, g), NewAction,
         g.at = "announce" => action'[th[1]][OpOf(th, g).on] # None
  PROVE  Inv2'
BY WalkPlaces, WalkRecords, WalkRecordInv, WalkActionInv, WalkTokens DEF Inv2

LEMMA PlainWalkInv2 ==
  ASSUME Inv1, Inv1', Inv2, NEW th \in Thread, PlainWalk(th)
  PROVE  Inv2'
<1>1. NewAction
  BY DEF NewAction, PlainWalk
<1>2. PICK g : Walk(th, g) /\ g.at # "announce"
  BY DEF PlainWalk
<1> QED BY <1>1, <1>2, WalkInv2

LEMMA CreateActionInv2 ==
  ASSUME Inv1, Inv2, NEW th \in Thread, CreateAction(th), UNCHANGED remoteVars
  PROVE  Inv1' /\ Inv2'
<1>1. /\ Inv1' /\ messages' = messages /\ On(th) \in Job
      /\ action' = [action EXCEPT ![th[1]][On(th)] =
                      IF action[th[1]][On(th)] = None THEN "LOCAL" ELSE action[th[1]][On(th)]]
  BY CreateActionStep
<1>2. PICK g : Walk(th, g) /\ (g.at = "announce" => OpOf(th, g).on = On(th))
  BY CreateActionStep
<1>3. th[1] \in Node /\ action \in [Node -> [Job -> {None, "LOCAL", "REMOTE"}]]
  BY ThreadOk DEF Inv1, Typed
<1>4. \A n \in Node, j \in Job :
        action'[n][j] = IF n = th[1] /\ j = On(th) /\ action[n][j] = None THEN "LOCAL"
                        ELSE action[n][j]
  BY <1>1, <1>3
<1>5. NewAction
  BY <1>1, <1>4 DEF NewAction
<1>6. action'[th[1]][On(th)] # None
  BY <1>1, <1>3, <1>4, MtapiAssumption
<1> QED BY <1>1, <1>2, <1>5, <1>6, WalkInv2

LEMMA AnnounceInv2 ==
  ASSUME Inv1, Inv2, NEW th \in Thread, Announce(th)
  PROVE  Inv1' /\ Inv2'
<1>1. /\ Inv1' /\ action' = action /\ On(th) \in Job /\ Top(th).at = "announce"
      /\ messages' = [messages EXCEPT ![th[1]] =
                        Append(messages[th[1]], Msg("CREATE_ACTION", On(th)))]
  BY AnnounceStep
<1>2. PICK g : Walk(th, g) /\ g.at # "announce"
  BY AnnounceStep
<1>3. th[1] \in Node /\ Msg("CREATE_ACTION", On(th)) \in Message
  BY <1>1, ThreadOk DEF Message, Msg
<1>4. PutIn(messages, messages', th[1], Msg("CREATE_ACTION", On(th)))
  BY <1>3, InsertOk DEF Announce
<1>5. action[th[1]][On(th)] # None
  <2>1. stack[th] # <<>>
    BY <1>2 DEF Walk
  <2>2. /\ Len(stack[th]) \in DOMAIN stack[th] /\ stack[th][Len(stack[th])] = Top(th)
        /\ On(th) = OpOf(th, Top(th)).on
    BY <2>1, TopOk
  <2> QED BY <1>1, <1>3, <2>2 DEF ActionInv, Inv2
<1>6. NewAction
  BY <1>1, <1>4, <1>5 DEF NewAction, PutIn
<1> QED BY <1>1, <1>2, <1>6, WalkInv2

-----------------------------------------------------------------------------
(* The records of a task.                                                  *)

LEMMA Records ==
  ASSUME Inv1, Inv2, NEW t \in Task
  PROVE  /\ \A n \in Node : task[n][t].type # None <=> task[n][t].status # "NONE"
         /\ \A n \in Node : task[n][t].type = "REMOTE" =>
              prog.distributed /\ ~task[n][t].message /\ task[n][t].status # "NONE"
         /\ \A n \in Node : task[n][t].message =>
              /\ task[n][t].type = "LOCAL" /\ task[n][t].status # "NONE" /\ prog.distributed
              /\ Other(n) \in Node /\ task[Other(n)][t].type = "REMOTE"
         /\ \A m, n \in Node :
              task[m][t].type = "REMOTE" /\ task[n][t].type = "REMOTE" => m = n
         /\ \A m, n \in Node :
              task[m][t].type = "LOCAL" /\ task[n][t].type = "LOCAL" => m = n
<1>1. RecordInv /\ ActionInv /\ prog \in Programs /\ prog.job[t] \in Job
  BY ProgTyped DEF Inv2, Inv1, Typed
<1>2. \A n \in Node : task[n][t].type \in {None, "LOCAL", "REMOTE"}
  BY DEF Inv1, Typed, TaskInfo
<1>3. \A n \in Node : task[n][t].type # None <=> task[n][t].status # "NONE"
  BY <1>1 DEF RecordInv
<1>4. \A n \in Node : task[n][t].type = "REMOTE" =>
        prog.distributed /\ ~task[n][t].message /\ task[n][t].status # "NONE"
  BY <1>1, <1>3, MtapiAssumption DEF RecordInv, ActionInv
<1>5. ASSUME NEW n \in Node, task[n][t].message
      PROVE  /\ task[n][t].type = "LOCAL" /\ task[n][t].status # "NONE" /\ prog.distributed
             /\ Other(n) \in Node /\ task[Other(n)][t].type = "REMOTE"
  <2>1. PICK m \in Node : m # n /\ task[m][t].type = "REMOTE"
    BY <1>1, <1>5 DEF RecordInv
  <2>2. prog.distributed
    BY <1>4, <2>1
  <2>3. m = Other(n) /\ Other(n) \in Node
    BY <1>1, <2>1, <2>2, OtherOk
  <2>4. task[n][t].status # "NONE"
    BY <1>1, <1>5 DEF RecordInv
  <2>5. task[n][t].type = "LOCAL"
    BY <1>2, <1>3, <1>4, <1>5, <2>4
  <2> QED BY <2>1, <2>2, <2>3, <2>4, <2>5
<1>6. \A m, n \in Node : task[m][t].type = "REMOTE" /\ task[n][t].type = "REMOTE" => m = n
  BY <1>1, <1>4 DEF RecordInv
<1>7. ASSUME NEW m \in Node, NEW n \in Node, m # n,
             task[m][t].type = "LOCAL", task[n][t].type = "LOCAL"
      PROVE  FALSE
  <2>0. task[m][t].status # "NONE" /\ task[n][t].status # "NONE"
    BY <1>3, <1>7, MtapiAssumption
  <2>1. PICK k \in {m, n} : task[k][t].message
    BY <1>1, <1>7, <2>0 DEF RecordInv
  <2>2. prog.distributed /\ Other(k) \in Node /\ task[Other(k)][t].type = "REMOTE"
    BY <1>5, <2>1
  <2>3. Node = {k, Other(k)} /\ Other(k) # k
    BY <1>1, <2>2, OtherOk
  <2>4. Other(k) \in {m, n}
    BY <1>7, <2>3
  <2> QED BY <1>7, <2>2, <2>4
<1> QED BY <1>3, <1>4, <1>5, <1>6, <1>7

\* A message about a task.
Tells(m, t) == m.type \in TaskTypes /\ m.on = t

NoToken(t) ==
  \A n \in Node :
    /\ \A i \in DOMAIN messages[n] : ~Tells(messages[n][i], t)
    /\ \A i \in DOMAIN net[n] : ~Tells(net[n][i], t)
    /\ Carried(n) => ~Tells(processer[n].msg, t)

\* Who has a message about a task knows a node that has sent it.
LEMMA TokenSent ==
  ASSUME Inv1, Inv2, NEW t \in Task, \A n \in Node : ~Sent(n, t)
  PROVE  NoToken(t)
<1> SUFFICES ASSUME NEW n \in Node
             PROVE  /\ \A i \in DOMAIN messages[n] : ~Tells(messages[n][i], t)
                    /\ \A i \in DOMAIN net[n] : ~Tells(net[n][i], t)
                    /\ Carried(n) => ~Tells(processer[n].msg, t)
  BY DEF NoToken
<1>1. TokenInv /\ prog \in Programs
  BY DEF Inv2, Inv1, Typed
<1>2. messages[n] # <<>> \/ net[n] # <<>> \/ processer[n].at # "idle" => Other(n) \in Node
  BY Busy
<1>3. \A m \in Message : About(n, m) /\ Other(n) \in Node => ~Tells(m, t)
  BY DEF About, Tells, Message, TaskTypes
<1>4. ASSUME NEW i \in DOMAIN messages[n] PROVE ~Tells(messages[n][i], t)
  <2>1. messages[n] # <<>> /\ messages[n][i] \in Message
    BY DEF Inv1, Typed
  <2> QED BY <1>1, <1>2, <1>3, <2>1 DEF TokenInv
<1>5. ASSUME NEW i \in DOMAIN net[n] PROVE ~Tells(net[n][i], t)
  <2>1. net[n] # <<>> /\ net[n][i] \in NetMessage
    BY DEF Inv1, Typed
  <2>2. net[n][i].type \in {"CREATE_ACTION", "START_REMOTE_TASK", "COMPLETE_LOCAL_TASK"}
    BY <2>1 DEF NetMessage
  <2> QED BY <1>1, <1>2, <2>1, <2>2 DEF TokenInv, Tells, TaskTypes
<1>6. ASSUME Carried(n) PROVE ~Tells(processer[n].msg, t)
  <2>1. processer[n].at # "idle"
    BY <1>6 DEF Carried
  <2>2. processer[n].msg \in Message
    BY <2>1 DEF Inv1, Shape, ProcesserOk
  <2>3. CASE processer[n].at = "process"
    BY <1>1, <1>2, <1>3, <2>1, <2>2, <2>3 DEF TokenInv
  <2>4. CASE processer[n].at \in {"list", "await", "again"}
    BY <1>1, <1>2, <2>1, <2>4 DEF TokenInv, Tells
  <2> QED BY <1>6, <2>3, <2>4 DEF Carried
<1> QED BY <1>4, <1>5, <1>6

-----------------------------------------------------------------------------
(* A thread goes on with its task, or is done with it.                     *)

\* The task of the frame on top: nobody else has it.
LEMMA TopHeld ==
  ASSUME Inv1, Inv2, NEW th \in Thread, stack[th] # <<>>, Top(th).task # None
  PROVE  /\ In(th, Len(stack[th]), th[1], Top(th).task) /\ Held(th[1], Top(th).task)
         /\ Len(stack[th]) \in DOMAIN stack[th] /\ stack[th][Len(stack[th])] = Top(th)
         /\ th[1] \in Node /\ Top(th).task \in Task
         /\ \A uh \in Thread : \A i \in DOMAIN stack[uh] :
              In(uh, i, th[1], Top(th).task) => uh = th /\ i = Len(stack[th])
         /\ ~Listed(th[1], Top(th).task) /\ ~Begun(th[1], Top(th).task)
         /\ ~Receiving(th[1], Top(th).task)
<1>1. /\ Len(stack[th]) \in DOMAIN stack[th] /\ stack[th][Len(stack[th])] = Top(th)
      /\ th[1] \in Node /\ Top(th).task \in Task
  BY TopOk, HeldTop DEF Inv2
<1>2. In(th, Len(stack[th]), th[1], Top(th).task)
  BY <1>1 DEF In
<1>3. Held(th[1], Top(th).task)
  BY <1>1, <1>2 DEF Held
<1>4. \A uh \in Thread : \A i \in DOMAIN stack[uh] :
        In(uh, i, th[1], Top(th).task) => uh = th /\ i = Len(stack[th])
  BY <1>1 DEF HeldInv, Inv2
<1>5. ~Listed(th[1], Top(th).task)
  BY <1>1, <1>3 DEF ListInv, Inv2, Listed
<1>6. ~Begun(th[1], Top(th).task)
  <2> SUFFICES ASSUME NEW uh \in Thread, NEW i \in DOMAIN stack[uh],
                      Begins(uh, i, th[1], Top(th).task)
               PROVE  FALSE
    BY DEF Begun
  <2>1. uh[1] = th[1]
    BY DEF Begins
  <2> QED BY <1>1, <1>3, <2>1 DEF BeginInv, Inv2
<1>7. ~Receiving(th[1], Top(th).task)
  BY <1>1, <1>3 DEF ReceiveInv, Inv2
<1> QED BY <1>1, <1>2, <1>3, <1>4, <1>5, <1>6, <1>7

\* Stages fit a record that is alike.
LEMMA FitAlike ==
  ASSUME NEW r, NEW q, Alike(r, q), NEW s
  PROVE  StagesFit(s, r) <=> StagesFit(s, q)
BY DEF Alike, StagesFit

LEMMA TurnFrames ==
  ASSUME Inv1, Inv2, NEW th \in Thread, NEW g, NEW status, Turn(th, g, status)
  PROVE  /\ SameTasks /\ SameBegins
         /\ \A uh \in Thread : \A i \in DOMAIN stack'[uh] :
              /\ i \in DOMAIN stack[uh]
              /\ \/ stack'[uh][i] = stack[uh][i] /\ (uh # th \/ i # Len(stack[th]))
                 \/ uh = th /\ i = Len(stack[th]) /\ stack'[uh][i] = g
         /\ \A uh \in Thread : \A i \in DOMAIN stack[uh] :
              /\ i \in DOMAIN stack'[uh]
              /\ uh # th \/ i # Len(stack[th]) => stack'[uh][i] = stack[uh][i]
<1>1. /\ stack[th] # <<>> /\ Replaced(th, g) /\ g.task = Top(th).task /\ prog' = prog
      /\ g.at \notin BeginPlace /\ Top(th).at \notin BeginPlace
  BY DEF Turn
<1>2. SameTasks /\ SameBegins
  BY <1>1, ReplacedTasks, ReplacedBegins
<1> QED BY <1>1, <1>2, FramesReplaced

LEMMA TurnPlaces ==
  ASSUME Inv1, Inv2, NEW th \in Thread, NEW g, NEW status, Turn(th, g, status)
  PROVE  ListInv' /\ HeldInv' /\ BeginInv' /\ ReceiveInv' /\ SomewhereInv' /\ StagesInv'
<1> DEFINE k == th[1]  w == Top(th).task  d == Len(stack[th])
<1>1. SameTasks /\ SameBegins
  BY TurnFrames
<1>2. /\ UNCHANGED <<prog, taskList, processer>> /\ stack[th] # <<>> /\ w # None
      /\ g.task = w /\ Changed(k, w, status)
      /\ StatusAt(g.at, status, task[k][w].type) /\ status # "NONE"
      /\ g.at = "complete" => StagesFit(g.stages, task[k][w])
  BY DEF Turn
<1>3. \A n \in Node, t \in Task :
        /\ Held(n, t)' <=> Held(n, t)
        /\ Begun(n, t)' <=> Begun(n, t)
        /\ Listed(n, t)' <=> Listed(n, t)
        /\ Receiving(n, t)' <=> Receiving(n, t)
  BY <1>1, <1>2, SameHands DEF Listed, Receiving
<1>4. taskList \in [Node -> Seq(Task)] /\ task \in [Node -> [Task -> TaskInfo]]
  BY DEF Inv1, Typed
<1>5. /\ k \in Node /\ w \in Task /\ Held(k, w) /\ d \in DOMAIN stack[th] /\ stack[th][d] = Top(th)
      /\ ~Listed(k, w) /\ ~Begun(k, w) /\ ~Receiving(k, w)
      /\ \A uh \in Thread : \A i \in DOMAIN stack[uh] : In(uh, i, k, w) => uh = th /\ i = d
  BY <1>2, TopHeld
<1>6. /\ \A n \in Node, t \in Task : Alike(task'[n][t], task[n][t])
      /\ \A n \in Node, t \in Task : n # k \/ t # w => task'[n][t].status = task[n][t].status
      /\ task'[k][w].status = status
  BY <1>2 DEF Changed
<1> HIDE DEF k, w, d
<1>7. ListInv'
  <2> SUFFICES ASSUME NEW n \in Node
      PROVE  /\ Distinct(taskList'[n])
             /\ \A i \in DOMAIN taskList'[n] :
                  /\ task'[n][taskList'[n][i]].status \in {"CREATED", "SCHEDULED", "WAITING"}
                  /\ ~Held(n, taskList[n][i])'
    BY DEF ListInv, Distinct
  <2>1. Distinct(taskList[n])
    BY DEF ListInv, Inv2
  <2>2. ASSUME NEW i \in DOMAIN taskList[n]
        PROVE  /\ task'[n][taskList[n][i]].status \in {"CREATED", "SCHEDULED", "WAITING"}
               /\ ~Held(n, taskList[n][i])' /\ taskList[n][i] \in Task
    <3>1. taskList[n][i] \in Task
      BY <1>4
    <3>2. task[n][taskList[n][i]].status \in {"CREATED", "SCHEDULED", "WAITING"}
          /\ ~Held(n, taskList[n][i])
      BY DEF ListInv, Inv2
    <3>3. n # k \/ taskList[n][i] # w
      BY <1>5, <3>2
    <3>4. ~Held(n, taskList[n][i])'
      BY <1>2, <1>3, <3>1, <3>2
    <3> QED BY <1>6, <3>1, <3>2, <3>3, <3>4
  <2> QED BY <1>2, <2>1, <2>2
<1>8. HeldInv'
  <2> SUFFICES ASSUME NEW uh \in Thread, NEW i \in DOMAIN stack'[uh], stack'[uh][i].task # None
               PROVE  /\ StatusAt(stack'[uh][i].at, task'[uh[1]][stack'[uh][i].task].status,
                                  task'[uh[1]][stack'[uh][i].task].type)
                      /\ \A vh \in Thread : \A j \in DOMAIN stack'[vh] :
                           In(vh, j, uh[1], stack[uh][i].task)' => vh = uh /\ j = i
    BY DEF HeldInv
  <2>1. i \in DOMAIN stack[uh] /\ stack'[uh][i].task = stack[uh][i].task
    BY <1>1 DEF SameTasks
  <2>2. \A vh \in Thread : \A j \in DOMAIN stack[vh] :
          stack[vh][j].task = stack[uh][i].task /\ vh[1] = uh[1] => vh = uh /\ j = i
    BY <2>1 DEF HeldInv, Inv2, In
  <2>3. \A vh \in Thread : \A j \in DOMAIN stack'[vh] :
          In(vh, j, uh[1], stack[uh][i].task)' => vh = uh /\ j = i
    BY <1>1, <2>1, <2>2 DEF In, SameTasks
  <2>4. CASE uh = th /\ i = d /\ stack'[uh][i] = g
    BY <1>2, <1>5, <1>6, <2>3, <2>4 DEF Alike, k
  <2>5. CASE stack'[uh][i] = stack[uh][i] /\ (uh # th \/ i # d)
    <3>1. uh[1] \in Node /\ stack[uh][i].task \in Task
      <4>1. stack[uh][i] \in FrameType
        BY <2>1 DEF Inv1, Typed
      <4> QED BY <2>1, <4>1, ThreadOk DEF FrameType
    <3>2. uh[1] # k \/ stack[uh][i].task # w
      BY <1>5, <2>1, <2>5 DEF In
    <3>3. StatusAt(stack[uh][i].at, task[uh[1]][stack[uh][i].task].status,
                   task[uh[1]][stack[uh][i].task].type)
      BY <2>1 DEF HeldInv, Inv2
    <3>4. /\ task'[uh[1]][stack[uh][i].task].status = task[uh[1]][stack[uh][i].task].status
          /\ task'[uh[1]][stack[uh][i].task].type = task[uh[1]][stack[uh][i].task].type
      BY <1>6, <3>1, <3>2 DEF Alike
    <3> QED BY <2>3, <2>5, <3>3, <3>4
  <2> QED BY <2>4, <2>5, TurnFrames DEF d
<1>9. BeginInv'
  <2> SUFFICES ASSUME NEW uh \in Thread, NEW i \in DOMAIN stack'[uh], NEW t \in Task,
                      Begins(uh, i, uh[1], t)'
               PROVE  /\ task'[uh[1]][t].status = "CREATED"
                      /\ task'[uh[1]][t].queue = prog'.queue[t]
                      /\ task'[uh[1]][t].group = prog'.group[t]
                      /\ ~task'[uh[1]][t].message
                      /\ ~Listed(uh[1], t)' /\ ~Held(uh[1], t)'
    BY DEF BeginInv
  <2>1. i \in DOMAIN stack[uh] /\ uh[1] \in Node
    BY <1>1, ThreadOk DEF SameTasks
  <2>2. Begins(uh, i, uh[1], t)
    BY <1>1, <2>1 DEF SameBegins
  <2>3. uh[1] # k \/ t # w
    BY <1>5, <2>1, <2>2 DEF Begun
  <2> QED BY <1>2, <1>3, <1>6, <2>1, <2>2, <2>3 DEF BeginInv, Inv2, Alike
<1>10. ReceiveInv'
  <2> SUFFICES ASSUME NEW n \in Node, NEW t \in Task, Receiving(n, t)
               PROVE  /\ task'[n][t].status = "CREATED" /\ task'[n][t].message
                      /\ ~Listed(n, t) /\ ~Held(n, t)
    BY <1>3 DEF ReceiveInv
  <2>1. n # k \/ t # w
    BY <1>5
  <2> QED BY <1>6, <2>1 DEF ReceiveInv, Inv2, Alike
<1>11. SomewhereInv'
  <2> SUFFICES ASSUME NEW n \in Node, NEW t \in Task, task'[n][t].status \notin {"NONE", "COMPLETED"}
               PROVE  Listed(n, t) \/ Held(n, t) \/ Begun(n, t) \/ Receiving(n, t)
    BY <1>3 DEF SomewhereInv
  <2>1. CASE n = k /\ t = w
    BY <1>5, <2>1
  <2>2. CASE n # k \/ t # w
    BY <1>6, <2>2 DEF SomewhereInv, Inv2
  <2> QED BY <2>1, <2>2
<1>12. StagesInv'
  <2> SUFFICES ASSUME NEW uh \in Thread, NEW i \in DOMAIN stack'[uh],
                      stack'[uh][i].at = "complete"
               PROVE  StagesFit(stack'[uh][i].stages, task'[uh[1]][stack'[uh][i].task])
    BY DEF StagesInv
  <2>1. CASE uh = th /\ i = d /\ stack'[uh][i] = g
    BY <1>2, <1>5, <1>6, <2>1, FitAlike DEF k
  <2>2. CASE i \in DOMAIN stack[uh] /\ stack'[uh][i] = stack[uh][i]
    <3>1. uh[1] \in Node /\ stack[uh][i].task \in Task
      <4>1. stack[uh][i] \in FrameType /\ GoodFrame(uh, i, stack[uh][i])
        BY <2>2 DEF Inv1, Typed, Shape, StackOk
      <4>2. stack[uh][i].task # None
        BY <2>2, <4>1 DEF GoodFrame, RunPlace
      <4> QED BY <4>1, <4>2, ThreadOk DEF FrameType
    <3>2. StagesFit(stack[uh][i].stages, task[uh[1]][stack[uh][i].task])
      BY <2>2 DEF StagesInv, Inv2
    <3> QED BY <1>6, <2>2, <3>1, <3>2, FitAlike
  <2> QED BY <2>1, <2>2, TurnFrames DEF d
<1> QED BY <1>7, <1>8, <1>9, <1>10, <1>11, <1>12

LEMMA GoneFrames ==
  ASSUME Inv1, Inv2, NEW th \in Thread, NEW status, Gone(th, status)
  PROVE  /\ \A uh \in Thread : \A i \in DOMAIN stack'[uh] :
              /\ i \in DOMAIN stack[uh] /\ stack'[uh][i] = stack[uh][i]
              /\ uh # th \/ i # Len(stack[th])
         /\ \A uh \in Thread : \A i \in DOMAIN stack[uh] :
              uh # th \/ i # Len(stack[th]) =>
                i \in DOMAIN stack'[uh] /\ stack'[uh][i] = stack[uh][i]
         /\ \A n \in Node, t \in Task :
              Held(n, t)' <=> Held(n, t) /\ (n # th[1] \/ t # Top(th).task)
         /\ \A uh \in Thread : \A i \in DOMAIN stack'[uh] : \A n \in Node : \A t \in Task :
              Begins(uh, i, n, t)' <=> Begins(uh, i, n, t)
         /\ \A n \in Node, t \in Task : Begun(n, t)' <=> Begun(n, t)
<1> DEFINE k == th[1]  w == Top(th).task  d == Len(stack[th])
<1>1. stack[th] # <<>> /\ Removed(th) /\ w # None /\ prog' = prog /\ Top(th).at \notin BeginPlace
  BY DEF Gone
<1>2. /\ \A uh \in Thread : \A i \in DOMAIN stack'[uh] :
           /\ i \in DOMAIN stack[uh] /\ stack'[uh][i] = stack[uh][i]
           /\ uh # th \/ i # d
      /\ \A uh \in Thread : \A i \in DOMAIN stack[uh] :
           uh # th \/ i # d => i \in DOMAIN stack'[uh]
  BY <1>1, FramesRemoved
<1>3. \A uh \in Thread : \A i \in DOMAIN stack[uh] :
        uh # th \/ i # d => i \in DOMAIN stack'[uh] /\ stack'[uh][i] = stack[uh][i]
  BY <1>2
<1>4. /\ k \in Node /\ w \in Task /\ d \in DOMAIN stack[th] /\ stack[th][d] = Top(th)
      /\ \A uh \in Thread : \A i \in DOMAIN stack[uh] : In(uh, i, k, w) => uh = th /\ i = d
  BY <1>1, TopHeld
<1>5. \A n \in Node, t \in Task : Held(n, t)' <=> Held(n, t) /\ (n # k \/ t # w)
  <2> SUFFICES ASSUME NEW n \in Node, NEW t \in Task
               PROVE  Held(n, t)' <=> Held(n, t) /\ (n # k \/ t # w)
    OBVIOUS
  <2>1. ASSUME NEW uh \in Thread, NEW i \in DOMAIN stack'[uh], In(uh, i, n, t)'
        PROVE  Held(n, t) /\ (n # k \/ t # w)
    <3>1. i \in DOMAIN stack[uh] /\ In(uh, i, n, t) /\ (uh # th \/ i # d)
      BY <1>2, <2>1 DEF In
    <3> QED BY <1>4, <3>1 DEF Held
  <2>2. ASSUME NEW uh \in Thread, NEW i \in DOMAIN stack[uh], In(uh, i, n, t), n # k \/ t # w
        PROVE  Held(n, t)'
    <3>1. uh # th \/ i # d
      BY <1>4, <2>2 DEF In
    <3>2. i \in DOMAIN stack'[uh] /\ In(uh, i, n, t)'
      BY <1>3, <2>2, <3>1 DEF In
    <3> QED BY <3>2 DEF Held
  <2> QED BY <2>1, <2>2 DEF Held
<1>6. \A uh \in Thread : \A i \in DOMAIN stack'[uh] : \A n \in Node : \A t \in Task :
        Begins(uh, i, n, t)' <=> Begins(uh, i, n, t)
  <2> SUFFICES ASSUME NEW uh \in Thread, NEW i \in DOMAIN stack'[uh], NEW n \in Node, NEW t \in Task
               PROVE  Begins(uh, i, n, t)' <=> Begins(uh, i, n, t)
    OBVIOUS
  <2>1. i \in DOMAIN stack[uh] /\ stack'[uh][i] = stack[uh][i]
    BY <1>2
  <2>2. OpOf(uh, stack[uh][i])' = OpOf(uh, stack[uh][i])
    BY <1>1, <2>1 DEF OpOf, ScriptOf
  <2> QED BY <2>1, <2>2 DEF Begins
<1>7. \A n \in Node, t \in Task : Begun(n, t)' <=> Begun(n, t)
  <2> SUFFICES ASSUME NEW n \in Node, NEW t \in Task
               PROVE  Begun(n, t)' <=> Begun(n, t)
    OBVIOUS
  <2>1. ASSUME NEW uh \in Thread, NEW i \in DOMAIN stack'[uh], Begins(uh, i, n, t)'
        PROVE  Begun(n, t)
    BY <1>2, <1>6, <2>1 DEF Begun
  <2>2. ASSUME NEW uh \in Thread, NEW i \in DOMAIN stack[uh], Begins(uh, i, n, t)
        PROVE  Begun(n, t)'
    <3>1. uh # th \/ i # d
      BY <1>1, <1>4, <2>2 DEF Begins
    <3>2. i \in DOMAIN stack'[uh] /\ Begins(uh, i, n, t)'
      BY <1>3, <1>6, <2>2, <3>1
    <3> QED BY <3>2 DEF Begun
  <2> QED BY <2>1, <2>2 DEF Begun
<1> QED BY <1>2, <1>3, <1>5, <1>6, <1>7

\* A task is put at the end of the list of its node.
LEMMA ListGrows ==
  ASSUME NEW n \in Node, NEW t \in Task, PutIn(taskList, taskList', n, t), ~Listed(n, t),
         \A m \in Node : Distinct(taskList[m])
  PROVE  /\ \A m \in Node, u \in Task : Listed(m, u)' <=> Listed(m, u) \/ (m = n /\ u = t)
         /\ \A m \in Node : Distinct(taskList'[m])
<1>1. \A m \in Node, u \in Task : Listed(m, u)' <=> Listed(m, u) \/ (m = n /\ u = t)
  BY DEF Listed, PutIn
<1>2. \A m \in Node : Distinct(taskList'[m])
  BY DEF Distinct, PutIn, Listed
<1> QED BY <1>1, <1>2

LEMMA GonePlaces ==
  ASSUME Inv1, Inv1', Inv2, NEW th \in Thread, NEW status, Gone(th, status)
  PROVE  ListInv' /\ HeldInv' /\ BeginInv' /\ ReceiveInv' /\ SomewhereInv' /\ StagesInv'
<1> DEFINE k == th[1]  w == Top(th).task  d == Len(stack[th])
<1>1. /\ UNCHANGED <<prog, processer>> /\ stack[th] # <<>> /\ w # None
      /\ Changed(k, w, status)
      /\ \/ status = "COMPLETED" /\ taskList' = taskList
         \/ /\ status = task[k][w].status /\ status \in {"CREATED", "SCHEDULED", "WAITING"}
            /\ taskList' = [taskList EXCEPT ![k] = Append(taskList[k], w)]
  BY DEF Gone
<1>2. /\ \A uh \in Thread : \A i \in DOMAIN stack'[uh] :
           i \in DOMAIN stack[uh] /\ stack'[uh][i] = stack[uh][i] /\ (uh # th \/ i # d)
      /\ \A n \in Node, t \in Task : Held(n, t)' <=> Held(n, t) /\ (n # k \/ t # w)
      /\ \A uh \in Thread : \A i \in DOMAIN stack'[uh] : \A n \in Node : \A t \in Task :
           Begins(uh, i, n, t)' <=> Begins(uh, i, n, t)
      /\ \A n \in Node, t \in Task : Begun(n, t)' <=> Begun(n, t)
  BY GoneFrames
<1>3. taskList \in [Node -> Seq(Task)] /\ taskList' \in [Node -> Seq(Task)]
      /\ task \in [Node -> [Task -> TaskInfo]]
  BY DEF Inv1, Typed
<1>4. /\ k \in Node /\ w \in Task /\ Held(k, w)
      /\ ~Listed(k, w) /\ ~Begun(k, w) /\ ~Receiving(k, w)
      /\ \A uh \in Thread : \A i \in DOMAIN stack[uh] : In(uh, i, k, w) => uh = th /\ i = d
  BY <1>1, TopHeld
<1>5. /\ \A n \in Node, t \in Task : Alike(task'[n][t], task[n][t])
      /\ \A n \in Node, t \in Task : n # k \/ t # w => task'[n][t].status = task[n][t].status
      /\ task'[k][w].status = status
  BY <1>1 DEF Changed
<1>6. \A n \in Node, t \in Task : Receiving(n, t)' <=> Receiving(n, t)
  BY <1>1 DEF Receiving
<1> HIDE DEF k, w, d
<1>7. /\ \A n \in Node : Distinct(taskList'[n])
      /\ \A n \in Node, t \in Task :
           /\ Listed(n, t) => Listed(n, t)'
           /\ Listed(n, t)' => Listed(n, t) \/ (n = k /\ t = w /\ status \in {"CREATED", "SCHEDULED", "WAITING"})
      /\ \A n \in Node, t \in Task : n = k /\ t = w /\ status # "COMPLETED" => Listed(n, t)'
  <2>1. \A n \in Node : Distinct(taskList[n])
    BY DEF ListInv, Inv2
  <2>2. CASE status = "COMPLETED" /\ taskList' = taskList
    BY <2>1, <2>2 DEF Listed
  <2>3. CASE /\ status = task[k][w].status /\ status \in {"CREATED", "SCHEDULED", "WAITING"}
             /\ taskList' = [taskList EXCEPT ![k] = Append(taskList[k], w)]
    <3>1. taskList'[k] = Append(taskList[k], w) /\ \A m \in Node : m # k => taskList'[m] = taskList[m]
      BY <1>3, <1>4, <2>3
    <3>2. PutIn(taskList, taskList', k, w)
      BY <1>3, <1>4, <3>1, PutInOk
    <3>3. /\ \A m \in Node, u \in Task : Listed(m, u)' <=> Listed(m, u) \/ (m = k /\ u = w)
          /\ \A m \in Node : Distinct(taskList'[m])
      BY <1>4, <2>1, <3>2, ListGrows
    <3> QED BY <1>4, <2>3, <3>3
  <2> QED BY <1>1, <2>2, <2>3
<1>8. ListInv'
  <2> SUFFICES ASSUME NEW n \in Node, NEW i \in DOMAIN taskList'[n]
      PROVE  /\ task'[n][taskList'[n][i]].status \in {"CREATED", "SCHEDULED", "WAITING"}
             /\ ~Held(n, taskList[n][i])'
    BY <1>7 DEF ListInv, Distinct
  <2>1. PICK t \in Task : t = taskList'[n][i]
    BY <1>3
  <2>2. Listed(n, t)'
    BY <2>1 DEF Listed
  <2>3. CASE n = k /\ t = w /\ status \in {"CREATED", "SCHEDULED", "WAITING"}
    BY <1>2, <1>5, <2>1, <2>3 DEF Held, In
  <2>4. CASE Listed(n, t)
    <3>1. task[n][t].status \in {"CREATED", "SCHEDULED", "WAITING"} /\ ~Held(n, t)
      BY <2>4 DEF ListInv, Inv2, Listed
    <3>2. n # k \/ t # w
      BY <1>4, <2>4
    <3>3. ~Held(n, t)' /\ task'[n][t].status = task[n][t].status
      BY <1>2, <1>5, <3>1, <3>2
    <3> QED BY <2>1, <3>1, <3>3 DEF Held, In
  <2> QED BY <1>7, <2>2, <2>3, <2>4
<1>9. HeldInv'
  <2> SUFFICES ASSUME NEW uh \in Thread, NEW i \in DOMAIN stack'[uh], stack'[uh][i].task # None
               PROVE  /\ StatusAt(stack'[uh][i].at, task'[uh[1]][stack'[uh][i].task].status,
                                  task'[uh[1]][stack'[uh][i].task].type)
                      /\ \A vh \in Thread : \A j \in DOMAIN stack'[vh] :
                           In(vh, j, uh[1], stack[uh][i].task)' => vh = uh /\ j = i
    BY DEF HeldInv
  <2>1. i \in DOMAIN stack[uh] /\ stack'[uh][i] = stack[uh][i] /\ (uh # th \/ i # d)
    BY <1>2
  <2>2. \A vh \in Thread : \A j \in DOMAIN stack[vh] :
          stack[vh][j].task = stack[uh][i].task /\ vh[1] = uh[1] => vh = uh /\ j = i
    BY <2>1 DEF HeldInv, Inv2, In
  <2>3. \A vh \in Thread : \A j \in DOMAIN stack'[vh] :
          In(vh, j, uh[1], stack[uh][i].task)' => vh = uh /\ j = i
    BY <1>2, <2>1, <2>2 DEF In
  <2>4. uh[1] \in Node /\ stack[uh][i].task \in Task
    <3>1. stack[uh][i] \in FrameType
      BY <2>1 DEF Inv1, Typed
    <3> QED BY <2>1, <3>1, ThreadOk DEF FrameType
  <2>5. uh[1] # k \/ stack[uh][i].task # w
    BY <1>4, <2>1 DEF In
  <2>6. StatusAt(stack[uh][i].at, task[uh[1]][stack[uh][i].task].status,
                 task[uh[1]][stack[uh][i].task].type)
    BY <2>1 DEF HeldInv, Inv2
  <2>7. /\ task'[uh[1]][stack[uh][i].task].status = task[uh[1]][stack[uh][i].task].status
        /\ task'[uh[1]][stack[uh][i].task].type = task[uh[1]][stack[uh][i].task].type
    BY <1>5, <2>4, <2>5 DEF Alike
  <2> QED BY <2>1, <2>3, <2>6, <2>7
<1>10. BeginInv'
  <2> SUFFICES ASSUME NEW uh \in Thread, NEW i \in DOMAIN stack'[uh], NEW t \in Task,
                      Begins(uh, i, uh[1], t)'
               PROVE  /\ task'[uh[1]][t].status = "CREATED"
                      /\ task'[uh[1]][t].queue = prog'.queue[t]
                      /\ task'[uh[1]][t].group = prog'.group[t]
                      /\ ~task'[uh[1]][t].message
                      /\ ~Listed(uh[1], t)' /\ ~Held(uh[1], t)'
    BY DEF BeginInv
  <2>1. i \in DOMAIN stack[uh] /\ uh[1] \in Node
    BY <1>2, ThreadOk
  <2>2. Begins(uh, i, uh[1], t)
    BY <1>2, <2>1
  <2>3. uh[1] # k \/ t # w
    BY <1>4, <2>1, <2>2 DEF Begun
  <2>4. ~Listed(uh[1], t) /\ ~Held(uh[1], t)
    BY <2>1, <2>2 DEF BeginInv, Inv2
  <2>5. ~Listed(uh[1], t)' /\ ~Held(uh[1], t)'
    BY <1>2, <1>7, <2>1, <2>3, <2>4
  <2> QED BY <1>1, <1>5, <2>1, <2>2, <2>3, <2>5 DEF BeginInv, Inv2, Alike
<1>11. ReceiveInv'
  <2> SUFFICES ASSUME NEW n \in Node, NEW t \in Task, Receiving(n, t)
               PROVE  /\ task'[n][t].status = "CREATED" /\ task'[n][t].message
                      /\ ~Listed(n, t)' /\ ~Held(n, t)'
    BY <1>6 DEF ReceiveInv
  <2>1. n # k \/ t # w
    BY <1>4
  <2> QED BY <1>2, <1>5, <1>7, <2>1 DEF ReceiveInv, Inv2, Alike
<1>12. SomewhereInv'
  <2> SUFFICES ASSUME NEW n \in Node, NEW t \in Task, task'[n][t].status \notin {"NONE", "COMPLETED"}
               PROVE  Listed(n, t)' \/ Held(n, t)' \/ Begun(n, t)' \/ Receiving(n, t)'
    BY DEF SomewhereInv
  <2>1. CASE n = k /\ t = w
    BY <1>5, <1>7, <2>1
  <2>2. CASE n # k \/ t # w
    BY <1>2, <1>5, <1>6, <1>7, <2>2 DEF SomewhereInv, Inv2
  <2> QED BY <2>1, <2>2
<1>13. StagesInv'
  <2> SUFFICES ASSUME NEW uh \in Thread, NEW i \in DOMAIN stack'[uh],
                      stack'[uh][i].at = "complete"
               PROVE  StagesFit(stack'[uh][i].stages, task'[uh[1]][stack'[uh][i].task])
    BY DEF StagesInv
  <2>1. i \in DOMAIN stack[uh] /\ stack'[uh][i] = stack[uh][i]
    BY <1>2
  <2>2. uh[1] \in Node /\ stack[uh][i].task \in Task
    <3>1. stack[uh][i] \in FrameType /\ GoodFrame(uh, i, stack[uh][i])
      BY <2>1 DEF Inv1, Typed, Shape, StackOk
    <3>2. stack[uh][i].task # None
      BY <2>1, <3>1 DEF GoodFrame, RunPlace
    <3> QED BY <3>1, <3>2, ThreadOk DEF FrameType
  <2>3. StagesFit(stack[uh][i].stages, task[uh[1]][stack[uh][i].task])
    BY <2>1 DEF StagesInv, Inv2
  <2> QED BY <1>5, <2>1, <2>2, <2>3, FitAlike
<1> QED BY <1>8, <1>9, <1>10, <1>11, <1>12, <1>13

-----------------------------------------------------------------------------
(* The status of a task changes, its record stays otherwise.               *)

Ages(n, t, status) ==
  LET rec == task[n][t] IN
  /\ n \in Node /\ t \in Task /\ Changed(n, t, status)
  /\ rec.status # "NONE" /\ status # "NONE"
  /\ status = "SCHEDULED" => rec.type = "REMOTE"
  /\ rec.type = "LOCAL" /\ rec.status \in RWC => status \in RWC
  /\ UNCHANGED <<prog, action>>

LEMMA AgesRecords ==
  ASSUME Inv1, Inv2, NEW n, NEW t, NEW status, Ages(n, t, status)
  PROVE  /\ \A m \in Node, u \in Task :
              (task'[m][u].status = "NONE" <=> task[m][u].status = "NONE")
              /\ Alike(task'[m][u], task[m][u])
         /\ RecordInv'
         /\ \A u \in Task : Fresh(u)' <=> Fresh(u)
         /\ \A u \in Task : Ran(u) => Ran(u)'
<1>1. /\ n \in Node /\ t \in Task /\ task[n][t].status # "NONE" /\ status # "NONE"
      /\ status = "SCHEDULED" => task[n][t].type = "REMOTE"
      /\ task[n][t].type = "LOCAL" /\ task[n][t].status \in RWC => status \in RWC
      /\ UNCHANGED <<prog, action>>
      /\ \A m \in Node, u \in Task : Alike(task'[m][u], task[m][u])
      /\ \A m \in Node, u \in Task : m # n \/ u # t => task'[m][u].status = task[m][u].status
      /\ task'[n][t].status = status
  BY DEF Ages, Changed
<1>2. \A m \in Node, u \in Task : task'[m][u].status = "NONE" <=> task[m][u].status = "NONE"
  BY <1>1
<1>3. \A m \in Node, u \in Task :
        /\ task'[m][u].type = task[m][u].type /\ task'[m][u].parent = task[m][u].parent
        /\ task'[m][u].queue = task[m][u].queue /\ task'[m][u].group = task[m][u].group
        /\ task'[m][u].message = task[m][u].message
  BY <1>1 DEF Alike
<1>4. RecordInv'
  <2> SUFFICES ASSUME NEW m \in Node, NEW u \in Task
      PROVE
      /\ task'[m][u].status = "NONE" <=> task'[m][u].type = None
      /\ task'[m][u].status = "NONE" =>
           /\ task'[m][u].parent = None /\ task'[m][u].queue = None
           /\ task'[m][u].group = None /\ ~task'[m][u].message
      /\ task'[m][u].status # "NONE" => task'[m][u].type = action'[m][prog'.job[u]]
      /\ task'[m][u].status = "SCHEDULED" => task'[m][u].type = "REMOTE"
      /\ task'[m][u].type = "REMOTE" => ~task'[m][u].message
      /\ task'[m][u].message =>
           /\ task'[m][u].queue = None /\ task'[m][u].group = None /\ task'[m][u].parent = None
           /\ \E k \in Node : k # m /\ task'[k][u].type = "REMOTE"
      /\ ~task'[m][u].message /\ task'[m][u].status # "NONE" =>
           \A k \in Node : k # m => task'[k][u].status = "NONE" \/ task'[k][u].message
    BY DEF RecordInv
  <2>1. RecordInv
    BY DEF Inv2
  <2>2. task'[m][u].status = "SCHEDULED" => task[m][u].type = "REMOTE"
    BY <1>1, <2>1 DEF RecordInv
  <2> QED BY <1>1, <1>2, <1>3, <2>1, <2>2 DEF RecordInv
<1>5. \A u \in Task : Fresh(u)' <=> Fresh(u)
  BY <1>2 DEF Fresh
<1>6. \A u \in Task : Ran(u) => Ran(u)'
  BY <1>1, <1>3 DEF Ran, RWC
<1> QED BY <1>1, <1>2, <1>4, <1>5, <1>6

\* The messages of received tasks are told of changes by the task's node only.
ServedKept ==
  \A t \in Task :
    /\ served'[t] = "RECEIVE_REMOTE_TASK" => served[t] = "RECEIVE_REMOTE_TASK"
    /\ served[t] = "RECEIVE_REMOTE_TASK" /\ served'[t] # "RECEIVE_REMOTE_TASK" =>
         \E n \in Node : task[n][t].message

LEMMA ServedInvKept ==
  ASSUME Inv2, ServedKept,
         \A n \in Node, t \in Task : task[n][t].message => task'[n][t].message
  PROVE  ServedInv'
BY DEF ServedInv, Inv2, ServedKept

LEMMA TurnAges ==
  ASSUME Inv1, Inv2, NEW th \in Thread, NEW g, NEW status, Turn(th, g, status)
  PROVE  /\ Ages(th[1], Top(th).task, status)
         /\ \A n \in Node, t \in Task : Sent(n, t) => Sent(n, t)'
         /\ UnsentInv'
<1> DEFINE k == th[1]  w == Top(th).task  d == Len(stack[th])
<1>1. /\ UNCHANGED <<prog, action>> /\ stack[th] # <<>> /\ w # None
      /\ Changed(k, w, status) /\ task[k][w].status # "NONE" /\ status # "NONE"
      /\ status = "SCHEDULED" => task[k][w].type = "REMOTE"
      /\ status = "CREATED" => task[k][w].status = "CREATED"
      /\ Top(th).at = "schedule" \/ task[k][w].status = "SCHEDULED" => status = "SCHEDULED"
      /\ task[k][w].type = "LOCAL" /\ task[k][w].status \in RWC => status \in RWC
  BY DEF Turn
<1>2. /\ k \in Node /\ w \in Task /\ stack[th][d] = Top(th)
      /\ \A uh \in Thread : \A i \in DOMAIN stack[uh] : In(uh, i, k, w) => uh = th /\ i = d
  BY <1>1, TopHeld
<1>3. /\ \A n \in Node, t \in Task : Alike(task'[n][t], task[n][t])
      /\ \A n \in Node, t \in Task : n # k \/ t # w => task'[n][t].status = task[n][t].status
      /\ task'[k][w].status = status
  BY <1>1 DEF Changed
<1>4. Ages(k, w, status)
  BY <1>1, <1>2 DEF Ages
<1>5. /\ \A uh \in Thread : \A i \in DOMAIN stack[uh] :
           /\ i \in DOMAIN stack'[uh] /\ stack'[uh][i].task = stack[uh][i].task
           /\ uh # th \/ i # d => stack'[uh][i] = stack[uh][i]
  BY TurnFrames DEF SameTasks
<1> HIDE DEF k, w, d
<1>6. ASSUME NEW n \in Node, NEW t \in Task, Sent(n, t) PROVE Sent(n, t)'
  <2>1. task'[n][t].type = "REMOTE" /\ prog'.distributed
    BY <1>1, <1>3, <1>6 DEF Sent, Alike
  <2>2. CASE task[n][t].status = "SCHEDULED"
    <3>1. task'[n][t].status = "SCHEDULED"
      BY <1>1, <1>3, <2>2
    <3> QED BY <2>1, <3>1 DEF Sent
  <2>3. CASE task[n][t].status = "CREATED"
    <3>0. PICK uh \in Thread : \E i \in DOMAIN stack[uh] :
            In(uh, i, n, t) /\ stack[uh][i].at = "schedule"
      BY <1>6, <2>3 DEF Sent
    <3>1. PICK i \in DOMAIN stack[uh] : In(uh, i, n, t) /\ stack[uh][i].at = "schedule"
      BY <3>0
    <3>2. CASE uh = th /\ i = d
      <4>1. n = k /\ t = w /\ Top(th).at = "schedule"
        BY <1>2, <3>1, <3>2 DEF In, k, w
      <4>2. task'[n][t].status = "SCHEDULED"
        BY <1>1, <1>3, <4>1
      <4> QED BY <2>1, <4>2 DEF Sent
    <3>3. CASE uh # th \/ i # d
      <4>1. n # k \/ t # w
        BY <1>2, <3>1, <3>3
      <4>2. task'[n][t].status = "CREATED"
        BY <1>3, <2>3, <4>1
      <4>3. i \in DOMAIN stack'[uh] /\ In(uh, i, n, t)' /\ stack'[uh][i].at = "schedule"
        BY <1>5, <3>1, <3>3 DEF In
      <4> QED BY <2>1, <4>2, <4>3 DEF Sent
    <3> QED BY <3>2, <3>3
  <2> QED BY <1>6, <2>2, <2>3 DEF Sent
<1>7. UnsentInv'
  <2> SUFFICES ASSUME NEW n \in Node, NEW t \in Task,
                      task'[n][t].status = "CREATED", task'[n][t].type = "REMOTE", ~Sent(n, t)',
                      NEW m \in Node
               PROVE  ~task'[m][t].message
    BY DEF UnsentInv
  <2>1. task[n][t].status = "CREATED" /\ task[n][t].type = "REMOTE" /\ ~Sent(n, t)
    BY <1>1, <1>3, <1>6 DEF Alike
  <2> QED BY <1>3, <2>1 DEF UnsentInv, Inv2, Alike
<1> QED BY <1>4, <1>6, <1>7 DEF k, w

LEMMA GoneAges ==
  ASSUME Inv1, Inv2, NEW th \in Thread, NEW status, Gone(th, status)
  PROVE  /\ Ages(th[1], Top(th).task, status)
         /\ \A n \in Node, t \in Task : Sent(n, t) => Sent(n, t)'
         /\ UnsentInv'
<1> DEFINE k == th[1]  w == Top(th).task  d == Len(stack[th])
<1>1. /\ UNCHANGED <<prog, action>> /\ stack[th] # <<>> /\ w # None
      /\ Changed(k, w, status) /\ Top(th).at # "schedule"
      /\ \/ status = "COMPLETED" /\ task[k][w].status \in RWC
         \/ status = task[k][w].status /\ status \in {"CREATED", "SCHEDULED", "WAITING"}
  BY DEF Gone
<1>2. /\ k \in Node /\ w \in Task /\ stack[th][d] = Top(th)
      /\ \A uh \in Thread : \A i \in DOMAIN stack[uh] : In(uh, i, k, w) => uh = th /\ i = d
  BY <1>1, TopHeld
<1>3. /\ \A n \in Node, t \in Task : Alike(task'[n][t], task[n][t])
      /\ \A n \in Node, t \in Task : n # k \/ t # w => task'[n][t].status = task[n][t].status
      /\ task'[k][w].status = status
  BY <1>1 DEF Changed
<1>4. Ages(k, w, status)
  <2>1. status = "SCHEDULED" => task[k][w].type = "REMOTE"
    BY <1>1, <1>2 DEF RecordInv, Inv2
  <2> QED BY <1>1, <1>2, <2>1 DEF Ages, RWC
<1>5. \A uh \in Thread : \A i \in DOMAIN stack[uh] :
        uh # th \/ i # d => i \in DOMAIN stack'[uh] /\ stack'[uh][i] = stack[uh][i]
  BY GoneFrames
<1> HIDE DEF k, w, d
<1>6. ASSUME NEW n \in Node, NEW t \in Task, Sent(n, t) PROVE Sent(n, t)'
  <2>1. task'[n][t].type = "REMOTE" /\ prog'.distributed
    BY <1>1, <1>3, <1>6 DEF Sent, Alike
  <2>2. CASE task[n][t].status = "SCHEDULED"
    <3>1. task'[n][t].status = "SCHEDULED"
      BY <1>1, <1>3, <2>2 DEF RWC
    <3> QED BY <2>1, <3>1 DEF Sent
  <2>3. CASE task[n][t].status = "CREATED"
    <3>0. PICK uh \in Thread : \E i \in DOMAIN stack[uh] :
            In(uh, i, n, t) /\ stack[uh][i].at = "schedule"
      BY <1>6, <2>3 DEF Sent
    <3>1. PICK i \in DOMAIN stack[uh] : In(uh, i, n, t) /\ stack[uh][i].at = "schedule"
      BY <3>0
    <3>2. uh # th \/ i # d
      BY <1>1, <1>2, <3>1
    <3>3. n # k \/ t # w
      BY <1>2, <3>1, <3>2
    <3>4. task'[n][t].status = "CREATED"
      BY <1>3, <2>3, <3>3
    <3>5. i \in DOMAIN stack'[uh] /\ In(uh, i, n, t)' /\ stack'[uh][i].at = "schedule"
      BY <1>5, <3>1, <3>2 DEF In
    <3> QED BY <2>1, <3>4, <3>5 DEF Sent
  <2> QED BY <1>6, <2>2, <2>3 DEF Sent
<1>7. UnsentInv'
  <2> SUFFICES ASSUME NEW n \in Node, NEW t \in Task,
                      task'[n][t].status = "CREATED", task'[n][t].type = "REMOTE", ~Sent(n, t)',
                      NEW m \in Node
               PROVE  ~task'[m][t].message
    BY DEF UnsentInv
  <2>1. task[n][t].status = "CREATED" /\ task[n][t].type = "REMOTE" /\ ~Sent(n, t)
    BY <1>1, <1>3, <1>6 DEF Alike
  <2> QED BY <1>3, <2>1 DEF UnsentInv, Inv2, Alike
<1> QED BY <1>4, <1>6, <1>7 DEF k, w

-----------------------------------------------------------------------------
(* What is left to start, actions and messages, for every kind of step.    *)

\* What the script of a frame has still to start is not started.
Covered(th, f) ==
  f.at \in RunPlace =>
    \A t \in Task : \A p \in DOMAIN ScriptOf(th, f) :
      Ahead(f, p) /\ StartsAt(ScriptOf(th, f), p, t) => Fresh(t)

LEMMA FreshKept ==
  ASSUME Inv2, prog' = prog, \A t \in Task : Fresh(t) => Fresh(t)', \A t \in Task : Ran(t) => Ran(t)',
         \A th \in Thread : \A i \in DOMAIN stack'[th] : Covered(th, stack'[th][i])
  PROVE  FreshInv'
<1>1. ASSUME NEW th \in Thread, NEW i \in DOMAIN stack'[th], NEW t \in Task,
             stack'[th][i].at \in RunPlace, NEW p \in DOMAIN ScriptOf(th, stack[th][i])',
             Ahead(stack[th][i], p)', StartsAt(ScriptOf(th, stack[th][i]), p, t)'
      PROVE  Fresh(t)'
  <2>1. ScriptOf(th, stack[th][i])' = ScriptOf(th, stack'[th][i])
    BY DEF ScriptOf
  <2>2. Ahead(stack'[th][i], p) /\ StartsAt(ScriptOf(th, stack'[th][i]), p, t)
    BY <1>1, <2>1 DEF Ahead, StartsAt
  <2>3. Covered(th, stack'[th][i])
    OBVIOUS
  <2> QED BY <1>1, <2>1, <2>2, <2>3 DEF Covered
<1>2. \A u, t \in Task : ~Ran(u)' =>
        \A p \in DOMAIN prog.body[u] : StartsAt(prog.body[u], p, t) => Fresh(t)'
  BY DEF FreshInv, Inv2
<1> QED BY <1>1, <1>2 DEF FreshInv

LEMMA CoveredNow ==
  ASSUME Inv2, NEW th \in Thread, NEW i \in DOMAIN stack[th]
  PROVE  Covered(th, stack[th][i])
BY DEF Covered, FreshInv, Inv2

LEMMA TurnFresh ==
  ASSUME Inv1, Inv2, NEW th \in Thread, NEW g, NEW status, Turn(th, g, status)
  PROVE  FreshInv'
<1> DEFINE k == th[1]  w == Top(th).task
<1>1. /\ prog' = prog /\ g.task = w /\ stack[th] # <<>> /\ w # None
      /\ g.at \in RunPlace => task[k][w].status = "CREATED" /\ task[k][w].type = "LOCAL"
  BY DEF Turn
<1>2. k \in Node /\ w \in Task
  BY <1>1, TopHeld
<1>3. Covered(th, g)
  <2> SUFFICES ASSUME g.at \in RunPlace, NEW t \in Task, NEW p \in DOMAIN prog.body[w],
                      StartsAt(prog.body[w], p, t)
               PROVE  Fresh(t)
    BY <1>1 DEF Covered, ScriptOf
  <2>1. ~Ran(w)
    <3>1. ASSUME NEW m \in Node, task[m][w].type = "LOCAL" PROVE m = k
      BY <1>1, <1>2, <3>1, Records
    <3> QED BY <1>1, <3>1 DEF Ran
  <2> QED BY <1>2, <2>1 DEF FreshInv, Inv2
<1>4. \A uh \in Thread : \A i \in DOMAIN stack'[uh] : Covered(uh, stack'[uh][i])
  <2> SUFFICES ASSUME NEW uh \in Thread, NEW i \in DOMAIN stack'[uh]
               PROVE  Covered(uh, stack'[uh][i])
    OBVIOUS
  <2>1. CASE i \in DOMAIN stack[uh] /\ stack'[uh][i] = stack[uh][i]
    BY <2>1, CoveredNow
  <2>2. CASE uh = th /\ stack'[uh][i] = g
    BY <1>3, <2>2
  <2> QED BY <2>1, <2>2, TurnFrames
<1>5. Ages(k, w, status)
  BY TurnAges
<1>6. /\ \A t \in Task : Fresh(t)' <=> Fresh(t)
      /\ \A t \in Task : Ran(t) => Ran(t)'
  BY <1>5, AgesRecords
<1> QED BY <1>1, <1>4, <1>6, FreshKept

LEMMA GoneFresh ==
  ASSUME Inv1, Inv2, NEW th \in Thread, NEW status, Gone(th, status)
  PROVE  FreshInv'
<1>1. prog' = prog
  BY DEF Gone
<1>2. \A uh \in Thread : \A i \in DOMAIN stack'[uh] : Covered(uh, stack'[uh][i])
  <2> SUFFICES ASSUME NEW uh \in Thread, NEW i \in DOMAIN stack'[uh]
               PROVE  Covered(uh, stack'[uh][i])
    OBVIOUS
  <2>1. i \in DOMAIN stack[uh] /\ stack'[uh][i] = stack[uh][i]
    BY GoneFrames
  <2> QED BY <2>1, CoveredNow
<1>3. Ages(th[1], Top(th).task, status)
  BY GoneAges
<1>4. /\ \A t \in Task : Fresh(t)' <=> Fresh(t)
      /\ \A t \in Task : Ran(t) => Ran(t)'
  BY <1>3, AgesRecords
<1> QED BY <1>1, <1>2, <1>4, FreshKept

\* What a message about an action says, in the list of node n and on its way to it.
ActOf(n, m) ==
  \A j \in Job :
    /\ m = Msg("CREATE_ACTION", j) => action[n][j] # None
    /\ m = Msg("ADD_REMOTE_ACTION", j) => action[Other(n)][j] # None

NetOf(n, m) == \A j \in Job : m = Msg("CREATE_ACTION", j) => action[Other(n)][j] # None

LEMMA ActionKept ==
  ASSUME Inv1, Inv1', Inv2, prog' = prog,
         \A n \in Node, j \in Job : action[n][j] # None => action'[n][j] # None,
         \A n \in Node, j \in Job : action'[n][j] = "REMOTE" =>
           prog.distributed /\ action'[Other(n)][j] = "LOCAL",
         \A n \in Node : \A i \in DOMAIN messages'[n] : ActOf(n, messages'[n][i]),
         \A n \in Node : \A i \in DOMAIN net'[n] : NetOf(n, net'[n][i]),
         \A n \in Node : processer'[n].at = "process" => ActOf(n, processer'[n].msg),
         \A th \in Thread : \A i \in DOMAIN stack'[th] : stack'[th][i].at = "announce" =>
           i \in DOMAIN stack[th] /\ stack'[th][i] = stack[th][i]
  PROVE  ActionInv'
<1>1. ASSUME NEW n \in Node
      PROVE  messages'[n] # <<>> \/ net'[n] # <<>> \/ processer'[n].at # "idle" => Other(n) \in Node
  <2>1. messages'[n] # <<>> \/ net'[n] # <<>> \/ processer'[n].at # "idle" => prog.distributed
    BY DEF Inv1, Shape, Silent
  <2> QED BY <2>1, OtherOk DEF Inv1, Typed
<1>2. ASSUME NEW n \in Node, NEW j \in Job, NEW i \in DOMAIN messages'[n]
      PROVE  /\ messages'[n][i] = Msg("CREATE_ACTION", j) => action'[n][j] # None
             /\ messages'[n][i] = Msg("ADD_REMOTE_ACTION", j) => action'[Other(n)][j] # None
  <2>1. messages'[n] # <<>>
    BY DEF Inv1, Typed
  <2>2. ActOf(n, messages'[n][i]) /\ Other(n) \in Node
    BY <1>1, <2>1
  <2> QED BY <2>2 DEF ActOf
<1>3. ASSUME NEW n \in Node, NEW j \in Job, NEW i \in DOMAIN net'[n]
      PROVE  net'[n][i] = Msg("CREATE_ACTION", j) => action'[Other(n)][j] # None
  <2>1. net'[n] # <<>>
    BY DEF Inv1, Typed
  <2>2. NetOf(n, net'[n][i]) /\ Other(n) \in Node
    BY <1>1, <2>1
  <2> QED BY <2>2 DEF NetOf
<1>4. ASSUME NEW n \in Node, NEW j \in Job, processer'[n].at = "process"
      PROVE  /\ processer'[n].msg = Msg("CREATE_ACTION", j) => action'[n][j] # None
             /\ processer'[n].msg = Msg("ADD_REMOTE_ACTION", j) => action'[Other(n)][j] # None
  <2>1. ActOf(n, processer'[n].msg) /\ Other(n) \in Node
    BY <1>1, <1>4
  <2> QED BY <2>1 DEF ActOf
<1>5. ASSUME NEW n \in Node, NEW j \in Job, NEW th \in Thread, NEW i \in DOMAIN stack'[th],
             th[1] = n, stack'[th][i].at = "announce", OpOf(th, stack[th][i])'.on = j
      PROVE  action'[n][j] # None
  <2>1. i \in DOMAIN stack[th] /\ stack'[th][i] = stack[th][i]
    BY <1>5
  <2>2. OpOf(th, stack[th][i])' = OpOf(th, stack[th][i])
    BY <2>1 DEF OpOf, ScriptOf
  <2>3. action[n][j] # None
    BY <1>5, <2>1, <2>2 DEF ActionInv, Inv2
  <2> QED BY <2>3
<1>6. SUFFICES ASSUME NEW n \in Node, NEW j \in Job
    PROVE
    /\ action'[n][j] = "REMOTE" => prog'.distributed /\ action'[Other(n)][j] = "LOCAL"
    /\ \A i \in DOMAIN messages'[n] :
         messages'[n][i] = Msg("CREATE_ACTION", j) => action'[n][j] # None
    /\ \A i \in DOMAIN messages'[n] :
         messages'[n][i] = Msg("ADD_REMOTE_ACTION", j) => action'[Other(n)][j] # None
    /\ \A i \in DOMAIN net'[n] :
         net'[n][i] = Msg("CREATE_ACTION", j) => action'[Other(n)][j] # None
    /\ processer'[n].at = "process" /\ processer'[n].msg = Msg("CREATE_ACTION", j) =>
         action'[n][j] # None
    /\ processer'[n].at = "process" /\ processer'[n].msg = Msg("ADD_REMOTE_ACTION", j) =>
         action'[Other(n)][j] # None
    /\ \A uh \in Thread : \A i \in DOMAIN stack'[uh] :
         uh[1] = n /\ stack'[uh][i].at = "announce" /\ OpOf(uh, stack[uh][i])'.on = j =>
           action'[n][j] # None
  BY DEF ActionInv
<1> QED BY <1>2, <1>3, <1>4, <1>5

LEMMA ActNow ==
  ASSUME Inv1, Inv2, NEW n \in Node
  PROVE  /\ \A i \in DOMAIN messages[n] : ActOf(n, messages[n][i])
         /\ \A i \in DOMAIN net[n] : NetOf(n, net[n][i])
         /\ processer[n].at = "process" => ActOf(n, processer[n].msg)
         /\ \A j \in Job : action[n][j] = "REMOTE" => prog.distributed /\ action[Other(n)][j] = "LOCAL"
         /\ \A m : m.type \in TaskTypes => ActOf(n, m) /\ NetOf(n, m)
<1>1. \A m : m.type \in TaskTypes => ActOf(n, m) /\ NetOf(n, m)
  BY DEF ActOf, NetOf, Msg, TaskTypes
<1>2. /\ \A i \in DOMAIN messages[n] : ActOf(n, messages[n][i])
      /\ \A i \in DOMAIN net[n] : NetOf(n, net[n][i])
      /\ processer[n].at = "process" => ActOf(n, processer[n].msg)
  BY DEF ActionInv, Inv2, ActOf, NetOf
<1>3. \A j \in Job : action[n][j] = "REMOTE" => prog.distributed /\ action[Other(n)][j] = "LOCAL"
  BY DEF ActionInv, Inv2
<1> QED BY <1>1, <1>2, <1>3

-----------------------------------------------------------------------------
(* Messages about tasks.                                                   *)

\* What a message that is sent says, and what a processer knows of the
\* message it has.
Wire(n, m) ==
  /\ m.type = "START_REMOTE_TASK" =>
       Sent(Other(n), m.on) /\ task[n][m.on].status = "NONE"
         /\ served[m.on] = "RECEIVE_REMOTE_TASK"
  /\ m.type = "COMPLETE_LOCAL_TASK" => Sent(n, m.on)

Grip(n, at, t) ==
  /\ Sent(Other(n), t) /\ task[n][t].status # "NONE"
  /\ at = "again" => served[t] # "RECEIVE_REMOTE_TASK"

\* Nothing is said of the tasks of T; what is known of the others stays true.
Keeps(T) ==
  /\ prog' = prog
  /\ \A n \in Node, t \in Task \ T :
       /\ Sent(n, t) => Sent(n, t)'
       /\ task'[n][t].status = "NONE" <=> task[n][t].status = "NONE"
  /\ \A t \in Task \ T :
       /\ served'[t] = "RECEIVE_REMOTE_TASK" => served[t] = "RECEIVE_REMOTE_TASK"
       /\ served[t] = "RECEIVE_REMOTE_TASK" /\ served'[t] # "RECEIVE_REMOTE_TASK" =>
            \E n \in Node : task[n][t].message

\* A node that has sent a task and one that has received it are different.
LEMMA SentOther ==
  ASSUME Inv1, Inv2, NEW n \in Node, NEW t \in Task, Sent(n, t),
         NEW m \in Node, task[m][t].message
  PROVE  m = Other(n) /\ n = Other(m) /\ task[m][t].status # "NONE"
<1>1. task[n][t].type = "REMOTE" /\ prog.distributed
  BY DEF Sent
<1>2. task[m][t].type = "LOCAL" /\ task[m][t].status # "NONE"
  BY Records
<1>3. m # n /\ Node = {n, Other(n)} /\ Node = {m, Other(m)}
  BY <1>1, <1>2, OtherOk DEF Inv1, Typed
<1> QED BY <1>2, <1>3

LEMMA AboutKept ==
  ASSUME Inv1, Inv2, NEW T, Keeps(T), NEW n \in Node, Other(n) \in Node, Other(Other(n)) = n,
         Other(n) # n, NEW m, m.type \in TaskTypes => m.on \in Task \ T
  PROVE  /\ About(n, m) => About(n, m)'
         /\ Wire(n, m) => Wire(n, m)'
<1>1. \A k \in Node : Sent(k, m.on) /\ m.type \in TaskTypes =>
        \A l \in Node : task[l][m.on].message => l = Other(k) /\ task[l][m.on].status # "NONE"
  BY SentOther
<1>2. ASSUME m.type = "START_REMOTE_TASK", About(n, m) PROVE About(n, m)'
  <2>1. m.on \in Task \ T
    BY <1>2 DEF TaskTypes
  <2> QED BY <1>1, <1>2, <2>1 DEF About, Keeps, TaskTypes
<1>3. ASSUME m.type = "SERVE", About(n, m) PROVE About(n, m)'
  <2>1. m.on \in Task \ T
    BY <1>3 DEF TaskTypes
  <2> QED BY <1>1, <1>3, <2>1 DEF About, Keeps, TaskTypes
<1>4. ASSUME m.type = "COMPLETE_REMOTE_TASK", About(n, m) PROVE About(n, m)'
  <2>1. m.on \in Task \ T
    BY <1>4 DEF TaskTypes
  <2> QED BY <1>4, <2>1 DEF About, Keeps
<1>5. m.type \notin {"START_REMOTE_TASK", "SERVE", "COMPLETE_REMOTE_TASK"} => About(n, m)'
  BY DEF About
<1>6. ASSUME m.type = "START_REMOTE_TASK", Wire(n, m) PROVE Wire(n, m)'
  <2>1. m.on \in Task \ T
    BY <1>6 DEF TaskTypes
  <2> QED BY <1>1, <1>6, <2>1 DEF Wire, Keeps, TaskTypes
<1>7. ASSUME m.type = "COMPLETE_LOCAL_TASK", Wire(n, m) PROVE Wire(n, m)'
  <2>1. m.on \in Task \ T
    BY <1>7 DEF TaskTypes
  <2> QED BY <1>7, <2>1 DEF Wire, Keeps
<1>8. m.type \notin {"START_REMOTE_TASK", "COMPLETE_LOCAL_TASK"} => Wire(n, m)'
  BY DEF Wire
<1> QED BY <1>2, <1>3, <1>4, <1>5, <1>6, <1>7, <1>8

LEMMA GripKept ==
  ASSUME Inv1, Inv2, NEW T, Keeps(T), NEW n \in Node, Other(n) \in Node,
         NEW at, NEW t \in Task \ T, Grip(n, at, t)
  PROVE  Grip(n, at, t)'
BY DEF Grip, Keeps

\* What is said of a message, before the step and after it.
TokensKept(T) ==
  \A n \in Node :
    /\ \A i \in DOMAIN messages'[n] :
         \/ About(n, messages[n][i])'
         \/ About(n, messages'[n][i]) /\ ~(\E t \in T : Tells(messages'[n][i], t))
    /\ processer'[n].at = "process" =>
         About(n, processer'[n].msg) /\ ~(\E t \in T : Tells(processer'[n].msg, t))
    /\ processer'[n].at \in {"list", "await", "again"} =>
         \/ Grip(n, processer[n].at, processer[n].msg.on)'
         \/ Grip(n, processer'[n].at, processer'[n].msg.on) /\ processer'[n].msg.on \notin T
    /\ \A i \in DOMAIN net'[n] :
         Wire(n, net'[n][i]) /\ ~(\E t \in T : Tells(net'[n][i], t))

LEMMA TokenKept ==
  ASSUME Inv1, Inv1', Inv2, NEW T, Keeps(T), TokensKept(T)
  PROVE  TokenInv'
<1> SUFFICES ASSUME NEW n \in Node
    PROVE
    /\ \A i \in DOMAIN messages'[n] : About(n, messages[n][i])'
    /\ processer'[n].at = "process" => About(n, processer[n].msg)'
    /\ processer'[n].at \in {"list", "await", "again"} =>
         /\ Sent(Other(n), processer[n].msg.on)'
         /\ task'[n][processer'[n].msg.on].status # "NONE"
         /\ processer'[n].at = "again" => served'[processer'[n].msg.on] # "RECEIVE_REMOTE_TASK"
    /\ \A i \in DOMAIN net'[n] :
         /\ net'[n][i].type = "START_REMOTE_TASK" =>
              Sent(Other(n), net[n][i].on)' /\ task'[n][net'[n][i].on].status = "NONE"
                /\ served'[net'[n][i].on] = "RECEIVE_REMOTE_TASK"
         /\ net'[n][i].type = "COMPLETE_LOCAL_TASK" => Sent(n, net[n][i].on)'
  BY DEF TokenInv
<1>1. messages'[n] # <<>> \/ net'[n] # <<>> \/ processer'[n].at # "idle" =>
        Other(n) \in Node /\ Other(Other(n)) = n /\ Other(n) # n
  <2>1. messages'[n] # <<>> \/ net'[n] # <<>> \/ processer'[n].at # "idle" => prog'.distributed
    BY DEF Inv1, Shape, Silent
  <2> QED BY <2>1, OtherOk DEF Inv1, Typed, Keeps
<1>2. \A m \in Message : m.type \in TaskTypes => m.on \in Task
  BY DEF Message, TaskTypes
<1>3. \A m \in NetMessage : m.type \in TaskTypes => m.on \in Task
  BY DEF NetMessage, TaskTypes
<1>4. ASSUME NEW i \in DOMAIN messages'[n] PROVE About(n, messages[n][i])'
  <2>1. PICK m \in Message : m = messages'[n][i]
    BY DEF Inv1, Typed
  <2>2. messages'[n] # <<>>
    BY DEF Inv1, Typed
  <2>3. CASE About(n, m) /\ ~(\E t \in T : Tells(m, t))
    <3>1. m.type \in TaskTypes => m.on \in Task \ T
      BY <1>2, <2>1, <2>3 DEF Tells
    <3>2. About(n, m)'
      BY <1>1, <2>2, <2>3, <3>1, AboutKept
    <3> QED BY <2>1, <3>2 DEF About
  <2> QED BY <2>1, <2>3 DEF TokensKept
<1>5. ASSUME processer'[n].at = "process" PROVE About(n, processer[n].msg)'
  <2>1. PICK m \in Message : m = processer'[n].msg
    BY <1>5 DEF Inv1, Shape, ProcesserOk
  <2>2. About(n, m) /\ ~(\E t \in T : Tells(m, t))
    BY <1>5, <2>1 DEF TokensKept
  <2>3. m.type \in TaskTypes => m.on \in Task \ T
    BY <1>2, <2>1, <2>2 DEF Tells
  <2>4. About(n, m)'
    BY <1>1, <1>5, <2>2, <2>3, AboutKept
  <2> QED BY <2>1, <2>4 DEF About
<1>6. ASSUME processer'[n].at \in {"list", "await", "again"}
      PROVE  /\ Sent(Other(n), processer[n].msg.on)'
             /\ task'[n][processer'[n].msg.on].status # "NONE"
             /\ processer'[n].at = "again" =>
                  served'[processer'[n].msg.on] # "RECEIVE_REMOTE_TASK"
  <2>1. PICK at : at = processer'[n].at
    OBVIOUS
  <2>2. PICK t \in Task : t = processer'[n].msg.on
    <3>1. processer'[n].msg \in Message /\ processer'[n].msg.type = "SERVE"
      BY <1>6 DEF Inv1, Shape, ProcesserOk
    <3> QED BY <1>2, <3>1 DEF TaskTypes
  <2>3. CASE Grip(n, at, t) /\ t \notin T
    <3>1. Grip(n, at, t)'
      BY <1>1, <1>6, <2>3, GripKept
    <3>2. Sent(Other(n), t)' /\ task'[n][t].status # "NONE"
          /\ (at = "again" => served'[t] # "RECEIVE_REMOTE_TASK")
      BY <3>1 DEF Grip
    <3>3. Sent(Other(n), processer[n].msg.on)'
      BY <2>2, <3>2 DEF Sent
    <3> QED BY <2>1, <2>2, <3>2, <3>3
  <2>4. CASE Grip(n, processer[n].at, processer[n].msg.on)'
    BY <2>4 DEF Grip
  <2> QED BY <1>6, <2>1, <2>2, <2>3, <2>4 DEF TokensKept
<1>7. ASSUME NEW i \in DOMAIN net'[n]
      PROVE  /\ net'[n][i].type = "START_REMOTE_TASK" =>
                  Sent(Other(n), net[n][i].on)' /\ task'[n][net'[n][i].on].status = "NONE"
                    /\ served'[net'[n][i].on] = "RECEIVE_REMOTE_TASK"
             /\ net'[n][i].type = "COMPLETE_LOCAL_TASK" => Sent(n, net[n][i].on)'
  <2>1. PICK m \in NetMessage : m = net'[n][i]
    BY DEF Inv1, Typed
  <2>2. net'[n] # <<>>
    BY DEF Inv1, Typed
  <2>3. Wire(n, m) /\ ~(\E t \in T : Tells(m, t))
    BY <2>1 DEF TokensKept
  <2>4. m.type \in TaskTypes => m.on \in Task \ T
    BY <1>3, <2>1, <2>3 DEF Tells
  <2>5. Wire(n, m)'
    BY <1>1, <2>2, <2>3, <2>4, AboutKept
  <2>6. Wire(n, net[n][i])'
    BY <2>1, <2>5 DEF Wire
  <2> QED BY <2>6 DEF Wire
<1> QED BY <1>4, <1>5, <1>6, <1>7

LEMMA TokenNow ==
  ASSUME Inv1, Inv2, NEW n \in Node
  PROVE  /\ \A i \in DOMAIN messages[n] : About(n, messages[n][i])
         /\ processer[n].at = "process" => About(n, processer[n].msg)
         /\ processer[n].at \in {"list", "await", "again"} =>
              Grip(n, processer[n].at, processer[n].msg.on)
         /\ \A i \in DOMAIN net[n] : Wire(n, net[n][i])
BY DEF TokenInv, Inv2, Grip, Wire

-----------------------------------------------------------------------------
(* Messages move: there is still one at most about a task.                 *)

LEMMA OneParts ==
  ASSUME
    \A m, n \in Node : \A i \in DOMAIN messages'[m], k \in DOMAIN messages'[n] :
      Same(messages'[m][i], messages'[n][k]) => m = n /\ i = k,
    \A m, n \in Node : \A i \in DOMAIN net'[m], k \in DOMAIN net'[n] :
      Same(net'[m][i], net'[n][k]) => m = n /\ i = k,
    \A m, n \in Node : Carried(m)' /\ Carried(n)' /\ Same(processer'[m].msg, processer'[n].msg)
      => m = n,
    \A m, n \in Node : \A i \in DOMAIN messages'[m], k \in DOMAIN net'[n] :
      ~Same(messages'[m][i], net'[n][k]),
    \A m, n \in Node : Carried(n)' =>
         /\ \A i \in DOMAIN messages'[m] : ~Same(messages'[m][i], processer'[n].msg)
         /\ \A i \in DOMAIN net'[m] : ~Same(net'[m][i], processer'[n].msg)
  PROVE  OneTokenInv'
BY DEF OneTokenInv, Same

LEMMA SameSymmetric == \A m, k : Same(m, k) <=> Same(k, m)
BY DEF Same

\* The first message of the list goes to the processer.
LEMMA OnePopped ==
  ASSUME Inv2, NEW n \in Node, ~Carried(n), Hand(n, "process", messages[n][1]),
         GotIn(messages, messages', n), net' = net
  PROVE  OneTokenInv'
<1>1. OneTokenInv
  BY DEF Inv2
<1>2. 1 \in DOMAIN messages[n]
  BY DEF GotIn
<1>3. \A m \in Node : m # n => messages'[m] = messages[m] /\ processer'[m] = processer[m]
  BY DEF GotIn, Hand
<1>4. processer'[n].msg = messages[n][1]
  BY DEF Hand
<1>5. \A i \in DOMAIN messages'[n] : i + 1 \in DOMAIN messages[n] /\ i \in Nat \ {0}
        /\ messages'[n][i] = messages[n][i + 1] /\ i + 1 # 1
  BY DEF GotIn
<1>6. \A m \in Node : Carried(m)' => m = n \/ Carried(m)
  BY <1>3 DEF Carried
<1>7. \A m, k \in Node : \A i \in DOMAIN messages'[m], j \in DOMAIN messages'[k] :
        Same(messages'[m][i], messages'[k][j]) => m = k /\ i = j
  <2> SUFFICES ASSUME NEW m \in Node, NEW k \in Node, NEW i \in DOMAIN messages'[m],
                      NEW j \in DOMAIN messages'[k], Same(messages'[m][i], messages'[k][j])
               PROVE  m = k /\ i = j
    OBVIOUS
  <2>1. CASE m = n /\ k = n
    <3>1. i + 1 = j + 1 /\ i \in Nat /\ j \in Nat
      BY <1>1, <1>5, <2>1 DEF OneTokenInv
    <3> QED BY <2>1, <3>1
  <2>2. CASE m = n /\ k # n
    BY <1>1, <1>3, <1>5, <2>2 DEF OneTokenInv
  <2>3. CASE m # n /\ k = n
    BY <1>1, <1>3, <1>5, <2>3 DEF OneTokenInv
  <2>4. CASE m # n /\ k # n
    BY <1>1, <1>3, <2>4 DEF OneTokenInv
  <2> QED BY <2>1, <2>2, <2>3, <2>4
<1>8. \A m, k \in Node : \A i \in DOMAIN net'[m], j \in DOMAIN net'[k] :
        Same(net'[m][i], net'[k][j]) => m = k /\ i = j
  BY <1>1 DEF OneTokenInv
<1>9. \A m, k \in Node : Carried(m)' /\ Carried(k)' /\ Same(processer'[m].msg, processer'[k].msg)
        => m = k
  BY <1>1, <1>2, <1>3, <1>4, <1>6, SameSymmetric DEF OneTokenInv
<1>10. \A m, k \in Node : \A i \in DOMAIN messages'[m], j \in DOMAIN net'[k] :
        ~Same(messages'[m][i], net'[k][j])
  BY <1>1, <1>3, <1>5 DEF OneTokenInv
<1>11. \A m, k \in Node : Carried(k)' =>
         /\ \A i \in DOMAIN messages'[m] : ~Same(messages'[m][i], processer'[k].msg)
         /\ \A i \in DOMAIN net'[m] : ~Same(net'[m][i], processer'[k].msg)
  <2> SUFFICES ASSUME NEW m \in Node, NEW k \in Node, Carried(k)'
               PROVE  /\ \A i \in DOMAIN messages'[m] : ~Same(messages'[m][i], processer'[k].msg)
                      /\ \A i \in DOMAIN net'[m] : ~Same(net'[m][i], processer'[k].msg)
    OBVIOUS
  <2>1. CASE k = n
    <3>1. \A i \in DOMAIN messages'[m] : ~Same(messages'[m][i], processer'[k].msg)
      BY <1>1, <1>2, <1>3, <1>4, <1>5, <2>1 DEF OneTokenInv
    <3>2. \A i \in DOMAIN net'[m] : ~Same(net'[m][i], processer'[k].msg)
      BY <1>1, <1>2, <1>4, <2>1, SameSymmetric DEF OneTokenInv
    <3> QED BY <3>1, <3>2
  <2>2. CASE k # n
    BY <1>1, <1>3, <1>5, <1>6, <2>2 DEF OneTokenInv
  <2> QED BY <2>1, <2>2
<1> QED BY <1>7, <1>8, <1>9, <1>10, <1>11, OneParts

\* The processer sends what it has.
LEMMA OneSent ==
  ASSUME Inv2, NEW n \in Node, NEW o \in Node, Carried(n), NEW at \in {"ack", "idle"}, NEW msg,
         Hand(n, at, msg), NEW x, PutIn(net, net', o, x), messages' = messages,
         \A y : Same(x, y) => Same(processer[n].msg, y)
  PROVE  OneTokenInv'
<1>1. OneTokenInv
  BY DEF Inv2
<1>2. \A m \in Node : m # n => processer'[m] = processer[m]
  BY DEF Hand
<1>3. \A m \in Node : Carried(m)' => m # n /\ Carried(m)
  BY <1>2 DEF Carried, Hand
<1>4. \A m \in Node : \A i \in DOMAIN net'[m] :
        \/ i \in DOMAIN net[m] /\ net'[m][i] = net[m][i]
        \/ m = o /\ i = Len(net[o]) + 1 /\ net'[m][i] = x
  BY DEF PutIn
<1>5. \A m, k \in Node : \A i \in DOMAIN net'[m], j \in DOMAIN net'[k] :
        Same(net'[m][i], net'[k][j]) => m = k /\ i = j
  BY <1>1, <1>4, SameSymmetric DEF OneTokenInv
<1>6. \A m, k \in Node : \A i \in DOMAIN messages'[m], j \in DOMAIN messages'[k] :
        Same(messages'[m][i], messages'[k][j]) => m = k /\ i = j
  BY <1>1 DEF OneTokenInv
<1>7. \A m, k \in Node : Carried(m)' /\ Carried(k)' /\ Same(processer'[m].msg, processer'[k].msg)
        => m = k
  BY <1>1, <1>2, <1>3 DEF OneTokenInv
<1>8. \A m, k \in Node : \A i \in DOMAIN messages'[m], j \in DOMAIN net'[k] :
        ~Same(messages'[m][i], net'[k][j])
  BY <1>1, <1>4, SameSymmetric DEF OneTokenInv
<1>9. \A m, k \in Node : Carried(k)' =>
         /\ \A i \in DOMAIN messages'[m] : ~Same(messages'[m][i], processer'[k].msg)
         /\ \A i \in DOMAIN net'[m] : ~Same(net'[m][i], processer'[k].msg)
  BY <1>1, <1>2, <1>3, <1>4, SameSymmetric DEF OneTokenInv
<1> QED BY <1>5, <1>6, <1>7, <1>8, <1>9, OneParts

\* The processer puts its message into the list again.
LEMMA OneBack ==
  ASSUME Inv2, NEW n \in Node, Carried(n), NEW msg, Hand(n, "idle", msg),
         PutIn(messages, messages', n, processer[n].msg), net' = net
  PROVE  OneTokenInv'
<1>1. OneTokenInv
  BY DEF Inv2
<1>2. \A m \in Node : m # n => processer'[m] = processer[m]
  BY DEF Hand
<1>3. \A m \in Node : Carried(m)' => m # n /\ Carried(m)
  BY <1>2 DEF Carried, Hand
<1>4. \A m \in Node : \A i \in DOMAIN messages'[m] :
        \/ i \in DOMAIN messages[m] /\ messages'[m][i] = messages[m][i]
        \/ m = n /\ i = Len(messages[n]) + 1 /\ messages'[m][i] = processer[n].msg
  BY DEF PutIn
<1>5. \A m, k \in Node : \A i \in DOMAIN messages'[m], j \in DOMAIN messages'[k] :
        Same(messages'[m][i], messages'[k][j]) => m = k /\ i = j
  BY <1>1, <1>4, SameSymmetric DEF OneTokenInv
<1>6. \A m, k \in Node : \A i \in DOMAIN net'[m], j \in DOMAIN net'[k] :
        Same(net'[m][i], net'[k][j]) => m = k /\ i = j
  BY <1>1 DEF OneTokenInv
<1>7. \A m, k \in Node : Carried(m)' /\ Carried(k)' /\ Same(processer'[m].msg, processer'[k].msg)
        => m = k
  BY <1>1, <1>2, <1>3 DEF OneTokenInv
<1>8. \A m, k \in Node : \A i \in DOMAIN messages'[m], j \in DOMAIN net'[k] :
        ~Same(messages'[m][i], net'[k][j])
  BY <1>1, <1>4, SameSymmetric DEF OneTokenInv
<1>9. \A m, k \in Node : Carried(k)' =>
         /\ \A i \in DOMAIN messages'[m] : ~Same(messages'[m][i], processer'[k].msg)
         /\ \A i \in DOMAIN net'[m] : ~Same(net'[m][i], processer'[k].msg)
  BY <1>1, <1>2, <1>3, <1>4, SameSymmetric DEF OneTokenInv
<1> QED BY <1>5, <1>6, <1>7, <1>8, <1>9, OneParts

\* The listener puts what it has received into the list.
LEMMA OneReceived ==
  ASSUME Inv2, NEW n \in Node, NEW x, GotIn(net, net', n), PutIn(messages, messages', n, x),
         processer' = processer, \A y : Same(x, y) => Same(net[n][1], y)
  PROVE  OneTokenInv'
<1>1. OneTokenInv
  BY DEF Inv2
<1>2. 1 \in DOMAIN net[n] /\ \A m \in Node : m # n => net'[m] = net[m]
  BY DEF GotIn
<1>3. \A i \in DOMAIN net'[n] : i + 1 \in DOMAIN net[n] /\ i \in Nat \ {0}
        /\ net'[n][i] = net[n][i + 1] /\ i + 1 # 1
  BY DEF GotIn
<1>4. \A m \in Node : \A i \in DOMAIN messages'[m] :
        \/ i \in DOMAIN messages[m] /\ messages'[m][i] = messages[m][i]
        \/ m = n /\ i = Len(messages[n]) + 1 /\ messages'[m][i] = x
  BY DEF PutIn
<1>5. \A m \in Node : Carried(m)' <=> Carried(m)
  BY DEF Carried
<1>6. \A m, k \in Node : \A i \in DOMAIN messages'[m], j \in DOMAIN messages'[k] :
        Same(messages'[m][i], messages'[k][j]) => m = k /\ i = j
  BY <1>1, <1>2, <1>4, SameSymmetric DEF OneTokenInv
<1>7. \A m, k \in Node : \A i \in DOMAIN net'[m], j \in DOMAIN net'[k] :
        Same(net'[m][i], net'[k][j]) => m = k /\ i = j
  <2> SUFFICES ASSUME NEW m \in Node, NEW k \in Node, NEW i \in DOMAIN net'[m],
                      NEW j \in DOMAIN net'[k], Same(net'[m][i], net'[k][j])
               PROVE  m = k /\ i = j
    OBVIOUS
  <2>1. CASE m = n /\ k = n
    <3>1. i + 1 = j + 1 /\ i \in Nat /\ j \in Nat
      BY <1>1, <1>3, <2>1 DEF OneTokenInv
    <3> QED BY <2>1, <3>1
  <2>2. CASE m = n /\ k # n
    BY <1>1, <1>2, <1>3, <2>2 DEF OneTokenInv
  <2>3. CASE m # n /\ k = n
    BY <1>1, <1>2, <1>3, <2>3 DEF OneTokenInv
  <2>4. CASE m # n /\ k # n
    BY <1>1, <1>2, <2>4 DEF OneTokenInv
  <2> QED BY <2>1, <2>2, <2>3, <2>4
<1>8. \A m, k \in Node : Carried(m)' /\ Carried(k)' /\ Same(processer'[m].msg, processer'[k].msg)
        => m = k
  BY <1>1, <1>5 DEF OneTokenInv
<1>9. \A m, k \in Node : \A i \in DOMAIN messages'[m], j \in DOMAIN net'[k] :
        ~Same(messages'[m][i], net'[k][j])
  <2> SUFFICES ASSUME NEW m \in Node, NEW k \in Node, NEW i \in DOMAIN messages'[m],
                      NEW j \in DOMAIN net'[k], Same(messages'[m][i], net'[k][j])
               PROVE  FALSE
    OBVIOUS
  <2>1. CASE i \in DOMAIN messages[m] /\ messages'[m][i] = messages[m][i]
    BY <1>1, <1>2, <1>3, <2>1 DEF OneTokenInv
  <2>2. CASE messages'[m][i] = x
    <3>1. Same(net[n][1], net'[k][j])
      BY <2>2
    <3>2. CASE k = n
      BY <1>1, <1>2, <1>3, <3>1, <3>2 DEF OneTokenInv
    <3>3. CASE k # n
      BY <1>1, <1>2, <3>1, <3>3 DEF OneTokenInv
    <3> QED BY <3>2, <3>3
  <2> QED BY <1>4, <2>1, <2>2
<1>10. \A m, k \in Node : Carried(k)' =>
         /\ \A i \in DOMAIN messages'[m] : ~Same(messages'[m][i], processer'[k].msg)
         /\ \A i \in DOMAIN net'[m] : ~Same(net'[m][i], processer'[k].msg)
  <2>1. \A m, k \in Node : Carried(k) =>
          \A i \in DOMAIN messages'[m] : ~Same(messages'[m][i], processer[k].msg)
    BY <1>1, <1>2, <1>4 DEF OneTokenInv
  <2>2. \A m, k \in Node : Carried(k) =>
          \A i \in DOMAIN net'[m] : ~Same(net'[m][i], processer[k].msg)
    BY <1>1, <1>2, <1>3 DEF OneTokenInv
  <2> QED BY <1>5, <2>1, <2>2
<1> QED BY <1>6, <1>7, <1>8, <1>9, <1>10, OneParts

\* The processer keeps its message, or is done with it.
LEMMA OneHeld ==
  ASSUME Inv2, NEW n \in Node, NEW at, NEW msg, Hand(n, at, msg), messages' = messages, net' = net,
         at \in {"idle", "ack"} \/ (Carried(n) /\ msg = processer[n].msg)
  PROVE  OneTokenInv'
<1>1. OneTokenInv
  BY DEF Inv2
<1>2. \A m \in Node : Carried(m)' => Carried(m) /\ processer'[m].msg = processer[m].msg
  BY DEF Carried, Hand
<1> QED BY <1>1, <1>2 DEF OneTokenInv

\* A message about a task nobody has a message about.
LEMMA OneNew ==
  ASSUME Inv2, NEW n \in Node, NEW t, NoToken(t), NEW x, x.type \in TaskTypes, x.on = t,
         PutIn(messages, messages', n, x), net' = net, processer' = processer
  PROVE  OneTokenInv'
<1>1. OneTokenInv
  BY DEF Inv2
<1>2. \A m \in Node :
        /\ \A i \in DOMAIN messages[m] : ~Same(messages[m][i], x) /\ ~Same(x, messages[m][i])
        /\ \A i \in DOMAIN net[m] : ~Same(net[m][i], x) /\ ~Same(x, net[m][i])
        /\ Carried(m) => ~Same(processer[m].msg, x) /\ ~Same(x, processer[m].msg)
  BY DEF NoToken, Tells, Same
<1>3. \A m \in Node : \A i \in DOMAIN messages'[m] :
        \/ i \in DOMAIN messages[m] /\ messages'[m][i] = messages[m][i]
        \/ m = n /\ i = Len(messages[n]) + 1 /\ messages'[m][i] = x
  BY DEF PutIn
<1>4. \A m \in Node : Carried(m)' <=> Carried(m)
  BY DEF Carried
<1>5. \A m, k \in Node : \A i \in DOMAIN messages'[m], j \in DOMAIN messages'[k] :
        Same(messages'[m][i], messages'[k][j]) => m = k /\ i = j
  BY <1>1, <1>2, <1>3 DEF OneTokenInv
<1>6. \A m, k \in Node : \A i \in DOMAIN net'[m], j \in DOMAIN net'[k] :
        Same(net'[m][i], net'[k][j]) => m = k /\ i = j
  BY <1>1 DEF OneTokenInv
<1>7. \A m, k \in Node : Carried(m)' /\ Carried(k)' /\ Same(processer'[m].msg, processer'[k].msg)
        => m = k
  BY <1>1, <1>4 DEF OneTokenInv
<1>8. \A m, k \in Node : \A i \in DOMAIN messages'[m], j \in DOMAIN net'[k] :
        ~Same(messages'[m][i], net'[k][j])
  BY <1>1, <1>2, <1>3 DEF OneTokenInv
<1>9. \A m, k \in Node : Carried(k)' =>
         /\ \A i \in DOMAIN messages'[m] : ~Same(messages'[m][i], processer'[k].msg)
         /\ \A i \in DOMAIN net'[m] : ~Same(net'[m][i], processer'[k].msg)
  BY <1>1, <1>2, <1>3, <1>4 DEF OneTokenInv
<1> QED BY <1>5, <1>6, <1>7, <1>8, <1>9, OneParts

-----------------------------------------------------------------------------
(* Steps of ProcessTask and SetTaskComplete keep the invariant.            *)

LEMMA AgesKeep ==
  ASSUME Inv1, Inv2, NEW n, NEW t, NEW status, Ages(n, t, status), ServedKept,
         \A m \in Node, u \in Task : Sent(m, u) => Sent(m, u)'
  PROVE  Keeps({}) /\ ServedInv' /\ RecordInv'
<1>1. prog' = prog
  BY DEF Ages
<1>2. /\ \A m \in Node, u \in Task :
           (task'[m][u].status = "NONE" <=> task[m][u].status = "NONE")
           /\ Alike(task'[m][u], task[m][u])
      /\ RecordInv'
  BY AgesRecords
<1>3. ServedInv'
  BY <1>2, ServedInvKept DEF Alike
<1>4. Keeps({})
  BY <1>1, <1>2 DEF Keeps, ServedKept
<1> QED BY <1>2, <1>3, <1>4

\* Tokens when no message moves.
LEMMA StillTokens ==
  ASSUME Inv1, Inv1', Inv2, Keeps({}), UNCHANGED <<messages, net, processer>>
  PROVE  TokenInv' /\ OneTokenInv'
<1>1. TokensKept({})
  BY TokenNow DEF TokensKept
<1>2. TokenInv'
  BY <1>1, TokenKept
<1>3. OneTokenInv'
  BY DEF OneTokenInv, Inv2, Carried
<1> QED BY <1>2, <1>3

\* Actions when no message about an action is added.
LEMMA StillActions ==
  ASSUME Inv1, Inv1', Inv2, UNCHANGED <<prog, action, net, processer>>,
         \A n \in Node : \A i \in DOMAIN messages'[n] :
           \/ i \in DOMAIN messages[n] /\ messages'[n][i] = messages[n][i]
           \/ messages'[n][i].type \in TaskTypes,
         \A th \in Thread : \A i \in DOMAIN stack'[th] : stack'[th][i].at = "announce" =>
           i \in DOMAIN stack[th] /\ stack'[th][i] = stack[th][i]
  PROVE  ActionInv'
<1>1. /\ \A n \in Node, j \in Job : action'[n][j] = "REMOTE" =>
           prog.distributed /\ action'[Other(n)][j] = "LOCAL"
      /\ \A n \in Node : \A i \in DOMAIN net'[n] : NetOf(n, net'[n][i])
      /\ \A n \in Node : processer'[n].at = "process" => ActOf(n, processer'[n].msg)
      /\ \A n \in Node : \A i \in DOMAIN messages'[n] : ActOf(n, messages'[n][i])
  BY ActNow
<1> QED BY <1>1, ActionKept

LEMMA HandledInv2 ==
  ASSUME Inv1, Inv1', Inv2, NEW th \in Thread, Handled(th), ServedKept
  PROVE  Inv2'
<1>1. PICK status : Gone(th, status) \/ \E g : Turn(th, g, status) /\ messages' = messages
  BY DEF Handled
<1>2. CASE Gone(th, status)
  <2>1. UNCHANGED <<prog, action, net, processer, messages>>
    BY <1>2 DEF Gone
  <2>2. /\ Ages(th[1], Top(th).task, status) /\ UnsentInv'
        /\ \A n \in Node, t \in Task : Sent(n, t) => Sent(n, t)'
    BY <1>2, GoneAges
  <2>3. Keeps({}) /\ ServedInv' /\ RecordInv'
    BY <2>2, AgesKeep
  <2>4. TokenInv' /\ OneTokenInv'
    BY <2>1, <2>3, StillTokens
  <2>5. \A uh \in Thread : \A i \in DOMAIN stack'[uh] :
          i \in DOMAIN stack[uh] /\ stack'[uh][i] = stack[uh][i]
    BY <1>2, GoneFrames
  <2>6. ActionInv'
    BY <2>1, <2>5, StillActions
  <2>7. FreshInv'
    BY <1>2, GoneFresh
  <2>8. ListInv' /\ HeldInv' /\ BeginInv' /\ ReceiveInv' /\ SomewhereInv' /\ StagesInv'
    BY <1>2, GonePlaces
  <2> QED BY <2>2, <2>3, <2>4, <2>6, <2>7, <2>8 DEF Inv2
<1>3. ASSUME NEW g, Turn(th, g, status), messages' = messages PROVE Inv2'
  <2>1. UNCHANGED <<prog, action, net, processer, messages>> /\ g.at # "announce"
    BY <1>3 DEF Turn
  <2>2. /\ Ages(th[1], Top(th).task, status) /\ UnsentInv'
        /\ \A n \in Node, t \in Task : Sent(n, t) => Sent(n, t)'
    BY <1>3, TurnAges
  <2>3. Keeps({}) /\ ServedInv' /\ RecordInv'
    BY <2>2, AgesKeep
  <2>4. TokenInv' /\ OneTokenInv'
    BY <2>1, <2>3, StillTokens
  <2>5. \A uh \in Thread : \A i \in DOMAIN stack'[uh] : stack'[uh][i].at = "announce" =>
          i \in DOMAIN stack[uh] /\ stack'[uh][i] = stack[uh][i]
    BY <1>3, <2>1, TurnFrames
  <2>6. ActionInv'
    BY <2>1, <2>5, StillActions
  <2>7. FreshInv'
    BY <1>3, TurnFresh
  <2>8. ListInv' /\ HeldInv' /\ BeginInv' /\ ReceiveInv' /\ SomewhereInv' /\ StagesInv'
    BY <1>3, TurnPlaces
  <2> QED BY <2>2, <2>3, <2>4, <2>6, <2>7, <2>8 DEF Inv2
<1> QED BY <1>1, <1>2, <1>3

LEMMA MessageCompleteInv2 ==
  ASSUME Inv1, Inv2, NEW th \in Thread, MessageComplete(th)
  PROVE  Inv1' /\ Inv2'
<1>1. /\ Inv1' /\ Handled(th) /\ Mine(th) \in Task /\ task[th[1]][Mine(th)].message
      /\ served' = [served EXCEPT ![Mine(th)] = "COMPLETE_LOCAL_TASK"]
  BY MessageCompleteStep DEF Inv2
<1>2. th[1] \in Node /\ served \in
        [Task -> {"RECEIVE_REMOTE_TASK", "AWAIT_LOCAL_TASK", "COMPLETE_LOCAL_TASK"}]
  BY ThreadOk DEF Inv1, Typed
<1>3. \A t \in Task : served'[t] = IF t = Mine(th) THEN "COMPLETE_LOCAL_TASK" ELSE served[t]
  BY <1>1, <1>2
<1>4. ServedKept
  BY <1>1, <1>2, <1>3 DEF ServedKept
<1> QED BY <1>1, <1>4, HandledInv2

\* A message about a task that was not sent yet.
LEMMA SendInv2 ==
  ASSUME Inv1, Inv1', Inv2, NEW th \in Thread, Send(th)
  PROVE  Inv2'
<1> DEFINE k == th[1]  w == Top(th).task  g == Moved(th, "schedule")
<1>1. /\ Turn(th, g, "CREATED") /\ Top(th).at = "send" /\ prog.distributed /\ served' = served
      /\ messages' = [messages EXCEPT ![k] = Append(messages[k], Msg("START_REMOTE_TASK", w))]
  BY DEF Send
<1>2. /\ UNCHANGED <<prog, action, net, processer>> /\ stack[th] # <<>> /\ w # None
      /\ g.task = w /\ Changed(k, w, "CREATED")
  BY <1>1 DEF Turn
<1>3. g.at = "schedule"
  BY <1>2, MovedOp
<1>4. /\ Ages(k, w, "CREATED") /\ UnsentInv'
      /\ \A n \in Node, t \in Task : Sent(n, t) => Sent(n, t)'
  BY <1>1, TurnAges
<1>5. ServedKept
  BY <1>1 DEF ServedKept
<1>6. Keeps({}) /\ ServedInv' /\ RecordInv'
  BY <1>4, <1>5, AgesKeep
<1>7. FreshInv' /\ ListInv' /\ HeldInv' /\ BeginInv' /\ ReceiveInv' /\ SomewhereInv' /\ StagesInv'
  BY <1>1, TurnFresh, TurnPlaces
<1>8. \A uh \in Thread : \A i \in DOMAIN stack'[uh] : stack'[uh][i].at = "announce" =>
        i \in DOMAIN stack[uh] /\ stack'[uh][i] = stack[uh][i]
  BY <1>1, <1>3, TurnFrames
<1>9. /\ k \in Node /\ w \in Task /\ stack[th][Len(stack[th])] = Top(th)
      /\ Len(stack[th]) \in DOMAIN stack[th]
      /\ \A uh \in Thread : \A i \in DOMAIN stack[uh] : In(uh, i, k, w) => uh = th /\ i = Len(stack[th])
      /\ task[k][w].status = "CREATED" /\ task[k][w].type = "REMOTE"
  BY <1>1, <1>2, TopHeld, HeldTop DEF Inv2, StatusAt
<1>10. Other(k) \in Node /\ Other(k) # k /\ Other(Other(k)) = k
  BY <1>1, <1>9, OtherOk DEF Inv1, Typed
<1>11. \A n \in Node : ~Sent(n, w)
  <2>1. ~Sent(k, w)
    BY <1>1, <1>9 DEF Sent
  <2>2. ASSUME NEW n \in Node, n # k PROVE ~Sent(n, w)
    <3>1. task[n][w].type # "REMOTE"
      BY <1>9, <2>2, Records
    <3> QED BY <3>1 DEF Sent
  <2> QED BY <2>1, <2>2
<1>12. \A m \in Node : ~task[m][w].message
  BY <1>9, <1>11 DEF UnsentInv, Inv2
<1>13. task[Other(k)][w].status = "NONE" /\ served[w] = "RECEIVE_REMOTE_TASK"
  <2>1. task[Other(k)][w].status = "NONE"
    <3>1. RecordInv
      BY DEF Inv2
    <3> QED BY <1>9, <1>10, <1>12, <3>1 DEF RecordInv
  <2>2. served[w] = "RECEIVE_REMOTE_TASK"
    BY <1>9, <1>12 DEF ServedInv, Inv2
  <2> QED BY <2>1, <2>2
<1>14. task'[Other(k)][w].status = "NONE" /\ task'[k][w].status = "CREATED"
       /\ task'[k][w].type = "REMOTE"
  BY <1>2, <1>9, <1>10, <1>13 DEF Changed, Alike
<1>15. /\ Len(stack[th]) \in DOMAIN stack'[th] /\ stack'[th][Len(stack[th])] = g
  BY <1>2, <1>1, FramesReplaced DEF Turn
<1> DEFINE x == Msg("START_REMOTE_TASK", w)
<1>16. /\ x.type = "START_REMOTE_TASK" /\ x.on = w /\ x \in Message /\ x.type \in TaskTypes
  BY <1>9 DEF Msg, Message, TaskTypes
<1>17. PutIn(messages, messages', k, x)
  <2>1. InsertMessage(k, x)
    BY <1>1 DEF InsertMessage
  <2> QED BY <1>9, <1>16, <2>1, InsertOk
<1> HIDE DEF k, w, g, x
<1>18. PICK c \in Task : c = w
  BY <1>9
<1>19. Sent(k, c)'
  <2>1. task'[k][c].type = "REMOTE" /\ prog'.distributed /\ task'[k][c].status = "CREATED"
    BY <1>1, <1>2, <1>14, <1>18
  <2>2. th[1] = k /\ stack'[th][Len(stack[th])].task = c /\ stack'[th][Len(stack[th])].at = "schedule"
    BY <1>2, <1>3, <1>15, <1>18 DEF k
  <2>3. PICK i \in DOMAIN stack'[th] : i = Len(stack[th])
    BY <1>15
  <2>4. In(th, i, k, c)' /\ stack'[th][i].at = "schedule"
    BY <2>2, <2>3 DEF In
  <2> QED BY <2>1, <2>4 DEF Sent
<1>20. PICK y \in Message : y = x
  BY <1>16
<1>21. About(k, y)'
  BY <1>1, <1>13, <1>14, <1>16, <1>18, <1>19, <1>20 DEF About
<1>22. TokensKept({})
  <2> SUFFICES ASSUME NEW n \in Node, NEW i \in DOMAIN messages'[n]
               PROVE  About(n, messages[n][i])' \/ About(n, messages'[n][i])
    BY <1>2, TokenNow DEF TokensKept
  <2>1. CASE i \in DOMAIN messages[n] /\ messages'[n][i] = messages[n][i]
    BY <2>1, TokenNow
  <2>2. CASE n = k /\ messages'[n][i] = y
    BY <1>21, <2>2 DEF About
  <2> QED BY <1>17, <1>20, <2>1, <2>2 DEF PutIn
<1>23. TokenInv'
  BY <1>6, <1>22, TokenKept
<1>24. NoToken(c)
  BY <1>11, <1>18, TokenSent
<1>25. OneTokenInv'
  BY <1>2, <1>9, <1>16, <1>17, <1>18, <1>24, OneNew
<1>26. ActionInv'
  <2>1. \A n \in Node : \A i \in DOMAIN messages'[n] :
           \/ i \in DOMAIN messages[n] /\ messages'[n][i] = messages[n][i]
           \/ messages'[n][i].type \in TaskTypes
    BY <1>16, <1>17 DEF PutIn
  <2> QED BY <1>2, <1>8, <2>1, StillActions
<1> QED BY <1>4, <1>6, <1>7, <1>23, <1>25, <1>26 DEF Inv2

-----------------------------------------------------------------------------
(* Steps of the processer and the listener that touch messages only.       *)

LEMMA QuietRest ==
  ASSUME Inv1, Inv2, UNCHANGED <<prog, task, taskList, stack>>, ServedKept,
         \A n \in Node, j \in Job : action[n][j] # None => action'[n][j] = action[n][j],
         \A n \in Node, t \in Task : Receiving(n, t)' <=> Receiving(n, t)
  PROVE  /\ Keeps({}) /\ ServedInv' /\ UnsentInv' /\ StagesInv' /\ ListInv' /\ HeldInv' /\ BeginInv'
         /\ ReceiveInv' /\ SomewhereInv' /\ RecordInv' /\ FreshInv'
<1>1. /\ \A n, t : /\ Held(n, t)' <=> Held(n, t)
                   /\ Begun(n, t)' <=> Begun(n, t)
                   /\ Listed(n, t)' <=> Listed(n, t)
                   /\ Sent(n, t)' <=> Sent(n, t)
      /\ \A th, i, n, t : (In(th, i, n, t)' <=> In(th, i, n, t))
      /\ \A th, i, n, t : (Begins(th, i, n, t)' <=> Begins(th, i, n, t))
  BY DEF Held, Begun, Listed, Sent, In, Begins, OpOf, ScriptOf
<1>2. Keeps({})
  BY <1>1 DEF Keeps, ServedKept
<1>3. ServedInv'
  BY ServedInvKept
<1>4. UnsentInv'
  BY <1>1 DEF UnsentInv, Inv2
<1>5. StagesInv'
  BY DEF StagesInv, StagesFit, Inv2
<1>6. ListInv'
  BY <1>1 DEF ListInv, Inv2, Distinct
<1>7. HeldInv'
  BY <1>1 DEF HeldInv, Inv2
<1>8. BeginInv'
  BY <1>1 DEF BeginInv, Inv2
<1>9. ReceiveInv'
  BY <1>1 DEF ReceiveInv, Inv2
<1>10. SomewhereInv'
  BY <1>1 DEF SomewhereInv, Inv2
<1>11. RecordInv'
  <2>1. \A t \in Task : prog.job[t] \in Job
    BY ProgTyped DEF Inv1, Typed
  <2>2. \A n \in Node, t \in Task : task[n][t].status # "NONE" =>
          action'[n][prog.job[t]] = action[n][prog.job[t]]
    BY <2>1 DEF RecordInv, Inv2
  <2> QED BY <2>2 DEF RecordInv, Inv2
<1>12. FreshInv'
  <2>1. \A th \in Thread : \A i \in DOMAIN stack'[th] : Covered(th, stack'[th][i])
    BY CoveredNow
  <2>2. \A t \in Task : (Fresh(t) => Fresh(t)') /\ (Ran(t) => Ran(t)')
    BY DEF Fresh, Ran
  <2> QED BY <2>1, <2>2, FreshKept
<1> QED BY <1>2, <1>3, <1>4, <1>5, <1>6, <1>7, <1>8, <1>9, <1>10, <1>11, <1>12

LEMMA QuietHand ==
  ASSUME Inv1, NEW n \in Node, NEW at, NEW msg, Hand(n, at, msg), at # "list", processer[n].at # "list"
  PROVE  \A m \in Node, t \in Task : Receiving(m, t)' <=> Receiving(m, t)
BY DEF Hand, Receiving

\* A step that moves messages.
LEMMA QuietInv2 ==
  ASSUME Inv1, Inv1', Inv2, UNCHANGED <<prog, action, task, taskList, stack>>, ServedKept,
         \A n \in Node, t \in Task : Receiving(n, t)' <=> Receiving(n, t),
         TokensKept({}), OneTokenInv',
         \A n \in Node : \A i \in DOMAIN messages'[n] : ActOf(n, messages'[n][i]),
         \A n \in Node : \A i \in DOMAIN net'[n] : NetOf(n, net'[n][i]),
         \A n \in Node : processer'[n].at = "process" => ActOf(n, processer'[n].msg)
  PROVE  Inv2'
<1>1. /\ Keeps({}) /\ ServedInv' /\ UnsentInv' /\ StagesInv' /\ ListInv' /\ HeldInv' /\ BeginInv'
      /\ ReceiveInv' /\ SomewhereInv' /\ RecordInv' /\ FreshInv'
  BY QuietRest
<1>2. TokenInv'
  BY <1>1, TokenKept
<1>3. ActionInv'
  BY ActNow, ActionKept
<1> QED BY <1>1, <1>2, <1>3 DEF Inv2

LEMMA PopMessageInv2 ==
  ASSUME Inv1, Inv2, NEW n \in Node, PopMessage(n)
  PROVE  Inv1' /\ Inv2'
<1>1. /\ Inv1' /\ processer[n].at = "idle" /\ Hand(n, "process", messages[n][1])
      /\ GotIn(messages, messages', n)
  BY PopMessageStep
<1>2. UNCHANGED <<prog, action, task, taskList, stack, served, net>>
  BY DEF PopMessage, taskVars
<1>3. \A m \in Node, t \in Task : Receiving(m, t)' <=> Receiving(m, t)
  BY <1>1, QuietHand
<1>4. ServedKept
  BY <1>2 DEF ServedKept
<1>5. OneTokenInv'
  BY <1>1, <1>2, OnePopped DEF Carried
<1>6. \A m \in Node : \A i \in DOMAIN messages'[m] :
        \E k \in DOMAIN messages[m] : messages'[m][i] = messages[m][k]
  BY <1>1 DEF GotIn
<1>7. /\ 1 \in DOMAIN messages[n] /\ processer'[n].at = "process" /\ processer'[n].msg = messages[n][1]
      /\ \A m \in Node : m # n => processer'[m] = processer[m]
  BY <1>1 DEF GotIn, Hand
<1>8. TokensKept({})
  <2> SUFFICES ASSUME NEW m \in Node
      PROVE  /\ \A i \in DOMAIN messages'[m] : About(m, messages'[m][i])
             /\ processer'[m].at = "process" => About(m, processer'[m].msg)
             /\ processer'[m].at \in {"list", "await", "again"} =>
                  Grip(m, processer'[m].at, processer'[m].msg.on)
             /\ \A i \in DOMAIN net'[m] : Wire(m, net'[m][i])
    BY DEF TokensKept
  <2>1. \A i \in DOMAIN messages'[m] : About(m, messages'[m][i])
    BY <1>6, TokenNow
  <2>2. \A i \in DOMAIN net'[m] : Wire(m, net'[m][i])
    BY <1>2, TokenNow
  <2>3. CASE m = n
    BY <1>7, <2>1, <2>2, <2>3, TokenNow
  <2>4. CASE m # n
    BY <1>7, <2>1, <2>2, <2>4, TokenNow
  <2> QED BY <2>3, <2>4
<1>9. /\ \A m \in Node : \A i \in DOMAIN messages'[m] : ActOf(m, messages'[m][i])
      /\ \A m \in Node : \A i \in DOMAIN net'[m] : NetOf(m, net'[m][i])
  BY <1>2, <1>6, ActNow
<1>10. \A m \in Node : processer'[m].at = "process" => ActOf(m, processer'[m].msg)
  BY <1>7, ActNow
<1> QED BY <1>1, <1>2, <1>3, <1>4, <1>5, <1>8, <1>9, <1>10, QuietInv2

\* What one step of the processer or the listener sends or puts into the list.
LEMMA QuietMoves ==
  ASSUME Inv1, Inv1', Inv2, UNCHANGED <<prog, action, task, taskList, stack>>, ServedKept,
         NEW n \in Node, OneTokenInv',
         \A m \in Node : m # n => processer'[m] = processer[m],
         \/ processer'[n] = processer[n]
         \/ processer'[n].at \in {"idle", "ack"} /\ processer[n].at # "list",
         NEW k \in Node, NEW x, ActOf(k, x), About(k, x) \/ About(k, x)',
         messages' = messages \/ PutIn(messages, messages', k, x),
         NEW o \in Node, NEW y, NetOf(o, y), Wire(o, y),
         \/ net' = net \/ GotIn(net, net', n)
         \/ PutIn(net, net', o, y)
  PROVE  Inv2'
<1>1. \A m \in Node, t \in Task : Receiving(m, t)' <=> Receiving(m, t)
  BY DEF Receiving
<1>2. \A m \in Node : \A i \in DOMAIN messages'[m] :
        \/ i \in DOMAIN messages[m] /\ messages'[m][i] = messages[m][i]
        \/ m = k /\ messages'[m][i] = x
  BY DEF PutIn
<1>3. \A m \in Node : \A i \in DOMAIN net'[m] :
        \/ \E j \in DOMAIN net[m] : net'[m][i] = net[m][j]
        \/ m = o /\ net'[m][i] = y
  BY DEF PutIn, GotIn
<1>4. \A m \in Node : processer'[m].at \in {"process", "list", "await", "again"} =>
        processer'[m] = processer[m]
  OBVIOUS
<1>5. TokensKept({})
  <2> SUFFICES ASSUME NEW m \in Node
      PROVE  /\ \A i \in DOMAIN messages'[m] : About(m, messages'[m][i]) \/ About(m, messages[m][i])'
             /\ processer'[m].at = "process" => About(m, processer'[m].msg)
             /\ processer'[m].at \in {"list", "await", "again"} =>
                  Grip(m, processer'[m].at, processer'[m].msg.on)
             /\ \A i \in DOMAIN net'[m] : Wire(m, net'[m][i])
    BY DEF TokensKept
  <2>1. ASSUME NEW i \in DOMAIN messages'[m]
        PROVE  About(m, messages'[m][i]) \/ About(m, messages[m][i])'
    <3>1. CASE i \in DOMAIN messages[m] /\ messages'[m][i] = messages[m][i]
      BY <3>1, TokenNow
    <3>2. CASE m = k /\ messages'[m][i] = x
      BY <3>2 DEF About
    <3> QED BY <1>2, <3>1, <3>2
  <2>2. \A i \in DOMAIN net'[m] : Wire(m, net'[m][i])
    BY <1>3, TokenNow
  <2>3. processer'[m].at = "process" => About(m, processer'[m].msg)
    BY <1>4, TokenNow
  <2>4. processer'[m].at \in {"list", "await", "again"} =>
          Grip(m, processer'[m].at, processer'[m].msg.on)
    BY <1>4, TokenNow
  <2> QED BY <2>1, <2>2, <2>3, <2>4
<1>6. \A m \in Node : \A i \in DOMAIN messages'[m] : ActOf(m, messages'[m][i])
  BY <1>2, ActNow
<1>7. \A m \in Node : \A i \in DOMAIN net'[m] : NetOf(m, net'[m][i])
  BY <1>3, ActNow
<1>8. \A m \in Node : processer'[m].at = "process" => ActOf(m, processer'[m].msg)
  BY <1>4, ActNow
<1> QED BY <1>1, <1>5, <1>6, <1>7, <1>8, QuietInv2

Nothing == [type |-> "NOTHING", on |-> None]

LEMMA NothingSaid ==
  ASSUME NEW n
  PROVE  ActOf(n, Nothing) /\ NetOf(n, Nothing) /\ About(n, Nothing) /\ Wire(n, Nothing)
BY DEF Nothing, ActOf, NetOf, About, Wire, Msg

LEMMA HandParts ==
  ASSUME NEW n \in Node, NEW at, NEW msg, Hand(n, at, msg)
  PROVE  /\ processer'[n].at = at /\ processer'[n].msg = msg
         /\ \A m \in Node : m # n => processer'[m] = processer[m]
BY DEF Hand

LEMMA SendActionInv2 ==
  ASSUME Inv1, Inv2, NEW n \in Node, SendAction(n)
  PROVE  Inv1' /\ Inv2'
<1>1. /\ Inv1' /\ Subject(n) \in Job /\ Hand(n, "idle", None)
      /\ processer[n].at = "process" /\ processer[n].msg = Msg("CREATE_ACTION", Subject(n))
      /\ Other(n) \in Node /\ Other(Other(n)) = n
      /\ PutIn(net, net', Other(n), Msg("CREATE_ACTION", Subject(n)))
  BY SendActionStep
<1>2. UNCHANGED <<prog, action, task, taskList, stack, messages, served>>
  BY DEF SendAction, taskVars
<1>3. PICK y : y = Msg("CREATE_ACTION", Subject(n))
  OBVIOUS
<1>4. NetOf(Other(n), y) /\ Wire(Other(n), y)
  <2>1. action[n][Subject(n)] # None
    BY <1>1, ActNow DEF ActOf
  <2> QED BY <1>1, <1>3, <2>1 DEF NetOf, Wire, Msg
<1>5. OneTokenInv'
  <2>1. \A z : ~Same(y, z)
    BY <1>3 DEF Same, Msg, TaskTypes
  <2>2. Carried(n)
    BY <1>1 DEF Carried
  <2> QED BY <1>1, <1>2, <1>3, <2>1, <2>2, OneSent
<1>6. ServedKept
  BY <1>2 DEF ServedKept
<1>7. processer'[n].at = "idle" /\ \A m \in Node : m # n => processer'[m] = processer[m]
  BY <1>1, HandParts
<1> QED BY <1>1, <1>2, <1>3, <1>4, <1>5, <1>6, <1>7, NothingSaid, QuietMoves

LEMMA StartRemoteTaskInv2 ==
  ASSUME Inv1, Inv2, NEW n \in Node, StartRemoteTask(n)
  PROVE  Inv1' /\ Inv2'
<1>1. /\ Inv1' /\ Subject(n) \in Task /\ Hand(n, "ack", processer[n].msg)
      /\ processer[n].at = "process" /\ processer[n].msg.type = "START_REMOTE_TASK"
      /\ Other(n) \in Node /\ Other(Other(n)) = n
      /\ PutIn(net, net', Other(n), Msg("START_REMOTE_TASK", Subject(n)))
  BY StartRemoteTaskStep
<1>2. UNCHANGED <<prog, action, task, taskList, stack, messages, served>>
  BY DEF StartRemoteTask, taskVars
<1>3. PICK y : y = Msg("START_REMOTE_TASK", Subject(n))
  OBVIOUS
<1>4. y.type = "START_REMOTE_TASK" /\ y.on = processer[n].msg.on
  BY <1>3 DEF Msg, Subject
<1>5. NetOf(Other(n), y) /\ Wire(Other(n), y)
  <2>1. About(n, processer[n].msg)
    BY <1>1, TokenNow
  <2>2. NetOf(Other(n), y)
    BY <1>1, <1>4, ActNow DEF TaskTypes
  <2>3. Wire(Other(n), y)
    BY <1>1, <1>4, <2>1 DEF Wire, About
  <2> QED BY <2>2, <2>3
<1>6. OneTokenInv'
  <2>1. \A z : Same(y, z) => Same(processer[n].msg, z)
    BY <1>1, <1>4 DEF Same, TaskTypes
  <2>2. Carried(n)
    BY <1>1 DEF Carried
  <2> QED BY <1>1, <1>2, <1>3, <2>1, <2>2, OneSent
<1>7. ServedKept
  BY <1>2 DEF ServedKept
<1>8. processer'[n].at = "ack" /\ \A m \in Node : m # n => processer'[m] = processer[m]
  BY <1>1, HandParts
<1> QED BY <1>1, <1>2, <1>3, <1>5, <1>6, <1>7, <1>8, NothingSaid, QuietMoves

LEMMA CompleteLocalTaskInv2 ==
  ASSUME Inv1, Inv2, NEW n \in Node, CompleteLocalTask(n)
  PROVE  Inv1' /\ Inv2'
<1>1. /\ Inv1' /\ Subject(n) \in Task /\ Hand(n, "ack", processer[n].msg)
      /\ processer[n].at = "process" /\ processer[n].msg.type = "SERVE"
      /\ Other(n) \in Node /\ Other(Other(n)) = n
      /\ PutIn(net, net', Other(n), Msg("COMPLETE_LOCAL_TASK", Subject(n)))
  BY CompleteLocalTaskStep
<1>2. UNCHANGED <<prog, action, task, taskList, stack, messages, served>>
  BY DEF CompleteLocalTask, taskVars
<1>3. PICK y : y = Msg("COMPLETE_LOCAL_TASK", Subject(n))
  OBVIOUS
<1>4. y.type = "COMPLETE_LOCAL_TASK" /\ y.on = processer[n].msg.on
  BY <1>3 DEF Msg, Subject
<1>5. NetOf(Other(n), y) /\ Wire(Other(n), y)
  <2>1. About(n, processer[n].msg)
    BY <1>1, TokenNow
  <2>2. NetOf(Other(n), y)
    BY <1>1, <1>4, ActNow DEF TaskTypes
  <2>3. Wire(Other(n), y)
    BY <1>1, <1>4, <2>1 DEF Wire, About
  <2> QED BY <2>2, <2>3
<1>6. OneTokenInv'
  <2>1. \A z : Same(y, z) => Same(processer[n].msg, z)
    BY <1>1, <1>4 DEF Same, TaskTypes
  <2>2. Carried(n)
    BY <1>1 DEF Carried
  <2> QED BY <1>1, <1>2, <1>3, <2>1, <2>2, OneSent
<1>7. ServedKept
  BY <1>2 DEF ServedKept
<1>8. processer'[n].at = "ack" /\ \A m \in Node : m # n => processer'[m] = processer[m]
  BY <1>1, HandParts
<1> QED BY <1>1, <1>2, <1>3, <1>5, <1>6, <1>7, <1>8, NothingSaid, QuietMoves

LEMMA AwaitAckInv2 ==
  ASSUME Inv1, Inv2, NEW n \in Node, AwaitAck(n)
  PROVE  Inv1' /\ Inv2'
<1>1. Inv1' /\ Hand(n, "idle", None) /\ processer[n].at = "ack"
  BY AwaitAckStep
<1>2. UNCHANGED <<prog, action, task, taskList, stack, messages, served, net>>
  BY DEF AwaitAck, taskVars
<1>3. OneTokenInv'
  BY <1>1, <1>2, OneHeld
<1>4. ServedKept
  BY <1>2 DEF ServedKept
<1>5. processer'[n].at = "idle" /\ \A m \in Node : m # n => processer'[m] = processer[m]
  BY <1>1, HandParts
<1> QED BY <1>1, <1>2, <1>3, <1>4, <1>5, NothingSaid, QuietMoves

\* A task that is sent to a node and known there was received.
LEMMA ServedHere ==
  ASSUME Inv1, Inv2, NEW n \in Node, Other(n) \in Node, Other(n) # n, NEW t \in Task,
         Sent(Other(n), t), task[n][t].status # "NONE"
  PROVE  task[n][t].message
<1>1. task[Other(n)][t].type = "REMOTE" /\ RecordInv
  BY DEF Sent, Inv2
<1>2. task[Other(n)][t].status # "NONE" /\ ~task[Other(n)][t].message
  BY <1>1, Records
<1> QED BY <1>1, <1>2 DEF RecordInv

LEMMA SetAwaitingInv2 ==
  ASSUME Inv1, Inv2, NEW n \in Node, SetAwaiting(n)
  PROVE  Inv1' /\ Inv2'
<1>1. /\ Inv1' /\ Subject(n) \in Task /\ Hand(n, "idle", None)
      /\ processer[n].at = "await" /\ processer[n].msg.type = "SERVE"
      /\ processer[n].msg \in Message /\ PutIn(messages, messages', n, processer[n].msg)
      /\ served' = [served EXCEPT ![Subject(n)] = "AWAIT_LOCAL_TASK"]
  BY SetAwaitingStep
<1>2. UNCHANGED <<prog, action, task, taskList, stack, net>>
  BY DEF SetAwaiting, taskVars
<1>3. PICK x : x = processer[n].msg
  OBVIOUS
<1>4. PICK t \in Task : t = Subject(n)
  BY <1>1
<1>5. x.type = "SERVE" /\ x.on = t
  BY <1>1, <1>3, <1>4 DEF Subject
<1>6. Other(n) \in Node /\ Other(n) # n /\ Other(Other(n)) = n
  BY <1>1, Busy
<1>7. Sent(Other(n), t) /\ task[n][t].status # "NONE"
  BY <1>1, <1>3, <1>5, TokenNow DEF Grip
<1>8. task[n][t].message
  BY <1>6, <1>7, ServedHere
<1>9. \A u \in Task : served'[u] = IF u = t THEN "AWAIT_LOCAL_TASK" ELSE served[u]
  BY <1>1, <1>4 DEF Inv1, Typed
<1>10. ServedKept
  BY <1>8, <1>9 DEF ServedKept
<1>11. About(n, x)'
  <2>1. Sent(Other(n), t)'
    BY <1>2, <1>7 DEF Sent, In
  <2> QED BY <1>2, <1>5, <1>7, <1>9, <2>1 DEF About
<1>12. ActOf(n, x)
  BY <1>5, ActNow DEF TaskTypes
<1>13. OneTokenInv'
  BY <1>1, <1>2, OneBack DEF Carried
<1>14. processer'[n].at = "idle" /\ \A m \in Node : m # n => processer'[m] = processer[m]
  BY <1>1, HandParts
<1> QED BY <1>1, <1>2, <1>3, <1>10, <1>11, <1>12, <1>13, <1>14, NothingSaid, QuietMoves

LEMMA AwaitLocalTaskInv2 ==
  ASSUME Inv1, Inv2, NEW n \in Node, AwaitLocalTask(n)
  PROVE  Inv1' /\ Inv2'
<1>1. /\ Inv1' /\ Subject(n) \in Task /\ Hand(n, "idle", None)
      /\ processer[n].at = "again" /\ processer[n].msg.type = "SERVE"
      /\ processer[n].msg \in Message /\ PutIn(messages, messages', n, processer[n].msg)
  BY AwaitLocalTaskStep
<1>2. UNCHANGED <<prog, action, task, taskList, stack, net, served>>
  BY DEF AwaitLocalTask, taskVars
<1>3. PICK x : x = processer[n].msg
  OBVIOUS
<1>4. About(n, x) /\ ActOf(n, x)
  <2>1. ActOf(n, x)
    BY <1>1, <1>3, ActNow DEF TaskTypes
  <2>2. About(n, x)
    BY <1>1, <1>3, TokenNow DEF Grip, About
  <2> QED BY <2>1, <2>2
<1>5. OneTokenInv'
  BY <1>1, <1>2, OneBack DEF Carried
<1>6. ServedKept
  BY <1>2 DEF ServedKept
<1>7. processer'[n].at = "idle" /\ \A m \in Node : m # n => processer'[m] = processer[m]
  BY <1>1, HandParts
<1> QED BY <1>1, <1>2, <1>3, <1>4, <1>5, <1>6, <1>7, NothingSaid, QuietMoves

LEMMA ListenerStepInv2 ==
  ASSUME Inv1, Inv2, NEW n \in Node, ListenerStep(n)
  PROVE  Inv1' /\ Inv2'
<1>1. /\ Inv1' /\ net[n][1] \in NetMessage /\ GotIn(net, net', n)
      /\ PutIn(messages, messages', n, Decode(net[n][1]))
      /\ Other(n) \in Node /\ Other(Other(n)) = n /\ Other(n) # n
  BY ListenerStepStep
<1>2. UNCHANGED <<prog, action, task, taskList, stack, served, processer>>
  BY DEF ListenerStep, taskVars
<1>3. PICK m \in NetMessage : m = net[n][1]
  BY <1>1
<1>4. PICK x : x = Decode(m)
  OBVIOUS
<1>5. /\ x.on = m.on
      /\ m.type = "START_REMOTE_TASK" => x.type = "SERVE"
      /\ m.type = "COMPLETE_LOCAL_TASK" => x.type = "COMPLETE_REMOTE_TASK"
      /\ m.type = "CREATE_ACTION" =>
           x = Msg("ADD_REMOTE_ACTION", m.on) /\ m = Msg("CREATE_ACTION", m.on) /\ m.on \in Job
      /\ m.type \in {"START_REMOTE_TASK", "COMPLETE_LOCAL_TASK", "CREATE_ACTION"}
  BY <1>4, DecodeOk
<1>6. 1 \in DOMAIN net[n] /\ Wire(n, m) /\ NetOf(n, m)
  BY <1>1, <1>3, TokenNow, ActNow DEF GotIn
<1>7. About(n, x) /\ ActOf(n, x)
  <2>1. CASE m.type = "START_REMOTE_TASK"
    <3>1. About(n, x)
      BY <1>5, <1>6, <2>1 DEF About, Wire
    <3> QED BY <1>5, <2>1, <3>1, ActNow DEF TaskTypes
  <2>2. CASE m.type = "COMPLETE_LOCAL_TASK"
    <3>1. About(n, x)
      BY <1>5, <1>6, <2>2 DEF About, Wire
    <3> QED BY <1>5, <2>2, <3>1, ActNow DEF TaskTypes
  <2>3. CASE m.type = "CREATE_ACTION"
    <3>1. action[Other(n)][m.on] # None
      BY <1>5, <1>6, <2>3 DEF NetOf
    <3>2. x.type = "ADD_REMOTE_ACTION" /\ x.on = m.on
      BY <1>5, <2>3 DEF Msg
    <3>3. ActOf(n, x)
      BY <3>1, <3>2 DEF ActOf, Msg
    <3> QED BY <3>2, <3>3 DEF About
  <2> QED BY <1>5, <2>1, <2>2, <2>3
<1>8. OneTokenInv'
  <2>1. \A y : Same(x, y) => Same(net[n][1], y)
    BY <1>3, <1>5 DEF Same, TaskTypes, Msg
  <2> QED BY <1>1, <1>2, <1>3, <1>4, <2>1, OneReceived
<1>9. ServedKept
  BY <1>2 DEF ServedKept
<1> QED BY <1>1, <1>2, <1>3, <1>4, <1>7, <1>8, <1>9, NothingSaid, QuietMoves

LEMMA SeeAwaitingInv2 ==
  ASSUME Inv1, Inv2, NEW n \in Node, SeeAwaiting(n)
  PROVE  Inv1' /\ Inv2'
<1>1. /\ Inv1' /\ Subject(n) \in Task /\ Hand(n, "again", processer[n].msg)
      /\ processer[n].at = "process" /\ processer[n].msg.type = "SERVE"
      /\ served[Subject(n)] = "AWAIT_LOCAL_TASK"
  BY SeeAwaitingStep
<1>2. UNCHANGED <<prog, action, task, taskList, stack, messages, served, net>>
  BY DEF SeeAwaiting, taskVars
<1>3. /\ processer'[n].at = "again" /\ processer'[n].msg = processer[n].msg
      /\ \A m \in Node : m # n => processer'[m] = processer[m]
  BY <1>1, HandParts
<1>4. \A m \in Node, t \in Task : Receiving(m, t)' <=> Receiving(m, t)
  BY <1>1, QuietHand
<1>5. ServedKept
  BY <1>2 DEF ServedKept
<1>6. OneTokenInv'
  BY <1>1, <1>2, OneHeld DEF Carried
<1>7. Grip(n, "again", processer[n].msg.on)
  BY <1>1, TokenNow DEF About, Grip, Subject
<1>8. TokensKept({})
  BY <1>2, <1>3, <1>7, TokenNow DEF TokensKept
<1>9. /\ \A m \in Node : \A i \in DOMAIN messages'[m] : ActOf(m, messages'[m][i])
      /\ \A m \in Node : \A i \in DOMAIN net'[m] : NetOf(m, net'[m][i])
      /\ \A m \in Node : processer'[m].at = "process" => ActOf(m, processer'[m].msg)
  BY <1>2, <1>3, ActNow
<1> QED BY <1>1, <1>2, <1>4, <1>5, <1>6, <1>8, <1>9, QuietInv2

-----------------------------------------------------------------------------
(* Steps of the processer that change actions or tasks.                    *)

LEMMA AddRemoteActionInv2 ==
  ASSUME Inv1, Inv2, NEW n \in Node, AddRemoteAction(n)
  PROVE  Inv1' /\ Inv2'
<1>1. /\ Inv1' /\ Subject(n) \in Job /\ Hand(n, "idle", None) /\ prog.distributed
      /\ processer[n].at = "process" /\ processer[n].msg = Msg("ADD_REMOTE_ACTION", Subject(n))
      /\ Other(n) \in Node /\ Other(n) # n
      /\ action' = [action EXCEPT ![n][Subject(n)] =
                      IF action[n][Subject(n)] = None THEN "REMOTE" ELSE action[n][Subject(n)]]
  BY AddRemoteActionStep
<1>2. UNCHANGED <<prog, task, taskList, stack, messages, served, net>>
  BY DEF AddRemoteAction
<1>3. PICK s \in Job : s = Subject(n)
  BY <1>1
<1>4. action \in [Node -> [Job -> {None, "LOCAL", "REMOTE"}]]
  BY DEF Inv1, Typed
<1>5. \A m \in Node, j \in Job :
        action'[m][j] = IF m = n /\ j = s /\ action[m][j] = None THEN "REMOTE" ELSE action[m][j]
  BY <1>1, <1>3, <1>4
<1>6. \A m \in Node, j \in Job : action[m][j] # None => action'[m][j] = action[m][j]
  BY <1>5
<1>7. processer'[n].at = "idle" /\ \A m \in Node : m # n => processer'[m] = processer[m]
  BY <1>1, HandParts
<1>8. \A m \in Node, t \in Task : Receiving(m, t)' <=> Receiving(m, t)
  BY <1>1, QuietHand
<1>9. ServedKept
  BY <1>2 DEF ServedKept
<1>10. /\ Keeps({}) /\ ServedInv' /\ UnsentInv' /\ StagesInv' /\ ListInv' /\ HeldInv' /\ BeginInv'
       /\ ReceiveInv' /\ SomewhereInv' /\ RecordInv' /\ FreshInv'
  BY <1>2, <1>6, <1>8, <1>9, QuietRest
<1>11. TokensKept({})
  BY <1>2, <1>7, TokenNow DEF TokensKept
<1>12. TokenInv' /\ OneTokenInv'
  BY <1>1, <1>2, <1>10, <1>11, TokenKept, OneHeld
<1>13. ActionInv'
  <2>1. action[Other(n)][s] # None
    BY <1>1, <1>3, ActNow DEF ActOf
  <2>2. Other(Other(n)) = n
    BY <1>1, OtherOk DEF Inv1, Typed
  <2>3. action[n][s] = None => action[Other(n)][s] = "LOCAL"
    BY <1>1, <1>4, <2>1, <2>2, ActNow, MtapiAssumption
  <2>4. ASSUME NEW m \in Node, NEW j \in Job, action'[m][j] = "REMOTE"
        PROVE  prog.distributed /\ action'[Other(m)][j] = "LOCAL"
    <3>1. CASE m = n /\ j = s /\ action[m][j] = None
      BY <1>1, <1>5, <2>3, <3>1
    <3>2. CASE ~(m = n /\ j = s /\ action[m][j] = None)
      <4>1. action[m][j] = "REMOTE"
        BY <1>5, <2>4, <3>2
      <4>2. action[Other(m)][j] = "LOCAL" /\ Other(m) \in Node
        BY <1>1, <4>1, ActNow, OtherOk DEF Inv1, Typed
      <4> QED BY <1>1, <1>6, <4>2, MtapiAssumption
    <3> QED BY <3>1, <3>2
  <2>5. \A m \in Node, j \in Job : action[m][j] # None => action'[m][j] # None
    BY <1>6
  <2>6. /\ \A m \in Node : \A i \in DOMAIN messages'[m] : ActOf(m, messages'[m][i])
        /\ \A m \in Node : \A i \in DOMAIN net'[m] : NetOf(m, net'[m][i])
        /\ \A m \in Node : processer'[m].at = "process" => ActOf(m, processer'[m].msg)
    BY <1>2, <1>7, ActNow
  <2> QED BY <1>1, <1>2, <2>4, <2>5, <2>6, ActionKept
<1> QED BY <1>1, <1>10, <1>12, <1>13 DEF Inv2

\* A task that is somewhere has been started.
LEMMA MadeSomewhere ==
  ASSUME Inv1, Inv2, NEW n \in Node, NEW t \in Task, task[n][t].status = "NONE"
  PROVE  ~Listed(n, t) /\ ~Held(n, t) /\ ~Begun(n, t) /\ ~Receiving(n, t)
<1>1. ~Listed(n, t)
  BY DEF ListInv, Inv2, Listed
<1>2. ~Held(n, t)
  <2> SUFFICES ASSUME NEW th \in Thread, NEW i \in DOMAIN stack[th], In(th, i, n, t) PROVE FALSE
    BY DEF Held
  <2>1. stack[th][i] \in FrameType /\ stack[th][i].task = t /\ th[1] = n /\ t # None
    BY MtapiAssumption DEF In, Inv1, Typed
  <2>2. StatusAt(stack[th][i].at, task[n][t].status, task[n][t].type)
    BY <2>1 DEF HeldInv, Inv2
  <2> QED BY <2>1, <2>2 DEF StatusAt, RunPlace, FrameType, Place
<1>3. ~Begun(n, t)
  <2> SUFFICES ASSUME NEW th \in Thread, NEW i \in DOMAIN stack[th], Begins(th, i, n, t) PROVE FALSE
    BY DEF Begun
  <2>1. th[1] = n
    BY DEF Begins
  <2> QED BY <2>1 DEF BeginInv, Inv2
<1>4. ~Receiving(n, t)
  BY DEF ReceiveInv, Inv2
<1> QED BY <1>1, <1>2, <1>3, <1>4

\* Nobody else has a message about the task of the processer's message.
LEMMA OnlyToken ==
  ASSUME Inv1, Inv2, NEW n \in Node, Carried(n), processer[n].msg.type \in TaskTypes
  PROVE  \A m \in Node :
           /\ \A i \in DOMAIN messages[m] : ~Tells(messages[m][i], processer[n].msg.on)
           /\ \A i \in DOMAIN net[m] : ~Tells(net[m][i], processer[n].msg.on)
           /\ m # n /\ Carried(m) => ~Tells(processer[m].msg, processer[n].msg.on)
BY DEF OneTokenInv, Inv2, Tells, Same

LEMMA CompleteRemoteTaskInv2 ==
  ASSUME Inv1, Inv2, NEW n \in Node, CompleteRemoteTask(n)
  PROVE  Inv1' /\ Inv2'
<1>1. /\ Inv1' /\ Subject(n) \in Task /\ Hand(n, "idle", None)
      /\ processer[n].at = "process" /\ processer[n].msg.type = "COMPLETE_REMOTE_TASK"
      /\ Changed(n, Subject(n), "WAITING")
  BY CompleteRemoteTaskStep
<1>2. UNCHANGED <<prog, action, taskList, stack, messages, served, net>>
  BY DEF CompleteRemoteTask
<1>3. PICK t \in Task : t = Subject(n)
  BY <1>1
<1>4. processer'[n].at = "idle" /\ \A m \in Node : m # n => processer'[m] = processer[m]
  BY <1>1, HandParts
<1>5. Sent(n, t)
  BY <1>1, <1>3, TokenNow DEF About, Subject
<1>6. /\ \A m \in Node, u \in Task : Alike(task'[m][u], task[m][u])
      /\ \A m \in Node, u \in Task : m # n \/ u # t => task'[m][u].status = task[m][u].status
      /\ task'[n][t].status = "WAITING"
      /\ \A m \in Node, u \in Task : task'[m][u].type = task[m][u].type
  BY <1>1, <1>3 DEF Changed, Alike
<1>7. task[n][t].status \in {"CREATED", "SCHEDULED"} /\ task[n][t].type = "REMOTE"
  BY <1>5 DEF Sent
<1>8. Ages(n, t, "WAITING")
  BY <1>1, <1>2, <1>3, <1>7 DEF Ages
<1>9. /\ RecordInv' /\ \A u \in Task : (Fresh(u) => Fresh(u)') /\ (Ran(u) => Ran(u)')
      /\ \A m \in Node, u \in Task : task'[m][u].status = "NONE" <=> task[m][u].status = "NONE"
  BY <1>8, AgesRecords
<1>10. FreshInv'
  <2>1. \A th \in Thread : \A i \in DOMAIN stack'[th] : Covered(th, stack'[th][i])
    BY <1>2, CoveredNow
  <2> QED BY <1>2, <1>9, <2>1, FreshKept
<1>11. /\ \A m \in Node, u \in Task :
            /\ Held(m, u)' <=> Held(m, u)
            /\ Begun(m, u)' <=> Begun(m, u)
            /\ Listed(m, u)' <=> Listed(m, u)
            /\ Receiving(m, u)' <=> Receiving(m, u)
       /\ \A th, i, m, u : (In(th, i, m, u)' <=> In(th, i, m, u))
       /\ \A th, i, m, u : (Begins(th, i, m, u)' <=> Begins(th, i, m, u))
  <2>1. \A m \in Node, u \in Task : Receiving(m, u)' <=> Receiving(m, u)
    BY <1>1, QuietHand
  <2> QED BY <1>2, <2>1 DEF Held, Begun, Listed, In, Begins, OpOf, ScriptOf
<1>12. ServedInv'
  BY <1>2, <1>6 DEF ServedInv, Inv2, Alike
<1>13. ASSUME NEW m \in Node, NEW u \in Task, m # n \/ u # t PROVE Sent(m, u)' <=> Sent(m, u)
  BY <1>2, <1>6, <1>11, <1>13 DEF Sent
<1>14. UnsentInv'
  BY <1>6, <1>13 DEF UnsentInv, Inv2, Alike
<1>15. StagesInv'
  <2> SUFFICES ASSUME NEW uh \in Thread, NEW i \in DOMAIN stack[uh], stack[uh][i].at = "complete"
               PROVE  StagesFit(stack[uh][i].stages, task'[uh[1]][stack[uh][i].task])
    BY <1>2 DEF StagesInv
  <2>1. uh[1] \in Node /\ stack[uh][i].task \in Task
    <3>1. stack[uh][i] \in FrameType /\ GoodFrame(uh, i, stack[uh][i])
      BY DEF Inv1, Typed, Shape, StackOk
    <3>2. stack[uh][i].task # None
      BY <3>1 DEF GoodFrame, RunPlace
    <3> QED BY <3>1, <3>2, ThreadOk DEF FrameType
  <2>2. StagesFit(stack[uh][i].stages, task[uh[1]][stack[uh][i].task])
    BY DEF StagesInv, Inv2
  <2> QED BY <1>6, <2>1, <2>2, FitAlike
<1>16. ListInv'
  <2> SUFFICES ASSUME NEW m \in Node
      PROVE  /\ Distinct(taskList[m])
             /\ \A i \in DOMAIN taskList[m] :
                  /\ task'[m][taskList[m][i]].status \in {"CREATED", "SCHEDULED", "WAITING"}
                  /\ ~Held(m, taskList[m][i])
    BY <1>2, <1>11 DEF ListInv, Distinct, Held, In
  <2>1. \A i \in DOMAIN taskList[m] : taskList[m][i] \in Task
    BY ListTyped
  <2> QED BY <1>6, <2>1 DEF ListInv, Inv2
<1>17. HeldInv'
  <2> SUFFICES ASSUME NEW uh \in Thread, NEW i \in DOMAIN stack[uh], stack[uh][i].task # None
               PROVE  /\ StatusAt(stack[uh][i].at, task'[uh[1]][stack[uh][i].task].status,
                                  task'[uh[1]][stack[uh][i].task].type)
                      /\ \A vh \in Thread : \A j \in DOMAIN stack[vh] :
                           In(vh, j, uh[1], stack[uh][i].task) => vh = uh /\ j = i
    BY <1>2 DEF HeldInv, In
  <2>1. stack[uh][i] \in FrameType /\ uh[1] \in Node /\ stack[uh][i].task \in Task
    <3>1. stack[uh][i] \in FrameType
      BY DEF Inv1, Typed
    <3> QED BY <3>1, ThreadOk DEF FrameType
  <2>2. StatusAt(stack[uh][i].at, task[uh[1]][stack[uh][i].task].status,
                 task[uh[1]][stack[uh][i].task].type)
        /\ \A vh \in Thread : \A j \in DOMAIN stack[vh] :
             In(vh, j, uh[1], stack[uh][i].task) => vh = uh /\ j = i
    BY DEF HeldInv, Inv2
  <2>3. CASE uh[1] # n \/ stack[uh][i].task # t
    BY <1>6, <2>1, <2>2, <2>3
  <2>4. CASE uh[1] = n /\ stack[uh][i].task = t
    <3>1. stack[uh][i].at # "send"
      <4>1. CASE task[n][t].status = "SCHEDULED"
        BY <2>2, <2>4, <4>1 DEF StatusAt
      <4>2. CASE task[n][t].status # "SCHEDULED"
        <5>1. PICK vh \in Thread : \E j \in DOMAIN stack[vh] :
                In(vh, j, n, t) /\ stack[vh][j].at = "schedule"
          BY <1>5, <4>2 DEF Sent
        <5>2. PICK j \in DOMAIN stack[vh] : In(vh, j, n, t) /\ stack[vh][j].at = "schedule"
          BY <5>1
        <5>3. vh = uh /\ j = i
          BY <2>2, <2>4, <5>2
        <5> QED BY <5>2, <5>3
      <4> QED BY <4>1, <4>2
    <3>2. StatusAt(stack[uh][i].at, "WAITING", "REMOTE")
      BY <1>7, <2>2, <2>4, <3>1 DEF StatusAt
    <3> QED BY <1>6, <1>7, <2>2, <2>4, <3>2
  <2> QED BY <2>3, <2>4
<1>18. BeginInv'
  <2> SUFFICES ASSUME NEW uh \in Thread, NEW i \in DOMAIN stack[uh], NEW u \in Task,
                      Begins(uh, i, uh[1], u)
               PROVE  /\ task'[uh[1]][u].status = "CREATED"
                      /\ task'[uh[1]][u].queue = prog.queue[u]
                      /\ task'[uh[1]][u].group = prog.group[u]
                      /\ ~task'[uh[1]][u].message
                      /\ ~Listed(uh[1], u) /\ ~Held(uh[1], u)
    BY <1>2, <1>11, ThreadOk DEF BeginInv
  <2>1. uh[1] \in Node
    BY ThreadOk
  <2>2. task[uh[1]][u].status = "CREATED" /\ ~Held(uh[1], u)
    BY DEF BeginInv, Inv2
  <2>3. uh[1] # n \/ u # t
    BY <1>5, <2>2 DEF Sent, Held
  <2> QED BY <1>6, <2>1, <2>3 DEF BeginInv, Inv2, Alike
<1>19. ReceiveInv'
  <2>1. ~Receiving(n, t)
    BY <1>7, Records DEF ReceiveInv, Inv2
  <2> QED BY <1>6, <1>11, <2>1 DEF ReceiveInv, Inv2, Alike
<1>20. SomewhereInv'
  BY <1>6, <1>7, <1>11 DEF SomewhereInv, Inv2
<1>21. Keeps({t})
  BY <1>2, <1>9, <1>13 DEF Keeps
<1>22. TokensKept({t})
  <2>1. processer[n].msg.on = t /\ Carried(n)
    BY <1>1, <1>3 DEF Subject, Carried
  <2>2. \A m \in Node :
           /\ \A i \in DOMAIN messages[m] : ~Tells(messages[m][i], t)
           /\ \A i \in DOMAIN net[m] : ~Tells(net[m][i], t)
           /\ m # n /\ Carried(m) => ~Tells(processer[m].msg, t)
    BY <1>1, <2>1, OnlyToken DEF TaskTypes
  <2> SUFFICES ASSUME NEW m \in Node
      PROVE  /\ \A i \in DOMAIN messages'[m] : About(m, messages'[m][i]) /\ ~Tells(messages'[m][i], t)
             /\ processer'[m].at = "process" =>
                  About(m, processer'[m].msg) /\ ~Tells(processer'[m].msg, t)
             /\ processer'[m].at \in {"list", "await", "again"} =>
                  Grip(m, processer'[m].at, processer'[m].msg.on) /\ processer'[m].msg.on # t
             /\ \A i \in DOMAIN net'[m] : Wire(m, net'[m][i]) /\ ~Tells(net'[m][i], t)
    BY DEF TokensKept
  <2>3. /\ \A i \in DOMAIN messages'[m] : About(m, messages'[m][i]) /\ ~Tells(messages'[m][i], t)
        /\ \A i \in DOMAIN net'[m] : Wire(m, net'[m][i]) /\ ~Tells(net'[m][i], t)
    BY <1>2, <2>2, TokenNow
  <2>4. processer'[m].at = "process" =>
          About(m, processer'[m].msg) /\ ~Tells(processer'[m].msg, t)
    BY <1>4, <2>2, TokenNow DEF Carried
  <2>5. ASSUME processer'[m].at \in {"list", "await", "again"}
        PROVE  Grip(m, processer'[m].at, processer'[m].msg.on) /\ processer'[m].msg.on # t
    <3>1. m # n /\ processer'[m] = processer[m] /\ Carried(m)
      BY <1>4, <2>5 DEF Carried
    <3>2. processer[m].msg.type = "SERVE"
      BY <2>5, <3>1, MessageTyped
    <3> QED BY <2>2, <2>5, <3>1, <3>2, TokenNow DEF Tells, TaskTypes
  <2> QED BY <2>3, <2>4, <2>5
<1>23. TokenInv' /\ OneTokenInv'
  BY <1>1, <1>2, <1>21, <1>22, TokenKept, OneHeld
<1>24. ActionInv'
  <2>1. /\ \A m \in Node : \A i \in DOMAIN messages'[m] : ActOf(m, messages'[m][i])
        /\ \A m \in Node : \A i \in DOMAIN net'[m] : NetOf(m, net'[m][i])
        /\ \A m \in Node : processer'[m].at = "process" => ActOf(m, processer'[m].msg)
        /\ \A m \in Node, j \in Job : action'[m][j] = "REMOTE" =>
             prog.distributed /\ action'[Other(m)][j] = "LOCAL"
    BY <1>2, <1>4, ActNow
  <2> QED BY <1>1, <1>2, <2>1, ActionKept
<1> QED BY <1>1, <1>9, <1>10, <1>12, <1>14, <1>15, <1>16, <1>17, <1>18, <1>19, <1>20, <1>23, <1>24
        DEF Inv2

\* A received task is put into the list.
LEMMA ListReceivedInv2 ==
  ASSUME Inv1, Inv2, NEW n \in Node, ListReceived(n)
  PROVE  Inv1' /\ Inv2'
<1>1. /\ Inv1' /\ Subject(n) \in Task /\ Hand(n, "await", processer[n].msg)
      /\ processer[n].at = "list" /\ PutIn(taskList, taskList', n, Subject(n))
  BY ListReceivedStep
<1>2. UNCHANGED <<prog, action, task, stack, messages, served, net>>
  BY DEF ListReceived
<1>3. PICK t \in Task : t = Subject(n)
  BY <1>1
<1>4. /\ processer'[n].at = "await" /\ processer'[n].msg = processer[n].msg
      /\ \A m \in Node : m # n => processer'[m] = processer[m]
  BY <1>1, HandParts
<1>5. /\ Receiving(n, t) /\ ~Receiving(n, t)'
      /\ \A m \in Node, u \in Task : m # n \/ u # t => (Receiving(m, u)' <=> Receiving(m, u))
  BY <1>1, <1>3, <1>4 DEF Receiving, Subject
<1>6. task[n][t].status = "CREATED" /\ task[n][t].message /\ ~Listed(n, t) /\ ~Held(n, t)
  BY <1>5 DEF ReceiveInv, Inv2
<1>7. /\ \A m \in Node, u \in Task : Listed(m, u)' <=> Listed(m, u) \/ (m = n /\ u = t)
      /\ \A m \in Node : Distinct(taskList'[m])
  <2>1. \A m \in Node : Distinct(taskList[m])
    BY DEF ListInv, Inv2
  <2> QED BY <1>1, <1>3, <1>6, <2>1, ListGrows
<1>8. /\ \A m, u : /\ Held(m, u)' <=> Held(m, u)
                   /\ Begun(m, u)' <=> Begun(m, u)
                   /\ Sent(m, u)' <=> Sent(m, u)
      /\ \A th, i, m, u : (In(th, i, m, u)' <=> In(th, i, m, u))
      /\ \A th, i, m, u : (Begins(th, i, m, u)' <=> Begins(th, i, m, u))
  BY <1>2 DEF Held, Begun, Sent, In, Begins, OpOf, ScriptOf
<1>9. Keeps({})
  BY <1>2, <1>8 DEF Keeps
<1>10. ServedInv' /\ UnsentInv' /\ StagesInv' /\ HeldInv' /\ RecordInv'
  <2>1. ServedInv' /\ UnsentInv'
    BY <1>2, <1>8 DEF ServedInv, UnsentInv, Inv2
  <2>2. StagesInv'
    BY <1>2 DEF StagesInv, StagesFit, Inv2
  <2>3. HeldInv'
    BY <1>2, <1>8 DEF HeldInv, Inv2
  <2>4. RecordInv'
    BY <1>2 DEF RecordInv, Inv2
  <2> QED BY <2>1, <2>2, <2>3, <2>4
<1>11. FreshInv'
  <2>1. \A th \in Thread : \A i \in DOMAIN stack'[th] : Covered(th, stack'[th][i])
    BY <1>2, CoveredNow
  <2>2. \A u \in Task : (Fresh(u) => Fresh(u)') /\ (Ran(u) => Ran(u)')
    BY <1>2 DEF Fresh, Ran
  <2> QED BY <1>2, <2>1, <2>2, FreshKept
<1>12. ListInv'
  <2> SUFFICES ASSUME NEW m \in Node
      PROVE  /\ Distinct(taskList'[m])
             /\ \A i \in DOMAIN taskList'[m] :
                  /\ task[m][taskList'[m][i]].status \in {"CREATED", "SCHEDULED", "WAITING"}
                  /\ ~Held(m, taskList'[m][i])
    BY <1>2, <1>8 DEF ListInv, Distinct
  <2>1. Distinct(taskList'[m])
    BY <1>7
  <2>2. ASSUME NEW i \in DOMAIN taskList'[m]
        PROVE  /\ task[m][taskList'[m][i]].status \in {"CREATED", "SCHEDULED", "WAITING"}
               /\ ~Held(m, taskList'[m][i])
    <3>1. CASE i \in DOMAIN taskList[m] /\ taskList'[m][i] = taskList[m][i]
      BY <3>1 DEF ListInv, Inv2
    <3>2. CASE m = n /\ taskList'[m][i] = t
      BY <1>6, <3>2
    <3> QED BY <1>1, <1>3, <3>1, <3>2 DEF PutIn
  <2> QED BY <2>1, <2>2
<1>13. BeginInv'
  <2> SUFFICES ASSUME NEW uh \in Thread, NEW i \in DOMAIN stack[uh], NEW u \in Task,
                      Begins(uh, i, uh[1], u)
               PROVE  /\ task[uh[1]][u].status = "CREATED"
                      /\ task[uh[1]][u].queue = prog.queue[u]
                      /\ task[uh[1]][u].group = prog.group[u]
                      /\ ~task[uh[1]][u].message
                      /\ ~Listed(uh[1], u)' /\ ~Held(uh[1], u)
    BY <1>2, <1>8 DEF BeginInv
  <2>1. uh[1] \in Node
    BY ThreadOk
  <2>2. /\ task[uh[1]][u].status = "CREATED"
        /\ task[uh[1]][u].queue = prog.queue[u]
        /\ task[uh[1]][u].group = prog.group[u]
        /\ ~task[uh[1]][u].message
        /\ ~Listed(uh[1], u) /\ ~Held(uh[1], u)
    BY DEF BeginInv, Inv2
  <2> QED BY <1>6, <1>7, <2>1, <2>2
<1>14. ReceiveInv'
  BY <1>2, <1>5, <1>7, <1>8 DEF ReceiveInv, Inv2
<1>15. SomewhereInv'
  BY <1>2, <1>5, <1>7, <1>8 DEF SomewhereInv, Inv2
<1>16. TokensKept({})
  <2> SUFFICES ASSUME NEW m \in Node
      PROVE  /\ \A i \in DOMAIN messages'[m] : About(m, messages'[m][i])
             /\ processer'[m].at = "process" => About(m, processer'[m].msg)
             /\ processer'[m].at \in {"list", "await", "again"} =>
                  Grip(m, processer'[m].at, processer'[m].msg.on)
             /\ \A i \in DOMAIN net'[m] : Wire(m, net'[m][i])
    BY DEF TokensKept
  <2>1. Grip(n, "await", processer[n].msg.on)
    BY <1>1, TokenNow DEF Grip
  <2> QED BY <1>2, <1>4, <2>1, TokenNow
<1>17. TokenInv' /\ OneTokenInv'
  <2>1. Carried(n)
    BY <1>1 DEF Carried
  <2> QED BY <1>1, <1>2, <1>9, <1>16, <2>1, TokenKept, OneHeld
<1>18. ActionInv'
  <2>1. /\ \A m \in Node : \A i \in DOMAIN messages'[m] : ActOf(m, messages'[m][i])
        /\ \A m \in Node : \A i \in DOMAIN net'[m] : NetOf(m, net'[m][i])
        /\ \A m \in Node : processer'[m].at = "process" => ActOf(m, processer'[m].msg)
        /\ \A m \in Node, j \in Job : action'[m][j] = "REMOTE" =>
             prog.distributed /\ action'[Other(m)][j] = "LOCAL"
    BY <1>2, <1>4, ActNow
  <2> QED BY <1>1, <1>2, <2>1, ActionKept
<1> QED BY <1>1, <1>10, <1>11, <1>12, <1>13, <1>14, <1>15, <1>17, <1>18 DEF Inv2

\* The processer makes the record of a task it has received.
LEMMA ReceiveRemoteTaskInv2 ==
  ASSUME Inv1, Inv2, NEW n \in Node, ReceiveRemoteTask(n)
  PROVE  Inv1' /\ Inv2'
<1>1. /\ Inv1' /\ Subject(n) \in Task /\ Hand(n, "list", processer[n].msg)
      /\ processer[n].at = "process" /\ processer[n].msg.type = "SERVE"
      /\ served[Subject(n)] = "RECEIVE_REMOTE_TASK"
      /\ Other(n) \in Node /\ Other(Other(n)) = n /\ Other(n) # n /\ Node = {n, Other(n)}
      /\ Made(n, Subject(n), None, None, None, TRUE)
  BY ReceiveRemoteTaskStep
<1>2. UNCHANGED <<prog, action, taskList, stack, messages, served, net>>
  BY DEF ReceiveRemoteTask
<1>3. PICK t \in Task : t = Subject(n)
  BY <1>1
<1>4. PICK o \in Node : o = Other(n)
  BY <1>1
<1>5. /\ processer'[n].at = "list" /\ processer'[n].msg = processer[n].msg
      /\ processer[n].msg.on = t
      /\ \A m \in Node : m # n => processer'[m] = processer[m]
  BY <1>1, <1>3, HandParts DEF Subject
<1>6. Sent(o, t) /\ task[n][t].status = "NONE"
  <2>1. About(n, processer[n].msg)
    BY <1>1, TokenNow
  <2> QED BY <1>1, <1>3, <1>4, <1>5, <2>1 DEF About
<1>7. task[o][t].type = "REMOTE" /\ action[n][prog.job[t]] = "LOCAL"
  <2>1. task[o][t].type = "REMOTE" /\ task[o][t].status # "NONE"
    BY <1>6, Records DEF Sent
  <2>2. action[o][prog.job[t]] = "REMOTE" /\ prog.job[t] \in Job
    BY <2>1, ProgTyped DEF RecordInv, Inv2, Inv1, Typed
  <2>3. action[Other(o)][prog.job[t]] = "LOCAL"
    BY <2>2 DEF ActionInv, Inv2
  <2> QED BY <1>1, <1>4, <2>1, <2>3
<1>8. /\ task'[n][t] = [status |-> "CREATED", type |-> "LOCAL", parent |-> None,
                        childCount |-> 0, queue |-> None, group |-> None, message |-> TRUE]
      /\ \A m \in Node, u \in Task : m # n \/ u # t =>
           Alike(task'[m][u], task[m][u]) /\ task'[m][u].status = task[m][u].status
  BY <1>1, <1>3, <1>7 DEF Made
<1>9. /\ task'[n][t].status = "CREATED" /\ task'[n][t].type = "LOCAL" /\ task'[n][t].message
      /\ task'[n][t].parent = None /\ task'[n][t].queue = None /\ task'[n][t].group = None
  BY <1>8
<1>10. ~Listed(n, t) /\ ~Held(n, t) /\ ~Begun(n, t) /\ ~Receiving(n, t)
  BY <1>6, MadeSomewhere
<1>11. /\ \A m, u : /\ Held(m, u)' <=> Held(m, u)
                    /\ Begun(m, u)' <=> Begun(m, u)
                    /\ Listed(m, u)' <=> Listed(m, u)
       /\ \A th, i, m, u : (In(th, i, m, u)' <=> In(th, i, m, u))
       /\ \A th, i, m, u : (Begins(th, i, m, u)' <=> Begins(th, i, m, u))
       /\ \A u \in Task : ~Receiving(n, u)
       /\ \A m \in Node, u \in Task :
            Receiving(m, u)' <=> Receiving(m, u) \/ (m = n /\ u = t)
  <2>1. /\ \A m, u : /\ Held(m, u)' <=> Held(m, u)
                     /\ Begun(m, u)' <=> Begun(m, u)
                     /\ Listed(m, u)' <=> Listed(m, u)
        /\ \A th, i, m, u : (In(th, i, m, u)' <=> In(th, i, m, u))
        /\ \A th, i, m, u : (Begins(th, i, m, u)' <=> Begins(th, i, m, u))
    BY <1>2 DEF Held, Begun, Listed, In, Begins, OpOf, ScriptOf
  <2>2. /\ \A u \in Task : ~Receiving(n, u)
        /\ \A m \in Node, u \in Task :
             Receiving(m, u)' <=> Receiving(m, u) \/ (m = n /\ u = t)
    BY <1>1, <1>5 DEF Receiving
  <2> QED BY <2>1, <2>2
<1>12. /\ \A m \in Node, u \in Task : m # n \/ u # t => (Sent(m, u)' <=> Sent(m, u))
       /\ ~Sent(n, t)'
  <2>1. ASSUME NEW m \in Node, NEW u \in Task, m # n \/ u # t PROVE Sent(m, u)' <=> Sent(m, u)
    BY <1>2, <1>8, <1>11, <2>1 DEF Sent, Alike
  <2>2. ~Sent(n, t)'
    BY <1>9 DEF Sent
  <2> QED BY <2>1, <2>2
<1>13. ServedInv'
  BY <1>2, <1>8, <1>9 DEF ServedInv, Inv2, Alike
<1>14. UnsentInv'
  <2> SUFFICES ASSUME NEW m \in Node, NEW u \in Task, task'[m][u].status = "CREATED",
                      task'[m][u].type = "REMOTE", ~Sent(m, u)'
               PROVE  \A k \in Node : ~task'[k][u].message
    BY DEF UnsentInv
  <2>1. m # n \/ u # t
    BY <1>9
  <2>2. task[m][u].status = "CREATED" /\ task[m][u].type = "REMOTE" /\ ~Sent(m, u)
    BY <1>8, <1>12, <2>1 DEF Alike
  <2>3. u # t
    BY <1>1, <1>4, <1>6, <2>1, <2>2
  <2> QED BY <1>8, <2>2, <2>3 DEF UnsentInv, Inv2, Alike
<1>15. StagesInv'
  <2> SUFFICES ASSUME NEW uh \in Thread, NEW i \in DOMAIN stack[uh], stack[uh][i].at = "complete"
               PROVE  StagesFit(stack[uh][i].stages, task'[uh[1]][stack[uh][i].task])
    BY <1>2 DEF StagesInv
  <2>1. uh[1] \in Node /\ stack[uh][i].task \in Task
    <3>1. stack[uh][i] \in FrameType /\ GoodFrame(uh, i, stack[uh][i])
      BY DEF Inv1, Typed, Shape, StackOk
    <3>2. stack[uh][i].task # None
      BY <3>1 DEF GoodFrame, RunPlace
    <3> QED BY <3>1, <3>2, ThreadOk DEF FrameType
  <2>2. uh[1] # n \/ stack[uh][i].task # t
    BY <1>10 DEF Held, In
  <2>3. StagesFit(stack[uh][i].stages, task[uh[1]][stack[uh][i].task])
    BY DEF StagesInv, Inv2
  <2> QED BY <1>8, <2>1, <2>2, <2>3, FitAlike
<1>16. ListInv'
  <2> SUFFICES ASSUME NEW m \in Node
      PROVE  /\ Distinct(taskList[m])
             /\ \A i \in DOMAIN taskList[m] :
                  /\ task'[m][taskList[m][i]].status \in {"CREATED", "SCHEDULED", "WAITING"}
                  /\ ~Held(m, taskList[m][i])
    BY <1>2, <1>11 DEF ListInv, Distinct
  <2>1. \A i \in DOMAIN taskList[m] : taskList[m][i] \in Task
    BY ListTyped
  <2>2. \A i \in DOMAIN taskList[m] : m # n \/ taskList[m][i] # t
    BY <1>10 DEF Listed
  <2> QED BY <1>8, <2>1, <2>2 DEF ListInv, Inv2
<1>17. HeldInv'
  <2> SUFFICES ASSUME NEW uh \in Thread, NEW i \in DOMAIN stack[uh], stack[uh][i].task # None
               PROVE  /\ StatusAt(stack[uh][i].at, task'[uh[1]][stack[uh][i].task].status,
                                  task'[uh[1]][stack[uh][i].task].type)
                      /\ \A vh \in Thread : \A j \in DOMAIN stack[vh] :
                           In(vh, j, uh[1], stack[uh][i].task) => vh = uh /\ j = i
    BY <1>2 DEF HeldInv, In
  <2>1. stack[uh][i] \in FrameType /\ uh[1] \in Node /\ stack[uh][i].task \in Task
    <3>1. stack[uh][i] \in FrameType
      BY DEF Inv1, Typed
    <3> QED BY <3>1, ThreadOk DEF FrameType
  <2>2. uh[1] # n \/ stack[uh][i].task # t
    BY <1>10 DEF Held, In
  <2> QED BY <1>8, <2>1, <2>2 DEF HeldInv, Inv2, Alike
<1>18. BeginInv'
  <2> SUFFICES ASSUME NEW uh \in Thread, NEW i \in DOMAIN stack[uh], NEW u \in Task,
                      Begins(uh, i, uh[1], u)
               PROVE  /\ task'[uh[1]][u].status = "CREATED"
                      /\ task'[uh[1]][u].queue = prog.queue[u]
                      /\ task'[uh[1]][u].group = prog.group[u]
                      /\ ~task'[uh[1]][u].message
                      /\ ~Listed(uh[1], u) /\ ~Held(uh[1], u)
    BY <1>2, <1>11 DEF BeginInv
  <2>1. uh[1] \in Node
    BY ThreadOk
  <2>2. uh[1] # n \/ u # t
    BY <1>10 DEF Begun
  <2> QED BY <1>8, <2>1, <2>2 DEF BeginInv, Inv2, Alike
<1>19. ReceiveInv'
  <2> SUFFICES ASSUME NEW m \in Node, NEW u \in Task, Receiving(m, u)'
               PROVE  /\ task'[m][u].status = "CREATED" /\ task'[m][u].message
                      /\ ~Listed(m, u) /\ ~Held(m, u)
    BY <1>11 DEF ReceiveInv
  <2>1. CASE m = n /\ u = t
    BY <1>9, <1>10, <2>1
  <2>2. CASE m # n \/ u # t
    BY <1>8, <1>11, <2>2 DEF ReceiveInv, Inv2, Alike
  <2> QED BY <2>1, <2>2
<1>20. SomewhereInv'
  BY <1>8, <1>11 DEF SomewhereInv, Inv2
<1>21. RecordInv'
  <2> SUFFICES ASSUME NEW m \in Node, NEW u \in Task
      PROVE  LET rec == task'[m][u] IN
             /\ rec.status = "NONE" <=> rec.type = None
             /\ rec.status = "NONE" => /\ rec.parent = None /\ rec.queue = None
                                       /\ rec.group = None /\ ~rec.message
             /\ rec.status # "NONE" => rec.type = action[m][prog.job[u]]
             /\ rec.status = "SCHEDULED" => rec.type = "REMOTE"
             /\ rec.type = "REMOTE" => ~rec.message
             /\ rec.message => /\ rec.queue = None /\ rec.group = None /\ rec.parent = None
                               /\ \E k \in Node : k # m /\ task'[k][u].type = "REMOTE"
             /\ ~rec.message /\ rec.status # "NONE" =>
                  \A k \in Node : k # m => task'[k][u].status = "NONE" \/ task'[k][u].message
    BY <1>2 DEF RecordInv
  <2>1. CASE u # t
    <3>1. \A k \in Node : Alike(task'[k][u], task[k][u]) /\ task'[k][u].status = task[k][u].status
      BY <1>8, <2>1
    <3>2. \A k \in Node : task'[k][u].type = task[k][u].type /\ task'[k][u].message = task[k][u].message
      BY <3>1 DEF Alike
    <3> QED BY <3>1, <3>2 DEF RecordInv, Inv2, Alike
  <2>2. CASE u = t /\ m = n
    <3>1. task'[o][t].type = "REMOTE" /\ o # n
      BY <1>1, <1>4, <1>7, <1>8 DEF Alike
    <3> QED BY <1>7, <1>9, <2>2, <3>1, MtapiAssumption
  <2>3. CASE u = t /\ m = o
    <3>1. Alike(task'[o][t], task[o][t]) /\ task'[o][t].status = task[o][t].status
      BY <1>1, <1>4, <1>8
    <3>2. \A k \in Node : k # o => k = n
      BY <1>1, <1>4
    <3>3. ~task[o][t].message
      BY <1>7, Records
    <3> QED BY <1>9, <2>3, <3>1, <3>2, <3>3 DEF RecordInv, Inv2, Alike
  <2> QED BY <1>1, <1>4, <2>1, <2>2, <2>3
<1>22. FreshInv'
  <2>1. \A th \in Thread : \A i \in DOMAIN stack'[th] : Covered(th, stack'[th][i])
    BY <1>2, CoveredNow
  <2>2. \A u \in Task : (Fresh(u) => Fresh(u)') /\ (Ran(u) => Ran(u)')
    <3>1. ~Fresh(t)
      BY <1>6 DEF Fresh, Sent
    <3>2. \A u \in Task : Fresh(u) => Fresh(u)'
      BY <1>8, <3>1 DEF Fresh
    <3>3. \A u \in Task : Ran(u) => Ran(u)'
      BY <1>6, <1>8 DEF Ran, Alike
    <3> QED BY <3>2, <3>3
  <2> QED BY <1>2, <2>1, <2>2, FreshKept
<1>23. Keeps({t})
  BY <1>2, <1>8, <1>12 DEF Keeps
<1>24. TokensKept({t})
  <2>1. Carried(n)
    BY <1>1 DEF Carried
  <2>2. \A m \in Node :
           /\ \A i \in DOMAIN messages[m] : ~Tells(messages[m][i], t)
           /\ \A i \in DOMAIN net[m] : ~Tells(net[m][i], t)
           /\ m # n /\ Carried(m) => ~Tells(processer[m].msg, t)
    BY <1>1, <1>5, <2>1, OnlyToken DEF TaskTypes
  <2>3. Grip(n, processer[n].at, processer[n].msg.on)'
    <3>1. Sent(o, t)'
      BY <1>1, <1>4, <1>6, <1>12
    <3>2. Other(n)' = o
      BY <1>4 DEF Other
    <3>3. \A at : at # "again" => Grip(n, at, t)'
      BY <1>9, <3>1, <3>2 DEF Grip
    <3> QED BY <1>5, <3>3
  <2> SUFFICES ASSUME NEW m \in Node, m # n \/ processer'[m].at = "list"
      PROVE  /\ \A i \in DOMAIN messages'[m] : About(m, messages'[m][i]) /\ ~Tells(messages'[m][i], t)
             /\ m # n => /\ processer'[m].at = "process" =>
                            About(m, processer'[m].msg) /\ ~Tells(processer'[m].msg, t)
                         /\ processer'[m].at \in {"list", "await", "again"} =>
                            Grip(m, processer'[m].at, processer'[m].msg.on) /\ processer'[m].msg.on # t
             /\ \A i \in DOMAIN net'[m] : Wire(m, net'[m][i]) /\ ~Tells(net'[m][i], t)
    BY <1>5, <2>3 DEF TokensKept
  <2>4. /\ \A i \in DOMAIN messages'[m] : About(m, messages'[m][i]) /\ ~Tells(messages'[m][i], t)
        /\ \A i \in DOMAIN net'[m] : Wire(m, net'[m][i]) /\ ~Tells(net'[m][i], t)
    BY <1>2, <2>2, TokenNow
  <2>5. m # n /\ processer'[m].at = "process" =>
          About(m, processer'[m].msg) /\ ~Tells(processer'[m].msg, t)
    BY <1>5, <2>2, TokenNow DEF Carried
  <2>6. ASSUME m # n, processer'[m].at \in {"list", "await", "again"}
        PROVE  Grip(m, processer'[m].at, processer'[m].msg.on) /\ processer'[m].msg.on # t
    <3>1. processer'[m] = processer[m] /\ Carried(m)
      BY <1>5, <2>6 DEF Carried
    <3>2. processer[m].msg.type = "SERVE"
      BY <2>6, <3>1, MessageTyped
    <3> QED BY <2>2, <2>6, <3>1, <3>2, TokenNow DEF Tells, TaskTypes
  <2> QED BY <2>4, <2>5, <2>6
<1>25. TokenInv' /\ OneTokenInv'
  <2>1. Carried(n)
    BY <1>1 DEF Carried
  <2> QED BY <1>1, <1>2, <1>23, <1>24, <2>1, TokenKept, OneHeld
<1>26. ActionInv'
  <2>1. /\ \A m \in Node : \A i \in DOMAIN messages'[m] : ActOf(m, messages'[m][i])
        /\ \A m \in Node : \A i \in DOMAIN net'[m] : NetOf(m, net'[m][i])
        /\ \A m \in Node : processer'[m].at = "process" => ActOf(m, processer'[m].msg)
        /\ \A m \in Node, j \in Job : action'[m][j] = "REMOTE" =>
             prog.distributed /\ action'[Other(m)][j] = "LOCAL"
    BY <1>2, <1>5, ActNow
  <2> QED BY <1>1, <1>2, <2>1, ActionKept
<1> QED BY <1>1, <1>13, <1>14, <1>15, <1>16, <1>17, <1>18, <1>19, <1>20, <1>21, <1>22, <1>25, <1>26
        DEF Inv2

-----------------------------------------------------------------------------
(* The start of a task.                                                    *)

\* The task of a frame in a script runs there.
LEMMA ScriptRuns ==
  ASSUME Inv1, Inv2, NEW th \in Thread, NEW i \in DOMAIN stack[th],
         stack[th][i].at \in RunPlace, stack[th][i].task # None
  PROVE  /\ th[1] \in Node /\ stack[th][i].task \in Task
         /\ task[th[1]][stack[th][i].task].status = "RUNNING"
         /\ task[th[1]][stack[th][i].task].type = "LOCAL" /\ Ran(stack[th][i].task)
<1>1. stack[th][i] \in FrameType /\ th[1] \in Node
  BY ThreadOk DEF Inv1, Typed
<1>2. StatusAt(stack[th][i].at, task[th[1]][stack[th][i].task].status,
               task[th[1]][stack[th][i].task].type)
  BY DEF HeldInv, Inv2
<1> QED BY <1>1, <1>2 DEF StatusAt, FrameType, Ran

\* One frame at most, of all that are in a script, starts a task, in one place.
LEMMA ScriptOnce ==
  ASSUME Inv1, Inv2, NEW t \in Task,
         NEW th \in Thread, NEW i \in DOMAIN stack[th], stack[th][i].at \in RunPlace,
         NEW uh \in Thread, NEW k \in DOMAIN stack[uh], stack[uh][k].at \in RunPlace,
         NEW p, StartsAt(ScriptOf(th, stack[th][i]), p, t),
         NEW q, StartsAt(ScriptOf(uh, stack[uh][k]), q, t)
  PROVE  th = uh /\ i = k /\ p = q
<1>1. /\ GoodFrame(th, i, stack[th][i]) /\ GoodFrame(uh, k, stack[uh][k])
      /\ stack[th][i] \in FrameType /\ stack[uh][k] \in FrameType
      /\ th[1] \in Node /\ uh[1] \in Node /\ th = <<th[1], th[2]>> /\ uh = <<uh[1], uh[2]>>
  BY ThreadOk DEF Inv1, Shape, StackOk, Typed
<1>2. StartedOnce(prog)
  BY ProgTyped DEF Inv1, Typed
<1>3. CASE stack[th][i].task = None /\ stack[uh][k].task = None
  <2>1. StartsAt(prog.main[th[1]], p, t) /\ StartsAt(prog.main[uh[1]], q, t)
    BY <1>3 DEF ScriptOf
  <2>2. p \in DOMAIN prog.main[th[1]] /\ q \in DOMAIN prog.main[uh[1]]
    BY <2>1 DEF StartsAt
  <2>3. th[1] = uh[1] /\ p = q
    BY <1>1, <1>2, <2>1, <2>2 DEF StartedOnce
  <2> QED BY <1>1, <1>3, <2>3 DEF GoodFrame
<1>4. CASE stack[th][i].task = None /\ stack[uh][k].task # None
  <2>1. StartsAt(prog.main[th[1]], p, t) /\ StartsAt(prog.body[stack[uh][k].task], q, t)
    BY <1>4 DEF ScriptOf
  <2>2. p \in DOMAIN prog.main[th[1]] /\ q \in DOMAIN prog.body[stack[uh][k].task]
        /\ stack[uh][k].task \in Task
    BY <1>1, <1>4, <2>1 DEF StartsAt, FrameType
  <2> QED BY <1>1, <1>2, <2>1, <2>2 DEF StartedOnce
<1>5. CASE stack[th][i].task # None /\ stack[uh][k].task = None
  <2>1. StartsAt(prog.body[stack[th][i].task], p, t) /\ StartsAt(prog.main[uh[1]], q, t)
    BY <1>5 DEF ScriptOf
  <2>2. p \in DOMAIN prog.body[stack[th][i].task] /\ q \in DOMAIN prog.main[uh[1]]
        /\ stack[th][i].task \in Task
    BY <1>1, <1>5, <2>1 DEF StartsAt, FrameType
  <2> QED BY <1>1, <1>2, <2>1, <2>2 DEF StartedOnce
<1>6. CASE stack[th][i].task # None /\ stack[uh][k].task # None
  <2>1. StartsAt(prog.body[stack[th][i].task], p, t) /\ StartsAt(prog.body[stack[uh][k].task], q, t)
    BY <1>6 DEF ScriptOf
  <2>2. p \in DOMAIN prog.body[stack[th][i].task] /\ q \in DOMAIN prog.body[stack[uh][k].task]
        /\ stack[th][i].task \in Task /\ stack[uh][k].task \in Task
    BY <1>1, <1>6, <2>1 DEF StartsAt, FrameType
  <2>3. stack[th][i].task = stack[uh][k].task /\ p = q
    BY <1>2, <2>1, <2>2 DEF StartedOnce
  <2>4. th[1] = uh[1]
    BY <1>6, <2>3, ScriptRuns, Records
  <2>5. In(uh, k, th[1], stack[th][i].task)
    BY <2>3, <2>4 DEF In
  <2> QED BY <1>6, <2>3, <2>5 DEF HeldInv, Inv2
<1> QED BY <1>3, <1>4, <1>5, <1>6

\* A frame that runs a script which starts a task at some step, and the same in one formula:
\* there is one such frame and one such step for each task.
Starter(th, i, p, t) ==
  /\ t \in Task /\ th \in Thread /\ i \in DOMAIN stack[th]
  /\ stack[th][i].at \in RunPlace
  /\ StartsAt(ScriptOf(th, stack[th][i]), p, t)

LEMMA StarterOnce ==
  ASSUME Inv1, Inv2
  PROVE  \A t, th, i, p, uh, k, q :
           Starter(th, i, p, t) /\ Starter(uh, k, q, t) => th = uh /\ i = k /\ p = q
<1> SUFFICES ASSUME NEW t, NEW th, NEW i, NEW p, NEW uh, NEW k, NEW q,
                    Starter(th, i, p, t), Starter(uh, k, q, t)
             PROVE  th = uh /\ i = k /\ p = q
  OBVIOUS
<1>1. /\ t \in Task /\ th \in Thread /\ i \in DOMAIN stack[th] /\ stack[th][i].at \in RunPlace
      /\ uh \in Thread /\ k \in DOMAIN stack[uh] /\ stack[uh][k].at \in RunPlace
      /\ StartsAt(ScriptOf(th, stack[th][i]), p, t)
      /\ StartsAt(ScriptOf(uh, stack[uh][k]), q, t)
  BY DEF Starter
<1> QED BY <1>1, ScriptOnce

\* A task that is about to be started is not known to anybody.
LEMMA StartNew ==
  ASSUME Inv1, Inv2, NEW th \in Thread, NEW t, NEW g, Start(th, t, g)
  PROVE  /\ th[1] \in Node /\ t \in Task /\ NoToken(t)
         /\ \A m \in Node :
              /\ task[m][t].status = "NONE" /\ task[m][t].type = None /\ ~task[m][t].message
              /\ ~Listed(m, t) /\ ~Held(m, t) /\ ~Begun(m, t) /\ ~Receiving(m, t) /\ ~Sent(m, t)
<1>1. /\ stack[th] # <<>> /\ Top(th).at = "body" /\ t \in Task
      /\ Top(th).ip \in DOMAIN ScriptOf(th, Top(th)) /\ StartsAt(ScriptOf(th, Top(th)), Top(th).ip, t)
  BY DEF Start
<1>2. Len(stack[th]) \in DOMAIN stack[th] /\ stack[th][Len(stack[th])] = Top(th)
  BY <1>1, TopOk
<1>3. Covered(th, Top(th))
  BY <1>2, CoveredNow
<1>4. Fresh(t)
  BY <1>1, <1>3 DEF Covered, Ahead, RunPlace, BeginPlace
<1>5. \A m \in Node :
        /\ task[m][t].status = "NONE" /\ task[m][t].type = None /\ ~task[m][t].message
        /\ ~Sent(m, t)
  BY <1>1, <1>4 DEF Fresh, RecordInv, Inv2, Sent
<1> QED BY <1>1, <1>5, ThreadOk, MadeSomewhere, TokenSent

\* Where tasks are after a start.
LEMMA StartFrames ==
  ASSUME Inv1, Inv2, NEW th \in Thread, NEW t, NEW g, Start(th, t, g)
  PROVE  /\ SameTasks
         /\ \A uh \in Thread : \A i \in DOMAIN stack[uh] :
              \/ stack'[uh][i] = stack[uh][i] /\ (uh # th \/ i # Len(stack[th]))
              \/ /\ uh = th /\ i = Len(stack[th]) /\ stack[uh][i] = Top(th) /\ stack'[uh][i] = g
         /\ \A uh \in Thread : \A i \in DOMAIN stack[uh] : \A m \in Node, u \in Task :
              Begins(uh, i, m, u)' <=>
                \/ Begins(uh, i, m, u)
                \/ uh = th /\ i = Len(stack[th]) /\ m = th[1] /\ u = t
         /\ \A m \in Node, u \in Task :
              /\ Held(m, u)' <=> Held(m, u)
              /\ Listed(m, u)' <=> Listed(m, u)
              /\ Receiving(m, u)' <=> Receiving(m, u)
              /\ Begun(m, u)' <=> Begun(m, u) \/ (m = th[1] /\ u = t)
         /\ Len(stack[th]) \in DOMAIN stack[th] /\ stack[th][Len(stack[th])] = Top(th)
<1>1. /\ stack[th] # <<>> /\ Top(th).at = "body" /\ t \in Task /\ Replaced(th, g)
      /\ g.at \in BeginPlace /\ g.task = Top(th).task /\ OpOf(th, g).on = t
      /\ UNCHANGED <<prog, taskList, processer>>
  BY DEF Start
<1>2. SameTasks
  BY <1>1, ReplacedTasks
<1>3. /\ Len(stack[th]) \in DOMAIN stack[th] /\ stack[th][Len(stack[th])] = Top(th)
      /\ stack'[th][Len(stack[th])] = g
      /\ \A uh \in Thread : DOMAIN stack'[uh] = DOMAIN stack[uh]
      /\ \A uh \in Thread : \A i \in DOMAIN stack[uh] :
           uh # th \/ i # Len(stack[th]) => stack'[uh][i] = stack[uh][i]
  BY <1>1, FramesReplaced
<1>4. ASSUME NEW uh \in Thread, NEW i \in DOMAIN stack[uh], NEW m \in Node, NEW u \in Task
      PROVE  Begins(uh, i, m, u)' <=>
               \/ Begins(uh, i, m, u)
               \/ uh = th /\ i = Len(stack[th]) /\ m = th[1] /\ u = t
  <2>1. CASE uh = th /\ i = Len(stack[th])
    <3>1. Begins(uh, i, m, u)' <=> th[1] = m /\ OpOf(th, g)'.on = u
      BY <1>1, <1>3, <2>1 DEF Begins
    <3>2. OpOf(th, g)' = OpOf(th, g)
      BY <1>1, OpSame
    <3>3. ~Begins(uh, i, m, u)
      BY <1>1, <1>3, <2>1 DEF Begins, BeginPlace
    <3> QED BY <1>1, <2>1, <3>1, <3>2, <3>3
  <2>2. CASE uh # th \/ i # Len(stack[th])
    <3>1. stack'[uh][i] = stack[uh][i] /\ i \in DOMAIN stack'[uh]
      BY <1>3, <2>2
    <3> QED BY <1>1, <2>2, <3>1 DEF Begins, OpOf, ScriptOf
  <2> QED BY <2>1, <2>2
<1>5. \A m \in Node, u \in Task :
        /\ Held(m, u)' <=> Held(m, u)
        /\ Listed(m, u)' <=> Listed(m, u)
        /\ Receiving(m, u)' <=> Receiving(m, u)
  BY <1>1, <1>2, SameHands DEF Listed, Receiving
<1>6. ASSUME NEW m \in Node, NEW u \in Task
      PROVE  Begun(m, u)' <=> Begun(m, u) \/ (m = th[1] /\ u = t)
  BY <1>3, <1>4 DEF Begun
<1> QED BY <1>2, <1>3, <1>4, <1>5, <1>6

LEMMA StartInv2 ==
  ASSUME Inv1, Inv1', Inv2, NEW th \in Thread, NEW t, NEW g, Start(th, t, g)
  PROVE  Inv2'
<1>1. /\ stack[th] # <<>> /\ Top(th).at = "body" /\ Replaced(th, g)
      /\ g.at \in BeginPlace /\ g.task = Top(th).task /\ g.ip = Top(th).ip
      /\ Top(th).ip \in DOMAIN ScriptOf(th, Top(th)) /\ StartsAt(ScriptOf(th, Top(th)), Top(th).ip, t)
      /\ UNCHANGED <<prog, action, taskList, messages, served, net, processer>>
  BY DEF Start
<1>2. PICK n \in Node : n = th[1]
  BY StartNew
<1>3. /\ t \in Task /\ NoToken(t)
      /\ \A m \in Node :
           /\ task[m][t].status = "NONE" /\ task[m][t].type = None /\ ~task[m][t].message
           /\ ~Listed(m, t) /\ ~Held(m, t) /\ ~Begun(m, t) /\ ~Receiving(m, t) /\ ~Sent(m, t)
  BY StartNew
<1>4. /\ SameTasks
      /\ \A uh \in Thread : \A i \in DOMAIN stack[uh] :
           \/ stack'[uh][i] = stack[uh][i] /\ (uh # th \/ i # Len(stack[th]))
           \/ /\ uh = th /\ i = Len(stack[th]) /\ stack[uh][i] = Top(th) /\ stack'[uh][i] = g
      /\ \A uh \in Thread : \A i \in DOMAIN stack[uh] : \A m \in Node, u \in Task :
           Begins(uh, i, m, u)' <=>
             \/ Begins(uh, i, m, u)
             \/ uh = th /\ i = Len(stack[th]) /\ m = n /\ u = t
      /\ \A m \in Node, u \in Task :
           /\ Held(m, u)' <=> Held(m, u)
           /\ Listed(m, u)' <=> Listed(m, u)
           /\ Receiving(m, u)' <=> Receiving(m, u)
           /\ Begun(m, u)' <=> Begun(m, u) \/ (m = n /\ u = t)
      /\ Len(stack[th]) \in DOMAIN stack[th] /\ stack[th][Len(stack[th])] = Top(th)
      /\ \A uh \in Thread : DOMAIN stack'[uh] = DOMAIN stack[uh]
  BY <1>2, StartFrames DEF SameTasks
<1>5. /\ action[n][prog.job[t]] # None
      /\ task'[n][t] = [status |-> "CREATED", type |-> action[n][prog.job[t]],
                        parent |-> current[th], childCount |-> 0, queue |-> prog.queue[t],
                        group |-> prog.group[t], message |-> FALSE]
      /\ \A m \in Node, u \in Task : m # n \/ u # t =>
           Alike(task'[m][u], task[m][u]) /\ task'[m][u].status = task[m][u].status
  BY <1>2 DEF Start, Made
<1>6. /\ task'[n][t].status = "CREATED" /\ task'[n][t].type = action[n][prog.job[t]]
      /\ task'[n][t].queue = prog.queue[t] /\ task'[n][t].group = prog.group[t]
      /\ ~task'[n][t].message
  BY <1>5
<1>7. /\ g.at \in RunPlace
      /\ g.at \notin {"complete", "schedule", "announce", "process", "send", "insert", "body"}
  BY <1>1 DEF RunPlace, BeginPlace
<1>8. \A uh \in Thread : \A i \in DOMAIN stack[uh] : \A m \in Node : \A u \in Task :
        In(uh, i, m, u)' <=> In(uh, i, m, u)
  BY <1>4, SameHands
<1>9. /\ \A m \in Node, u \in Task : u # t => (Sent(m, u)' <=> Sent(m, u))
      /\ \A m \in Node : ~Sent(m, t)'
  <2>1. \A uh \in Thread : \A i \in DOMAIN stack[uh] :
          stack'[uh][i].at = "schedule" <=> stack[uh][i].at = "schedule"
    BY <1>1, <1>4, <1>7
  <2>2. ASSUME NEW m \in Node, NEW u \in Task
        PROVE  (\E uh \in Thread : \E i \in DOMAIN stack[uh] :
                  In(uh, i, m, u) /\ stack[uh][i].at = "schedule")'
               <=> \E uh \in Thread : \E i \in DOMAIN stack[uh] :
                     In(uh, i, m, u) /\ stack[uh][i].at = "schedule"
    BY <1>4, <1>8, <2>1
  <2>3. ASSUME NEW m \in Node, NEW u \in Task, u # t PROVE Sent(m, u)' <=> Sent(m, u)
    BY <1>1, <1>5, <2>2, <2>3 DEF Sent, Alike
  <2>4. ASSUME NEW m \in Node, m # n PROVE ~Sent(m, t)'
    BY <1>3, <1>5, <2>4 DEF Sent
  <2>5. ~Sent(n, t)'
    <3>1. ~(\E uh \in Thread : \E i \in DOMAIN stack[uh] :
              In(uh, i, n, t) /\ stack[uh][i].at = "schedule")'
      BY <1>3, <2>2 DEF Held
    <3> QED BY <1>6, <3>1 DEF Sent
  <2> QED BY <2>3, <2>4, <2>5
<1>10. ServedInv'
  BY <1>1, <1>3, <1>5 DEF ServedInv, Inv2, Alike
<1>11. UnsentInv'
  <2> SUFFICES ASSUME NEW m \in Node, NEW u \in Task, task'[m][u].status = "CREATED",
                      task'[m][u].type = "REMOTE", ~Sent(m, u)'
               PROVE  \A k \in Node : ~task'[k][u].message
    BY DEF UnsentInv
  <2>1. CASE u = t
    BY <1>3, <1>5, <1>6, <2>1 DEF Alike
  <2>2. CASE u # t
    <3>1. task[m][u].status = "CREATED" /\ task[m][u].type = "REMOTE" /\ ~Sent(m, u)
      BY <1>5, <1>9, <2>2 DEF Alike
    <3> QED BY <1>5, <2>2, <3>1 DEF UnsentInv, Inv2, Alike
  <2> QED BY <2>1, <2>2
<1>12. StagesInv'
  <2> SUFFICES ASSUME NEW uh \in Thread, NEW i \in DOMAIN stack[uh], stack'[uh][i].at = "complete"
               PROVE  StagesFit(stack'[uh][i].stages, task'[uh[1]][stack'[uh][i].task])
    BY <1>4 DEF StagesInv
  <2>1. stack'[uh][i] = stack[uh][i]
    BY <1>4, <1>7
  <2>2. uh[1] \in Node /\ stack[uh][i].task \in Task
    <3>1. stack[uh][i] \in FrameType /\ GoodFrame(uh, i, stack[uh][i])
      BY DEF Inv1, Typed, Shape, StackOk
    <3>2. stack[uh][i].task # None
      BY <2>1, <3>1 DEF GoodFrame, RunPlace
    <3> QED BY <3>1, <3>2, ThreadOk DEF FrameType
  <2>3. uh[1] # n \/ stack[uh][i].task # t
    BY <1>3 DEF Held, In
  <2>4. StagesFit(stack[uh][i].stages, task[uh[1]][stack[uh][i].task])
    BY <2>1 DEF StagesInv, Inv2
  <2> QED BY <1>5, <2>1, <2>2, <2>3, <2>4, FitAlike
<1>13. ListInv'
  <2> SUFFICES ASSUME NEW m \in Node
      PROVE  /\ Distinct(taskList[m])
             /\ \A i \in DOMAIN taskList[m] :
                  /\ task'[m][taskList[m][i]].status \in {"CREATED", "SCHEDULED", "WAITING"}
                  /\ ~Held(m, taskList[m][i])
    <3>1. \A m \in Node : \A i \in DOMAIN taskList[m] : taskList[m][i] \in Task
      BY ListTyped
    <3>2. \A m \in Node : \A i \in DOMAIN taskList[m] :
            Held(m, taskList[m][i])' <=> Held(m, taskList[m][i])
      BY <1>1, <1>4, <3>1 DEF Held, In, SameTasks
    <3> QED BY <1>1, <3>2 DEF ListInv, Distinct
  <2>1. \A i \in DOMAIN taskList[m] : taskList[m][i] \in Task
    BY ListTyped
  <2>2. \A i \in DOMAIN taskList[m] : m # n \/ taskList[m][i] # t
    BY <1>3 DEF Listed
  <2> QED BY <1>5, <2>1, <2>2 DEF ListInv, Inv2
<1>14. HeldInv'
  <2> SUFFICES ASSUME NEW uh \in Thread, NEW i \in DOMAIN stack[uh], stack'[uh][i].task # None
               PROVE  /\ StatusAt(stack'[uh][i].at, task'[uh[1]][stack'[uh][i].task].status,
                                  task'[uh[1]][stack'[uh][i].task].type)
                      /\ \A vh \in Thread : \A j \in DOMAIN stack[vh] :
                           In(vh, j, uh[1], stack[uh][i].task) => vh = uh /\ j = i
    <3>1. \A uh \in Thread : \A i \in DOMAIN stack[uh] : stack'[uh][i].task = stack[uh][i].task
      BY <1>4 DEF SameTasks
    <3>2. \A vh \in Thread : \A j \in DOMAIN stack[vh] : \A m, u :
            In(vh, j, m, u)' <=> In(vh, j, m, u)
      BY <1>4, <3>1 DEF In
    <3> QED BY <1>4, <3>1, <3>2 DEF HeldInv
  <2>1. stack'[uh][i].task = stack[uh][i].task
    BY <1>4 DEF SameTasks
  <2>2. stack[uh][i] \in FrameType /\ uh[1] \in Node /\ stack[uh][i].task \in Task
    <3>1. stack[uh][i] \in FrameType
      BY DEF Inv1, Typed
    <3> QED BY <2>1, <3>1, ThreadOk DEF FrameType
  <2>3. uh[1] # n \/ stack[uh][i].task # t
    BY <1>3 DEF Held, In
  <2>4. /\ StatusAt(stack[uh][i].at, task[uh[1]][stack[uh][i].task].status,
                    task[uh[1]][stack[uh][i].task].type)
        /\ \A vh \in Thread : \A j \in DOMAIN stack[vh] :
             In(vh, j, uh[1], stack[uh][i].task) => vh = uh /\ j = i
    BY <2>1 DEF HeldInv, Inv2
  <2>5. StatusAt(stack'[uh][i].at, task[uh[1]][stack[uh][i].task].status,
                 task[uh[1]][stack[uh][i].task].type)
    <3>1. CASE stack'[uh][i] = stack[uh][i]
      BY <2>4, <3>1
    <3>2. CASE stack[uh][i] = Top(th) /\ stack'[uh][i] = g
      BY <1>1, <1>7, <2>4, <3>2 DEF StatusAt, RunPlace
    <3> QED BY <1>4, <3>1, <3>2
  <2>6. /\ task'[uh[1]][stack[uh][i].task].status = task[uh[1]][stack[uh][i].task].status
        /\ task'[uh[1]][stack[uh][i].task].type = task[uh[1]][stack[uh][i].task].type
    BY <1>5, <2>2, <2>3 DEF Alike
  <2> QED BY <2>1, <2>4, <2>5, <2>6
<1>15. BeginInv'
  <2> SUFFICES ASSUME NEW uh \in Thread, NEW i \in DOMAIN stack[uh], NEW u \in Task,
                      Begins(uh, i, uh[1], u)'
               PROVE  /\ task'[uh[1]][u].status = "CREATED"
                      /\ task'[uh[1]][u].queue = prog.queue[u]
                      /\ task'[uh[1]][u].group = prog.group[u]
                      /\ ~task'[uh[1]][u].message
                      /\ ~Listed(uh[1], u) /\ ~Held(uh[1], u)
    BY <1>1, <1>4, ThreadOk DEF BeginInv
  <2>1. uh[1] \in Node
    BY ThreadOk
  <2>2. CASE uh[1] = n /\ u = t
    BY <1>3, <1>6, <2>2
  <2>3. CASE uh[1] # n \/ u # t
    <3>1. Begins(uh, i, uh[1], u)
      BY <1>2, <1>4, <2>1, <2>3
    <3> QED BY <1>5, <2>1, <2>3, <3>1 DEF BeginInv, Inv2, Alike
  <2> QED BY <2>2, <2>3
<1>16. ReceiveInv'
  <2> SUFFICES ASSUME NEW m \in Node, NEW u \in Task, Receiving(m, u)
               PROVE  /\ task'[m][u].status = "CREATED" /\ task'[m][u].message
                      /\ ~Listed(m, u) /\ ~Held(m, u)
    BY <1>4 DEF ReceiveInv
  <2>1. u # t
    BY <1>3
  <2> QED BY <1>5, <2>1 DEF ReceiveInv, Inv2, Alike
<1>17. SomewhereInv'
  BY <1>4, <1>5 DEF SomewhereInv, Inv2
<1>18. RecordInv'
  <2> SUFFICES ASSUME NEW m \in Node, NEW u \in Task
      PROVE  LET rec == task'[m][u] IN
             /\ rec.status = "NONE" <=> rec.type = None
             /\ rec.status = "NONE" => /\ rec.parent = None /\ rec.queue = None
                                       /\ rec.group = None /\ ~rec.message
             /\ rec.status # "NONE" => rec.type = action[m][prog.job[u]]
             /\ rec.status = "SCHEDULED" => rec.type = "REMOTE"
             /\ rec.type = "REMOTE" => ~rec.message
             /\ rec.message => /\ rec.queue = None /\ rec.group = None /\ rec.parent = None
                               /\ \E k \in Node : k # m /\ task'[k][u].type = "REMOTE"
             /\ ~rec.message /\ rec.status # "NONE" =>
                  \A k \in Node : k # m => task'[k][u].status = "NONE" \/ task'[k][u].message
    BY <1>1 DEF RecordInv
  <2>1. CASE u # t
    BY <1>5, <2>1 DEF RecordInv, Inv2, Alike
  <2>2. CASE u = t /\ m = n
    <3>1. \A k \in Node : k # n => task'[k][t].status = "NONE"
      BY <1>3, <1>5
    <3> QED BY <1>5, <1>6, <2>2, <3>1
  <2>3. CASE u = t /\ m # n
    BY <1>3, <1>5, <2>3 DEF RecordInv, Inv2, Alike
  <2> QED BY <2>1, <2>2, <2>3
<1>19. FreshInv'
  <2>1. /\ \A u \in Task : u # t /\ Fresh(u) => Fresh(u)'
        /\ \A u \in Task : Ran(u) => Ran(u)'
    <3>1. \A u \in Task : u # t /\ Fresh(u) => Fresh(u)'
      BY <1>5 DEF Fresh
    <3>2. \A u \in Task : Ran(u) => Ran(u)'
      BY <1>3, <1>5 DEF Ran, Alike
    <3> QED BY <3>1, <3>2
  <2>2. ASSUME NEW uh \in Thread, NEW i \in DOMAIN stack'[uh], NEW u \in Task,
               stack'[uh][i].at \in RunPlace,
               NEW p \in DOMAIN ScriptOf(uh, stack'[uh][i]),
               Ahead(stack'[uh][i], p), StartsAt(ScriptOf(uh, stack'[uh][i]), p, u)
        PROVE  Fresh(u)'
    <3>1. i \in DOMAIN stack[uh] /\ stack[uh][i].at \in RunPlace
      BY <1>1, <1>4, <2>2 DEF RunPlace
    <3>2. ScriptOf(uh, stack'[uh][i]) = ScriptOf(uh, stack[uh][i])
      BY <1>1, <1>4, <3>1 DEF ScriptOf
    <3>3. Ahead(stack[uh][i], p)
      BY <1>1, <1>4, <2>2, <3>1 DEF Ahead, BeginPlace
    <3>4. Fresh(u)
      <4>1. Covered(uh, stack[uh][i])
        BY <3>1, CoveredNow
      <4> QED BY <2>2, <3>1, <3>2, <3>3, <4>1 DEF Covered
    <3>5. u # t
      <4>1. SUFFICES ASSUME u = t PROVE FALSE
        OBVIOUS
      <4> DEFINE k == Len(stack[th])
      <4> DEFINE q == Top(th).ip
      <4>2. /\ k \in DOMAIN stack[th] /\ stack[th][k].at \in RunPlace
            /\ StartsAt(ScriptOf(th, stack[th][k]), q, t)
        BY <1>1, <1>4 DEF RunPlace
      <4> HIDE DEF k, q
      <4>3. t \in Task
        BY <1>3
      <4>4. /\ k \in DOMAIN stack[th] /\ i \in DOMAIN stack[uh]
            /\ stack[th][k].at \in RunPlace /\ stack[uh][i].at \in RunPlace
            /\ StartsAt(ScriptOf(th, stack[th][k]), q, t)
            /\ StartsAt(ScriptOf(uh, stack[uh][i]), p, t)
        BY <2>2, <3>1, <3>2, <4>1, <4>2
      <4>5. th = uh /\ k = i /\ q = p
        <5>1. Starter(th, k, q, t) /\ Starter(uh, i, p, t)
          BY <4>3, <4>4 DEF Starter
        <5> QED BY <5>1, StarterOnce
      <4> USE DEF k, q
      <4>6. stack'[uh][i] = g
        BY <1>4, <3>1, <4>5
      <4>7. Top(th).ip \in Nat
        BY <1>1, TopOk DEF FrameType
      <4> QED BY <1>1, <2>2, <4>5, <4>6, <4>7 DEF Ahead
    <3> QED BY <2>1, <3>4, <3>5
  <2>3. ASSUME NEW w \in Task, NEW u \in Task, ~Ran(w)', NEW p \in DOMAIN prog.body[w],
               StartsAt(prog.body[w], p, u)
        PROVE  Fresh(u)'
    <3>1. ~Ran(w)
      BY <2>1, <2>3
    <3>2. Fresh(u)
      BY <2>3, <3>1 DEF FreshInv, Inv2
    <3>3. u # t
      <4>1. SUFFICES ASSUME u = t PROVE FALSE
        OBVIOUS
      <4>2. StartedOnce(prog)
        BY ProgTyped DEF Inv1, Typed
      <4>3. CASE Top(th).task = None
        <5>1. StartsAt(prog.main[n], Top(th).ip, t) /\ Top(th).ip \in DOMAIN prog.main[n]
          BY <1>1, <1>2, <4>3 DEF ScriptOf
        <5> QED BY <1>3, <2>3, <4>1, <4>2, <5>1 DEF StartedOnce
      <4>4. CASE Top(th).task # None
        <5>1. /\ StartsAt(prog.body[Top(th).task], Top(th).ip, t)
              /\ Top(th).ip \in DOMAIN prog.body[Top(th).task]
          BY <1>1, <4>4 DEF ScriptOf
        <5>2. Top(th).task \in Task /\ Ran(Top(th).task)
          BY <1>1, <1>4, <4>4, ScriptRuns DEF RunPlace
        <5>3. Top(th).task = w
          BY <1>3, <2>3, <4>1, <4>2, <5>1, <5>2 DEF StartedOnce
        <5> QED BY <3>1, <5>2, <5>3
      <4> QED BY <4>3, <4>4
    <3> QED BY <2>1, <3>2, <3>3
  <2>4. /\ \A uh \in Thread : \A i \in DOMAIN stack'[uh] : \A u \in Task :
             stack'[uh][i].at \in RunPlace =>
               \A p \in DOMAIN ScriptOf(uh, stack'[uh][i]) :
                 Ahead(stack'[uh][i], p) /\ StartsAt(ScriptOf(uh, stack'[uh][i]), p, u) => Fresh(u)'
        /\ \A w, u \in Task : ~Ran(w)' =>
             \A p \in DOMAIN prog.body[w] : StartsAt(prog.body[w], p, u) => Fresh(u)'
    BY <2>2, <2>3
  <2> QED BY <1>1, <2>4 DEF FreshInv, ScriptOf
<1>20. Keeps({t})
  BY <1>1, <1>5, <1>9 DEF Keeps
<1>21. TokensKept({t})
  <2> SUFFICES ASSUME NEW m \in Node
      PROVE  /\ \A i \in DOMAIN messages[m] : About(m, messages[m][i]) /\ ~Tells(messages[m][i], t)
             /\ processer[m].at = "process" =>
                  About(m, processer[m].msg) /\ ~Tells(processer[m].msg, t)
             /\ processer[m].at \in {"list", "await", "again"} =>
                  Grip(m, processer[m].at, processer[m].msg.on) /\ processer[m].msg.on # t
             /\ \A i \in DOMAIN net[m] : Wire(m, net[m][i]) /\ ~Tells(net[m][i], t)
    BY <1>1 DEF TokensKept
  <2>1. /\ \A i \in DOMAIN messages[m] : About(m, messages[m][i]) /\ ~Tells(messages[m][i], t)
        /\ \A i \in DOMAIN net[m] : Wire(m, net[m][i]) /\ ~Tells(net[m][i], t)
    BY <1>3, TokenNow DEF NoToken
  <2>2. processer[m].at = "process" =>
          About(m, processer[m].msg) /\ ~Tells(processer[m].msg, t)
    BY <1>3, TokenNow DEF NoToken, Carried
  <2>3. ASSUME processer[m].at \in {"list", "await", "again"}
        PROVE  Grip(m, processer[m].at, processer[m].msg.on) /\ processer[m].msg.on # t
    <3>1. processer[m].msg.type = "SERVE"
      BY <2>3, MessageTyped
    <3> QED BY <1>3, <2>3, <3>1, TokenNow DEF NoToken, Carried, Tells, TaskTypes
  <2> QED BY <2>1, <2>2, <2>3
<1>22. TokenInv' /\ OneTokenInv'
  <2>1. TokenInv'
    BY <1>20, <1>21, TokenKept
  <2>2. OneTokenInv'
    BY <1>1 DEF OneTokenInv, Inv2, Carried
  <2> QED BY <2>1, <2>2
<1>23. ActionInv'
  <2>1. \A uh \in Thread : \A i \in DOMAIN stack'[uh] : stack'[uh][i].at = "announce" =>
          i \in DOMAIN stack[uh] /\ stack'[uh][i] = stack[uh][i]
    BY <1>4, <1>7
  <2> QED BY <1>1, <2>1, StillActions
<1> QED BY <1>10, <1>11, <1>12, <1>13, <1>14, <1>15, <1>16, <1>17, <1>18, <1>19, <1>22, <1>23
        DEF Inv2

\* One frame at most is at the start of a task.
LEMMA BeginsOnce ==
  ASSUME Inv1, Inv2, NEW t \in Task, NEW n \in Node,
         NEW th \in Thread, NEW i \in DOMAIN stack[th], Begins(th, i, n, t),
         NEW uh \in Thread, NEW k \in DOMAIN stack[uh], Begins(uh, k, n, t)
  PROVE  th = uh /\ i = k
<1>1. ASSUME NEW vh \in Thread, NEW j \in DOMAIN stack[vh], Begins(vh, j, n, t)
      PROVE  /\ stack[vh][j].at \in RunPlace
             /\ StartsAt(ScriptOf(vh, stack[vh][j]), stack[vh][j].ip, t)
  <2>1. GoodFrame(vh, j, stack[vh][j])
    BY DEF Inv1, Shape, StackOk
  <2>2. stack[vh][j].at \in RunPlace /\ stack[vh][j].at \in RunPlace \ {"body"}
    BY <1>1 DEF Begins, BeginPlace, RunPlace
  <2> QED BY <1>1, <2>1, <2>2 DEF GoodFrame, OpOk, Begins, StartsAt, OpOf
<1> DEFINE p == stack[th][i].ip
<1> DEFINE q == stack[uh][k].ip
<1>2. /\ stack[th][i].at \in RunPlace /\ StartsAt(ScriptOf(th, stack[th][i]), p, t)
      /\ stack[uh][k].at \in RunPlace /\ StartsAt(ScriptOf(uh, stack[uh][k]), q, t)
  BY <1>1
<1> HIDE DEF p, q
<1>3. Starter(th, i, p, t) /\ Starter(uh, k, q, t)
  BY <1>2 DEF Starter
<1> QED BY <1>3, StarterOnce

\* Where tasks are after one was put into the list by the thread that starts it.
LEMMA ListsFrames ==
  ASSUME Inv1, Inv1', Inv2, NEW th \in Thread, NEW t, NEW g, Lists(th, t, g)
  PROVE  /\ SameTasks
         /\ Len(stack[th]) \in DOMAIN stack[th] /\ stack[th][Len(stack[th])] = Top(th)
         /\ \A uh \in Thread : \A i \in DOMAIN stack[uh] :
              \/ stack'[uh][i] = stack[uh][i] /\ (uh # th \/ i # Len(stack[th]))
              \/ /\ uh = th /\ i = Len(stack[th]) /\ stack[uh][i] = Top(th) /\ stack'[uh][i] = g
         /\ \A uh \in Thread : \A i \in DOMAIN stack[uh] : \A m \in Node, u \in Task :
              Begins(uh, i, m, u)' <=>
                Begins(uh, i, m, u) /\ (uh # th \/ i # Len(stack[th]))
         /\ t \in Task /\ th[1] \in Node
         /\ task[th[1]][t].status = "CREATED" /\ ~task[th[1]][t].message
         /\ ~Listed(th[1], t) /\ ~Held(th[1], t) /\ ~Receiving(th[1], t)
         /\ \A m \in Node, u \in Task :
              /\ Held(m, u)' <=> Held(m, u)
              /\ Receiving(m, u)' <=> Receiving(m, u)
              /\ Sent(m, u)' <=> Sent(m, u)
              /\ Begun(m, u)' <=> Begun(m, u) /\ (m # th[1] \/ u # t)
              /\ Listed(m, u)' <=> Listed(m, u) \/ (m = th[1] /\ u = t)
         /\ \A m \in Node : Distinct(taskList'[m])
         /\ \A m \in Node : \A i \in DOMAIN taskList'[m] :
              \/ i \in DOMAIN taskList[m] /\ taskList'[m][i] = taskList[m][i]
              \/ m = th[1] /\ taskList'[m][i] = t
<1>1. /\ stack[th] # <<>> /\ Top(th).at = "list" /\ t \in Task /\ Replaced(th, g)
      /\ g.at = "body" /\ g.task = Top(th).task
      /\ Begins(th, Len(stack[th]), th[1], t)
      /\ taskList' = [taskList EXCEPT ![th[1]] = Append(taskList[th[1]], t)]
      /\ UNCHANGED <<prog, task, processer>>
  BY DEF Lists
<1>2. SameTasks
  BY <1>1, ReplacedTasks
<1>3. /\ Len(stack[th]) \in DOMAIN stack[th] /\ stack[th][Len(stack[th])] = Top(th)
      /\ stack'[th][Len(stack[th])] = g
      /\ \A uh \in Thread : DOMAIN stack'[uh] = DOMAIN stack[uh]
      /\ \A uh \in Thread : \A i \in DOMAIN stack[uh] :
           uh # th \/ i # Len(stack[th]) => stack'[uh][i] = stack[uh][i]
  BY <1>1, FramesReplaced
<1>4. PICK n \in Node : n = th[1]
  BY ThreadOk
<1>5. /\ task[n][t].status = "CREATED" /\ ~task[n][t].message
      /\ ~Listed(n, t) /\ ~Held(n, t) /\ ~Receiving(n, t)
  <2>1. /\ task[n][t].status = "CREATED" /\ ~task[n][t].message
        /\ ~Listed(n, t) /\ ~Held(n, t)
    BY <1>1, <1>3, <1>4 DEF BeginInv, Inv2
  <2> QED BY <1>1, <2>1 DEF ReceiveInv, Inv2
<1>6. ASSUME NEW uh \in Thread, NEW i \in DOMAIN stack[uh], NEW m \in Node, NEW u \in Task
      PROVE  Begins(uh, i, m, u)' <=> Begins(uh, i, m, u) /\ (uh # th \/ i # Len(stack[th]))
  <2>1. CASE uh = th /\ i = Len(stack[th])
    BY <1>1, <1>3, <2>1 DEF Begins, BeginPlace
  <2>2. CASE uh # th \/ i # Len(stack[th])
    <3>1. stack'[uh][i] = stack[uh][i] /\ i \in DOMAIN stack'[uh]
      BY <1>3, <2>2
    <3> QED BY <1>1, <2>2, <3>1 DEF Begins, OpOf, ScriptOf
  <2> QED BY <2>1, <2>2
<1>7. \A m \in Node, u \in Task :
        /\ Held(m, u)' <=> Held(m, u)
        /\ Receiving(m, u)' <=> Receiving(m, u)
  BY <1>1, <1>2, SameHands DEF Receiving
<1>8. \A m \in Node, u \in Task : Sent(m, u)' <=> Sent(m, u)
  <2>1. \A uh \in Thread : \A i \in DOMAIN stack[uh] :
          stack'[uh][i].at = "schedule" <=> stack[uh][i].at = "schedule"
    BY <1>1, <1>3
  <2> QED BY <1>1, <1>2, <2>1, SentSame
<1>9. ASSUME NEW m \in Node, NEW u \in Task
      PROVE  Begun(m, u)' <=> Begun(m, u) /\ (m # n \/ u # t)
  <2>1. CASE m = n /\ u = t
    <3>1. ASSUME NEW uh \in Thread, NEW i \in DOMAIN stack[uh], Begins(uh, i, n, t)
          PROVE  uh = th /\ i = Len(stack[th])
      <4> DEFINE k == Len(stack[th])
      <4>1. k \in DOMAIN stack[th] /\ Begins(th, k, n, t)
        BY <1>1, <1>3, <1>4
      <4> HIDE DEF k
      <4>2. uh = th /\ i = k
        BY <1>1, <3>1, <4>1, BeginsOnce
      <4> QED BY <4>2 DEF k
    <3> QED BY <1>1, <1>3, <1>6, <2>1, <3>1 DEF Begun
  <2>2. CASE m # n \/ u # t
    <3>1. Begins(th, Len(stack[th]), m, u) => m = n /\ u = t
      BY <1>1, <1>4 DEF Begins
    <3> QED BY <1>3, <1>6, <2>2, <3>1 DEF Begun
  <2> QED BY <2>1, <2>2
<1>10. PutIn(taskList, taskList', n, t)
  <2>1. taskList \in [Node -> Seq(Task)] /\ taskList' \in [Node -> Seq(Task)]
    BY DEF Inv1, Typed
  <2>2. taskList'[n] = Append(taskList[n], t) /\ \A m \in Node : m # n => taskList'[m] = taskList[m]
    BY <1>1, <1>4, <2>1
  <2> QED BY <1>1, <2>1, <2>2, PutInOk
<1>11. /\ \A m \in Node, u \in Task : Listed(m, u)' <=> Listed(m, u) \/ (m = n /\ u = t)
       /\ \A m \in Node : Distinct(taskList'[m])
  <2>1. \A m \in Node : Distinct(taskList[m])
    BY DEF ListInv, Inv2
  <2> QED BY <1>1, <1>5, <1>10, <2>1, ListGrows
<1>12. \A m \in Node : \A i \in DOMAIN taskList'[m] :
         \/ i \in DOMAIN taskList[m] /\ taskList'[m][i] = taskList[m][i]
         \/ m = n /\ taskList'[m][i] = t
  BY <1>10 DEF PutIn
<1> QED BY <1>1, <1>2, <1>3, <1>4, <1>5, <1>6, <1>7, <1>8, <1>9, <1>11, <1>12

LEMMA ListsInv2 ==
  ASSUME Inv1, Inv1', Inv2, NEW th \in Thread, NEW t, NEW g, Lists(th, t, g)
  PROVE  Inv2'
<1>1. /\ stack[th] # <<>> /\ Top(th).at = "list"
      /\ g.at = "body" /\ g.task = Top(th).task /\ g.ip = Top(th).ip + 1
      /\ UNCHANGED <<prog, action, task, messages, served, net, processer>>
  BY DEF Lists
<1>2. PICK n \in Node : n = th[1]
  BY ThreadOk
<1>3. /\ SameTasks /\ t \in Task
      /\ Len(stack[th]) \in DOMAIN stack[th] /\ stack[th][Len(stack[th])] = Top(th)
      /\ \A uh \in Thread : \A i \in DOMAIN stack[uh] :
           \/ stack'[uh][i] = stack[uh][i] /\ (uh # th \/ i # Len(stack[th]))
           \/ /\ uh = th /\ i = Len(stack[th]) /\ stack[uh][i] = Top(th) /\ stack'[uh][i] = g
      /\ \A uh \in Thread : DOMAIN stack'[uh] = DOMAIN stack[uh]
      /\ \A uh \in Thread : \A i \in DOMAIN stack[uh] : stack'[uh][i].task = stack[uh][i].task
  BY ListsFrames DEF SameTasks
<1>4. \A uh \in Thread : \A i \in DOMAIN stack[uh] : \A m \in Node, u \in Task :
        Begins(uh, i, m, u)' <=> Begins(uh, i, m, u) /\ (uh # th \/ i # Len(stack[th]))
  BY ListsFrames
<1>5. /\ task[n][t].status = "CREATED" /\ ~task[n][t].message
      /\ ~Listed(n, t) /\ ~Held(n, t) /\ ~Receiving(n, t)
  BY <1>2, ListsFrames
<1>6. /\ \A m \in Node, u \in Task :
           /\ Held(m, u)' <=> Held(m, u)
           /\ Receiving(m, u)' <=> Receiving(m, u)
           /\ Sent(m, u)' <=> Sent(m, u)
           /\ Begun(m, u)' <=> Begun(m, u) /\ (m # n \/ u # t)
           /\ Listed(m, u)' <=> Listed(m, u) \/ (m = n /\ u = t)
      /\ \A m \in Node : Distinct(taskList'[m])
      /\ \A m \in Node : \A i \in DOMAIN taskList'[m] :
           \/ i \in DOMAIN taskList[m] /\ taskList'[m][i] = taskList[m][i]
           \/ m = n /\ taskList'[m][i] = t
  BY <1>2, ListsFrames
<1>7. ServedInv' /\ UnsentInv'
  BY <1>1, <1>6 DEF ServedInv, UnsentInv, Inv2
<1>8. StagesInv'
  <2> SUFFICES ASSUME NEW uh \in Thread, NEW i \in DOMAIN stack[uh], stack'[uh][i].at = "complete"
               PROVE  StagesFit(stack'[uh][i].stages, task[uh[1]][stack'[uh][i].task])
    BY <1>1, <1>3 DEF StagesInv
  <2>1. stack'[uh][i] = stack[uh][i]
    BY <1>1, <1>3
  <2> QED BY <2>1 DEF StagesInv, Inv2
<1>9. ListInv'
  <2> SUFFICES ASSUME NEW m \in Node, NEW i \in DOMAIN taskList'[m]
      PROVE  /\ task[m][taskList'[m][i]].status \in {"CREATED", "SCHEDULED", "WAITING"}
             /\ ~Held(m, taskList[m][i])'
    BY <1>1, <1>6 DEF ListInv, Distinct
  <2>1. PICK u \in Task : u = taskList'[m][i]
    <3>1. taskList' \in [Node -> Seq(Task)]
      BY DEF Inv1, Typed
    <3> QED BY <3>1
  <2>2. task[m][u].status \in {"CREATED", "SCHEDULED", "WAITING"} /\ ~Held(m, u)
    BY <1>5, <1>6, <2>1 DEF ListInv, Inv2
  <2>3. ~Held(m, u)'
    BY <1>6, <2>2
  <2>4. ~Held(m, taskList[m][i])'
    BY <2>1, <2>3 DEF Held, In
  <2> QED BY <2>1, <2>2, <2>4
<1>10. HeldInv'
  <2> SUFFICES ASSUME NEW uh \in Thread, NEW i \in DOMAIN stack[uh], stack[uh][i].task # None
               PROVE  /\ StatusAt(stack'[uh][i].at, task[uh[1]][stack[uh][i].task].status,
                                  task[uh[1]][stack[uh][i].task].type)
                      /\ \A vh \in Thread : \A j \in DOMAIN stack[vh] :
                           In(vh, j, uh[1], stack[uh][i].task) => vh = uh /\ j = i
    <3>1. \A vh \in Thread : \A j \in DOMAIN stack[vh] : \A m, u :
            In(vh, j, m, u)' <=> In(vh, j, m, u)
      BY <1>3 DEF In
    <3> QED BY <1>1, <1>3, <3>1 DEF HeldInv
  <2>1. /\ StatusAt(stack[uh][i].at, task[uh[1]][stack[uh][i].task].status,
                    task[uh[1]][stack[uh][i].task].type)
        /\ \A vh \in Thread : \A j \in DOMAIN stack[vh] :
             In(vh, j, uh[1], stack[uh][i].task) => vh = uh /\ j = i
    BY DEF HeldInv, Inv2
  <2>2. CASE stack'[uh][i] = stack[uh][i]
    BY <2>1, <2>2
  <2>3. CASE stack[uh][i] = Top(th) /\ stack'[uh][i] = g
    BY <1>1, <2>1, <2>3 DEF StatusAt, RunPlace
  <2> QED BY <1>3, <2>2, <2>3
<1>11. BeginInv'
  <2> SUFFICES ASSUME NEW uh \in Thread, NEW i \in DOMAIN stack[uh], NEW u \in Task,
                      Begins(uh, i, uh[1], u)'
               PROVE  /\ task[uh[1]][u].status = "CREATED"
                      /\ task[uh[1]][u].queue = prog.queue[u]
                      /\ task[uh[1]][u].group = prog.group[u]
                      /\ ~task[uh[1]][u].message
                      /\ ~Listed(uh[1], u)' /\ ~Held(uh[1], u)'
    BY <1>1, <1>3 DEF BeginInv
  <2>1. uh[1] \in Node
    BY ThreadOk
  <2>2. Begins(uh, i, uh[1], u)
    BY <1>4, <2>1
  <2>3. uh[1] # n \/ u # t
    BY <1>3, <1>6, <2>1 DEF Begun
  <2> QED BY <1>6, <2>1, <2>2, <2>3 DEF BeginInv, Inv2
<1>12. ReceiveInv'
  BY <1>1, <1>5, <1>6 DEF ReceiveInv, Inv2
<1>13. SomewhereInv'
  BY <1>1, <1>6 DEF SomewhereInv, Inv2
<1>14. RecordInv'
  BY <1>1 DEF RecordInv, Inv2
<1>15. FreshInv'
  <2>1. ASSUME NEW uh \in Thread, NEW i \in DOMAIN stack'[uh] PROVE Covered(uh, stack'[uh][i])
    <3>1. Covered(uh, stack[uh][i]) /\ stack[uh][i] \in FrameType
      BY <1>3, CoveredNow DEF Inv1, Typed
    <3>2. CASE stack'[uh][i] = stack[uh][i]
      BY <3>1, <3>2
    <3>3. CASE uh = th /\ stack[uh][i] = Top(th) /\ stack'[uh][i] = g
      <4>1. ScriptOf(th, g) = ScriptOf(th, Top(th))
        BY <1>1 DEF ScriptOf
      <4>2. Top(th).at \in RunPlace /\ Top(th).ip \in Nat
        BY <1>1, <3>1, <3>3 DEF RunPlace, FrameType
      <4>3. \A p \in DOMAIN ScriptOf(th, g) : Ahead(g, p) => Ahead(Top(th), p)
        <5>1. prog \in Programs /\ Top(th).task \in Task \union {None}
          BY <3>1, <3>3 DEF Inv1, Typed, FrameType
        <5>2. ScriptOf(th, Top(th)) \in Seq(Op)
          BY <5>1, ScriptTyped
        <5>3. DOMAIN ScriptOf(th, g) \subseteq Nat
          BY <4>1, <5>2
        <5> QED BY <1>1, <4>2, <5>3 DEF Ahead
      <4> QED BY <3>1, <3>3, <4>1, <4>2, <4>3 DEF Covered
    <3> QED BY <1>3, <3>2, <3>3
  <2>2. \A u \in Task : (Fresh(u) => Fresh(u)') /\ (Ran(u) => Ran(u)')
    BY <1>1 DEF Fresh, Ran
  <2> QED BY <1>1, <2>1, <2>2, FreshKept
<1>16. Keeps({})
  BY <1>1, <1>6 DEF Keeps
<1>17. TokenInv' /\ OneTokenInv'
  BY <1>1, <1>16, StillTokens
<1>18. ActionInv'
  <2>1. \A uh \in Thread : \A i \in DOMAIN stack'[uh] : stack'[uh][i].at = "announce" =>
          i \in DOMAIN stack[uh] /\ stack'[uh][i] = stack[uh][i]
    BY <1>1, <1>3
  <2> QED BY <1>1, <2>1, StillActions
<1> QED BY <1>7, <1>8, <1>9, <1>10, <1>11, <1>12, <1>13, <1>14, <1>15, <1>17, <1>18 DEF Inv2

-----------------------------------------------------------------------------
(* A thread takes a task from the list.                                    *)

LEMMA TakeFrames ==
  ASSUME Inv1, Inv2, NEW th \in Thread, NEW g, Take(th, g)
  PROVE  LET n == th[1] t == Head(taskList[n]) L == Len(stack[th]) + 1 IN
         /\ n \in Node /\ t \in Task /\ g.task = t /\ g.at = "process"
         /\ task[n][t].status \in {"CREATED", "SCHEDULED", "WAITING"}
         /\ Listed(n, t) /\ ~Held(n, t) /\ ~Begun(n, t) /\ ~Receiving(n, t)
         /\ GotIn(taskList, taskList', n)
         /\ L \notin DOMAIN stack[th] /\ stack'[th][L] = g
         /\ \A uh \in Thread : \A i \in DOMAIN stack[uh] :
              /\ i \in DOMAIN stack'[uh] /\ (uh # th \/ i # L)
              /\ \/ stack'[uh][i] = stack[uh][i]
                 \/ /\ stack[uh][i].at = "pop" /\ stack'[uh][i].at = "body"
                    /\ stack'[uh][i].task = stack[uh][i].task /\ stack'[uh][i].ip = stack[uh][i].ip
         /\ \A uh \in Thread : \A i \in DOMAIN stack'[uh] :
              i \in DOMAIN stack[uh] \/ (uh = th /\ i = L)
         /\ L \in DOMAIN stack'[th]
<1> DEFINE n == th[1]
<1> DEFINE t == Head(taskList[n])
<1> DEFINE L == Len(stack[th]) + 1
<1>1. /\ taskList[n] # <<>> /\ Added(th, g) /\ g.task = t /\ g.at = "process"
      /\ stack[th] # <<>> => Top(th).at = "pop"
      /\ taskList' = [taskList EXCEPT ![n] = Tail(taskList[n])]
  BY DEF Take
<1>2. n \in Node /\ taskList \in [Node -> Seq(Task)]
  BY ThreadOk DEF Inv1, Typed
<1>3. t \in Task /\ GotIn(taskList, taskList', n)
  BY <1>1, <1>2, GotInOk
<1>4. /\ L \notin DOMAIN stack[th]
      /\ stack'[th][L] = g
      /\ DOMAIN stack'[th] = DOMAIN stack[th] \union {L}
      /\ \A uh \in Thread : uh # th => stack'[uh] = stack[uh]
      /\ \A i \in DOMAIN stack[th] :
           \/ stack'[th][i] = stack[th][i]
           \/ /\ stack[th][i].at = "pop" /\ stack'[th][i].at = "body"
              /\ stack'[th][i].task = stack[th][i].task /\ stack'[th][i].ip = stack[th][i].ip
  BY <1>1, FramesAdded
<1>5. 1 \in DOMAIN taskList[n] /\ taskList[n][1] = t
  BY <1>3 DEF GotIn
<1>6. /\ task[n][t].status \in {"CREATED", "SCHEDULED", "WAITING"}
      /\ Listed(n, t) /\ ~Held(n, t)
  BY <1>2, <1>5 DEF ListInv, Inv2, Listed
<1>7. ~Begun(n, t)
  <2> SUFFICES ASSUME NEW uh \in Thread, NEW i \in DOMAIN stack[uh], Begins(uh, i, n, t)
               PROVE  FALSE
    BY DEF Begun
  <2>1. uh[1] = n
    BY DEF Begins
  <2> QED BY <1>3, <1>6, <2>1 DEF BeginInv, Inv2
<1>8. ~Receiving(n, t)
  BY <1>2, <1>3, <1>6 DEF ReceiveInv, Inv2
<1> HIDE DEF L
<1>9. /\ \A uh \in Thread : \A i \in DOMAIN stack[uh] :
           /\ i \in DOMAIN stack'[uh] /\ (uh # th \/ i # L)
           /\ \/ stack'[uh][i] = stack[uh][i]
              \/ /\ stack[uh][i].at = "pop" /\ stack'[uh][i].at = "body"
                 /\ stack'[uh][i].task = stack[uh][i].task /\ stack'[uh][i].ip = stack[uh][i].ip
      /\ \A uh \in Thread : \A i \in DOMAIN stack'[uh] :
           i \in DOMAIN stack[uh] \/ (uh = th /\ i = L)
      /\ L \in DOMAIN stack'[th]
  BY <1>4
<1> QED BY <1>1, <1>2, <1>3, <1>4, <1>6, <1>7, <1>8, <1>9 DEF L

LEMMA TakeInv2 ==
  ASSUME Inv1, Inv1', Inv2, NEW th \in Thread, NEW g, Take(th, g)
  PROVE  Inv2'
<1>1. UNCHANGED <<prog, action, task, messages, served, net, processer>>
  BY DEF Take
<1>2. PICK n \in Node, t \in Task, L \in {Len(stack[th]) + 1} :
         n = th[1] /\ t = Head(taskList[n])
  BY TakeFrames
<1>3. /\ g.task = t /\ g.at = "process"
      /\ task[n][t].status \in {"CREATED", "SCHEDULED", "WAITING"}
      /\ Listed(n, t) /\ ~Held(n, t) /\ ~Begun(n, t) /\ ~Receiving(n, t)
      /\ GotIn(taskList, taskList', n)
  BY <1>2, TakeFrames
<1>4. /\ L \notin DOMAIN stack[th] /\ stack'[th][L] = g
      /\ L \in DOMAIN stack'[th]
      /\ \A uh \in Thread : \A i \in DOMAIN stack[uh] :
           /\ i \in DOMAIN stack'[uh] /\ (uh # th \/ i # L)
           /\ \/ stack'[uh][i] = stack[uh][i]
              \/ /\ stack[uh][i].at = "pop" /\ stack'[uh][i].at = "body"
                 /\ stack'[uh][i].task = stack[uh][i].task /\ stack'[uh][i].ip = stack[uh][i].ip
      /\ \A uh \in Thread : \A i \in DOMAIN stack'[uh] :
           i \in DOMAIN stack[uh] \/ (uh = th /\ i = L)
  BY <1>2, TakeFrames
<1>5. ASSUME NEW uh \in Thread, NEW i \in DOMAIN stack'[uh], NEW m \in Node, NEW u \in Task
      PROVE  /\ In(uh, i, m, u)' <=>
                  In(uh, i, m, u) \/ (uh = th /\ i = L /\ m = n /\ u = t)
             /\ Begins(uh, i, m, u)' <=> i \in DOMAIN stack[uh] /\ Begins(uh, i, m, u)
  <2>1. CASE uh = th /\ i = L
    BY <1>2, <1>3, <1>4, <2>1 DEF In, Begins, BeginPlace
  <2>2. CASE i \in DOMAIN stack[uh]
    <3>1. uh # th \/ i # L
      BY <1>4, <2>2
    <3>2. CASE stack'[uh][i] = stack[uh][i]
      BY <1>1, <2>2, <3>1, <3>2 DEF In, Begins, OpOf, ScriptOf
    <3>3. CASE /\ stack[uh][i].at = "pop" /\ stack'[uh][i].at = "body"
               /\ stack'[uh][i].task = stack[uh][i].task
      BY <2>2, <3>1, <3>3 DEF In, Begins, BeginPlace
    <3> QED BY <1>4, <2>2, <3>2, <3>3
  <2> QED BY <1>4, <2>1, <2>2
<1>6. \A m \in Node, u \in Task :
        /\ Held(m, u)' <=> Held(m, u) \/ (m = n /\ u = t)
        /\ Begun(m, u)' <=> Begun(m, u)
        /\ Receiving(m, u)' <=> Receiving(m, u)
  <2>1. ASSUME NEW m \in Node, NEW u \in Task
        PROVE  Held(m, u)' <=> Held(m, u) \/ (m = n /\ u = t)
    <3>1. ASSUME Held(m, u)' PROVE Held(m, u) \/ (m = n /\ u = t)
      BY <1>5, <3>1 DEF Held, In
    <3>2. ASSUME Held(m, u) PROVE Held(m, u)'
      BY <1>4, <1>5, <3>2 DEF Held
    <3>3. In(th, L, n, t)'
      BY <1>4, <1>5
    <3>4. Held(n, t)'
      BY <1>4, <3>3 DEF Held
    <3> QED BY <3>1, <3>2, <3>4
  <2>2. ASSUME NEW m \in Node, NEW u \in Task PROVE Begun(m, u)' <=> Begun(m, u)
    BY <1>4, <1>5 DEF Begun
  <2> QED BY <1>1, <2>1, <2>2 DEF Receiving
<1>7. \A m \in Node, u \in Task : Listed(m, u)' <=> Listed(m, u) /\ (m # n \/ u # t)
  <2>1. Distinct(taskList[n]) /\ taskList[n][1] = t /\ 1 \in DOMAIN taskList[n]
    BY <1>2, <1>3 DEF ListInv, Inv2, GotIn
  <2>2. ASSUME NEW u \in Task PROVE Listed(n, u)' <=> Listed(n, u) /\ u # t
    <3>1. ASSUME Listed(n, u)' PROVE Listed(n, u) /\ u # t
      <4>1. PICK i \in DOMAIN taskList'[n] : taskList'[n][i] = u
        BY <3>1 DEF Listed
      <4>2. i \in Nat \ {0} /\ i + 1 \in DOMAIN taskList[n] /\ taskList[n][i + 1] = u
        BY <1>3, <4>1 DEF GotIn
      <4>3. i + 1 # 1
        BY <4>2
      <4> QED BY <2>1, <4>2, <4>3 DEF Distinct, Listed
    <3>2. ASSUME Listed(n, u), u # t PROVE Listed(n, u)'
      <4>1. PICK i \in DOMAIN taskList[n] : taskList[n][i] = u
        BY <3>2 DEF Listed
      <4>2. i - 1 \in DOMAIN taskList'[n] /\ taskList'[n][i - 1] = taskList[n][i]
        BY <1>3, <2>1, <3>2, <4>1 DEF GotIn
      <4> QED BY <4>1, <4>2 DEF Listed
    <3> QED BY <3>1, <3>2
  <2>3. ASSUME NEW m \in Node, m # n, NEW u \in Task PROVE Listed(m, u)' <=> Listed(m, u)
    BY <1>3, <2>3 DEF GotIn, Listed
  <2> QED BY <2>2, <2>3
<1>8. \A m \in Node, u \in Task : Sent(m, u)' <=> Sent(m, u)
  <2>1. ASSUME NEW m \in Node, NEW u \in Task
        PROVE  (\E uh \in Thread : \E i \in DOMAIN stack[uh] :
                  In(uh, i, m, u) /\ stack[uh][i].at = "schedule")'
               <=> \E uh \in Thread : \E i \in DOMAIN stack[uh] :
                     In(uh, i, m, u) /\ stack[uh][i].at = "schedule"
    <3>1. ASSUME NEW uh \in Thread, NEW i \in DOMAIN stack'[uh],
                 In(uh, i, m, u)', stack'[uh][i].at = "schedule"
          PROVE  i \in DOMAIN stack[uh] /\ In(uh, i, m, u) /\ stack[uh][i].at = "schedule"
      <4>1. i \in DOMAIN stack[uh] /\ stack'[uh][i] = stack[uh][i]
        BY <1>3, <1>4, <3>1
      <4>2. uh # th \/ i # L
        BY <1>4, <4>1
      <4> QED BY <1>5, <3>1, <4>1, <4>2
    <3>2. ASSUME NEW uh \in Thread, NEW i \in DOMAIN stack[uh],
                 In(uh, i, m, u), stack[uh][i].at = "schedule"
          PROVE  i \in DOMAIN stack'[uh] /\ In(uh, i, m, u)' /\ stack'[uh][i].at = "schedule"
      BY <1>4, <1>5, <3>2
    <3> QED BY <3>1, <3>2
  <2> QED BY <1>1, <2>1 DEF Sent
<1>9. ServedInv' /\ UnsentInv' /\ RecordInv'
  <2>1. ServedInv' /\ UnsentInv'
    BY <1>1, <1>8 DEF ServedInv, UnsentInv, Inv2
  <2>2. RecordInv'
    BY <1>1 DEF RecordInv, Inv2
  <2> QED BY <2>1, <2>2
<1>10. StagesInv'
  <2> SUFFICES ASSUME NEW uh \in Thread, NEW i \in DOMAIN stack'[uh], stack'[uh][i].at = "complete"
               PROVE  StagesFit(stack'[uh][i].stages, task[uh[1]][stack'[uh][i].task])
    BY <1>1 DEF StagesInv
  <2>1. i \in DOMAIN stack[uh] /\ stack'[uh][i] = stack[uh][i]
    BY <1>3, <1>4
  <2> QED BY <2>1 DEF StagesInv, Inv2
<1>11. ListInv'
  <2> SUFFICES ASSUME NEW m \in Node
      PROVE  /\ Distinct(taskList'[m])
             /\ \A i \in DOMAIN taskList'[m] :
                  /\ task[m][taskList'[m][i]].status \in {"CREATED", "SCHEDULED", "WAITING"}
                  /\ ~Held(m, taskList[m][i])'
    BY <1>1 DEF ListInv, Distinct
  <2>1. Distinct(taskList'[m])
    <3>1. CASE m # n
      BY <1>3, <3>1 DEF ListInv, Inv2, GotIn
    <3>2. CASE m = n
      <4> SUFFICES ASSUME NEW i \in DOMAIN taskList'[n], NEW k \in DOMAIN taskList'[n],
                          taskList'[n][i] = taskList'[n][k]
                   PROVE  i = k
        BY <3>2 DEF Distinct
      <4>1. /\ i \in Nat /\ i + 1 \in DOMAIN taskList[n] /\ taskList'[n][i] = taskList[n][i + 1]
            /\ k \in Nat /\ k + 1 \in DOMAIN taskList[n] /\ taskList'[n][k] = taskList[n][k + 1]
        BY <1>3 DEF GotIn
      <4>2. i + 1 = k + 1
        BY <4>1 DEF ListInv, Inv2, Distinct
      <4> QED BY <4>1, <4>2
    <3> QED BY <3>1, <3>2
  <2>2. ASSUME NEW i \in DOMAIN taskList'[m]
        PROVE  /\ task[m][taskList'[m][i]].status \in {"CREATED", "SCHEDULED", "WAITING"}
               /\ ~Held(m, taskList[m][i])'
    <3>1. PICK u \in Task : u = taskList'[m][i]
      <4>1. taskList' \in [Node -> Seq(Task)]
        BY DEF Inv1, Typed
      <4> QED BY <4>1
    <3>2. Listed(m, u)'
      BY <3>1 DEF Listed
    <3>3. Listed(m, u) /\ (m # n \/ u # t)
      BY <1>7, <3>2
    <3>4. task[m][u].status \in {"CREATED", "SCHEDULED", "WAITING"} /\ ~Held(m, u)
      BY <3>3 DEF Listed, ListInv, Inv2
    <3>5. ~Held(m, u)'
      BY <1>6, <3>3, <3>4
    <3>6. ~Held(m, taskList[m][i])'
      BY <3>1, <3>5 DEF Held, In
    <3> QED BY <3>1, <3>4, <3>6
  <2> QED BY <2>1, <2>2
<1>12. HeldInv'
  <2>1. ASSUME NEW uh \in Thread, NEW i \in DOMAIN stack'[uh], stack'[uh][i].task # None
        PROVE  StatusAt(stack'[uh][i].at, task[uh[1]][stack'[uh][i].task].status,
                        task[uh[1]][stack'[uh][i].task].type)
    <3>1. CASE uh = th /\ i = L
      BY <1>2, <1>3, <1>4, <3>1 DEF StatusAt, RunPlace
    <3>2. CASE i \in DOMAIN stack[uh]
      <4>1. stack'[uh][i].task = stack[uh][i].task
        BY <1>4, <3>2
      <4>2. StatusAt(stack[uh][i].at, task[uh[1]][stack[uh][i].task].status,
                     task[uh[1]][stack[uh][i].task].type)
        BY <2>1, <3>2, <4>1 DEF HeldInv, Inv2
      <4>3. CASE stack'[uh][i] = stack[uh][i]
        BY <4>2, <4>3
      <4>4. CASE stack[uh][i].at = "pop" /\ stack'[uh][i].at = "body"
        BY <4>1, <4>2, <4>4 DEF StatusAt, RunPlace
      <4> QED BY <1>4, <3>2, <4>3, <4>4
    <3> QED BY <1>4, <3>1, <3>2
  <2>2. ASSUME NEW uh \in Thread, NEW i \in DOMAIN stack'[uh], stack'[uh][i].task # None,
               NEW vh \in Thread, NEW j \in DOMAIN stack'[vh],
               NEW m \in Node, NEW u \in Task, In(uh, i, m, u)', In(vh, j, m, u)'
        PROVE  vh = uh /\ j = i
    <3>1. CASE m = n /\ u = t
      BY <1>3, <1>5, <2>2, <3>1 DEF Held, In
    <3>2. CASE m # n \/ u # t
      <4>1. In(uh, i, m, u) /\ In(vh, j, m, u)
        BY <1>5, <2>2, <3>2
      <4>2. /\ i \in DOMAIN stack[uh] /\ stack[uh][i].task = u /\ uh[1] = m
            /\ j \in DOMAIN stack[vh] /\ u # None
        BY <4>1, MtapiAssumption DEF In
      <4> QED BY <4>1, <4>2 DEF HeldInv, Inv2
    <3> QED BY <3>1, <3>2
  <2> SUFFICES ASSUME NEW uh \in Thread, NEW i \in DOMAIN stack'[uh], stack'[uh][i].task # None
               PROVE  \A vh \in Thread : \A j \in DOMAIN stack'[vh] :
                        In(vh, j, uh[1], stack[uh][i].task)' => vh = uh /\ j = i
    BY <1>1, <2>1 DEF HeldInv
  <2>3. PICK u \in Task, m \in Node : u = stack'[uh][i].task /\ m = uh[1]
    <3>1. stack'[uh][i] \in FrameType
      BY DEF Inv1, Typed
    <3> QED BY <3>1, ThreadOk DEF FrameType
  <2>4. In(uh, i, m, u)'
    BY <2>3 DEF In
  <2>5. \A vh \in Thread : \A j \in DOMAIN stack'[vh] :
          In(vh, j, uh[1], stack[uh][i].task)' => In(vh, j, m, u)'
    BY <2>3 DEF In
  <2> QED BY <2>2, <2>4, <2>5
<1>13. BeginInv'
  <2> SUFFICES ASSUME NEW uh \in Thread, NEW i \in DOMAIN stack'[uh], NEW u \in Task,
                      Begins(uh, i, uh[1], u)'
               PROVE  /\ task[uh[1]][u].status = "CREATED"
                      /\ task[uh[1]][u].queue = prog.queue[u]
                      /\ task[uh[1]][u].group = prog.group[u]
                      /\ ~task[uh[1]][u].message
                      /\ ~Listed(uh[1], u)' /\ ~Held(uh[1], u)'
    BY <1>1 DEF BeginInv
  <2>1. uh[1] \in Node
    BY ThreadOk
  <2>2. i \in DOMAIN stack[uh] /\ Begins(uh, i, uh[1], u)
    BY <1>5, <2>1
  <2>3. uh[1] # n \/ u # t
    BY <1>3, <2>2 DEF Begun
  <2> QED BY <1>6, <1>7, <2>1, <2>2, <2>3 DEF BeginInv, Inv2
<1>14. ReceiveInv'
  BY <1>1, <1>3, <1>6, <1>7 DEF ReceiveInv, Inv2
<1>15. SomewhereInv'
  BY <1>1, <1>6, <1>7 DEF SomewhereInv, Inv2
<1>16. FreshInv'
  <2>1. ASSUME NEW uh \in Thread, NEW i \in DOMAIN stack'[uh] PROVE Covered(uh, stack'[uh][i])
    <3>1. CASE uh = th /\ i = L
      BY <1>3, <1>4, <3>1 DEF Covered, RunPlace
    <3>2. CASE i \in DOMAIN stack[uh] /\ stack'[uh][i] = stack[uh][i]
      BY <3>2, CoveredNow
    <3>3. CASE /\ i \in DOMAIN stack[uh]
               /\ stack[uh][i].at = "pop" /\ stack'[uh][i].at = "body"
               /\ stack'[uh][i].task = stack[uh][i].task /\ stack'[uh][i].ip = stack[uh][i].ip
      <4>1. ScriptOf(uh, stack'[uh][i]) = ScriptOf(uh, stack[uh][i])
        BY <3>3 DEF ScriptOf
      <4>2. Covered(uh, stack[uh][i])
        BY <3>3, CoveredNow
      <4> QED BY <3>3, <4>1, <4>2 DEF Covered, Ahead, RunPlace, BeginPlace
    <3> QED BY <1>4, <3>1, <3>2, <3>3
  <2>2. \A u \in Task : (Fresh(u) => Fresh(u)') /\ (Ran(u) => Ran(u)')
    BY <1>1 DEF Fresh, Ran
  <2> QED BY <1>1, <2>1, <2>2, FreshKept
<1>17. Keeps({})
  BY <1>1, <1>8 DEF Keeps
<1>18. TokenInv' /\ OneTokenInv'
  BY <1>1, <1>17, StillTokens
<1>19. ActionInv'
  <2>1. \A uh \in Thread : \A i \in DOMAIN stack'[uh] : stack'[uh][i].at = "announce" =>
          i \in DOMAIN stack[uh] /\ stack'[uh][i] = stack[uh][i]
    BY <1>3, <1>4
  <2> QED BY <1>1, <2>1, StillActions
<1> QED BY <1>9, <1>10, <1>11, <1>12, <1>13, <1>14, <1>15, <1>16, <1>18, <1>19 DEF Inv2

-----------------------------------------------------------------------------
(* The invariant: it holds at first, and every step keeps it.              *)

LEMMA InitInv == Init => Inv1 /\ Inv2
<1> SUFFICES ASSUME Init PROVE Inv1 /\ Inv2
  OBVIOUS
<1>1. TasksInit
  BY DEF Init
<1>2. /\ prog \in Programs
      /\ action = [n \in Node |-> [j \in Job |-> None]]
      /\ task = [n \in Node |-> [t \in Task |-> NoTask]]
      /\ taskList = [n \in Node |-> <<>>]
      /\ queue = [q \in Queue |-> <<>>]
      /\ group = [g \in Group |-> [num |-> 0, current |-> 0, result |-> None]]
      /\ stack = [th \in Thread |->
                    IF th[2] = "main" THEN <<Frame(None, "body")>> ELSE <<>>]
      /\ current = [th \in Thread |-> None]
      /\ filled = {} /\ awaited = {}
  BY <1>1 DEF TasksInit
<1>3. /\ messages = [n \in Node |-> <<>>]
      /\ served = [t \in Task |-> "RECEIVE_REMOTE_TASK"]
      /\ net = [n \in Node |-> <<>>]
      /\ acks = [n \in Node |-> 0]
      /\ processer = [n \in Node |-> Idle]
  BY DEF Init
<1> DEFINE f == Frame(None, "body")
<1>4. /\ f.task = None /\ f.at = "body" /\ f.ip = 1 /\ f.stages = <<>> /\ f.seen = 0
      /\ f \in FrameType
  BY DEF Frame, FrameType, Place
<1> HIDE DEF f
<1>5. \A th \in Thread :
        /\ stack[th] \in Seq(FrameType)
        /\ \A i \in DOMAIN stack[th] : i = 1 /\ stack[th][i] = f /\ th[2] = "main" /\ Len(stack[th]) = 1
        /\ th[2] = "main" => stack[th] # <<>>
  <2> SUFFICES ASSUME NEW th \in Thread
      PROVE  /\ stack[th] \in Seq(FrameType)
             /\ \A i \in DOMAIN stack[th] : i = 1 /\ stack[th][i] = f /\ th[2] = "main" /\ Len(stack[th]) = 1
             /\ th[2] = "main" => stack[th] # <<>>
    OBVIOUS
  <2>1. CASE th[2] = "main"
    <3>1. stack[th] = <<f>>
      BY <1>2, <2>1 DEF f
    <3> QED BY <1>4, <2>1, <3>1
  <2>2. CASE th[2] # "main"
    <3>1. stack[th] = <<>>
      BY <1>2, <2>2
    <3> QED BY <2>2, <3>1
  <2> QED BY <2>1, <2>2
<1>6. NoTask \in TaskInfo
  BY DEF NoTask, TaskInfo
<1>7. Typed
  <2>1. /\ action \in [Node -> [Job -> {None, "LOCAL", "REMOTE"}]]
        /\ task \in [Node -> [Task -> TaskInfo]]
        /\ taskList \in [Node -> Seq(Task)] /\ queue = [q \in Queue |-> queue[q]]
        /\ group \in [Group -> [num : Nat, current : Int, result : Task \union {None}]]
        /\ current \in [Thread -> Task \union {None}]
        /\ filled \subseteq Node \X Task /\ awaited \subseteq Task
    BY <1>2, <1>6
  <2>2. stack \in [Thread -> Seq(FrameType)]
    BY <1>2, <1>5
  <2>3. /\ messages \in [Node -> Seq(Message)] /\ net \in [Node -> Seq(NetMessage)]
        /\ served \in [Task -> {"RECEIVE_REMOTE_TASK", "AWAIT_LOCAL_TASK", "COMPLETE_LOCAL_TASK"}]
        /\ acks \in [Node -> Nat]
        /\ processer \in [Node -> [at : HandPlace, msg : Message \union {None}]]
    BY <1>3 DEF Idle, HandPlace
  <2> QED BY <1>2, <2>1, <2>2, <2>3 DEF Typed
<1>8. \A n \in Node : processer[n].at = "idle"
  BY <1>3 DEF Idle
<1>9. Shape
  <2>1. \A th \in Thread : StackOk(th)
    <3>1. ASSUME NEW th, th[2] = "main" PROVE GoodFrame(th, 1, f)
      BY <1>4, <3>1 DEF GoodFrame, OpOk, RunPlace, BeginPlace
    <3> QED BY <1>5, <3>1 DEF StackOk
  <2>2. \A n \in Node : ProcesserOk(n)
    BY <1>8 DEF ProcesserOk
  <2>3. Silent
    BY <1>3, <1>8 DEF Silent
  <2> QED BY <2>1, <2>2, <2>3 DEF Shape
<1>10. \A n \in Node, t \in Task :
         /\ task[n][t].status = "NONE" /\ task[n][t].type = None /\ task[n][t].parent = None
         /\ task[n][t].queue = None /\ task[n][t].group = None /\ ~task[n][t].message
  BY <1>2 DEF NoTask
<1>11. /\ \A n \in Node : DOMAIN taskList[n] = {} /\ DOMAIN messages[n] = {} /\ DOMAIN net[n] = {}
       /\ \A th \in Thread : \A i \in DOMAIN stack[th] :
            stack[th][i].task = None /\ stack[th][i].at = "body"
  BY <1>2, <1>3, <1>4, <1>5
<1>12. ServedInv /\ UnsentInv /\ StagesInv
  BY <1>3, <1>10, <1>11 DEF ServedInv, UnsentInv, StagesInv
<1>13. ListInv /\ HeldInv /\ BeginInv
  BY <1>11 DEF ListInv, HeldInv, BeginInv, Distinct, Begins, BeginPlace
<1>14. ReceiveInv /\ SomewhereInv
  BY <1>8, <1>10 DEF ReceiveInv, SomewhereInv, Receiving
<1>15. RecordInv
  <2>1. \A t \in Task : None # "REMOTE"
    BY MtapiAssumption
  <2> QED BY <1>10, MtapiAssumption DEF RecordInv
<1>16. ActionInv
  <2>1. \A n \in Node, j \in Job : action[n][j] # "REMOTE"
    BY <1>2, MtapiAssumption
  <2> QED BY <1>8, <1>11, <2>1 DEF ActionInv
<1>17. FreshInv
  BY <1>10 DEF FreshInv, Fresh
<1>18. TokenInv /\ OneTokenInv
  BY <1>8, <1>11 DEF TokenInv, OneTokenInv, Carried
<1> QED BY <1>7, <1>9, <1>12, <1>13, <1>14, <1>15, <1>16, <1>17, <1>18 DEF Inv1, Inv2

\* A thread that signs off or goes on in ProcessTask leaves the messages alone.
LEMMA StillServed ==
  ASSUME served' = served
  PROVE  ServedKept
BY DEF ServedKept

LEMMA TaskStepInv ==
  ASSUME Inv1, Inv2, NEW th \in Thread, TaskStep(th), UNCHANGED remoteVars
  PROVE  Inv1' /\ Inv2'
<1>1. /\ HeldInv /\ RecordInv /\ StagesInv
      /\ ServedKept
  BY StillServed DEF Inv2, remoteVars
<1>2. CASE CreateAction(th)
  BY <1>2, CreateActionInv2
<1>3. CASE StartTask(th)
  BY <1>3, StartTaskStep, StartInv2
<1>4. CASE ListTask(th)
  BY <1>4, ListTaskStep, ListsInv2
<1>5. CASE \/ EnterQueue(th) \/ GrowGroup(th) \/ CountInGroup(th) \/ WaitTask(th)
           \/ WaitGroupAll(th) \/ WaitGroupAny(th) \/ CompareGroup(th) \/ FetchResult(th)
  <2>1. Inv1' /\ PlainWalk(th)
    BY <1>5, EnterQueueStep, GrowGroupStep, CountInGroupStep, WaitTaskStep, WaitGroupAllStep,
       WaitGroupAnyStep, CompareGroupStep, FetchResultStep
  <2> QED BY <2>1, PlainWalkInv2
<1>6. CASE PopWaiting(th) /\ taskList[th[1]] = <<>>
  <2>1. Inv1' /\ PlainWalk(th)
    BY <1>6, PopIdleStep DEF PopIdle
  <2> QED BY <2>1, PlainWalkInv2
<1>7. CASE (PopWaiting(th) /\ taskList[th[1]] # <<>>) \/ PopWorker(th)
  BY <1>7, TakeStep, TakeInv2
<1>8. CASE NotYet(th) \/ RunTask(th) \/ RunRemotely(th) \/ SetScheduled(th) \/ CheckScheduled(th)
  <2>1. Handling1(th)
    BY <1>8 DEF Handling1
  <2>2. Inv1' /\ Handled(th)
    BY <1>1, <2>1, ProcessStep
  <2> QED BY <1>1, <2>2, HandledInv2
<1>9. CASE \/ EndBody(th) \/ CheckWaiting(th) \/ Reinsert(th)
           \/ LeaveParent(th) \/ LeaveQueue(th) \/ LeaveGroup(th) \/ GroupResult(th)
  <2>1. Inv1' /\ Handled(th)
    BY <1>1, <1>9, EndBodyStep, CheckWaitingStep, ReinsertStep, LeaveParentStep, LeaveQueueStep,
       LeaveGroupStep, GroupResultStep
  <2> QED BY <1>1, <2>1, HandledInv2
<1> QED BY <1>2, <1>3, <1>4, <1>5, <1>6, <1>7, <1>8, <1>9 DEF TaskStep

LEMMA StepInv == Inv1 /\ Inv2 /\ [Next]_vars => Inv1' /\ Inv2'
<1> SUFFICES ASSUME Inv1, Inv2, [Next]_vars PROVE Inv1' /\ Inv2'
  OBVIOUS
<1>1. ASSUME NEW th \in Thread, ThreadStep(th) PROVE Inv1' /\ Inv2'
  <2>1. CASE TaskStep(th) /\ UNCHANGED remoteVars
    BY <2>1, TaskStepInv
  <2>2. CASE Announce(th)
    BY <2>2, AnnounceInv2
  <2>3. CASE InsertStart(th)
    <3>1. HeldInv /\ RecordInv /\ ActionInv
      BY DEF Inv2
    <3> QED BY <2>3, <3>1, InsertStartStep, SendInv2
  <2>4. CASE MessageComplete(th)
    BY <2>4, MessageCompleteInv2
  <2> QED BY <1>1, <2>1, <2>2, <2>3, <2>4 DEF ThreadStep
<1>2. ASSUME NEW n \in Node, ProcesserStep(n) PROVE Inv1' /\ Inv2'
  BY <1>2, PopMessageInv2, SendActionInv2, AddRemoteActionInv2, StartRemoteTaskInv2, AwaitAckInv2,
     ReceiveRemoteTaskInv2, ListReceivedInv2, SetAwaitingInv2, SeeAwaitingInv2, AwaitLocalTaskInv2,
     CompleteLocalTaskInv2, CompleteRemoteTaskInv2 DEF ProcesserStep
<1>3. ASSUME NEW n \in Node, ListenerStep(n) PROVE Inv1' /\ Inv2'
  BY <1>3, ListenerStepInv2
<1>4. CASE UNCHANGED vars
  <2>1. UNCHANGED <<prog, action, task, taskList, queue, group, stack, current, filled, awaited,
                    messages, served, net, acks, processer>>
    BY <1>4 DEF vars, taskVars, remoteVars
  <2>2. Inv1'
    <3>1. Typed'
      BY <2>1 DEF Inv1, Typed
    <3>2. \A th \in Thread : StackOk(th)'
      BY <2>1, OtherStack DEF Inv1, Shape
    <3>3. Shape'
      BY <2>1, <3>2, RestShape
    <3> QED BY <3>1, <3>3 DEF Inv1
  <2>3. ServedKept /\ \A n \in Node, t \in Task : Receiving(n, t)' <=> Receiving(n, t)
    BY <2>1, StillServed DEF Receiving
  <2>4. TokensKept({}) /\ OneTokenInv'
    <3>1. OneTokenInv'
      BY <2>1 DEF OneTokenInv, Inv2, Carried
    <3> QED BY <2>1, <3>1, TokenNow DEF TokensKept
  <2>5. /\ \A n \in Node : \A i \in DOMAIN messages'[n] : ActOf(n, messages'[n][i])
        /\ \A n \in Node : \A i \in DOMAIN net'[n] : NetOf(n, net'[n][i])
        /\ \A n \in Node : processer'[n].at = "process" => ActOf(n, processer'[n].msg)
    BY <2>1, ActNow
  <2> QED BY <2>1, <2>2, <2>3, <2>4, <2>5, QuietInv2
<1> QED BY <1>1, <1>2, <1>3, <1>4 DEF Next

\* The invariant of the states, for every set of nodes, workers and tasks and
\* for every application.
THEOREM Invariant == Spec => [](Inv1 /\ Inv2)
BY InitInv, StepInv, PTL DEF Spec

-----------------------------------------------------------------------------
(* Where a task is, counted.                                               *)

LEMMA ListedOnce ==
  ASSUME Inv2, NEW n \in Node, NEW t
  PROVE  Cardinality({i \in DOMAIN taskList[n] : taskList[n][i] = t})
           = IF Listed(n, t) THEN 1 ELSE 0
<1>1. CASE Listed(n, t)
  <2>1. PICK i \in DOMAIN taskList[n] : taskList[n][i] = t
    BY <1>1 DEF Listed
  <2>2. {k \in DOMAIN taskList[n] : taskList[n][k] = t} = {i}
    BY <2>1 DEF ListInv, Inv2, Distinct
  <2> QED BY <1>1, <2>2, FS_Singleton
<1>2. CASE ~Listed(n, t)
  <2>1. {k \in DOMAIN taskList[n] : taskList[n][k] = t} = {}
    BY <1>2 DEF Listed
  <2> QED BY <1>2, <2>1, FS_EmptySet
<1> QED BY <1>1, <1>2

LEMMA HeldOnce ==
  ASSUME Inv2, NEW n \in Node, NEW t \in Task
  PROVE  Cardinality(UNION {{<<th, i>> : i \in {k \in DOMAIN stack[th] : stack[th][k].task = t}} :
                              th \in {x \in Thread : x[1] = n}})
           = IF Held(n, t) THEN 1 ELSE 0
<1> DEFINE S == UNION {{<<th, i>> : i \in {k \in DOMAIN stack[th] : stack[th][k].task = t}} :
                         th \in {x \in Thread : x[1] = n}}
<1>1. \A p : p \in S <=> \E th \in Thread : \E i \in DOMAIN stack[th] : In(th, i, n, t) /\ p = <<th, i>>
  BY DEF In
<1> HIDE DEF S
<1>2. CASE Held(n, t)
  <2>1. PICK th \in Thread : \E i \in DOMAIN stack[th] : In(th, i, n, t)
    BY <1>2 DEF Held
  <2>2. PICK i \in DOMAIN stack[th] : In(th, i, n, t)
    BY <2>1
  <2>3. ASSUME NEW uh \in Thread, NEW k \in DOMAIN stack[uh], In(uh, k, n, t)
        PROVE  uh = th /\ k = i
    <3>1. stack[th][i].task = t /\ th[1] = n /\ t # None
      BY <2>2, MtapiAssumption DEF In
    <3> QED BY <2>3, <3>1 DEF HeldInv, Inv2
  <2>4. S = {<<th, i>>}
    BY <1>1, <2>2, <2>3
  <2> QED BY <1>2, <2>4, FS_Singleton DEF S
<1>3. CASE ~Held(n, t)
  <2>1. S = {}
    BY <1>1, <1>3 DEF Held
  <2> QED BY <1>3, <2>1, FS_EmptySet DEF S
<1> QED BY <1>2, <1>3

\* Only the frame on top of a stack can be at the start of a task.
LEMMA BegunStarting ==
  ASSUME Inv1, NEW n \in Node, NEW t \in Task
  PROVE  Starting(n, t, BeginPlace) <=> Begun(n, t) \/ Receiving(n, t)
<1>1. ASSUME NEW th \in Thread
      PROVE  (/\ th[1] = n /\ stack[th] # <<>> /\ Top(th).at \in BeginPlace /\ On(th) = t)
               <=> \E i \in DOMAIN stack[th] : Begins(th, i, n, t)
  <2>1. ASSUME th[1] = n, stack[th] # <<>>, Top(th).at \in BeginPlace, On(th) = t
        PROVE  \E i \in DOMAIN stack[th] : Begins(th, i, n, t)
    <3>1. /\ Len(stack[th]) \in DOMAIN stack[th] /\ Top(th) = stack[th][Len(stack[th])]
          /\ On(th) = OpOf(th, Top(th)).on
      BY <2>1, TopOk
    <3>2. Begins(th, Len(stack[th]), n, t)
      BY <2>1, <3>1 DEF Begins
    <3> QED BY <3>1, <3>2
  <2>2. ASSUME NEW i \in DOMAIN stack[th], Begins(th, i, n, t)
        PROVE  th[1] = n /\ stack[th] # <<>> /\ Top(th).at \in BeginPlace /\ On(th) = t
    <3>1. stack[th] \in Seq(FrameType)
      BY DEF Inv1, Typed
    <3>2. stack[th] # <<>> /\ i \in 1..Len(stack[th])
      BY <3>1
    <3>3. /\ Top(th) = stack[th][Len(stack[th])] /\ Len(stack[th]) \in Nat
          /\ On(th) = OpOf(th, Top(th)).on
      BY <3>2, TopOk
    <3>4. stack[th][i].at # "body"
      BY <2>2 DEF Begins, BeginPlace
    <3>5. i = Len(stack[th])
      BY <3>2, <3>3, <3>4 DEF Inv1, Shape, StackOk
    <3> QED BY <2>2, <3>2, <3>3, <3>5 DEF Begins
  <2> QED BY <2>1, <2>2
<1>2. (\E th \in Thread : th[1] = n /\ stack[th] # <<>> /\ Top(th).at \in BeginPlace /\ On(th) = t)
        <=> Begun(n, t)
  BY <1>1 DEF Begun
<1>3. ("list" \in BeginPlace /\ Processer(n, "list") /\ Subject(n) = t) <=> Receiving(n, t)
  BY DEF BeginPlace, Receiving, Processer, Subject
<1> QED BY <1>2, <1>3 DEF Starting

LEMMA PlacesOnce == Inv1 /\ Inv2 => NoneLostOrShared
<1> SUFFICES ASSUME Inv1, Inv2, NEW n \in Node, NEW t \in Task
             PROVE  /\ Places(n, t) <= 1
                    /\ task[n][t].status \notin {"NONE", "COMPLETED"} => Places(n, t) = 1
  BY DEF NoneLostOrShared
<1>1. Places(n, t) = (IF Listed(n, t) THEN 1 ELSE 0) + (IF Held(n, t) THEN 1 ELSE 0)
                       + (IF Begun(n, t) \/ Receiving(n, t) THEN 1 ELSE 0)
  <2>1. Starting(n, t, {"entry", "grow", "count", "list"}) <=> Begun(n, t) \/ Receiving(n, t)
    BY BegunStarting DEF BeginPlace
  <2> QED BY <2>1, ListedOnce, HeldOnce DEF Places
<1>2. Listed(n, t) => ~Held(n, t)
  BY DEF ListInv, Inv2, Listed
<1>3. Begun(n, t) => ~Listed(n, t) /\ ~Held(n, t)
  <2> SUFFICES ASSUME NEW th \in Thread, NEW i \in DOMAIN stack[th], Begins(th, i, n, t)
               PROVE  ~Listed(n, t) /\ ~Held(n, t)
    BY DEF Begun
  <2>1. th[1] = n
    BY DEF Begins
  <2> QED BY <2>1 DEF BeginInv, Inv2
<1>4. Receiving(n, t) => ~Listed(n, t) /\ ~Held(n, t)
  BY DEF ReceiveInv, Inv2
<1>5. task[n][t].status \notin {"NONE", "COMPLETED"} =>
        Listed(n, t) \/ Held(n, t) \/ Begun(n, t) \/ Receiving(n, t)
  BY DEF SomewhereInv, Inv2
<1> QED BY <1>1, <1>2, <1>3, <1>4, <1>5

\* No task is lost and none is in two hands, whatever threads, processers and
\* listeners do (InsertTask, GetTaskFromHead, ProcessTask, ProcessMessage).
THEOREM NoTaskLost == Spec => []NoneLostOrShared
BY Invariant, PlacesOnce, PTL
=============================================================================
