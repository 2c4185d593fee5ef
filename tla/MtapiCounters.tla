---------------------------- MODULE MtapiCounters ----------------------------
(***************************************************************************)
(* Proofs about tasks, local and remote: the number of children and the    *)
(* size of a group count exactly what is not signed off, queues hold what  *)
(* has entered them, and with that the types of all variables; a wait      *)
(* returns for complete tasks with a result, a wait for any after one; the *)
(* refinement of Tasks.                                                    *)
(***************************************************************************)
EXTENDS MtapiProofs

-----------------------------------------------------------------------------
(* Parents, queues and groups.                                             *)

\* What a frame has still to do for its task after the task has been let run:
\* the stages of SetTaskComplete, or to send it.
Tags(f) ==
  IF f.at = "complete" THEN ToSet(f.stages)
  ELSE IF f.at \in {"send", "schedule"} THEN {"remote"} ELSE {}

Owes(n, t, x) ==
  \E th \in Thread : \E i \in DOMAIN stack[th] : In(th, i, n, t) /\ x \in Tags(stack[th][i])

\* The start of the task has not come past these places.
Entering(n, t, places) ==
  \E th \in Thread : \E i \in DOMAIN stack[th] :
    Begins(th, i, n, t) /\ stack[th][i].at \in places

Open(n, t) == task[n][t].status \notin {"NONE", "COMPLETED"}

\* What counts as a child of t, a member of the group g, an entry of the queue q.
Child(n, c, t) ==
  task[n][c].parent = t /\ (Open(n, c) \/ Owes(n, c, "parent"))
Member(n, c, g) ==
  /\ task[n][c].group = g /\ (Open(n, c) \/ Owes(n, c, "group"))
  /\ ~Entering(n, c, {"entry", "grow"})
Queued(n, c, q) ==
  /\ task[n][c].queue = q /\ (Open(n, c) \/ Owes(n, c, "queue"))
  /\ ~Entering(n, c, {"entry"})

Children(n, t) == {c \in Task : Child(n, c, t)}
Counted(g) == {p \in Node \X Task : Member(p[1], p[2], g)}

\* MayRun has let it pass.
Passed(n, t) ==
  \/ task[n][t].status \in {"RUNNING", "WAITING", "SCHEDULED"}
  \/ Owes(n, t, "queue") \/ Owes(n, t, "remote")

CurrentInv ==
  \A th \in Thread : current[th] # None =>
    \E i \in DOMAIN stack[th] : stack[th][i].task = current[th] /\ stack[th][i].at \in RunPlace

ParentInv ==
  \A n \in Node, t \in Task : task[n][t].parent # None =>
     task[n][task[n][t].parent].status # "NONE"

ChildInv ==
  \A n \in Node, t \in Task :
    IsFiniteSet(Children(n, t)) /\ task[n][t].childCount = Cardinality(Children(n, t))

MemberInv ==
  \A g \in Group :
    IsFiniteSet(Counted(g)) /\ group[g].current = Cardinality(Counted(g))

QueueInv ==
  /\ queue \in [Queue -> Seq(Task)]
  /\ \A q \in Queue :
       /\ Distinct(queue[q])
       /\ \A i \in DOMAIN queue[q] : \E n \in Node : Queued(n, queue[q][i], q)
       /\ \A n \in Node, t \in Task : Queued(n, t, q) =>
            /\ \E i \in DOMAIN queue[q] : queue[q][i] = t
            /\ Passed(n, t) => Head(queue[q]) = t

SeenInv == \A th \in Thread : \A i \in DOMAIN stack[th] : stack[th][i].seen \in Nat

\* The parts about tasks, and all of it.
CountInv == ParentInv /\ ChildInv /\ MemberInv /\ QueueInv

Inv3 == CurrentInv /\ SeenInv /\ CountInv

-----------------------------------------------------------------------------
(* What a step does to the marks of frames.                                *)

Mark == Stage \union {"remote"}

\* The task on top of a stack is marked by its top frame only.
LEMMA TopOwes ==
  ASSUME Inv1, HeldInv, NEW th \in Thread, stack[th] # <<>>, Top(th).task # None
  PROVE  \A x : Owes(th[1], Top(th).task, x) <=> x \in Tags(Top(th))
<1>1. /\ Len(stack[th]) \in DOMAIN stack[th] /\ stack[th][Len(stack[th])] = Top(th)
      /\ In(th, Len(stack[th]), th[1], Top(th).task)
  BY TopOk DEF In
<1>2. \A uh \in Thread : \A i \in DOMAIN stack[uh] :
        In(uh, i, th[1], Top(th).task) => uh = th /\ i = Len(stack[th])
  BY <1>1 DEF HeldInv
<1> QED BY <1>1, <1>2 DEF Owes

\* The top frame is replaced by one of the same task.
LEMMA ReplacedOwes ==
  ASSUME Inv1, HeldInv, NEW th \in Thread, stack[th] # <<>>, NEW g, Replaced(th, g),
         g.task = Top(th).task
  PROVE  \A n \in Node, t \in Task : \A x :
           /\ n # th[1] \/ t # Top(th).task => (Owes(n, t, x)' <=> Owes(n, t, x))
           /\ n = th[1] /\ t = Top(th).task => (Owes(n, t, x)' <=> x \in Tags(g))
<1> DEFINE L == Len(stack[th])
<1>1. /\ L \in DOMAIN stack[th] /\ stack[th][L] = Top(th) /\ stack'[th][L] = g
      /\ \A uh \in Thread : DOMAIN stack'[uh] = DOMAIN stack[uh]
      /\ \A uh \in Thread : \A i \in DOMAIN stack[uh] :
           uh # th \/ i # L => stack'[uh][i] = stack[uh][i]
  BY FramesReplaced
<1>2. \A uh \in Thread : \A i \in DOMAIN stack[uh] : \A n \in Node, t \in Task :
        In(uh, i, n, t)' <=> In(uh, i, n, t)
  BY ReplacedTasks, SameHands
<1> HIDE DEF L
<1>3. ASSUME NEW n \in Node, NEW t \in Task, NEW x, n # th[1] \/ t # Top(th).task
      PROVE  Owes(n, t, x)' <=> Owes(n, t, x)
  <2>1. \A uh \in Thread : \A i \in DOMAIN stack[uh] : In(uh, i, n, t) => uh # th \/ i # L
    BY <1>1, <1>3 DEF In
  <2>2. \A uh \in Thread : \A i \in DOMAIN stack[uh] :
          In(uh, i, n, t) => Tags(stack'[uh][i]) = Tags(stack[uh][i])
    BY <1>1, <2>1
  <2> QED BY <1>1, <1>2, <2>2 DEF Owes
<1>4. ASSUME NEW n \in Node, NEW t \in Task, NEW x, n = th[1], t = Top(th).task
      PROVE  Owes(n, t, x)' <=> x \in Tags(g)
  <2>1. In(th, L, n, t)
    BY <1>1, <1>4 DEF In
  <2>2. stack[th][L].task # None
    BY <1>1, <1>4, MtapiAssumption
  <2>3. \A uh \in Thread : \A i \in DOMAIN stack[uh] : In(uh, i, n, t) => uh = th /\ i = L
    BY <1>1, <1>4, <2>2 DEF HeldInv
  <2> QED BY <1>1, <1>2, <2>1, <2>3 DEF Owes
<1> QED BY <1>3, <1>4

LEMMA ReplacedEntering ==
  ASSUME Inv1, NEW th \in Thread, stack[th] # <<>>, NEW g, Replaced(th, g), prog' = prog,
         NEW places, Top(th).at \notin places, g.at \notin places
  PROVE  \A n \in Node, t \in Task : Entering(n, t, places)' <=> Entering(n, t, places)
<1> DEFINE L == Len(stack[th])
<1>1. /\ L \in DOMAIN stack[th] /\ stack[th][L] = Top(th) /\ stack'[th][L] = g
      /\ \A uh \in Thread : DOMAIN stack'[uh] = DOMAIN stack[uh]
      /\ \A uh \in Thread : \A i \in DOMAIN stack[uh] :
           uh # th \/ i # L => stack'[uh][i] = stack[uh][i]
  BY FramesReplaced
<1> HIDE DEF L
<1>2. ASSUME NEW uh \in Thread, NEW i \in DOMAIN stack[uh], NEW n \in Node, NEW t \in Task
      PROVE  Begins(uh, i, n, t)' /\ stack'[uh][i].at \in places
               <=> Begins(uh, i, n, t) /\ stack[uh][i].at \in places
  <2>1. CASE uh = th /\ i = L
    BY <1>1, <2>1
  <2>2. CASE uh # th \/ i # L
    <3>1. stack'[uh][i] = stack[uh][i]
      BY <1>1, <2>2
    <3>2. OpOf(uh, stack[uh][i])' = OpOf(uh, stack[uh][i])
      BY <3>1 DEF OpOf, ScriptOf
    <3> QED BY <1>1, <3>1, <3>2 DEF Begins
  <2> QED BY <2>1, <2>2
<1> QED BY <1>1, <1>2 DEF Entering

\* The top frame is removed.
LEMMA RemovedOwes ==
  ASSUME Inv1, HeldInv, NEW th \in Thread, stack[th] # <<>>, Top(th).task # None, Removed(th)
  PROVE  \A n \in Node, t \in Task : \A x :
           /\ n # th[1] \/ t # Top(th).task => (Owes(n, t, x)' <=> Owes(n, t, x))
           /\ n = th[1] /\ t = Top(th).task => ~Owes(n, t, x)'
<1> DEFINE L == Len(stack[th])
<1>1. /\ L \in DOMAIN stack[th] /\ stack[th][L] = Top(th)
      /\ \A uh \in Thread : \A i \in DOMAIN stack'[uh] :
           /\ i \in DOMAIN stack[uh] /\ stack'[uh][i] = stack[uh][i]
           /\ uh # th \/ i # L
      /\ \A uh \in Thread : \A i \in DOMAIN stack[uh] :
           uh # th \/ i # L => i \in DOMAIN stack'[uh]
  BY FramesRemoved
<1> HIDE DEF L
<1>2. \A uh \in Thread : \A i \in DOMAIN stack'[uh] : \A n \in Node, t \in Task :
        In(uh, i, n, t)' <=> In(uh, i, n, t)
  BY <1>1 DEF In
<1>3. ASSUME NEW n \in Node, NEW t \in Task, NEW x, n # th[1] \/ t # Top(th).task
      PROVE  Owes(n, t, x)' <=> Owes(n, t, x)
  <2>1. \A uh \in Thread : \A i \in DOMAIN stack[uh] : In(uh, i, n, t) => uh # th \/ i # L
    BY <1>1, <1>3 DEF In
  <2> QED BY <1>1, <1>2, <2>1 DEF Owes
<1>4. ASSUME NEW n \in Node, NEW t \in Task, NEW x, n = th[1], t = Top(th).task
      PROVE  ~Owes(n, t, x)'
  <2>1. In(th, L, n, t) /\ stack[th][L].task # None
    BY <1>1, <1>4 DEF In
  <2>2. \A uh \in Thread : \A i \in DOMAIN stack[uh] : In(uh, i, n, t) => uh = th /\ i = L
    BY <1>1, <1>4, <2>1 DEF HeldInv
  <2> QED BY <1>1, <1>2, <2>1, <2>2 DEF Owes
<1> QED BY <1>3, <1>4

LEMMA RemovedEntering ==
  ASSUME Inv1, NEW th \in Thread, stack[th] # <<>>, Removed(th), prog' = prog,
         NEW places, Top(th).at \notin places
  PROVE  \A n \in Node, t \in Task : Entering(n, t, places)' <=> Entering(n, t, places)
<1> DEFINE L == Len(stack[th])
<1>1. /\ L \in DOMAIN stack[th] /\ stack[th][L] = Top(th)
      /\ \A uh \in Thread : \A i \in DOMAIN stack'[uh] :
           /\ i \in DOMAIN stack[uh] /\ stack'[uh][i] = stack[uh][i]
           /\ uh # th \/ i # L
      /\ \A uh \in Thread : \A i \in DOMAIN stack[uh] :
           uh # th \/ i # L => i \in DOMAIN stack'[uh]
  BY FramesRemoved
<1> HIDE DEF L
<1>2. ASSUME NEW uh \in Thread, NEW i \in DOMAIN stack'[uh], NEW n \in Node, NEW t \in Task
      PROVE  Begins(uh, i, n, t)' <=> Begins(uh, i, n, t)
  <2>1. stack'[uh][i] = stack[uh][i] /\ i \in DOMAIN stack[uh]
    BY <1>1
  <2>2. OpOf(uh, stack[uh][i])' = OpOf(uh, stack[uh][i])
    BY <2>1 DEF OpOf, ScriptOf
  <2> QED BY <2>1, <2>2 DEF Begins
<1>3. \A uh \in Thread : \A i \in DOMAIN stack[uh] :
        stack[uh][i].at \in places => i \in DOMAIN stack'[uh]
  BY <1>1
<1> QED BY <1>1, <1>2, <1>3 DEF Entering

\* A frame is added.
LEMMA AddedMarks ==
  ASSUME Inv1, NEW th \in Thread, NEW g, Added(th, g), stack[th] # <<>> => Top(th).at = "pop",
         g.at = "process", prog' = prog
  PROVE  /\ \A n \in Node, t \in Task : \A x : Owes(n, t, x)' <=> Owes(n, t, x)
         /\ \A n \in Node, t \in Task : Entering(n, t, {"entry"})' <=> Entering(n, t, {"entry"})
         /\ \A n \in Node, t \in Task :
              Entering(n, t, {"entry", "grow"})' <=> Entering(n, t, {"entry", "grow"})
<1> DEFINE L == Len(stack[th]) + 1
<1>1. /\ L \notin DOMAIN stack[th] /\ stack'[th][L] = g
      /\ DOMAIN stack'[th] = DOMAIN stack[th] \union {L}
      /\ \A uh \in Thread : uh # th => stack'[uh] = stack[uh]
      /\ \A i \in DOMAIN stack[th] :
           \/ stack'[th][i] = stack[th][i]
           \/ /\ stack[th][i].at = "pop" /\ stack'[th][i].at = "body"
              /\ stack'[th][i].task = stack[th][i].task /\ stack'[th][i].ip = stack[th][i].ip
  BY FramesAdded
<1> HIDE DEF L
<1>2. \A uh \in Thread : \A i \in DOMAIN stack'[uh] :
        i \in DOMAIN stack[uh] \/ stack'[uh][i] = g
  BY <1>1
<1>3. \A x : x \notin Tags(g)
  BY DEF Tags
<1>4. \A uh \in Thread : \A i \in DOMAIN stack[uh] :
        /\ i \in DOMAIN stack'[uh] /\ Tags(stack'[uh][i]) = Tags(stack[uh][i])
        /\ stack'[uh][i].task = stack[uh][i].task
  BY <1>1 DEF Tags
<1>5. ASSUME NEW n \in Node, NEW t \in Task, NEW x
      PROVE  Owes(n, t, x)' <=> Owes(n, t, x)
  <2>1. \A uh \in Thread : \A i \in DOMAIN stack[uh] : In(uh, i, n, t)' <=> In(uh, i, n, t)
    BY <1>4 DEF In
  <2> QED BY <1>2, <1>3, <1>4, <2>1 DEF Owes
<1>6. ASSUME NEW n \in Node, NEW t \in Task, NEW places \in {{"entry"}, {"entry", "grow"}}
      PROVE  Entering(n, t, places)' <=> Entering(n, t, places)
  <2>1. g.at \notin places
    OBVIOUS
  <2>2. ASSUME NEW uh \in Thread, NEW i \in DOMAIN stack[uh]
        PROVE  Begins(uh, i, n, t)' /\ stack'[uh][i].at \in places
                 <=> Begins(uh, i, n, t) /\ stack[uh][i].at \in places
    <3>1. CASE stack'[uh][i] = stack[uh][i]
      <4>1. OpOf(uh, stack[uh][i])' = OpOf(uh, stack[uh][i])
        BY <3>1 DEF OpOf, ScriptOf
      <4> QED BY <1>4, <3>1, <4>1 DEF Begins
    <3>2. CASE stack[uh][i].at = "pop" /\ stack'[uh][i].at = "body"
      BY <3>2
    <3> QED BY <1>1, <3>1, <3>2
  <2> QED BY <1>2, <1>4, <2>1, <2>2 DEF Entering
<1> QED BY <1>5, <1>6

\* The stacks stay.
LEMMA StillMarks ==
  ASSUME UNCHANGED <<prog, stack>>
  PROVE  /\ \A n \in Node, t \in Task : \A x : Owes(n, t, x)' <=> Owes(n, t, x)
         /\ \A n \in Node, t \in Task : \A places : Entering(n, t, places)' <=> Entering(n, t, places)
BY DEF Owes, Entering, In, Begins, OpOf, ScriptOf

-----------------------------------------------------------------------------
(* Steps that sign off at most one stage of one task.                      *)

Counting(n, t, x) == Open(n, t) \/ Owes(n, t, x)

Has(n, t, x) ==
  /\ x = "parent" => task[n][t].parent # None
  /\ x = "queue" => task[n][t].queue # None
  /\ x = "group" => task[n][t].group # None

\* Of what counts, only stage s of task t changes.
Signs(n, t, s) ==
  /\ \A m \in Node, u \in Task :
       /\ Alike(task'[m][u], task[m][u])
       /\ task'[m][u].status = "NONE" <=> task[m][u].status = "NONE"
  /\ \A m \in Node, u \in Task : \A x \in {"parent", "queue", "group"} :
       Has(m, u, x) /\ (m # n \/ u # t \/ x # s) => (Counting(m, u, x)' <=> Counting(m, u, x))
  /\ \A m \in Node, u \in Task :
       /\ Entering(m, u, {"entry"})' <=> Entering(m, u, {"entry"})
       /\ Entering(m, u, {"entry", "grow"})' <=> Entering(m, u, {"entry", "grow"})

LEMMA NotNone ==
  /\ \A t \in Task : t # None
  /\ \A g \in Group : g # None
  /\ \A q \in Queue : q # None
BY MtapiAssumption

LEMMA SignsSame ==
  ASSUME NEW n, NEW t, NEW s, Signs(n, t, s), NEW m \in Node, NEW c \in Task
  PROVE  /\ s # "parent" \/ m # n \/ c # t =>
              \A p \in Task : Child(m, c, p)' <=> Child(m, c, p)
         /\ s # "group" \/ m # n \/ c # t =>
              \A g \in Group : Member(m, c, g)' <=> Member(m, c, g)
         /\ s # "queue" \/ m # n \/ c # t =>
              \A q \in Queue : Queued(m, c, q)' <=> Queued(m, c, q)
<1>1. Alike(task'[m][c], task[m][c])
  BY DEF Signs
<1>2. ASSUME s # "parent" \/ m # n \/ c # t, NEW p \in Task
      PROVE  Child(m, c, p)' <=> Child(m, c, p)
  <2>1. task[m][c].parent = p => Has(m, c, "parent")
    BY NotNone DEF Has
  <2>2. Has(m, c, "parent") => (Counting(m, c, "parent")' <=> Counting(m, c, "parent"))
    BY <1>2 DEF Signs
  <2> QED BY <1>1, <2>1, <2>2 DEF Child, Counting, Alike
<1>3. ASSUME s # "group" \/ m # n \/ c # t, NEW g \in Group
      PROVE  Member(m, c, g)' <=> Member(m, c, g)
  <2>1. task[m][c].group = g => Has(m, c, "group")
    BY NotNone DEF Has
  <2>2. Has(m, c, "group") => (Counting(m, c, "group")' <=> Counting(m, c, "group"))
    BY <1>3 DEF Signs
  <2>3. Entering(m, c, {"entry", "grow"})' <=> Entering(m, c, {"entry", "grow"})
    BY DEF Signs
  <2> QED BY <1>1, <2>1, <2>2, <2>3 DEF Member, Counting, Alike
<1>4. ASSUME s # "queue" \/ m # n \/ c # t, NEW q \in Queue
      PROVE  Queued(m, c, q)' <=> Queued(m, c, q)
  <2>1. task[m][c].queue = q => Has(m, c, "queue")
    BY NotNone DEF Has
  <2>2. Has(m, c, "queue") => (Counting(m, c, "queue")' <=> Counting(m, c, "queue"))
    BY <1>4 DEF Signs
  <2>3. Entering(m, c, {"entry"})' <=> Entering(m, c, {"entry"})
    BY DEF Signs
  <2> QED BY <1>1, <2>1, <2>2, <2>3 DEF Queued, Counting, Alike
<1> QED BY <1>2, <1>3, <1>4

LEMMA ParentKept ==
  ASSUME Inv1, ParentInv,
         \A m \in Node, u \in Task :
           Alike(task'[m][u], task[m][u]) /\ (task'[m][u].status = "NONE" <=> task[m][u].status = "NONE")
  PROVE  ParentInv'
<1>1. \A m \in Node, u \in Task : task[m][u].parent \in Task \union {None}
  BY DEF Inv1, Typed, TaskInfo
<1>2. \A m \in Node, u \in Task : task'[m][u].parent = task[m][u].parent
  BY DEF Alike
<1> QED BY <1>1, <1>2 DEF ParentInv

LEMMA ChildKept ==
  ASSUME ChildInv, \A m \in Node, c, p \in Task : Child(m, c, p)' <=> Child(m, c, p),
         \A m \in Node, u \in Task : task'[m][u].childCount = task[m][u].childCount
  PROVE  ChildInv'
<1>1. \A m \in Node, p \in Task : Children(m, p)' = Children(m, p)
  BY DEF Children
<1> QED BY <1>1 DEF ChildInv

LEMMA MemberKept ==
  ASSUME MemberInv, \A m \in Node, c \in Task, g \in Group : Member(m, c, g)' <=> Member(m, c, g),
         \A g \in Group : group'[g].current = group[g].current
  PROVE  MemberInv'
<1>1. ASSUME NEW g \in Group PROVE Counted(g)' = Counted(g)
  <2>1. \A p \in Node \X Task : Member(p[1], p[2], g)' <=> Member(p[1], p[2], g)
    OBVIOUS
  <2> QED BY <2>1 DEF Counted
<1> QED BY <1>1 DEF MemberInv

LEMMA QueueKept ==
  ASSUME QueueInv, queue' = queue,
         \A m \in Node, c \in Task, q \in Queue : Queued(m, c, q)' <=> Queued(m, c, q),
         \A m \in Node, c \in Task, q \in Queue :
           Queued(m, c, q) /\ Passed(m, c)' => Passed(m, c) \/ Head(queue[q]) = c
  PROVE  QueueInv'
<1>1. \A q \in Queue : \A i \in DOMAIN queue[q] : queue[q][i] \in Task
  BY DEF QueueInv
<1>2. ASSUME NEW q \in Queue, NEW m \in Node, NEW t \in Task, Queued(m, t, q)'
      PROVE  /\ \E i \in DOMAIN queue[q] : queue[q][i] = t
             /\ Passed(m, t)' => Head(queue[q]) = t
  BY <1>2 DEF QueueInv
<1>3. \A q \in Queue : \A i \in DOMAIN queue[q] : \E n \in Node : Queued(n, queue[q][i], q)'
  BY <1>1 DEF QueueInv
<1>4. queue \in [Queue -> Seq(Task)] /\ \A q \in Queue : Distinct(queue[q])
  BY DEF QueueInv
<1>5. queue' \in [Queue -> Seq(Task)] /\ \A q \in Queue : Distinct(queue'[q])
  BY <1>4
<1>6. ASSUME NEW q \in Queue, NEW i \in DOMAIN queue'[q]
      PROVE  \E n \in Node : Queued(n, queue[q][i], q)'
  <2>1. i \in DOMAIN queue[q] /\ queue'[q][i] = queue[q][i]
    OBVIOUS
  <2> QED BY <1>3, <2>1
<1>7. ASSUME NEW q \in Queue, NEW n \in Node, NEW t \in Task, Queued(n, t, q)'
      PROVE  /\ \E i \in DOMAIN queue'[q] : queue'[q][i] = t
             /\ Passed(n, t)' => Head(queue'[q]) = t
  <2>1. queue'[q] = queue[q]
    OBVIOUS
  <2> QED BY <1>2, <1>7, <2>1
<1> QED BY <1>5, <1>6, <1>7 DEF QueueInv

\* A child signs off with its parent.
LEMMA ChildSigned ==
  ASSUME Inv1, ChildInv, NEW n \in Node, NEW t \in Task, NEW p \in Task,
         Signs(n, t, "parent"), task[n][t].parent = p,
         Counting(n, t, "parent"), ~Counting(n, t, "parent")',
         \A m \in Node, u \in Task : task'[m][u].childCount =
           IF m = n /\ u = p THEN task[m][u].childCount - 1 ELSE task[m][u].childCount
  PROVE  ChildInv'
<1>1. \A m \in Node, c, u \in Task : m # n \/ c # t => (Child(m, c, u)' <=> Child(m, c, u))
  BY SignsSame
<1>2. \A u \in Task : ~Child(n, t, u)'
  BY DEF Child, Counting
<1>3. \A u \in Task : Child(n, t, u) <=> u = p
  BY DEF Child, Counting
<1>4. \A m \in Node, u \in Task : m # n \/ u # p => Children(m, u)' = Children(m, u)
  BY <1>1, <1>2, <1>3 DEF Children
<1>5. Children(n, p)' = Children(n, p) \ {t} /\ t \in Children(n, p)
  BY <1>1, <1>2, <1>3 DEF Children
<1>6. IsFiniteSet(Children(n, p)) /\ task[n][p].childCount = Cardinality(Children(n, p))
  BY DEF ChildInv
<1>7. IsFiniteSet(Children(n, p)') /\ Cardinality(Children(n, p)') = task[n][p].childCount - 1
  BY <1>5, <1>6, FS_RemoveElement
<1>8. ASSUME NEW m \in Node, NEW u \in Task
       PROVE  IsFiniteSet(Children(m, u)') /\ task'[m][u].childCount = Cardinality(Children(m, u)')
  <2>1. CASE m = n /\ u = p
    BY <1>7, <2>1
  <2>2. CASE m # n \/ u # p
    <3>1. IsFiniteSet(Children(m, u)) /\ task[m][u].childCount = Cardinality(Children(m, u))
      BY DEF ChildInv
    <3>2. task'[m][u].childCount = task[m][u].childCount
      BY <2>2
    <3> QED BY <1>4, <2>2, <3>1, <3>2
  <2> QED BY <2>1, <2>2
<1>9. \A m \in Node, u \in Task :
         IsFiniteSet(Children(m, u)') /\ task'[m][u].childCount = Cardinality(Children(m, u)')
  BY <1>8
<1> QED BY <1>9 DEF ChildInv
-----------------------------------------------------------------------------
(* Steps of ProcessTask and SetTaskComplete: the top frame of a stack ends *)
(* with the marks T, and the task on top gets a status.                    *)

Tagged(th, T) ==
  \/ Removed(th) /\ T = {}
  \/ \E g : /\ Replaced(th, g) /\ g.task = Top(th).task /\ g.at \notin {"entry", "grow"}
            /\ T = Tags(g)

LEMMA TaggedOwes ==
  ASSUME Inv1, HeldInv, prog' = prog, NEW th \in Thread, stack[th] # <<>>, Top(th).task # None,
         Top(th).at \notin {"entry", "grow"}, NEW T, Tagged(th, T)
  PROVE  /\ \A n \in Node, t \in Task : \A x :
              /\ n # th[1] \/ t # Top(th).task => (Owes(n, t, x)' <=> Owes(n, t, x))
              /\ n = th[1] /\ t = Top(th).task =>
                   (Owes(n, t, x)' <=> x \in T) /\ (Owes(n, t, x) <=> x \in Tags(Top(th)))
         /\ \A n \in Node, t \in Task :
              /\ Entering(n, t, {"entry"})' <=> Entering(n, t, {"entry"})
              /\ Entering(n, t, {"entry", "grow"})' <=> Entering(n, t, {"entry", "grow"})
<1>1. \A x : Owes(th[1], Top(th).task, x) <=> x \in Tags(Top(th))
  BY TopOwes
<1>2. CASE Removed(th) /\ T = {}
  <2>1. \A n \in Node, t \in Task : \A x :
          /\ n # th[1] \/ t # Top(th).task => (Owes(n, t, x)' <=> Owes(n, t, x))
          /\ n = th[1] /\ t = Top(th).task => ~Owes(n, t, x)'
    BY <1>2, RemovedOwes
  <2>2. \A n \in Node, t \in Task : Entering(n, t, {"entry"})' <=> Entering(n, t, {"entry"})
    <3>1. Top(th).at \notin {"entry"}
      OBVIOUS
    <3> QED BY <1>2, <3>1, RemovedEntering
  <2>3. \A n \in Node, t \in Task :
          Entering(n, t, {"entry", "grow"})' <=> Entering(n, t, {"entry", "grow"})
    BY <1>2, RemovedEntering
  <2> QED BY <1>1, <1>2, <2>1, <2>2, <2>3
<1>3. CASE \E g : /\ Replaced(th, g) /\ g.task = Top(th).task /\ g.at \notin {"entry", "grow"}
                  /\ T = Tags(g)
  <2>0. PICK g : /\ Replaced(th, g) /\ g.task = Top(th).task /\ g.at \notin {"entry", "grow"}
                 /\ T = Tags(g)
    BY <1>3
  <2>1. \A n \in Node, t \in Task : \A x :
          /\ n # th[1] \/ t # Top(th).task => (Owes(n, t, x)' <=> Owes(n, t, x))
          /\ n = th[1] /\ t = Top(th).task => (Owes(n, t, x)' <=> x \in Tags(g))
    BY <2>0, ReplacedOwes
  <2>2. \A n \in Node, t \in Task : Entering(n, t, {"entry"})' <=> Entering(n, t, {"entry"})
    <3>1. Top(th).at \notin {"entry"} /\ g.at \notin {"entry"}
      BY <2>0
    <3> QED BY <2>0, <3>1, ReplacedEntering
  <2>3. \A n \in Node, t \in Task :
          Entering(n, t, {"entry", "grow"})' <=> Entering(n, t, {"entry", "grow"})
    BY <2>0, ReplacedEntering
  <2> QED BY <1>1, <2>0, <2>1, <2>2, <2>3
<1> QED BY <1>2, <1>3 DEF Tagged

\* What a step that changes at most the stage s of one task leaves.
LEMMA SignedKept ==
  ASSUME Inv1, CountInv, NEW n, NEW t, NEW s, Signs(n, t, s)
  PROVE  /\ ParentInv'
         /\ s # "parent" /\ (\A m \in Node, u \in Task : task'[m][u].childCount = task[m][u].childCount)
              => ChildInv'
         /\ s # "group" /\ (\A g \in Group : group'[g].current = group[g].current) => MemberInv'
         /\ s # "queue" /\ queue' = queue
              /\ (\A m \in Node, c \in Task : \A q \in Queue :
                    Queued(m, c, q) /\ Passed(m, c)' => Passed(m, c) \/ Head(queue[q]) = c)
              => QueueInv'
<1>1. /\ \A m \in Node, u \in Task :
           Alike(task'[m][u], task[m][u]) /\ (task'[m][u].status = "NONE" <=> task[m][u].status = "NONE")
      /\ ParentInv /\ ChildInv /\ MemberInv /\ QueueInv
  BY DEF Signs, CountInv
<1>2. ParentInv'
  BY <1>1, ParentKept
<1>3. ASSUME s # "parent", \A m \in Node, u \in Task : task'[m][u].childCount = task[m][u].childCount
      PROVE  ChildInv'
  <2>1. \A m \in Node, c, p \in Task : Child(m, c, p)' <=> Child(m, c, p)
    BY <1>3, SignsSame
  <2> QED BY <1>1, <1>3, <2>1, ChildKept
<1>4. ASSUME s # "group", \A g \in Group : group'[g].current = group[g].current
      PROVE  MemberInv'
  <2>1. \A m \in Node, c \in Task, g \in Group : Member(m, c, g)' <=> Member(m, c, g)
    BY <1>4, SignsSame
  <2> QED BY <1>1, <1>4, <2>1, MemberKept
<1>5. ASSUME s # "queue", queue' = queue,
             \A m \in Node, c \in Task : \A q \in Queue :
               Queued(m, c, q) /\ Passed(m, c)' => Passed(m, c) \/ Head(queue[q]) = c
      PROVE  QueueInv'
  <2>1. \A m \in Node, c \in Task, q \in Queue : Queued(m, c, q)' <=> Queued(m, c, q)
    BY <1>5, SignsSame
  <2> QED BY <1>1, <1>5, <2>1, QueueKept
<1> QED BY <1>2, <1>3, <1>4, <1>5

\* The status of the task on top changes, and its marks, but only the stage s
\* is signed off.
Settles(th, T, status, s) ==
  LET n == th[1] t == Top(th).task IN
  /\ stack[th] # <<>> /\ t # None /\ Top(th).at \notin {"entry", "grow"}
  /\ prog' = prog /\ Tagged(th, T) /\ Changed(n, t, status)
  /\ status # "NONE" /\ task[n][t].status # "NONE"
  /\ \A x \in {"parent", "queue", "group"} :
       Has(n, t, x) /\ x # s =>
         (status # "COMPLETED" \/ x \in T <=> task[n][t].status # "COMPLETED" \/ x \in Tags(Top(th)))

LEMMA SettledSigns ==
  ASSUME Inv1, HeldInv, NEW th \in Thread, NEW T, NEW status, NEW s, Settles(th, T, status, s),
         NEW n, n = th[1], NEW t, t = Top(th).task
  PROVE  /\ Signs(n, t, s) /\ n \in Node /\ t \in Task
         /\ \A x : /\ Counting(n, t, x)' <=> status # "COMPLETED" \/ x \in T
                   /\ Counting(n, t, x) <=>
                        task[n][t].status # "COMPLETED" \/ x \in Tags(Top(th))
<1>1. n \in Node /\ t \in Task
  BY HeldTop DEF Settles
<1>2. /\ stack[th] # <<>> /\ Top(th).task # None /\ Top(th).at \notin {"entry", "grow"}
      /\ prog' = prog /\ Tagged(th, T) /\ Changed(n, t, status)
      /\ status # "NONE" /\ task[n][t].status # "NONE"
  BY DEF Settles
<1>3. \A x \in {"parent", "queue", "group"} : Has(n, t, x) /\ x # s =>
        (status # "COMPLETED" \/ x \in T <=> task[n][t].status # "COMPLETED" \/ x \in Tags(Top(th)))
  BY DEF Settles
<1>4. /\ \A m \in Node, u \in Task : \A x :
           /\ m # n \/ u # t => (Owes(m, u, x)' <=> Owes(m, u, x))
           /\ m = n /\ u = t =>
                (Owes(m, u, x)' <=> x \in T) /\ (Owes(m, u, x) <=> x \in Tags(Top(th)))
      /\ \A m \in Node, u \in Task :
           /\ Entering(m, u, {"entry"})' <=> Entering(m, u, {"entry"})
           /\ Entering(m, u, {"entry", "grow"})' <=> Entering(m, u, {"entry", "grow"})
  BY <1>2, TaggedOwes
<1>5. /\ \A m \in Node, u \in Task : Alike(task'[m][u], task[m][u])
      /\ task'[n][t].status = status
      /\ \A m \in Node, u \in Task : m # n \/ u # t => task'[m][u].status = task[m][u].status
  BY <1>2 DEF Changed
<1>6. \A m \in Node, u \in Task :
        (task'[m][u].status = "NONE" <=> task[m][u].status = "NONE")
  BY <1>1, <1>2, <1>5
<1>7. ASSUME NEW x
      PROVE  /\ Counting(n, t, x)' <=> status # "COMPLETED" \/ x \in T
             /\ Counting(n, t, x) <=> task[n][t].status # "COMPLETED" \/ x \in Tags(Top(th))
  <2>1. (Owes(n, t, x)' <=> x \in T) /\ (Owes(n, t, x) <=> x \in Tags(Top(th)))
    BY <1>1, <1>4
  <2>2. (Open(n, t)' <=> status # "COMPLETED") /\ (Open(n, t) <=> task[n][t].status # "COMPLETED")
    BY <1>2, <1>5 DEF Open
  <2> QED BY <2>1, <2>2 DEF Counting
<1>8. ASSUME NEW m \in Node, NEW u \in Task, NEW x \in {"parent", "queue", "group"},
             Has(m, u, x), m # n \/ u # t \/ x # s
      PROVE  Counting(m, u, x)' <=> Counting(m, u, x)
  <2>1. CASE m # n \/ u # t
    BY <1>4, <1>5, <2>1 DEF Counting, Open
  <2>2. CASE m = n /\ u = t
    <3>1. status # "COMPLETED" \/ x \in T <=> task[n][t].status # "COMPLETED" \/ x \in Tags(Top(th))
      BY <1>3, <1>8, <2>2
    <3> QED BY <1>7, <2>2, <3>1
  <2> QED BY <2>1, <2>2
<1>9. Signs(n, t, s)
  BY <1>4, <1>5, <1>6, <1>8 DEF Signs
<1> QED BY <1>1, <1>7, <1>9

\* A task is let pass only by MayRun.
LEMMA SettledPassed ==
  ASSUME Inv1, HeldInv, NEW th \in Thread, NEW T, NEW status, NEW s, Settles(th, T, status, s),
         status \in {"RUNNING", "WAITING", "SCHEDULED"} \/ "queue" \in T \/ "remote" \in T =>
           \/ task[th[1]][Top(th).task].status \in {"RUNNING", "WAITING", "SCHEDULED"}
           \/ "queue" \in Tags(Top(th)) \/ "remote" \in Tags(Top(th))
           \/ MayRun(th[1], Top(th).task)
  PROVE  \A m \in Node, c \in Task : \A q \in Queue :
           Queued(m, c, q) /\ Passed(m, c)' => Passed(m, c) \/ Head(queue[q]) = c
<1>0. PICK n, t : n = th[1] /\ t = Top(th).task
  OBVIOUS
<1>1. n \in Node /\ t \in Task
  BY <1>0, HeldTop DEF Settles
<1>2. /\ stack[th] # <<>> /\ Top(th).task # None /\ Top(th).at \notin {"entry", "grow"}
      /\ prog' = prog /\ Tagged(th, T) /\ Changed(n, t, status)
  BY <1>0 DEF Settles
<1>3. \A m \in Node, u \in Task : \A x :
        /\ m # n \/ u # t => (Owes(m, u, x)' <=> Owes(m, u, x))
        /\ m = n /\ u = t =>
             (Owes(m, u, x)' <=> x \in T) /\ (Owes(m, u, x) <=> x \in Tags(Top(th)))
  BY <1>0, <1>2, TaggedOwes
<1>4. status \in {"RUNNING", "WAITING", "SCHEDULED"} \/ "queue" \in T \/ "remote" \in T =>
        \/ task[n][t].status \in {"RUNNING", "WAITING", "SCHEDULED"}
        \/ "queue" \in Tags(Top(th)) \/ "remote" \in Tags(Top(th))
        \/ MayRun(n, t)
  BY <1>0
<1>5. /\ task'[n][t].status = status
      /\ \A m \in Node, u \in Task : m # n \/ u # t => task'[m][u].status = task[m][u].status
  BY <1>2 DEF Changed
<1>6. ASSUME NEW m \in Node, NEW c \in Task, NEW q \in Queue, Queued(m, c, q), Passed(m, c)'
      PROVE  Passed(m, c) \/ Head(queue[q]) = c
  <2>1. CASE m # n \/ c # t
    BY <1>3, <1>5, <1>6, <2>1 DEF Passed
  <2>2. CASE m = n /\ c = t
    <3>1. status \in {"RUNNING", "WAITING", "SCHEDULED"} \/ "queue" \in T \/ "remote" \in T
      BY <1>3, <1>5, <1>6, <2>2 DEF Passed
    <3>2. MayRun(n, t) => Head(queue[q]) = t
      BY <1>6, <2>2, NotNone DEF MayRun, Queued
    <3> QED BY <1>1, <1>3, <1>4, <2>2, <3>1, <3>2 DEF Passed
  <2> QED BY <2>1, <2>2
<1> QED BY <1>6

\* A step that signs off nothing.
LEMMA SettledCounts ==
  ASSUME Inv1, HeldInv, CountInv, NEW th \in Thread, NEW T, NEW status,
         NEW s \in {"none", "result", "message"}, Settles(th, T, status, s),
         status \in {"RUNNING", "WAITING", "SCHEDULED"} \/ "queue" \in T \/ "remote" \in T =>
           \/ task[th[1]][Top(th).task].status \in {"RUNNING", "WAITING", "SCHEDULED"}
           \/ "queue" \in Tags(Top(th)) \/ "remote" \in Tags(Top(th))
           \/ MayRun(th[1], Top(th).task),
         \A m \in Node, u \in Task : task'[m][u].childCount = task[m][u].childCount,
         \A g \in Group : group'[g].current = group[g].current, queue' = queue
  PROVE  CountInv'
<1>1. \E n, t : Signs(n, t, s)
  BY SettledSigns
<1>2. \A m \in Node, c \in Task : \A q \in Queue :
        Queued(m, c, q) /\ Passed(m, c)' => Passed(m, c) \/ Head(queue[q]) = c
  BY SettledPassed
<1>3. ParentInv' /\ ChildInv' /\ MemberInv' /\ QueueInv'
  BY <1>1, <1>2, SignedKept
<1> QED BY <1>3 DEF CountInv

-----------------------------------------------------------------------------
(* The running tasks of threads and what waitForGroupAny has read.         *)

LEMMA ReplacedFrames ==
  ASSUME Inv1, CurrentInv, SeenInv, NEW th \in Thread, stack[th] # <<>>, NEW g, Replaced(th, g),
         g.seen \in Nat, \A uh \in Thread : uh # th => current'[uh] = current[uh],
         current'[th] # None =>
           \/ current'[th] = g.task /\ g.at \in RunPlace
           \/ /\ current'[th] = current[th] /\ g.task = Top(th).task
              /\ Top(th).at \in RunPlace => g.at \in RunPlace
  PROVE  CurrentInv' /\ SeenInv'
<1> DEFINE L == Len(stack[th])
<1>1. /\ L \in DOMAIN stack[th] /\ stack[th][L] = Top(th) /\ stack'[th][L] = g
      /\ \A uh \in Thread : DOMAIN stack'[uh] = DOMAIN stack[uh]
      /\ \A uh \in Thread : \A i \in DOMAIN stack[uh] :
           uh # th \/ i # L => stack'[uh][i] = stack[uh][i]
  BY FramesReplaced
<1> HIDE DEF L
<1>2. SeenInv'
  <2>1. ASSUME NEW uh \in Thread, NEW i \in DOMAIN stack'[uh]
        PROVE  stack'[uh][i].seen \in Nat
    <3>1. CASE uh = th /\ i = L
      BY <1>1, <3>1
    <3>2. CASE uh # th \/ i # L
      BY <1>1, <3>2 DEF SeenInv
    <3> QED BY <3>1, <3>2
  <2> QED BY <2>1 DEF SeenInv
<1>3. ASSUME NEW uh \in Thread, current'[uh] # None
      PROVE  \E i \in DOMAIN stack'[uh] :
               stack'[uh][i].task = current'[uh] /\ stack'[uh][i].at \in RunPlace
  <2>1. CASE uh = th /\ current'[th] = g.task /\ g.at \in RunPlace
    BY <1>1, <2>1
  <2>2. CASE uh # th
    <3>1. current[uh] # None /\ current'[uh] = current[uh]
      BY <1>3, <2>2
    <3>2. PICK i \in DOMAIN stack[uh] : stack[uh][i].task = current[uh] /\ stack[uh][i].at \in RunPlace
      BY <3>1 DEF CurrentInv
    <3>3. i \in DOMAIN stack'[uh] /\ stack'[uh][i] = stack[uh][i]
      BY <1>1, <2>2
    <3> QED BY <3>1, <3>2, <3>3
  <2>3. CASE /\ uh = th /\ current'[th] = current[th] /\ g.task = Top(th).task
             /\ Top(th).at \in RunPlace => g.at \in RunPlace
    <3>1. current[th] # None
      BY <1>3, <2>3
    <3>2. PICK i \in DOMAIN stack[th] : stack[th][i].task = current[th] /\ stack[th][i].at \in RunPlace
      BY <3>1 DEF CurrentInv
    <3>3. /\ i \in DOMAIN stack'[th] /\ stack'[th][i].task = stack[th][i].task
          /\ stack'[th][i].at \in RunPlace
      <4>1. CASE i = L
        BY <1>1, <2>3, <3>2, <4>1
      <4>2. CASE i # L
        BY <1>1, <3>2, <4>2
      <4> QED BY <4>1, <4>2
    <3> QED BY <2>3, <3>2, <3>3
  <2> QED BY <1>3, <2>1, <2>2, <2>3
<1> QED BY <1>2, <1>3 DEF CurrentInv

LEMMA RemovedFrames ==
  ASSUME Inv1, CurrentInv, SeenInv, NEW th \in Thread, stack[th] # <<>>, Removed(th),
         \A uh \in Thread : uh # th => current'[uh] = current[uh],
         current'[th] # None => current'[th] = current[th] /\ Top(th).at \notin RunPlace
  PROVE  CurrentInv' /\ SeenInv'
<1> DEFINE L == Len(stack[th])
<1>1. /\ L \in DOMAIN stack[th] /\ stack[th][L] = Top(th)
      /\ \A uh \in Thread : \A i \in DOMAIN stack'[uh] :
           i \in DOMAIN stack[uh] /\ stack'[uh][i] = stack[uh][i]
      /\ \A uh \in Thread : \A i \in DOMAIN stack[uh] :
           uh # th \/ i # L => i \in DOMAIN stack'[uh]
  BY FramesRemoved
<1> HIDE DEF L
<1>2. SeenInv'
  BY <1>1 DEF SeenInv
<1>3. ASSUME NEW uh \in Thread, current'[uh] # None
      PROVE  \E i \in DOMAIN stack'[uh] :
               stack'[uh][i].task = current'[uh] /\ stack'[uh][i].at \in RunPlace
  <2>1. current[uh] # None /\ current'[uh] = current[uh]
    BY <1>3
  <2>2. PICK i \in DOMAIN stack[uh] : stack[uh][i].task = current[uh] /\ stack[uh][i].at \in RunPlace
    BY <2>1 DEF CurrentInv
  <2>3. uh # th \/ i # L
    BY <1>1, <1>3, <2>2
  <2> QED BY <1>1, <2>1, <2>2, <2>3
<1> QED BY <1>2, <1>3 DEF CurrentInv

LEMMA AddedFrames ==
  ASSUME Inv1, CurrentInv, SeenInv, NEW th \in Thread, NEW g, Added(th, g), g.seen \in Nat,
         stack[th] # <<>> => Top(th).at = "pop", current' = current
  PROVE  CurrentInv' /\ SeenInv'
<1> DEFINE L == Len(stack[th]) + 1
<1>1. /\ L \notin DOMAIN stack[th] /\ stack'[th][L] = g
      /\ DOMAIN stack'[th] = DOMAIN stack[th] \union {L}
      /\ \A uh \in Thread : uh # th => stack'[uh] = stack[uh]
      /\ \A i \in DOMAIN stack[th] :
           \/ stack'[th][i] = stack[th][i]
           \/ /\ stack[th][i].at = "pop" /\ stack'[th][i].at = "body"
              /\ stack'[th][i].task = stack[th][i].task /\ stack'[th][i].ip = stack[th][i].ip
  BY FramesAdded
<1>2. \A i \in DOMAIN stack[th] : stack'[th][i].seen = stack[th][i].seen
  <2>1. ASSUME NEW i \in DOMAIN stack[th] PROVE stack'[th][i].seen = stack[th][i].seen
    <3>1. /\ DOMAIN stack[th] = 1..Len(stack[th]) /\ Len(stack[th]) \in Nat
          /\ stack[th] # <<>>
      BY <2>1 DEF Inv1, Typed
    <3>2. Top(th) = stack[th][Len(stack[th])] /\ Top(th) \in FrameType
      BY <3>1, TopOk
    <3>3. CASE i = Len(stack[th])
      <4>1. stack'[th][i] = [Top(th) EXCEPT !.at = "body"]
        BY <3>1, <3>3 DEF Added
      <4> QED BY <3>2, <3>3, <4>1 DEF FrameType
    <3>4. CASE i # Len(stack[th])
      BY <3>1, <3>4 DEF Added
    <3> QED BY <3>3, <3>4
  <2> QED BY <2>1
<1> HIDE DEF L
<1>3. SeenInv'
  BY <1>1, <1>2 DEF SeenInv
<1>4. ASSUME NEW uh \in Thread, current'[uh] # None
      PROVE  \E i \in DOMAIN stack'[uh] :
               stack'[uh][i].task = current'[uh] /\ stack'[uh][i].at \in RunPlace
  <2>1. PICK i \in DOMAIN stack[uh] : stack[uh][i].task = current[uh] /\ stack[uh][i].at \in RunPlace
    BY <1>4 DEF CurrentInv
  <2>2. /\ i \in DOMAIN stack'[uh] /\ stack'[uh][i].task = stack[uh][i].task
        /\ stack'[uh][i].at \in RunPlace
    BY <1>1, <2>1 DEF RunPlace
  <2> QED BY <2>1, <2>2
<1> QED BY <1>3, <1>4 DEF CurrentInv

-----------------------------------------------------------------------------
(* ProcessTask.                                                            *)

LEMMA GotoMoved ==
  ASSUME Inv1, NEW th \in Thread, stack[th] # <<>>, Top(th).task # None, prog' = prog,
         NEW place \in {"insert", "send", "schedule", "body"}, Goto(th, place)
  PROVE  /\ Replaced(th, Moved(th, place)) /\ Moved(th, place).task = Top(th).task
         /\ Moved(th, place).at = place /\ Moved(th, place).seen = Top(th).seen
         /\ Tags(Moved(th, place)) = IF place \in {"send", "schedule"} THEN {"remote"} ELSE {}
<1>1. Top(th) \in FrameType
  BY TopOk
<1>2. /\ Moved(th, place).task = Top(th).task /\ Moved(th, place).at = place
      /\ Moved(th, place).seen = Top(th).seen
  BY <1>1 DEF Moved, FrameType
<1>3. OpOk(th, Moved(th, place))
  BY <1>2 DEF OpOk, RunPlace, BeginPlace
<1>4. place \in Place /\ place # "complete"
  BY DEF Place
<1>5. Replaced(th, Moved(th, place))
  BY <1>3, <1>4, GotoOk
<1> QED BY <1>2, <1>5 DEF Tags

LEMMA SeenTop ==
  ASSUME Inv1, SeenInv, NEW th \in Thread, stack[th] # <<>>
  PROVE  Top(th).seen \in Nat
BY TopOk DEF SeenInv

LEMMA GotoInv3 ==
  ASSUME Inv1, HeldInv, Inv3, NEW th \in Thread, stack[th] # <<>>, Top(th).task # None,
         Top(th).at \notin {"entry", "grow"}, prog' = prog,
         NEW place \in {"insert", "send", "schedule", "body"}, Goto(th, place),
         NEW status \in {"CREATED", "RUNNING", "WAITING", "SCHEDULED"},
         Changed(th[1], Top(th).task, status),
         task[th[1]][Top(th).task].status \notin {"NONE", "COMPLETED"},
         status # "CREATED" \/ place \in {"send", "schedule"} =>
           \/ task[th[1]][Top(th).task].status \in {"RUNNING", "WAITING", "SCHEDULED"}
           \/ Top(th).at \in {"send", "schedule"} \/ MayRun(th[1], Top(th).task),
         \A m \in Node, u \in Task : task'[m][u].childCount = task[m][u].childCount,
         UNCHANGED <<group, queue>>, \A uh \in Thread : uh # th => current'[uh] = current[uh],
         current'[th] # None =>
           \/ current'[th] = Top(th).task /\ place = "body"
           \/ current'[th] = current[th] /\ Top(th).at \notin RunPlace
  PROVE  Inv3'
<1> DEFINE g == Moved(th, place)
<1>1. /\ Replaced(th, g) /\ g.task = Top(th).task /\ g.at = place /\ g.seen = Top(th).seen
      /\ Tags(g) = IF place \in {"send", "schedule"} THEN {"remote"} ELSE {}
  BY GotoMoved
<1>2. Top(th).seen \in Nat
  BY SeenTop DEF Inv3
<1> HIDE DEF g
<1>3. CurrentInv' /\ SeenInv'
  <2>1. g.seen \in Nat
    BY <1>1, <1>2
  <2>2. current'[th] # None =>
           \/ current'[th] = g.task /\ g.at \in RunPlace
           \/ /\ current'[th] = current[th] /\ g.task = Top(th).task
              /\ Top(th).at \in RunPlace => g.at \in RunPlace
    BY <1>1 DEF RunPlace
  <2> QED BY <1>1, <2>1, <2>2, ReplacedFrames DEF Inv3
<1> DEFINE T == IF place \in {"send", "schedule"} THEN {"remote"} ELSE {}
<1>4. Tagged(th, T)
  BY <1>1 DEF Tagged
<1>5. Settles(th, T, status, "none")
  BY <1>4 DEF Settles
<1>6. status \in {"RUNNING", "WAITING", "SCHEDULED"} \/ "queue" \in T \/ "remote" \in T =>
        \/ task[th[1]][Top(th).task].status \in {"RUNNING", "WAITING", "SCHEDULED"}
        \/ "queue" \in Tags(Top(th)) \/ "remote" \in Tags(Top(th))
        \/ MayRun(th[1], Top(th).task)
  <2>1. Top(th).at \in {"send", "schedule"} => "remote" \in Tags(Top(th))
    BY DEF Tags
  <2>2. "queue" \notin T /\ ("remote" \in T => place \in {"send", "schedule"})
    OBVIOUS
  <2> QED BY <2>1, <2>2
<1> HIDE DEF T
<1>7. CountInv'
  BY <1>5, <1>6, SettledCounts DEF Inv3
<1> QED BY <1>3, <1>7 DEF Inv3

LEMMA ProcessInv3 ==
  ASSUME Inv1, Inv2, Inv3, NEW th \in Thread, Handling1(th)
  PROVE  Inv3'
<1>1. HeldInv /\ RecordInv
  BY DEF Inv2
<1>2. ASSUME NEW status \in {"CREATED", "WAITING", "SCHEDULED"}, Processing(th, status)
      PROVE  /\ stack[th] # <<>> /\ Top(th).task # None /\ Top(th).at = "process"
             /\ Mine(th) = Top(th).task /\ Mine(th) \in Task /\ th[1] \in Node
             /\ task[th[1]][Top(th).task].status = status
  <2>1. At(th, "process")
    BY <1>2 DEF Processing
  <2>2. stack[th] # <<>> /\ Top(th).at = "process" /\ Top(th).task # None
    BY <2>1, TaskTop DEF RunPlace
  <2> QED BY <1>1, <1>2, <2>2, HeldTop DEF Processing
<1>3. CASE NotYet(th)
  <2>1. /\ Processing(th, "CREATED") /\ Goto(th, "insert") /\ prog' = prog /\ task' = task
        /\ UNCHANGED <<group, queue, current>>
    BY <1>3 DEF NotYet
  <2>2. Changed(th[1], Top(th).task, "CREATED")
    BY <1>2, <2>1, NothingSet
  <2> QED BY <1>1, <1>2, <2>1, <2>2, GotoInv3 DEF RunPlace
<1>4. CASE RunRemotely(th)
  <2>1. /\ Processing(th, "CREATED") /\ Goto(th, "send") /\ prog' = prog /\ task' = task
        /\ UNCHANGED <<group, queue, current>> /\ MayRun(th[1], Mine(th))
    BY <1>4 DEF RunRemotely
  <2>2. Changed(th[1], Top(th).task, "CREATED")
    BY <1>2, <2>1, NothingSet
  <2> QED BY <1>1, <1>2, <2>1, <2>2, GotoInv3 DEF RunPlace
<1>5. CASE CheckScheduled(th)
  <2>1. /\ Processing(th, "SCHEDULED") /\ Goto(th, "insert") /\ prog' = prog /\ task' = task
        /\ UNCHANGED <<group, queue, current>>
    BY <1>5 DEF CheckScheduled
  <2>2. Changed(th[1], Top(th).task, "SCHEDULED")
    BY <1>2, <2>1, NothingSet
  <2> QED BY <1>1, <1>2, <2>1, <2>2, GotoInv3 DEF RunPlace
<1>6. CASE RunTask(th)
  <2>1. /\ Processing(th, "CREATED") /\ Goto(th, "body") /\ prog' = prog
        /\ UNCHANGED <<group, queue>> /\ MayRun(th[1], Mine(th))
        /\ task' = [task EXCEPT ![th[1]][Mine(th)].status = "RUNNING"]
        /\ current' = [current EXCEPT ![th] = Mine(th)]
    BY <1>6 DEF RunTask
  <2>2. /\ Changed(th[1], Top(th).task, "RUNNING")
        /\ \A m \in Node, u \in Task : task'[m][u].childCount = task[m][u].childCount
    <3>1. PICK n, t, status : n = th[1] /\ t = Top(th).task /\ status = "RUNNING"
      OBVIOUS
    <3>2. n \in Node /\ t \in Task /\ status \in {"CREATED", "RUNNING", "WAITING", "SCHEDULED", "COMPLETED"}
      BY <1>2, <2>1, <3>1
    <3>3. task' = [task EXCEPT ![n][t].status = status]
      BY <1>2, <2>1, <3>1
    <3> QED BY <3>1, <3>2, <3>3, StatusSet
  <2>3. /\ \A uh \in Thread : uh # th => current'[uh] = current[uh]
        /\ current'[th] = Top(th).task
    BY <1>2, <2>1 DEF Inv1, Typed
  <2> QED BY <1>1, <1>2, <2>1, <2>2, <2>3, GotoInv3
<1>7. CASE SetScheduled(th)
  <2>1. /\ At(th, "schedule") /\ Goto(th, "insert") /\ prog' = prog
        /\ UNCHANGED <<group, queue, current>>
        /\ task' = [task EXCEPT ![th[1]][Mine(th)].status = "SCHEDULED"]
    BY <1>7 DEF SetScheduled
  <2>2. stack[th] # <<>> /\ Top(th).at = "schedule" /\ Top(th).task # None
    BY <2>1, TaskTop DEF RunPlace
  <2>3. /\ Mine(th) = Top(th).task /\ Mine(th) \in Task /\ th[1] \in Node
        /\ task[th[1]][Top(th).task].status \in {"CREATED", "WAITING"}
    BY <1>1, <2>2, HeldTop DEF StatusAt
  <2>4. /\ Changed(th[1], Top(th).task, "SCHEDULED")
        /\ \A m \in Node, u \in Task : task'[m][u].childCount = task[m][u].childCount
    <3>1. PICK n, t, status : n = th[1] /\ t = Top(th).task /\ status = "SCHEDULED"
      OBVIOUS
    <3>2. n \in Node /\ t \in Task /\ status \in {"CREATED", "RUNNING", "WAITING", "SCHEDULED", "COMPLETED"}
      BY <2>1, <2>3, <3>1
    <3>3. task' = [task EXCEPT ![n][t].status = status]
      BY <2>1, <2>3, <3>1
    <3> QED BY <3>1, <3>2, <3>3, StatusSet
  <2> QED BY <1>1, <2>1, <2>2, <2>3, <2>4, GotoInv3 DEF RunPlace
<1> QED BY <1>3, <1>4, <1>5, <1>6, <1>7 DEF Handling1

LEMMA InsertStartInv3 ==
  ASSUME Inv1, Inv2, Inv3, NEW th \in Thread, InsertStart(th)
  PROVE  Inv3'
<1>1. HeldInv
  BY DEF Inv2
<1>2. /\ At(th, "send") /\ Goto(th, "schedule") /\ prog' = prog /\ task' = task
      /\ UNCHANGED <<group, queue, current>>
  BY DEF InsertStart
<1>3. stack[th] # <<>> /\ Top(th).at = "send" /\ Top(th).task # None
  BY <1>2, TaskTop DEF RunPlace
<1>4. /\ Top(th).task \in Task /\ th[1] \in Node
      /\ task[th[1]][Top(th).task].status = "CREATED"
  BY <1>1, <1>3, HeldTop DEF StatusAt
<1>5. Changed(th[1], Top(th).task, "CREATED")
  BY <1>2, <1>4, NothingSet
<1> QED BY <1>1, <1>2, <1>3, <1>4, <1>5, GotoInv3 DEF RunPlace

LEMMA ReinsertInv3 ==
  ASSUME Inv1, Inv2, Inv3, NEW th \in Thread, Reinsert(th)
  PROVE  Inv3'
<1>1. /\ At(th, "insert") /\ Return(th) /\ prog' = prog /\ task' = task
      /\ UNCHANGED <<group, queue, current>> /\ HeldInv
  BY DEF Reinsert, Inv2
<1>2. stack[th] # <<>> /\ Top(th).at = "insert" /\ Top(th).task # None
  BY <1>1, TaskTop DEF RunPlace
<1>3. Removed(th)
  BY <1>2, <1>1, RemoveTop
<1>4. /\ Top(th).task \in Task /\ th[1] \in Node
      /\ task[th[1]][Top(th).task].status \in {"CREATED", "SCHEDULED", "WAITING"}
  BY <1>1, <1>2, HeldTop DEF StatusAt
<1>5. PICK status \in {"CREATED", "SCHEDULED", "WAITING"} : status = task[th[1]][Top(th).task].status
  BY <1>4
<1>6. Changed(th[1], Top(th).task, status)
  BY <1>1, <1>4, <1>5, NothingSet
<1>7. Settles(th, {}, status, "none")
  <2>1. Tagged(th, {})
    BY <1>3 DEF Tagged
  <2> QED BY <1>1, <1>2, <1>5, <1>6, <2>1 DEF Settles
<1>8. CountInv'
  BY <1>1, <1>5, <1>7, SettledCounts DEF Inv3
<1>9. CurrentInv' /\ SeenInv'
  <2>1. Top(th).at \notin RunPlace
    BY <1>2 DEF RunPlace
  <2> QED BY <1>1, <1>2, <1>3, <2>1, RemovedFrames DEF Inv3
<1> QED BY <1>8, <1>9 DEF Inv3

-----------------------------------------------------------------------------
(* SetTaskComplete.                                                        *)

LEMMA CompleteInv3 ==
  ASSUME Inv1, HeldInv, Inv3, NEW th \in Thread, SetComplete(th), stack[th] # <<>>,
         Top(th).task # None, task[th[1]][Mine(th)].status \in {"RUNNING", "WAITING"},
         Top(th).at \in {"body", "process"},
         UNCHANGED <<prog, action, messages, taskList, net, processer, group, queue>>,
         \A uh \in Thread : uh # th => current'[uh] = current[uh],
         current'[th] # None => current'[th] = current[th] /\ Top(th).at = "process"
  PROVE  Inv3'
<1> DEFINE rec == task[th[1]][Mine(th)]
<1>1. /\ Changed(th[1], Mine(th), "COMPLETED")
      /\ \A m \in Node, u \in Task : task'[m][u].childCount = task[m][u].childCount
      /\ \/ Removed(th) /\ Stages(rec) = <<>>
         \/ \E g : /\ Replaced(th, g) /\ g.task = Top(th).task /\ g.at = "complete"
                   /\ g.stages = Stages(rec) /\ g.seen = Top(th).seen
  <2>1. Top(th).at \notin BeginPlace /\ Top(th).at # "schedule"
    BY DEF BeginPlace
  <2> QED BY <2>1, SetCompleteOk
<1>2. /\ Mine(th) = Top(th).task /\ Mine(th) \in Task /\ th[1] \in Node /\ rec \in TaskInfo
  BY HeldTop
<1>3. /\ "parent" \in ToSet(Stages(rec)) <=> rec.parent # None
      /\ "queue" \in ToSet(Stages(rec)) <=> rec.queue # None
      /\ "group" \in ToSet(Stages(rec)) <=> rec.group # None
  BY <1>2, StagesOk
<1>4. /\ CurrentInv' /\ SeenInv'
      /\ Tagged(th, ToSet(Stages(rec)))
  <2>1. CASE Removed(th) /\ Stages(rec) = <<>>
    <3>1. ToSet(Stages(rec)) = {}
      BY <2>1, Literals
    <3>2. current'[th] # None => current'[th] = current[th] /\ Top(th).at \notin RunPlace
      BY DEF RunPlace
    <3>3. CurrentInv' /\ SeenInv'
      BY <2>1, <3>2, RemovedFrames DEF Inv3
    <3> QED BY <2>1, <3>1, <3>3 DEF Tagged
  <2>2. CASE \E g : /\ Replaced(th, g) /\ g.task = Top(th).task /\ g.at = "complete"
                    /\ g.stages = Stages(rec) /\ g.seen = Top(th).seen
    <3>1. PICK g : /\ Replaced(th, g) /\ g.task = Top(th).task /\ g.at = "complete"
                   /\ g.stages = Stages(rec) /\ g.seen = Top(th).seen
      BY <2>2
    <3>2. g.seen \in Nat
      BY <3>1, SeenTop DEF Inv3
    <3>3. current'[th] # None => current'[th] = current[th] /\ Top(th).at \notin RunPlace
      BY DEF RunPlace
    <3>4. CurrentInv' /\ SeenInv'
      BY <3>1, <3>2, <3>3, ReplacedFrames DEF Inv3
    <3>5. Tags(g) = ToSet(Stages(rec))
      BY <3>1 DEF Tags
    <3> QED BY <3>1, <3>4, <3>5 DEF Tagged
  <2> QED BY <1>1, <2>1, <2>2
<1>5. Settles(th, ToSet(Stages(rec)), "COMPLETED", "none")
  BY <1>1, <1>2, <1>3, <1>4 DEF Settles, Has
<1>6. CountInv'
  BY <1>1, <1>2, <1>5, SettledCounts DEF Inv3
<1> QED BY <1>4, <1>6 DEF Inv3

LEMMA EndBodyInv3 ==
  ASSUME Inv1, Inv2, Inv3, NEW th \in Thread, EndBody(th), UNCHANGED remoteVars
  PROVE  Inv3'
<1> DEFINE t == Top(th).task n == th[1]
<1>0. HeldInv
  BY DEF Inv2
<1>1. stack[th] # <<>> /\ Top(th).at = "body" /\ t # None
  BY DEF EndBody, At, Mine
<1>2. /\ t \in Task /\ n \in Node /\ Mine(th) = t /\ task[n][t].status = "RUNNING"
  BY <1>0, <1>1, HeldTop DEF StatusAt, RunPlace
<1>3. UNCHANGED <<prog, action, taskList, queue, group, messages, net, processer>>
  BY DEF EndBody, remoteVars
<1>4. (\A uh \in Thread : uh # th => current'[uh] = current[uh]) /\ current'[th] = None
  BY DEF EndBody, Inv1, Typed
<1>5. CASE task[n][t].childCount = 0
  <2>1. SetComplete(th)
    BY <1>2, <1>5 DEF EndBody
  <2>2. current'[th] # None => current'[th] = current[th] /\ Top(th).at = "process"
    BY <1>4
  <2>3. task[th[1]][Mine(th)].status \in {"RUNNING", "WAITING"} /\ Top(th).at \in {"body", "process"}
    BY <1>1, <1>2
  <2> QED BY <1>0, <1>1, <1>3, <1>4, <2>1, <2>2, <2>3, CompleteInv3
<1>6. CASE task[n][t].childCount # 0
  <2>1. Goto(th, "insert") /\ task' = [task EXCEPT ![n][t].status = "WAITING"]
    BY <1>2, <1>6 DEF EndBody
  <2>2. /\ Changed(n, t, "WAITING")
        /\ \A m \in Node, u \in Task : task'[m][u].childCount = task[m][u].childCount
    BY <1>2, <2>1, StatusSet
  <2> QED BY <1>0, <1>1, <1>2, <1>3, <1>4, <2>1, <2>2, GotoInv3
<1> QED BY <1>5, <1>6

LEMMA CheckWaitingInv3 ==
  ASSUME Inv1, Inv2, Inv3, NEW th \in Thread, CheckWaiting(th), UNCHANGED remoteVars
  PROVE  Inv3'
<1> DEFINE t == Top(th).task n == th[1]
<1>0. HeldInv
  BY DEF Inv2
<1>1. stack[th] # <<>> /\ Top(th).at = "process" /\ t # None
  BY TaskTop DEF CheckWaiting, Processing, RunPlace
<1>2. /\ t \in Task /\ n \in Node /\ Mine(th) = t /\ task[n][t].status = "WAITING"
  BY <1>0, <1>1, HeldTop DEF CheckWaiting, Processing
<1>3. UNCHANGED <<prog, action, taskList, queue, group, current, messages, net, processer>>
  BY DEF CheckWaiting, remoteVars
<1>5. CASE task[n][t].childCount = 0
  <2>1. SetComplete(th)
    BY <1>2, <1>5 DEF CheckWaiting
  <2> QED BY <1>0, <1>1, <1>2, <1>3, <2>1, CompleteInv3
<1>6. CASE task[n][t].childCount # 0
  <2>1. Goto(th, "insert") /\ task' = task
    BY <1>2, <1>6 DEF CheckWaiting
  <2>2. Changed(n, t, "WAITING")
    BY <1>2, <2>1, NothingSet
  <2> QED BY <1>0, <1>1, <1>2, <1>3, <2>1, <2>2, GotoInv3 DEF RunPlace
<1> QED BY <1>5, <1>6

\* One stage of SetTaskComplete.
LEMMA StageDone ==
  ASSUME Inv1, Inv2, Inv3, NEW th \in Thread, NEW stage, Completing(th, stage),
         NEW n, n = th[1], NEW t, t = Mine(th), Changed(n, t, task[n][t].status),
         UNCHANGED <<prog, action, messages, taskList, net, processer, current>>
  PROVE  /\ CurrentInv' /\ SeenInv' /\ Signs(n, t, stage)
         /\ n \in Node /\ t \in Task /\ task[n][t] \in TaskInfo
         /\ StagesFit(Top(th).stages, task[n][t]) /\ stage \in ToSet(Top(th).stages)
         /\ Counting(n, t, stage) /\ ~Counting(n, t, stage)'
         /\ \A m \in Node, c \in Task : \A q \in Queue :
              Queued(m, c, q) /\ Passed(m, c)' => Passed(m, c) \/ Head(queue[q]) = c
<1>1. HeldInv /\ StagesInv
  BY DEF Inv2
<1>2. /\ stage \in ToSet(Top(th).stages) /\ StagesFit(Top(th).stages, task[n][t])
      /\ stack[th] # <<>> /\ Top(th).task # None /\ Top(th).at = "complete"
      /\ \/ Removed(th) /\ ToSet(Top(th).stages) = {stage}
         \/ \E g : /\ Replaced(th, g) /\ g.task = Top(th).task /\ g.at = "complete"
                   /\ ToSet(g.stages) = ToSet(Top(th).stages) \ {stage}
                   /\ g.seen = Top(th).seen
  BY <1>1, CompletingOk
<1>3. /\ n \in Node /\ t \in Task /\ task[n][t] \in TaskInfo /\ t = Top(th).task
      /\ task[n][t].status = "COMPLETED"
  BY <1>1, <1>2, HeldTop DEF StatusAt
<1> DEFINE T == ToSet(Top(th).stages) \ {stage}
<1>4. Tags(Top(th)) = ToSet(Top(th).stages)
  BY <1>2 DEF Tags
<1>5. CurrentInv' /\ SeenInv' /\ Tagged(th, T)
  <2>1. CASE Removed(th) /\ ToSet(Top(th).stages) = {stage}
    <3>1. Top(th).at \notin RunPlace
      BY <1>2 DEF RunPlace
    <3>2. CurrentInv' /\ SeenInv'
      BY <1>2, <2>1, <3>1, RemovedFrames DEF Inv3
    <3>3. T = {}
      BY <2>1
    <3> QED BY <2>1, <3>2, <3>3 DEF Tagged
  <2>2. CASE \E g : /\ Replaced(th, g) /\ g.task = Top(th).task /\ g.at = "complete"
                    /\ ToSet(g.stages) = ToSet(Top(th).stages) \ {stage}
                    /\ g.seen = Top(th).seen
    <3>1. PICK g : /\ Replaced(th, g) /\ g.task = Top(th).task /\ g.at = "complete"
                   /\ ToSet(g.stages) = ToSet(Top(th).stages) \ {stage}
                   /\ g.seen = Top(th).seen
      BY <2>2
    <3>2. g.seen \in Nat
      BY <1>2, <3>1, SeenTop DEF Inv3
    <3>3. Top(th).at \notin RunPlace
      BY <1>2 DEF RunPlace
    <3>4. CurrentInv' /\ SeenInv'
      BY <1>2, <3>1, <3>2, <3>3, ReplacedFrames DEF Inv3
    <3>5. Tags(g) = T
      BY <3>1 DEF Tags
    <3> QED BY <3>1, <3>4, <3>5 DEF Tagged
  <2> QED BY <1>2, <2>1, <2>2
<1>6. \A x : x \in T <=> x \in Tags(Top(th)) /\ x # stage
  BY <1>4
<1> HIDE DEF T
<1>7. Settles(th, T, "COMPLETED", stage)
  BY <1>2, <1>3, <1>5, <1>6 DEF Settles
<1>8. /\ Signs(n, t, stage)
      /\ \A x : /\ Counting(n, t, x)' <=> "COMPLETED" # "COMPLETED" \/ x \in T
                /\ Counting(n, t, x) <=>
                     task[n][t].status # "COMPLETED" \/ x \in Tags(Top(th))
  BY <1>1, <1>3, <1>7, SettledSigns
<1>9. Counting(n, t, stage) /\ ~Counting(n, t, stage)'
  BY <1>2, <1>4, <1>6, <1>8
<1>10. \A m \in Node, c \in Task : \A q \in Queue :
         Queued(m, c, q) /\ Passed(m, c)' => Passed(m, c) \/ Head(queue[q]) = c
  BY <1>1, <1>6, <1>7, SettledPassed
<1> QED BY <1>2, <1>3, <1>5, <1>8, <1>9, <1>10

LEMMA LeaveParentInv3 ==
  ASSUME Inv1, Inv2, Inv3, NEW th \in Thread, LeaveParent(th), UNCHANGED remoteVars
  PROVE  Inv3'
<1>0. PICK n, t, p : n = th[1] /\ t = Mine(th) /\ p = task[n][t].parent
  OBVIOUS
<1>1. Completing(th, "parent")
  BY DEF LeaveParent
<1>2. /\ stack[th] # <<>> /\ Top(th).task # None /\ Top(th).at = "complete"
      /\ "parent" \in ToSet(Top(th).stages)
  <2>1. stack[th] # <<>> /\ Top(th).task # None /\ Top(th).at = "complete"
    BY <1>1, TaskTop DEF Completing, RunPlace
  <2> QED BY <1>1, <2>1, TopOk DEF Completing, ToSet, GoodFrame, FrameType
<1>3. t \in Task /\ n \in Node /\ task[n][t] \in TaskInfo
  BY <1>0, <1>2, HeldTop DEF Inv2
<1>4. p \in Task
  <2>1. StagesFit(Top(th).stages, task[n][t])
    BY <1>0, <1>2, TopOk, HeldTop DEF StagesInv, Inv2
  <2> QED BY <1>0, <1>2, <1>3, <2>1 DEF StagesFit, TaskInfo
<1>5. task' = [task EXCEPT ![n][p].childCount = @ - 1]
  BY <1>0 DEF LeaveParent
<1>6. /\ Changed(n, t, task[n][t].status)
      /\ \A m \in Node, u \in Task : task'[m][u].childCount =
           IF m = n /\ u = p THEN task[m][u].childCount - 1 ELSE task[m][u].childCount
  <2> DEFINE rec == [task[n][p] EXCEPT !.childCount = @ - 1]
  <2>1. task \in [Node -> [Task -> TaskInfo]]
    BY DEF Inv1, Typed
  <2>2. task[n][p] \in TaskInfo
    BY <1>3, <1>4, <2>1
  <2>3. task[n][p].childCount - 1 \in Int
    BY <2>2 DEF TaskInfo
  <2>4. rec \in TaskInfo /\ Alike(rec, task[n][p]) /\ rec.status = task[n][p].status
        /\ rec.childCount = task[n][p].childCount - 1
    BY <2>2, <2>3 DEF TaskInfo, Alike
  <2>5. task' = [task EXCEPT ![n] = [task[n] EXCEPT ![p] = rec]]
    BY <1>5, <2>1
  <2> HIDE DEF rec
  <2>6. /\ task' \in [Node -> [Task -> TaskInfo]] /\ task'[n][p] = rec
        /\ \A m \in Node, u \in Task : m # n \/ u # p => task'[m][u] = task[m][u]
    BY <1>3, <1>4, <2>1, <2>4, <2>5
  <2>7. Changed(n, t, task[n][t].status)
    BY <1>3, <1>4, <2>4, <2>6 DEF Changed, Alike
  <2> QED BY <2>4, <2>6, <2>7
<1>7. UNCHANGED <<prog, action, taskList, queue, group, current, messages, net, processer>>
  BY DEF LeaveParent, remoteVars
<1>8. /\ CurrentInv' /\ SeenInv' /\ Signs(n, t, "parent")
      /\ Counting(n, t, "parent") /\ ~Counting(n, t, "parent")'
      /\ \A m \in Node, c \in Task : \A q \in Queue :
           Queued(m, c, q) /\ Passed(m, c)' => Passed(m, c) \/ Head(queue[q]) = c
  BY <1>0, <1>1, <1>6, <1>7, StageDone
<1>9. ParentInv' /\ MemberInv' /\ QueueInv'
  BY <1>7, <1>8, SignedKept DEF Inv3
<1>10. ChildInv'
  BY <1>0, <1>3, <1>4, <1>6, <1>8, ChildSigned DEF Inv3, CountInv
<1> QED BY <1>8, <1>9, <1>10 DEF Inv3, CountInv

LEMMA GroupResultInv3 ==
  ASSUME Inv1, Inv2, Inv3, NEW th \in Thread, GroupResult(th), UNCHANGED remoteVars
  PROVE  Inv3'
<1>0. PICK n, t : n = th[1] /\ t = Mine(th)
  OBVIOUS
<1>1. Completing(th, "result")
  BY DEF GroupResult
<1>2. stack[th] # <<>> /\ Top(th).task # None
  BY <1>1, TaskTop DEF Completing, RunPlace
<1>3. t \in Task /\ n \in Node
  BY <1>0, <1>2, HeldTop DEF Inv2
<1>4. UNCHANGED <<prog, action, task, taskList, queue, current, messages, net, processer>>
  BY DEF GroupResult, remoteVars
<1>5. Changed(n, t, task[n][t].status)
  BY <1>3, <1>4, NothingSet
<1>6. /\ CurrentInv' /\ SeenInv' /\ Signs(n, t, "result")
      /\ \A m \in Node, c \in Task : \A q \in Queue :
           Queued(m, c, q) /\ Passed(m, c)' => Passed(m, c) \/ Head(queue[q]) = c
  BY <1>0, <1>1, <1>4, <1>5, StageDone
<1>7. \A g \in Group : group'[g].current = group[g].current
  <2>1. PICK h : h = task[th[1]][Mine(th)].group
    OBVIOUS
  <2>2. group' = [group EXCEPT ![h].result = t]
    BY <1>0, <2>1 DEF GroupResult
  <2>3. group \in [Group -> [num : Nat, current : Int, result : Task \union {None}]]
    BY DEF Inv1, Typed
  <2>4. ASSUME NEW g \in Group PROVE group'[g].current = group[g].current
    <3>1. group[g] \in [num : Nat, current : Int, result : Task \union {None}]
      BY <2>3
    <3>2. group'[g] = IF g = h THEN [group[g] EXCEPT !.result = t] ELSE group[g]
      BY <2>2, <2>3
    <3> QED BY <3>1, <3>2
  <2> QED BY <2>4
<1>8. ParentInv' /\ ChildInv' /\ MemberInv' /\ QueueInv'
  BY <1>4, <1>6, <1>7, SignedKept DEF Inv3
<1> QED BY <1>6, <1>8 DEF Inv3, CountInv

LEMMA MessageCompleteInv3 ==
  ASSUME Inv1, Inv2, Inv3, NEW th \in Thread, MessageComplete(th)
  PROVE  Inv3'
<1>0. PICK n, t : n = th[1] /\ t = Mine(th)
  OBVIOUS
<1>1. Completing(th, "message")
  BY DEF MessageComplete
<1>2. stack[th] # <<>> /\ Top(th).task # None
  BY <1>1, TaskTop DEF Completing, RunPlace
<1>3. t \in Task /\ n \in Node
  BY <1>0, <1>2, HeldTop DEF Inv2
<1>4. UNCHANGED <<prog, action, task, taskList, queue, group, current, messages, net, processer>>
  BY DEF MessageComplete
<1>5. Changed(n, t, task[n][t].status)
  BY <1>3, <1>4, NothingSet
<1>6. /\ CurrentInv' /\ SeenInv' /\ Signs(n, t, "message")
      /\ \A m \in Node, c \in Task : \A q \in Queue :
           Queued(m, c, q) /\ Passed(m, c)' => Passed(m, c) \/ Head(queue[q]) = c
  BY <1>0, <1>1, <1>4, <1>5, StageDone
<1>8. ParentInv' /\ ChildInv' /\ MemberInv' /\ QueueInv'
  BY <1>4, <1>6, SignedKept DEF Inv3
<1> QED BY <1>6, <1>8 DEF Inv3, CountInv

\* A task that a thread has is not at its start.
LEMMA HeldEntered ==
  ASSUME Inv1, Inv2, NEW n \in Node, NEW t \in Task, Held(n, t), NEW places,
         places \subseteq BeginPlace
  PROVE  ~Entering(n, t, places)
BY DEF Inv2, BeginInv, Entering, Begins

\* Only one node has a task with a queue or a group.
LEMMA OneRecord ==
  ASSUME Inv1, Inv2, NEW n \in Node, NEW t \in Task, task[n][t].status # "NONE",
         task[n][t].queue # None \/ task[n][t].group # None \/ ~task[n][t].message,
         NEW m \in Node, m # n
  PROVE  task[m][t].queue = None /\ task[m][t].group = None
BY DEF Inv2, RecordInv

LEMMA LeaveGroupInv3 ==
  ASSUME Inv1, Inv2, Inv3, NEW th \in Thread, LeaveGroup(th), UNCHANGED remoteVars
  PROVE  Inv3'
<1>0. PICK n, t, h : n = th[1] /\ t = Mine(th) /\ h = task[n][t].group
  OBVIOUS
<1>1. Completing(th, "group")
  BY DEF LeaveGroup
<1>2. stack[th] # <<>> /\ Top(th).task # None
  BY <1>1, TaskTop DEF Completing, RunPlace
<1>3. t \in Task /\ n \in Node /\ Held(n, t)
  BY <1>0, <1>2, HeldTop, TopHeld DEF Inv2
<1>4. UNCHANGED <<prog, action, task, taskList, queue, current, messages, net, processer>>
  BY DEF LeaveGroup, remoteVars
<1>5. Changed(n, t, task[n][t].status)
  BY <1>3, <1>4, NothingSet
<1>6. /\ CurrentInv' /\ SeenInv' /\ Signs(n, t, "group")
      /\ task[n][t] \in TaskInfo
      /\ StagesFit(Top(th).stages, task[n][t]) /\ "group" \in ToSet(Top(th).stages)
      /\ Counting(n, t, "group") /\ ~Counting(n, t, "group")'
      /\ \A m \in Node, c \in Task : \A q \in Queue :
           Queued(m, c, q) /\ Passed(m, c)' => Passed(m, c) \/ Head(queue[q]) = c
  BY <1>0, <1>1, <1>4, <1>5, StageDone
<1>7. h \in Group
  BY <1>0, <1>6 DEF StagesFit, TaskInfo
<1>8. /\ \A g \in Group : g # h => group'[g].current = group[g].current
      /\ group'[h].current = group[h].current - 1
  <2>1. group' = [group EXCEPT ![h].current = @ - 1]
    BY <1>0 DEF LeaveGroup
  <2>2. group \in [Group -> [num : Nat, current : Int, result : Task \union {None}]]
    BY DEF Inv1, Typed
  <2>3. group' = [group EXCEPT ![h] = [group[h] EXCEPT !.current = group[h].current - 1]]
    BY <2>1
  <2>4. group[h] \in [num : Nat, current : Int, result : Task \union {None}]
    BY <1>7, <2>2
  <2> QED BY <1>7, <2>2, <2>3, <2>4
<1>9. ParentInv' /\ ChildInv' /\ QueueInv'
  BY <1>4, <1>6, SignedKept DEF Inv3
<1>10. MemberInv'
  <2>1. /\ Member(n, t, h) /\ ~Member(n, t, h)'
        /\ \A g \in Group : g # h => ~Member(n, t, g) /\ ~Member(n, t, g)'
    <3>1. ~Entering(n, t, {"entry", "grow"})
      BY <1>3, HeldEntered DEF BeginPlace
    <3>2. task'[n][t].group = h /\ task[n][t].group = h
      BY <1>0, <1>4
    <3> QED BY <1>6, <3>1, <3>2 DEF Member, Counting
  <2>2. \A m \in Node, c \in Task : m # n \/ c # t =>
          \A g \in Group : Member(m, c, g)' <=> Member(m, c, g)
    BY <1>6, SignsSame
  <2>3. \A g \in Group : g # h => Counted(g)' = Counted(g)
    <3> SUFFICES ASSUME NEW g \in Group, g # h PROVE Counted(g)' = Counted(g)
      OBVIOUS
    <3>1. \A x \in Node \X Task : Member(x[1], x[2], g)' <=> Member(x[1], x[2], g)
      BY <2>1, <2>2
    <3> QED BY <3>1 DEF Counted
  <2>4. Counted(h)' = Counted(h) \ {<<n, t>>} /\ <<n, t>> \in Counted(h)
    <3>1. \A x \in Node \X Task : x # <<n, t>> => x[1] # n \/ x[2] # t
      OBVIOUS
    <3>2. \A x \in Node \X Task : Member(x[1], x[2], h)' <=> Member(x[1], x[2], h) /\ x # <<n, t>>
      BY <1>7, <2>1, <2>2, <3>1
    <3>3. <<n, t>> \in Node \X Task /\ <<n, t>>[1] = n /\ <<n, t>>[2] = t
      BY <1>3
    <3> QED BY <2>1, <3>2, <3>3 DEF Counted
  <2>5. \A g \in Group : IsFiniteSet(Counted(g)) /\ group[g].current = Cardinality(Counted(g))
    BY DEF Inv3, CountInv, MemberInv
  <2>6. IsFiniteSet(Counted(h)') /\ Cardinality(Counted(h)') = group[h].current - 1
    BY <1>7, <2>4, <2>5, FS_RemoveElement
  <2> SUFFICES ASSUME NEW g \in Group
      PROVE  IsFiniteSet(Counted(g)') /\ group'[g].current = Cardinality(Counted(g)')
    BY DEF MemberInv
  <2>7. CASE g = h
    BY <1>8, <2>6, <2>7
  <2>8. CASE g # h
    BY <1>8, <2>3, <2>5, <2>8
  <2> QED BY <2>7, <2>8
<1> QED BY <1>6, <1>9, <1>10 DEF Inv3, CountInv

\* r is the rest of s, without the first entry.
Rest(r, s) ==
  /\ Distinct(r)
  /\ \A i \in DOMAIN r : i + 1 \in DOMAIN s /\ r[i] = s[i + 1] /\ r[i] # Head(s)
  /\ \A i \in DOMAIN s : s[i] # Head(s) => i - 1 \in DOMAIN r /\ r[i - 1] = s[i]

LEMMA Tailed ==
  ASSUME NEW s \in Seq(Task), s # <<>>, Distinct(s)
  PROVE  Rest(Tail(s), s)
<1>0. PICK r : r = Tail(s)
  OBVIOUS
<1>1. /\ r \in Seq(Task) /\ Len(s) \in Nat \ {0} /\ Len(r) = Len(s) - 1
      /\ s[1] = Head(s) /\ \A i \in 1..(Len(s) - 1) : r[i] = s[i + 1]
  <2>1. s \in Seq(Task) /\ Len(s) \in Nat \ {0} /\ s # <<>>
    OBVIOUS
  <2> QED BY <1>0, <2>1
<1>2. DOMAIN s = 1..Len(s) /\ DOMAIN r = 1..(Len(s) - 1)
  BY <1>1
<1>3. \A i \in DOMAIN r : i \in Nat \ {0} /\ i + 1 \in DOMAIN s /\ i + 1 # 1 /\ r[i] = s[i + 1]
  BY <1>1, <1>2
<1>4. 1 \in DOMAIN s
  BY <1>1, <1>2
<1>5. \A i \in DOMAIN r : r[i] # Head(s)
  BY <1>1, <1>3, <1>4 DEF Distinct
<1>6. Distinct(r)
  BY <1>3 DEF Distinct
<1>7. ASSUME NEW i \in DOMAIN s, s[i] # Head(s)
      PROVE  i - 1 \in DOMAIN r /\ r[i - 1] = s[i]
  <2>1. i - 1 \in 1..(Len(s) - 1) /\ (i - 1) + 1 = i
    BY <1>1, <1>2, <1>7
  <2> QED BY <1>1, <1>2, <2>1
<1> QED BY <1>0, <1>1, <1>3, <1>5, <1>6, <1>7 DEF Rest

LEMMA LeaveQueueInv3 ==
  ASSUME Inv1, Inv2, Inv3, NEW th \in Thread, LeaveQueue(th), UNCHANGED remoteVars
  PROVE  Inv3'
<1>0. PICK n, t, h : n = th[1] /\ t = Mine(th) /\ h = task[n][t].queue
  OBVIOUS
<1>1. Completing(th, "queue")
  BY DEF LeaveQueue
<1>2. stack[th] # <<>> /\ Top(th).task # None /\ Top(th).at = "complete"
  BY <1>1, TaskTop DEF Completing, RunPlace
<1>3. t \in Task /\ n \in Node /\ Held(n, t) /\ task[n][t].status = "COMPLETED"
  BY <1>0, <1>2, HeldTop, TopHeld DEF Inv2, StatusAt
<1>4. UNCHANGED <<prog, action, task, taskList, group, current, messages, net, processer>>
  BY DEF LeaveQueue, remoteVars
<1>5. Changed(n, t, task[n][t].status)
  BY <1>3, <1>4, NothingSet
<1>6. /\ CurrentInv' /\ SeenInv' /\ Signs(n, t, "queue")
      /\ task[n][t] \in TaskInfo
      /\ StagesFit(Top(th).stages, task[n][t]) /\ "queue" \in ToSet(Top(th).stages)
      /\ Counting(n, t, "queue") /\ ~Counting(n, t, "queue")'
      /\ \A m \in Node, c \in Task : \A q \in Queue :
           Queued(m, c, q) /\ Passed(m, c)' => Passed(m, c) \/ Head(queue[q]) = c
  BY <1>0, <1>1, <1>4, <1>5, StageDone
<1>7. h \in Queue
  BY <1>0, <1>6 DEF StagesFit, TaskInfo
<1>8. ParentInv' /\ ChildInv' /\ MemberInv'
  BY <1>4, <1>6, SignedKept DEF Inv3
<1>9. /\ queue \in [Queue -> Seq(Task)]
      /\ \A q \in Queue :
           /\ Distinct(queue[q])
           /\ \A i \in DOMAIN queue[q] : \E m \in Node : Queued(m, queue[q][i], q)
           /\ \A m \in Node, u \in Task : Queued(m, u, q) =>
                /\ \E i \in DOMAIN queue[q] : queue[q][i] = u
                /\ Passed(m, u) => Head(queue[q]) = u
  BY DEF Inv3, CountInv, QueueInv
<1>10. Queued(n, t, h) /\ \A q \in Queue : q # h => ~Queued(n, t, q) /\ ~Queued(n, t, q)'
  <2>1. ~Entering(n, t, {"entry"})
    BY <1>3, HeldEntered DEF BeginPlace
  <2>2. task'[n][t].queue = h /\ task[n][t].queue = h
    BY <1>0, <1>4
  <2> QED BY <1>6, <2>1, <2>2 DEF Queued, Counting
<1>11. \A m \in Node, c \in Task : m # n \/ c # t =>
         \A q \in Queue : Queued(m, c, q)' <=> Queued(m, c, q)
  BY <1>6, SignsSame
<1>12. Head(queue[h]) = t /\ queue[h] # <<>>
  <2>1. Owes(n, t, "queue")
    BY <1>3, <1>6 DEF Counting, Open
  <2>2. \E i \in DOMAIN queue[h] : queue[h][i] = t
    BY <1>3, <1>7, <1>9, <1>10
  <2>3. Head(queue[h]) = t
    BY <1>3, <1>7, <1>9, <1>10, <2>1 DEF Passed
  <2> QED BY <2>2, <2>3
<1>13. \A m \in Node, u \in Task : Queued(m, u, h)' => u # t /\ Queued(m, u, h)
  <2>1. ~Queued(n, t, h)'
    BY <1>6 DEF Queued, Counting
  <2>2. \A m \in Node : m # n => ~Queued(m, t, h)
    <3>1. task[n][t].queue # None
      BY <1>0, <1>7, NotNone
    <3> QED BY <1>3, <1>7, <3>1, OneRecord, NotNone DEF Queued
  <2> QED BY <1>3, <1>7, <1>11, <2>1, <2>2
<1>14. /\ \A q \in Queue : q # h => queue'[q] = queue[q]
       /\ queue'[h] = Tail(queue[h]) /\ queue' \in [Queue -> Seq(Task)]
  <2>1. queue' = [queue EXCEPT ![h] = Tail(queue[h])]
    BY <1>0 DEF LeaveQueue
  <2>2. queue[h] \in Seq(Task) /\ Tail(queue[h]) \in Seq(Task)
    BY <1>7, <1>9, <1>12
  <2> QED BY <1>7, <1>9, <2>1, <2>2
<1>15. /\ Distinct(queue'[h])
       /\ \A i \in DOMAIN queue'[h] :
            i + 1 \in DOMAIN queue[h] /\ queue'[h][i] = queue[h][i + 1] /\ queue'[h][i] # t
       /\ \A i \in DOMAIN queue[h] :
            queue[h][i] # t => i - 1 \in DOMAIN queue'[h] /\ queue'[h][i - 1] = queue[h][i]
  <2>0. PICK s, r : s = queue[h] /\ r = queue'[h]
    OBVIOUS
  <2>1. s \in Seq(Task) /\ Distinct(s) /\ s # <<>> /\ r = Tail(s) /\ Head(s) = t
    BY <1>7, <1>9, <1>12, <1>14, <2>0
  <2>2. Rest(r, s)
    BY <2>1, Tailed
  <2> QED BY <2>0, <2>1, <2>2 DEF Rest
<1>16. ASSUME NEW q \in Queue
       PROVE  /\ Distinct(queue'[q])
              /\ \A i \in DOMAIN queue'[q] : \E m \in Node : Queued(m, queue[q][i], q)'
              /\ \A m \in Node, u \in Task : Queued(m, u, q)' =>
                   /\ \E i \in DOMAIN queue'[q] : queue'[q][i] = u
                   /\ Passed(m, u)' => Head(queue'[q]) = u
  <2>1. CASE q = h
    <3>1. ASSUME NEW i \in DOMAIN queue'[h]
          PROVE  \E m \in Node : Queued(m, queue[h][i], h)'
      <4>1. PICK u : u = queue'[h][i]
        OBVIOUS
      <4>2. u \in Task /\ u # t /\ u = queue[h][i + 1] /\ i + 1 \in DOMAIN queue[h]
        BY <1>7, <1>14, <1>15, <3>1, <4>1
      <4>3. PICK m \in Node : Queued(m, u, h)
        BY <1>7, <1>9, <4>2
      <4>4. Queued(m, u, h)'
        BY <1>7, <1>11, <4>2, <4>3
      <4> QED BY <4>1, <4>4
    <3>2. ASSUME NEW m \in Node, NEW u \in Task, Queued(m, u, h)'
          PROVE  /\ \E i \in DOMAIN queue'[h] : queue'[h][i] = u
                 /\ ~Passed(m, u)'
      <4>1. u # t /\ Queued(m, u, h)
        BY <1>13, <3>2
      <4>2. PICK i \in DOMAIN queue[h] : queue[h][i] = u
        BY <1>7, <1>9, <4>1
      <4>3. i - 1 \in DOMAIN queue'[h] /\ queue'[h][i - 1] = u
        BY <1>15, <4>1, <4>2
      <4>4. ~Passed(m, u)'
        BY <1>6, <1>7, <1>9, <1>12, <4>1
      <4> QED BY <4>3, <4>4
    <3> QED BY <1>15, <2>1, <3>1, <3>2
  <2>2. CASE q # h
    <3>1. \A m \in Node, u \in Task : Queued(m, u, q)' <=> Queued(m, u, q)
      BY <1>10, <1>11, <2>2
    <3>2. queue'[q] = queue[q] /\ Distinct(queue[q])
      BY <1>9, <1>14, <2>2
    <3>3. ASSUME NEW i \in DOMAIN queue'[q]
          PROVE  \E m \in Node : Queued(m, queue[q][i], q)'
      <4>1. PICK u : u = queue'[q][i]
        OBVIOUS
      <4>2. u \in Task /\ u = queue[q][i] /\ i \in DOMAIN queue[q]
        BY <1>9, <3>2, <3>3, <4>1
      <4>3. PICK m \in Node : Queued(m, u, q)
        BY <1>9, <4>2
      <4> QED BY <3>1, <4>1, <4>2, <4>3
    <3>4. ASSUME NEW m \in Node, NEW u \in Task, Queued(m, u, q)'
          PROVE  /\ \E i \in DOMAIN queue[q] : queue[q][i] = u
                 /\ Passed(m, u)' => Head(queue[q]) = u
      BY <1>6, <1>9, <3>1, <3>4
    <3> QED BY <3>2, <3>3, <3>4
  <2> QED BY <2>1, <2>2
<1>17. QueueInv'
  BY <1>14, <1>16 DEF QueueInv
<1> QED BY <1>6, <1>8, <1>17 DEF Inv3, CountInv

-----------------------------------------------------------------------------
(* Steps of a script.                                                      *)

LEMMA MovedFrame ==
  ASSUME Inv1, NEW th \in Thread, stack[th] # <<>>, NEW place \in Place, Goto(th, place)
  PROVE  /\ Replaced(th, Moved(th, place)) /\ Moved(th, place).task = Top(th).task
         /\ Moved(th, place).at = place /\ Moved(th, place).seen = Top(th).seen
<1>1. Top(th) \in FrameType
  BY TopOk
<1>2. /\ Moved(th, place).task = Top(th).task /\ Moved(th, place).at = place
      /\ Moved(th, place).seen = Top(th).seen /\ Moved(th, place) \in FrameType
  BY <1>1 DEF Moved, FrameType
<1>3. SetTop(th, Moved(th, place))
  BY DEF Goto, Moved
<1> QED BY <1>2, <1>3, ReplaceTop

LEMMA AdvancedFrame ==
  ASSUME Inv1, NEW th \in Thread, stack[th] # <<>>, NextOp(th)
  PROVE  /\ Replaced(th, Advanced(th)) /\ Advanced(th).task = Top(th).task
         /\ Advanced(th).at = "body" /\ Advanced(th).seen = Top(th).seen
<1>1. Top(th) \in FrameType
  BY TopOk
<1>2. Top(th).ip + 1 \in Nat \ {0}
  BY <1>1 DEF FrameType
<1>3. /\ Advanced(th).task = Top(th).task /\ Advanced(th).at = "body"
      /\ Advanced(th).seen = Top(th).seen /\ Advanced(th) \in FrameType
  BY <1>1, <1>2 DEF Advanced, FrameType, Place
<1>4. SetTop(th, Advanced(th))
  BY DEF NextOp, Advanced
<1> QED BY <1>3, <1>4, ReplaceTop

\* A frame whose script runs owes nothing.
LEMMA WalkOwes ==
  ASSUME Inv1, HeldInv, NEW th \in Thread, stack[th] # <<>>, NEW g, Replaced(th, g),
         g.task = Top(th).task, Top(th).at \in RunPlace, g.at \in RunPlace
  PROVE  \A n \in Node, t \in Task : \A x : Owes(n, t, x)' <=> Owes(n, t, x)
<1>1. Tags(g) = {} /\ Tags(Top(th)) = {}
  BY DEF Tags, RunPlace
<1>2. \A n \in Node, t \in Task : \A x :
        /\ n # th[1] \/ t # Top(th).task => (Owes(n, t, x)' <=> Owes(n, t, x))
        /\ n = th[1] /\ t = Top(th).task => (Owes(n, t, x)' <=> x \in Tags(g))
  BY ReplacedOwes
<1>3. Top(th).task # None => \A x : Owes(th[1], Top(th).task, x) <=> x \in Tags(Top(th))
  BY TopOwes
<1> QED BY <1>1, <1>2, <1>3, NotNone

\* Nothing that counts changes.
LEMMA StillSigns ==
  ASSUME task' = task, \A n \in Node, t \in Task : \A x : Owes(n, t, x)' <=> Owes(n, t, x),
         \A m \in Node, u \in Task :
           /\ Entering(m, u, {"entry"})' <=> Entering(m, u, {"entry"})
           /\ Entering(m, u, {"entry", "grow"})' <=> Entering(m, u, {"entry", "grow"})
  PROVE  /\ \A n, t : Signs(n, t, "none")
         /\ \A m \in Node, c \in Task : Passed(m, c)' <=> Passed(m, c)
<1>1. \A m \in Node, u \in Task : \A x : Counting(m, u, x)' <=> Counting(m, u, x)
  BY DEF Counting, Open
<1>2. \A m \in Node, c \in Task : Passed(m, c)' <=> Passed(m, c)
  BY DEF Passed
<1>3. \A m \in Node, u \in Task : Alike(task'[m][u], task[m][u])
  BY DEF Alike
<1> QED BY <1>1, <1>2, <1>3 DEF Signs

LEMMA StillCounts ==
  ASSUME Inv1, CountInv, task' = task, queue' = queue,
         \A g \in Group : group'[g].current = group[g].current,
         \A n \in Node, t \in Task : \A x : Owes(n, t, x)' <=> Owes(n, t, x),
         \A m \in Node, u \in Task :
           /\ Entering(m, u, {"entry"})' <=> Entering(m, u, {"entry"})
           /\ Entering(m, u, {"entry", "grow"})' <=> Entering(m, u, {"entry", "grow"})
  PROVE  CountInv'
<1>1. /\ \A n, t : Signs(n, t, "none")
      /\ \A m \in Node, c \in Task : Passed(m, c)' <=> Passed(m, c)
  BY StillSigns
<1>2. PICK n, t : Signs(n, t, "none")
  BY <1>1
<1>3. ParentInv' /\ ChildInv' /\ MemberInv' /\ QueueInv'
  BY <1>1, <1>2, SignedKept
<1> QED BY <1>3 DEF CountInv

LEMMA WalkInv3 ==
  ASSUME Inv1, Inv2, Inv3, NEW th \in Thread, stack[th] # <<>>, NEW g, Replaced(th, g),
         g.task = Top(th).task, g.seen \in Nat,
         Top(th).at \in RunPlace \ {"entry", "grow"}, g.at \in RunPlace \ {"entry", "grow"},
         UNCHANGED <<prog, task, queue>>, \A h \in Group : group'[h].current = group[h].current,
         \A uh \in Thread : uh # th => current'[uh] = current[uh],
         current'[th] # None => current'[th] = current[th]
  PROVE  Inv3'
<1>1. CurrentInv' /\ SeenInv'
  BY ReplacedFrames DEF Inv3
<1>2. \A n \in Node, t \in Task : \A x : Owes(n, t, x)' <=> Owes(n, t, x)
  BY WalkOwes DEF Inv2
<1>3. \A m \in Node, u \in Task : Entering(m, u, {"entry"})' <=> Entering(m, u, {"entry"})
  <2>1. Top(th).at \notin {"entry"} /\ g.at \notin {"entry"}
    OBVIOUS
  <2> QED BY <2>1, ReplacedEntering
<1>4. \A m \in Node, u \in Task :
        Entering(m, u, {"entry", "grow"})' <=> Entering(m, u, {"entry", "grow"})
  BY ReplacedEntering
<1>5. CountInv'
  BY <1>2, <1>3, <1>4, StillCounts DEF Inv3
<1> QED BY <1>1, <1>5 DEF Inv3

\* The same for Goto and NextOp.
LEMMA StrollInv3 ==
  ASSUME Inv1, Inv2, Inv3, NEW th \in Thread, stack[th] # <<>>,
         Top(th).at \in RunPlace \ {"entry", "grow"},
         \/ NextOp(th)
         \/ \E place \in RunPlace \ {"entry", "grow"} : Goto(th, place),
         UNCHANGED <<prog, task, queue>>, \A h \in Group : group'[h].current = group[h].current,
         \A uh \in Thread : uh # th => current'[uh] = current[uh],
         current'[th] # None => current'[th] = current[th]
  PROVE  Inv3'
<1>1. Top(th).seen \in Nat
  BY SeenTop DEF Inv3
<1>2. CASE NextOp(th)
  <2>1. PICK g : g = Advanced(th)
    OBVIOUS
  <2>2. /\ Replaced(th, g) /\ g.task = Top(th).task /\ g.seen \in Nat
        /\ g.at \in RunPlace \ {"entry", "grow"}
    BY <1>1, <1>2, <2>1, AdvancedFrame DEF RunPlace
  <2> QED BY <2>2, WalkInv3
<1>3. CASE \E place \in RunPlace \ {"entry", "grow"} : Goto(th, place)
  <2>1. PICK place \in RunPlace \ {"entry", "grow"} : Goto(th, place)
    BY <1>3
  <2>2. place \in Place
    BY DEF RunPlace, Place
  <2>3. PICK g : g = Moved(th, place)
    OBVIOUS
  <2>4. /\ Replaced(th, g) /\ g.task = Top(th).task /\ g.seen \in Nat
        /\ g.at \in RunPlace \ {"entry", "grow"}
    BY <1>1, <2>1, <2>2, <2>3, MovedFrame
  <2> QED BY <2>4, WalkInv3
<1> QED BY <1>2, <1>3

-----------------------------------------------------------------------------
(* The steps of a script that count nothing.                               *)

LEMMA StrollPlaces ==
  /\ {"body", "announce", "count", "list", "pop", "compare", "fetch"}
       = RunPlace \ {"entry", "grow"}
  /\ "body" \in RunPlace
BY DEF RunPlace

LEMMA CreateActionInv3 ==
  ASSUME Inv1, Inv2, Inv3, NEW th \in Thread, CreateAction(th)
  PROVE  Inv3'
<1>1. stack[th] # <<>> /\ Top(th).at = "body"
  BY DoingOk DEF CreateAction
<1>2. NextOp(th) \/ \E place \in RunPlace \ {"entry", "grow"} : Goto(th, place)
  BY StrollPlaces DEF CreateAction
<1>3. UNCHANGED <<prog, task, queue, group, current>>
  BY DEF CreateAction
<1> QED BY <1>1, <1>2, <1>3, StrollPlaces, StrollInv3

LEMMA AnnounceInv3 ==
  ASSUME Inv1, Inv2, Inv3, NEW th \in Thread, Announce(th)
  PROVE  Inv3'
<1>1. stack[th] # <<>> /\ Top(th).at = "announce"
  BY DEF Announce, At
<1>2. NextOp(th) /\ UNCHANGED <<prog, task, queue, group, current>>
  BY DEF Announce
<1> QED BY <1>1, <1>2, StrollPlaces, StrollInv3

LEMMA ListTaskInv3 ==
  ASSUME Inv1, Inv2, Inv3, NEW th \in Thread, ListTask(th)
  PROVE  Inv3'
<1>1. stack[th] # <<>> /\ Top(th).at = "list"
  BY DEF ListTask, At
<1>2. NextOp(th) /\ UNCHANGED <<prog, task, queue, group, current>>
  BY DEF ListTask
<1> QED BY <1>1, <1>2, StrollPlaces, StrollInv3

LEMMA FetchResultInv3 ==
  ASSUME Inv1, Inv2, Inv3, NEW th \in Thread, FetchResult(th)
  PROVE  Inv3'
<1>1. stack[th] # <<>> /\ Top(th).at = "fetch"
  BY DEF FetchResult, At
<1>2. NextOp(th) /\ UNCHANGED <<prog, task, queue, group, current>>
  BY DEF FetchResult
<1> QED BY <1>1, <1>2, StrollPlaces, StrollInv3

LEMMA CompareGroupInv3 ==
  ASSUME Inv1, Inv2, Inv3, NEW th \in Thread, CompareGroup(th)
  PROVE  Inv3'
<1>1. stack[th] # <<>> /\ Top(th).at = "compare"
  BY DEF CompareGroup, At
<1>2. \E place \in RunPlace \ {"entry", "grow"} : Goto(th, place)
  BY StrollPlaces DEF CompareGroup
<1>3. UNCHANGED <<prog, task, queue, group, current>>
  BY DEF CompareGroup
<1> QED BY <1>1, <1>2, <1>3, StrollPlaces, StrollInv3

LEMMA WaitTaskInv3 ==
  ASSUME Inv1, Inv2, Inv3, NEW th \in Thread, WaitTask(th)
  PROVE  Inv3'
<1>1. stack[th] # <<>> /\ Top(th).at = "body"
  BY DoingOk DEF WaitTask
<1>2. NextOp(th) \/ \E place \in RunPlace \ {"entry", "grow"} : Goto(th, place)
  BY StrollPlaces DEF WaitTask
<1>3. UNCHANGED <<prog, task, queue, group, current>>
  BY DEF WaitTask
<1> QED BY <1>1, <1>2, <1>3, StrollPlaces, StrollInv3

LEMMA WaitGroupAllInv3 ==
  ASSUME Inv1, Inv2, Inv3, NEW th \in Thread, WaitGroupAll(th)
  PROVE  Inv3'
<1>1. stack[th] # <<>> /\ Top(th).at = "body"
  BY DoingOk DEF WaitGroupAll
<1>2. NextOp(th) \/ \E place \in RunPlace \ {"entry", "grow"} : Goto(th, place)
  BY StrollPlaces DEF WaitGroupAll
<1>3. UNCHANGED <<prog, task, queue, group, current>>
  BY DEF WaitGroupAll
<1> QED BY <1>1, <1>2, <1>3, StrollPlaces, StrollInv3

LEMMA CountInGroupInv3 ==
  ASSUME Inv1, Inv2, Inv3, NEW th \in Thread, CountInGroup(th)
  PROVE  Inv3'
<1>1. At(th, "count") /\ Goto(th, "list")
  BY DEF CountInGroup
<1>2. stack[th] # <<>> /\ Top(th).at = "count"
  BY <1>1 DEF At
<1>3. UNCHANGED <<prog, task, queue, current>>
  BY DEF CountInGroup
<1>4. \A h \in Group : group'[h].current = group[h].current
  <2>1. group \in [Group -> [num : Nat, current : Int, result : Task \union {None}]]
    BY DEF Inv1, Typed
  <2>2. PICK g : g = prog.group[On(th)]
    OBVIOUS
  <2>3. group' = [group EXCEPT ![g].num = @ + 1]
    BY <2>2 DEF CountInGroup
  <2> QED BY <2>1, <2>3
<1>5. \E place \in RunPlace \ {"entry", "grow"} : Goto(th, place)
  BY <1>1, StrollPlaces
<1> QED BY <1>2, <1>3, <1>4, <1>5, StrollPlaces, StrollInv3

LEMMA PopIdleInv3 ==
  ASSUME Inv1, Inv2, Inv3, NEW th \in Thread, PopIdle(th)
  PROVE  Inv3'
<1>1. stack[th] # <<>> /\ Top(th).at = "pop"
  BY DEF PopIdle, PopWaiting, At
<1>2. /\ current' = [current EXCEPT ![th] = None]
      /\ Goto(th, "body")
  BY DEF PopIdle, PopWaiting, Goto
<1>3. UNCHANGED <<prog, task, queue, group>>
  BY DEF PopIdle, PopWaiting
<1>4. current'[th] = None /\ \A uh \in Thread : uh # th => current'[uh] = current[uh]
  BY <1>2 DEF Inv1, Typed
<1>5. \E place \in RunPlace \ {"entry", "grow"} : Goto(th, place)
  BY <1>2, StrollPlaces
<1> QED BY <1>1, <1>3, <1>4, <1>5, StrollPlaces, StrollInv3

LEMMA WaitGroupAnyInv3 ==
  ASSUME Inv1, Inv2, Inv3, NEW th \in Thread, WaitGroupAny(th)
  PROVE  Inv3'
<1>1. stack[th] # <<>> /\ Top(th).at = "body" /\ On(th) \in Group
  BY DoingOk DEF WaitGroupAny
<1>2. PICK k : k = group[On(th)].current
  OBVIOUS
<1>3. k \in Nat
  BY <1>1, <1>2, FS_CardinalityType DEF Inv3, CountInv, MemberInv
<1> DEFINE g == [Top(th) EXCEPT !.at = "compare", !.seen = k]
<1>5. Top(th) \in FrameType
  BY <1>1, TopOk
<1>6. g \in FrameType /\ g.task = Top(th).task /\ g.at = "compare" /\ g.seen = k
  <2>1. k \in Int
    BY <1>3
  <2>2. g \in FrameType
    BY <1>5, <2>1 DEF FrameType, Place
  <2>3. g.task = Top(th).task /\ g.at = "compare"
    BY <1>5, <2>1 DEF FrameType, Place
  <2>4. g.seen = k
    BY <1>5, <2>1 DEF FrameType
  <2> QED BY <2>2, <2>3, <2>4
<1>7. SetTop(th, g)
  BY <1>2 DEF WaitGroupAny
<1> HIDE DEF g
<1>8. Replaced(th, g)
  BY <1>1, <1>6, <1>7, ReplaceTop
<1>9. UNCHANGED <<prog, task, queue, group, current>>
  BY DEF WaitGroupAny
<1> QED BY <1>1, <1>3, <1>6, <1>8, <1>9, StrollPlaces, WalkInv3

\* A thread takes a task from the list.
LEMMA TakeInv3 ==
  ASSUME Inv1, Inv2, Inv3, NEW th \in Thread, UNCHANGED remoteVars,
         (PopWaiting(th) /\ taskList[th[1]] # <<>>) \/ PopWorker(th)
  PROVE  Inv3'
<1>1. PICK g : Take(th, g)
  BY TakeStep
<1>2. /\ Added(th, g)
      /\ stack[th] # <<>> => Top(th).at = "pop"
      /\ g.at = "process" /\ prog' = prog /\ task' = task
  BY <1>1 DEF Take
<1>3. UNCHANGED <<queue, group, current>>
  BY DEF PopWaiting, PopWorker
<1>4. g.seen \in Nat
  BY <1>1 DEF Take
<1>5. CurrentInv' /\ SeenInv'
  BY <1>2, <1>3, <1>4, AddedFrames DEF Inv3
<1>6. /\ \A n \in Node, t \in Task : \A x : Owes(n, t, x)' <=> Owes(n, t, x)
      /\ \A n \in Node, t \in Task : Entering(n, t, {"entry"})' <=> Entering(n, t, {"entry"})
      /\ \A n \in Node, t \in Task :
           Entering(n, t, {"entry", "grow"})' <=> Entering(n, t, {"entry", "grow"})
  BY <1>2, AddedMarks
<1>7. CountInv'
  BY <1>2, <1>3, <1>6, StillCounts DEF Inv3
<1> QED BY <1>5, <1>7 DEF Inv3

-----------------------------------------------------------------------------
(* The start of a task: its entry in the queue, its place in the group.    *)

\* The start of task t of node n goes from one place to the other.
Enters(n, t, from, to, places) ==
  /\ Entering(n, t, places) <=> from \in places
  /\ Entering(n, t, places)' <=> to \in places
  /\ \A m \in Node, u \in Task : m # n \/ u # t =>
       (Entering(m, u, places)' <=> Entering(m, u, places))

\* The frame on top is at the start of a task, and goes on with it.
LEMMA MovesOn ==
  ASSUME Inv1, Inv2, CurrentInv, SeenInv, NEW th \in Thread, stack[th] # <<>>,
         Top(th).at \in BeginPlace, NEW place \in BeginPlace, Goto(th, place),
         UNCHANGED <<prog, task, current>>,
         NEW n, n = th[1], NEW t \in Task, t = On(th)
  PROVE  /\ CurrentInv' /\ SeenInv' /\ n \in Node
         /\ \A m \in Node, u \in Task : \A x : Owes(m, u, x)' <=> Owes(m, u, x)
         /\ task[n][t].status = "CREATED" /\ ~Held(n, t) /\ ~task[n][t].message
         /\ task[n][t].queue = prog.queue[t] /\ task[n][t].group = prog.group[t]
         /\ Enters(n, t, Top(th).at, place, {"entry"})
         /\ Enters(n, t, Top(th).at, place, {"entry", "grow"})
<1>1. PICK L, g : L = Len(stack[th]) /\ g = Moved(th, place)
  OBVIOUS
<1>2. place \in Place /\ place \in RunPlace /\ Top(th).at \in RunPlace
  BY DEF BeginPlace, RunPlace, Place
<1>3. /\ Replaced(th, g) /\ g.task = Top(th).task /\ g.at = place /\ g.seen = Top(th).seen
      /\ g.ip = Top(th).ip
  BY <1>1, <1>2, MovedFrame, MovedOp
<1>4. CurrentInv' /\ SeenInv'
  <2>1. g.seen \in Nat
    BY <1>3, SeenTop
  <2> QED BY <1>2, <1>3, <2>1, ReplacedFrames
<1>5. \A m \in Node, u \in Task : \A x : Owes(m, u, x)' <=> Owes(m, u, x)
  BY <1>2, <1>3, WalkOwes DEF Inv2
<1>6. n \in Node /\ L \in DOMAIN stack[th] /\ stack[th][L] = Top(th) /\ Begins(th, L, n, t)
  BY <1>1, ThreadOk, TopOk DEF Begins
<1>7. /\ task[n][t].status = "CREATED" /\ ~Held(n, t) /\ ~task[n][t].message
      /\ task[n][t].queue = prog.queue[t] /\ task[n][t].group = prog.group[t]
  BY <1>6 DEF BeginInv, Inv2
<1>8. /\ stack'[th][L] = g
      /\ \A uh \in Thread : DOMAIN stack'[uh] = DOMAIN stack[uh]
      /\ \A uh \in Thread : \A i \in DOMAIN stack[uh] :
           uh # th \/ i # L => stack'[uh][i] = stack[uh][i]
  BY <1>1, <1>3, FramesReplaced
<1>9. SameBegins
  BY <1>3, ReplacedBegins
<1>10. \A uh \in Thread : \A i \in DOMAIN stack[uh] : Begins(uh, i, n, t) => uh = th /\ i = L
  BY <1>6, BeginsOnce
<1>11. ASSUME NEW m \in Node, NEW u \in Task, m # n \/ u # t
       PROVE  ~Begins(th, L, m, u)
  BY <1>6, <1>11 DEF Begins
<1>12. ASSUME NEW places \in SUBSET BeginPlace
       PROVE  /\ Entering(n, t, places) <=> Top(th).at \in places
              /\ Entering(n, t, places)' <=> place \in places
              /\ \A m \in Node, u \in Task : m # n \/ u # t =>
                   (Entering(m, u, places)' <=> Entering(m, u, places))
  <2>1. \A m \in Node, u \in Task : Entering(m, u, places)' <=>
          \E uh \in Thread : \E i \in DOMAIN stack[uh] :
            Begins(uh, i, m, u) /\ stack'[uh][i].at \in places
    BY <1>8, <1>9 DEF Entering, SameBegins
  <2>2. Entering(n, t, places) <=> Top(th).at \in places
    BY <1>6, <1>10 DEF Entering
  <2>3. Entering(n, t, places)' <=> place \in places
    BY <1>3, <1>6, <1>8, <1>10, <2>1
  <2>4. ASSUME NEW m \in Node, NEW u \in Task, m # n \/ u # t
        PROVE  Entering(m, u, places)' <=> Entering(m, u, places)
    BY <1>8, <1>11, <2>1, <2>4 DEF Entering
  <2> QED BY <2>2, <2>3, <2>4
<1>13. {"entry"} \in SUBSET BeginPlace /\ {"entry", "grow"} \in SUBSET BeginPlace
  BY DEF BeginPlace
<1>14. Enters(n, t, Top(th).at, place, {"entry"})
  BY <1>12, <1>13 DEF Enters
<1>15. Enters(n, t, Top(th).at, place, {"entry", "grow"})
  BY <1>12, <1>13 DEF Enters
<1> QED BY <1>4, <1>5, <1>6, <1>7, <1>14, <1>15

\* r is s with x after it.
Longer(r, s, x) ==
  /\ Distinct(r) /\ r # <<>>
  /\ \A i \in DOMAIN r : r[i] = x \/ (i \in DOMAIN s /\ r[i] = s[i])
  /\ \A i \in DOMAIN s : i \in DOMAIN r /\ r[i] = s[i]
  /\ \E i \in DOMAIN r : r[i] = x
  /\ s # <<>> => Head(r) = Head(s)

LEMMA Appended ==
  ASSUME NEW s \in Seq(Task), NEW x \in Task, Distinct(s), \A i \in DOMAIN s : s[i] # x
  PROVE  Longer(Append(s, x), s, x) /\ Append(s, x) \in Seq(Task)
<1>0. PICK r : r = Append(s, x)
  OBVIOUS
<1>1. /\ r \in Seq(Task) /\ Len(s) \in Nat /\ Len(r) = Len(s) + 1 /\ r # <<>>
      /\ r[Len(s) + 1] = x /\ \A i \in 1..Len(s) : r[i] = s[i]
  BY <1>0
<1>2. DOMAIN s = 1..Len(s) /\ DOMAIN r = 1..(Len(s) + 1)
  BY <1>1
<1>3. \A i \in DOMAIN r : i = Len(s) + 1 \/ i \in DOMAIN s
  BY <1>1, <1>2
<1>4. \A i \in DOMAIN s : i \in DOMAIN r /\ r[i] = s[i] /\ i # Len(s) + 1
  BY <1>1, <1>2
<1>5. Len(s) + 1 \in DOMAIN r
  BY <1>1, <1>2
<1>6. Distinct(r)
  BY <1>1, <1>3, <1>4 DEF Distinct
<1>7. s # <<>> => Head(r) = Head(s)
  BY <1>1, <1>2, <1>4
<1> QED BY <1>0, <1>1, <1>3, <1>4, <1>5, <1>6, <1>7 DEF Longer

LEMMA EnterQueueInv3 ==
  ASSUME Inv1, Inv2, Inv3, NEW th \in Thread, EnterQueue(th)
  PROVE  Inv3'
<1>0. PICK n, t, h : n = th[1] /\ t = On(th) /\ h = prog.queue[t]
  OBVIOUS
<1>1. stack[th] # <<>> /\ Top(th).at = "entry" /\ t \in Task /\ h \in Queue
  BY <1>0, CallOk DEF EnterQueue, RunPlace, BeginPlace
<1>2. PICK place \in {"grow", "list"} :
        Goto(th, place) /\ (place = "list" => prog.group[t] = None)
  BY <1>0 DEF EnterQueue
<1>3. UNCHANGED <<prog, task, group, current>>
  BY DEF EnterQueue
<1>4. Top(th).at \in BeginPlace /\ place \in BeginPlace
  BY <1>1, <1>2 DEF BeginPlace
<1>5. /\ CurrentInv' /\ SeenInv' /\ n \in Node
      /\ \A m \in Node, u \in Task : \A x : Owes(m, u, x)' <=> Owes(m, u, x)
      /\ task[n][t].status = "CREATED" /\ ~Held(n, t) /\ ~task[n][t].message
      /\ task[n][t].queue = prog.queue[t] /\ task[n][t].group = prog.group[t]
      /\ Enters(n, t, Top(th).at, place, {"entry"})
      /\ Enters(n, t, Top(th).at, place, {"entry", "grow"})
  <2>1. CurrentInv /\ SeenInv
    BY DEF Inv3
  <2>2. UNCHANGED <<prog, task, current>> /\ Goto(th, place)
    BY <1>2, <1>3
  <2>3. n = th[1] /\ t = On(th) /\ t \in Task /\ stack[th] # <<>>
    BY <1>0, <1>1
  <2> QED BY <1>4, <2>1, <2>2, <2>3, MovesOn
<1>6. /\ Entering(n, t, {"entry"}) /\ ~Entering(n, t, {"entry"})'
      /\ Entering(n, t, {"entry", "grow"})
      /\ Entering(n, t, {"entry", "grow"})' \/ prog.group[t] = None
      /\ \A m \in Node, u \in Task : m # n \/ u # t =>
           /\ Entering(m, u, {"entry"})' <=> Entering(m, u, {"entry"})
           /\ Entering(m, u, {"entry", "grow"})' <=> Entering(m, u, {"entry", "grow"})
  <2>1. /\ Entering(n, t, {"entry"}) <=> Top(th).at \in {"entry"}
        /\ Entering(n, t, {"entry"})' <=> place \in {"entry"}
        /\ \A m \in Node, u \in Task : m # n \/ u # t =>
             (Entering(m, u, {"entry"})' <=> Entering(m, u, {"entry"}))
    BY <1>5 DEF Enters
  <2>2. /\ Entering(n, t, {"entry", "grow"}) <=> Top(th).at \in {"entry", "grow"}
        /\ Entering(n, t, {"entry", "grow"})' <=> place \in {"entry", "grow"}
        /\ \A m \in Node, u \in Task : m # n \/ u # t =>
             (Entering(m, u, {"entry", "grow"})' <=> Entering(m, u, {"entry", "grow"}))
    BY <1>5 DEF Enters
  <2> QED BY <1>1, <1>2, <2>1, <2>2
<1>7. \A m \in Node, u \in Task :
        Alike(task'[m][u], task[m][u]) /\ (task'[m][u].status = "NONE" <=> task[m][u].status = "NONE")
  BY <1>3 DEF Alike
<1>8. ParentInv' /\ ChildInv'
  <2>1. \A m \in Node, c, p \in Task : Child(m, c, p)' <=> Child(m, c, p)
    BY <1>3, <1>5 DEF Child, Open
  <2> QED BY <1>3, <1>7, <2>1, ParentKept, ChildKept DEF Inv3, CountInv
<1>9. MemberInv'
  <2>1. ASSUME NEW m \in Node, NEW c \in Task, NEW g \in Group
        PROVE  Member(m, c, g)' <=> Member(m, c, g)
    <3>1. CASE m # n \/ c # t
      BY <1>3, <1>5, <1>6, <3>1 DEF Member, Open
    <3>2. CASE m = n /\ c = t
      <4>1. task'[n][t].group = prog.group[t] /\ task[n][t].group = prog.group[t]
        BY <1>3, <1>5
      <4> QED BY <1>6, <3>2, <4>1, NotNone DEF Member
    <3> QED BY <3>1, <3>2
  <2> QED BY <1>3, <2>1, MemberKept DEF Inv3, CountInv
<1>10. /\ queue \in [Queue -> Seq(Task)]
       /\ \A q \in Queue :
            /\ Distinct(queue[q])
            /\ \A i \in DOMAIN queue[q] : \E m \in Node : Queued(m, queue[q][i], q)
            /\ \A m \in Node, u \in Task : Queued(m, u, q) =>
                 /\ \E i \in DOMAIN queue[q] : queue[q][i] = u
                 /\ Passed(m, u) => Head(queue[q]) = u
  BY DEF Inv3, CountInv, QueueInv
<1>11. /\ Queued(n, t, h)' /\ \A q \in Queue : ~Queued(n, t, q) /\ (Queued(n, t, q)' => q = h)
       /\ \A m \in Node, u \in Task : m # n \/ u # t =>
            \A q \in Queue : Queued(m, u, q)' <=> Queued(m, u, q)
  <2>1. task'[n][t].queue = h /\ task'[n][t].status = "CREATED"
    BY <1>0, <1>3, <1>5
  <2>2. Queued(n, t, h)' /\ \A q \in Queue : ~Queued(n, t, q) /\ (Queued(n, t, q)' => q = h)
    BY <1>6, <2>1 DEF Queued, Open
  <2>3. \A m \in Node, u \in Task : m # n \/ u # t =>
          \A q \in Queue : Queued(m, u, q)' <=> Queued(m, u, q)
    BY <1>3, <1>5, <1>6 DEF Queued, Open
  <2> QED BY <2>2, <2>3
<1>12. \A m \in Node : ~Queued(m, t, h)
  <2>1. \A m \in Node : m # n => task[m][t].queue = None
    BY <1>1, <1>5, OneRecord
  <2> QED BY <1>1, <1>11, <2>1, NotNone DEF Queued
<1>13. (\A m \in Node, u \in Task : Passed(m, u)' <=> Passed(m, u)) /\ ~Passed(n, t)
  <2>1. \A m \in Node, u \in Task : Passed(m, u)' <=> Passed(m, u)
    BY <1>3, <1>5 DEF Passed
  <2>2. \A x : ~Owes(n, t, x)
    BY <1>5 DEF Owes, Held
  <2> QED BY <1>5, <2>1, <2>2 DEF Passed
<1>14. /\ \A q \in Queue : q # h => queue'[q] = queue[q]
       /\ Longer(queue'[h], queue[h], t) /\ queue' \in [Queue -> Seq(Task)]
  <2>1. queue' = [queue EXCEPT ![h] = Append(queue[h], t)]
    BY <1>0 DEF EnterQueue
  <2>2. PICK s : s = queue[h]
    OBVIOUS
  <2>3. s \in Seq(Task) /\ Distinct(s) /\ \A i \in DOMAIN s : s[i] # t
    BY <1>1, <1>10, <1>12, <2>2
  <2>4. Longer(Append(s, t), s, t) /\ Append(s, t) \in Seq(Task)
    BY <1>1, <2>3, Appended
  <2> QED BY <1>1, <1>10, <2>1, <2>2, <2>4
<1>15. ASSUME NEW q \in Queue
       PROVE  /\ Distinct(queue'[q])
              /\ \A i \in DOMAIN queue'[q] : \E m \in Node : Queued(m, queue[q][i], q)'
              /\ \A m \in Node, u \in Task : Queued(m, u, q)' =>
                   /\ \E i \in DOMAIN queue'[q] : queue'[q][i] = u
                   /\ Passed(m, u)' => Head(queue'[q]) = u
  <2>1. CASE q = h
    <3>1. ASSUME NEW i \in DOMAIN queue'[h]
          PROVE  \E m \in Node : Queued(m, queue[h][i], h)'
      <4>1. PICK u : u = queue'[h][i]
        OBVIOUS
      <4>2. u = t \/ (u = queue[h][i] /\ i \in DOMAIN queue[h])
        BY <1>14, <3>1, <4>1 DEF Longer
      <4>3. CASE u = t
        BY <1>5, <1>11, <4>1, <4>3
      <4>4. CASE u # t
        <5>1. u \in Task /\ u = queue[h][i] /\ i \in DOMAIN queue[h]
          BY <1>1, <1>10, <4>2, <4>4
        <5>2. PICK m \in Node : Queued(m, u, h)
          BY <1>1, <1>10, <5>1
        <5>3. Queued(m, u, h)'
          BY <1>1, <1>11, <4>4, <5>1, <5>2
        <5> QED BY <4>1, <5>3
      <4> QED BY <4>3, <4>4
    <3>2. ASSUME NEW m \in Node, NEW u \in Task, Queued(m, u, h)'
          PROVE  /\ \E i \in DOMAIN queue'[h] : queue'[h][i] = u
                 /\ Passed(m, u)' => Head(queue'[h]) = u
      <4>1. CASE m = n /\ u = t
        BY <1>13, <1>14, <4>1 DEF Longer
      <4>2. CASE m # n \/ u # t
        <5>1. Queued(m, u, h)
          BY <1>1, <1>11, <3>2, <4>2
        <5>2. PICK i \in DOMAIN queue[h] : queue[h][i] = u
          BY <1>1, <1>10, <5>1
        <5>3. i \in DOMAIN queue'[h] /\ queue'[h][i] = u
          BY <1>14, <5>2 DEF Longer
        <5>4. Passed(m, u)' => Head(queue[h]) = u
          BY <1>1, <1>10, <1>13, <5>1
        <5>5. Head(queue'[h]) = Head(queue[h])
          BY <1>14, <5>2 DEF Longer
        <5> QED BY <5>3, <5>4, <5>5
      <4> QED BY <4>1, <4>2
    <3> QED BY <1>14, <2>1, <3>1, <3>2 DEF Longer
  <2>2. CASE q # h
    <3>1. \A m \in Node, u \in Task : Queued(m, u, q)' <=> Queued(m, u, q)
      BY <1>11, <2>2
    <3>2. queue'[q] = queue[q] /\ Distinct(queue[q])
      BY <1>10, <1>14, <2>2
    <3>3. ASSUME NEW i \in DOMAIN queue'[q]
          PROVE  \E m \in Node : Queued(m, queue[q][i], q)'
      <4>1. PICK u : u = queue'[q][i]
        OBVIOUS
      <4>2. u \in Task /\ u = queue[q][i] /\ i \in DOMAIN queue[q]
        BY <1>10, <3>2, <3>3, <4>1
      <4>3. PICK m \in Node : Queued(m, u, q)
        BY <1>10, <4>2
      <4> QED BY <3>1, <4>1, <4>2, <4>3
    <3>4. ASSUME NEW m \in Node, NEW u \in Task, Queued(m, u, q)'
          PROVE  /\ \E i \in DOMAIN queue[q] : queue[q][i] = u
                 /\ Passed(m, u)' => Head(queue[q]) = u
      BY <1>10, <1>13, <3>1, <3>4
    <3> QED BY <3>2, <3>3, <3>4
  <2> QED BY <2>1, <2>2
<1>16. QueueInv'
  BY <1>14, <1>15 DEF QueueInv
<1> QED BY <1>5, <1>8, <1>9, <1>16 DEF Inv3, CountInv

LEMMA GrowGroupInv3 ==
  ASSUME Inv1, Inv2, Inv3, NEW th \in Thread, GrowGroup(th)
  PROVE  Inv3'
<1>0. PICK n, t, h : n = th[1] /\ t = On(th) /\ h = prog.group[t]
  OBVIOUS
<1>1. stack[th] # <<>> /\ Top(th).at = "grow" /\ t \in Task /\ h \in Group
  BY <1>0, CallOk DEF GrowGroup, RunPlace, BeginPlace
<1>2. UNCHANGED <<prog, task, queue, current>>
  BY DEF GrowGroup
<1>3. PICK place : place = "count" /\ Goto(th, place)
  BY DEF GrowGroup
<1>4. Top(th).at \in BeginPlace /\ place \in BeginPlace
  BY <1>1, <1>3 DEF BeginPlace
<1>5. /\ CurrentInv' /\ SeenInv' /\ n \in Node
      /\ \A m \in Node, u \in Task : \A x : Owes(m, u, x)' <=> Owes(m, u, x)
      /\ task[n][t].status = "CREATED" /\ ~Held(n, t) /\ ~task[n][t].message
      /\ task[n][t].queue = prog.queue[t] /\ task[n][t].group = prog.group[t]
      /\ Enters(n, t, Top(th).at, place, {"entry"})
      /\ Enters(n, t, Top(th).at, place, {"entry", "grow"})
  <2>1. CurrentInv /\ SeenInv
    BY DEF Inv3
  <2>2. UNCHANGED <<prog, task, current>> /\ Goto(th, place)
    BY <1>2, <1>3
  <2>3. n = th[1] /\ t = On(th) /\ t \in Task /\ stack[th] # <<>>
    BY <1>0, <1>1
  <2> QED BY <1>4, <2>1, <2>2, <2>3, MovesOn
<1>6. /\ Entering(n, t, {"entry", "grow"}) /\ ~Entering(n, t, {"entry", "grow"})'
      /\ \A m \in Node, u \in Task : m # n \/ u # t =>
           (Entering(m, u, {"entry", "grow"})' <=> Entering(m, u, {"entry", "grow"}))
      /\ \A m \in Node, u \in Task : Entering(m, u, {"entry"})' <=> Entering(m, u, {"entry"})
  <2>1. /\ Entering(n, t, {"entry"}) <=> Top(th).at \in {"entry"}
        /\ Entering(n, t, {"entry"})' <=> place \in {"entry"}
        /\ \A m \in Node, u \in Task : m # n \/ u # t =>
             (Entering(m, u, {"entry"})' <=> Entering(m, u, {"entry"}))
    BY <1>5 DEF Enters
  <2>2. /\ Entering(n, t, {"entry", "grow"}) <=> Top(th).at \in {"entry", "grow"}
        /\ Entering(n, t, {"entry", "grow"})' <=> place \in {"entry", "grow"}
        /\ \A m \in Node, u \in Task : m # n \/ u # t =>
             (Entering(m, u, {"entry", "grow"})' <=> Entering(m, u, {"entry", "grow"}))
    BY <1>5 DEF Enters
  <2> QED BY <1>1, <1>3, <2>1, <2>2
<1>7. \A m \in Node, u \in Task :
        Alike(task'[m][u], task[m][u]) /\ (task'[m][u].status = "NONE" <=> task[m][u].status = "NONE")
  BY <1>2 DEF Alike
<1>8. ParentInv' /\ ChildInv'
  <2>1. \A m \in Node, c, p \in Task : Child(m, c, p)' <=> Child(m, c, p)
    BY <1>2, <1>5 DEF Child, Open
  <2> QED BY <1>2, <1>7, <2>1, ParentKept, ChildKept DEF Inv3, CountInv
<1>9. QueueInv'
  <2>1. \A m \in Node, c \in Task, q \in Queue : Queued(m, c, q)' <=> Queued(m, c, q)
    BY <1>2, <1>5, <1>6 DEF Queued, Open
  <2>2. \A m \in Node, c \in Task : Passed(m, c)' <=> Passed(m, c)
    BY <1>2, <1>5 DEF Passed
  <2> QED BY <1>2, <2>1, <2>2, QueueKept DEF Inv3, CountInv
<1>10. /\ \A g \in Group : g # h => group'[g].current = group[g].current
       /\ group'[h].current = group[h].current + 1
  <2>1. group' = [group EXCEPT ![h].current = @ + 1]
    BY <1>0 DEF GrowGroup
  <2>2. group \in [Group -> [num : Nat, current : Int, result : Task \union {None}]]
    BY DEF Inv1, Typed
  <2>3. group' = [group EXCEPT ![h] = [group[h] EXCEPT !.current = group[h].current + 1]]
    BY <2>1
  <2>4. group[h] \in [num : Nat, current : Int, result : Task \union {None}]
    BY <1>1, <2>2
  <2> QED BY <1>1, <2>2, <2>3, <2>4
<1>11. MemberInv'
  <2>1. /\ ~Member(n, t, h) /\ Member(n, t, h)'
        /\ \A g \in Group : g # h => ~Member(n, t, g) /\ ~Member(n, t, g)'
    <3>1. task'[n][t].group = h /\ task[n][t].group = h /\ task'[n][t].status = "CREATED"
      BY <1>0, <1>2, <1>5
    <3> QED BY <1>6, <3>1 DEF Member, Open
  <2>2. \A m \in Node, c \in Task : m # n \/ c # t =>
          \A g \in Group : Member(m, c, g)' <=> Member(m, c, g)
    BY <1>2, <1>5, <1>6 DEF Member, Open
  <2>3. \A g \in Group : g # h => Counted(g)' = Counted(g)
    <3> SUFFICES ASSUME NEW g \in Group, g # h PROVE Counted(g)' = Counted(g)
      OBVIOUS
    <3>1. \A x \in Node \X Task : Member(x[1], x[2], g)' <=> Member(x[1], x[2], g)
      BY <2>1, <2>2
    <3> QED BY <3>1 DEF Counted
  <2>4. Counted(h)' = Counted(h) \union {<<n, t>>} /\ <<n, t>> \notin Counted(h)
    <3>1. \A x \in Node \X Task : x # <<n, t>> => x[1] # n \/ x[2] # t
      OBVIOUS
    <3>2. <<n, t>> \in Node \X Task /\ <<n, t>>[1] = n /\ <<n, t>>[2] = t
      BY <1>1, <1>5
    <3>3. \A x \in Node \X Task : Member(x[1], x[2], h)' <=> Member(x[1], x[2], h) \/ x = <<n, t>>
      BY <1>1, <2>1, <2>2, <3>1, <3>2
    <3> QED BY <2>1, <3>2, <3>3 DEF Counted
  <2>5. \A g \in Group : IsFiniteSet(Counted(g)) /\ group[g].current = Cardinality(Counted(g))
    BY DEF Inv3, CountInv, MemberInv
  <2>6. IsFiniteSet(Counted(h)') /\ Cardinality(Counted(h)') = group[h].current + 1
    BY <1>1, <2>4, <2>5, FS_AddElement
  <2> SUFFICES ASSUME NEW g \in Group
      PROVE  IsFiniteSet(Counted(g)') /\ group'[g].current = Cardinality(Counted(g)')
    BY DEF MemberInv
  <2>7. CASE g = h
    BY <1>10, <2>6, <2>7
  <2>8. CASE g # h
    BY <1>10, <2>3, <2>5, <2>8
  <2> QED BY <2>7, <2>8
<1> QED BY <1>5, <1>8, <1>9, <1>11 DEF Inv3, CountInv

-----------------------------------------------------------------------------
(* A new task is a child of its parent at once; it is not yet in its queue *)
(* or its group.                                                           *)

Arrives(n, t, parent, q, g, message) ==
  /\ n \in Node /\ t \in Task /\ parent \in Task \union {None}
  /\ q \in Queue \union {None} /\ g \in Group \union {None}
  /\ Made(n, t, parent, q, g, message) /\ task[n][t].status = "NONE"
  /\ parent # None => parent # t /\ task[n][parent].status # "NONE"
  /\ \A m \in Node, u \in Task : \A x : Owes(m, u, x)' <=> Owes(m, u, x)
  /\ \A x : ~Owes(n, t, x)
  /\ \A m \in Node, u \in Task : m # n \/ u # t =>
       /\ Entering(m, u, {"entry"})' <=> Entering(m, u, {"entry"})
       /\ Entering(m, u, {"entry", "grow"})' <=> Entering(m, u, {"entry", "grow"})
  /\ q # None => Entering(n, t, {"entry"})'
  /\ g # None => Entering(n, t, {"entry", "grow"})'
  /\ \A m \in Node, u \in Task : m # n \/ u # t =>
       task'[m][u].childCount = IF m = n /\ u = parent THEN task[m][u].childCount + 1
                                ELSE task[m][u].childCount
  /\ UNCHANGED <<queue, group>>

LEMMA ArrivedMarks ==
  ASSUME Inv1, Inv2, NEW n, NEW t, NEW parent, NEW q, NEW g, NEW message,
         Arrives(n, t, parent, q, g, message)
  PROVE  /\ \A p \in Task : ~Child(n, t, p) /\ (Child(n, t, p)' <=> p = parent)
         /\ \A h \in Group : ~Member(n, t, h) /\ ~Member(n, t, h)'
         /\ \A h \in Queue : ~Queued(n, t, h) /\ ~Queued(n, t, h)'
         /\ \A m \in Node, c \in Task : m # n \/ c # t =>
              /\ \A p \in Task : Child(m, c, p)' <=> Child(m, c, p)
              /\ \A h \in Group : Member(m, c, h)' <=> Member(m, c, h)
              /\ \A h \in Queue : Queued(m, c, h)' <=> Queued(m, c, h)
              /\ Passed(m, c)' <=> Passed(m, c)
         /\ task'[n][t].status = "CREATED" /\ task'[n][t].parent = parent
         /\ task'[n][t].childCount = 0
         /\ \A m \in Node, u \in Task : m # n \/ u # t =>
              Alike(task'[m][u], task[m][u]) /\ task'[m][u].status = task[m][u].status
<1>1. /\ n \in Node /\ t \in Task /\ Made(n, t, parent, q, g, message)
      /\ task[n][t].status = "NONE" /\ \A x : ~Owes(n, t, x)
      /\ \A m \in Node, u \in Task : \A x : Owes(m, u, x)' <=> Owes(m, u, x)
      /\ \A m \in Node, u \in Task : m # n \/ u # t =>
           /\ Entering(m, u, {"entry"})' <=> Entering(m, u, {"entry"})
           /\ Entering(m, u, {"entry", "grow"})' <=> Entering(m, u, {"entry", "grow"})
      /\ q # None => Entering(n, t, {"entry"})'
      /\ g # None => Entering(n, t, {"entry", "grow"})'
  BY DEF Arrives
<1>2. /\ task'[n][t].status = "CREATED" /\ task'[n][t].parent = parent
      /\ task'[n][t].childCount = 0 /\ task'[n][t].queue = q /\ task'[n][t].group = g
      /\ \A m \in Node, u \in Task : m # n \/ u # t =>
           Alike(task'[m][u], task[m][u]) /\ task'[m][u].status = task[m][u].status
  BY <1>1 DEF Made
<1>3. task[n][t].parent = None /\ task[n][t].queue = None /\ task[n][t].group = None
  BY <1>1 DEF Inv2, RecordInv
<1>4. \A p \in Task : ~Child(n, t, p) /\ (Child(n, t, p)' <=> p = parent)
  BY <1>2, <1>3, NotNone DEF Child, Open
<1>5. \A h \in Group : ~Member(n, t, h) /\ ~Member(n, t, h)'
  BY <1>1, <1>2, <1>3, NotNone DEF Member
<1>6. \A h \in Queue : ~Queued(n, t, h) /\ ~Queued(n, t, h)'
  BY <1>1, <1>2, <1>3, NotNone DEF Queued
<1>7. ASSUME NEW m \in Node, NEW c \in Task, m # n \/ c # t
      PROVE  /\ \A p \in Task : Child(m, c, p)' <=> Child(m, c, p)
             /\ \A h \in Group : Member(m, c, h)' <=> Member(m, c, h)
             /\ \A h \in Queue : Queued(m, c, h)' <=> Queued(m, c, h)
             /\ Passed(m, c)' <=> Passed(m, c)
  <2>1. /\ task'[m][c].status = task[m][c].status /\ task'[m][c].parent = task[m][c].parent
        /\ task'[m][c].queue = task[m][c].queue /\ task'[m][c].group = task[m][c].group
    BY <1>2, <1>7 DEF Alike
  <2>2. /\ \A x : Owes(m, c, x)' <=> Owes(m, c, x)
        /\ Entering(m, c, {"entry"})' <=> Entering(m, c, {"entry"})
        /\ Entering(m, c, {"entry", "grow"})' <=> Entering(m, c, {"entry", "grow"})
    BY <1>1, <1>7
  <2>3. Open(m, c)' <=> Open(m, c)
    BY <2>1 DEF Open
  <2> QED BY <2>1, <2>2, <2>3 DEF Child, Member, Queued, Passed
<1> QED BY <1>2, <1>4, <1>5, <1>6, <1>7

LEMMA ArrivedChildren ==
  ASSUME Inv1, Inv2, ParentInv, ChildInv, NEW n, NEW t, NEW parent, NEW q, NEW g, NEW message,
         Arrives(n, t, parent, q, g, message)
  PROVE  ChildInv'
<1>1. /\ \A p \in Task : ~Child(n, t, p) /\ (Child(n, t, p)' <=> p = parent)
      /\ \A m \in Node, c \in Task : m # n \/ c # t =>
           \A p \in Task : Child(m, c, p)' <=> Child(m, c, p)
      /\ task'[n][t].childCount = 0
  BY ArrivedMarks
<1>2. /\ n \in Node /\ t \in Task /\ task[n][t].status = "NONE"
      /\ parent # t
      /\ \A m \in Node, u \in Task : m # n \/ u # t =>
           task'[m][u].childCount = IF m = n /\ u = parent THEN task[m][u].childCount + 1
                                    ELSE task[m][u].childCount
  BY NotNone DEF Arrives
<1>3. ASSUME NEW m \in Node, NEW p \in Task, m # n \/ p # parent
      PROVE  Children(m, p)' = Children(m, p)
  BY <1>1, <1>3 DEF Children
<1>4. ASSUME parent \in Task
      PROVE  Children(n, parent)' = Children(n, parent) \union {t} /\ t \notin Children(n, parent)
  BY <1>1, <1>2, <1>4 DEF Children
<1>5. \A m \in Node, p \in Task :
        IsFiniteSet(Children(m, p)) /\ task[m][p].childCount = Cardinality(Children(m, p))
  BY DEF ChildInv
<1> SUFFICES ASSUME NEW m \in Node, NEW p \in Task
    PROVE  IsFiniteSet(Children(m, p)') /\ task'[m][p].childCount = Cardinality(Children(m, p)')
  BY DEF ChildInv
<1>6. CASE m = n /\ p = t
  <2>1. Children(n, t) = {}
    <3>1. \A c \in Task : task[n][c].parent # t
      BY <1>2, NotNone DEF ParentInv
    <3> QED BY <3>1 DEF Children, Child
  <2>2. Children(n, t)' = {}
    BY <1>2, <1>3, <2>1
  <2> QED BY <1>1, <1>6, <2>2, FS_EmptySet
<1>7. CASE m = n /\ p = parent
  <2>1. Children(m, p)' = Children(m, p) \union {t} /\ t \notin Children(m, p)
    BY <1>4, <1>7
  <2>2. IsFiniteSet(Children(m, p)') /\ Cardinality(Children(m, p)') = Cardinality(Children(m, p)) + 1
    BY <1>5, <2>1, FS_AddElement
  <2>3. task'[m][p].childCount = task[m][p].childCount + 1
    BY <1>2, <1>7
  <2> QED BY <1>5, <2>2, <2>3
<1>8. CASE m # n \/ (p # t /\ p # parent)
  <2>1. Children(m, p)' = Children(m, p)
    BY <1>3, <1>8
  <2>2. task'[m][p].childCount = task[m][p].childCount
    BY <1>2, <1>8
  <2> QED BY <1>5, <2>1, <2>2
<1> QED BY <1>6, <1>7, <1>8

LEMMA ArrivedCounts ==
  ASSUME Inv1, Inv2, CountInv, NEW n, NEW t, NEW parent, NEW q, NEW g, NEW message,
         Arrives(n, t, parent, q, g, message)
  PROVE  CountInv'
<1>1. /\ \A h \in Group : ~Member(n, t, h) /\ ~Member(n, t, h)'
      /\ \A h \in Queue : ~Queued(n, t, h) /\ ~Queued(n, t, h)'
      /\ \A m \in Node, c \in Task : m # n \/ c # t =>
           /\ \A h \in Group : Member(m, c, h)' <=> Member(m, c, h)
           /\ \A h \in Queue : Queued(m, c, h)' <=> Queued(m, c, h)
           /\ Passed(m, c)' <=> Passed(m, c)
      /\ task'[n][t].status = "CREATED" /\ task'[n][t].parent = parent
      /\ \A m \in Node, u \in Task : m # n \/ u # t =>
           Alike(task'[m][u], task[m][u]) /\ task'[m][u].status = task[m][u].status
  BY ArrivedMarks
<1>2. /\ n \in Node /\ t \in Task /\ UNCHANGED <<queue, group>>
      /\ parent \in Task \union {None}
      /\ parent # None => parent # t /\ task[n][parent].status # "NONE"
  BY DEF Arrives
<1>3. ParentInv /\ ChildInv /\ MemberInv /\ QueueInv
  BY DEF CountInv
<1>4. ChildInv'
  BY <1>3, ArrivedChildren
<1>5. MemberInv'
  <2>1. \A m \in Node, c \in Task, h \in Group : Member(m, c, h)' <=> Member(m, c, h)
    BY <1>1
  <2> QED BY <1>2, <1>3, <2>1, MemberKept
<1>6. QueueInv'
  <2>1. \A m \in Node, c \in Task, h \in Queue : Queued(m, c, h)' <=> Queued(m, c, h)
    BY <1>1
  <2>2. \A m \in Node, c \in Task, h \in Queue :
          Queued(m, c, h) /\ Passed(m, c)' => Passed(m, c) \/ Head(queue[h]) = c
    BY <1>1
  <2> QED BY <1>2, <1>3, <2>1, <2>2, QueueKept
<1>7. ParentInv'
  <2> SUFFICES ASSUME NEW m \in Node, NEW u \in Task, task'[m][u].parent # None
               PROVE  task'[m][task'[m][u].parent].status # "NONE"
    BY DEF ParentInv
  <2>1. PICK p : p = task'[m][u].parent
    OBVIOUS
  <2>2. p \in Task /\ task[m][p].status # "NONE"
    <3>1. CASE m = n /\ u = t
      BY <1>1, <1>2, <2>1, <3>1
    <3>2. CASE m # n \/ u # t
      <4>1. p = task[m][u].parent
        BY <1>1, <2>1, <3>2 DEF Alike
      <4>2. task[m][u] \in TaskInfo
        BY DEF Inv1, Typed
      <4>3. p \in Task
        BY <2>1, <4>1, <4>2 DEF TaskInfo
      <4> QED BY <1>3, <2>1, <4>1, <4>3 DEF ParentInv
    <3> QED BY <3>1, <3>2
  <2>3. task'[m][p].status # "NONE"
    BY <1>1, <2>2
  <2> QED BY <2>1, <2>3
<1> QED BY <1>4, <1>5, <1>6, <1>7 DEF CountInv

LEMMA StartTaskInv3 ==
  ASSUME Inv1, Inv2, Inv3, NEW th \in Thread, StartTask(th), UNCHANGED remoteVars
  PROVE  Inv3'
<1>0. PICK n, t, parent, q, h : n = th[1] /\ t = On(th) /\ parent = current[th]
                                /\ q = prog.queue[t] /\ h = prog.group[t]
  OBVIOUS
<1>1. PICK g : Start(th, t, g)
  BY <1>0, StartTaskStep
<1>2. /\ stack[th] # <<>> /\ Top(th).at = "body" /\ t \in Task /\ Replaced(th, g)
      /\ g.at \in BeginPlace /\ g.task = Top(th).task /\ prog' = prog
      /\ Made(n, t, parent, q, h, FALSE)
      /\ q # None => g.at = "entry"
      /\ q = None /\ h # None => g.at = "grow"
  BY <1>0, <1>1 DEF Start
<1>3. n \in Node /\ \A m \in Node : task[m][t].status = "NONE" /\ ~Held(m, t)
  BY <1>0, <1>1, StartNew
<1>4. Top(th).at \in RunPlace /\ g.at \in RunPlace
  BY <1>2 DEF BeginPlace, RunPlace
<1>5. UNCHANGED <<queue, group, current>>
  BY DEF StartTask
<1>6. CurrentInv' /\ SeenInv'
  <2>1. PICK place \in {"entry", "grow", "list"} : Goto(th, place)
    BY DEF StartTask
  <2>2. place \in Place
    BY DEF Place
  <2>3. Replaced(th, Moved(th, place)) /\ Moved(th, place).seen = Top(th).seen
    BY <1>2, <2>1, <2>2, MovedFrame
  <2>4. g = Moved(th, place)
    BY <1>2, <2>3 DEF Replaced
  <2>5. g.seen \in Nat
    BY <1>2, <2>3, <2>4, SeenTop DEF Inv3
  <2> QED BY <1>2, <1>4, <1>5, <2>5, ReplacedFrames DEF Inv3
<1>7. \A m \in Node, u \in Task : \A x : Owes(m, u, x)' <=> Owes(m, u, x)
  BY <1>2, <1>4, WalkOwes DEF Inv2
<1>8. PICK L : L = Len(stack[th])
  OBVIOUS
<1>9. /\ \A uh \in Thread : DOMAIN stack'[uh] = DOMAIN stack[uh]
      /\ \A uh \in Thread : \A i \in DOMAIN stack[uh] :
           \/ stack'[uh][i] = stack[uh][i] /\ (uh # th \/ i # L)
           \/ uh = th /\ i = L /\ stack[uh][i] = Top(th) /\ stack'[uh][i] = g
      /\ \A uh \in Thread : \A i \in DOMAIN stack[uh] : \A m \in Node, u \in Task :
           Begins(uh, i, m, u)' <=>
             Begins(uh, i, m, u) \/ (uh = th /\ i = L /\ m = n /\ u = t)
      /\ L \in DOMAIN stack[th] /\ stack[th][L] = Top(th)
  BY <1>0, <1>1, <1>8, StartFrames DEF SameTasks
<1>10. \A m \in Node, u \in Task : ~Begins(th, L, m, u)
  BY <1>2, <1>9 DEF Begins, BeginPlace
<1>11. ASSUME NEW places
       PROVE  /\ \A m \in Node, u \in Task : m # n \/ u # t =>
                   (Entering(m, u, places)' <=> Entering(m, u, places))
              /\ g.at \in places => Entering(n, t, places)'
  <2>1. ASSUME NEW m \in Node, NEW u \in Task, m # n \/ u # t
        PROVE  Entering(m, u, places)' <=> Entering(m, u, places)
    BY <1>9, <1>10, <2>1 DEF Entering
  <2>2. ASSUME g.at \in places PROVE Entering(n, t, places)'
    <3>1. Begins(th, L, n, t)' /\ stack'[th][L] = g /\ L \in DOMAIN stack'[th]
      BY <1>2, <1>3, <1>9
    <3> QED BY <2>2, <3>1 DEF Entering
  <2> QED BY <2>1, <2>2
<1>12. parent # None => parent \in Task /\ parent # t /\ task[n][parent].status # "NONE"
  <2> SUFFICES ASSUME parent # None
               PROVE  parent \in Task /\ parent # t /\ task[n][parent].status # "NONE"
    OBVIOUS
  <2>1. PICK i \in DOMAIN stack[th] : stack[th][i].task = parent /\ stack[th][i].at \in RunPlace
    BY <1>0 DEF Inv3, CurrentInv
  <2>2. parent \in Task /\ task[n][parent].status = "RUNNING"
    BY <1>0, <2>1, ScriptRuns
  <2> QED BY <1>3, <2>2
<1>13. q \in Queue \union {None} /\ h \in Group \union {None}
  <2>1. prog \in Programs
    BY DEF Inv1, Typed
  <2> QED BY <1>0, <1>2, <2>1, ProgTyped
<1>14. \A m \in Node, u \in Task : m # n \/ u # t =>
         task'[m][u].childCount = IF m = n /\ u = parent THEN task[m][u].childCount + 1
                                  ELSE task[m][u].childCount
  <2>1. NewTask(n, t, parent, q, h, FALSE)
    BY <1>0 DEF StartTask
  <2>2. parent \in Task \union {None} /\ FALSE \in BOOLEAN
    BY <1>12
  <2>3. n \in Node /\ t \in Task /\ q \in Queue \union {None} /\ h \in Group \union {None}
    BY <1>2, <1>3, <1>13
  <2>4. /\ Made(n, t, parent, q, h, FALSE)
        /\ \A m \in Node, u \in Task : m # n \/ u # t =>
             task'[m][u].childCount = IF m = n /\ u = parent THEN task[m][u].childCount + 1
                                      ELSE task[m][u].childCount
    BY ONLY Inv1, <2>1, <2>2, <2>3, NewTaskMade, ZenonT(40)
  <2> QED BY ONLY <2>4
<1>15. Arrives(n, t, parent, q, h, FALSE)
  <2>1. \A x : ~Owes(n, t, x)
    BY <1>3 DEF Owes, Held
  <2>2. \A m \in Node, u \in Task : m # n \/ u # t =>
          /\ Entering(m, u, {"entry"})' <=> Entering(m, u, {"entry"})
          /\ Entering(m, u, {"entry", "grow"})' <=> Entering(m, u, {"entry", "grow"})
    BY <1>11
  <2>3. q # None => Entering(n, t, {"entry"})'
    <3>1. g.at \in {"entry"} => Entering(n, t, {"entry"})'
      BY <1>11
    <3> QED BY <1>2, <3>1
  <2>4. h # None => Entering(n, t, {"entry", "grow"})'
    <3>1. g.at \in {"entry", "grow"} => Entering(n, t, {"entry", "grow"})'
      BY <1>11
    <3> QED BY <1>2, <3>1
  <2>5. parent \in Task \union {None}
    BY <1>12
  <2> QED BY <1>2, <1>3, <1>5, <1>7, <1>12, <1>13, <1>14, <2>1, <2>2, <2>3, <2>4, <2>5 DEF Arrives
<1>16. CountInv'
  BY <1>15, ArrivedCounts DEF Inv3
<1> QED BY <1>6, <1>16 DEF Inv3

-----------------------------------------------------------------------------
(* Processer and listener.                                                 *)

LEMMA StillFrames ==
  ASSUME CurrentInv, SeenInv, UNCHANGED <<stack, current>>
  PROVE  CurrentInv' /\ SeenInv'
BY DEF CurrentInv, SeenInv

LEMMA QuietInv3 ==
  ASSUME Inv1, Inv3, UNCHANGED <<prog, stack, task, queue, group, current>>
  PROVE  Inv3'
<1>1. CurrentInv' /\ SeenInv'
  BY StillFrames DEF Inv3
<1>2. /\ \A n \in Node, t \in Task : \A x : Owes(n, t, x)' <=> Owes(n, t, x)
      /\ \A m \in Node, u \in Task :
           /\ Entering(m, u, {"entry"})' <=> Entering(m, u, {"entry"})
           /\ Entering(m, u, {"entry", "grow"})' <=> Entering(m, u, {"entry", "grow"})
  BY StillMarks
<1>3. CountInv'
  BY <1>2, StillCounts DEF Inv3
<1> QED BY <1>1, <1>3 DEF Inv3

LEMMA ReceiveRemoteTaskInv3 ==
  ASSUME Inv1, Inv2, Inv3, NEW n \in Node, ReceiveRemoteTask(n)
  PROVE  Inv3'
<1>0. PICK t : t = Subject(n)
  OBVIOUS
<1>1. /\ t \in Task /\ processer[n].at = "process" /\ processer[n].msg.type = "SERVE"
      /\ served[t] = "RECEIVE_REMOTE_TASK"
      /\ Made(n, t, None, None, None, TRUE)
      /\ \A m \in Node, u \in Task : m # n \/ u # t =>
           task'[m][u].childCount = task[m][u].childCount
  BY <1>0, ReceiveRemoteTaskStep
<1>2. UNCHANGED <<prog, queue, group, stack, current>>
  BY DEF ReceiveRemoteTask
<1>3. task[n][t].status = "NONE"
  BY <1>0, <1>1, TokenNow DEF About, Subject
<1>4. \A x : ~Owes(n, t, x)
  BY <1>1, <1>3, MadeSomewhere DEF Owes, Held
<1>5. CurrentInv' /\ SeenInv'
  BY <1>2, StillFrames DEF Inv3
<1>6. /\ \A m \in Node, u \in Task : \A x : Owes(m, u, x)' <=> Owes(m, u, x)
      /\ \A m \in Node, u \in Task :
           /\ Entering(m, u, {"entry"})' <=> Entering(m, u, {"entry"})
           /\ Entering(m, u, {"entry", "grow"})' <=> Entering(m, u, {"entry", "grow"})
  BY <1>2, StillMarks
<1>7. Arrives(n, t, None, None, None, TRUE)
  <2>1. \A m \in Node, u \in Task : m # n \/ u # t =>
          task'[m][u].childCount = IF m = n /\ u = None THEN task[m][u].childCount + 1
                                   ELSE task[m][u].childCount
    BY <1>1, NotNone
  <2> QED BY <1>1, <1>2, <1>3, <1>4, <1>6, <2>1 DEF Arrives
<1>8. CountInv'
  BY <1>7, ArrivedCounts DEF Inv3
<1> QED BY <1>5, <1>8 DEF Inv3

LEMMA CompleteRemoteTaskInv3 ==
  ASSUME Inv1, Inv2, Inv3, NEW n \in Node, CompleteRemoteTask(n)
  PROVE  Inv3'
<1>0. PICK t : t = Subject(n)
  OBVIOUS
<1>1. /\ t \in Task /\ processer[n].at = "process"
      /\ processer[n].msg.type = "COMPLETE_REMOTE_TASK" /\ Changed(n, t, "WAITING")
      /\ \A m \in Node, u \in Task : task'[m][u].childCount = task[m][u].childCount
  BY <1>0, CompleteRemoteTaskStep
<1>2. UNCHANGED <<prog, queue, group, stack, current>>
  BY DEF CompleteRemoteTask
<1>3. Sent(n, t)
  BY <1>0, <1>1, TokenNow DEF About, Subject
<1>4. task[n][t].status \in {"SCHEDULED", "CREATED"} /\ Passed(n, t)
  <2>1. CASE task[n][t].status = "SCHEDULED"
    BY <2>1 DEF Passed
  <2>2. CASE task[n][t].status # "SCHEDULED"
    <3>1. task[n][t].status = "CREATED"
      BY <1>3, <2>2 DEF Sent
    <3>2. PICK th \in Thread : \E i \in DOMAIN stack[th] :
            In(th, i, n, t) /\ stack[th][i].at = "schedule"
      BY <1>3, <2>2 DEF Sent
    <3>3. PICK i \in DOMAIN stack[th] : In(th, i, n, t) /\ stack[th][i].at = "schedule"
      BY <3>2
    <3>4. "remote" \in Tags(stack[th][i])
      BY <3>3 DEF Tags
    <3>5. Owes(n, t, "remote")
      BY <3>3, <3>4 DEF Owes
    <3> QED BY <3>1, <3>5 DEF Passed
  <2> QED BY <2>1, <2>2
<1>5. CurrentInv' /\ SeenInv'
  BY <1>2, StillFrames DEF Inv3
<1>6. /\ \A m \in Node, u \in Task : \A x : Owes(m, u, x)' <=> Owes(m, u, x)
      /\ \A m \in Node, u \in Task :
           /\ Entering(m, u, {"entry"})' <=> Entering(m, u, {"entry"})
           /\ Entering(m, u, {"entry", "grow"})' <=> Entering(m, u, {"entry", "grow"})
  BY <1>2, StillMarks
<1>7. \A m \in Node, u \in Task :
        /\ Alike(task'[m][u], task[m][u]) /\ (Open(m, u)' <=> Open(m, u))
        /\ task'[m][u].status = "NONE" <=> task[m][u].status = "NONE"
        /\ Passed(m, u)' => Passed(m, u)
  <2> SUFFICES ASSUME NEW m \in Node, NEW u \in Task
      PROVE  /\ Alike(task'[m][u], task[m][u]) /\ (Open(m, u)' <=> Open(m, u))
             /\ task'[m][u].status = "NONE" <=> task[m][u].status = "NONE"
             /\ Passed(m, u)' => Passed(m, u)
    OBVIOUS
  <2>1. CASE m = n /\ u = t
    BY <1>1, <1>4, <2>1 DEF Changed, Open
  <2>2. CASE m # n \/ u # t
    BY <1>1, <1>6, <2>2 DEF Changed, Open, Passed
  <2> QED BY <2>1, <2>2
<1>8. Signs(n, t, "none")
  BY <1>6, <1>7 DEF Signs, Counting
<1>9. \A m \in Node, c \in Task : \A q \in Queue :
        Queued(m, c, q) /\ Passed(m, c)' => Passed(m, c) \/ Head(queue[q]) = c
  BY <1>7
<1>10. ParentInv' /\ ChildInv' /\ MemberInv' /\ QueueInv'
  BY <1>1, <1>2, <1>8, <1>9, SignedKept DEF Inv3
<1> QED BY <1>5, <1>10 DEF Inv3, CountInv

LEMMA RemoteStepInv3 ==
  ASSUME Inv1, Inv2, Inv3, NEW n \in Node, ProcesserStep(n) \/ ListenerStep(n)
  PROVE  Inv3'
<1>1. CASE ReceiveRemoteTask(n)
  BY <1>1, ReceiveRemoteTaskInv3
<1>2. CASE CompleteRemoteTask(n)
  BY <1>2, CompleteRemoteTaskInv3
<1>3. CASE ~ReceiveRemoteTask(n) /\ ~CompleteRemoteTask(n)
  <2>1. UNCHANGED taskVars \/ UNCHANGED <<prog, stack, task, queue, group, current>>
    BY <1>3 DEF ProcesserStep, ListenerStep, PopMessage, SendAction, AddRemoteAction,
       StartRemoteTask, AwaitAck, ListReceived, SetAwaiting, SeeAwaiting, AwaitLocalTask,
       CompleteLocalTask
  <2>2. UNCHANGED <<prog, stack, task, queue, group, current>>
    BY <2>1 DEF taskVars
  <2> QED BY <2>2, QuietInv3
<1> QED BY <1>1, <1>2, <1>3

-----------------------------------------------------------------------------
(* The invariant.                                                          *)

LEMMA InitInv3 == Init => Inv3
<1> SUFFICES ASSUME Init PROVE Inv3
  OBVIOUS
<1>0. Inv1
  BY InitInv
<1>1. /\ task = [n \in Node |-> [t \in Task |-> NoTask]]
      /\ queue = [q \in Queue |-> <<>>]
      /\ group = [g \in Group |-> [num |-> 0, current |-> 0, result |-> None]]
      /\ stack = [th \in Thread |->
                    IF th[2] = "main" THEN <<Frame(None, "body")>> ELSE <<>>]
      /\ current = [th \in Thread |-> None]
  BY DEF Init, TasksInit
<1>2. \A n \in Node, t \in Task : task[n][t] = NoTask
  BY <1>1
<1>3. /\ \A n \in Node, t \in Task :
           /\ task[n][t].status = "NONE" /\ task[n][t].parent = None
           /\ task[n][t].queue = None /\ task[n][t].group = None /\ task[n][t].childCount = 0
  BY <1>2 DEF NoTask
<1>4. CurrentInv
  BY <1>1 DEF CurrentInv
<1>5. SeenInv
  <2> SUFFICES ASSUME NEW th \in Thread, NEW i \in DOMAIN stack[th]
               PROVE  stack[th][i].seen \in Nat
    BY DEF SeenInv
  <2>1. PICK f : f = Frame(None, "body")
    OBVIOUS
  <2>2. f.seen = 0
    BY <2>1 DEF Frame
  <2>3. stack[th] = <<f>> \/ stack[th] = <<>>
    BY <1>1, <2>1
  <2>4. stack[th][i] = f
    BY <2>3
  <2> QED BY <2>2, <2>4
<1>6. ParentInv
  BY <1>3 DEF ParentInv
<1>7. ChildInv
  <2>1. \A n \in Node, t \in Task : Children(n, t) = {}
    BY <1>3, NotNone DEF Children, Child
  <2> QED BY <1>3, <2>1, FS_EmptySet DEF ChildInv
<1>8. MemberInv
  <2>1. \A g \in Group : Counted(g) = {}
    <3>1. \A g \in Group : \A p \in Node \X Task : ~Member(p[1], p[2], g)
      BY <1>3, NotNone DEF Member
    <3> QED BY <3>1 DEF Counted
  <2>2. \A g \in Group : group[g].current = 0
    BY <1>1
  <2> QED BY <2>1, <2>2, FS_EmptySet DEF MemberInv
<1>9. QueueInv
  <2>1. \A q \in Queue : queue[q] = <<>>
    BY <1>1
  <2>2. queue \in [Queue -> Seq(Task)]
    BY <1>1
  <2>3. \A q \in Queue : \A n \in Node, t \in Task : ~Queued(n, t, q)
    BY <1>3, NotNone DEF Queued
  <2> QED BY <2>1, <2>2, <2>3 DEF QueueInv, Distinct
<1> QED BY <1>4, <1>5, <1>6, <1>7, <1>8, <1>9 DEF Inv3, CountInv

LEMMA TaskStepInv3 ==
  ASSUME Inv1, Inv2, Inv3, NEW th \in Thread, TaskStep(th), UNCHANGED remoteVars
  PROVE  Inv3'
<1>1. CASE \/ CreateAction(th) \/ StartTask(th) \/ EnterQueue(th) \/ GrowGroup(th)
           \/ CountInGroup(th) \/ ListTask(th) \/ WaitTask(th) \/ WaitGroupAll(th)
           \/ WaitGroupAny(th) \/ CompareGroup(th) \/ FetchResult(th)
  BY <1>1, CreateActionInv3, StartTaskInv3, EnterQueueInv3, GrowGroupInv3, CountInGroupInv3,
     ListTaskInv3, WaitTaskInv3, WaitGroupAllInv3, WaitGroupAnyInv3, CompareGroupInv3,
     FetchResultInv3
<1>2. CASE PopWaiting(th)
  <2>1. CASE taskList[th[1]] = <<>>
    BY <1>2, <2>1, PopIdleInv3 DEF PopIdle
  <2>2. CASE taskList[th[1]] # <<>>
    BY <1>2, <2>2, TakeInv3
  <2> QED BY <2>1, <2>2
<1>3. CASE PopWorker(th)
  BY <1>3, TakeInv3
<1>4. CASE \/ NotYet(th) \/ RunTask(th) \/ RunRemotely(th) \/ SetScheduled(th)
           \/ CheckScheduled(th)
  BY <1>4, ProcessInv3 DEF Handling1
<1>5. CASE \/ EndBody(th) \/ CheckWaiting(th) \/ Reinsert(th)
           \/ LeaveParent(th) \/ LeaveQueue(th) \/ LeaveGroup(th) \/ GroupResult(th)
  BY <1>5, EndBodyInv3, CheckWaitingInv3, ReinsertInv3, LeaveParentInv3, LeaveQueueInv3,
     LeaveGroupInv3, GroupResultInv3
<1> QED BY <1>1, <1>2, <1>3, <1>4, <1>5 DEF TaskStep

LEMMA StepInv3 == Inv1 /\ Inv2 /\ Inv3 /\ [Next]_vars => Inv3'
<1> SUFFICES ASSUME Inv1, Inv2, Inv3, [Next]_vars PROVE Inv3'
  OBVIOUS
<1>1. ASSUME NEW th \in Thread, ThreadStep(th) PROVE Inv3'
  BY <1>1, TaskStepInv3, AnnounceInv3, InsertStartInv3, MessageCompleteInv3 DEF ThreadStep
<1>2. ASSUME NEW n \in Node, ProcesserStep(n) \/ ListenerStep(n) PROVE Inv3'
  BY <1>2, RemoteStepInv3
<1>3. CASE UNCHANGED vars
  <2>1. UNCHANGED <<prog, stack, task, queue, group, current>>
    BY <1>3 DEF vars, taskVars
  <2> QED BY <2>1, QuietInv3
<1> QED BY <1>1, <1>2, <1>3 DEF Next

LEMMA Invariants == Spec => [](Inv1 /\ Inv2 /\ Inv3)
<1>1. Init => Inv1 /\ Inv2 /\ Inv3
  BY InitInv, InitInv3
<1>2. Inv1 /\ Inv2 /\ Inv3 /\ [Next]_vars => (Inv1 /\ Inv2 /\ Inv3)'
  BY StepInv, StepInv3
<1> QED BY <1>1, <1>2, PTL DEF Spec

-----------------------------------------------------------------------------
(* The counters, and the types.                                            *)

\* What is left of SetTaskComplete is what is owed.
LEMMA LeftOwes ==
  ASSUME Inv1, NEW n \in Node, NEW t \in Task, NEW stage \in {"parent", "group"}
  PROVE  Counts(n, t, stage) <=> Open(n, t) \/ Owes(n, t, stage)
<1>1. ASSUME NEW th \in Thread, th[1] = n, At(th, "complete"), Mine(th) = t,
             stage \in ToSet(stack[th][Len(stack[th])].stages)
      PROVE  Owes(n, t, stage)
  <2>1. stack[th] # <<>> /\ Top(th).at = "complete" /\ Top(th).task = t
    BY <1>1 DEF At, Mine
  <2>2. PICK i : i = Len(stack[th])
    OBVIOUS
  <2>3. i \in DOMAIN stack[th] /\ stack[th][i] = Top(th)
    BY <2>1, <2>2, TopOk
  <2>4. In(th, i, n, t) /\ stage \in Tags(stack[th][i])
    BY <1>1, <2>1, <2>2, <2>3 DEF In, Tags
  <2> QED BY <2>3, <2>4 DEF Owes
<1>2. ASSUME NEW th \in Thread, NEW i \in DOMAIN stack[th], In(th, i, n, t),
             stage \in Tags(stack[th][i])
      PROVE  /\ th[1] = n /\ At(th, "complete") /\ Mine(th) = t
             /\ stage \in ToSet(stack[th][Len(stack[th])].stages)
  <2>1. stack[th][i].at = "complete" /\ stage \in ToSet(stack[th][i].stages)
    BY <1>2 DEF Tags
  <2>2. stack[th] \in Seq(FrameType)
    BY DEF Inv1, Typed
  <2>3. stack[th] # <<>> /\ i \in 1..Len(stack[th])
    BY <2>2
  <2>4. Top(th) = stack[th][Len(stack[th])] /\ Len(stack[th]) \in Nat
    BY <2>3, TopOk
  <2>5. i = Len(stack[th])
    BY <2>1, <2>3, <2>4 DEF Inv1, Shape, StackOk
  <2> QED BY <1>2, <2>1, <2>3, <2>4, <2>5 DEF In, At, Mine
<1>3. stage \in Left(n, t) <=> Owes(n, t, stage)
  <2>1. stage \in Left(n, t) <=>
          \E th \in Thread : /\ th[1] = n /\ At(th, "complete") /\ Mine(th) = t
                             /\ stage \in ToSet(stack[th][Len(stack[th])].stages)
    BY DEF Left
  <2> QED BY <1>1, <1>2, <2>1 DEF Owes
<1> QED BY <1>3 DEF Counts, Open

LEMMA EnteringStarting ==
  ASSUME Inv1, NEW n \in Node, NEW t \in Task
  PROVE  Starting(n, t, {"entry", "grow"}) <=> Entering(n, t, {"entry", "grow"})
<1>1. ASSUME NEW th \in Thread, th[1] = n, stack[th] # <<>>,
             Top(th).at \in {"entry", "grow"}, On(th) = t
      PROVE  Entering(n, t, {"entry", "grow"})
  <2>1. /\ Len(stack[th]) \in DOMAIN stack[th] /\ Top(th) = stack[th][Len(stack[th])]
        /\ On(th) = OpOf(th, Top(th)).on
    BY <1>1, TopOk
  <2>2. Begins(th, Len(stack[th]), n, t)
    BY <1>1, <2>1 DEF Begins, BeginPlace
  <2> QED BY <1>1, <2>1, <2>2 DEF Entering
<1>2. ASSUME NEW th \in Thread, NEW i \in DOMAIN stack[th], Begins(th, i, n, t),
             stack[th][i].at \in {"entry", "grow"}
      PROVE  th[1] = n /\ stack[th] # <<>> /\ Top(th).at \in {"entry", "grow"} /\ On(th) = t
  <2>1. stack[th] \in Seq(FrameType)
    BY DEF Inv1, Typed
  <2>2. stack[th] # <<>> /\ i \in 1..Len(stack[th])
    BY <2>1
  <2>3. /\ Top(th) = stack[th][Len(stack[th])] /\ Len(stack[th]) \in Nat
        /\ On(th) = OpOf(th, Top(th)).on
    BY <2>2, TopOk
  <2>4. i = Len(stack[th])
    BY <1>2, <2>2, <2>3 DEF Inv1, Shape, StackOk
  <2> QED BY <1>2, <2>2, <2>3, <2>4 DEF Begins
<1> QED BY <1>1, <1>2 DEF Starting, Entering

LEMMA CountsExact == Inv1 /\ Inv3 => CountersExact
<1> SUFFICES ASSUME Inv1, Inv3 PROVE CountersExact
  OBVIOUS
<1>1. ASSUME NEW n \in Node, NEW t \in Task
      PROVE  task[n][t].childCount =
               Cardinality({c \in Task : task[n][c].parent = t /\ Counts(n, c, "parent")})
  <2>1. \A c \in Task : task[n][c].parent = t /\ Counts(n, c, "parent") <=> Child(n, c, t)
    BY LeftOwes DEF Child
  <2>2. {c \in Task : task[n][c].parent = t /\ Counts(n, c, "parent")} = Children(n, t)
    BY <2>1 DEF Children
  <2> QED BY <2>2 DEF Inv3, CountInv, ChildInv
<1>2. ASSUME NEW g \in Group
      PROVE  group[g].current =
               Cardinality({p \in Node \X Task :
                 /\ task[p[1]][p[2]].group = g /\ Counts(p[1], p[2], "group")
                 /\ ~Starting(p[1], p[2], {"entry", "grow"})})
  <2>1. \A m \in Node, c \in Task :
          (/\ task[m][c].group = g /\ Counts(m, c, "group")
           /\ ~Starting(m, c, {"entry", "grow"})) <=> Member(m, c, g)
    BY LeftOwes, EnteringStarting DEF Member
  <2>2. \A p \in Node \X Task :
          (/\ task[p[1]][p[2]].group = g /\ Counts(p[1], p[2], "group")
           /\ ~Starting(p[1], p[2], {"entry", "grow"})) <=> Member(p[1], p[2], g)
    BY <2>1
  <2>3. {p \in Node \X Task :
           /\ task[p[1]][p[2]].group = g /\ Counts(p[1], p[2], "group")
           /\ ~Starting(p[1], p[2], {"entry", "grow"})} = Counted(g)
    BY <2>2 DEF Counted
  <2> QED BY <2>3 DEF Inv3, CountInv, MemberInv
<1> QED BY <1>1, <1>2 DEF CountersExact

\* childCount and currentNumOfTask, by which ProcessTask and waitForGroupAll
\* decide, are exact in every state, whatever the number of nodes, workers,
\* tasks, groups and queues (startTask, enqueueTask, SetTaskComplete).
THEOREM CountersAreExact == Spec => []CountersExact
BY Invariants, CountsExact, PTL

LEMMA TypesHold == Inv1 /\ Inv3 => TypeOK
<1> SUFFICES ASSUME Inv1, Inv3 PROVE TypeOK
  OBVIOUS
<1>1. Typed /\ SeenInv /\ ChildInv /\ MemberInv /\ QueueInv
  BY DEF Inv1, Inv3, CountInv
<1>2. ASSUME NEW n \in Node, NEW t \in Task
      PROVE  task[n][t] \in
       [status : {"NONE", "CREATED", "RUNNING", "WAITING", "SCHEDULED", "COMPLETED"},
        type : {None, "LOCAL", "REMOTE"}, parent : Task \union {None},
        childCount : Nat, queue : Queue \union {None}, group : Group \union {None},
        message : BOOLEAN]
  <2>1. task[n][t] \in TaskInfo
    BY <1>1 DEF Typed
  <2>2. task[n][t].childCount \in Nat
    BY <1>1, FS_CardinalityType DEF ChildInv
  <2> QED BY <2>1, <2>2 DEF TaskInfo
<1>3. group \in [Group -> [num : Nat, current : Nat, result : Task \union {None}]]
  <2>1. group \in [Group -> [num : Nat, current : Int, result : Task \union {None}]]
    BY <1>1 DEF Typed
  <2>2. \A g \in Group : group[g].current \in Nat
    BY <1>1, FS_CardinalityType DEF MemberInv
  <2>3. \A g \in Group : group[g] \in [num : Nat, current : Nat, result : Task \union {None}]
    BY <2>1, <2>2
  <2> QED BY <2>1, <2>3
<1>4. ASSUME NEW th \in Thread
      PROVE  stack[th] \in Seq([task : Task \union {None}, at : Place, ip : Nat \ {0},
                                stages : Seq(Stage), seen : Nat])
  <2>1. stack[th] \in Seq(FrameType)
    BY <1>1 DEF Typed
  <2>2. ASSUME NEW i \in DOMAIN stack[th]
        PROVE  stack[th][i] \in [task : Task \union {None}, at : Place, ip : Nat \ {0},
                                 stages : Seq(Stage), seen : Nat]
    <3>1. stack[th][i] \in FrameType
      BY <2>1
    <3>2. stack[th][i].seen \in Nat
      BY <1>1 DEF SeenInv
    <3> QED BY <3>1, <3>2 DEF FrameType
  <2>3. PICK S : S = [task : Task \union {None}, at : Place, ip : Nat \ {0},
                      stages : Seq(Stage), seen : Nat]
    OBVIOUS
  <2>4. PICK s, T : s = stack[th] /\ T = FrameType
    OBVIOUS
  <2>5. s \in Seq(T) /\ \A i \in DOMAIN s : s[i] \in S
    BY <2>1, <2>2, <2>3, <2>4
  <2>6. s \in Seq(S)
    BY <2>5
  <2> QED BY <2>3, <2>4, <2>6
<1>5. queue \in [Queue -> Seq(Task)]
  BY <1>1 DEF QueueInv
<1>6. /\ prog \in Programs
      /\ action \in [Node -> [Job -> {None, "LOCAL", "REMOTE"}]]
      /\ taskList \in [Node -> Seq(Task)]
      /\ current \in [Thread -> Task \union {None}]
      /\ filled \subseteq Node \X Task
      /\ awaited \subseteq Task
      /\ messages \in [Node -> Seq(Message)]
      /\ served \in [Task -> {"RECEIVE_REMOTE_TASK", "AWAIT_LOCAL_TASK", "COMPLETE_LOCAL_TASK"}]
      /\ acks \in [Node -> Nat]
  BY <1>1 DEF Typed
<1> QED BY <1>2, <1>3, <1>4, <1>5, <1>6 DEF TypeOK

\* The variables have their types in every reachable state; in particular no
\* counter of children or of group members is ever below zero.
THEOREM TypesAreOk == Spec => []TypeOK
BY Invariants, TypesHold, PTL

-----------------------------------------------------------------------------
(* What becomes of a task.                                                 *)

Stays(n, t) == Changed(n, t, task[n][t].status)

Runs(n, t) ==
  /\ Changed(n, t, "RUNNING")
  /\ task[n][t].status = "CREATED" /\ task[n][t].type = "LOCAL" /\ Held(n, t) /\ MayRun(n, t)

Schedules(n, t) ==
  /\ Changed(n, t, "SCHEDULED")
  /\ task[n][t].status \in {"CREATED", "WAITING"} /\ task[n][t].type = "REMOTE" /\ Held(n, t)

EndsBody(n, t) ==
  /\ Changed(n, t, "WAITING")
  /\ task[n][t].status = "RUNNING" /\ filled' = filled \union {<<n, t>>}

Completes(n, t) ==
  /\ Changed(n, t, "COMPLETED")
  /\ task[n][t].status \in {"RUNNING", "WAITING"} /\ task[n][t].childCount = 0
  /\ task[n][t].status = "RUNNING" => filled' = filled \union {<<n, t>>}

Answers(n, t) ==
  /\ Changed(n, t, "WAITING")
  /\ Sent(n, t) /\ task[n][t].status \in {"CREATED", "SCHEDULED"}
  /\ filled' = filled \union {<<n, t>>}
  /\ processer[n].at = "process" /\ processer[n].msg.type = "COMPLETE_REMOTE_TASK"
  /\ processer[n].msg.on = t

Life(n, t) ==
  \/ Stays(n, t) \/ Runs(n, t) \/ Schedules(n, t)
  \/ EndsBody(n, t) \/ Completes(n, t) \/ Answers(n, t)

\* A new task; the one that starts it runs.
Born(n, t, parent, message) ==
  /\ \E q, g : Made(n, t, parent, q, g, message)
  /\ task[n][t].status = "NONE"
  /\ parent # None => parent \in Task /\ task[n][parent].status = "RUNNING"

Lives ==
  \/ task' = task
  \/ \E n \in Node, t \in Task : Life(n, t)

Evolves ==
  \/ Lives
  \/ \E n \in Node, t \in Task, message \in BOOLEAN :
       \E parent : Born(n, t, parent, message)

LEMMA SomeLife ==
  ASSUME NEW n \in Node, NEW t \in Task, Life(n, t)
  PROVE  Lives
BY DEF Lives

\* The steps of a thread in ProcessTask.
LEMMA ProcessLife ==
  ASSUME Inv1, Inv2, NEW th \in Thread, Handling1(th)
  PROVE  Lives /\ filled' = filled
<1>1. HeldInv
  BY DEF Inv2
<1>2. ASSUME NEW status \in {"CREATED", "WAITING", "SCHEDULED"}, Processing(th, status)
      PROVE  /\ Mine(th) \in Task /\ th[1] \in Node /\ Held(th[1], Mine(th))
             /\ task[th[1]][Mine(th)].status = status
  <2>1. At(th, "process")
    BY <1>2 DEF Processing
  <2>2. stack[th] # <<>> /\ Top(th).at = "process" /\ Top(th).task # None
    BY <2>1, TaskTop DEF RunPlace
  <2> QED BY <1>1, <1>2, <2>2, HeldTop, TopHeld DEF Processing
<1>3. CASE NotYet(th) \/ RunRemotely(th) \/ CheckScheduled(th)
  BY <1>3 DEF NotYet, RunRemotely, CheckScheduled, Lives
<1>6. CASE RunTask(th)
  <2>1. /\ Processing(th, "CREATED") /\ MayRun(th[1], Mine(th)) /\ filled' = filled
        /\ task' = [task EXCEPT ![th[1]][Mine(th)].status = "RUNNING"]
        /\ task[th[1]][Mine(th)].type = "LOCAL"
    BY <1>6 DEF RunTask
  <2>2. Changed(th[1], Mine(th), "RUNNING")
    BY <1>2, <2>1, StatusSet
  <2>3. Life(th[1], Mine(th))
    BY <1>2, <2>1, <2>2 DEF Life, Runs
  <2> QED BY <1>2, <2>1, <2>3, SomeLife
<1>7. CASE SetScheduled(th)
  <2>1. /\ At(th, "schedule") /\ filled' = filled
        /\ task' = [task EXCEPT ![th[1]][Mine(th)].status = "SCHEDULED"]
    BY <1>7 DEF SetScheduled
  <2>2. stack[th] # <<>> /\ Top(th).at = "schedule" /\ Top(th).task # None
    BY <2>1, TaskTop DEF RunPlace
  <2>3. /\ Mine(th) = Top(th).task /\ Mine(th) \in Task /\ th[1] \in Node
        /\ task[th[1]][Mine(th)].status \in {"CREATED", "WAITING"}
        /\ task[th[1]][Mine(th)].type = "REMOTE"
    BY <1>1, <2>2, HeldTop DEF StatusAt
  <2>4. Changed(th[1], Mine(th), "SCHEDULED")
    BY <2>1, <2>3, StatusSet
  <2>5. Held(th[1], Mine(th))
    BY <2>2, <2>3, TopHeld
  <2>6. Life(th[1], Mine(th))
    BY <2>3, <2>4, <2>5 DEF Life, Schedules
  <2> QED BY <2>1, <2>3, <2>6, SomeLife
<1> QED BY <1>3, <1>6, <1>7 DEF Handling1

LEMMA EndBodyLife ==
  ASSUME Inv1, Inv2, NEW th \in Thread, EndBody(th), UNCHANGED remoteVars
  PROVE  Lives /\ filled' = filled \union {<<th[1], Mine(th)>>}
<1>0. PICK n, t : n = th[1] /\ t = Mine(th)
  OBVIOUS
<1>1. stack[th] # <<>> /\ Top(th).at = "body" /\ Top(th).task # None
  BY DEF EndBody, At, Mine
<1>2. /\ t \in Task /\ n \in Node /\ t = Top(th).task /\ task[n][t].status = "RUNNING"
  BY <1>0, <1>1, HeldTop DEF StatusAt, RunPlace, Inv2
<1>3. UNCHANGED <<prog, action, taskList, messages, net, processer>>
      /\ filled' = filled \union {<<n, t>>}
  BY <1>0 DEF EndBody, remoteVars
<1>4. Life(n, t)
  <2>1. CASE task[n][t].childCount = 0
    <3>1. SetComplete(th)
      BY <1>0, <2>1 DEF EndBody
    <3>2. Changed(n, t, "COMPLETED")
      BY <1>0, <1>1, <1>2, <1>3, <3>1, SetCompleteOk DEF Inv2, BeginPlace
    <3> QED BY <1>2, <1>3, <2>1, <3>2 DEF Life, Completes
  <2>2. CASE task[n][t].childCount # 0
    <3>1. task' = [task EXCEPT ![n][t].status = "WAITING"]
      BY <1>0, <2>2 DEF EndBody
    <3>2. Changed(n, t, "WAITING")
      BY <1>2, <3>1, StatusSet
    <3> QED BY <1>2, <1>3, <3>2 DEF Life, EndsBody
  <2> QED BY <2>1, <2>2
<1> QED BY <1>0, <1>2, <1>3, <1>4, SomeLife

LEMMA CheckWaitingLife ==
  ASSUME Inv1, Inv2, NEW th \in Thread, CheckWaiting(th), UNCHANGED remoteVars
  PROVE  Lives /\ filled' = filled
<1>0. PICK n, t : n = th[1] /\ t = Mine(th)
  OBVIOUS
<1>1. stack[th] # <<>> /\ Top(th).at = "process" /\ Top(th).task # None
  BY TaskTop DEF CheckWaiting, Processing, RunPlace
<1>2. /\ t \in Task /\ n \in Node /\ t = Top(th).task /\ task[n][t].status = "WAITING"
  BY <1>0, <1>1, HeldTop DEF CheckWaiting, Processing, Inv2
<1>3. UNCHANGED <<prog, action, taskList, messages, net, processer, filled>>
  BY DEF CheckWaiting, remoteVars
<1>5. CASE task[n][t].childCount = 0
  <2>1. SetComplete(th)
    BY <1>0, <1>5 DEF CheckWaiting
  <2>2. Changed(n, t, "COMPLETED")
    BY <1>0, <1>1, <1>2, <1>3, <2>1, SetCompleteOk DEF Inv2, BeginPlace
  <2>3. Life(n, t)
    BY <1>2, <1>5, <2>2 DEF Life, Completes
  <2> QED BY <1>2, <1>3, <2>3, SomeLife
<1>6. CASE task[n][t].childCount # 0
  BY <1>0, <1>3, <1>6 DEF CheckWaiting, Lives
<1> QED BY <1>5, <1>6

LEMMA LeaveParentLife ==
  ASSUME Inv1, Inv2, NEW th \in Thread, LeaveParent(th)
  PROVE  Lives /\ filled' = filled
<1>0. PICK n, t, p : n = th[1] /\ t = Mine(th) /\ p = task[n][t].parent
  OBVIOUS
<1>1. Completing(th, "parent")
  BY DEF LeaveParent
<1>2. /\ stack[th] # <<>> /\ Top(th).task # None /\ Top(th).at = "complete"
      /\ "parent" \in ToSet(Top(th).stages)
  <2>1. stack[th] # <<>> /\ Top(th).task # None /\ Top(th).at = "complete"
    BY <1>1, TaskTop DEF Completing, RunPlace
  <2> QED BY <1>1, <2>1, TopOk DEF Completing, ToSet, GoodFrame, FrameType
<1>3. t \in Task /\ n \in Node /\ task[n][t] \in TaskInfo
  BY <1>0, <1>2, HeldTop DEF Inv2
<1>4. p \in Task
  <2>1. StagesFit(Top(th).stages, task[n][t])
    BY <1>0, <1>2, TopOk, HeldTop DEF StagesInv, Inv2
  <2> QED BY <1>0, <1>2, <1>3, <2>1 DEF StagesFit, TaskInfo
<1>5. task' = [task EXCEPT ![n][p].childCount = @ - 1]
  BY <1>0 DEF LeaveParent
<1>6. Changed(n, t, task[n][t].status)
  <2> DEFINE rec == [task[n][p] EXCEPT !.childCount = @ - 1]
  <2>1. task \in [Node -> [Task -> TaskInfo]]
    BY DEF Inv1, Typed
  <2>2. task[n][p] \in TaskInfo
    BY <1>3, <1>4, <2>1
  <2>3. task[n][p].childCount - 1 \in Int
    BY <2>2 DEF TaskInfo
  <2>4. rec \in TaskInfo /\ Alike(rec, task[n][p]) /\ rec.status = task[n][p].status
    BY <2>2, <2>3 DEF TaskInfo, Alike
  <2>5. task' = [task EXCEPT ![n] = [task[n] EXCEPT ![p] = rec]]
    BY <1>5, <2>1
  <2> HIDE DEF rec
  <2>6. /\ task' \in [Node -> [Task -> TaskInfo]] /\ task'[n][p] = rec
        /\ \A m \in Node, u \in Task : m # n \/ u # p => task'[m][u] = task[m][u]
    BY <1>3, <1>4, <2>1, <2>4, <2>5
  <2> QED BY <1>3, <1>4, <2>4, <2>6 DEF Changed, Alike
<1>7. Life(n, t)
  BY <1>6 DEF Life, Stays
<1> QED BY <1>3, <1>7, SomeLife DEF LeaveParent

LEMMA StartTaskBorn ==
  ASSUME Inv1, Inv2, Inv3, NEW th \in Thread, StartTask(th), UNCHANGED remoteVars
  PROVE  Born(th[1], On(th), current[th], FALSE) /\ On(th) \in Task /\ th[1] \in Node
<1>0. PICK n, t, parent : n = th[1] /\ t = On(th) /\ parent = current[th]
  OBVIOUS
<1>1. PICK g : Start(th, t, g)
  BY <1>0, StartTaskStep
<1>2. n \in Node /\ t \in Task /\ task[n][t].status = "NONE"
  BY <1>0, <1>1, StartNew
<1>3. Made(n, t, parent, prog.queue[t], prog.group[t], FALSE)
  BY <1>0, <1>1 DEF Start
<1>4. parent # None => parent \in Task /\ task[n][parent].status = "RUNNING"
  <2> SUFFICES ASSUME parent # None
               PROVE  parent \in Task /\ task[n][parent].status = "RUNNING"
    OBVIOUS
  <2>1. PICK i \in DOMAIN stack[th] : stack[th][i].task = parent /\ stack[th][i].at \in RunPlace
    BY <1>0 DEF Inv3, CurrentInv
  <2> QED BY <1>0, <2>1, ScriptRuns
<1> QED BY <1>0, <1>2, <1>3, <1>4 DEF Born

LEMMA ReceiveBorn ==
  ASSUME Inv1, Inv2, NEW n \in Node, ReceiveRemoteTask(n)
  PROVE  Born(n, Subject(n), None, TRUE) /\ Subject(n) \in Task /\ filled' = filled
<1>0. PICK t : t = Subject(n)
  OBVIOUS
<1>1. /\ t \in Task /\ processer[n].at = "process" /\ processer[n].msg.type = "SERVE"
      /\ served[t] = "RECEIVE_REMOTE_TASK"
      /\ Made(n, t, None, None, None, TRUE)
  BY <1>0, ReceiveRemoteTaskStep
<1>2. task[n][t].status = "NONE"
  BY <1>0, <1>1, TokenNow DEF About, Subject
<1> QED BY <1>0, <1>1, <1>2 DEF Born, ReceiveRemoteTask

LEMMA AnswerLife ==
  ASSUME Inv1, Inv2, NEW n \in Node, CompleteRemoteTask(n)
  PROVE  Answers(n, Subject(n)) /\ Subject(n) \in Task
<1>0. PICK t : t = Subject(n)
  OBVIOUS
<1>1. /\ t \in Task /\ processer[n].at = "process"
      /\ processer[n].msg.type = "COMPLETE_REMOTE_TASK" /\ Changed(n, t, "WAITING")
  BY <1>0, CompleteRemoteTaskStep
<1>2. Sent(n, t)
  BY <1>0, <1>1, TokenNow DEF About, Subject
<1>3. task[n][t].status \in {"SCHEDULED", "CREATED"}
  BY <1>2 DEF Sent
<1>4. filled' = filled \union {<<n, t>>}
  BY <1>0 DEF CompleteRemoteTask
<1> QED BY <1>0, <1>1, <1>2, <1>3, <1>4 DEF Answers, Subject

LEMMA TaskStepEvolves ==
  ASSUME Inv1, Inv2, Inv3, NEW th \in Thread, TaskStep(th), UNCHANGED remoteVars
  PROVE  Evolves /\ filled \subseteq filled' /\ prog' = prog
<1>1. CASE \/ CreateAction(th) \/ EnterQueue(th) \/ GrowGroup(th)
           \/ CountInGroup(th) \/ ListTask(th) \/ WaitTask(th) \/ WaitGroupAll(th)
           \/ WaitGroupAny(th) \/ CompareGroup(th) \/ FetchResult(th)
  BY <1>1 DEF CreateAction, EnterQueue, GrowGroup, CountInGroup, ListTask, WaitTask,
     WaitGroupAll, WaitGroupAny, CompareGroup, FetchResult, Evolves, Lives
<1>2. CASE \/ PopWaiting(th) \/ PopWorker(th) \/ Reinsert(th)
           \/ LeaveQueue(th) \/ LeaveGroup(th) \/ GroupResult(th)
  BY <1>2 DEF PopWaiting, PopWorker, Reinsert, LeaveQueue, LeaveGroup, GroupResult, Evolves, Lives
<1>3. CASE StartTask(th)
  <2>1. Born(th[1], On(th), current[th], FALSE) /\ On(th) \in Task /\ th[1] \in Node
    BY <1>3, StartTaskBorn
  <2>2. FALSE \in BOOLEAN
    OBVIOUS
  <2>3. Evolves
    BY <2>1, <2>2 DEF Evolves, Lives
  <2> QED BY <1>3, <2>3 DEF StartTask
<1>4. CASE \/ NotYet(th) \/ RunTask(th) \/ RunRemotely(th) \/ SetScheduled(th)
           \/ CheckScheduled(th)
  <2>1. Evolves /\ filled' = filled
    BY <1>4, ProcessLife DEF Handling1, Evolves
  <2> QED BY <1>4, <2>1 DEF NotYet, RunTask, RunRemotely, SetScheduled, CheckScheduled
<1>5. CASE EndBody(th)
  <2>1. Evolves /\ filled \subseteq filled'
    BY <1>5, EndBodyLife DEF Evolves
  <2>2. prog' = prog
    BY <1>5 DEF EndBody
  <2> QED BY <2>1, <2>2
<1>6. CASE CheckWaiting(th)
  BY <1>6, CheckWaitingLife DEF CheckWaiting, Evolves
<1>7. CASE LeaveParent(th)
  BY <1>7, LeaveParentLife DEF LeaveParent, Evolves
<1> QED BY <1>1, <1>2, <1>3, <1>4, <1>5, <1>6, <1>7 DEF TaskStep

LEMMA StepEvolves ==
  ASSUME Inv1, Inv2, Inv3, [Next]_vars
  PROVE  Evolves /\ filled \subseteq filled' /\ prog' = prog
<1>1. ASSUME NEW th \in Thread, ThreadStep(th)
      PROVE  Evolves /\ filled \subseteq filled' /\ prog' = prog
  <2>1. CASE TaskStep(th) /\ UNCHANGED remoteVars
    BY <2>1, TaskStepEvolves
  <2>2. CASE Announce(th) \/ InsertStart(th) \/ MessageComplete(th)
    BY <2>2 DEF Announce, InsertStart, MessageComplete, Evolves, Lives
  <2> QED BY <1>1, <2>1, <2>2 DEF ThreadStep
<1>2. ASSUME NEW n \in Node, ProcesserStep(n) \/ ListenerStep(n)
      PROVE  Evolves /\ filled \subseteq filled' /\ prog' = prog
  <2>1. CASE ReceiveRemoteTask(n)
    <3>1. Born(n, Subject(n), None, TRUE) /\ Subject(n) \in Task /\ filled' = filled
      BY <2>1, ReceiveBorn
    <3>2. TRUE \in BOOLEAN
      OBVIOUS
    <3>3. Evolves
      BY <3>1, <3>2 DEF Evolves, Lives
    <3> QED BY <2>1, <3>1, <3>3 DEF ReceiveRemoteTask
  <2>2. CASE CompleteRemoteTask(n)
    <3>1. Answers(n, Subject(n)) /\ Subject(n) \in Task
      BY <2>2, AnswerLife
    <3>2. Evolves
      BY <3>1, SomeLife DEF Life, Evolves
    <3> QED BY <2>2, <3>2 DEF CompleteRemoteTask
  <2>3. CASE ~ReceiveRemoteTask(n) /\ ~CompleteRemoteTask(n)
    <3>1. UNCHANGED taskVars \/ UNCHANGED <<prog, task, filled>>
      BY <1>2, <2>3 DEF ProcesserStep, ListenerStep, PopMessage, SendAction, AddRemoteAction,
         StartRemoteTask, AwaitAck, ListReceived, SetAwaiting, SeeAwaiting, AwaitLocalTask,
         CompleteLocalTask
    <3>2. UNCHANGED <<prog, task, filled>>
      BY <3>1 DEF taskVars
    <3> QED BY <3>2 DEF Evolves, Lives
  <2> QED BY <2>1, <2>2, <2>3
<1>3. CASE UNCHANGED vars
  <2>1. UNCHANGED <<prog, task, filled>>
    BY <1>3 DEF vars, taskVars
  <2> QED BY <2>1 DEF Evolves, Lives
<1> QED BY <1>1, <1>2, <1>3 DEF Next

\* What a step does not take back.
Lasting ==
  /\ \A n \in Node, t \in Task : task[n][t].status # "NONE" =>
       task'[n][t].status # "NONE" /\ Alike(task'[n][t], task[n][t])
  /\ \A n \in Node, t \in Task :
       /\ task[n][t].status = "COMPLETED" => task'[n][t].status = "COMPLETED"
       /\ task'[n][t].status = "CREATED" => task[n][t].status \in {"CREATED", "NONE"}

LEMMA EvolvesLasts == Inv1 /\ Evolves => Lasting
<1> SUFFICES ASSUME Inv1, Evolves PROVE Lasting
  OBVIOUS
<1>1. CASE task' = task
  BY <1>1 DEF Lasting, Alike
<1>2. ASSUME NEW n \in Node, NEW t \in Task, Life(n, t) PROVE Lasting
  <2>2. PICK status : Changed(n, t, status)
    BY <1>2 DEF Life, Stays, Runs, Schedules, EndsBody, Completes, Answers
  <2>3. /\ task[n][t].status # "NONE" => task'[n][t].status # "NONE"
        /\ task[n][t].status = "COMPLETED" => task'[n][t].status = "COMPLETED"
        /\ task'[n][t].status = "CREATED" => task[n][t].status = "CREATED"
    BY <1>2 DEF Life, Stays, Runs, Schedules, EndsBody, Completes, Answers, Changed
  <2> QED BY <2>2, <2>3 DEF Lasting, Changed
<1>3. ASSUME NEW n \in Node, NEW t \in Task, NEW message \in BOOLEAN, NEW parent,
             Born(n, t, parent, message)
      PROVE  Lasting
  BY <1>3 DEF Born, Made, Lasting
<1> QED BY <1>1, <1>2, <1>3 DEF Evolves, Lives

-----------------------------------------------------------------------------
(* Results, children, answers.                                             *)

FilledInv ==
  \A n \in Node, t \in Task : task[n][t].status \in {"WAITING", "COMPLETED"} => <<n, t>> \in filled

\* The children of a complete task are complete.
DoneInv ==
  \A n \in Node, t, c \in Task :
    task[n][t].status = "COMPLETED" /\ task[n][c].parent = t => task[n][c].status = "COMPLETED"

LEMMA FilledKept ==
  ASSUME Inv1, FilledInv, Evolves, filled \subseteq filled'
  PROVE  FilledInv'
<1>1. CASE task' = task
  BY <1>1 DEF FilledInv
<1>2. ASSUME NEW n \in Node, NEW t \in Task, Life(n, t) PROVE FilledInv'
  <2>1. \A m \in Node, u \in Task : m # n \/ u # t => task'[m][u].status = task[m][u].status
    BY <1>2 DEF Life, Stays, Runs, Schedules, EndsBody, Completes, Answers, Changed
  <2>2. task'[n][t].status \in {"WAITING", "COMPLETED"} => <<n, t>> \in filled'
    BY <1>2 DEF Life, Stays, Runs, Schedules, EndsBody, Completes, Answers, Changed, FilledInv
  <2> QED BY <2>1, <2>2 DEF FilledInv
<1>3. ASSUME NEW n \in Node, NEW t \in Task, NEW message \in BOOLEAN, NEW parent,
             Born(n, t, parent, message)
      PROVE  FilledInv'
  <2>1. /\ task'[n][t].status = "CREATED"
        /\ \A m \in Node, u \in Task : m # n \/ u # t => task'[m][u].status = task[m][u].status
    BY <1>3 DEF Born, Made
  <2> QED BY <2>1 DEF FilledInv
<1> QED BY <1>1, <1>2, <1>3 DEF Evolves, Lives

\* A task whose counter is 0 has no open children.
LEMMA NoChildren ==
  ASSUME Inv1, Inv2, Inv3, NEW n \in Node, NEW t \in Task, task[n][t].childCount = 0,
         NEW c \in Task, task[n][c].parent = t
  PROVE  task[n][c].status = "COMPLETED"
<1>1. Children(n, t) = {}
  BY FS_EmptySet DEF Inv3, CountInv, ChildInv
<1>2. ~Open(n, c)
  BY <1>1 DEF Children, Child
<1>3. task[n][c].status # "NONE"
  BY NotNone DEF Inv2, RecordInv
<1> QED BY <1>2, <1>3 DEF Open

LEMMA DoneKept ==
  ASSUME Inv1, Inv2, Inv3, DoneInv, Evolves
  PROVE  DoneInv'
<1>0. Lasting
  BY EvolvesLasts
<1> SUFFICES ASSUME NEW k \in Node, NEW u \in Task, NEW c \in Task,
                    task'[k][u].status = "COMPLETED", task'[k][c].parent = u
             PROVE  task'[k][c].status = "COMPLETED"
  BY DEF DoneInv
<1>1. CASE task' = task
  BY <1>1 DEF DoneInv
<1>2. ASSUME NEW n \in Node, NEW t \in Task, Life(n, t)
      PROVE  task'[k][c].status = "COMPLETED"
  <2>1. task[k][c].parent = u
    BY <1>2 DEF Life, Stays, Runs, Schedules, EndsBody, Completes, Answers, Changed, Alike
  <2>2. CASE task[k][u].status = "COMPLETED"
    BY <1>0, <2>1, <2>2 DEF DoneInv, Lasting
  <2>3. CASE task[k][u].status # "COMPLETED"
    <3>1. k = n /\ u = t /\ task[n][t].childCount = 0
      BY <1>2, <2>3 DEF Life, Stays, Runs, Schedules, EndsBody, Completes, Answers, Changed
    <3>2. task[k][c].status = "COMPLETED"
      BY <2>1, <3>1, NoChildren
    <3> QED BY <1>0, <3>2 DEF Lasting
  <2> QED BY <2>2, <2>3
<1>3. ASSUME NEW n \in Node, NEW t \in Task, NEW message \in BOOLEAN, NEW parent,
             Born(n, t, parent, message)
      PROVE  task'[k][c].status = "COMPLETED"
  <2>1. /\ task'[n][t].status = "CREATED" /\ task'[n][t].parent = parent
        /\ \A m \in Node, v \in Task : m # n \/ v # t =>
             task'[m][v].status = task[m][v].status /\ task'[m][v].parent = task[m][v].parent
    BY <1>3 DEF Born, Made, Alike
  <2>2. task[n][t].status = "NONE" /\ (parent # None => task[n][parent].status = "RUNNING")
    BY <1>3 DEF Born
  <2>3. u # None
    BY NotNone
  <2>4. task[k][u].status = "COMPLETED"
    BY <2>1
  <2>5. k # n \/ c # t
    BY <2>1, <2>2, <2>3, <2>4
  <2> QED BY <2>1, <2>4, <2>5 DEF DoneInv
<1> QED BY <1>1, <1>2, <1>3 DEF Evolves, Lives

-----------------------------------------------------------------------------
(* What the script of a frame has started.                                 *)

\* A frame has come to operation p of its script.
Past(f, p) == p < f.ip \/ (p = f.ip /\ f.at \in BeginPlace)

\* What a script has come to is started; the script of a task begins at its start.
Told(th, f) ==
  /\ f.task # None /\ task[th[1]][f.task].status = "CREATED" => f.ip = 1
  /\ f.at \in RunPlace =>
       \A t \in Task : \A p \in DOMAIN ScriptOf(th, f) :
         Past(f, p) /\ StartsAt(ScriptOf(th, f), p, t) => StartedOn(th[1], t)

StartedInv == \A th \in Thread : \A i \in DOMAIN stack[th] : Told(th, stack[th][i])

\* A task that enters its queue was started by a task that runs below it.
Below(th, f) ==
  f.at = "entry" /\ task[th[1]][OpOf(th, f).on].parent # None =>
    \E k \in DOMAIN stack[th] : /\ stack[th][k].task = task[th[1]][OpOf(th, f).on].parent
                                /\ stack[th][k].at \in RunPlace

EntryInv == \A th \in Thread : \A i \in DOMAIN stack[th] : Below(th, stack[th][i])

\* A thread goes on in a script, but does not come to the start of a task.
Strolls(th, g) ==
  /\ stack[th] # <<>> /\ Top(th).at \in RunPlace /\ Replaced(th, g)
  /\ g.task = Top(th).task /\ g.at \in RunPlace \ {"entry"}
  /\ \/ g.ip = Top(th).ip /\ (g.at \in BeginPlace <=> Top(th).at \in BeginPlace)
     \/ /\ g.ip = Top(th).ip + 1 /\ g.at = "body"
        /\ Top(th).at \in BeginPlace \/ OpOf(th, Top(th)).do # "start"
  /\ UNCHANGED <<prog, task>>

LEMMA StrollTo ==
  ASSUME Inv1, NEW th \in Thread, stack[th] # <<>>, Top(th).at \in RunPlace,
         NEW place \in RunPlace \ {"entry"}, Goto(th, place),
         place \in BeginPlace <=> Top(th).at \in BeginPlace, UNCHANGED <<prog, task>>
  PROVE  \E g : Strolls(th, g)
<1>1. place \in Place
  BY DEF RunPlace, Place
<1>2. PICK g : g = Moved(th, place)
  OBVIOUS
<1>3. Replaced(th, g) /\ g.task = Top(th).task /\ g.at = place /\ g.ip = Top(th).ip
  BY <1>1, <1>2, MovedFrame, MovedOp
<1> QED BY <1>3 DEF Strolls

LEMMA StrollOn ==
  ASSUME Inv1, NEW th \in Thread, stack[th] # <<>>, Top(th).at \in RunPlace,
         NextOp(th), Top(th).at \in BeginPlace \/ OpOf(th, Top(th)).do # "start",
         UNCHANGED <<prog, task>>
  PROVE  \E g : Strolls(th, g)
<1>1. Top(th) \in FrameType
  BY TopOk
<1>2. PICK g : g = Advanced(th)
  OBVIOUS
<1>3. g.ip = Top(th).ip + 1
  BY <1>1, <1>2 DEF Advanced, FrameType
<1>4. Replaced(th, g) /\ g.task = Top(th).task /\ g.at = "body"
  BY <1>2, AdvancedFrame
<1> QED BY <1>3, <1>4 DEF Strolls, RunPlace

LEMMA WaitsStroll ==
  ASSUME Inv1, NEW th \in Thread,
         CreateAction(th) \/ WaitTask(th) \/ WaitGroupAll(th) \/ WaitGroupAny(th)
  PROVE  \E g : Strolls(th, g)
<1>1. /\ stack[th] # <<>> /\ Top(th).at = "body" /\ OpOf(th, Top(th)).do # "start"
      /\ On(th) \in Job \/ On(th) \in Task \/ On(th) \in Group
  BY DoingOk DEF CreateAction, WaitTask, WaitGroupAll, WaitGroupAny
<1>2. Top(th).at \in RunPlace /\ Top(th).at \notin BeginPlace
  BY <1>1 DEF RunPlace, BeginPlace
<1>3. UNCHANGED <<prog, task>>
  BY DEF CreateAction, WaitTask, WaitGroupAll, WaitGroupAny
<1>4. CASE NextOp(th)
  BY <1>1, <1>2, <1>3, <1>4, StrollOn
<1>5. CASE Goto(th, "announce") \/ Goto(th, "pop")
  <2>1. PICK place \in RunPlace \ {"entry"} : Goto(th, place) /\ place \notin BeginPlace
    BY <1>5 DEF RunPlace, BeginPlace
  <2> QED BY <1>1, <1>2, <1>3, <2>1, StrollTo
<1>6. CASE WaitGroupAny(th)
  <2>0. On(th) \in Group
    BY <1>6, DoingOk DEF WaitGroupAny
  <2>1. PICK k : k = group[On(th)].current
    OBVIOUS
  <2>2. k \in Int /\ Top(th) \in FrameType
    BY <1>1, <2>0, <2>1, TopOk DEF Inv1, Typed
  <2>3. PICK g : g = [Top(th) EXCEPT !.at = "compare", !.seen = k]
    OBVIOUS
  <2>4. g \in FrameType /\ g.task = Top(th).task /\ g.at = "compare" /\ g.ip = Top(th).ip
    BY <2>2, <2>3 DEF FrameType, Place
  <2>5. SetTop(th, g)
    BY <1>6, <2>1, <2>3 DEF WaitGroupAny
  <2>6. Replaced(th, g)
    BY <1>1, <2>4, <2>5, ReplaceTop
  <2> QED BY <1>1, <1>2, <1>3, <2>4, <2>6 DEF Strolls, RunPlace, BeginPlace
<1> QED BY <1>4, <1>5, <1>6 DEF CreateAction, WaitTask, WaitGroupAll

LEMMA CallsStroll ==
  ASSUME Inv1, NEW th \in Thread,
         \/ EnterQueue(th) \/ GrowGroup(th) \/ CountInGroup(th) \/ ListTask(th)
         \/ CompareGroup(th) \/ FetchResult(th) \/ PopIdle(th) \/ Announce(th)
  PROVE  \E g : Strolls(th, g)
<1>1. UNCHANGED <<prog, task>>
  BY DEF EnterQueue, GrowGroup, CountInGroup, ListTask, CompareGroup, FetchResult, PopIdle,
     PopWaiting, Announce
<1>2. CASE EnterQueue(th) \/ GrowGroup(th) \/ CountInGroup(th)
  <2>1. stack[th] # <<>> /\ Top(th).at \in BeginPlace
    BY <1>2 DEF EnterQueue, GrowGroup, CountInGroup, At, BeginPlace
  <2>2. PICK place \in BeginPlace \ {"entry"} : Goto(th, place)
    BY <1>2 DEF EnterQueue, GrowGroup, CountInGroup, BeginPlace
  <2>3. Top(th).at \in RunPlace /\ place \in RunPlace
    BY <2>1, <2>2 DEF RunPlace, BeginPlace
  <2> QED BY <1>1, <2>1, <2>2, <2>3, StrollTo
<1>3. CASE ListTask(th)
  <2>1. stack[th] # <<>> /\ Top(th).at \in BeginPlace /\ Top(th).at \in RunPlace /\ NextOp(th)
    BY <1>3 DEF ListTask, At, BeginPlace, RunPlace
  <2> QED BY <1>1, <2>1, StrollOn
<1>4. CASE FetchResult(th) \/ Announce(th)
  <2>1. /\ stack[th] # <<>> /\ Top(th).at \in {"fetch", "announce"} /\ NextOp(th)
    BY <1>4 DEF FetchResult, Announce, At
  <2>2. OpOk(th, Top(th))
    BY <2>1, TopOk DEF GoodFrame
  <2>3. OpOf(th, Top(th)).do # "start" /\ Top(th).at \in RunPlace
    BY <2>1, <2>2 DEF OpOk, RunPlace
  <2> QED BY <1>1, <2>1, <2>3, StrollOn
<1>5. CASE CompareGroup(th) \/ PopIdle(th)
  <2>1. stack[th] # <<>> /\ Top(th).at \in {"compare", "pop"}
    BY <1>5 DEF CompareGroup, PopIdle, PopWaiting, At
  <2>2. PICK place \in {"fetch", "pop", "body"} : Goto(th, place)
    BY <1>5 DEF CompareGroup, PopIdle, PopWaiting, Goto
  <2>3. /\ Top(th).at \in RunPlace /\ Top(th).at \notin BeginPlace
        /\ place \in RunPlace \ {"entry"} /\ place \notin BeginPlace
    BY <2>1, <2>2 DEF RunPlace, BeginPlace
  <2> QED BY <1>1, <2>1, <2>2, <2>3, StrollTo
<1> QED BY <1>2, <1>3, <1>4, <1>5

\* What a step does to the stack of a thread.
Serves(th) == \E status : Gone(th, status) \/ \E g : Turn(th, g, status)

LEMMA ThreadMoves ==
  ASSUME Inv1, Inv2, NEW th \in Thread, ThreadStep(th)
  PROVE  \/ \E g : Strolls(th, g)
         \/ StartTask(th) /\ \E g : Start(th, On(th), g)
         \/ Serves(th)
         \/ \E g : Take(th, g)
<1>0. HeldInv /\ RecordInv /\ ActionInv /\ StagesInv
  BY DEF Inv2
<1>1. CASE Announce(th)
  BY <1>1, CallsStroll
<1>2. CASE InsertStart(th)
  <2>1. Send(th)
    BY <1>0, <1>2, InsertStartStep
  <2> QED BY <2>1 DEF Send, Serves
<1>3. CASE MessageComplete(th)
  <2>1. Handled(th)
    BY <1>0, <1>3, MessageCompleteStep
  <2> QED BY <2>1 DEF Handled, Serves
<1>4. ASSUME TaskStep(th), UNCHANGED remoteVars
      PROVE  \/ \E g : Strolls(th, g)
             \/ StartTask(th) /\ \E g : Start(th, On(th), g)
             \/ Serves(th)
             \/ \E g : Take(th, g)
  <2>1. CASE CreateAction(th) \/ WaitTask(th) \/ WaitGroupAll(th) \/ WaitGroupAny(th)
    BY <2>1, WaitsStroll
  <2>2. CASE \/ EnterQueue(th) \/ GrowGroup(th) \/ CountInGroup(th) \/ ListTask(th)
             \/ CompareGroup(th) \/ FetchResult(th)
    BY <2>2, CallsStroll
  <2>3. CASE StartTask(th)
    BY <1>4, <2>3, StartTaskStep
  <2>4. CASE PopWaiting(th) \/ PopWorker(th)
    <3>1. CASE PopWaiting(th) /\ taskList[th[1]] = <<>>
      BY <3>1, CallsStroll DEF PopIdle
    <3>2. CASE (PopWaiting(th) /\ taskList[th[1]] # <<>>) \/ PopWorker(th)
      BY <1>4, <3>2, TakeStep
    <3> QED BY <2>4, <3>1, <3>2
  <2>5. CASE NotYet(th) \/ RunTask(th) \/ RunRemotely(th) \/ SetScheduled(th) \/ CheckScheduled(th)
    <3>1. Handled(th)
      BY <1>0, <1>4, <2>5, ProcessStep DEF Handling1
    <3> QED BY <3>1 DEF Handled, Serves
  <2>6. CASE \/ EndBody(th) \/ CheckWaiting(th) \/ Reinsert(th)
             \/ LeaveParent(th) \/ LeaveQueue(th) \/ LeaveGroup(th) \/ GroupResult(th)
    <3>1. Handled(th)
      BY <1>0, <1>4, <2>6, EndBodyStep, CheckWaitingStep, ReinsertStep, LeaveParentStep,
         LeaveQueueStep, LeaveGroupStep, GroupResultStep
    <3> QED BY <3>1 DEF Handled, Serves
  <2> QED BY <1>4, <2>1, <2>2, <2>3, <2>4, <2>5, <2>6 DEF TaskStep
<1> QED BY <1>1, <1>2, <1>3, <1>4 DEF ThreadStep

\* The steps of other threads leave the stacks alone.
LEMMA StacksStay ==
  ASSUME NEW n \in Node, ProcesserStep(n) \/ ListenerStep(n)
  PROVE  stack' = stack
<1>1. UNCHANGED taskVars \/ stack' = stack
  BY DEF ProcesserStep, ListenerStep, PopMessage, SendAction, AddRemoteAction,
     StartRemoteTask, AwaitAck, ListReceived, SetAwaiting, SeeAwaiting, AwaitLocalTask,
     CompleteLocalTask, ReceiveRemoteTask, CompleteRemoteTask
<1> QED BY <1>1 DEF taskVars

\* The task of a frame is known.
LEMMA FrameTask ==
  ASSUME Inv1, Inv2, NEW th \in Thread, NEW i \in DOMAIN stack[th], stack[th][i].task # None
  PROVE  /\ th[1] \in Node /\ stack[th][i].task \in Task
         /\ task[th[1]][stack[th][i].task].status # "NONE"
         /\ stack[th][i].at \in RunPlace => task[th[1]][stack[th][i].task].status = "RUNNING"
<1>1. stack[th][i] \in FrameType /\ th[1] \in Node
  BY ThreadOk DEF Inv1, Typed
<1>2. StatusAt(stack[th][i].at, task[th[1]][stack[th][i].task].status,
               task[th[1]][stack[th][i].task].type)
  BY DEF HeldInv, Inv2
<1>3. stack[th][i].at \in Place
  BY <1>1 DEF FrameType
<1> QED BY <1>1, <1>2, <1>3 DEF StatusAt, FrameType, Place, RunPlace

\* What stays told of a frame.
LEMMA ToldKept ==
  ASSUME Lasting, prog' = prog, NEW th \in Thread, NEW f, Told(th, f),
         th[1] \in Node,
         f.task # None => f.task \in Task /\ task[th[1]][f.task].status # "NONE"
  PROVE  Told(th, f)'
<1>1. f.task # None /\ task'[th[1]][f.task].status = "CREATED" => f.ip = 1
  <2> SUFFICES ASSUME f.task # None, task'[th[1]][f.task].status = "CREATED" PROVE f.ip = 1
    OBVIOUS
  <2>1. task[th[1]][f.task].status \in {"CREATED", "NONE"}
    BY DEF Lasting
  <2> QED BY <2>1 DEF Told
<1>2. ScriptOf(th, f)' = ScriptOf(th, f)
  BY DEF ScriptOf
<1>3. \A t \in Task : StartedOn(th[1], t) => StartedOn(th[1], t)'
  BY DEF Lasting, StartedOn, Alike
<1> QED BY <1>1, <1>2, <1>3 DEF Told, Past

LEMMA StrollTold ==
  ASSUME Inv1, Inv2, Lasting, NEW th \in Thread, NEW g, Strolls(th, g), Told(th, Top(th))
  PROVE  Told(th, g)'
<1>0. PICK f : f = Top(th)
  OBVIOUS
<1>1. /\ stack[th] # <<>> /\ f.at \in RunPlace
      /\ g.task = f.task /\ g.at \in RunPlace \ {"entry"}
      /\ \/ g.ip = f.ip /\ (g.at \in BeginPlace <=> f.at \in BeginPlace)
         \/ /\ g.ip = f.ip + 1 /\ g.at = "body"
            /\ f.at \in BeginPlace \/ OpOf(th, f).do # "start"
      /\ UNCHANGED <<prog, task>>
  BY <1>0 DEF Strolls
<1>2. Len(stack[th]) \in DOMAIN stack[th] /\ stack[th][Len(stack[th])] = f /\ f \in FrameType
  BY <1>0, <1>1, TopOk
<1>3. f.task # None => task[th[1]][f.task].status = "RUNNING"
  BY <1>1, <1>2, FrameTask
<1>4. ScriptOf(th, g)' = ScriptOf(th, f) /\ ScriptOf(th, f) \in Seq(Op)
  <2>1. f.task \in Task \union {None} /\ prog \in Programs
    BY <1>2 DEF FrameType, Inv1, Typed
  <2> QED BY <1>1, <2>1, ScriptTyped DEF ScriptOf
<1>5. ASSUME NEW t \in Task, NEW p \in DOMAIN ScriptOf(th, f), Past(g, p),
             StartsAt(ScriptOf(th, f), p, t)
      PROVE  StartedOn(th[1], t)
  <2>1. p \in Nat /\ f.ip \in Nat
    BY <1>2, <1>4 DEF FrameType
  <2>2. p = f.ip => OpOf(th, f).do = "start"
    BY <1>5 DEF OpOf, StartsAt
  <2>3. Past(f, p)
    BY <1>1, <1>5, <2>1, <2>2 DEF Past, BeginPlace
  <2> QED BY <1>0, <1>1, <1>5, <2>3 DEF Told
<1>6. \A t \in Task : StartedOn(th[1], t) => StartedOn(th[1], t)'
  BY <1>1 DEF StartedOn
<1>7. g.task # None => task'[th[1]][g.task].status # "CREATED"
  BY <1>1, <1>3
<1> QED BY <1>4, <1>5, <1>6, <1>7 DEF Told, Past

LEMMA StartTold ==
  ASSUME Inv1, Inv2, Lasting, NEW th \in Thread, NEW t, NEW g, Start(th, t, g), Told(th, Top(th))
  PROVE  Told(th, g)'
<1>0. PICK f : f = Top(th)
  OBVIOUS
<1>1. /\ stack[th] # <<>> /\ f.at = "body" /\ t \in Task /\ g.at \in BeginPlace
      /\ g.task = f.task /\ g.ip = f.ip /\ prog' = prog
      /\ StartsAt(ScriptOf(th, f), f.ip, t)
      /\ Made(th[1], t, current[th], prog.queue[t], prog.group[t], FALSE)
  BY <1>0 DEF Start
<1>2. Len(stack[th]) \in DOMAIN stack[th] /\ stack[th][Len(stack[th])] = f /\ f \in FrameType
  BY <1>0, <1>1, TopOk
<1>3. /\ th[1] \in Node
      /\ f.task # None => f.task \in Task /\ task[th[1]][f.task].status = "RUNNING"
  BY <1>1, <1>2, FrameTask, ThreadOk DEF RunPlace
<1>4. ScriptOf(th, g)' = ScriptOf(th, f)
  BY <1>1 DEF ScriptOf
<1>5. g.task # None => task'[th[1]][g.task].status # "CREATED"
  BY <1>1, <1>3 DEF Lasting
<1>6. \A u \in Task : StartedOn(th[1], u) => StartedOn(th[1], u)'
  BY <1>3 DEF Lasting, StartedOn, Alike
<1>7. StartedOn(th[1], t)'
  BY <1>1 DEF Made, StartedOn
<1>8. ASSUME NEW u \in Task, NEW p \in DOMAIN ScriptOf(th, f), Past(g, p),
             StartsAt(ScriptOf(th, f), p, u)
      PROVE  StartedOn(th[1], u)'
  <2>1. CASE p = f.ip
    BY <1>1, <1>7, <1>8, <2>1 DEF StartsAt
  <2>2. CASE p # f.ip
    <3>1. Past(f, p) /\ f.at \in RunPlace
      BY <1>1, <1>8, <2>2 DEF Past, RunPlace
    <3>2. StartedOn(th[1], u)
      BY <1>0, <1>8, <3>1 DEF Told
    <3> QED BY <1>6, <3>2
  <2> QED BY <2>1, <2>2
<1> QED BY <1>4, <1>5, <1>8 DEF Told, Past

LEMMA TurnTold ==
  ASSUME Inv1, Inv2, NEW th \in Thread, NEW g, NEW status, Turn(th, g, status),
         Told(th, Top(th))
  PROVE  Told(th, g)'
<1>0. PICK f, rec : f = Top(th) /\ rec = task[th[1]][f.task]
  OBVIOUS
<1>1. /\ stack[th] # <<>> /\ f.task # None /\ g.task = f.task /\ g.ip = f.ip
      /\ g.at \notin BeginPlace /\ task'[th[1]][f.task].status = status
      /\ status = "CREATED" => rec.status = "CREATED"
      /\ g.at \in RunPlace => f.at = "process" /\ rec.status = "CREATED"
      /\ prog' = prog
  BY <1>0 DEF Turn, Changed
<1>2. rec.status = "CREATED" => f.ip = 1
  BY <1>0, <1>1 DEF Told
<1>3. Top(th) \in FrameType
  BY <1>1, TopOk
<1>4. ScriptOf(th, g)' \in Seq(Op)
  <2>1. ScriptOf(th, f) \in Seq(Op)
    BY <1>0, <1>3, ScriptTyped DEF FrameType, Inv1, Typed
  <2> QED BY <1>1, <2>1 DEF ScriptOf
<1>5. g.at \in RunPlace => \A p \in DOMAIN ScriptOf(th, g)' : ~Past(g, p)
  BY <1>1, <1>2, <1>4 DEF Past
<1> QED BY <1>1, <1>2, <1>5 DEF Told, Past

\* The frames a step leaves alone.
LEMMA StillTold ==
  ASSUME Inv1, Inv2, StartedInv, Lasting, prog' = prog,
         NEW uh \in Thread, NEW i \in DOMAIN stack[uh], NEW f, f = stack[uh][i]
  PROVE  Told(uh, f)'
<1>1. Told(uh, f)
  BY DEF StartedInv
<1> QED BY <1>1, FrameTask, ThreadOk, ToldKept

LEMMA ReplacedTold ==
  ASSUME Inv1, Inv2, StartedInv, Lasting, prog' = prog, NEW th \in Thread, stack[th] # <<>>,
         NEW g, Replaced(th, g), Told(th, g)'
  PROVE  StartedInv'
<1> SUFFICES ASSUME NEW uh \in Thread, NEW i \in DOMAIN stack'[uh], NEW f, f = stack'[uh][i]
             PROVE  Told(uh, f)'
  BY DEF StartedInv
<1>1. /\ stack'[th][Len(stack[th])] = g
      /\ \A vh \in Thread : DOMAIN stack'[vh] = DOMAIN stack[vh]
      /\ \A vh \in Thread : \A k \in DOMAIN stack[vh] :
           vh # th \/ k # Len(stack[th]) => stack'[vh][k] = stack[vh][k]
  BY FramesReplaced
<1>2. CASE uh = th /\ i = Len(stack[th])
  BY <1>1, <1>2
<1>3. CASE uh # th \/ i # Len(stack[th])
  <2>1. i \in DOMAIN stack[uh] /\ f = stack[uh][i]
    BY <1>1, <1>3
  <2> QED BY <2>1, StillTold
<1> QED BY <1>2, <1>3

LEMMA StartedMoves ==
  ASSUME Inv1, Inv2, StartedInv, Lasting, prog' = prog, NEW th \in Thread,
         \/ \E g : Strolls(th, g)
         \/ \E g : Start(th, On(th), g)
         \/ Serves(th)
         \/ \E g : Take(th, g)
  PROVE  StartedInv'
<1>1. stack[th] # <<>> => Told(th, Top(th))
  BY TopOk DEF StartedInv
<1>2. ASSUME NEW g, Strolls(th, g) PROVE StartedInv'
  <2>1. stack[th] # <<>> /\ Replaced(th, g)
    BY <1>2 DEF Strolls
  <2>2. Told(th, g)'
    BY <1>1, <1>2, <2>1, StrollTold
  <2> QED BY <2>1, <2>2, ReplacedTold
<1>3. ASSUME NEW t, NEW g, Start(th, t, g) PROVE StartedInv'
  <2>1. stack[th] # <<>> /\ Replaced(th, g)
    BY <1>3 DEF Start
  <2>2. Told(th, g)'
    BY <1>1, <1>3, <2>1, StartTold
  <2> QED BY <2>1, <2>2, ReplacedTold
<1>4. ASSUME NEW g, NEW status, Turn(th, g, status) PROVE StartedInv'
  <2>1. stack[th] # <<>> /\ Replaced(th, g)
    BY <1>4 DEF Turn
  <2>2. Told(th, g)'
    BY <1>1, <1>4, <2>1, TurnTold
  <2> QED BY <2>1, <2>2, ReplacedTold
<1>5. ASSUME NEW status, Gone(th, status) PROVE StartedInv'
  <2> SUFFICES ASSUME NEW uh \in Thread, NEW i \in DOMAIN stack'[uh], NEW f, f = stack'[uh][i]
               PROVE  Told(uh, f)'
    BY DEF StartedInv
  <2>1. stack[th] # <<>> /\ Removed(th)
    BY <1>5 DEF Gone
  <2>2. i \in DOMAIN stack[uh] /\ f = stack[uh][i]
    BY <2>1, FramesRemoved
  <2> QED BY <2>2, StillTold
<1>6. ASSUME NEW g, Take(th, g) PROVE StartedInv'
  <2> SUFFICES ASSUME NEW uh \in Thread, NEW i \in DOMAIN stack'[uh], NEW f, f = stack'[uh][i]
               PROVE  Told(uh, f)'
    BY DEF StartedInv
  <2>1. /\ Added(th, g) /\ g.at = "process" /\ g.ip = 1
        /\ stack[th] # <<>> => Top(th).at = "pop"
    BY <1>6 DEF Take
  <2>2. /\ stack'[th][Len(stack[th]) + 1] = g
        /\ DOMAIN stack'[th] = DOMAIN stack[th] \union {Len(stack[th]) + 1}
        /\ \A vh \in Thread : vh # th => stack'[vh] = stack[vh]
        /\ \A k \in DOMAIN stack[th] :
             \/ stack'[th][k] = stack[th][k]
             \/ /\ stack[th][k].at = "pop" /\ stack'[th][k].at = "body"
                /\ stack'[th][k].task = stack[th][k].task /\ stack'[th][k].ip = stack[th][k].ip
    BY <2>1, FramesAdded
  <2>3. CASE uh = th /\ i = Len(stack[th]) + 1
    BY <2>1, <2>2, <2>3 DEF Told, RunPlace
  <2>4. CASE i \in DOMAIN stack[uh] /\ f = stack[uh][i]
    BY <2>4, StillTold
  <2>5. CASE uh = th /\ i \in DOMAIN stack[th] /\ f # stack[th][i]
    <3>1. PICK h : h = stack[th][i]
      OBVIOUS
    <3>2. h.at = "pop" /\ f.at = "body" /\ f.task = h.task /\ f.ip = h.ip
      BY <2>2, <2>5, <3>1
    <3>3. Told(th, h)'
      BY <2>5, <3>1, StillTold
    <3>4. ScriptOf(th, f)' = ScriptOf(th, h)'
      BY <3>2 DEF ScriptOf
    <3>5. \A p : Past(f, p) <=> Past(h, p)
      BY <3>2 DEF Past, BeginPlace
    <3>6. h.at \in RunPlace /\ f.at \in RunPlace
      BY <3>2 DEF RunPlace
    <3> QED BY <2>5, <3>2, <3>3, <3>4, <3>5, <3>6 DEF Told, Past
  <2> QED BY <2>2, <2>3, <2>4, <2>5
<1> QED BY <1>2, <1>3, <1>4, <1>5, <1>6 DEF Serves

LEMMA StartedKept ==
  ASSUME Inv1, Inv2, Inv3, StartedInv, [Next]_vars
  PROVE  StartedInv'
<1>1. Lasting /\ prog' = prog
  BY StepEvolves, EvolvesLasts
<1>2. ASSUME NEW th \in Thread, ThreadStep(th) PROVE StartedInv'
  BY <1>1, <1>2, ThreadMoves, StartedMoves
<1>3. CASE stack' = stack
  <2> SUFFICES ASSUME NEW uh \in Thread, NEW i \in DOMAIN stack'[uh], NEW f, f = stack'[uh][i]
               PROVE  Told(uh, f)'
    BY DEF StartedInv
  <2> QED BY <1>1, <1>3, StillTold
<1>4. ASSUME NEW n \in Node, ProcesserStep(n) \/ ListenerStep(n) PROVE StartedInv'
  BY <1>3, <1>4, StacksStay
<1>5. CASE UNCHANGED vars
  BY <1>3, <1>5 DEF vars, taskVars
<1> QED BY <1>2, <1>4, <1>5 DEF Next

\* The frames below the one on top are at no start of a task.
LEMMA OnlyTop ==
  ASSUME Inv1, NEW th \in Thread, NEW i \in DOMAIN stack[th], stack[th][i].at # "body"
  PROVE  stack[th] # <<>> /\ i = Len(stack[th]) /\ stack[th][i] = Top(th)
<1>1. stack[th] \in Seq(FrameType) /\ StackOk(th)
  BY DEF Inv1, Typed, Shape
<1>2. stack[th] # <<>> /\ ~(i < Len(stack[th])) /\ i \in 1..Len(stack[th])
  BY <1>1 DEF StackOk
<1>3. i = Len(stack[th])
  BY <1>1, <1>2
<1> QED BY <1>2, <1>3, TopOk

LEMMA EntryMoves ==
  ASSUME Inv1, Inv2, Inv3, EntryInv, prog' = prog, NEW th \in Thread,
         \/ \E g : Strolls(th, g)
         \/ \E g : Start(th, On(th), g)
         \/ Serves(th)
         \/ \E g : Take(th, g),
         NEW i \in DOMAIN stack'[th], NEW f, f = stack'[th][i], f.at = "entry"
  PROVE  Below(th, f)'
<1> DEFINE L == Len(stack[th])
<1>1. ASSUME NEW g, stack[th] # <<>>, Replaced(th, g), g.at # "entry" PROVE FALSE
  <2>1. /\ stack'[th][L] = g /\ DOMAIN stack'[th] = DOMAIN stack[th]
        /\ \A k \in DOMAIN stack[th] : k # L => stack'[th][k] = stack[th][k]
    BY <1>1, FramesReplaced
  <2>2. i # L
    BY <1>1, <2>1
  <2> QED BY <2>1, <2>2, OnlyTop
<1>2. ASSUME NEW g, Strolls(th, g) PROVE FALSE
  BY <1>1, <1>2 DEF Strolls
<1>3. ASSUME NEW g, NEW status, Turn(th, g, status) PROVE FALSE
  BY <1>1, <1>3 DEF Turn, BeginPlace
<1>4. ASSUME NEW status, Gone(th, status) PROVE FALSE
  <2>1. stack[th] # <<>> /\ Removed(th)
    BY <1>4 DEF Gone
  <2>2. i \in DOMAIN stack[th] /\ stack'[th][i] = stack[th][i] /\ i # L
    BY <2>1, FramesRemoved
  <2> QED BY <2>2, OnlyTop
<1>5. ASSUME NEW g, Take(th, g) PROVE FALSE
  <2>1. /\ Added(th, g) /\ g.at = "process"
        /\ stack[th] # <<>> => Top(th).at = "pop"
    BY <1>5 DEF Take
  <2>2. /\ stack'[th][L + 1] = g
        /\ DOMAIN stack'[th] = DOMAIN stack[th] \union {L + 1}
        /\ \A k \in DOMAIN stack[th] :
             \/ stack'[th][k] = stack[th][k]
             \/ stack[th][k].at = "pop" /\ stack'[th][k].at = "body"
    BY <2>1, FramesAdded
  <2>3. i \in DOMAIN stack[th] /\ stack[th][i].at = "entry"
    BY <2>1, <2>2
  <2>4. stack[th] # <<>> /\ Top(th).at = "entry"
    BY <2>3, OnlyTop
  <2> QED BY <2>1, <2>4
<1>6. ASSUME NEW t, NEW g, Start(th, t, g) PROVE Below(th, f)'
  <2>0. PICK parent : parent = current[th]
    OBVIOUS
  <2>1. /\ stack[th] # <<>> /\ t \in Task /\ Replaced(th, g)
        /\ g.at \in BeginPlace /\ g.task = Top(th).task /\ OpOf(th, g).on = t
        /\ Made(th[1], t, parent, prog.queue[t], prog.group[t], FALSE)
    BY <1>6, <2>0 DEF Start
  <2>2. /\ L \in DOMAIN stack[th] /\ stack[th][L] = Top(th)
        /\ stack'[th][L] = g /\ DOMAIN stack'[th] = DOMAIN stack[th]
        /\ \A k \in DOMAIN stack[th] : k # L => stack'[th][k] = stack[th][k]
    BY <2>1, FramesReplaced
  <2>3. f = g
    <3>1. i = L
      BY <2>2, OnlyTop
    <3> QED BY <2>2, <3>1
  <2>4. OpOf(th, f)'.on = t
    BY <2>1, <2>3 DEF OpOf, ScriptOf
  <2>5. task'[th[1]][t].parent = parent
    BY <2>1 DEF Made
  <2>6. parent # None => \E k \in DOMAIN stack'[th] :
                           stack'[th][k].task = parent /\ stack'[th][k].at \in RunPlace
    <3> SUFFICES ASSUME parent # None
                 PROVE  \E k \in DOMAIN stack'[th] :
                          stack'[th][k].task = parent /\ stack'[th][k].at \in RunPlace
      OBVIOUS
    <3>1. PICK k \in DOMAIN stack[th] : stack[th][k].task = parent /\ stack[th][k].at \in RunPlace
      BY <2>0 DEF Inv3, CurrentInv
    <3>2. CASE k = L
      BY <2>1, <2>2, <3>1, <3>2 DEF RunPlace, BeginPlace
    <3>3. CASE k # L
      BY <2>2, <3>1, <3>3
    <3> QED BY <3>2, <3>3
  <2> QED BY <2>4, <2>5, <2>6 DEF Below
<1> QED BY <1>2, <1>3, <1>4, <1>5, <1>6 DEF Serves

\* A thread that does nothing.
LEMMA EntryStays ==
  ASSUME Inv1, Inv2, EntryInv, Lasting, prog' = prog, NEW th \in Thread, stack'[th] = stack[th],
         NEW i \in DOMAIN stack[th], NEW f, f = stack[th][i]
  PROVE  Below(th, f)'
<1>0. SUFFICES ASSUME f.at = "entry" PROVE Below(th, f)'
  BY DEF Below
<1>1. Below(th, f)
  BY DEF EntryInv
<1>2. OpOf(th, f)' = OpOf(th, f)
  BY DEF OpOf, ScriptOf
<1>3. OpOf(th, f).on \in Task /\ th[1] \in Node
  <2>1. At(th, "entry") /\ f = Top(th)
    BY <1>0, OnlyTop DEF At
  <2>2. On(th) \in Task
    BY <2>1, CallOk DEF RunPlace, BeginPlace
  <2> QED BY <2>1, <2>2, TopOk, ThreadOk DEF At
<1>4. PICK t : t = OpOf(th, f).on
  OBVIOUS
<1>5. Begins(th, i, th[1], t)
  BY <1>0, <1>4 DEF Begins, BeginPlace
<1>6. task[th[1]][t].status = "CREATED"
  BY <1>3, <1>4, <1>5 DEF Inv2, BeginInv
<1>7. task'[th[1]][t].parent = task[th[1]][t].parent
  BY <1>3, <1>4, <1>6 DEF Lasting, Alike
<1> QED BY <1>0, <1>1, <1>2, <1>4, <1>7 DEF Below

LEMMA EntryKept ==
  ASSUME Inv1, Inv2, Inv3, EntryInv, [Next]_vars
  PROVE  EntryInv'
<1>1. Lasting /\ prog' = prog
  BY StepEvolves, EvolvesLasts
<1>2. ASSUME NEW th \in Thread, ThreadStep(th) PROVE EntryInv'
  <2> SUFFICES ASSUME NEW uh \in Thread, NEW i \in DOMAIN stack'[uh], NEW f, f = stack'[uh][i]
               PROVE  Below(uh, f)'
    BY DEF EntryInv
  <2>0. \/ \E g : Strolls(th, g)
        \/ \E g : Start(th, On(th), g)
        \/ Serves(th)
        \/ \E g : Take(th, g)
    BY <1>2, ThreadMoves
  <2>1. CASE uh # th
    <3>1. stack'[uh] = stack[uh]
      BY <2>0, <2>1 DEF Strolls, Start, Serves, Gone, Turn, Take, Replaced, Removed, Added
    <3> QED BY <1>1, <3>1, EntryStays
  <2>2. CASE uh = th /\ f.at = "entry"
    BY <1>1, <2>0, <2>2, EntryMoves
  <2>3. CASE f.at # "entry"
    BY <2>3 DEF Below
  <2> QED BY <2>1, <2>2, <2>3
<1>3. CASE stack' = stack
  <2> SUFFICES ASSUME NEW uh \in Thread, NEW i \in DOMAIN stack'[uh], NEW f, f = stack'[uh][i]
               PROVE  Below(uh, f)'
    BY DEF EntryInv
  <2> QED BY <1>1, <1>3, EntryStays
<1>4. ASSUME NEW n \in Node, ProcesserStep(n) \/ ListenerStep(n) PROVE EntryInv'
  BY <1>3, <1>4, StacksStay
<1>5. CASE UNCHANGED vars
  BY <1>3, <1>5 DEF vars, taskVars
<1> QED BY <1>2, <1>4, <1>5 DEF Next

-----------------------------------------------------------------------------
(* What waits return for.                                                  *)

\* Only tasks that are complete where they were started.
CompleteAt(n, t) == StartedOn(n, t) /\ task[n][t].status = "COMPLETED"

AwaitedInv == \A t \in awaited : \E n \in Node : CompleteAt(n, t)

LEMMA OneStart ==
  ASSUME Inv1, Inv2, NEW t \in Task, NEW m \in Node, NEW n \in Node,
         StartedOn(m, t), StartedOn(n, t)
  PROVE  m = n
BY DEF StartedOn, Inv2, RecordInv

LEMMA CompleteLasts ==
  ASSUME Lasting, NEW n \in Node, NEW t \in Task
  PROVE  /\ StartedOn(n, t) => StartedOn(n, t)'
         /\ CompleteAt(n, t) => CompleteAt(n, t)'
BY DEF Lasting, StartedOn, CompleteAt, Alike

LEMMA ScriptIn ==
  ASSUME Inv1, NEW th \in Thread, NEW f \in FrameType
  PROVE  ScriptOf(th, f) \in Scripts(prog)
<1>1. f.task \in Task \union {None} /\ th[1] \in Node
  BY ThreadOk DEF FrameType
<1> QED BY <1>1 DEF Scripts, ScriptOf

\* The operation a thread has come to, as an operation of a script.
LEMMA DoingScript ==
  ASSUME Inv1, NEW th \in Thread, NEW what, Doing(th, what)
  PROVE  /\ stack[th] # <<>> /\ Len(stack[th]) \in DOMAIN stack[th]
         /\ stack[th][Len(stack[th])] = Top(th) /\ Top(th).at = "body" /\ Top(th) \in FrameType
         /\ ScriptOf(th, Top(th)) \in Scripts(prog)
         /\ Top(th).ip \in DOMAIN ScriptOf(th, Top(th)) /\ Top(th).ip \in Nat
         /\ ScriptOf(th, Top(th))[Top(th).ip].do = what
         /\ ScriptOf(th, Top(th))[Top(th).ip].on = On(th)
<1>1. stack[th] # <<>> /\ Top(th).at = "body" /\ Top(th).ip \in DOMAIN ScriptOf(th, Top(th))
      /\ OpOf(th, Top(th)).do = what
  BY DoingOk
<1>2. /\ Len(stack[th]) \in DOMAIN stack[th] /\ stack[th][Len(stack[th])] = Top(th)
      /\ Top(th) \in FrameType /\ On(th) = OpOf(th, Top(th)).on
  BY <1>1, TopOk
<1> QED BY <1>1, <1>2, ScriptIn DEF OpOf, FrameType

LEMMA WaitTaskReturns ==
  ASSUME Inv1, Inv2, StartedInv, WaitsForOwn(prog), NEW th \in Thread, WaitTask(th),
         NEW t \in awaited' \ awaited
  PROVE  t \in Task /\ \E n \in Node : CompleteAt(n, t)
<1>0. PICK n, f, s : n = th[1] /\ f = Top(th) /\ s = ScriptOf(th, f)
  OBVIOUS
<1>1. Doing(th, "wait")
  BY DEF WaitTask
<1>2. t = On(th) /\ task[n][t].status = "COMPLETED"
  BY <1>0 DEF WaitTask
<1>3. /\ Len(stack[th]) \in DOMAIN stack[th] /\ stack[th][Len(stack[th])] = f
      /\ f.at = "body" /\ s \in Scripts(prog) /\ f.ip \in DOMAIN s /\ f.ip \in Nat
      /\ s[f.ip].do = "wait" /\ s[f.ip].on = t
  BY <1>0, <1>1, <1>2, DoingScript
<1>4. t \in Task /\ n \in Node
  BY <1>0, <1>1, <1>2, DoingOk, ThreadOk
<1>5. ~task[n][t].message
  <2> SUFFICES ASSUME task[n][t].message PROVE FALSE
    OBVIOUS
  <2>1. prog.distributed
    BY <1>4, Records
  <2>2. PICK h \in 1..(f.ip - 1) : StartsAt(s, h, t)
    BY <1>3, <2>1 DEF WaitsForOwn
  <2>3. h \in DOMAIN s /\ Past(f, h)
    BY <1>3, <2>2 DEF StartsAt, Past
  <2>4. Told(th, f)
    BY <1>3 DEF StartedInv
  <2>5. StartedOn(n, t)
    BY <1>0, <1>3, <1>4, <2>2, <2>3, <2>4 DEF Told, RunPlace
  <2> QED BY <2>5 DEF StartedOn
<1> QED BY <1>2, <1>4, <1>5 DEF CompleteAt, StartedOn

LEMMA WaitGroupReturns ==
  ASSUME Inv1, Inv2, Inv3, WaitsForOwn(prog), NEW th \in Thread, WaitGroupAll(th),
         NEW t \in awaited' \ awaited
  PROVE  t \in Task /\ \E n \in Node : CompleteAt(n, t)
<1>0. PICK n, f, s, g : n = th[1] /\ f = Top(th) /\ s = ScriptOf(th, f) /\ g = On(th)
  OBVIOUS
<1>1. Doing(th, "all")
  BY DEF WaitGroupAll
<1>2. group[g].current = 0 /\ t \in Members(n, g)
  BY <1>0 DEF WaitGroupAll
<1>3. /\ Len(stack[th]) \in DOMAIN stack[th] /\ stack[th][Len(stack[th])] = f
      /\ f.at = "body" /\ s \in Scripts(prog) /\ f.ip \in DOMAIN s
      /\ s[f.ip].do = "all" /\ s[f.ip].on = g
  BY <1>0, <1>1, DoingScript
<1>4. t \in Task /\ n \in Node /\ g \in Group /\ task[n][t].status # "NONE" /\ task[n][t].group = g
  BY <1>0, <1>1, <1>2, DoingOk, ThreadOk DEF Members
<1>5. Counted(g) = {}
  <2>1. IsFiniteSet(Counted(g)) /\ Cardinality(Counted(g)) = 0
    BY <1>2, <1>4 DEF Inv3, CountInv, MemberInv
  <2> QED BY <2>1, FS_EmptySet
<1>6. ~Member(n, t, g)
  <2>1. PICK p : p = <<n, t>>
    OBVIOUS
  <2>2. p \in Node \X Task /\ p[1] = n /\ p[2] = t
    BY <1>4, <2>1
  <2>3. ~Member(p[1], p[2], g)
    BY <1>5, <2>2 DEF Counted
  <2> QED BY <2>2, <2>3
<1>7. ~Entering(n, t, {"entry", "grow"})
  <2> SUFFICES ASSUME Entering(n, t, {"entry", "grow"}) PROVE FALSE
    OBVIOUS
  <2>1. PICK uh \in Thread : \E k \in DOMAIN stack[uh] :
               Begins(uh, k, n, t) /\ stack[uh][k].at \in {"entry", "grow"}
    BY DEF Entering
  <2>2. PICK k \in DOMAIN stack[uh] : Begins(uh, k, n, t) /\ stack[uh][k].at \in {"entry", "grow"}
    BY <2>1
  <2>3. PICK h : h = stack[uh][k]
    OBVIOUS
  <2>4. h \in FrameType /\ OpOk(uh, h) /\ uh[1] = n /\ OpOf(uh, h).on = t /\ h.at \in {"entry", "grow"}
    BY <2>2, <2>3 DEF Inv1, Typed, Shape, StackOk, GoodFrame, Begins
  <2>5. StartsAt(ScriptOf(uh, h), h.ip, t)
    BY <2>4 DEF OpOk, StartsAt, OpOf, RunPlace, BeginPlace
  <2>6. prog.group[t] = g
    BY <1>4, <2>2, <2>4 DEF Inv2, BeginInv
  <2>7. ScriptOf(uh, h) \in Scripts(prog) /\ h.ip \in DOMAIN ScriptOf(uh, h)
    BY <2>4, <2>5, ScriptIn DEF StartsAt
  <2>8. ScriptOf(uh, h) = s
    BY <1>3, <1>4, <2>5, <2>6, <2>7 DEF WaitsForOwn
  <2>9. PICK L, p : L = Len(stack[th]) /\ p = h.ip
    OBVIOUS
  <2>10. L \in DOMAIN stack[th] /\ stack[th][L].at \in RunPlace /\ stack[uh][k].at \in RunPlace
    BY <1>3, <2>3, <2>4, <2>9 DEF RunPlace
  <2>11. StartsAt(ScriptOf(th, stack[th][L]), p, t)
    BY <1>0, <1>3, <2>5, <2>8, <2>9
  <2>12. StartsAt(ScriptOf(uh, stack[uh][k]), p, t)
    BY <2>3, <2>5, <2>9
  <2>13. Inv1 /\ Inv2 /\ th \in Thread /\ uh \in Thread /\ t \in Task /\ k \in DOMAIN stack[uh]
    BY <1>4, <2>2
  <2>14. th = uh /\ L = k
    BY ONLY <2>10, <2>11, <2>12, <2>13, ScriptOnce
  <2> QED BY <1>3, <2>3, <2>4, <2>9, <2>14
<1>8. task[n][t].status = "COMPLETED"
  BY <1>4, <1>6, <1>7 DEF Member, Open
<1>9. ~task[n][t].message
  BY <1>4, NotNone DEF Inv2, RecordInv
<1> QED BY <1>4, <1>8, <1>9 DEF CompleteAt, StartedOn

\* All that a step adds.
LEMMA WaitReturns ==
  ASSUME Inv1, Inv2, Inv3, StartedInv, WaitsForOwn(prog), [Next]_vars
  PROVE  /\ awaited \subseteq awaited'
         /\ \A t \in awaited' \ awaited : t \in Task /\ \E n \in Node : CompleteAt(n, t)
<1>1. ASSUME NEW th \in Thread, ThreadStep(th), ~WaitTask(th), ~WaitGroupAll(th)
      PROVE  awaited' = awaited
  BY <1>1 DEF ThreadStep, TaskStep, CreateAction, StartTask, EnterQueue, GrowGroup, CountInGroup,
     ListTask, WaitGroupAny, CompareGroup, FetchResult, PopWaiting, PopWorker, NotYet, RunTask,
     RunRemotely, SetScheduled, EndBody, CheckWaiting, CheckScheduled, Reinsert, LeaveParent,
     LeaveQueue, LeaveGroup, GroupResult, Announce, InsertStart, MessageComplete
<1>2. ASSUME NEW n \in Node, ProcesserStep(n) \/ ListenerStep(n)
      PROVE  awaited' = awaited
  <2>1. UNCHANGED taskVars \/ awaited' = awaited
    BY <1>2 DEF ProcesserStep, ListenerStep, PopMessage, SendAction, AddRemoteAction,
       StartRemoteTask, AwaitAck, ListReceived, SetAwaiting, SeeAwaiting, AwaitLocalTask,
       CompleteLocalTask, ReceiveRemoteTask, CompleteRemoteTask
  <2> QED BY <2>1 DEF taskVars
<1>3. ASSUME UNCHANGED vars PROVE awaited' = awaited
  BY <1>3 DEF vars, taskVars
<1>4. ASSUME NEW th \in Thread, WaitTask(th) \/ WaitGroupAll(th)
      PROVE  awaited \subseteq awaited'
  BY <1>4 DEF WaitTask, WaitGroupAll
<1>5. \/ awaited' = awaited
      \/ \E th \in Thread : WaitTask(th) \/ WaitGroupAll(th)
  <2>1. CASE \E th \in Thread : ThreadStep(th)
    <3>1. PICK th \in Thread : ThreadStep(th)
      BY <2>1
    <3>2. CASE ~WaitTask(th) /\ ~WaitGroupAll(th)
      BY <1>1, <3>1, <3>2
    <3>3. CASE WaitTask(th) \/ WaitGroupAll(th)
      BY <3>3
    <3> QED BY <3>2, <3>3
  <2>2. CASE \E n \in Node : ProcesserStep(n) \/ ListenerStep(n)
    BY <1>2, <2>2
  <2> QED BY <1>3, <2>1, <2>2 DEF Next
<1>6. CASE awaited' = awaited
  BY <1>6
<1>7. ASSUME NEW th \in Thread, WaitTask(th) \/ WaitGroupAll(th)
      PROVE  \A t \in awaited' \ awaited : t \in Task /\ \E n \in Node : CompleteAt(n, t)
  <2>1. CASE WaitTask(th)
    BY <2>1, WaitTaskReturns
  <2>2. CASE WaitGroupAll(th)
    BY <2>2, WaitGroupReturns
  <2> QED BY <1>7, <2>1, <2>2
<1> QED BY <1>4, <1>5, <1>6, <1>7

LEMMA AwaitedKept ==
  ASSUME Inv1, Inv2, Inv3, StartedInv, WaitsForOwn(prog), AwaitedInv, [Next]_vars
  PROVE  AwaitedInv'
<1>1. Lasting
  BY StepEvolves, EvolvesLasts
<1>2. awaited \subseteq Task
  BY DEF Inv1, Typed
<1> SUFFICES ASSUME NEW t \in awaited' PROVE \E n \in Node : CompleteAt(n, t)'
  BY DEF AwaitedInv
<1>3. t \in Task /\ \E n \in Node : CompleteAt(n, t)
  BY <1>2, WaitReturns DEF AwaitedInv
<1> QED BY <1>1, <1>3, CompleteLasts

LEMMA AwaitedResults ==
  ASSUME Inv1, Inv2, FilledInv, AwaitedInv
  PROVE  ResultsThere
<1> SUFFICES ASSUME NEW t \in awaited, NEW n \in Node, StartedOn(n, t)
             PROVE  <<n, t>> \in filled
  BY DEF ResultsThere
<1>1. t \in Task
  BY DEF Inv1, Typed
<1>2. PICK m \in Node : CompleteAt(m, t)
  BY DEF AwaitedInv
<1>3. m = n
  BY <1>1, <1>2, OneStart DEF CompleteAt
<1> QED BY <1>1, <1>2, <1>3 DEF CompleteAt, FilledInv

-----------------------------------------------------------------------------
(* Results, in every state.                                                *)

Inv4 == StartedInv /\ EntryInv /\ FilledInv /\ DoneInv /\ AwaitedInv

LEMMA InitInv4 == Init => Inv4
<1> SUFFICES ASSUME Init PROVE Inv4
  OBVIOUS
<1>1. /\ task = [n \in Node |-> [t \in Task |-> NoTask]]
      /\ stack = [th \in Thread |->
                    IF th[2] = "main" THEN <<Frame(None, "body")>> ELSE <<>>]
      /\ awaited = {}
  BY DEF Init, TasksInit
<1>2. \A n \in Node, t \in Task : task[n][t] = NoTask
  BY <1>1
<1>3. \A n \in Node, t \in Task : task[n][t].status = "NONE"
  BY <1>2 DEF NoTask
<1>4. ASSUME NEW th \in Thread, NEW i \in DOMAIN stack[th], NEW f, f = stack[th][i]
      PROVE  f.task = None /\ f.at = "body" /\ f.ip = 1 /\ Len(stack[th]) = 1 /\ i = 1
  <2>1. PICK e : e = Frame(None, "body")
    OBVIOUS
  <2>2. e.task = None /\ e.at = "body" /\ e.ip = 1
    BY <2>1 DEF Frame
  <2>3. stack[th] = <<e>> \/ stack[th] = <<>>
    BY <1>1, <2>1
  <2>4. stack[th] = <<e>>
    BY <1>4, <2>3
  <2>5. Len(stack[th]) = 1 /\ i = 1 /\ stack[th][i] = e
    BY <1>4, <2>4
  <2> QED BY <1>4, <2>2, <2>5
<1>5. StartedInv
  <2> SUFFICES ASSUME NEW th \in Thread, NEW i \in DOMAIN stack[th], NEW f, f = stack[th][i]
               PROVE  Told(th, f)
    BY DEF StartedInv
  <2>1. f.task = None /\ f.at = "body" /\ f.ip = 1
    BY <1>4
  <2>2. Inv1
    BY InitInv
  <2>4. ScriptOf(th, f) \in Seq(Op)
    BY <2>1, <2>2, ScriptTyped DEF Inv1, Typed
  <2>5. \A p \in DOMAIN ScriptOf(th, f) : ~Past(f, p)
    BY <2>1, <2>4 DEF Past, BeginPlace
  <2> QED BY <2>1, <2>5 DEF Told
<1>6. EntryInv
  <2> SUFFICES ASSUME NEW th \in Thread, NEW i \in DOMAIN stack[th], NEW f, f = stack[th][i]
               PROVE  Below(th, f)
    BY DEF EntryInv
  <2> QED BY <1>4 DEF Below
<1>7. FilledInv /\ DoneInv /\ AwaitedInv
  BY <1>1, <1>3 DEF FilledInv, DoneInv, AwaitedInv
<1> QED BY <1>5, <1>6, <1>7 DEF Inv4

LEMMA StepInv4 ==
  ASSUME \A p \in Programs : WaitsForOwn(p), Inv1, Inv2, Inv3, Inv4, [Next]_vars
  PROVE  Inv4'
<1>1. Evolves /\ filled \subseteq filled'
  BY StepEvolves
<1>2. WaitsForOwn(prog)
  BY DEF Inv1, Typed
<1>3. StartedInv' /\ EntryInv' /\ FilledInv' /\ DoneInv'
  BY <1>1, StartedKept, EntryKept, FilledKept, DoneKept DEF Inv4
<1>4. AwaitedInv'
  BY <1>2, AwaitedKept DEF Inv4
<1> QED BY <1>3, <1>4 DEF Inv4

LEMMA Invariants4 ==
  ASSUME \A p \in Programs : WaitsForOwn(p)
  PROVE  Spec => [](Inv1 /\ Inv2 /\ Inv3 /\ Inv4)
<1>1. Init => Inv1 /\ Inv2 /\ Inv3 /\ Inv4
  BY InitInv, InitInv3, InitInv4
<1>2. Inv1 /\ Inv2 /\ Inv3 /\ Inv4 /\ [Next]_vars => (Inv1 /\ Inv2 /\ Inv3 /\ Inv4)'
  BY StepInv, StepInv3, StepInv4
<1> QED BY <1>1, <1>2, PTL DEF Spec

\* When a wait has returned for a task its result is in the buffer of the task,
\* also if the task ran on the other node, for every application that waits for
\* what it has started.
THEOREM ResultsAreThere ==
  ASSUME \A p \in Programs : WaitsForOwn(p)
  PROVE  Spec => []ResultsThere
<1>1. Inv1 /\ Inv2 /\ Inv3 /\ Inv4 => ResultsThere
  BY AwaitedResults DEF Inv4
<1> QED BY <1>1, Invariants4, PTL

-----------------------------------------------------------------------------
(* Answers.                                                                *)

\* Where a task of another node was received it is complete.
Answered(t) == \E n \in Node : task[n][t].message /\ task[n][t].status = "COMPLETED"

\* A message that answers does so for a task that is.
Replied(m) == m.type \in {"COMPLETE_REMOTE_TASK", "COMPLETE_LOCAL_TASK"} => Answered(m.on)

AnsweredInv ==
  /\ \A t \in Task : served[t] = "COMPLETE_LOCAL_TASK" => Answered(t)
  /\ \A n \in Node : \A i \in DOMAIN messages[n] : Replied(messages[n][i])
  /\ \A n \in Node : \A i \in DOMAIN net[n] : Replied(net[n][i])
  /\ \A n \in Node : processer[n].at = "process" => Replied(processer[n].msg)
  /\ \A n \in Node, t \in Task :
       task[n][t].type = "REMOTE" /\ task[n][t].status \in {"WAITING", "COMPLETED"} => Answered(t)

\* All that a step adds to the messages was there or answers for a task that is complete.
Repeats ==
  /\ \A t \in Task : served'[t] = "COMPLETE_LOCAL_TASK" => Answered(t)
  /\ \A n \in Node : \A i \in DOMAIN messages'[n] : Replied(messages'[n][i])
  /\ \A n \in Node : \A i \in DOMAIN net'[n] : Replied(net'[n][i])
  /\ \A n \in Node : processer'[n].at = "process" => Replied(processer'[n].msg)

LEMMA AnsweredLasts ==
  ASSUME Lasting, NEW t \in Task, Answered(t)
  PROVE  Answered(t)'
<1>1. PICK n \in Node : task[n][t].message /\ task[n][t].status = "COMPLETED"
  BY DEF Answered
<1>2. task'[n][t].message /\ task'[n][t].status = "COMPLETED"
  BY <1>1 DEF Lasting, Alike
<1> QED BY <1>2 DEF Answered

LEMMA RepliedLasts ==
  ASSUME Lasting, NEW m \in Message \union NetMessage, Replied(m)
  PROVE  Replied(m)'
<1>1. m.type \in {"COMPLETE_REMOTE_TASK", "COMPLETE_LOCAL_TASK"} => m.on \in Task
  BY DEF Message, NetMessage
<1> QED BY <1>1, AnsweredLasts DEF Replied

LEMMA RunningLocal ==
  ASSUME Inv1, Inv2, NEW n \in Node, NEW t \in Task, task[n][t].status = "RUNNING"
  PROVE  task[n][t].type = "LOCAL"
<1>1. Listed(n, t) \/ Held(n, t) \/ Begun(n, t) \/ Receiving(n, t)
  BY DEF Inv2, SomewhereInv
<1>2. ~Listed(n, t)
  BY DEF Inv2, ListInv, Listed
<1>3. ~Begun(n, t)
  BY DEF Inv2, BeginInv, Begun, Begins
<1>4. ~Receiving(n, t)
  BY DEF Inv2, ReceiveInv
<1>5. PICK th \in Thread : \E i \in DOMAIN stack[th] : In(th, i, n, t)
  BY <1>1, <1>2, <1>3, <1>4 DEF Held
<1>6. PICK i \in DOMAIN stack[th] : In(th, i, n, t)
  BY <1>5
<1>7. PICK f : f = stack[th][i]
  OBVIOUS
<1>8. f \in FrameType /\ f.task = t /\ th[1] = n /\ f.task # None
  BY <1>6, <1>7, NotNone DEF Inv1, Typed, In
<1>9. StatusAt(f.at, task[n][t].status, task[n][t].type)
  BY <1>6, <1>7, <1>8 DEF Inv2, HeldInv
<1>10. f.at \in RunPlace \union {"process", "send", "schedule", "insert", "complete"}
  BY <1>8 DEF FrameType, Place, RunPlace
<1> QED BY <1>9, <1>10 DEF StatusAt

LEMMA RemoteAnswered ==
  ASSUME Inv1, Inv2, AnsweredInv, Evolves,
         NEW n \in Node, NEW t \in Task, task'[n][t].type = "REMOTE",
         task'[n][t].status \in {"WAITING", "COMPLETED"}
  PROVE  Answered(t)
<1>1. CASE task[n][t].type = "REMOTE" /\ task[n][t].status \in {"WAITING", "COMPLETED"}
  BY <1>1 DEF AnsweredInv
<1>2. CASE ~(task[n][t].type = "REMOTE" /\ task[n][t].status \in {"WAITING", "COMPLETED"})
  <2>1. task' # task
    BY <1>2
  <2>2. ASSUME NEW m \in Node, NEW u \in Task, NEW message \in BOOLEAN, NEW parent,
               Born(m, u, parent, message)
        PROVE  FALSE
    <3>1. task'[m][u].status = "CREATED"
      BY <2>2 DEF Born, Made
    <3>2. m # n \/ u # t
      BY <3>1
    <3>3. task'[n][t].type = task[n][t].type /\ task'[n][t].status = task[n][t].status
      BY <2>2, <3>2 DEF Born, Made, Alike
    <3> QED BY <1>2, <3>3
  <2>3. PICK m \in Node, u \in Task : Life(m, u)
    BY <2>1, <2>2 DEF Evolves, Lives
  <2>4. task[n][t].type = "REMOTE" /\ task[n][t].status \notin {"WAITING", "COMPLETED"}
        /\ task[n][t].status # "RUNNING"
    <3>1. task[n][t].type = "REMOTE"
      BY <2>3 DEF Life, Stays, Runs, Schedules, EndsBody, Completes, Answers, Changed, Alike
    <3> QED BY <1>2, <3>1, RunningLocal
  <2>5. Answers(n, t)
    BY <2>3, <2>4 DEF Life, Stays, Runs, Schedules, EndsBody, Completes, Answers, Changed
  <2> QED BY <2>5 DEF Answers, AnsweredInv, Replied
<1> QED BY <1>1, <1>2

LEMMA RepeatsAnswered ==
  ASSUME Inv1, Inv1', Inv2, AnsweredInv, Evolves, Repeats
  PROVE  AnsweredInv'
<1>0. Lasting
  BY EvolvesLasts
<1>1. ASSUME NEW t \in Task, served'[t] = "COMPLETE_LOCAL_TASK" PROVE Answered(t)'
  BY <1>0, <1>1, AnsweredLasts DEF Repeats
<1>2. ASSUME NEW n \in Node, NEW i \in DOMAIN messages'[n], NEW m, m = messages'[n][i]
      PROVE  Replied(m)'
  <2>1. m \in Message
    BY <1>2 DEF Inv1, Typed
  <2> QED BY <1>0, <1>2, <2>1, RepliedLasts DEF Repeats
<1>3. ASSUME NEW n \in Node, NEW i \in DOMAIN net'[n], NEW m, m = net'[n][i]
      PROVE  Replied(m)'
  <2>1. m \in NetMessage
    BY <1>3 DEF Inv1, Typed
  <2> QED BY <1>0, <1>3, <2>1, RepliedLasts DEF Repeats
<1>4. ASSUME NEW n \in Node, processer'[n].at = "process", NEW m, m = processer'[n].msg
      PROVE  Replied(m)'
  <2>1. m \in Message
    BY <1>4 DEF Inv1, Shape, ProcesserOk
  <2> QED BY <1>0, <1>4, <2>1, RepliedLasts DEF Repeats
<1>5. ASSUME NEW n \in Node, NEW t \in Task, task'[n][t].type = "REMOTE",
             task'[n][t].status \in {"WAITING", "COMPLETED"}
      PROVE  Answered(t)'
  BY <1>0, <1>5, RemoteAnswered, AnsweredLasts
<1> QED BY <1>1, <1>2, <1>3, <1>4, <1>5 DEF AnsweredInv

\* A message is added, or taken.
LEMMA PutReplies ==
  ASSUME NEW F, NEW G, NEW n \in Node, NEW x, PutIn(F, G, n, x), Replied(x),
         \A m \in Node : \A i \in DOMAIN F[m] : Replied(F[m][i])
  PROVE  \A m \in Node : \A i \in DOMAIN G[m] : Replied(G[m][i])
<1> SUFFICES ASSUME NEW m \in Node, NEW i \in DOMAIN G[m] PROVE Replied(G[m][i])
  OBVIOUS
<1>1. (i \in DOMAIN F[m] /\ G[m][i] = F[m][i]) \/ G[m][i] = x
  BY DEF PutIn
<1> QED BY <1>1

LEMMA GotReplies ==
  ASSUME NEW F, NEW G, NEW n \in Node, GotIn(F, G, n),
         \A m \in Node : \A i \in DOMAIN F[m] : Replied(F[m][i])
  PROVE  /\ \A m \in Node : \A i \in DOMAIN G[m] : Replied(G[m][i])
         /\ Replied(F[n][1])
<1>1. ASSUME NEW m \in Node, NEW i \in DOMAIN G[m] PROVE Replied(G[m][i])
  <2>1. CASE m = n
    <3>1. i + 1 \in DOMAIN F[n] /\ G[n][i] = F[n][i + 1]
      BY <1>1, <2>1 DEF GotIn
    <3> QED BY <2>1, <3>1
  <2>2. CASE m # n
    <3>1. G[m] = F[m]
      BY <2>2 DEF GotIn
    <3> QED BY <1>1, <3>1
  <2> QED BY <2>1, <2>2
<1>2. Replied(F[n][1])
  BY DEF GotIn
<1> QED BY <1>1, <1>2

LEMMA HandReplies ==
  ASSUME AnsweredInv, NEW n \in Node, NEW at, NEW x, Hand(n, at, x),
         at = "process" => Replied(x)
  PROVE  \A m \in Node : processer'[m].at = "process" => Replied(processer'[m].msg)
<1> SUFFICES ASSUME NEW m \in Node, processer'[m].at = "process"
             PROVE  Replied(processer'[m].msg)
  OBVIOUS
<1>1. CASE m = n
  BY <1>1 DEF Hand
<1>2. CASE m # n
  BY <1>2 DEF Hand, AnsweredInv
<1> QED BY <1>1, <1>2

LEMMA ThreadRepeats ==
  ASSUME Inv1, Inv2, AnsweredInv, NEW th \in Thread, ThreadStep(th)
  PROVE  Repeats
<1>0. HeldInv /\ RecordInv /\ ActionInv /\ StagesInv /\ th[1] \in Node
  BY ThreadOk DEF Inv2
<1>1. messages \in [Node -> Seq(Message)]
  BY DEF Inv1, Typed
<1>2. ASSUME NEW x \in Message, x.type \notin {"COMPLETE_REMOTE_TASK", "COMPLETE_LOCAL_TASK"},
             InsertMessage(th[1], x), UNCHANGED <<served, net, processer>>
      PROVE  Repeats
  <2>1. PICK n : n = th[1]
    OBVIOUS
  <2>2. n \in Node /\ messages' = [messages EXCEPT ![n] = Append(messages[n], x)]
    BY <1>0, <1>2, <2>1 DEF InsertMessage
  <2>3. /\ messages' \in [Node -> Seq(Message)]
        /\ PutIn(messages, messages', n, x)
    <3>1. InsertMessage(n, x)
      BY <1>2, <2>1
    <3> QED BY <1>2, <2>2, <3>1, InsertOk
  <2>4. Replied(x)
    BY <1>2 DEF Replied
  <2>5. \A m \in Node : \A i \in DOMAIN messages'[m] : Replied(messages'[m][i])
    BY <2>2, <2>3, <2>4, PutReplies DEF AnsweredInv
  <2> QED BY <1>2, <2>5 DEF Repeats, AnsweredInv
<1>3. CASE TaskStep(th) /\ UNCHANGED remoteVars
  <2>1. UNCHANGED <<messages, served, net, processer>>
    BY <1>3 DEF remoteVars
  <2> QED BY <2>1 DEF Repeats, AnsweredInv
<1>4. CASE Announce(th)
  <2>1. On(th) \in Job
    BY <1>4, AnnounceStep
  <2>2. PICK x : x = Msg("CREATE_ACTION", On(th))
    OBVIOUS
  <2>3. x \in Message /\ x.type = "CREATE_ACTION"
    BY <2>1, <2>2 DEF Msg, Message
  <2> QED BY <1>2, <1>4, <2>2, <2>3 DEF Announce
<1>5. CASE InsertStart(th)
  <2>1. Mine(th) \in Task
    BY <1>0, <1>5, InsertStartStep DEF Mine
  <2>2. PICK x : x = Msg("START_REMOTE_TASK", Mine(th))
    OBVIOUS
  <2>3. x \in Message /\ x.type = "START_REMOTE_TASK"
    BY <2>1, <2>2 DEF Msg, Message
  <2> QED BY <1>2, <1>5, <2>2, <2>3 DEF InsertStart
<1>6. CASE MessageComplete(th)
  <2>0. PICK t : t = Mine(th)
    OBVIOUS
  <2>1. /\ t \in Task /\ task[th[1]][t].message
        /\ served' = [served EXCEPT ![t] = "COMPLETE_LOCAL_TASK"]
    BY <1>0, <1>6, <2>0, MessageCompleteStep
  <2>2. stack[th] # <<>> /\ Top(th).task # None /\ Top(th).at = "complete"
    BY <1>6, TaskTop DEF MessageComplete, Completing, RunPlace
  <2>3. task[th[1]][t].status = "COMPLETED"
    BY <1>0, <2>0, <2>2, HeldTop DEF StatusAt
  <2>4. Answered(t)
    BY <1>0, <2>1, <2>3 DEF Answered
  <2>5. \A u \in Task : u # t => served'[u] = served[u]
    BY <2>1 DEF Inv1, Typed
  <2>6. UNCHANGED <<messages, net, processer>>
    BY <1>6 DEF MessageComplete
  <2> QED BY <2>4, <2>5, <2>6 DEF Repeats, AnsweredInv
<1> QED BY <1>3, <1>4, <1>5, <1>6 DEF ThreadStep

LEMMA HandlerRepeats ==
  ASSUME Inv1, AnsweredInv, NEW n \in Node, ProcesserStep(n)
  PROVE  Repeats
<1>1. CASE PopMessage(n)
  <2>1. GotIn(messages, messages', n) /\ Hand(n, "process", messages[n][1])
    BY <1>1, PopMessageStep
  <2>2. /\ \A m \in Node : \A i \in DOMAIN messages'[m] : Replied(messages'[m][i])
        /\ Replied(messages[n][1])
    BY <2>1, GotReplies DEF AnsweredInv
  <2>3. \A m \in Node : processer'[m].at = "process" => Replied(processer'[m].msg)
    BY <2>1, <2>2, HandReplies
  <2>4. UNCHANGED <<served, net>>
    BY <1>1 DEF PopMessage
  <2> QED BY <2>2, <2>3, <2>4 DEF Repeats, AnsweredInv
<1>2. ASSUME SendAction(n) \/ StartRemoteTask(n) \/ CompleteLocalTask(n)
      PROVE  Repeats
  <2>1. PICK at, x : Hand(n, at, x) /\ at # "process"
    BY <1>2, SendActionStep, StartRemoteTaskStep, CompleteLocalTaskStep
  <2>2. \A m \in Node : processer'[m].at = "process" => Replied(processer'[m].msg)
    BY <2>1, HandReplies
  <2>3. UNCHANGED <<served, messages>>
    BY <1>2 DEF SendAction, StartRemoteTask, CompleteLocalTask
  <2>4. PICK m : m = Other(n)
    OBVIOUS
  <2>5. PICK y : PutIn(net, net', m, y) /\ Replied(y) /\ m \in Node
    <3>1. CASE SendAction(n)
      <4>1. PICK y : y = Msg("CREATE_ACTION", Subject(n))
        OBVIOUS
      <4>2. PutIn(net, net', m, y) /\ m \in Node
        BY <2>4, <3>1, <4>1, SendActionStep
      <4>3. Replied(y)
        BY <4>1 DEF Replied, Msg
      <4> QED BY <4>2, <4>3
    <3>2. CASE StartRemoteTask(n)
      <4>1. PICK y : y = Msg("START_REMOTE_TASK", Subject(n))
        OBVIOUS
      <4>2. PutIn(net, net', m, y) /\ m \in Node
        BY <2>4, <3>2, <4>1, StartRemoteTaskStep
      <4>3. Replied(y)
        BY <4>1 DEF Replied, Msg
      <4> QED BY <4>2, <4>3
    <3>3. CASE CompleteLocalTask(n)
      <4>1. PICK y : y = Msg("COMPLETE_LOCAL_TASK", Subject(n))
        OBVIOUS
      <4>2. PutIn(net, net', m, y) /\ m \in Node /\ Subject(n) \in Task
            /\ served[Subject(n)] = "COMPLETE_LOCAL_TASK"
        BY <2>4, <3>3, <4>1, CompleteLocalTaskStep
      <4>3. Answered(Subject(n)) /\ y.on = Subject(n)
        BY <4>1, <4>2 DEF AnsweredInv, Msg
      <4>4. Replied(y)
        BY <4>3 DEF Replied
      <4> QED BY <4>2, <4>4
    <3> QED BY <1>2, <3>1, <3>2, <3>3
  <2>6. \A k \in Node : \A i \in DOMAIN net'[k] : Replied(net'[k][i])
    BY <2>5, PutReplies DEF AnsweredInv
  <2> QED BY <2>2, <2>3, <2>6 DEF Repeats, AnsweredInv
<1>3. ASSUME SetAwaiting(n) \/ AwaitLocalTask(n)
      PROVE  Repeats
  <2>0. PICK x : x = processer[n].msg
    OBVIOUS
  <2>1. Hand(n, "idle", None) /\ PutIn(messages, messages', n, x) /\ x.type = "SERVE"
    BY <1>3, <2>0, SetAwaitingStep, AwaitLocalTaskStep
  <2>2. \A m \in Node : processer'[m].at = "process" => Replied(processer'[m].msg)
    BY <2>1, HandReplies
  <2>3. Replied(x)
    BY <2>1 DEF Replied
  <2>4. \A m \in Node : \A i \in DOMAIN messages'[m] : Replied(messages'[m][i])
    BY <2>1, <2>3, PutReplies DEF AnsweredInv
  <2>5. \A t \in Task : served'[t] = "COMPLETE_LOCAL_TASK" => served[t] = "COMPLETE_LOCAL_TASK"
    <3>1. CASE AwaitLocalTask(n)
      BY <3>1 DEF AwaitLocalTask
    <3>2. CASE SetAwaiting(n)
      <4>1. served' = [served EXCEPT ![Subject(n)] = "AWAIT_LOCAL_TASK"]
        BY <3>2 DEF SetAwaiting
      <4> QED BY <4>1 DEF Inv1, Typed
    <3> QED BY <1>3, <3>1, <3>2
  <2>6. net' = net
    BY <1>3 DEF SetAwaiting, AwaitLocalTask
  <2> QED BY <2>2, <2>4, <2>5, <2>6 DEF Repeats, AnsweredInv
<1>4. ASSUME \/ AddRemoteAction(n) \/ AwaitAck(n) \/ ReceiveRemoteTask(n) \/ ListReceived(n)
             \/ SeeAwaiting(n) \/ CompleteRemoteTask(n)
      PROVE  Repeats
  <2>1. UNCHANGED <<served, messages, net>>
    BY <1>4 DEF AddRemoteAction, AwaitAck, ReceiveRemoteTask, ListReceived, SeeAwaiting,
       CompleteRemoteTask
  <2>2. \/ Done(n) \/ Step(n, "list") \/ Step(n, "await") \/ Step(n, "again")
    BY <1>4 DEF AddRemoteAction, AwaitAck, ReceiveRemoteTask, ListReceived, SeeAwaiting,
       CompleteRemoteTask
  <2>3. PICK at, x : Hand(n, at, x) /\ at # "process"
    BY <2>2, HandOk DEF HandPlace
  <2>4. \A m \in Node : processer'[m].at = "process" => Replied(processer'[m].msg)
    BY <2>3, HandReplies
  <2> QED BY <2>1, <2>4 DEF Repeats, AnsweredInv
<1> QED BY <1>1, <1>2, <1>3, <1>4 DEF ProcesserStep

LEMMA ListenerRepeats ==
  ASSUME Inv1, AnsweredInv, NEW n \in Node, ListenerStep(n)
  PROVE  Repeats
<1>0. PICK y, x : y = net[n][1] /\ x = Decode(y)
  OBVIOUS
<1>1. y \in NetMessage /\ GotIn(net, net', n) /\ PutIn(messages, messages', n, x)
  BY <1>0, ListenerStepStep
<1>2. /\ \A m \in Node : \A i \in DOMAIN net'[m] : Replied(net'[m][i])
      /\ Replied(y)
  BY <1>0, <1>1, GotReplies DEF AnsweredInv
<1>3. Replied(x)
  <2>1. CASE y.type = "COMPLETE_LOCAL_TASK"
    BY <1>0, <1>1, <1>2, <2>1, DecodeOk DEF Replied
  <2>2. CASE y.type = "START_REMOTE_TASK"
    <3>1. x.type = "SERVE"
      BY <1>0, <1>1, <2>2, DecodeOk
    <3> QED BY <3>1 DEF Replied
  <2>3. CASE y.type = "CREATE_ACTION"
    <3>1. x = Msg("ADD_REMOTE_ACTION", y.on)
      BY <1>0, <1>1, <2>3, DecodeOk
    <3>2. x.type = "ADD_REMOTE_ACTION"
      BY <3>1 DEF Msg
    <3> QED BY <3>2 DEF Replied
  <2> QED BY <1>1, <2>1, <2>2, <2>3, DecodeOk
<1>4. \A m \in Node : \A i \in DOMAIN messages'[m] : Replied(messages'[m][i])
  BY <1>1, <1>3, PutReplies DEF AnsweredInv
<1>5. UNCHANGED <<served, processer>>
  BY DEF ListenerStep
<1> QED BY <1>2, <1>4, <1>5 DEF Repeats, AnsweredInv

LEMMA AnsweredKept ==
  ASSUME Inv1, Inv2, Inv3, AnsweredInv, [Next]_vars
  PROVE  AnsweredInv'
<1>1. Repeats
  <2>1. CASE UNCHANGED vars
    <3>1. UNCHANGED <<messages, served, net, processer>>
      BY <2>1 DEF vars, remoteVars
    <3> QED BY <3>1 DEF Repeats, AnsweredInv
  <2> QED BY <2>1, ThreadRepeats, HandlerRepeats, ListenerRepeats DEF Next
<1>2. Inv1' /\ Evolves
  BY StepInv, StepEvolves
<1> QED BY <1>1, <1>2, RepeatsAnswered

LEMMA InitAnswered == Init => AnsweredInv
<1> SUFFICES ASSUME Init PROVE AnsweredInv
  OBVIOUS
<1>1. /\ task = [n \in Node |-> [t \in Task |-> NoTask]]
      /\ messages = [n \in Node |-> <<>>]
      /\ served = [t \in Task |-> "RECEIVE_REMOTE_TASK"]
      /\ net = [n \in Node |-> <<>>]
      /\ processer = [n \in Node |-> Idle]
  BY DEF Init, TasksInit
<1>2. \A n \in Node, t \in Task : task[n][t] = NoTask
  BY <1>1
<1>3. \A n \in Node, t \in Task : task[n][t].status = "NONE"
  BY <1>2 DEF NoTask
<1>4. \A n \in Node : processer[n].at = "idle"
  BY <1>1 DEF Idle
<1> QED BY <1>1, <1>3, <1>4 DEF AnsweredInv

-----------------------------------------------------------------------------
(* The phase of a task.                                                    *)

\* A task that has not entered its queue, or is not there yet.
Asleep(t) == \A n \in Node : task[n][t].status # "NONE" => Entering(n, t, {"entry"})

Finished(t) == \E n \in Node : CompleteAt(n, t)
Running(t) == \E n \in Node : task[n][t].status = "RUNNING"
Resting(t) == \E n \in Node : task[n][t].status \in {"WAITING", "COMPLETED"}

Unstarted(t) ==
  \A n \in Node : StartedOn(n, t) =>
    /\ task[n][t].status = "CREATED" /\ task[n][t].queue # None
    /\ t \notin ToSet(queue[task[n][t].queue])

\* A task that was received was started on another node.
LEMMA SenderThere ==
  ASSUME Inv2, NEW n \in Node, NEW t \in Task, task[n][t].message
  PROVE  \E m \in Node : m # n /\ task[m][t].type = "REMOTE" /\ StartedOn(m, t)
<1>1. PICK m \in Node : m # n /\ task[m][t].type = "REMOTE"
  BY DEF Inv2, RecordInv
<1>2. None # "REMOTE"
  BY MtapiAssumption
<1>3. task[m][t].status # "NONE" /\ ~task[m][t].message
  BY <1>1, <1>2 DEF Inv2, RecordInv
<1> QED BY <1>1, <1>3 DEF StartedOn

\* A task that enters its queue has no other record.
LEMMA EntryAlone ==
  ASSUME Inv1, Inv2, NEW n \in Node, NEW t \in Task, Entering(n, t, {"entry"})
  PROVE  /\ StartedOn(n, t) /\ task[n][t].status = "CREATED"
         /\ task[n][t].queue = prog.queue[t] /\ prog.queue[t] \in Queue
         /\ ~Held(n, t) /\ ~Listed(n, t)
         /\ \A m \in Node : m # n => task[m][t].status = "NONE"
<1>1. PICK th \in Thread : \E i \in DOMAIN stack[th] :
             Begins(th, i, n, t) /\ stack[th][i].at = "entry"
  BY DEF Entering
<1>2. PICK i \in DOMAIN stack[th] : Begins(th, i, n, t) /\ stack[th][i].at = "entry"
  BY <1>1
<1>3. PICK f : f = stack[th][i]
  OBVIOUS
<1>4. f \in FrameType /\ OpOk(th, f) /\ th[1] = n /\ OpOf(th, f).on = t /\ f.at = "entry"
  BY <1>2, <1>3 DEF Inv1, Typed, Shape, StackOk, GoodFrame, Begins
<1>5. /\ task[n][t].status = "CREATED" /\ task[n][t].queue = prog.queue[t]
      /\ ~task[n][t].message /\ ~Held(n, t) /\ ~Listed(n, t)
  BY <1>2, <1>4 DEF Inv2, BeginInv
<1>6. prog.queue[t] \in Queue
  BY <1>4, ProgTyped DEF OpOk, Inv1, Typed
<1>7. ~Sent(n, t)
  BY <1>5 DEF Sent, Held
<1>8. ASSUME NEW m \in Node, m # n PROVE task[m][t].status = "NONE"
  <2>1. task[m][t].status = "NONE" \/ task[m][t].message
    BY <1>5, <1>8 DEF Inv2, RecordInv
  <2>2. ASSUME task[m][t].message PROVE FALSE
    <3>1. PICK k \in Node : k # m /\ task[k][t].type = "REMOTE" /\ StartedOn(k, t)
      BY <2>2, SenderThere
    <3>3. k = n
      BY <1>5, <3>1 DEF Inv2, RecordInv, StartedOn
    <3> QED BY <1>5, <1>7, <2>2, <3>1, <3>3 DEF Inv2, UnsentInv
  <2> QED BY <2>1, <2>2
<1> QED BY <1>5, <1>6, <1>8 DEF StartedOn

LEMMA EntryUnqueued ==
  ASSUME Inv1, Inv2, Inv3, NEW n \in Node, NEW t \in Task, Entering(n, t, {"entry"}),
         NEW q \in Queue, NEW i \in DOMAIN queue[q]
  PROVE  queue[q][i] # t
<1> SUFFICES ASSUME queue[q][i] = t PROVE FALSE
  OBVIOUS
<1>1. PICK m \in Node : Queued(m, t, q)
  BY DEF Inv3, CountInv, QueueInv
<1>2. m # n
  BY <1>1 DEF Queued
<1>3. task[m][t].status = "NONE"
  BY <1>2, EntryAlone
<1>4. task[m][t].queue = None
  BY <1>3 DEF Inv2, RecordInv
<1> QED BY <1>1, <1>4, NotNone DEF Queued

LEMMA NothingEntering ==
  Inv1 /\ Inv2 /\ Inv3 => \A t \in Task : Unstarted(t) <=> Asleep(t)
<1> SUFFICES ASSUME Inv1, Inv2, Inv3, NEW t \in Task PROVE Unstarted(t) <=> Asleep(t)
  OBVIOUS
<1>1. ASSUME Unstarted(t), NEW n \in Node, task[n][t].status # "NONE"
      PROVE  Entering(n, t, {"entry"})
  <2>1. PICK m \in Node : StartedOn(m, t)
    <3>1. CASE ~task[n][t].message
      BY <1>1, <3>1 DEF StartedOn
    <3>2. CASE task[n][t].message
      BY <3>2, SenderThere
    <3> QED BY <3>1, <3>2
  <2>2. PICK q : q = task[m][t].queue
    OBVIOUS
  <2>3. /\ task[m][t].status = "CREATED" /\ q # None /\ t \notin ToSet(queue[q])
    BY <1>1, <2>1, <2>2 DEF Unstarted
  <2>4. q \in Queue
    BY <2>2, <2>3 DEF Inv1, Typed, TaskInfo
  <2>5. \A i \in DOMAIN queue[q] : queue[q][i] # t
    <3>1. queue[q] \in Seq(Task)
      BY <2>4 DEF Inv3, CountInv, QueueInv
    <3> QED BY <2>3, <3>1 DEF ToSet
  <2>6. ~Queued(m, t, q)
    BY <2>4, <2>5 DEF Inv3, CountInv, QueueInv
  <2>7. Entering(m, t, {"entry"})
    BY <2>2, <2>3, <2>6 DEF Queued, Open
  <2>8. n = m
    BY <1>1, <2>7, EntryAlone
  <2> QED BY <2>7, <2>8
<1>2. ASSUME Asleep(t), NEW n \in Node, StartedOn(n, t)
      PROVE  /\ task[n][t].status = "CREATED" /\ task[n][t].queue # None
             /\ t \notin ToSet(queue[task[n][t].queue])
  <2>1. Entering(n, t, {"entry"})
    BY <1>2 DEF Asleep, StartedOn
  <2>2. PICK q : q = task[n][t].queue
    OBVIOUS
  <2>3. q \in Queue /\ task[n][t].status = "CREATED"
    BY <2>1, <2>2, EntryAlone
  <2>4. \A i \in DOMAIN queue[q] : queue[q][i] # t
    BY <2>1, <2>3, EntryUnqueued
  <2>5. queue[q] \in Seq(Task)
    BY <2>3 DEF Inv3, CountInv, QueueInv
  <2>6. t \notin ToSet(queue[q])
    BY <2>4, <2>5 DEF ToSet
  <2> QED BY <2>2, <2>3, <2>6, NotNone
<1> QED BY <1>1, <1>2 DEF Unstarted, Asleep

\* The phase by these marks.
PhaseOf(t) ==
  IF Asleep(t) THEN "idle"
  ELSE IF Finished(t) THEN "complete"
  ELSE IF Running(t) THEN "running"
  ELSE IF Resting(t) THEN "waiting"
  ELSE "started"

LEMMA PhaseIs ==
  Inv1 /\ Inv2 /\ Inv3 => \A t \in Task : Phase(t) = PhaseOf(t)
<1> SUFFICES ASSUME Inv1, Inv2, Inv3, NEW t \in Task PROVE Phase(t) = PhaseOf(t)
  OBVIOUS
<1>1. Unstarted(t) <=> Asleep(t)
  BY NothingEntering
<1>2. Resting(t) <=> \/ \E n \in Node : task[n][t].status = "WAITING"
                     \/ \E n \in Node : task[n][t].status = "COMPLETED"
  BY DEF Resting
<1> QED BY <1>1, <1>2 DEF Phase, PhaseOf, Unstarted, Finished, Running, CompleteAt

LEMMA PhaseWillBe ==
  ASSUME Inv1', Inv2', Inv3'
  PROVE  \A t \in Task : Phase(t)' = PhaseOf(t)'
<1>1. (Inv1 /\ Inv2 /\ Inv3 => \A t \in Task : Phase(t) = PhaseOf(t))'
  BY PhaseIs, PTL
<1> QED BY <1>1

-----------------------------------------------------------------------------
(* The records of a task.                                                  *)

\* A record that is being processed, was received or is past CREATED wakes the task.
LEMMA Awake ==
  ASSUME Inv1, Inv2, NEW n \in Node, NEW t \in Task,
         \/ task[n][t].status \notin {"NONE", "CREATED"}
         \/ task[n][t].message
         \/ task[n][t].status # "NONE" /\ Held(n, t)
  PROVE  ~Asleep(t)
<1> SUFFICES ASSUME Asleep(t) PROVE FALSE
  OBVIOUS
<1>1. task[n][t].status # "NONE"
  BY DEF Inv2, RecordInv
<1>2. Entering(n, t, {"entry"})
  BY <1>1 DEF Asleep
<1>3. StartedOn(n, t) /\ task[n][t].status = "CREATED" /\ ~Held(n, t)
  BY <1>2, EntryAlone
<1> QED BY <1>1, <1>3 DEF StartedOn

\* The other record of a task that was received is where it was started.
LEMMA TwoRecords ==
  ASSUME Inv1, Inv2, NEW n \in Node, NEW t \in Task, task[n][t].message
  PROVE  \E m \in Node : /\ m # n /\ Node = {m, n} /\ StartedOn(m, t)
                         /\ task[m][t].type = "REMOTE" /\ ~task[m][t].message
                         /\ task[n][t].type = "LOCAL" /\ task[n][t].status # "NONE"
                         /\ Sent(m, t) \/ task[m][t].status \in {"WAITING", "COMPLETED"}
<1>1. PICK m \in Node : m # n /\ task[m][t].type = "REMOTE" /\ StartedOn(m, t)
  BY SenderThere
<1>2. action[m][prog.job[t]] = "REMOTE" /\ prog.job[t] \in Job
  BY <1>1, ProgTyped DEF Inv2, RecordInv, StartedOn, Inv1, Typed
<1>3. prog.distributed
  BY <1>1, <1>2 DEF Inv2, ActionInv
<1>4. Node = {m, n}
  <2>1. prog \in Programs
    BY DEF Inv1, Typed
  <2>2. Node = {m, Other(m)}
    BY <1>1, <1>3, <2>1, OtherOk
  <2> QED BY <1>1, <2>2
<1>5. task[n][t].status # "NONE" /\ task[n][t].type # "REMOTE"
  BY DEF Inv2, RecordInv
<1>6. task[n][t] \in TaskInfo /\ task[m][t] \in TaskInfo
  BY <1>1 DEF Inv1, Typed
<1>7. task[n][t].type = "LOCAL"
  BY <1>5, <1>6 DEF Inv2, RecordInv, TaskInfo
<1>8. Sent(m, t) \/ task[m][t].status \in {"WAITING", "COMPLETED"}
  <2>1. task[m][t].status # "RUNNING"
    BY <1>1, RunningLocal
  <2>2. task[m][t].status = "SCHEDULED" => Sent(m, t)
    BY <1>1, <1>3 DEF Sent
  <2>3. task[m][t].status = "CREATED" => Sent(m, t)
    BY <1>1 DEF Inv2, UnsentInv
  <2> QED BY <1>1, <1>6, <2>1, <2>2, <2>3 DEF TaskInfo, StartedOn
<1> QED BY <1>1, <1>4, <1>5, <1>7, <1>8 DEF StartedOn

\* A task that runs where it was started has no other record.
LEMMA LocalAlone ==
  ASSUME Inv1, Inv2, NEW n \in Node, NEW t \in Task, StartedOn(n, t), task[n][t].type = "LOCAL",
         NEW m \in Node, m # n
  PROVE  task[m][t].status = "NONE"
<1>1. task[m][t].status = "NONE" \/ task[m][t].message
  BY DEF Inv2, RecordInv, StartedOn
<1>2. ASSUME task[m][t].message PROVE FALSE
  <2>1. PICK k \in Node : StartedOn(k, t) /\ task[k][t].type = "REMOTE"
    BY <1>2, SenderThere
  <2> QED BY <2>1, OneStart
<1> QED BY <1>1, <1>2

\* A task is not complete while its function runs.
LEMMA RunningNow ==
  ASSUME Inv1, Inv2, AnsweredInv, NEW n \in Node, NEW t \in Task, task[n][t].status = "RUNNING"
  PROVE  PhaseOf(t) = "running"
<1>1. ~Asleep(t) /\ Running(t)
  BY Awake DEF Running
<1>2. ASSUME NEW k \in Node, CompleteAt(k, t) PROVE FALSE
  <2>1. CASE ~task[n][t].message
    <3>1. StartedOn(n, t) /\ StartedOn(k, t)
      BY <1>2, <2>1 DEF StartedOn, CompleteAt
    <3> QED BY <1>2, <3>1, OneStart DEF CompleteAt
  <2>2. CASE task[n][t].message
    <3>1. PICK m \in Node : /\ m # n /\ Node = {m, n} /\ StartedOn(m, t)
                            /\ task[m][t].type = "REMOTE" /\ ~task[m][t].message
      BY <2>2, TwoRecords
    <3>2. k = m
      BY <1>2, <3>1, OneStart DEF CompleteAt
    <3>3. Answered(t)
      BY <1>2, <3>1, <3>2 DEF AnsweredInv, CompleteAt
    <3> QED BY <3>1, <3>3 DEF Answered
  <2> QED BY <2>1, <2>2
<1>3. ~Finished(t)
  BY <1>2 DEF Finished
<1> QED BY <1>1, <1>3 DEF PhaseOf

LEMMA CompleteNow ==
  ASSUME Inv1, Inv2, NEW n \in Node, NEW t \in Task, CompleteAt(n, t)
  PROVE  PhaseOf(t) = "complete"
<1>1. ~Asleep(t) /\ Finished(t)
  BY Awake DEF Finished, CompleteAt
<1> QED BY <1>1 DEF PhaseOf

\* What the promise calls the parent of a task.
ParentOk(t) ==
  /\ Asleep(t) => Parent(t) = None
  /\ ~Asleep(t) => \E n \in Node : StartedOn(n, t) /\ Parent(t) = task[n][t].parent

LEMMA ParentIs == Inv1 /\ Inv2 /\ Inv3 => \A t \in Task : ParentOk(t)
<1> SUFFICES ASSUME Inv1, Inv2, Inv3, NEW t \in Task PROVE ParentOk(t)
  OBVIOUS
<1>1. Phase(t) = "idle" <=> Asleep(t)
  BY PhaseIs DEF PhaseOf
<1>2. ASSUME ~Asleep(t)
      PROVE  \E n \in Node : StartedOn(n, t) /\ Parent(t) = task[n][t].parent
  <2>1. PICK m \in Node : task[m][t].status # "NONE"
    BY <1>2 DEF Asleep
  <2>2. \E k \in Node : StartedOn(k, t)
    <3>1. CASE task[m][t].message
      BY <3>1, SenderThere
    <3>2. CASE ~task[m][t].message
      BY <2>1, <3>2 DEF StartedOn
    <3> QED BY <3>1, <3>2
  <2>3. PICK n : n = CHOOSE k \in Node : StartedOn(k, t)
    OBVIOUS
  <2>4. n \in Node /\ StartedOn(n, t)
    BY <2>2, <2>3
  <2>5. Parent(t) = task[n][t].parent
    BY <1>1, <1>2, <2>3 DEF Parent
  <2> QED BY <2>4, <2>5
<1> QED BY <1>1, <1>2 DEF Parent, ParentOk

LEMMA ParentWillBe ==
  ASSUME Inv1', Inv2', Inv3'
  PROVE  \A t \in Task : ParentOk(t)'
<1>1. (Inv1 /\ Inv2 /\ Inv3 => \A t \in Task : ParentOk(t))'
  BY ParentIs, PTL
<1> QED BY <1>1

LEMMA StartWillBeOne ==
  ASSUME Inv1', Inv2', NEW t \in Task, NEW m \in Node, NEW n \in Node,
         StartedOn(m, t)', StartedOn(n, t)'
  PROVE  m = n
BY DEF StartedOn, Inv2, RecordInv

-----------------------------------------------------------------------------
(* Steps of the promise.                                                   *)

\* The phase of one task changes.
PhaseMoves(t, from, to) ==
  /\ Phase(t) \in from /\ Phase(t)' = to
  /\ \A u \in Task : u # t => Phase(u)' = Phase(u)

ParentsStay == \A u \in Task : Parent(u)' = Parent(u)

LEMMA PhaseFunction ==
  ASSUME NEW t \in Task, NEW from, NEW to, PhaseMoves(t, from, to)
  PROVE  Promise!Move(t, from, to)
<1>1. PICK F, G : F = [u \in Task |-> Phase(u)] /\ G = [u \in Task |-> Phase(u)']
  OBVIOUS
<1>2. F[t] \in from /\ G[t] = to /\ \A u \in Task : u # t => G[u] = F[u]
  BY <1>1 DEF PhaseMoves
<1>3. G = [F EXCEPT ![t] = to]
  BY <1>1, <1>2
<1> QED BY <1>1, <1>2, <1>3 DEF Promise!Move

LEMMA PhasesSame ==
  ASSUME \A u \in Task : Phase(u)' = Phase(u)
  PROVE  [u \in Task |-> Phase(u)]' = [u \in Task |-> Phase(u)]
OBVIOUS

LEMMA ParentsSame ==
  ASSUME ParentsStay
  PROVE  [u \in Task |-> Parent(u)]' = [u \in Task |-> Parent(u)]
BY DEF ParentsStay

LEMMA StartPromise ==
  ASSUME NEW t \in Task, PhaseMoves(t, {"idle"}, "started"),
         \A u \in Task : u # t => Parent(u)' = Parent(u),
         Parent(t)' = None \/ (Parent(t)' \in Task /\ Phase(Parent(t)') = "running"),
         queue' = queue \/ \E q \in Queue : queue' = [queue EXCEPT ![q] = Append(@, t)],
         awaited' = awaited
  PROVE  Promise!Next
<1>1. Promise!Move(t, {"idle"}, "started")
  BY PhaseFunction
<1>2. PICK p : p = Parent(t)'
  OBVIOUS
<1>3. PICK F, G : F = [u \in Task |-> Parent(u)] /\ G = [u \in Task |-> Parent(u)']
  OBVIOUS
<1>4. G = [F EXCEPT ![t] = p]
  BY <1>2, <1>3
<1>5. p \in {None} \union {u \in Task : [v \in Task |-> Phase(v)][u] = "running"}
  BY <1>2
<1>6. Promise!Start(t)
  BY <1>1, <1>3, <1>4, <1>5 DEF Promise!Start
<1> QED BY <1>6 DEF Promise!Next

LEMMA RunPromise ==
  ASSUME NEW t \in Task, PhaseMoves(t, {"started"}, "running"), ParentsStay,
         \A q \in Queue : \A i \in DOMAIN queue[q] : queue[q][i] = t => Head(queue[q]) = t,
         UNCHANGED <<queue, awaited>>
  PROVE  Promise!Next
<1>1. Promise!Move(t, {"started"}, "running")
  BY PhaseFunction
<1>2. Promise!Run(t)
  BY <1>1, ParentsSame DEF Promise!Run, Promise!InQueue
<1> QED BY <1>2 DEF Promise!Next

LEMMA ReturnedPromise ==
  ASSUME NEW t \in Task, PhaseMoves(t, {"running"}, "waiting"), ParentsStay,
         UNCHANGED <<queue, awaited>>
  PROVE  Promise!Next
<1>1. Promise!Move(t, {"running"}, "waiting")
  BY PhaseFunction
<1>2. Promise!Returned(t)
  BY <1>1, ParentsSame DEF Promise!Returned
<1> QED BY <1>2 DEF Promise!Next

LEMMA CompletePromise ==
  ASSUME NEW t \in Task, PhaseMoves(t, {"running", "waiting"}, "complete"), ParentsStay,
         \A c \in Task : Parent(c) = t => Phase(c) = "complete",
         UNCHANGED <<queue, awaited>>
  PROVE  Promise!Next
<1>1. Promise!Move(t, {"running", "waiting"}, "complete")
  BY PhaseFunction
<1>2. Promise!Complete(t)
  BY <1>1, ParentsSame DEF Promise!Complete
<1> QED BY <1>2 DEF Promise!Next

LEMMA LeavePromise ==
  ASSUME NEW q \in Queue, queue[q] # <<>>, Head(queue[q]) \in Task,
         Phase(Head(queue[q])) = "complete", queue' = [queue EXCEPT ![q] = Tail(@)],
         \A u \in Task : Phase(u)' = Phase(u), ParentsStay, awaited' = awaited
  PROVE  Promise!Next
<1>1. Promise!Leave(q)
  BY PhasesSame, ParentsSame DEF Promise!Leave
<1> QED BY <1>1 DEF Promise!Next

LEMMA WaitPromise ==
  ASSUME awaited \subseteq awaited', awaited' \subseteq Task,
         \A t \in awaited' \ awaited : Phase(t) = "complete",
         \A u \in Task : Phase(u)' = Phase(u), ParentsStay, queue' = queue
  PROVE  Promise!Next
<1>1. Promise!Wait
  BY PhasesSame, ParentsSame DEF Promise!Wait
<1> QED BY <1>1 DEF Promise!Next

LEMMA StutterPromise ==
  ASSUME \A u \in Task : Phase(u)' = Phase(u), ParentsStay, UNCHANGED <<queue, awaited>>
  PROVE  UNCHANGED Promise!vars
BY PhasesSame, ParentsSame DEF Promise!vars

-----------------------------------------------------------------------------
(* The phase of a task by one of its records.                              *)

Sound == Inv1 /\ Inv2 /\ Inv3 /\ AnsweredInv

PhaseNow(n, t) ==
  LET status == task[n][t].status IN
  /\ Asleep(t) => Phase(t) = "idle"
  /\ status = "RUNNING" => Phase(t) = "running"
  /\ StartedOn(n, t) /\ status = "COMPLETED" => Phase(t) = "complete"
  /\ StartedOn(n, t) /\ status = "WAITING" => Phase(t) = "waiting"
  /\ task[n][t].message /\ status \in {"WAITING", "COMPLETED"} /\ ~Finished(t) =>
       Phase(t) = "waiting"
  /\ /\ StartedOn(n, t) /\ status \in {"CREATED", "SCHEDULED"} /\ ~Asleep(t)
     /\ \A k \in Node : k # n => task[k][t].status \in {"NONE", "CREATED"}
     => Phase(t) = "started"

LEMMA PhaseNowOk == Sound => \A n \in Node, t \in Task : PhaseNow(n, t)
<1> SUFFICES ASSUME Sound, NEW n \in Node, NEW t \in Task PROVE PhaseNow(n, t)
  OBVIOUS
<1>0. Inv1 /\ Inv2 /\ Inv3 /\ AnsweredInv
  BY DEF Sound
<1>1. Phase(t) = PhaseOf(t)
  BY <1>0, PhaseIs
<1>2. task[n][t].status = "RUNNING" => PhaseOf(t) = "running"
  BY <1>0, RunningNow
<1>3. StartedOn(n, t) /\ task[n][t].status = "COMPLETED" => PhaseOf(t) = "complete"
  BY <1>0, CompleteNow DEF CompleteAt
<1>4. ASSUME StartedOn(n, t), task[n][t].status = "WAITING" PROVE PhaseOf(t) = "waiting"
  <2>1. ~Asleep(t) /\ Resting(t)
    BY <1>0, <1>4, Awake DEF Resting
  <2>2. ~Finished(t)
    BY <1>0, <1>4, OneStart DEF Finished, CompleteAt
  <2>3. ASSUME NEW k \in Node, task[k][t].status = "RUNNING" PROVE FALSE
    <3>1. k # n
      BY <1>4, <2>3
    <3>2. task[k][t].message
      BY <1>0, <1>4, <2>3, <3>1 DEF Inv2, RecordInv, StartedOn
    <3>3. PICK m \in Node : /\ m # k /\ Node = {m, k} /\ task[m][t].type = "REMOTE"
                            /\ ~task[m][t].message
      BY <1>0, <3>2, TwoRecords
    <3>4. m = n
      BY <3>1, <3>3
    <3>5. Answered(t)
      BY <1>0, <1>4, <3>3, <3>4 DEF AnsweredInv
    <3> QED BY <2>3, <3>3, <3>5 DEF Answered
  <2> QED BY <2>1, <2>2, <2>3 DEF PhaseOf, Running
<1>5. ASSUME task[n][t].message, task[n][t].status \in {"WAITING", "COMPLETED"}, ~Finished(t)
      PROVE  PhaseOf(t) = "waiting"
  <2>1. ~Asleep(t) /\ Resting(t)
    BY <1>0, <1>5, Awake DEF Resting
  <2>2. PICK m \in Node : /\ m # n /\ Node = {m, n} /\ task[m][t].type = "REMOTE"
    BY <1>0, <1>5, TwoRecords
  <2>3. task[m][t].status # "RUNNING"
    BY <1>0, <2>2, RunningLocal
  <2>4. ~Running(t)
    BY <1>5, <2>2, <2>3 DEF Running
  <2> QED BY <1>5, <2>1, <2>4 DEF PhaseOf
<1>6. ASSUME StartedOn(n, t), task[n][t].status \in {"CREATED", "SCHEDULED"}, ~Asleep(t),
             \A k \in Node : k # n => task[k][t].status \in {"NONE", "CREATED"}
      PROVE  PhaseOf(t) = "started"
  <2>1. ~Finished(t) /\ ~Running(t) /\ ~Resting(t)
    BY <1>6 DEF Finished, Running, Resting, CompleteAt
  <2> QED BY <1>6, <2>1 DEF PhaseOf
<1>7. Asleep(t) => PhaseOf(t) = "idle"
  BY DEF PhaseOf
<1> QED BY <1>1, <1>2, <1>3, <1>4, <1>5, <1>6, <1>7 DEF PhaseNow

LEMMA PhaseThen == Sound' => \A n \in Node, t \in Task : PhaseNow(n, t)'
<1>1. (Sound => \A n \in Node, t \in Task : PhaseNow(n, t))'
  BY PhaseNowOk, PTL
<1> QED BY <1>1

\* A task whose records keep their status keeps its phase and its parent.
LEMMA SamePhase ==
  ASSUME Sound, Sound', NEW u \in Task, Asleep(u)' <=> Asleep(u),
         \A n \in Node : /\ task'[n][u].status = task[n][u].status
                         /\ task'[n][u].message = task[n][u].message
  PROVE  Phase(u)' = Phase(u)
<1>1. Phase(u) = PhaseOf(u) /\ Phase(u)' = PhaseOf(u)'
  BY PhaseIs, PhaseWillBe DEF Sound
<1>2. /\ Finished(u)' <=> Finished(u)
      /\ Running(u)' <=> Running(u)
      /\ Resting(u)' <=> Resting(u)
  BY DEF Finished, Running, Resting, CompleteAt, StartedOn
<1> QED BY <1>1, <1>2 DEF PhaseOf

LEMMA SameParent ==
  ASSUME Sound, Sound', Lasting, NEW u \in Task, Asleep(u)' <=> Asleep(u)
  PROVE  Parent(u)' = Parent(u)
<1>1. ParentOk(u) /\ ParentOk(u)'
  BY ParentIs, ParentWillBe DEF Sound
<1>2. CASE Asleep(u)
  BY <1>1, <1>2 DEF ParentOk
<1>3. CASE ~Asleep(u)
  <2>1. PICK m \in Node : StartedOn(m, u) /\ Parent(u) = task[m][u].parent
    BY <1>1, <1>3 DEF ParentOk
  <2>2. PICK n \in Node : StartedOn(n, u)' /\ Parent(u)' = task'[n][u].parent
    BY <1>1, <1>3 DEF ParentOk
  <2>3. StartedOn(m, u)' /\ task'[m][u].parent = task[m][u].parent
    BY <2>1, CompleteLasts DEF Lasting, StartedOn, Alike
  <2>4. m = n
    BY <2>2, <2>3, StartWillBeOne DEF Sound
  <2> QED BY <2>1, <2>2, <2>3, <2>4
<1> QED BY <1>2, <1>3

-----------------------------------------------------------------------------
(* The life of a task, as the promise sees it.                             *)

EntryStill ==
  \A n \in Node, t \in Task : Entering(n, t, {"entry"})' <=> Entering(n, t, {"entry"})

\* What a step does as the promise sees it.
Kept == Promise!Next \/ UNCHANGED Promise!vars

LEMMA LifeFrame ==
  ASSUME Sound, Sound', Lasting, EntryStill, NEW n \in Node, NEW t \in Task, NEW status,
         Changed(n, t, status), status = "NONE" <=> task[n][t].status = "NONE"
  PROVE  /\ \A u \in Task : Asleep(u)' <=> Asleep(u)
         /\ \A u \in Task : u # t => Phase(u)' = Phase(u)
         /\ ParentsStay
<1>1. \A m \in Node, u \in Task : task'[m][u].status = "NONE" <=> task[m][u].status = "NONE"
  BY DEF Changed
<1>2. ASSUME NEW u \in Task PROVE Asleep(u)' <=> Asleep(u)
  BY <1>1 DEF Asleep, EntryStill
<1>3. ASSUME NEW u \in Task, u # t PROVE Phase(u)' = Phase(u)
  <2>1. \A m \in Node : /\ task'[m][u].status = task[m][u].status
                        /\ task'[m][u].message = task[m][u].message
    BY <1>3 DEF Changed, Alike
  <2> QED BY <1>2, <2>1, SamePhase
<1>4. ASSUME NEW u \in Task PROVE Parent(u)' = Parent(u)
  BY <1>2, SameParent
<1> QED BY <1>2, <1>3, <1>4 DEF ParentsStay

LEMMA StaysKept ==
  ASSUME Sound, Sound', Lasting, EntryStill, NEW n \in Node, NEW t \in Task, Stays(n, t),
         UNCHANGED <<queue, awaited>>
  PROVE  Kept
<1>1. Changed(n, t, task[n][t].status)
  BY DEF Stays
<1>2. /\ \A u \in Task : Asleep(u)' <=> Asleep(u)
      /\ \A u \in Task : u # t => Phase(u)' = Phase(u)
      /\ ParentsStay
  BY <1>1, LifeFrame
<1>3. Phase(t)' = Phase(t)
  <2>1. \A m \in Node : /\ task'[m][t].status = task[m][t].status
                        /\ task'[m][t].message = task[m][t].message
    BY <1>1 DEF Changed, Alike
  <2> QED BY <1>2, <2>1, SamePhase
<1> QED BY <1>2, <1>3, StutterPromise DEF Kept

\* Before the function of a task runs.
LEMMA RunsStarted ==
  ASSUME Sound, NEW n \in Node, NEW t \in Task, Runs(n, t)
  PROVE  /\ Phase(t) = "started"
         /\ \A q \in Queue : \A i \in DOMAIN queue[q] : queue[q][i] = t => Head(queue[q]) = t
<1>0. Inv1 /\ Inv2 /\ Inv3 /\ AnsweredInv
  BY DEF Sound
<1>1. task[n][t].status = "CREATED" /\ task[n][t].type = "LOCAL" /\ Held(n, t) /\ MayRun(n, t)
  BY DEF Runs
<1>2. ~Asleep(t)
  BY <1>0, <1>1, Awake
<1>3. ASSUME NEW q \in Queue, NEW i \in DOMAIN queue[q], queue[q][i] = t
      PROVE  \E k \in Node : Queued(k, t, q) /\ StartedOn(k, t) /\ task[k][t].queue = q
  <2>1. PICK k \in Node : Queued(k, t, q)
    BY <1>0, <1>3 DEF Inv3, CountInv, QueueInv
  <2>2. task[k][t].queue = q /\ q # None
    BY <2>1, NotNone DEF Queued
  <2>3. task[k][t].status # "NONE" /\ ~task[k][t].message
    BY <1>0, <2>2 DEF Inv2, RecordInv
  <2> QED BY <2>1, <2>2, <2>3 DEF StartedOn
<1>4. CASE ~task[n][t].message
  <2>1. StartedOn(n, t)
    BY <1>1, <1>4 DEF StartedOn
  <2>2. \A k \in Node : k # n => task[k][t].status = "NONE"
    BY <1>0, <1>1, <2>1, LocalAlone
  <2>3. Phase(t) = "started"
    BY <1>1, <1>2, <2>1, <2>2, PhaseNowOk DEF PhaseNow
  <2>4. ASSUME NEW q \in Queue, NEW i \in DOMAIN queue[q], queue[q][i] = t
        PROVE  Head(queue[q]) = t
    <3>1. task[n][t].queue = q
      BY <1>0, <1>3, <2>1, <2>4, OneStart
    <3> QED BY <1>1, <3>1, NotNone DEF MayRun
  <2> QED BY <2>3, <2>4
<1>5. CASE task[n][t].message
  <2>1. PICK m \in Node : /\ m # n /\ Node = {m, n} /\ StartedOn(m, t)
                          /\ task[m][t].type = "REMOTE" /\ ~task[m][t].message
                          /\ Sent(m, t) \/ task[m][t].status \in {"WAITING", "COMPLETED"}
    BY <1>0, <1>5, TwoRecords
  <2>2. Sent(m, t)
    <3>1. ~Answered(t)
      BY <1>1, <2>1 DEF Answered
    <3> QED BY <1>0, <2>1, <3>1 DEF AnsweredInv
  <2>3. Phase(t) = "started"
    <3>1. task[m][t].status \in {"CREATED", "SCHEDULED"}
      BY <2>2 DEF Sent
    <3> QED BY <1>1, <1>2, <2>1, <3>1, PhaseNowOk DEF PhaseNow
  <2>4. Passed(m, t)
    <3>1. CASE task[m][t].status = "SCHEDULED"
      BY <3>1 DEF Passed
    <3>2. CASE task[m][t].status # "SCHEDULED"
      <4>1. Owes(m, t, "remote")
        BY <2>2, <3>2 DEF Sent, Owes, Tags
      <4> QED BY <4>1 DEF Passed
    <3> QED BY <3>1, <3>2
  <2>5. ASSUME NEW q \in Queue, NEW i \in DOMAIN queue[q], queue[q][i] = t
        PROVE  Head(queue[q]) = t
    <3>1. Queued(m, t, q)
      BY <1>0, <1>3, <2>1, <2>5, OneStart
    <3> QED BY <1>0, <2>4, <3>1 DEF Inv3, CountInv, QueueInv
  <2> QED BY <2>3, <2>5
<1> QED BY <1>4, <1>5

LEMMA RunsKept ==
  ASSUME Sound, Sound', Lasting, EntryStill, NEW n \in Node, NEW t \in Task, Runs(n, t),
         UNCHANGED <<queue, awaited>>
  PROVE  Kept
<1>1. Changed(n, t, "RUNNING") /\ task[n][t].status = "CREATED"
  BY DEF Runs
<1>2. (\A u \in Task : u # t => Phase(u)' = Phase(u)) /\ ParentsStay
  BY <1>1, LifeFrame
<1>3. task'[n][t].status = "RUNNING"
  BY <1>1 DEF Changed
<1>4. Phase(t)' = "running"
  BY <1>3, PhaseThen DEF PhaseNow
<1>5. PhaseMoves(t, {"started"}, "running")
  BY <1>2, <1>4, RunsStarted DEF PhaseMoves
<1> QED BY <1>2, <1>5, RunsStarted, RunPromise DEF Kept

LEMMA SchedulesKept ==
  ASSUME Sound, Sound', Lasting, EntryStill, NEW n \in Node, NEW t \in Task, Schedules(n, t),
         UNCHANGED <<queue, awaited>>
  PROVE  Kept
<1>0. Inv1 /\ Inv2 /\ Inv3 /\ AnsweredInv
  BY DEF Sound
<1>1. /\ Changed(n, t, "SCHEDULED") /\ task[n][t].status \in {"CREATED", "WAITING"}
      /\ task[n][t].type = "REMOTE"
  BY DEF Schedules
<1>2. /\ \A u \in Task : Asleep(u)' <=> Asleep(u)
      /\ \A u \in Task : u # t => Phase(u)' = Phase(u)
      /\ ParentsStay
  BY <1>1, LifeFrame
<1>3. /\ task'[n][t].status = "SCHEDULED"
      /\ \A k \in Node : k # n => task'[k][t].status = task[k][t].status
      /\ \A k \in Node : task'[k][t].message = task[k][t].message
  BY <1>1 DEF Changed, Alike
<1>4. Finished(t)' <=> Finished(t)
  BY <1>1, <1>3 DEF Finished, CompleteAt, StartedOn
<1>5. Running(t)' <=> Running(t)
  BY <1>1, <1>3 DEF Running
<1>6. Resting(t)' <=> Resting(t)
  <2>1. CASE task[n][t].status = "CREATED"
    BY <1>3, <2>1 DEF Resting
  <2>2. CASE task[n][t].status = "WAITING"
    <3>1. PICK k \in Node : task[k][t].message /\ task[k][t].status = "COMPLETED"
      BY <1>0, <1>1, <2>2 DEF AnsweredInv, Answered
    <3>2. k # n
      BY <2>2, <3>1
    <3> QED BY <1>3, <2>2, <3>1, <3>2 DEF Resting
  <2> QED BY <1>1, <2>1, <2>2
<1>7. Phase(t)' = Phase(t)
  <2>1. Phase(t) = PhaseOf(t) /\ Phase(t)' = PhaseOf(t)'
    BY PhaseIs, PhaseWillBe DEF Sound
  <2> QED BY <1>2, <1>4, <1>5, <1>6, <2>1 DEF PhaseOf
<1> QED BY <1>2, <1>7, StutterPromise DEF Kept

\* The record of a received task does not end the task.
LEMMA NotFinished ==
  ASSUME Sound, NEW n \in Node, NEW t \in Task, NEW status, Changed(n, t, status),
         ~Finished(t), status # "COMPLETED" \/ task[n][t].message
  PROVE  ~Finished(t)'
<1> SUFFICES ASSUME NEW k \in Node, CompleteAt(k, t)' PROVE FALSE
  BY DEF Finished
<1>1. task'[k][t].status = "COMPLETED" /\ ~task'[k][t].message
  BY DEF CompleteAt, StartedOn
<1>2. k # n
  BY <1>1 DEF Changed, Alike
<1>3. task[k][t].status = "COMPLETED" /\ ~task[k][t].message
  BY <1>1, <1>2 DEF Changed, Alike
<1> QED BY <1>3 DEF Finished, CompleteAt, StartedOn

LEMMA RunningUnfinished ==
  ASSUME Sound, NEW n \in Node, NEW t \in Task, task[n][t].status = "RUNNING"
  PROVE  Phase(t) = "running" /\ ~Finished(t)
<1>1. Phase(t) = "running"
  BY PhaseNowOk DEF PhaseNow
<1>2. ASSUME NEW k \in Node, CompleteAt(k, t) PROVE FALSE
  <2>1. Phase(t) = "complete"
    BY <1>2, PhaseNowOk DEF PhaseNow, CompleteAt
  <2> QED BY <1>1, <2>1
<1> QED BY <1>1, <1>2 DEF Finished

LEMMA EndsBodyKept ==
  ASSUME Sound, Sound', Lasting, EntryStill, NEW n \in Node, NEW t \in Task, EndsBody(n, t),
         UNCHANGED <<queue, awaited>>
  PROVE  Kept
<1>1. Changed(n, t, "WAITING") /\ task[n][t].status = "RUNNING"
  BY DEF EndsBody
<1>2. (\A u \in Task : u # t => Phase(u)' = Phase(u)) /\ ParentsStay
  BY <1>1, LifeFrame
<1>3. task'[n][t].status = "WAITING" /\ task'[n][t].message \in BOOLEAN
  BY <1>1 DEF Changed, TaskInfo
<1>4. Phase(t) = "running" /\ ~Finished(t)
  BY <1>1, RunningUnfinished
<1>5. ~Finished(t)'
  BY <1>1, <1>4, NotFinished
<1>6. Phase(t)' = "waiting"
  BY <1>3, <1>5, PhaseThen DEF PhaseNow, StartedOn
<1>7. PhaseMoves(t, {"running"}, "waiting")
  BY <1>2, <1>4, <1>6 DEF PhaseMoves
<1> QED BY <1>2, <1>7, ReturnedPromise DEF Kept

\* When a task completes where it was started, so have its children.
LEMMA ChildrenDone ==
  ASSUME Sound, DoneInv, NEW n \in Node, NEW t \in Task, StartedOn(n, t),
         task[n][t].status \in {"RUNNING", "WAITING"}, task[n][t].childCount = 0,
         NEW c \in Task, Parent(c) = t
  PROVE  Phase(c) = "complete"
<1>0. Inv1 /\ Inv2 /\ Inv3 /\ AnsweredInv
  BY DEF Sound
<1>1. ParentOk(c)
  BY <1>0, ParentIs
<1>2. PICK m \in Node : StartedOn(m, c) /\ task[m][c].parent = t
  BY <1>1, NotNone DEF ParentOk
<1>3. task[m][c].status = "COMPLETED"
  <2>1. CASE m = n
    BY <1>0, <1>2, <2>1, NoChildren
  <2>2. CASE m # n
    <3>1. task[m][t].status # "NONE"
      BY <1>0, <1>2, NotNone DEF Inv3, CountInv, ParentInv, StartedOn
    <3>2. task[m][t].message
      BY <1>0, <2>2, <3>1, OneStart DEF StartedOn
    <3>3. PICK k \in Node : k # m /\ Node = {k, m} /\ task[k][t].type = "REMOTE"
      BY <1>0, <3>2, TwoRecords
    <3>4. k = n
      BY <2>2, <3>3
    <3>5. task[n][t].status = "WAITING"
      <4>1. ASSUME task[n][t].status = "RUNNING" PROVE FALSE
        <5>1. task[n][t].type = "LOCAL"
          BY <1>0, <4>1, RunningLocal
        <5> QED BY <3>3, <3>4, <5>1
      <4> QED BY <4>1
    <3>6. Answered(t)
      BY <1>0, <3>3, <3>4, <3>5 DEF AnsweredInv
    <3>7. task[m][t].status = "COMPLETED"
      BY <3>3, <3>4, <3>6 DEF Answered, StartedOn
    <3> QED BY <1>2, <3>7 DEF DoneInv
  <2> QED BY <2>1, <2>2
<1> QED BY <1>2, <1>3, PhaseNowOk DEF PhaseNow

\* The node that started a task waits for the answer until the other one completes it.
LEMMA UnansweredUnfinished ==
  ASSUME Sound, NEW n \in Node, NEW t \in Task, task[n][t].message,
         task[n][t].status # "COMPLETED"
  PROVE  ~Finished(t)
<1> SUFFICES ASSUME NEW k \in Node, CompleteAt(k, t) PROVE FALSE
  BY DEF Finished
<1>0. Inv1 /\ Inv2 /\ Inv3 /\ AnsweredInv
  BY DEF Sound
<1>1. PICK m \in Node : /\ m # n /\ Node = {m, n} /\ StartedOn(m, t)
                        /\ task[m][t].type = "REMOTE" /\ ~task[m][t].message
  BY <1>0, TwoRecords
<1>2. k = m
  BY <1>0, <1>1, OneStart DEF CompleteAt
<1>3. Answered(t)
  BY <1>0, <1>1, <1>2 DEF AnsweredInv, CompleteAt
<1> QED BY <1>1, <1>3 DEF Answered

LEMMA CompletesKept ==
  ASSUME Sound, Sound', DoneInv, Lasting, EntryStill, NEW n \in Node, NEW t \in Task,
         Completes(n, t), UNCHANGED <<queue, awaited>>
  PROVE  Kept
<1>0. Inv1 /\ Inv2 /\ Inv3 /\ AnsweredInv
  BY DEF Sound
<1>1. /\ Changed(n, t, "COMPLETED") /\ task[n][t].status \in {"RUNNING", "WAITING"}
      /\ task[n][t].childCount = 0
  BY DEF Completes
<1>2. (\A u \in Task : u # t => Phase(u)' = Phase(u)) /\ ParentsStay
  BY <1>1, LifeFrame
<1>3. task'[n][t].status = "COMPLETED" /\ task'[n][t].message = task[n][t].message
  BY <1>1 DEF Changed, Alike
<1>4. CASE ~task[n][t].message
  <2>1. StartedOn(n, t) /\ StartedOn(n, t)'
    BY <1>1, <1>3, <1>4 DEF StartedOn
  <2>2. Phase(t) \in {"running", "waiting"}
    BY <1>1, <2>1, PhaseNowOk DEF PhaseNow
  <2>3. Phase(t)' = "complete"
    BY <1>3, <2>1, PhaseThen DEF PhaseNow
  <2>4. PhaseMoves(t, {"running", "waiting"}, "complete")
    BY <1>2, <2>2, <2>3 DEF PhaseMoves
  <2>5. \A c \in Task : Parent(c) = t => Phase(c) = "complete"
    BY <1>1, <2>1, ChildrenDone
  <2> QED BY <1>2, <2>4, <2>5, CompletePromise DEF Kept
<1>5. CASE task[n][t].message
  <2>1. ~Finished(t)
    BY <1>1, <1>5, UnansweredUnfinished
  <2>2. ~Finished(t)'
    BY <1>1, <1>5, <2>1, NotFinished
  <2>3. Phase(t)' = "waiting"
    BY <1>3, <1>5, <2>2, PhaseThen DEF PhaseNow
  <2>4. CASE task[n][t].status = "RUNNING"
    <3>1. Phase(t) = "running"
      BY <2>4, RunningUnfinished
    <3>2. PhaseMoves(t, {"running"}, "waiting")
      BY <1>2, <2>3, <3>1 DEF PhaseMoves
    <3> QED BY <1>2, <3>2, ReturnedPromise DEF Kept
  <2>5. CASE task[n][t].status = "WAITING"
    <3>1. Phase(t) = "waiting"
      BY <1>5, <2>1, <2>5, PhaseNowOk DEF PhaseNow
    <3>2. \A u \in Task : Phase(u)' = Phase(u)
      BY <1>2, <2>3, <3>1
    <3> QED BY <1>2, <3>2, StutterPromise DEF Kept
  <2> QED BY <1>1, <2>4, <2>5
<1> QED BY <1>4, <1>5

LEMMA AnswersKept ==
  ASSUME Sound, Sound', Lasting, EntryStill, NEW n \in Node, NEW t \in Task, Answers(n, t),
         UNCHANGED <<queue, awaited>>
  PROVE  Kept
<1>0. Inv1 /\ Inv2 /\ Inv3 /\ AnsweredInv
  BY DEF Sound
<1>1. /\ Changed(n, t, "WAITING") /\ task[n][t].status \in {"CREATED", "SCHEDULED"}
      /\ task[n][t].type = "REMOTE" /\ processer[n].at = "process"
      /\ processer[n].msg.type = "COMPLETE_REMOTE_TASK" /\ processer[n].msg.on = t
  BY DEF Answers, Sent
<1>2. (\A u \in Task : u # t => Phase(u)' = Phase(u)) /\ ParentsStay
  BY <1>1, LifeFrame
<1>3. Answered(t)
  BY <1>0, <1>1 DEF AnsweredInv, Replied
<1>4. PICK k \in Node : task[k][t].message /\ task[k][t].status = "COMPLETED"
  BY <1>3 DEF Answered
<1>5. StartedOn(n, t)
  <2>1. PICK m \in Node : m # k /\ Node = {m, k} /\ StartedOn(m, t)
    BY <1>0, <1>4, TwoRecords
  <2>2. n # k
    BY <1>1, <1>4
  <2> QED BY <2>1, <2>2
<1>6. ~Finished(t)
  BY <1>0, <1>1, <1>5, OneStart DEF Finished, CompleteAt
<1>7. Phase(t) = "waiting"
  BY <1>4, <1>6, PhaseNowOk DEF PhaseNow
<1>8. StartedOn(n, t)' /\ task'[n][t].status = "WAITING"
  BY <1>1, <1>5 DEF Changed, Alike, StartedOn
<1>9. Phase(t)' = "waiting"
  BY <1>8, PhaseThen DEF PhaseNow
<1>10. \A u \in Task : Phase(u)' = Phase(u)
  BY <1>2, <1>7, <1>9
<1> QED BY <1>2, <1>10, StutterPromise DEF Kept

LEMMA LifeKept ==
  ASSUME Sound, Sound', DoneInv, Lasting, EntryStill, NEW n \in Node, NEW t \in Task,
         Life(n, t), UNCHANGED <<queue, awaited>>
  PROVE  Kept
BY StaysKept, RunsKept, SchedulesKept, EndsBodyKept, CompletesKept, AnswersKept DEF Life

\* A step that leaves the tasks alone.
LEMMA RestKept ==
  ASSUME Sound, Sound', Lasting, EntryStill, task' = task
  PROVE  (\A u \in Task : Phase(u)' = Phase(u)) /\ ParentsStay
<1> SUFFICES ASSUME NEW u \in Task PROVE Phase(u)' = Phase(u) /\ Parent(u)' = Parent(u)
  BY DEF ParentsStay
<1>1. Asleep(u)' <=> Asleep(u)
  BY DEF Asleep, EntryStill
<1> QED BY <1>1, SamePhase, SameParent

-----------------------------------------------------------------------------
(* Which tasks enter a queue.                                              *)

\* A thread that is about to enter a task in a queue does so.
LEMMA EntryStep ==
  ASSUME NEW th \in Thread, ThreadStep(th), stack[th] # <<>>, Top(th).at = "entry"
  PROVE  EnterQueue(th)
BY DEF ThreadStep, TaskStep, CreateAction, StartTask, GrowGroup, CountInGroup, ListTask,
   WaitTask, WaitGroupAll, WaitGroupAny, CompareGroup, FetchResult, PopWaiting, PopWorker, NotYet,
   RunTask, RunRemotely, SetScheduled, EndBody, CheckWaiting, CheckScheduled, Reinsert, LeaveParent,
   LeaveQueue, LeaveGroup, GroupResult, Announce, InsertStart, MessageComplete,
   Doing, At, Processing, Completing

LEMMA ThreadEntryStill ==
  ASSUME Inv1, Inv2, prog' = prog, NEW th \in Thread, ThreadStep(th),
         ~EnterQueue(th), ~StartTask(th)
  PROVE  EntryStill
<1>1. stack[th] # <<>> => Top(th).at # "entry"
  BY EntryStep
<1>2. ASSUME NEW g, Strolls(th, g) PROVE EntryStill
  <2>1. stack[th] # <<>> /\ Replaced(th, g) /\ g.at # "entry"
    BY <1>2 DEF Strolls
  <2>2. Top(th).at \notin {"entry"} /\ g.at \notin {"entry"}
    BY <1>1, <2>1
  <2> QED BY <2>1, <2>2, ReplacedEntering DEF EntryStill
<1>3. ASSUME NEW g, NEW status, Turn(th, g, status) PROVE EntryStill
  <2>1. stack[th] # <<>> /\ Replaced(th, g) /\ g.at \notin BeginPlace
    BY <1>3 DEF Turn
  <2>2. Top(th).at \notin {"entry"} /\ g.at \notin {"entry"}
    BY <1>1, <2>1 DEF BeginPlace
  <2> QED BY <2>1, <2>2, ReplacedEntering DEF EntryStill
<1>4. ASSUME NEW status, Gone(th, status) PROVE EntryStill
  <2>1. stack[th] # <<>> /\ Removed(th)
    BY <1>4 DEF Gone
  <2>2. Top(th).at \notin {"entry"}
    BY <1>1, <2>1
  <2> QED BY <2>1, <2>2, RemovedEntering DEF EntryStill
<1>5. ASSUME NEW g, Take(th, g) PROVE EntryStill
  <2>1. Added(th, g) /\ g.at = "process" /\ (stack[th] # <<>> => Top(th).at = "pop")
    BY <1>5 DEF Take
  <2> QED BY <2>1, AddedMarks DEF EntryStill
<1> QED BY <1>2, <1>3, <1>4, <1>5, ThreadMoves DEF Serves

LEMMA StacksEntryStill ==
  ASSUME UNCHANGED <<prog, stack>>
  PROVE  EntryStill
BY StillMarks DEF EntryStill

\* A task that is started enters its queue, if it has one.
LEMMA StartEntry ==
  ASSUME Inv1, Inv2, NEW th \in Thread, NEW t, NEW g, Start(th, t, g)
  PROVE  /\ \A m \in Node, u \in Task : m # th[1] \/ u # t =>
              (Entering(m, u, {"entry"})' <=> Entering(m, u, {"entry"}))
         /\ Entering(th[1], t, {"entry"})' <=> g.at = "entry"
<1>0. PICK n, L : n = th[1] /\ L = Len(stack[th])
  OBVIOUS
<1>1. /\ stack[th] # <<>> /\ Top(th).at = "body" /\ t \in Task /\ g.at \in BeginPlace
  BY DEF Start
<1>2. n \in Node /\ ~Begun(n, t)
  BY <1>0, StartNew
<1>3. /\ \A uh \in Thread : DOMAIN stack'[uh] = DOMAIN stack[uh]
      /\ \A uh \in Thread : \A i \in DOMAIN stack[uh] :
           \/ stack'[uh][i] = stack[uh][i] /\ (uh # th \/ i # L)
           \/ uh = th /\ i = L /\ stack[uh][i] = Top(th) /\ stack'[uh][i] = g
      /\ \A uh \in Thread : \A i \in DOMAIN stack[uh] : \A m \in Node, u \in Task :
           Begins(uh, i, m, u)' <=>
             Begins(uh, i, m, u) \/ (uh = th /\ i = L /\ m = n /\ u = t)
      /\ L \in DOMAIN stack[th] /\ stack[th][L] = Top(th)
  BY <1>0, StartFrames DEF SameTasks
<1>4. \A m \in Node, u \in Task : ~Begins(th, L, m, u)
  BY <1>1, <1>3 DEF Begins, BeginPlace
<1>5. ASSUME NEW m \in Node, NEW u \in Task, m # n \/ u # t
      PROVE  Entering(m, u, {"entry"})' <=> Entering(m, u, {"entry"})
  BY <1>3, <1>4, <1>5 DEF Entering
<1>6. ASSUME g.at = "entry" PROVE Entering(n, t, {"entry"})'
  <2>1. Begins(th, L, n, t)' /\ stack'[th][L] = g /\ L \in DOMAIN stack'[th]
    BY <1>1, <1>2, <1>3
  <2> QED BY <1>6, <2>1 DEF Entering
<1>7. ASSUME Entering(n, t, {"entry"})' PROVE g.at = "entry"
  <2>1. PICK uh \in Thread : \E i \in DOMAIN stack'[uh] :
               Begins(uh, i, n, t)' /\ stack'[uh][i].at \in {"entry"}
    BY <1>7 DEF Entering
  <2>2. PICK i \in DOMAIN stack'[uh] : Begins(uh, i, n, t)' /\ stack'[uh][i].at \in {"entry"}
    BY <2>1
  <2>3. i \in DOMAIN stack[uh] /\ ~Begins(uh, i, n, t)
    BY <1>2, <1>3, <2>2 DEF Begun
  <2>4. uh = th /\ i = L
    BY <1>1, <1>2, <1>3, <2>2, <2>3
  <2> QED BY <1>3, <2>2, <2>4
<1> QED BY <1>0, <1>5, <1>6, <1>7

\* Who starts a task runs.
LEMMA ParentRuns ==
  ASSUME Sound, EntryInv, NEW th \in Thread, stack[th] # <<>>, Top(th).at = "entry",
         NEW p, p = task[th[1]][On(th)].parent, p # None
  PROVE  p \in Task /\ Phase(p) = "running"
<1>0. Inv1 /\ Inv2 /\ Inv3
  BY DEF Sound
<1>1. /\ Len(stack[th]) \in DOMAIN stack[th] /\ stack[th][Len(stack[th])] = Top(th)
      /\ On(th) = OpOf(th, Top(th)).on
  BY <1>0, TopOk
<1>2. Below(th, Top(th))
  BY <1>1 DEF EntryInv
<1>3. PICK k \in DOMAIN stack[th] : stack[th][k].task = p /\ stack[th][k].at \in RunPlace
  BY <1>1, <1>2 DEF Below
<1>4. p \in Task /\ th[1] \in Node /\ task[th[1]][p].status = "RUNNING"
  BY <1>0, <1>3, ScriptRuns
<1> QED BY <1>4, PhaseNowOk DEF PhaseNow

-----------------------------------------------------------------------------
(* Starting, leaving, waiting.                                             *)

LEMMA StartTaskKept ==
  ASSUME Sound, Sound', Lasting, NEW th \in Thread, StartTask(th), UNCHANGED remoteVars
  PROVE  Kept
<1>0. Inv1 /\ Inv2 /\ Inv3 /\ AnsweredInv
  BY DEF Sound
<1>1. PICK n, t, parent : n = th[1] /\ t = On(th) /\ parent = current[th]
  OBVIOUS
<1>2. PICK g : Start(th, t, g)
  BY <1>0, <1>1, StartTaskStep
<1>3. n \in Node /\ t \in Task /\ \A m \in Node : task[m][t].status = "NONE"
  BY <1>0, <1>1, <1>2, StartNew
<1>4. PICK q, h : Made(n, t, parent, q, h, FALSE)
  BY <1>1, <1>2 DEF Start
<1>5. /\ task'[n][t].status = "CREATED" /\ task'[n][t].parent = parent /\ ~task'[n][t].message
      /\ \A m \in Node, u \in Task : m # n \/ u # t =>
           /\ task'[m][u].status = task[m][u].status
           /\ task'[m][u].message = task[m][u].message
  BY <1>4 DEF Made, Alike
<1>6. /\ \A m \in Node, u \in Task : m # n \/ u # t =>
           (Entering(m, u, {"entry"})' <=> Entering(m, u, {"entry"}))
      /\ Entering(n, t, {"entry"})' <=> g.at = "entry"
  BY <1>0, <1>1, <1>2, StartEntry
<1>7. queue' = queue /\ awaited' = awaited
  BY DEF StartTask
<1>8. ASSUME NEW u \in Task, u # t
      PROVE  Phase(u)' = Phase(u) /\ Parent(u)' = Parent(u)
  <2>1. Asleep(u)' <=> Asleep(u)
    BY <1>5, <1>6, <1>8 DEF Asleep
  <2> QED BY <1>5, <1>8, <2>1, SamePhase, SameParent
<1>9. Asleep(t) /\ Phase(t) = "idle"
  <2>1. Asleep(t)
    BY <1>3 DEF Asleep
  <2> QED BY <1>3, <2>1, PhaseNowOk DEF PhaseNow
<1>10. CASE g.at = "entry"
  <2>1. Asleep(t)'
    BY <1>3, <1>5, <1>6, <1>10 DEF Asleep
  <2>2. Phase(t)' = "idle"
    BY <1>3, <2>1, PhaseThen DEF PhaseNow
  <2>3. Parent(t)' = Parent(t)
    BY <1>3, <1>9, <2>1, SameParent
  <2>4. (\A u \in Task : Phase(u)' = Phase(u)) /\ ParentsStay
    BY <1>8, <1>9, <2>2, <2>3 DEF ParentsStay
  <2> QED BY <1>7, <2>4, StutterPromise DEF Kept
<1>11. CASE g.at # "entry"
  <2>1. ~Asleep(t)'
    BY <1>3, <1>5, <1>6, <1>11 DEF Asleep
  <2>2. StartedOn(n, t)'
    BY <1>5 DEF StartedOn
  <2>3. Phase(t)' = "started"
    <3>1. \A k \in Node : k # n => task'[k][t].status \in {"NONE", "CREATED"}
      BY <1>3, <1>5
    <3>2. PhaseNow(n, t)'
      BY <1>3, PhaseThen
    <3> QED BY <1>5, <2>1, <2>2, <3>1, <3>2 DEF PhaseNow
  <2>4. PhaseMoves(t, {"idle"}, "started")
    BY <1>8, <1>9, <2>3 DEF PhaseMoves
  <2>5. PICK p : p = Parent(t)'
    OBVIOUS
  <2>6. p = parent
    <3>1. ParentOk(t)'
      BY <1>3, ParentWillBe DEF Sound
    <3>2. PICK m \in Node : StartedOn(m, t)' /\ Parent(t)' = task'[m][t].parent
      BY <2>1, <3>1 DEF ParentOk
    <3>3. m = n
      BY <1>3, <2>2, <3>2, StartWillBeOne DEF Sound
    <3> QED BY <1>5, <2>5, <3>2, <3>3
  <2>7. p = None \/ (p \in Task /\ Phase(p) = "running")
    <3>1. Born(n, t, parent, FALSE)
      BY <1>0, <1>1, StartTaskBorn
    <3>2. parent # None => parent \in Task /\ task[n][parent].status = "RUNNING"
      BY <3>1 DEF Born
    <3> QED BY <1>3, <2>6, <3>2, PhaseNowOk DEF PhaseNow
  <2>8. \A u \in Task : u # t => Parent(u)' = Parent(u)
    BY <1>8
  <2> QED BY <1>3, <1>7, <2>4, <2>5, <2>7, <2>8, StartPromise DEF Kept
<1> QED BY <1>10, <1>11

LEMMA EnterQueueKept ==
  ASSUME Sound, Sound', EntryInv, Lasting, NEW th \in Thread, EnterQueue(th)
  PROVE  Kept
<1>0. Inv1 /\ Inv2 /\ Inv3 /\ AnsweredInv
  BY DEF Sound
<1>1. PICK n, t, h : n = th[1] /\ t = On(th) /\ h = prog.queue[t]
  OBVIOUS
<1>2. stack[th] # <<>> /\ Top(th).at = "entry" /\ t \in Task /\ h \in Queue
  BY <1>0, <1>1, CallOk DEF EnterQueue, RunPlace, BeginPlace
<1>3. PICK place \in {"grow", "list"} : Goto(th, place)
  BY DEF EnterQueue
<1>4. /\ UNCHANGED <<prog, task, current>> /\ awaited' = awaited
      /\ queue' = [queue EXCEPT ![h] = Append(@, t)]
  BY <1>1 DEF EnterQueue
<1>5. /\ n \in Node /\ task[n][t].status = "CREATED" /\ ~task[n][t].message
      /\ Enters(n, t, Top(th).at, place, {"entry"})
  <2>1. CurrentInv /\ SeenInv
    BY <1>0 DEF Inv3
  <2>2. Top(th).at \in BeginPlace /\ place \in BeginPlace
    BY <1>2, <1>3 DEF BeginPlace
  <2>3. n = th[1] /\ t = On(th) /\ t \in Task /\ stack[th] # <<>> /\ Goto(th, place)
    BY <1>1, <1>2, <1>3
  <2> QED BY <1>0, <1>4, <2>1, <2>2, <2>3, MovesOn
<1>6. /\ Entering(n, t, {"entry"}) /\ ~Entering(n, t, {"entry"})'
      /\ \A m \in Node, u \in Task : m # n \/ u # t =>
           (Entering(m, u, {"entry"})' <=> Entering(m, u, {"entry"}))
  <2>1. /\ Entering(n, t, {"entry"}) <=> Top(th).at \in {"entry"}
        /\ Entering(n, t, {"entry"})' <=> place \in {"entry"}
        /\ \A m \in Node, u \in Task : m # n \/ u # t =>
             (Entering(m, u, {"entry"})' <=> Entering(m, u, {"entry"}))
    BY <1>5 DEF Enters
  <2> QED BY <1>2, <2>1
<1>7. StartedOn(n, t) /\ \A m \in Node : m # n => task[m][t].status = "NONE"
  BY <1>0, <1>2, <1>5, <1>6, EntryAlone
<1>8. ASSUME NEW u \in Task, u # t
      PROVE  Phase(u)' = Phase(u) /\ Parent(u)' = Parent(u)
  <2>1. Asleep(u)' <=> Asleep(u)
    BY <1>4, <1>6, <1>8 DEF Asleep
  <2> QED BY <1>4, <1>8, <2>1, SamePhase, SameParent
<1>9. Phase(t) = "idle"
  <2>1. Asleep(t)
    BY <1>6, <1>7 DEF Asleep
  <2> QED BY <1>2, <1>5, <2>1, PhaseNowOk DEF PhaseNow
<1>10. ~Asleep(t)' /\ StartedOn(n, t)'
  BY <1>4, <1>5, <1>6, <1>7 DEF Asleep, StartedOn
<1>11. Phase(t)' = "started"
  <2>1. \A k \in Node : k # n => task'[k][t].status \in {"NONE", "CREATED"}
    BY <1>4, <1>7
  <2>2. PhaseNow(n, t)' /\ task'[n][t].status = "CREATED"
    BY <1>2, <1>4, <1>5, PhaseThen
  <2> QED BY <1>10, <2>1, <2>2 DEF PhaseNow
<1>12. PhaseMoves(t, {"idle"}, "started")
  BY <1>8, <1>9, <1>11 DEF PhaseMoves
<1>13. PICK p : p = Parent(t)'
  OBVIOUS
<1>14. p = task[n][t].parent
  <2>1. ParentOk(t)'
    BY <1>2, ParentWillBe DEF Sound
  <2>2. PICK m \in Node : StartedOn(m, t)' /\ Parent(t)' = task'[m][t].parent
    BY <1>10, <2>1 DEF ParentOk
  <2>3. m = n
    BY <1>2, <1>5, <1>10, <2>2, StartWillBeOne DEF Sound
  <2> QED BY <1>4, <1>13, <2>2, <2>3
<1>15. p = None \/ (p \in Task /\ Phase(p) = "running")
  BY <1>1, <1>2, <1>14, ParentRuns
<1>16. \A u \in Task : u # t => Parent(u)' = Parent(u)
  BY <1>8
<1> QED BY <1>2, <1>4, <1>12, <1>13, <1>15, <1>16, StartPromise DEF Kept

LEMMA LeaveQueueKept ==
  ASSUME Sound, Sound', Lasting, EntryStill, NEW th \in Thread, LeaveQueue(th),
         UNCHANGED remoteVars
  PROVE  Kept
<1>0. Inv1 /\ Inv2 /\ Inv3 /\ AnsweredInv
  BY DEF Sound
<1>1. PICK n, t, h : n = th[1] /\ t = Mine(th) /\ h = task[n][t].queue
  OBVIOUS
<1>2. Completing(th, "queue")
  BY DEF LeaveQueue
<1>3. stack[th] # <<>> /\ Top(th).task # None /\ Top(th).at = "complete"
  BY <1>0, <1>2, TaskTop DEF Completing, RunPlace
<1>4. t \in Task /\ n \in Node /\ Held(n, t) /\ task[n][t].status = "COMPLETED"
  BY <1>0, <1>1, <1>3, HeldTop, TopHeld DEF Inv2, StatusAt
<1>5. /\ UNCHANGED <<prog, action, task, taskList, group, current, messages, net, processer>>
      /\ awaited' = awaited /\ queue' = [queue EXCEPT ![h] = Tail(@)]
  BY <1>1 DEF LeaveQueue, remoteVars
<1>6. Changed(n, t, task[n][t].status)
  BY <1>0, <1>4, <1>5, NothingSet
<1>7. /\ task[n][t] \in TaskInfo
      /\ StagesFit(Top(th).stages, task[n][t]) /\ "queue" \in ToSet(Top(th).stages)
      /\ Counting(n, t, "queue")
  BY <1>0, <1>1, <1>2, <1>3, <1>4, <1>5, <1>6, StageDone
<1>8. h \in Queue
  BY <1>1, <1>7 DEF StagesFit, TaskInfo
<1>9. Queued(n, t, h)
  <2>1. ~Entering(n, t, {"entry"})
    BY <1>0, <1>4, HeldEntered DEF BeginPlace
  <2> QED BY <1>1, <1>7, <2>1 DEF Queued, Counting
<1>10. queue[h] # <<>> /\ Head(queue[h]) = t
  <2>1. Owes(n, t, "queue")
    BY <1>4, <1>7 DEF Counting, Open
  <2>2. Passed(n, t)
    BY <2>1 DEF Passed
  <2>3. (\E i \in DOMAIN queue[h] : queue[h][i] = t) /\ Head(queue[h]) = t
    BY <1>0, <1>4, <1>8, <1>9, <2>2 DEF Inv3, CountInv, QueueInv
  <2> QED BY <2>3
<1>11. Phase(t) = "complete"
  <2>1. StartedOn(n, t)
    BY <1>0, <1>1, <1>4, <1>8, NotNone DEF StartedOn, Inv2, RecordInv
  <2> QED BY <1>4, <2>1, PhaseNowOk DEF PhaseNow
<1>12. (\A u \in Task : Phase(u)' = Phase(u)) /\ ParentsStay
  BY <1>5, RestKept
<1>13. Head(queue[h]) \in Task /\ Phase(Head(queue[h])) = "complete"
  BY <1>4, <1>10, <1>11
<1> QED BY <1>5, <1>8, <1>10, <1>12, <1>13, LeavePromise DEF Kept

LEMMA WaitsKept ==
  ASSUME Sound, Sound', StartedInv, WaitsForOwn(prog), Lasting, EntryStill, [Next]_vars,
         UNCHANGED <<task, queue>>
  PROVE  Kept
<1>0. Inv1 /\ Inv2 /\ Inv3
  BY DEF Sound
<1>1. /\ awaited \subseteq awaited'
      /\ \A t \in awaited' \ awaited : t \in Task /\ \E n \in Node : CompleteAt(n, t)
  BY <1>0, WaitReturns
<1>2. awaited' \subseteq Task
  BY <1>0, <1>1 DEF Inv1, Typed
<1>3. \A t \in awaited' \ awaited : Phase(t) = "complete"
  BY <1>1, PhaseNowOk DEF PhaseNow, CompleteAt
<1>4. (\A u \in Task : Phase(u)' = Phase(u)) /\ ParentsStay
  BY RestKept
<1> QED BY <1>1, <1>2, <1>3, <1>4, WaitPromise DEF Kept

\* A task that was received is not asleep, and its sender waits.
ReceivedOk(n, t) ==
  task[n][t].message =>
    /\ ~Asleep(t)
    /\ \E m \in Node : /\ m # n /\ Node = {m, n} /\ StartedOn(m, t)
                       /\ task[m][t].type = "REMOTE" /\ ~task[m][t].message
                       /\ Sent(m, t) \/ task[m][t].status \in {"WAITING", "COMPLETED"}

LEMMA Received == Inv1 /\ Inv2 => \A n \in Node, t \in Task : ReceivedOk(n, t)
<1> SUFFICES ASSUME Inv1, Inv2, NEW n \in Node, NEW t \in Task, task[n][t].message
             PROVE  /\ ~Asleep(t)
                    /\ \E m \in Node : /\ m # n /\ Node = {m, n} /\ StartedOn(m, t)
                                       /\ task[m][t].type = "REMOTE" /\ ~task[m][t].message
                                       /\ \/ Sent(m, t)
                                          \/ task[m][t].status \in {"WAITING", "COMPLETED"}
  BY DEF ReceivedOk
<1>1. ~Asleep(t)
  BY Awake
<1>2. \E m \in Node : /\ m # n /\ Node = {m, n} /\ StartedOn(m, t)
                      /\ task[m][t].type = "REMOTE" /\ ~task[m][t].message
                      /\ Sent(m, t) \/ task[m][t].status \in {"WAITING", "COMPLETED"}
  BY TwoRecords
<1> QED BY <1>1, <1>2

LEMMA ReceivedThen == Inv1' /\ Inv2' => \A n \in Node, t \in Task : ReceivedOk(n, t)'
<1>1. (Inv1 /\ Inv2 => \A n \in Node, t \in Task : ReceivedOk(n, t))'
  BY Received, PTL
<1> QED BY <1>1

LEMMA ReceiveKept ==
  ASSUME Sound, Sound', Lasting, NEW n \in Node, ReceiveRemoteTask(n)
  PROVE  Kept
<1>0. Inv1 /\ Inv2 /\ Inv3 /\ AnsweredInv
  BY DEF Sound
<1>1. PICK t : t = Subject(n)
  OBVIOUS
<1>2. Born(n, t, None, TRUE) /\ t \in Task
  BY <1>0, <1>1, ReceiveBorn
<1>3. PICK q, h : Made(n, t, None, q, h, TRUE)
  BY <1>2 DEF Born
<1>4. /\ task'[n][t].status = "CREATED" /\ task'[n][t].message /\ task[n][t].status = "NONE"
      /\ \A m \in Node, u \in Task : m # n \/ u # t =>
           /\ task'[m][u].status = task[m][u].status
           /\ task'[m][u].message = task[m][u].message
  BY <1>2, <1>3 DEF Born, Made, Alike
<1>5. UNCHANGED <<prog, stack, queue, awaited>>
  BY DEF ReceiveRemoteTask
<1>6. EntryStill
  BY <1>5, StacksEntryStill
<1>7. ReceivedOk(n, t)'
  BY <1>2, ReceivedThen DEF Sound
<1>8. PICK m \in Node : /\ m # n /\ Node = {m, n} /\ StartedOn(m, t)'
                        /\ task'[m][t].type = "REMOTE" /\ ~task'[m][t].message
                        /\ Sent(m, t)' \/ task'[m][t].status \in {"WAITING", "COMPLETED"}
  BY <1>4, <1>7 DEF ReceivedOk
<1>9. Sent(m, t)'
  <2> SUFFICES ASSUME task'[m][t].status \in {"WAITING", "COMPLETED"} PROVE FALSE
    BY <1>8
  <2>1. Answered(t)'
    BY <1>2, <1>8 DEF Sound, AnsweredInv
  <2> QED BY <1>4, <1>8, <2>1 DEF Answered
<1>10. /\ task'[m][t].status \in {"CREATED", "SCHEDULED"} /\ StartedOn(m, t)
       /\ task[m][t].status = task'[m][t].status
  BY <1>2, <1>4, <1>8, <1>9 DEF Sent, StartedOn
<1>11. ~Asleep(t)' /\ ~Asleep(t)
  <2>1. ~Asleep(t)'
    BY <1>4, <1>7 DEF ReceivedOk
  <2>2. ASSUME Asleep(t) PROVE FALSE
    <3>1. Entering(m, t, {"entry"})
      BY <1>10, <2>2 DEF Asleep
    <3>2. task[m][t].status = "CREATED" /\ ~Held(m, t)
      BY <1>0, <1>2, <3>1, EntryAlone
    <3> QED BY <1>5, <1>9, <1>10, <3>2 DEF Sent, Held, In
  <2> QED BY <2>1, <2>2
<1>12. Phase(t) = "started"
  <2>1. \A k \in Node : k # m => task[k][t].status \in {"NONE", "CREATED"}
    BY <1>4, <1>8
  <2>2. PhaseNow(m, t)
    BY <1>2, PhaseNowOk
  <2> QED BY <1>10, <1>11, <2>1, <2>2 DEF PhaseNow
<1>13. Phase(t)' = "started"
  <2>1. \A k \in Node : k # m => task'[k][t].status \in {"NONE", "CREATED"}
    BY <1>4, <1>8
  <2>2. PhaseNow(m, t)'
    BY <1>2, PhaseThen
  <2> QED BY <1>8, <1>10, <1>11, <2>1, <2>2 DEF PhaseNow
<1>14. ASSUME NEW u \in Task
       PROVE  Phase(u)' = Phase(u) /\ Parent(u)' = Parent(u)
  <2>1. CASE u = t
    <3>1. Parent(t)' = Parent(t)
      BY <1>2, <1>11, SameParent
    <3> QED BY <1>12, <1>13, <2>1, <3>1
  <2>2. CASE u # t
    <3>1. Asleep(u)' <=> Asleep(u)
      BY <1>4, <1>6, <2>2 DEF Asleep, EntryStill
    <3> QED BY <1>4, <2>2, <3>1, SamePhase, SameParent
  <2> QED BY <2>1, <2>2
<1>15. (\A u \in Task : Phase(u)' = Phase(u)) /\ ParentsStay
  BY <1>14 DEF ParentsStay
<1> QED BY <1>5, <1>15, StutterPromise DEF Kept

\* A step of a thread that starts no task.
LEMMA ThreadLives ==
  ASSUME Inv1, Inv2, Inv3, NEW th \in Thread, ThreadStep(th), ~StartTask(th)
  PROVE  Lives
<1>1. CASE Announce(th) \/ InsertStart(th) \/ MessageComplete(th)
  BY <1>1 DEF Announce, InsertStart, MessageComplete, Lives
<1>2. CASE TaskStep(th) /\ UNCHANGED remoteVars
  <2>1. CASE \/ NotYet(th) \/ RunTask(th) \/ RunRemotely(th) \/ SetScheduled(th)
             \/ CheckScheduled(th) \/ EndBody(th) \/ CheckWaiting(th) \/ LeaveParent(th)
    <3>1. CASE Handling1(th)
      BY <3>1, ProcessLife
    <3>2. CASE EndBody(th) \/ CheckWaiting(th) \/ LeaveParent(th)
      BY <1>2, <3>2, EndBodyLife, CheckWaitingLife, LeaveParentLife
    <3> QED BY <2>1, <3>1, <3>2 DEF Handling1
  <2>2. CASE task' = task
    BY <2>2 DEF Lives
  <2>3. \/ NotYet(th) \/ RunTask(th) \/ RunRemotely(th) \/ SetScheduled(th)
        \/ CheckScheduled(th) \/ EndBody(th) \/ CheckWaiting(th) \/ LeaveParent(th)
        \/ task' = task
    BY <1>2 DEF TaskStep, CreateAction, EnterQueue, GrowGroup, CountInGroup, ListTask, WaitTask,
       WaitGroupAll, WaitGroupAny, CompareGroup, FetchResult, PopWaiting, PopWorker, Reinsert,
       LeaveQueue, LeaveGroup, GroupResult
  <2> QED BY <2>1, <2>2, <2>3
<1> QED BY <1>1, <1>2 DEF ThreadStep

LEMMA ThreadKept ==
  ASSUME Sound, Sound', Inv4, WaitsForOwn(prog), Lasting, prog' = prog,
         NEW th \in Thread, ThreadStep(th), [Next]_vars
  PROVE  Kept
<1>0. Inv1 /\ Inv2 /\ Inv3 /\ StartedInv /\ EntryInv /\ DoneInv
  BY DEF Sound, Inv4
<1>1. CASE Announce(th) \/ InsertStart(th) \/ MessageComplete(th)
  <2>1. ~EnterQueue(th) /\ ~StartTask(th)
    BY <1>1 DEF Announce, InsertStart, MessageComplete, EnterQueue, StartTask, Doing, At, Completing
  <2>2. EntryStill
    BY <1>0, <2>1, ThreadEntryStill
  <2>3. UNCHANGED <<task, queue>>
    BY <1>1 DEF Announce, InsertStart, MessageComplete
  <2> QED BY <1>0, <2>2, <2>3, WaitsKept
<1>2. CASE TaskStep(th) /\ UNCHANGED remoteVars
  <2>1. CASE StartTask(th)
    BY <1>2, <2>1, StartTaskKept
  <2>2. CASE EnterQueue(th)
    BY <1>0, <2>2, EnterQueueKept
  <2>3. CASE ~StartTask(th) /\ ~EnterQueue(th)
    <3>1. EntryStill
      BY <1>0, <2>3, ThreadEntryStill
    <3>2. CASE LeaveQueue(th)
      BY <1>2, <3>1, <3>2, LeaveQueueKept
    <3>3. CASE \/ NotYet(th) \/ RunTask(th) \/ RunRemotely(th) \/ SetScheduled(th)
               \/ CheckScheduled(th) \/ EndBody(th) \/ CheckWaiting(th) \/ LeaveParent(th)
      <4>1. Lives
        BY <1>0, <2>3, ThreadLives
      <4>2. UNCHANGED <<queue, awaited>>
        BY <3>3 DEF NotYet, RunTask, RunRemotely, SetScheduled, CheckScheduled, EndBody,
           CheckWaiting, LeaveParent
      <4>3. CASE task' = task
        BY <1>0, <3>1, <4>2, <4>3, WaitsKept
      <4>4. CASE task' # task
        <5>1. PICK n \in Node, t \in Task : Life(n, t)
          BY <4>1, <4>4 DEF Lives
        <5> QED BY <1>0, <3>1, <4>2, <5>1, LifeKept
      <4> QED BY <4>3, <4>4
    <3>4. CASE UNCHANGED <<task, queue>>
      BY <1>0, <3>1, <3>4, WaitsKept
    <3>5. \/ LeaveQueue(th)
          \/ NotYet(th) \/ RunTask(th) \/ RunRemotely(th) \/ SetScheduled(th)
          \/ CheckScheduled(th) \/ EndBody(th) \/ CheckWaiting(th) \/ LeaveParent(th)
          \/ UNCHANGED <<task, queue>>
      BY <1>2, <2>3 DEF TaskStep, CreateAction, GrowGroup, CountInGroup, ListTask, WaitTask,
         WaitGroupAll, WaitGroupAny, CompareGroup, FetchResult, PopWaiting, PopWorker, Reinsert,
         LeaveGroup, GroupResult
    <3> QED BY <3>2, <3>3, <3>4, <3>5
  <2> QED BY <2>1, <2>2, <2>3
<1> QED BY <1>1, <1>2 DEF ThreadStep

LEMMA HandlerKept ==
  ASSUME Sound, Sound', Inv4, WaitsForOwn(prog), Lasting, prog' = prog,
         NEW n \in Node, ProcesserStep(n) \/ ListenerStep(n), [Next]_vars
  PROVE  Kept
<1>0. Inv1 /\ Inv2 /\ Inv3 /\ StartedInv /\ DoneInv
  BY DEF Sound, Inv4
<1>1. EntryStill
  BY StacksStay, StacksEntryStill
<1>2. CASE ReceiveRemoteTask(n)
  BY <1>2, ReceiveKept
<1>3. CASE CompleteRemoteTask(n)
  <2>1. Answers(n, Subject(n)) /\ Subject(n) \in Task
    BY <1>0, <1>3, AnswerLife
  <2>2. UNCHANGED <<queue, awaited>>
    BY <1>3 DEF CompleteRemoteTask
  <2> QED BY <1>1, <2>1, <2>2, AnswersKept
<1>4. CASE ~ReceiveRemoteTask(n) /\ ~CompleteRemoteTask(n)
  <2>1. UNCHANGED taskVars \/ UNCHANGED <<task, queue>>
    BY <1>4 DEF ProcesserStep, ListenerStep, PopMessage, SendAction, AddRemoteAction,
       StartRemoteTask, AwaitAck, ListReceived, SetAwaiting, SeeAwaiting, AwaitLocalTask,
       CompleteLocalTask
  <2>2. UNCHANGED <<task, queue>>
    BY <2>1 DEF taskVars
  <2> QED BY <1>0, <1>1, <2>2, WaitsKept
<1> QED BY <1>2, <1>3, <1>4

LEMMA StepKept ==
  ASSUME Sound, Sound', Inv4, WaitsForOwn(prog), [Next]_vars
  PROVE  [Promise!Next]_(Promise!vars)
<1>0. Inv1 /\ Inv2 /\ Inv3
  BY DEF Sound
<1>1. Lasting /\ prog' = prog
  BY <1>0, StepEvolves, EvolvesLasts
<1>2. Kept
  <2>1. ASSUME NEW th \in Thread, ThreadStep(th) PROVE Kept
    BY <1>1, <2>1, ThreadKept
  <2>2. ASSUME NEW n \in Node, ProcesserStep(n) \/ ListenerStep(n) PROVE Kept
    BY <1>1, <2>2, HandlerKept
  <2>3. CASE UNCHANGED vars
    <3>1. UNCHANGED <<prog, stack, task, queue>>
      BY <2>3 DEF vars, taskVars
    <3>2. EntryStill
      BY <3>1, StacksEntryStill
    <3> QED BY <1>1, <3>1, <3>2, WaitsKept DEF Inv4
  <2> QED BY <2>1, <2>2, <2>3 DEF Next
<1> QED BY <1>2 DEF Kept

LEMMA InitKept == Init => Promise!Init
<1> SUFFICES ASSUME Init PROVE Promise!Init
  OBVIOUS
<1>1. task = [n \in Node |-> [t \in Task |-> NoTask]] /\ queue = [q \in Queue |-> <<>>]
      /\ awaited = {}
  BY DEF Init, TasksInit
<1>2. \A n \in Node, t \in Task : ~StartedOn(n, t)
  <2>1. \A n \in Node, t \in Task : task[n][t] = NoTask
    BY <1>1
  <2> QED BY <2>1 DEF NoTask, StartedOn
<1>3. \A t \in Task : Phase(t) = "idle"
  BY <1>2 DEF Phase
<1>4. \A t \in Task : Parent(t) = None
  BY <1>3 DEF Parent
<1> QED BY <1>1, <1>3, <1>4 DEF Promise!Init

LEMMA Invariants5 ==
  ASSUME \A p \in Programs : WaitsForOwn(p)
  PROVE  Spec => [](Sound /\ Inv4 /\ prog \in Programs)
<1>1. Init => Inv1 /\ Inv2 /\ Inv3 /\ AnsweredInv /\ Inv4
  BY InitInv, InitInv3, InitInv4, InitAnswered
<1>2. /\ Inv1 /\ Inv2 /\ Inv3 /\ AnsweredInv /\ Inv4 /\ [Next]_vars
      => (Inv1 /\ Inv2 /\ Inv3 /\ AnsweredInv /\ Inv4)'
  BY StepInv, StepInv3, StepInv4, AnsweredKept
<1>3. Inv1 /\ Inv2 /\ Inv3 /\ AnsweredInv /\ Inv4 => Sound /\ Inv4 /\ prog \in Programs
  BY DEF Sound, Inv1, Typed
<1> QED BY <1>1, <1>2, <1>3, PTL DEF Spec

\* The runtime keeps what mtapi.c promises of tasks, for every application that
\* waits for what it has started: the function of every task runs once, on one
\* node; tasks of a queue run one at a time and in order; a task is complete
\* after its children; a wait returns for complete tasks only.
THEOREM KeepsThePromise ==
  ASSUME \A p \in Programs : WaitsForOwn(p)
  PROVE  Spec => ImplementsTasks
<1>1. Init => Promise!Init
  BY InitKept
<1>2. /\ Sound /\ Inv4 /\ prog \in Programs /\ (Sound /\ Inv4 /\ prog \in Programs)' /\ [Next]_vars
      => [Promise!Next]_(Promise!vars)
  BY StepKept
<1> QED BY <1>1, <1>2, Invariants5, PTL DEF Spec, ImplementsTasks, Promise!Spec

-----------------------------------------------------------------------------
(* Where the tasks of a group come from.                                   *)

\* A record with a group was made on its node, by main or by a task there.
MadeBy(n, t) ==
  \/ \E p \in DOMAIN prog.main[n] : StartsAt(prog.main[n], p, t)
  \/ \E u \in Task : /\ task[n][u].type = "LOCAL"
                     /\ \E p \in DOMAIN prog.body[u] : StartsAt(prog.body[u], p, t)

OriginInv ==
  \A n \in Node, t \in Task :
    task[n][t].group # None => task[n][t].group = prog.group[t] /\ MadeBy(n, t)

\* Old records keep their origin.
LEMMA OriginStays ==
  ASSUME prog' = prog, Lasting, Inv2, NEW n \in Node, NEW t \in Task, MadeBy(n, t)
  PROVE  MadeBy(n, t)'
<1>1. \A u \in Task : task[n][u].type = "LOCAL" => task'[n][u].type = "LOCAL"
  <2> SUFFICES ASSUME NEW u \in Task, task[n][u].type = "LOCAL" PROVE task'[n][u].type = "LOCAL"
    OBVIOUS
  <2>1. task[n][u].status # "NONE"
    BY MtapiAssumption DEF Inv2, RecordInv
  <2> QED BY <2>1 DEF Lasting, Alike
<1>2. CASE \E p \in DOMAIN prog.main[n] : StartsAt(prog.main[n], p, t)
  BY <1>2 DEF MadeBy, StartsAt
<1>3. CASE \E u \in Task : /\ task[n][u].type = "LOCAL"
                          /\ \E p \in DOMAIN prog.body[u] : StartsAt(prog.body[u], p, t)
  <2>1. PICK u \in Task : /\ task[n][u].type = "LOCAL"
                          /\ \E p \in DOMAIN prog.body[u] : StartsAt(prog.body[u], p, t)
    BY <1>3
  <2>2. task'[n][u].type = "LOCAL"
    BY <1>1, <2>1
  <2>3. \E p \in DOMAIN prog'.body[u] : StartsAt(prog'.body[u], p, t)
    BY <2>1
  <2> QED BY <2>2, <2>3 DEF MadeBy, StartsAt
<1> QED BY <1>2, <1>3 DEF MadeBy

LEMMA StartOrigin ==
  ASSUME Inv1, Inv2, NEW th \in Thread, NEW t, NEW g, Start(th, t, g)
  PROVE  MadeBy(th[1], t)
<1>0. PICK f : f = Top(th)
  OBVIOUS
<1>1. stack[th] # <<>> /\ f.at = "body" /\ f.ip \in DOMAIN ScriptOf(th, f)
      /\ StartsAt(ScriptOf(th, f), f.ip, t)
  BY <1>0 DEF Start
<1>2. Len(stack[th]) \in DOMAIN stack[th] /\ stack[th][Len(stack[th])] = f
  BY <1>0, <1>1, TopOk
<1>3. CASE f.task = None
  BY <1>1, <1>3 DEF MadeBy, ScriptOf
<1>4. CASE f.task # None
  <2>1. f.task \in Task /\ task[th[1]][f.task].type = "LOCAL"
    BY <1>1, <1>2, <1>4, ScriptRuns DEF RunPlace
  <2> QED BY <1>1, <1>4, <2>1 DEF MadeBy, ScriptOf
<1> QED BY <1>3, <1>4

\* Steps that start no task add no record of a group.
LEMMA OriginLives ==
  ASSUME Inv1, Inv2, Lasting, prog' = prog, OriginInv, Lives
  PROVE  OriginInv'
<1> SUFFICES ASSUME NEW n \in Node, NEW t \in Task, task'[n][t].group # None
             PROVE  task'[n][t].group = prog'.group[t] /\ MadeBy(n, t)'
  BY DEF OriginInv
<1>1. task'[n][t].group = task[n][t].group
  <2>1. ASSUME NEW m \in Node, NEW u \in Task, Life(m, u) PROVE task'[n][t].group = task[n][t].group
    BY <2>1 DEF Life, Stays, Runs, Schedules, EndsBody, Completes, Answers, Changed, Alike
  <2> QED BY <2>1 DEF Lives
<1> QED BY <1>1, OriginStays DEF OriginInv

LEMMA OriginMade ==
  ASSUME Inv1, Inv2, Lasting, prog' = prog, OriginInv,
         NEW n \in Node, NEW t \in Task, NEW parent, NEW q, NEW h, NEW message,
         Made(n, t, parent, q, h, message),
         h # None => h = prog.group[t] /\ MadeBy(n, t)
  PROVE  OriginInv'
<1> SUFFICES ASSUME NEW m \in Node, NEW u \in Task, task'[m][u].group # None
             PROVE  task'[m][u].group = prog'.group[u] /\ MadeBy(m, u)'
  BY DEF OriginInv
<1>1. CASE m = n /\ u = t
  <2>1. task'[n][t].group = h
    BY DEF Made
  <2> QED BY <1>1, <2>1, OriginStays
<1>2. CASE m # n \/ u # t
  <2>1. task'[m][u].group = task[m][u].group
    BY <1>2 DEF Made, Alike
  <2> QED BY <2>1, OriginStays DEF OriginInv
<1> QED BY <1>1, <1>2

LEMMA OriginKept ==
  ASSUME Inv1, Inv2, Inv3, OriginInv, [Next]_vars
  PROVE  OriginInv'
<1>1. Lasting /\ prog' = prog
  BY StepEvolves, EvolvesLasts
<1>2. ASSUME NEW th \in Thread, ThreadStep(th) PROVE OriginInv'
  <2>1. CASE ~StartTask(th)
    BY <1>1, <1>2, <2>1, ThreadLives, OriginLives
  <2>2. CASE StartTask(th)
    <3>1. PICK g : Start(th, On(th), g)
      <4>1. UNCHANGED remoteVars
        BY <1>2, <2>2 DEF ThreadStep, StartTask, Announce, InsertStart, MessageComplete,
           Doing, At, Completing
      <4> QED BY <2>2, <4>1, StartTaskStep
    <3>2. PICK n, t : n = th[1] /\ t = On(th)
      OBVIOUS
    <3>3. /\ Made(n, t, current[th], prog.queue[t], prog.group[t], FALSE) /\ t \in Task
          /\ n \in Node /\ MadeBy(n, t)
      BY <3>1, <3>2, StartOrigin, ThreadOk DEF Start
    <3> QED BY <1>1, <3>3, OriginMade
  <2> QED BY <2>1, <2>2
<1>3. ASSUME NEW n \in Node, ProcesserStep(n) \/ ListenerStep(n) PROVE OriginInv'
  <2>1. CASE ReceiveRemoteTask(n)
    <3>1. PICK t : t = Subject(n)
      OBVIOUS
    <3>2. t \in Task /\ Made(n, t, None, None, None, TRUE)
      BY <2>1, <3>1, ReceiveRemoteTaskStep
    <3> QED BY <1>1, <3>2, OriginMade
  <2>2. CASE CompleteRemoteTask(n)
    <3>1. Lives
      BY <2>2, AnswerLife, SomeLife DEF Life
    <3> QED BY <1>1, <3>1, OriginLives
  <2>3. CASE ~ReceiveRemoteTask(n) /\ ~CompleteRemoteTask(n)
    <3>1. UNCHANGED taskVars \/ task' = task
      BY <1>3, <2>3 DEF ProcesserStep, ListenerStep, PopMessage, SendAction, AddRemoteAction,
         StartRemoteTask, AwaitAck, ListReceived, SetAwaiting, SeeAwaiting, AwaitLocalTask,
         CompleteLocalTask
    <3>2. Lives
      BY <3>1 DEF taskVars, Lives
    <3> QED BY <1>1, <3>2, OriginLives
  <2> QED BY <2>1, <2>2, <2>3
<1>4. CASE UNCHANGED vars
  <2>1. Lives
    BY <1>4 DEF vars, taskVars, Lives
  <2> QED BY <1>1, <2>1, OriginLives
<1> QED BY <1>2, <1>3, <1>4 DEF Next

-----------------------------------------------------------------------------
(* Which frames a step changes.                                            *)

\* The places of a count and of a comparison.
Watched == {"count", "compare", "fetch"}

\* A frame at one of the places was there before.
Quiet(places) ==
  \A th \in Thread : \A i \in DOMAIN stack'[th] :
    stack'[th][i].at \in places => i \in DOMAIN stack[th] /\ stack'[th][i] = stack[th][i]

LEMMA ReplacedQuiet ==
  ASSUME Inv1, NEW th \in Thread, stack[th] # <<>>, NEW g, Replaced(th, g),
         NEW places, g.at \notin places
  PROVE  Quiet(places)
BY FramesReplaced DEF Quiet

LEMMA RemovedQuiet ==
  ASSUME Inv1, NEW th \in Thread, stack[th] # <<>>, Removed(th)
  PROVE  Quiet(Watched)
BY FramesRemoved DEF Quiet

LEMMA TakeQuiet ==
  ASSUME Inv1, NEW th \in Thread, NEW g, Take(th, g)
  PROVE  Quiet(Watched)
<1>1. Added(th, g) /\ g.at = "process" /\ (stack[th] # <<>> => Top(th).at = "pop")
  BY DEF Take
<1> QED BY <1>1, FramesAdded DEF Quiet, Watched

LEMMA GotoQuiet ==
  ASSUME Inv1, NEW th \in Thread, stack[th] # <<>>, NEW place \in Place \ Watched, Goto(th, place)
  PROVE  Quiet(Watched)
<1>1. PICK g : g = Moved(th, place)
  OBVIOUS
<1>2. Replaced(th, g) /\ g.at = place
  BY <1>1, MovedFrame
<1> QED BY <1>2, ReplacedQuiet

LEMMA NextQuiet ==
  ASSUME Inv1, NEW th \in Thread, stack[th] # <<>>, NextOp(th)
  PROVE  Quiet(Watched)
<1>1. PICK g : g = Advanced(th)
  OBVIOUS
<1>2. Replaced(th, g) /\ g.at = "body"
  BY <1>1, AdvancedFrame
<1> QED BY <1>2, ReplacedQuiet DEF Watched

LEMMA HandledQuiet ==
  ASSUME Inv1, NEW th \in Thread, Handled(th),
         Top(th).at # "process" \/ task[th[1]][Top(th).task].status # "CREATED"
  PROVE  Quiet(Watched)
<1>1. PICK status : Gone(th, status) \/ \E g : Turn(th, g, status)
  BY DEF Handled
<1>2. CASE Gone(th, status)
  BY <1>2, RemovedQuiet DEF Gone
<1>3. ASSUME NEW g, Turn(th, g, status) PROVE Quiet(Watched)
  <2>1. stack[th] # <<>> /\ Replaced(th, g) /\ g.at \notin RunPlace
    BY <1>3 DEF Turn
  <2>2. g.at \notin Watched
    BY <2>1 DEF Watched, RunPlace
  <2> QED BY <2>1, <2>2, ReplacedQuiet
<1> QED BY <1>1, <1>2, <1>3

LEMMA ThreadQuiet ==
  ASSUME Inv1, Inv2, NEW th \in Thread, ThreadStep(th),
         ~GrowGroup(th), ~WaitGroupAny(th), ~CompareGroup(th)
  PROVE  Quiet(Watched)
<1>0. HeldInv /\ RecordInv /\ ActionInv /\ StagesInv
  BY DEF Inv2
<1>1. CASE \/ CreateAction(th) \/ StartTask(th) \/ EnterQueue(th) \/ CountInGroup(th)
           \/ ListTask(th) \/ WaitTask(th) \/ WaitGroupAll(th) \/ FetchResult(th)
           \/ PopIdle(th) \/ Handling1(th) \/ Announce(th) \/ InsertStart(th)
  <2>1. stack[th] # <<>>
    BY <1>1 DEF CreateAction, StartTask, EnterQueue, CountInGroup, ListTask, WaitTask,
       WaitGroupAll, FetchResult, PopIdle, PopWaiting, Handling1, NotYet, RunTask, RunRemotely,
       SetScheduled, CheckScheduled, Announce, InsertStart, Doing, Processing, At
  <2>2. NextOp(th) \/ \E place \in Place \ Watched : Goto(th, place)
    <3>1. {"body", "announce", "entry", "grow", "list", "pop", "insert", "send", "schedule"}
          \subseteq Place \ Watched
      BY DEF Place, Watched
    <3> QED BY <1>1, <3>1 DEF CreateAction, StartTask, EnterQueue, CountInGroup, ListTask, WaitTask,
       WaitGroupAll, FetchResult, PopIdle, PopWaiting, Handling1, NotYet, RunTask, RunRemotely,
       SetScheduled, CheckScheduled, Announce, InsertStart, Goto
  <2> QED BY <2>1, <2>2, GotoQuiet, NextQuiet
<1>2. CASE MessageComplete(th)
  <2>1. Handled(th)
    BY <1>0, <1>2, MessageCompleteStep
  <2>2. Top(th).at # "process"
    BY <1>2 DEF MessageComplete, Completing, At
  <2> QED BY <2>1, <2>2, HandledQuiet
<1>3. ASSUME UNCHANGED remoteVars,
             \/ EndBody(th) \/ CheckWaiting(th) \/ Reinsert(th)
             \/ LeaveParent(th) \/ LeaveQueue(th) \/ LeaveGroup(th) \/ GroupResult(th)
      PROVE  Quiet(Watched)
  <2>1. Handled(th)
    BY <1>0, <1>3, EndBodyStep, CheckWaitingStep, ReinsertStep, LeaveParentStep,
       LeaveQueueStep, LeaveGroupStep, GroupResultStep
  <2>2. Top(th).at # "process" \/ task[th[1]][Top(th).task].status # "CREATED"
    BY <1>3 DEF EndBody, CheckWaiting, Reinsert, LeaveParent, LeaveQueue, LeaveGroup, GroupResult,
       Completing, Processing, At, Mine
  <2> QED BY <2>1, <2>2, HandledQuiet
<1>4. ASSUME UNCHANGED remoteVars, (PopWaiting(th) /\ taskList[th[1]] # <<>>) \/ PopWorker(th)
      PROVE  Quiet(Watched)
  BY <1>4, TakeStep, TakeQuiet
<1> QED BY <1>1, <1>2, <1>3, <1>4 DEF ThreadStep, TaskStep, Handling1, PopIdle

-----------------------------------------------------------------------------
(* What waitForGroupAny sees.                                              *)

SomeDone(g) == \E n \in Node, t \in Task : task[n][t].group = g /\ task[n][t].status = "COMPLETED"

\* Some script waits for any task of the group.
Awaits(g) == \E s \in Scripts(prog) : \E i \in DOMAIN s : s[i].do = "any" /\ s[i].on = g

\* Frame i of a thread is between the two counters, or between the look at them.
AddsTo(th, i, g) ==
  /\ i \in DOMAIN stack[th] /\ stack[th][i].at = "count"
  /\ prog.group[OpOf(th, stack[th][i]).on] = g

Compares(th, i, g) ==
  /\ i \in DOMAIN stack[th] /\ stack[th][i].at \in {"compare", "fetch"}
  /\ OpOf(th, stack[th][i]).on = g

Climbing(g) == \E th \in Thread : \E i \in DOMAIN stack[th] : AddsTo(th, i, g)

\* Until a task has completed numOfTask stays behind currentNumOfTask.
Behind(g) ==
  /\ group[g].num <= group[g].current
  /\ Climbing(g) => group[g].num + 1 <= group[g].current

BehindInv == \A g \in Group : Awaits(g) => SomeDone(g) \/ Behind(g)

\* The comparison that lets a wait return is right.
SawDone(th, f) ==
  /\ f.at = "fetch" => SomeDone(OpOf(th, f).on)
  /\ f.at = "compare" /\ f.seen < group[OpOf(th, f).on].num => SomeDone(OpOf(th, f).on)

SawInv == \A th \in Thread : \A i \in DOMAIN stack[th] : SawDone(th, stack[th][i])

LEMMA DoneLasts ==
  ASSUME Lasting, Inv2, NEW g \in Group, SomeDone(g)
  PROVE  SomeDone(g)'
<1>1. PICK n \in Node, t \in Task : task[n][t].group = g /\ task[n][t].status = "COMPLETED"
  BY DEF SomeDone
<1>2. task'[n][t].group = g /\ task'[n][t].status = "COMPLETED"
  BY <1>1 DEF Lasting, Alike
<1> QED BY <1>2 DEF SomeDone

\* A frame that counts a task has the start of it in its script.
LEMMA CountsStart ==
  ASSUME Inv1, NEW th \in Thread, NEW i, NEW g \in Group, AddsTo(th, i, g)
  PROVE  /\ i \in DOMAIN stack[th] /\ stack[th][i].at \in RunPlace
         /\ ScriptOf(th, stack[th][i]) \in Scripts(prog)
         /\ \E t \in Task : \E p \in DOMAIN ScriptOf(th, stack[th][i]) :
              StartsAt(ScriptOf(th, stack[th][i]), p, t) /\ prog.group[t] = g
<1>1. PICK f : f = stack[th][i]
  OBVIOUS
<1>2. i \in DOMAIN stack[th] /\ f.at = "count" /\ prog.group[OpOf(th, f).on] = g
  BY <1>1 DEF AddsTo
<1>3. f \in FrameType /\ OpOk(th, f)
  BY <1>1, <1>2 DEF Inv1, Typed, Shape, StackOk, GoodFrame
<1>4. f.ip \in DOMAIN ScriptOf(th, f) /\ OpOf(th, f) \in Op /\ OpOf(th, f).do = "start"
  BY <1>2, <1>3 DEF OpOk, RunPlace, BeginPlace
<1>5. OpOf(th, f).on \in Task /\ StartsAt(ScriptOf(th, f), f.ip, OpOf(th, f).on)
  BY <1>4, OpTyped DEF StartsAt, OpOf
<1> QED BY <1>1, <1>2, <1>3, <1>4, <1>5, ScriptIn DEF RunPlace

LEMMA ComparesAny ==
  ASSUME Inv1, NEW th \in Thread, NEW i, NEW g, Compares(th, i, g)
  PROVE  /\ i \in DOMAIN stack[th] /\ stack[th][i].at \in RunPlace
         /\ ScriptOf(th, stack[th][i]) \in Scripts(prog)
         /\ \E p \in DOMAIN ScriptOf(th, stack[th][i]) :
              /\ ScriptOf(th, stack[th][i])[p].do = "any"
              /\ ScriptOf(th, stack[th][i])[p].on = g
<1>1. PICK f : f = stack[th][i]
  OBVIOUS
<1>2. i \in DOMAIN stack[th] /\ f.at \in {"compare", "fetch"} /\ OpOf(th, f).on = g
  BY <1>1 DEF Compares
<1>3. f \in FrameType /\ OpOk(th, f)
  BY <1>1, <1>2 DEF Inv1, Typed, Shape, StackOk, GoodFrame
<1>4. f.ip \in DOMAIN ScriptOf(th, f) /\ OpOf(th, f).do = "any"
  BY <1>2, <1>3 DEF OpOk, RunPlace
<1> QED BY <1>1, <1>2, <1>3, <1>4, ScriptIn DEF RunPlace, OpOf

\* While a frame counts a task no other one counts or looks at the group.
LEMMA OneFrame ==
  ASSUME Inv1, Inv2, WaitsForOwn(prog), NEW g \in Group, Awaits(g),
         NEW th \in Thread, NEW i, AddsTo(th, i, g),
         NEW uh \in Thread, NEW k, AddsTo(uh, k, g) \/ Compares(uh, k, g)
  PROVE  th = uh /\ i = k
<1>1. PICK r, s : r = ScriptOf(th, stack[th][i]) /\ s = ScriptOf(uh, stack[uh][k])
  OBVIOUS
<1>2. i \in DOMAIN stack[th] /\ stack[th][i].at \in RunPlace /\ r \in Scripts(prog)
  BY <1>1, CountsStart
<1>3. PICK t \in Task : \E p \in DOMAIN r : StartsAt(r, p, t) /\ prog.group[t] = g
  BY <1>1, CountsStart
<1>4. PICK p \in DOMAIN r : StartsAt(r, p, t) /\ prog.group[t] = g
  BY <1>3
<1>5. k \in DOMAIN stack[uh] /\ stack[uh][k].at \in RunPlace /\ s \in Scripts(prog)
  BY <1>1, CountsStart, ComparesAny
<1>6. r = s
  <2>1. CASE Compares(uh, k, g)
    <3>1. PICK q \in DOMAIN s : s[q].do = "any" /\ s[q].on = g
      BY <1>1, <2>1, ComparesAny
    <3> QED BY <1>2, <1>4, <1>5, <3>1 DEF WaitsForOwn
  <2>2. CASE AddsTo(uh, k, g)
    <3>1. PICK u \in Task : \E q \in DOMAIN s : StartsAt(s, q, u) /\ prog.group[u] = g
      BY <1>1, <2>2, CountsStart
    <3>2. PICK q \in DOMAIN s : StartsAt(s, q, u) /\ prog.group[u] = g
      BY <3>1
    <3>3. PICK w \in Scripts(prog) : \E o \in DOMAIN w : w[o].do = "any" /\ w[o].on = g
      BY DEF Awaits
    <3>4. PICK o \in DOMAIN w : w[o].do = "any" /\ w[o].on = g
      BY <3>3
    <3>5. r = w
      BY <1>2, <1>4, <3>4 DEF WaitsForOwn
    <3>6. s = w
      BY <1>5, <3>2, <3>4 DEF WaitsForOwn
    <3> QED BY <3>5, <3>6
  <2> QED BY <2>1, <2>2
<1>7. StartsAt(ScriptOf(th, stack[th][i]), p, t) /\ StartsAt(ScriptOf(uh, stack[uh][k]), p, t)
  BY <1>1, <1>4, <1>6
<1> QED BY <1>2, <1>5, <1>7, ScriptOnce

\* A count that goes on is one that was there.
LEMMA CountingStays ==
  ASSUME prog' = prog, Quiet({"count"}), NEW th \in Thread, NEW i, NEW g, AddsTo(th, i, g)'
  PROVE  AddsTo(th, i, g) /\ stack'[th][i] = stack[th][i]
<1>1. i \in DOMAIN stack'[th] /\ stack'[th][i].at = "count"
      /\ prog.group[OpOf(th, stack'[th][i]).on] = g
  BY DEF AddsTo, OpOf, ScriptOf
<1>2. i \in DOMAIN stack[th] /\ stack'[th][i] = stack[th][i]
  BY <1>1 DEF Quiet
<1> QED BY <1>1, <1>2 DEF AddsTo

LEMMA CountingBefore ==
  ASSUME prog' = prog, Quiet({"count"}), NEW g, Climbing(g)'
  PROVE  Climbing(g)
<1>1. PICK th \in Thread : \E i \in DOMAIN stack'[th] : AddsTo(th, i, g)'
  BY DEF Climbing
<1>2. PICK i \in DOMAIN stack'[th] : AddsTo(th, i, g)'
  BY <1>1
<1>3. AddsTo(th, i, g)
  BY <1>2, CountingStays
<1> QED BY <1>3 DEF Climbing, AddsTo

\* The counters of a group stay.
NumStays(g) == group'[g].num = group[g].num
CounterStays(g) == NumStays(g) /\ group'[g].current = group[g].current

LEMMA BehindStays ==
  ASSUME Inv2, Lasting, prog' = prog, BehindInv, NEW g \in Group, Awaits(g),
         CounterStays(g), Climbing(g)' => Climbing(g)
  PROVE  SomeDone(g)' \/ Behind(g)'
<1>1. CASE SomeDone(g)
  BY <1>1, DoneLasts
<1>2. CASE Behind(g)
  BY <1>2 DEF Behind, CounterStays, NumStays
<1> QED BY <1>1, <1>2 DEF BehindInv

LEMMA BehindQuiet ==
  ASSUME Inv2, Lasting, prog' = prog, BehindInv, Quiet({"count"}),
         \A g \in Group : CounterStays(g) \/ SomeDone(g)
  PROVE  BehindInv'
<1> SUFFICES ASSUME NEW g \in Group, Awaits(g)' PROVE SomeDone(g)' \/ Behind(g)'
  BY DEF BehindInv
<1>1. Awaits(g)
  BY DEF Awaits, Scripts
<1> QED BY <1>1, BehindStays, CountingBefore, DoneLasts

LEMMA GrowBehind ==
  ASSUME Inv1, Inv2, Lasting, prog' = prog, BehindInv, NEW th \in Thread, GrowGroup(th)
  PROVE  BehindInv'
<1>0. PICK h, L : h = prog.group[On(th)] /\ L = Len(stack[th])
  OBVIOUS
<1>1. /\ stack[th] # <<>> /\ Top(th).at = "grow" /\ Goto(th, "count")
      /\ group' = [group EXCEPT ![h].current = @ + 1]
  BY <1>0 DEF GrowGroup, At
<1>2. L \in DOMAIN stack[th] /\ OpOk(th, Top(th)) /\ On(th) = OpOf(th, Top(th)).on
  BY <1>0, <1>1, TopOk DEF GoodFrame
<1>3. h \in Group
  <2>1. OpOf(th, Top(th)) \in Op /\ OpOf(th, Top(th)).do = "start" /\ h # None
    BY <1>0, <1>1, <1>2 DEF OpOk, RunPlace, BeginPlace
  <2>2. On(th) \in Task
    BY <1>2, <2>1, OpTyped
  <2> QED BY <1>0, <2>1, <2>2, ProgTyped DEF Inv1, Typed
<1>4. group \in [Group -> [num : Nat, current : Int, result : Task \union {None}]]
  BY DEF Inv1, Typed
<1>5. /\ group[h].num \in Nat /\ group[h].current \in Int
      /\ group'[h].num = group[h].num /\ group'[h].current = group[h].current + 1
      /\ \A g \in Group : g # h => group'[g] = group[g]
  BY <1>1, <1>3, <1>4
<1>6. PICK f : f = Moved(th, "count")
  OBVIOUS
<1>7. Replaced(th, f) /\ OpOf(th, f) = OpOf(th, Top(th))
  <2>1. "count" \in Place
    BY DEF Place
  <2> QED BY <1>1, <1>6, <2>1, MovedFrame, MovedOp
<1>8. /\ stack'[th][L] = f
      /\ \A uh \in Thread : DOMAIN stack'[uh] = DOMAIN stack[uh]
      /\ \A uh \in Thread : \A i \in DOMAIN stack[uh] : uh # th \/ i # L => stack'[uh][i] = stack[uh][i]
  BY <1>0, <1>1, <1>7, FramesReplaced
<1> SUFFICES ASSUME NEW g \in Group, Awaits(g)' PROVE SomeDone(g)' \/ Behind(g)'
  BY DEF BehindInv
<1>9. Awaits(g)
  BY DEF Awaits, Scripts
<1>10. CASE g # h
  <2>1. CounterStays(g)
    BY <1>5, <1>10 DEF CounterStays, NumStays
  <2>2. ASSUME Climbing(g)' PROVE Climbing(g)
    <3>1. PICK uh, i : uh \in Thread /\ i \in DOMAIN stack'[uh] /\ AddsTo(uh, i, g)'
      BY <2>2 DEF Climbing
    <3>2. /\ i \in DOMAIN stack[uh] /\ stack'[uh][i].at = "count"
          /\ prog.group[OpOf(uh, stack'[uh][i]).on] = g
      BY <1>8, <3>1 DEF AddsTo, OpOf, ScriptOf
    <3>3. uh # th \/ i # L
      BY <1>0, <1>2, <1>7, <1>8, <1>10, <3>2
    <3>4. AddsTo(uh, i, g)
      BY <1>8, <3>1, <3>2, <3>3 DEF AddsTo
    <3> QED BY <3>1, <3>2, <3>4 DEF Climbing
  <2> QED BY <1>9, <2>1, <2>2, BehindStays
<1>11. CASE g = h
  <2>1. CASE SomeDone(g)
    BY <2>1, DoneLasts
  <2>2. CASE Behind(g)
    <3>1. group[g].num <= group[g].current
      BY <2>2 DEF Behind
    <3> QED BY <1>5, <1>11, <3>1 DEF Behind
  <2> QED BY <1>9, <2>1, <2>2 DEF BehindInv
<1> QED BY <1>10, <1>11

\* Climbing a task ends what kept the two counters apart.
LEMMA CountFacts ==
  ASSUME Inv1, NEW th \in Thread, CountInGroup(th)
  PROVE  \E h \in Group : \E L \in DOMAIN stack[th] :
           /\ AddsTo(th, L, h) /\ stack[th][L].at = "count"
           /\ L \in DOMAIN stack'[th] => stack'[th][L].at = "list"
           /\ group[h].num \in Nat /\ group[h].current \in Int
           /\ group'[h].num = group[h].num + 1 /\ group'[h].current = group[h].current
           /\ \A g \in Group : g # h => group'[g] = group[g]
<1>0. PICK h, L : h = prog.group[On(th)] /\ L = Len(stack[th])
  OBVIOUS
<1>1. /\ stack[th] # <<>> /\ Top(th).at = "count" /\ Goto(th, "list")
      /\ group' = [group EXCEPT ![h].num = @ + 1]
  BY <1>0 DEF CountInGroup, At
<1>2. /\ L \in DOMAIN stack[th] /\ stack[th][L] = Top(th) /\ OpOk(th, Top(th))
      /\ On(th) = OpOf(th, Top(th)).on
  BY <1>0, <1>1, TopOk DEF GoodFrame
<1>3. h \in Group
  <2>1. OpOf(th, Top(th)) \in Op /\ OpOf(th, Top(th)).do = "start" /\ h # None
    BY <1>0, <1>1, <1>2 DEF OpOk, RunPlace, BeginPlace
  <2>2. On(th) \in Task
    BY <1>2, <2>1, OpTyped
  <2> QED BY <1>0, <2>1, <2>2, ProgTyped DEF Inv1, Typed
<1>4. group \in [Group -> [num : Nat, current : Int, result : Task \union {None}]]
  BY DEF Inv1, Typed
<1>5. /\ group[h].num \in Nat /\ group[h].current \in Int
      /\ group'[h].num = group[h].num + 1 /\ group'[h].current = group[h].current
      /\ \A g \in Group : g # h => group'[g] = group[g]
  BY <1>1, <1>3, <1>4
<1>6. PICK f : f = Moved(th, "list")
  OBVIOUS
<1>7. Replaced(th, f) /\ f.at = "list"
  <2>1. "list" \in Place
    BY DEF Place
  <2> QED BY <1>1, <1>6, <2>1, MovedFrame
<1>8. stack'[th][L] = f
  BY <1>0, <1>1, <1>7, FramesReplaced
<1>9. AddsTo(th, L, h)
  BY <1>0, <1>1, <1>2 DEF AddsTo
<1> QED BY <1>1, <1>2, <1>3, <1>5, <1>7, <1>8, <1>9

LEMMA CountBehind ==
  ASSUME Inv1, Inv2, Lasting, prog' = prog, BehindInv, WaitsForOwn(prog), Quiet({"count"}),
         NEW th \in Thread, CountInGroup(th)
  PROVE  BehindInv'
<1>1. PICK h \in Group, L \in DOMAIN stack[th] :
           /\ AddsTo(th, L, h) /\ stack[th][L].at = "count"
           /\ L \in DOMAIN stack'[th] => stack'[th][L].at = "list"
           /\ group[h].num \in Nat /\ group[h].current \in Int
           /\ group'[h].num = group[h].num + 1 /\ group'[h].current = group[h].current
           /\ \A g \in Group : g # h => group'[g] = group[g]
  BY CountFacts
<1> SUFFICES ASSUME NEW g \in Group, Awaits(g)' PROVE SomeDone(g)' \/ Behind(g)'
  BY DEF BehindInv
<1>2. Awaits(g)
  BY DEF Awaits, Scripts
<1>3. CASE g # h
  <2>1. CounterStays(g)
    BY <1>1, <1>3 DEF CounterStays, NumStays
  <2> QED BY <1>2, <2>1, BehindStays, CountingBefore
<1>4. CASE g = h /\ SomeDone(g)
  BY <1>4, DoneLasts
<1>5. CASE g = h /\ Behind(g)
  <2>1. Climbing(h)
    BY <1>1 DEF Climbing
  <2>2. group[h].num + 1 <= group[h].current
    BY <1>5, <2>1 DEF Behind
  <2>3. ASSUME Climbing(h)' PROVE FALSE
    <3>1. PICK uh, i : uh \in Thread /\ i \in DOMAIN stack'[uh] /\ AddsTo(uh, i, h)'
      BY <2>3 DEF Climbing
    <3>2. AddsTo(uh, i, h) /\ stack'[uh][i] = stack[uh][i]
      BY <3>1, CountingStays
    <3>3. uh = th /\ i = L
      BY <1>1, <1>2, <1>5, <3>1, <3>2, OneFrame
    <3> QED BY <1>1, <3>1, <3>2, <3>3
  <2> QED BY <1>1, <1>5, <2>2, <2>3 DEF Behind
<1> QED BY <1>2, <1>3, <1>4, <1>5 DEF BehindInv

\* A task that leaves its group is complete.
LEMMA LeaveDone ==
  ASSUME Inv1, Inv2, NEW th \in Thread, LeaveGroup(th) \/ GroupResult(th)
  PROVE  /\ \A g \in Group : CounterStays(g) \/ SomeDone(g)
         /\ \A g \in Group : NumStays(g)
<1>0. PICK n, t, h : n = th[1] /\ t = Mine(th) /\ h = task[n][t].group
  OBVIOUS
<1>1. /\ stack[th] # <<>> /\ Top(th).at = "complete" /\ Top(th).task # None
  BY TaskTop DEF LeaveGroup, GroupResult, Completing, RunPlace
<1>2. n \in Node /\ t \in Task /\ task[n][t].status = "COMPLETED" /\ task[n][t] \in TaskInfo
  BY <1>0, <1>1, HeldTop DEF Inv2, StatusAt
<1>3. group \in [Group -> [num : Nat, current : Int, result : Task \union {None}]]
  BY DEF Inv1, Typed
<1>4. \/ group' = [group EXCEPT ![h].current = @ - 1]
      \/ group' = [group EXCEPT ![h].result = t]
  BY <1>0 DEF LeaveGroup, GroupResult
<1>5. \A g \in Group : NumStays(g) /\ (g # h => group'[g] = group[g])
  <2> SUFFICES ASSUME NEW g \in Group
               PROVE  group'[g].num = group[g].num /\ (g # h => group'[g] = group[g])
    BY DEF NumStays
  <2>1. CASE group' = [group EXCEPT ![h].current = @ - 1]
    BY <1>3, <2>1
  <2>2. CASE group' = [group EXCEPT ![h].result = t]
    BY <1>3, <2>2
  <2> QED BY <1>4, <2>1, <2>2
<1>6. h \in Group => SomeDone(h)
  BY <1>0, <1>2 DEF SomeDone
<1> QED BY <1>5, <1>6 DEF CounterStays, NumStays

\* The other steps leave the counters alone.
LEMMA OthersStay ==
  ASSUME NEW th \in Thread, ThreadStep(th), ~GrowGroup(th), ~CountInGroup(th),
         ~LeaveGroup(th), ~GroupResult(th)
  PROVE  group' = group
BY DEF ThreadStep, TaskStep, CreateAction, StartTask, EnterQueue,
   ListTask, WaitTask, WaitGroupAll, WaitGroupAny, CompareGroup, FetchResult, PopWaiting,
   PopWorker, NotYet, RunTask, RunRemotely, SetScheduled, EndBody, CheckWaiting, CheckScheduled,
   Reinsert, LeaveParent, LeaveQueue, Announce, InsertStart, MessageComplete

LEMMA HandlersStay ==
  ASSUME NEW n \in Node, ProcesserStep(n) \/ ListenerStep(n)
  PROVE  group' = group
<1>1. UNCHANGED taskVars \/ group' = group
  BY DEF ProcesserStep, ListenerStep, PopMessage, SendAction, AddRemoteAction,
     StartRemoteTask, AwaitAck, ListReceived, SetAwaiting, SeeAwaiting, AwaitLocalTask,
     CompleteLocalTask, ReceiveRemoteTask, CompleteRemoteTask
<1> QED BY <1>1 DEF taskVars

\* A look at the group.
LEMMA LookStep ==
  ASSUME Inv1, NEW th \in Thread, WaitGroupAny(th) \/ CompareGroup(th)
  PROVE  \E f : /\ stack[th] # <<>> /\ Replaced(th, f) /\ f.at \in {"compare", "fetch", "pop"}
                /\ f.task = Top(th).task /\ f.ip = Top(th).ip
                /\ WaitGroupAny(th) => f.at = "compare" /\ f.seen = group[On(th)].current
                /\ CompareGroup(th) => f.at = IF Top(th).seen < group[On(th)].num
                                              THEN "fetch" ELSE "pop"
<1>1. CASE CompareGroup(th)
  <2>1. stack[th] # <<>>
    BY <1>1 DEF CompareGroup, At
  <2>2. PICK place : place = IF Top(th).seen < group[On(th)].num THEN "fetch" ELSE "pop"
    OBVIOUS
  <2>3. place \in Place /\ place \in {"fetch", "pop"} /\ Goto(th, place)
    BY <1>1, <2>2 DEF CompareGroup, Place
  <2>4. PICK f : f = Moved(th, place)
    OBVIOUS
  <2>5. Replaced(th, f) /\ f.at = place /\ f.task = Top(th).task /\ f.ip = Top(th).ip
    BY <2>1, <2>3, <2>4, MovedFrame, MovedOp
  <2>6. ~WaitGroupAny(th)
    BY <1>1 DEF CompareGroup, WaitGroupAny, Doing, At
  <2> QED BY <2>1, <2>2, <2>3, <2>5, <2>6
<1>2. CASE WaitGroupAny(th)
  <2>0. On(th) \in Group /\ stack[th] # <<>>
    BY <1>2, DoingOk DEF WaitGroupAny
  <2>1. PICK k : k = group[On(th)].current
    OBVIOUS
  <2>2. k \in Int /\ Top(th) \in FrameType
    BY <2>0, <2>1, TopOk DEF Inv1, Typed
  <2>3. PICK f : f = [Top(th) EXCEPT !.at = "compare", !.seen = k]
    OBVIOUS
  <2>4. /\ f \in FrameType /\ f.task = Top(th).task /\ f.at = "compare"
        /\ f.ip = Top(th).ip /\ f.seen = k
    BY <2>2, <2>3 DEF FrameType, Place
  <2>5. SetTop(th, f)
    BY <1>2, <2>1, <2>3 DEF WaitGroupAny
  <2>6. Replaced(th, f)
    BY <2>0, <2>4, <2>5, ReplaceTop
  <2>7. ~CompareGroup(th)
    BY <1>2 DEF CompareGroup, WaitGroupAny, Doing, At
  <2> QED BY <2>0, <2>1, <2>4, <2>6, <2>7
<1> QED BY <1>1, <1>2

\* A frame that was there still sees what it saw.
LEMMA SawStays ==
  ASSUME Inv1, Inv2, Lasting, prog' = prog, NEW th \in Thread, NEW f, SawDone(th, f),
         f.at \in {"compare", "fetch"} =>
           OpOf(th, f).on \in Group /\ NumStays(OpOf(th, f).on)
  PROVE  SawDone(th, f)'
<1>1. OpOf(th, f)' = OpOf(th, f)
  BY DEF OpOf, ScriptOf
<1>2. f.at \in {"compare", "fetch"} /\ SomeDone(OpOf(th, f).on) => SomeDone(OpOf(th, f).on)'
  BY <1>1, DoneLasts
<1> QED BY <1>1, <1>2 DEF SawDone, NumStays

\* What a frame that looks at a group is about.
LEMMA LooksAt ==
  ASSUME Inv1, NEW th \in Thread, NEW i \in DOMAIN stack[th], stack[th][i].at \in {"compare", "fetch"}
  PROVE  /\ OpOf(th, stack[th][i]).on \in Group
         /\ Compares(th, i, OpOf(th, stack[th][i]).on) /\ Awaits(OpOf(th, stack[th][i]).on)
<1>1. PICK f : f = stack[th][i]
  OBVIOUS
<1>2. f \in FrameType /\ OpOk(th, f)
  BY <1>1 DEF Inv1, Typed, Shape, StackOk, GoodFrame
<1>3. OpOf(th, f) \in Op /\ OpOf(th, f).do = "any" /\ f.ip \in DOMAIN ScriptOf(th, f)
  BY <1>1, <1>2 DEF OpOk, RunPlace
<1>4. OpOf(th, f).on \in Group
  BY <1>3, OpTyped
<1>5. Awaits(OpOf(th, f).on)
  BY <1>2, <1>3, ScriptIn DEF Awaits, OpOf
<1> QED BY <1>1, <1>4, <1>5 DEF Compares

LEMMA SawQuiet ==
  ASSUME Inv1, Inv2, Lasting, prog' = prog, SawInv, Quiet({"compare", "fetch"}),
         \A g \in Group : NumStays(g)
  PROVE  SawInv'
<1> SUFFICES ASSUME NEW th \in Thread, NEW i \in DOMAIN stack'[th], NEW f, f = stack'[th][i]
             PROVE  SawDone(th, f)'
  BY DEF SawInv
<1>1. CASE f.at \in {"compare", "fetch"}
  <2>1. i \in DOMAIN stack[th] /\ stack[th][i] = f
    BY <1>1 DEF Quiet
  <2>2. SawDone(th, f)
    BY <2>1 DEF SawInv
  <2> QED BY <1>1, <2>1, <2>2, LooksAt, SawStays
<1>2. CASE f.at \notin {"compare", "fetch"}
  BY <1>2 DEF SawDone
<1> QED BY <1>1, <1>2

LEMMA SawCount ==
  ASSUME Inv1, Inv2, Lasting, prog' = prog, SawInv, WaitsForOwn(prog),
         Quiet({"compare", "fetch"}), NEW th \in Thread, CountInGroup(th)
  PROVE  SawInv'
<1>1. PICK h \in Group, L \in DOMAIN stack[th] :
           /\ AddsTo(th, L, h) /\ stack[th][L].at = "count"
           /\ L \in DOMAIN stack'[th] => stack'[th][L].at = "list"
           /\ group[h].num \in Nat /\ group[h].current \in Int
           /\ group'[h].num = group[h].num + 1 /\ group'[h].current = group[h].current
           /\ \A g \in Group : g # h => group'[g] = group[g]
  BY CountFacts
<1> SUFFICES ASSUME NEW uh \in Thread, NEW i \in DOMAIN stack'[uh], NEW f, f = stack'[uh][i]
             PROVE  SawDone(uh, f)'
  BY DEF SawInv
<1>2. CASE f.at \in {"compare", "fetch"}
  <2>1. i \in DOMAIN stack[uh] /\ stack[uh][i] = f
    BY <1>2 DEF Quiet
  <2>2. PICK g : g = OpOf(uh, f).on
    OBVIOUS
  <2>3. g \in Group /\ Compares(uh, i, g) /\ Awaits(g)
    BY <1>2, <2>1, <2>2, LooksAt
  <2>4. g # h
    <3> SUFFICES ASSUME g = h PROVE FALSE
      OBVIOUS
    <3>1. th = uh /\ L = i
      BY <1>1, <2>3, OneFrame
    <3> QED BY <1>1, <1>2, <2>1, <3>1
  <2>5. NumStays(g) /\ SawDone(uh, f)
    BY <1>1, <2>1, <2>3, <2>4 DEF NumStays, SawInv
  <2> QED BY <2>2, <2>3, <2>5, SawStays
<1>3. CASE f.at \notin {"compare", "fetch"}
  BY <1>3 DEF SawDone
<1> QED BY <1>2, <1>3

\* What a thread sees when it looks at a group.
LEMMA SawLook ==
  ASSUME Inv1, Inv2, Lasting, prog' = prog, group' = group, BehindInv, SawInv,
         NEW th \in Thread, WaitGroupAny(th) \/ CompareGroup(th)
  PROVE  SawInv'
<1>1. PICK f : /\ stack[th] # <<>> /\ Replaced(th, f) /\ f.at \in {"compare", "fetch", "pop"}
               /\ f.task = Top(th).task /\ f.ip = Top(th).ip
               /\ WaitGroupAny(th) => f.at = "compare" /\ f.seen = group[On(th)].current
               /\ CompareGroup(th) => f.at = IF Top(th).seen < group[On(th)].num
                                              THEN "fetch" ELSE "pop"
  BY LookStep
<1>2. PICK L, g : L = Len(stack[th]) /\ g = On(th)
  OBVIOUS
<1>3. /\ L \in DOMAIN stack[th] /\ stack[th][L] = Top(th) /\ g = OpOf(th, Top(th)).on
      /\ OpOf(th, f) = OpOf(th, Top(th)) /\ Top(th) \in FrameType
  BY <1>1, <1>2, TopOk DEF OpOf, ScriptOf
<1>4. /\ stack'[th][L] = f
      /\ \A uh \in Thread : DOMAIN stack'[uh] = DOMAIN stack[uh]
      /\ \A uh \in Thread : \A i \in DOMAIN stack[uh] : uh # th \/ i # L => stack'[uh][i] = stack[uh][i]
  BY <1>1, <1>2, FramesReplaced
<1>5. SawDone(th, f)
  <2>1. CASE WaitGroupAny(th)
    <3>1. g \in Group /\ Awaits(g)
      <4>1. Doing(th, "any")
        BY <2>1 DEF WaitGroupAny
      <4> QED BY <1>2, <4>1, DoingOk, DoingScript DEF Awaits
    <3>2. SomeDone(g) \/ group[g].num <= group[g].current
      BY <3>1 DEF BehindInv, Behind
    <3>3. group[g].num \in Nat /\ group[g].current \in Int
      BY <3>1 DEF Inv1, Typed
    <3> QED BY <1>1, <1>2, <1>3, <2>1, <3>2, <3>3 DEF SawDone
  <2>2. CASE CompareGroup(th)
    <3>1. SawDone(th, Top(th)) /\ Top(th).at = "compare"
      BY <1>3, <2>2 DEF SawInv, CompareGroup, At
    <3> QED BY <1>1, <1>2, <1>3, <2>2, <3>1 DEF SawDone
  <2> QED BY <2>1, <2>2
<1>6. f.at \in {"compare", "fetch"} => g \in Group
  <2>1. CASE WaitGroupAny(th)
    BY <1>2, <2>1, DoingOk DEF WaitGroupAny
  <2>2. CASE CompareGroup(th)
    <3>1. Top(th).at = "compare"
      BY <2>2 DEF CompareGroup, At
    <3> QED BY <1>3, <3>1, LooksAt
  <2> QED BY <2>1, <2>2
<1> SUFFICES ASSUME NEW uh \in Thread, NEW i \in DOMAIN stack'[uh], NEW e, e = stack'[uh][i]
             PROVE  SawDone(uh, e)'
  BY DEF SawInv
<1>7. CASE uh = th /\ i = L
  BY <1>3, <1>4, <1>5, <1>6, <1>7, SawStays DEF NumStays
<1>8. CASE uh # th \/ i # L
  <2>1. i \in DOMAIN stack[uh] /\ e = stack[uh][i]
    BY <1>4, <1>8
  <2>2. SawDone(uh, e)
    BY <2>1 DEF SawInv
  <2> QED BY <2>1, <2>2, LooksAt, SawStays DEF NumStays
<1> QED BY <1>7, <1>8

AnyInv == OriginInv /\ BehindInv /\ SawInv

LEMMA LookQuiet ==
  ASSUME Inv1, NEW th \in Thread, WaitGroupAny(th) \/ CompareGroup(th)
  PROVE  Quiet({"count"})
<1>1. PICK f : stack[th] # <<>> /\ Replaced(th, f) /\ f.at \in {"compare", "fetch", "pop"}
  BY LookStep
<1>2. f.at \notin {"count"}
  BY <1>1
<1> QED BY <1>1, <1>2, ReplacedQuiet

LEMMA GrowQuiet ==
  ASSUME Inv1, NEW th \in Thread, GrowGroup(th)
  PROVE  Quiet({"compare", "fetch"}) /\ \A g \in Group : NumStays(g)
<1>1. stack[th] # <<>> /\ Goto(th, "count") /\ "count" \in Place
  BY DEF GrowGroup, At, Place
<1>2. PICK f : f = Moved(th, "count")
  OBVIOUS
<1>3. Replaced(th, f) /\ f.at = "count"
  BY <1>1, <1>2, MovedFrame
<1>4. f.at \notin {"compare", "fetch"}
  BY <1>3
<1>5. Quiet({"compare", "fetch"})
  BY <1>1, <1>3, <1>4, ReplacedQuiet
<1>6. group \in [Group -> [num : Nat, current : Int, result : Task \union {None}]]
  BY DEF Inv1, Typed
<1>7. group' = [group EXCEPT ![prog.group[On(th)]].current = @ + 1]
  BY DEF GrowGroup
<1>8. \A g \in Group : NumStays(g)
  BY <1>6, <1>7 DEF NumStays
<1> QED BY <1>5, <1>8

LEMMA AnyKept ==
  ASSUME Inv1, Inv2, Inv3, WaitsForOwn(prog), AnyInv, [Next]_vars
  PROVE  AnyInv'
<1>0. OriginInv /\ BehindInv /\ SawInv
  BY DEF AnyInv
<1>1. Lasting /\ prog' = prog
  BY StepEvolves, EvolvesLasts
<1>2. OriginInv'
  BY <1>0, OriginKept
<1>3. ASSUME Quiet(Watched) PROVE Quiet({"count"}) /\ Quiet({"compare", "fetch"})
  BY <1>3 DEF Quiet, Watched
<1>4. ASSUME NEW th \in Thread, ThreadStep(th) PROVE BehindInv' /\ SawInv'
  <2>1. CASE GrowGroup(th)
    BY <1>0, <1>1, <2>1, GrowBehind, GrowQuiet, SawQuiet
  <2>2. CASE WaitGroupAny(th) \/ CompareGroup(th)
    <3>1. group' = group
      BY <2>2 DEF WaitGroupAny, CompareGroup
    <3>2. \A g \in Group : CounterStays(g)
      BY <3>1 DEF CounterStays, NumStays
    <3> QED BY <1>0, <1>1, <2>2, <3>1, <3>2, LookQuiet, BehindQuiet, SawLook
  <2>3. CASE ~GrowGroup(th) /\ ~WaitGroupAny(th) /\ ~CompareGroup(th)
    <3>1. Quiet({"count"}) /\ Quiet({"compare", "fetch"})
      BY <1>3, <1>4, <2>3, ThreadQuiet
    <3>2. CASE CountInGroup(th)
      BY <1>0, <1>1, <3>1, <3>2, CountBehind, SawCount
    <3>3. CASE LeaveGroup(th) \/ GroupResult(th)
      BY <1>0, <1>1, <3>1, <3>3, LeaveDone, BehindQuiet, SawQuiet
    <3>4. CASE ~CountInGroup(th) /\ ~LeaveGroup(th) /\ ~GroupResult(th)
      <4>1. group' = group
        BY <1>4, <2>3, <3>4, OthersStay
      <4>2. \A g \in Group : CounterStays(g) /\ NumStays(g)
        BY <4>1 DEF CounterStays, NumStays
      <4> QED BY <1>0, <1>1, <3>1, <4>2, BehindQuiet, SawQuiet
    <3> QED BY <3>2, <3>3, <3>4
  <2> QED BY <2>1, <2>2, <2>3
<1>5. ASSUME stack' = stack, group' = group PROVE BehindInv' /\ SawInv'
  <2>1. Quiet({"count"}) /\ Quiet({"compare", "fetch"})
    BY <1>5 DEF Quiet
  <2>2. \A g \in Group : CounterStays(g) /\ NumStays(g)
    BY <1>5 DEF CounterStays, NumStays
  <2> QED BY <1>0, <1>1, <2>1, <2>2, BehindQuiet, SawQuiet
<1>6. ASSUME NEW n \in Node, ProcesserStep(n) \/ ListenerStep(n) PROVE BehindInv' /\ SawInv'
  BY <1>5, <1>6, StacksStay, HandlersStay
<1>7. CASE UNCHANGED vars
  <2>1. stack' = stack /\ group' = group
    BY <1>7 DEF vars, taskVars
  <2> QED BY <1>2, <1>5, <2>1 DEF AnyInv
<1> QED BY <1>2, <1>4, <1>6, <1>7 DEF Next, AnyInv

LEMMA InitAny == Init => AnyInv
<1> SUFFICES ASSUME Init PROVE AnyInv
  OBVIOUS
<1>1. /\ task = [n \in Node |-> [t \in Task |-> NoTask]]
      /\ group = [g \in Group |-> [num |-> 0, current |-> 0, result |-> None]]
      /\ stack = [th \in Thread |-> IF th[2] = "main" THEN <<Frame(None, "body")>> ELSE <<>>]
  BY DEF Init, TasksInit
<1>2. OriginInv
  BY <1>1 DEF OriginInv, NoTask
<1>3. \A th \in Thread : \A i \in DOMAIN stack[th] : stack[th][i].at = "body"
  BY <1>1 DEF Frame
<1>4. \A g \in Group : ~Climbing(g) /\ group[g].num = 0 /\ group[g].current = 0
  BY <1>1, <1>3 DEF Climbing, AddsTo
<1>5. BehindInv
  BY <1>4 DEF BehindInv, Behind
<1>6. SawInv
  BY <1>3 DEF SawInv, SawDone
<1> QED BY <1>2, <1>5, <1>6 DEF AnyInv

\* The function of a task runs on one node.
LEMMA OneLocal ==
  ASSUME Inv1, Inv2, NEW m \in Node, NEW n \in Node, NEW t \in Task,
         task[m][t].type = "LOCAL", task[n][t].type = "LOCAL"
  PROVE  m = n
<1> SUFFICES ASSUME m # n PROVE FALSE
  OBVIOUS
<1>1. task[m][t].status # "NONE" /\ task[n][t].status # "NONE"
  BY MtapiAssumption DEF Inv2, RecordInv
<1>2. CASE ~task[m][t].message
  BY <1>1, <1>2, LocalAlone DEF StartedOn
<1>3. CASE ~task[n][t].message
  BY <1>1, <1>3, LocalAlone DEF StartedOn
<1>4. CASE task[m][t].message /\ task[n][t].message
  <2>1. PICK k \in Node : k # n /\ Node = {k, n} /\ ~task[k][t].message
    BY <1>4, TwoRecords
  <2> QED BY <1>4, <2>1
<1> QED BY <1>2, <1>3, <1>4

\* A task of a group has its record where the group is waited for.
LEMMA WaitersNode ==
  ASSUME Inv1, Inv2, WaitsForOwn(prog), OriginInv,
         NEW th \in Thread, NEW i, NEW g \in Group, Compares(th, i, g),
         NEW m \in Node, NEW t \in Task, task[m][t].group = g
  PROVE  m = th[1]
<1>1. PICK f, s : f = stack[th][i] /\ s = ScriptOf(th, f)
  OBVIOUS
<1>2. i \in DOMAIN stack[th] /\ f.at \in RunPlace /\ s \in Scripts(prog)
      /\ \E p \in DOMAIN s : s[p].do = "any" /\ s[p].on = g
  BY <1>1, ComparesAny
<1>3. PICK q \in DOMAIN s : s[q].do = "any" /\ s[q].on = g
  BY <1>2
<1>4. prog.group[t] = g /\ MadeBy(m, t)
  BY NotNone DEF OriginInv
<1>5. /\ th[1] \in Node /\ f.task \in Task \union {None} /\ StartedOnce(prog)
      /\ f.task # None => task[th[1]][f.task].type = "LOCAL"
  <2>1. f \in FrameType
    BY <1>1, <1>2 DEF Inv1, Typed
  <2>2. f.task # None => task[th[1]][f.task].type = "LOCAL"
    BY <1>1, <1>2, ScriptRuns
  <2> QED BY <2>1, <2>2, ThreadOk, ProgTyped DEF FrameType, Inv1, Typed
<1>6. ASSUME NEW r \in Scripts(prog), NEW p \in DOMAIN r, StartsAt(r, p, t)
      PROVE  r = s
  BY <1>2, <1>3, <1>4, <1>6 DEF WaitsForOwn
<1>7. ASSUME NEW p \in DOMAIN prog.main[m], StartsAt(prog.main[m], p, t)
      PROVE  m = th[1]
  <2>1. PICK r : r = prog.main[m]
    OBVIOUS
  <2>2. r = s
    BY <1>6, <1>7, <2>1 DEF Scripts
  <2>3. CASE f.task = None
    <3>1. prog.main[th[1]] = s
      BY <1>1, <2>3 DEF ScriptOf
    <3>2. p \in DOMAIN prog.main[th[1]] /\ StartsAt(prog.main[th[1]], p, t)
      BY <1>7, <2>1, <2>2, <3>1
    <3> QED BY <1>5, <1>7, <3>2 DEF StartedOnce
  <2>4. CASE f.task # None
    <3>1. f.task \in Task /\ prog.body[f.task] = s
      BY <1>1, <1>5, <2>4 DEF ScriptOf
    <3>2. p \in DOMAIN prog.body[f.task] /\ StartsAt(prog.body[f.task], p, t)
      BY <1>7, <2>1, <2>2, <3>1
    <3> QED BY <1>5, <1>7, <3>1, <3>2 DEF StartedOnce
  <2> QED BY <2>3, <2>4
<1>8. ASSUME NEW u \in Task, task[m][u].type = "LOCAL",
             NEW p \in DOMAIN prog.body[u], StartsAt(prog.body[u], p, t)
      PROVE  m = th[1]
  <2>1. PICK r : r = prog.body[u]
    OBVIOUS
  <2>2. r = s
    BY <1>6, <1>8, <2>1 DEF Scripts
  <2>3. CASE f.task = None
    <3>1. prog.main[th[1]] = s
      BY <1>1, <2>3 DEF ScriptOf
    <3>2. p \in DOMAIN prog.main[th[1]] /\ StartsAt(prog.main[th[1]], p, t)
      BY <1>8, <2>1, <2>2, <3>1
    <3> QED BY <1>5, <1>8, <3>2 DEF StartedOnce
  <2>4. CASE f.task # None
    <3>1. f.task \in Task /\ prog.body[f.task] = s
      BY <1>1, <1>5, <2>4 DEF ScriptOf
    <3>2. p \in DOMAIN prog.body[f.task] /\ StartsAt(prog.body[f.task], p, t)
      BY <1>8, <2>1, <2>2, <3>1
    <3>3. f.task = u
      BY <1>5, <1>8, <3>1, <3>2 DEF StartedOnce
    <3> QED BY <1>5, <1>8, <2>4, <3>3, OneLocal
  <2> QED BY <2>3, <2>4
<1> QED BY <1>4, <1>7, <1>8 DEF MadeBy

LEMMA FetchAfter ==
  ASSUME Inv1, Inv2, WaitsForOwn(prog), AnyInv, NEW th \in Thread, FetchResult(th)
  PROVE  \E t \in Members(th[1], On(th)) : task[th[1]][t].status = "COMPLETED"
<1>1. PICK L, g : L = Len(stack[th]) /\ g = On(th)
  OBVIOUS
<1>2. stack[th] # <<>> /\ Top(th).at = "fetch"
  BY DEF FetchResult, At
<1>3. L \in DOMAIN stack[th] /\ stack[th][L] = Top(th) /\ g = OpOf(th, stack[th][L]).on
  BY <1>1, <1>2, TopOk
<1>4. g \in Group /\ Compares(th, L, g)
  BY <1>2, <1>3, LooksAt
<1>5. SomeDone(g)
  BY <1>2, <1>3 DEF AnyInv, SawInv, SawDone
<1>6. PICK m \in Node, t \in Task : task[m][t].group = g /\ task[m][t].status = "COMPLETED"
  BY <1>5 DEF SomeDone
<1>7. m = th[1]
  BY <1>4, <1>6, WaitersNode DEF AnyInv
<1> QED BY <1>1, <1>6, <1>7 DEF Members

LEMMA Invariants6 ==
  ASSUME \A p \in Programs : WaitsForOwn(p)
  PROVE  Spec => [](Inv1 /\ Inv2 /\ AnyInv)
<1>1. Init => Inv1 /\ Inv2 /\ Inv3 /\ AnyInv
  BY InitInv, InitInv3, InitAny
<1>2. Inv1 /\ Inv2 /\ Inv3 /\ AnyInv /\ [Next]_vars => (Inv1 /\ Inv2 /\ Inv3 /\ AnyInv)'
  <2> SUFFICES ASSUME Inv1, Inv2, Inv3, AnyInv, [Next]_vars
               PROVE  (Inv1 /\ Inv2 /\ Inv3 /\ AnyInv)'
    OBVIOUS
  <2>1. WaitsForOwn(prog)
    BY DEF Inv1, Typed
  <2> QED BY <2>1, StepInv, StepInv3, AnyKept
<1> QED BY <1>1, <1>2, PTL DEF Spec

\* waitForGroupAny, which reads the two counters of the group in two steps and
\* without a lock, returns only after a task of the group has completed on the
\* node of the waiting thread, for every application whose groups are waited for
\* by the script that starts their tasks.
THEOREM AnyIsLate ==
  ASSUME \A p \in Programs : WaitsForOwn(p)
  PROVE  Spec => AnyAfterFirst
<1>1. Inv1 /\ Inv2 /\ AnyInv =>
        \A th \in Thread : FetchResult(th) =>
          \E t \in Members(th[1], On(th)) : task[th[1]][t].status = "COMPLETED"
  <2> SUFFICES ASSUME Inv1, Inv2, AnyInv, NEW th \in Thread, FetchResult(th)
               PROVE  \E t \in Members(th[1], On(th)) : task[th[1]][t].status = "COMPLETED"
    OBVIOUS
  <2>1. WaitsForOwn(prog)
    BY DEF Inv1, Typed
  <2> QED BY <2>1, FetchAfter
<1> QED BY <1>1, Invariants6, PTL DEF AnyAfterFirst
=============================================================================
