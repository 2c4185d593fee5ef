------------------------------ MODULE ForkJoin ------------------------------
(***************************************************************************)
(* Nodes and parallel regions of libopenmp-OpenUH (omp_rtl.c): start-up of *)
(* the slave nodes, __ompc_fork, the loop of __ompc_slave_routine, the     *)
(* barriers the region's body calls, and the shutdown from atexit.         *)
(*                                                                         *)
(* Node 0 is the master.  The nodes share memory and poll it: new_work,    *)
(* omp_exe_mode, is_ready, is_finished and the root team's entry_func.     *)
(* Each poll and each write that another node may see is one step.  The    *)
(* barrier is the tournament of TourBarrier, composed here step by step.   *)
(***************************************************************************)
EXTENDS Integers, Sequences

CONSTANTS
  N,          \* __omp_nthreads_var: the default team, the size of the barrier
  LogMax,     \* OMP_LOG_MAX_NUM_THREADS
  MaxNodes,   \* OMP_MAX_NUM_THREADS: the nodes that are created
  Programs,   \* programs: sequences of regions [req, barriers]
  Faults      \* the calls that may fail: "init", "create"

ASSUME ForkJoinAssumption ==
  /\ MaxNodes \in Nat /\ 1 < N /\ N <= MaxNodes
  /\ Programs \subseteq Seq([req : Nat, barriers : Nat])
  /\ Faults \subseteq {"init", "create"}

Node  == 0..(MaxNodes-1)
Slave == 1..(MaxNodes-1)

VARIABLES
  prog,          \* the program that runs, chosen at the start
  np,            \* where a node is in its routine
  newWork,       \* list_nodes[n].new_work
  mode,          \* list_nodes[n].omp_exe_mode
  isReady,       \* list_nodes[n].is_ready
  finished,      \* icvs->is_finished
  entryFunc,     \* root_team->entry_func: the number of a region, 0 is NULL
  teamSize,      \* root_team->active_team_size
  region,        \* regions the master has forked so far
  idx,           \* the loop variable i of the master
  last,          \* the region a node has last begun to run
  phase,         \* the barriers it has returned from in that region
  stopped,       \* the process is gone: exit() or a NULL row of the barrier
  pc, round, sense, flag, championSense    \* the barrier

TB == INSTANCE TourBarrier

\* The barrier's table has room for N threads.
ASSUME BarrierAssumption == TB!TourAssumption /\ TB!ShiftAssumption

barVars  == <<pc, round, sense, flag, championSense>>
nodeVars == <<np, newWork, mode, isReady>>
teamVars == <<finished, entryFunc, teamSize>>
runVars  == <<prog, region, idx, last, phase, stopped>>
vars     == <<nodeVars, teamVars, runVars, barVars>>

\* The type of the nodes' and the team's state: the region that runs is one the
\* master forked, and a team has no more members than there are nodes.
TypeOK ==
  /\ np \in [Node -> {"none", "init", "failed", "create", "setup", "serial",
                      "wakeMode", "wakeWork", "test", "poll", "check", "body",
                      "inBody", "join", "inJoin", "joined", "sleep",
                      "shutdown", "await", "exited"}]
  /\ newWork \in [Node -> BOOLEAN]
  /\ mode \in [Node -> {"SLEEP", "SEQUENTIAL", "NORMAL"}]
  /\ isReady \in [Node -> BOOLEAN]
  /\ finished \in BOOLEAN /\ stopped \in BOOLEAN
  /\ prog \in Programs
  /\ region \in 0..Len(prog)
  /\ entryFunc \in 0..region
  /\ teamSize \in 1..MaxNodes
  /\ idx \in 1..MaxNodes
  /\ last \in [Node -> 0..region]
  /\ phase \in [Node -> Nat]
  /\ TB!TypeOK

\* The state setup_nodes has built when it is about to create node 1.
Init ==
  /\ prog \in Programs
  /\ np = [n \in Node |-> IF n = 0 THEN "create" ELSE "none"]
  /\ newWork = [n \in Node |-> FALSE]
  /\ mode = [n \in Node |-> IF n = 0 THEN "SEQUENTIAL" ELSE "SLEEP"]
  /\ isReady = [n \in Node |-> n = 0]
  /\ finished = FALSE /\ stopped = FALSE
  /\ entryFunc = 0 /\ teamSize = 1
  /\ region = 0 /\ idx = 1
  /\ last = [n \in Node |-> 0]
  /\ phase = [n \in Node |-> 0]
  /\ TB!Init

\* The node moves on.
Goto(n, place) == np' = [np EXCEPT ![n] = place]

At(n, place) == ~stopped /\ np[n] = place

\* The call of entry_func.
Run(n) ==
  /\ last' = [last EXCEPT ![n] = entryFunc]
  /\ phase' = [phase EXCEPT ![n] = 0]
  /\ Goto(n, "body")

-----------------------------------------------------------------------------
\* Start-up.  The master creates node 1; node n, once ready, creates n + 1.

InitFails(n) ==
  /\ At(n, "init") /\ "init" \in Faults
  /\ Goto(n, "failed")
  /\ UNCHANGED <<newWork, mode, isReady, teamVars, runVars, barVars>>

\* mrapi_initialize succeeded; n->is_ready = 1
BecomeReady(n) ==
  /\ At(n, "init")
  /\ isReady' = [isReady EXCEPT ![n] = TRUE]
  /\ Goto(n, IF n < MaxNodes - 1 THEN "create" ELSE "test")
  /\ UNCHANGED <<newWork, mode, teamVars, runVars, barVars>>

CreateNode(n) ==
  /\ At(n, "create")
  /\ np' = [np EXCEPT ![n] = IF n = 0 THEN "setup" ELSE "test", ![n+1] = "init"]
  /\ UNCHANGED <<newWork, mode, isReady, teamVars, runVars, barVars>>

\* pthread_create failed: exit(-1)
CreateFails(n) ==
  /\ At(n, "create") /\ "create" \in Faults
  /\ stopped' = TRUE
  /\ UNCHANGED <<nodeVars, teamVars, prog, region, idx, last, phase, barVars>>

\* while (list_nodes[last_node_id].is_ready != 1)
SetupDone ==
  /\ At(0, "setup") /\ isReady[MaxNodes-1]
  /\ Goto(0, "serial")
  /\ UNCHANGED <<newWork, mode, isReady, teamVars, runVars, barVars>>

-----------------------------------------------------------------------------
\* The master: __ompc_fork.

\* Fault: a request above the number of nodes is not cut.
TeamSizeUncut(req) == IF req = 0 THEN N ELSE req

\* __ompc_check_num_threads (total_team_size is MaxNodes) and the default.
TeamSize(req) ==
  IF req = 0 THEN N ELSE IF req > MaxNodes THEN MaxNodes ELSE req

Fork ==
  /\ At(0, "serial") /\ region < Len(prog) /\ mode[0] = "SEQUENTIAL"
  /\ region' = region + 1
  /\ teamSize' = TeamSize(prog[region+1].req)
  /\ entryFunc' = region + 1
  /\ mode' = [mode EXCEPT ![0] = "NORMAL"]
  /\ idx' = 1
  /\ Goto(0, "wakeMode")
  /\ UNCHANGED <<newWork, isReady, finished, prog, last, phase, stopped, barVars>>

\* Fault: the woken node stays in mode SLEEP.
WakeModeNot ==
  /\ At(0, "wakeMode") /\ idx < teamSize
  /\ Goto(0, "wakeWork")
  /\ UNCHANGED <<newWork, mode, isReady, teamVars, runVars, barVars>>

\* list_nodes[i].omp_exe_mode = OMP_EXE_MODE_NORMAL
WakeMode ==
  /\ At(0, "wakeMode") /\ idx < teamSize
  /\ mode' = [mode EXCEPT ![idx] = "NORMAL"]
  /\ Goto(0, "wakeWork")
  /\ UNCHANGED <<newWork, isReady, teamVars, runVars, barVars>>

\* list_nodes[i].new_work = 1; i++
WakeWork ==
  /\ At(0, "wakeWork")
  /\ newWork' = [newWork EXCEPT ![idx] = TRUE]
  /\ idx' = idx + 1
  /\ Goto(0, "wakeMode")
  /\ UNCHANGED <<mode, isReady, teamVars, prog, region, last, phase, stopped,
                 barVars>>

\* The loop is over: the master runs the body itself.
MasterBegin ==
  /\ At(0, "wakeMode") /\ idx >= teamSize
  /\ Run(0)
  /\ UNCHANGED <<newWork, mode, isReady, teamVars, prog, region, idx, stopped,
                 barVars>>

\* Fault: entry_func keeps the region that is over.
JoinedKeep ==
  /\ At(0, "joined")
  /\ mode' = [mode EXCEPT ![0] = "SEQUENTIAL"]
  /\ Goto(0, "serial")
  /\ UNCHANGED <<newWork, isReady, teamVars, runVars, barVars>>

\* After the barrier: entry_func = NULL, back to serial execution.
Joined ==
  /\ At(0, "joined")
  /\ entryFunc' = 0
  /\ mode' = [mode EXCEPT ![0] = "SEQUENTIAL"]
  /\ Goto(0, "serial")
  /\ UNCHANGED <<newWork, isReady, finished, teamSize, runVars, barVars>>

-----------------------------------------------------------------------------
\* A slave: the loop of __ompc_slave_routine.

\* while (icvs->is_finished == 0); then mrapi_finalize and pthread_exit
TestFinished(n) ==
  /\ At(n, "test")
  /\ Goto(n, IF finished THEN "exited" ELSE "poll")
  /\ UNCHANGED <<newWork, mode, isReady, teamVars, runVars, barVars>>

\* while (n->new_work == 0)
PollWork(n) ==
  /\ At(n, "poll") /\ newWork[n]
  /\ Goto(n, "check")
  /\ UNCHANGED <<newWork, mode, isReady, teamVars, runVars, barVars>>

\* if (last_team->entry_func != NULL): run it, else test is_finished again.
CheckWork(n) ==
  /\ At(n, "check")
  /\ \/ entryFunc # 0 /\ Run(n)
     \/ entryFunc = 0 /\ Goto(n, "test") /\ UNCHANGED <<last, phase>>
  /\ UNCHANGED <<newWork, mode, isReady, teamVars, prog, region, idx, stopped,
                 barVars>>

\* n->omp_exe_mode = OMP_EXE_MODE_SLEEP, after the barrier of the join.
FallAsleep(n) ==
  /\ At(n, "sleep")
  /\ mode' = [mode EXCEPT ![n] = "SLEEP"]
  /\ Goto(n, "test")
  /\ UNCHANGED <<newWork, isReady, teamVars, runVars, barVars>>

-----------------------------------------------------------------------------
\* The body of a region and the barriers, for the master and the slaves.

\* __ompc_level_1_barrier: a team of one returns at once; a node the barrier
\* was not built for has no row of rounds (myrounds is NULL) and crashes.
LevelOneBarrier(n, inside, after) ==
  \/ /\ teamSize = 1
     /\ Goto(n, after)
     /\ UNCHANGED <<stopped, barVars>>
  \/ /\ teamSize > 1 /\ n < N
     /\ TB!Arrive(n)
     /\ Goto(n, inside)
     /\ UNCHANGED stopped
  \/ /\ teamSize > 1 /\ n >= N
     /\ stopped' = TRUE
     /\ UNCHANGED <<np, barVars>>

\* __ompc_barrier, called by the body: it waits in mode NORMAL only.
CallBarrier(n) ==
  /\ At(n, "body") /\ phase[n] < prog[last[n]].barriers
  /\ IF mode[n] = "NORMAL" /\ teamSize > 1
     THEN LevelOneBarrier(n, "inBody", "body") /\ UNCHANGED phase
     ELSE /\ phase' = [phase EXCEPT ![n] = @ + 1]
          /\ UNCHANGED <<np, stopped, barVars>>
  /\ UNCHANGED <<newWork, mode, isReady, teamVars, prog, region, idx, last>>

\* One step inside the barrier; when it returns the node goes on.
InBarrier(n) ==
  /\ At(n, "inBody") \/ At(n, "inJoin")
  /\ TB!Inside(n)
  /\ IF pc'[n] # "out" THEN UNCHANGED <<np, phase>>
     ELSE IF np[n] = "inBody"
     THEN Goto(n, "body") /\ phase' = [phase EXCEPT ![n] = @ + 1]
     ELSE Goto(n, IF n = 0 THEN "joined" ELSE "sleep") /\ UNCHANGED phase
  /\ UNCHANGED <<newWork, mode, isReady, teamVars, prog, region, idx, last, stopped>>

\* The body returned: n->new_work = 0
EndBody(n) ==
  /\ At(n, "body") /\ phase[n] = prog[last[n]].barriers
  /\ newWork' = [newWork EXCEPT ![n] = FALSE]
  /\ Goto(n, "join")
  /\ UNCHANGED <<mode, isReady, teamVars, runVars, barVars>>

\* The barrier that ends the region.
JoinBarrier(n) ==
  /\ At(n, "join")
  /\ LevelOneBarrier(n, "inJoin", IF n = 0 THEN "joined" ELSE "sleep")
  /\ UNCHANGED <<newWork, mode, isReady, teamVars, prog, region, idx, last, phase>>

-----------------------------------------------------------------------------
\* The end of the program: __ompc_fini_rtl and free_node.

\* icvs->is_finished = 1
Finish ==
  /\ At(0, "serial") /\ region = Len(prog)
  /\ finished' = TRUE
  /\ idx' = 1
  /\ Goto(0, "shutdown")
  /\ UNCHANGED <<newWork, mode, isReady, entryFunc, teamSize, prog, region,
                 last, phase, stopped, barVars>>

\* Fault: the node is left in its poll.
WakeToExitNot ==
  /\ At(0, "shutdown") /\ idx < MaxNodes
  /\ Goto(0, "await")
  /\ UNCHANGED <<newWork, mode, isReady, teamVars, runVars, barVars>>

\* list_nodes[i].new_work = 1, to get the node out of its poll
WakeToExit ==
  /\ At(0, "shutdown") /\ idx < MaxNodes
  /\ newWork' = [newWork EXCEPT ![idx] = TRUE]
  /\ Goto(0, "await")
  /\ UNCHANGED <<mode, isReady, teamVars, runVars, barVars>>

\* Fault: the thread is not joined.
JoinNodeNot ==
  /\ At(0, "await")
  /\ idx' = idx + 1
  /\ Goto(0, "shutdown")
  /\ UNCHANGED <<newWork, mode, isReady, teamVars, prog, region, last, phase,
                 stopped, barVars>>

\* pthread_join(list_nodes[i].pthread_handle); i++
JoinNode ==
  /\ At(0, "await") /\ np[idx] = "exited"
  /\ idx' = idx + 1
  /\ Goto(0, "shutdown")
  /\ UNCHANGED <<newWork, mode, isReady, teamVars, prog, region, last, phase,
                 stopped, barVars>>

\* if (rc) exit(-1): rc is never assigned and may hold anything.
RcGarbage ==
  /\ At(0, "await") /\ np[idx] = "exited"
  /\ stopped' = TRUE
  /\ UNCHANGED <<nodeVars, teamVars, prog, region, idx, last, phase, barVars>>

\* The blocks are given back and mrapi_finalize is called.
MasterExit ==
  /\ At(0, "shutdown") /\ idx = MaxNodes
  /\ Goto(0, "exited")
  /\ UNCHANGED <<newWork, mode, isReady, teamVars, runVars, barVars>>

-----------------------------------------------------------------------------
Body(n) == CallBarrier(n) \/ InBarrier(n) \/ EndBody(n) \/ JoinBarrier(n)

Master ==
  \/ SetupDone
  \/ Fork \/ WakeMode \/ WakeWork \/ MasterBegin \/ Joined
  \/ Finish \/ WakeToExit \/ JoinNode \/ RcGarbage \/ MasterExit

SlaveStep(n) ==
  \/ InitFails(n) \/ BecomeReady(n)
  \/ TestFinished(n) \/ PollWork(n) \/ CheckWork(n) \/ FallAsleep(n)

Next ==
  \/ Master
  \/ \E n \in Slave : SlaveStep(n)
  \/ \E n \in Node : CreateNode(n) \/ CreateFails(n) \/ Body(n)

Spec == Init /\ [][Next]_vars

\* A node is an OS thread: as long as it can do something it does something.
\* (The bodies of the regions and the program between them come to an end.)
FairSpec ==
  /\ Spec
  /\ WF_vars(Master)
  /\ \A n \in Slave : WF_vars(SlaveStep(n))
  /\ \A n \in Node : WF_vars(CreateNode(n) \/ CreateFails(n) \/ Body(n))

-----------------------------------------------------------------------------
\* The abstract view: a region is open from the fork to the end of the join;
\* a member of the team has still to begin while its last region is older.
\* The nodes are those the barrier was built for.  (A request above N makes a
\* team with members nobody waits for: see LARGER TEAMS in the README.)
Served == 0..(N-1)

Member(n) == n < teamSize

Busy(n) == np[n] \in {"body", "inBody"}

Abs == INSTANCE Regions WITH
  Node    <- Served,
  open    <- entryFunc # 0,
  todo    <- {n \in Served : entryFunc # 0 /\ Member(n) /\ last[n] < entryFunc},
  working <- {n \in Served : Busy(n)}

\* Every such member of a team, and nobody else, runs the region once; the
\* master leaves the join only when all have.  This holds for every program, those
\* included whose regions hang in a barrier.
ImplementsRegions == Abs!Spec

\* Programs the barrier can serve: a team is the master alone or all N
\* threads, and only the first region that wakes slaves calls barriers.
Solo(p, r) == TeamSize(p[r].req) = 1

Sound(p) ==
  \A r \in DOMAIN p :
    /\ TeamSize(p[r].req) \in {1, N}
    /\ ~Solo(p, r) /\ p[r].barriers > 0 => \A q \in 1..(r-1) : Solo(p, q)

\* In a sound program a barrier in the body separates the phases: a member
\* is past its k-th barrier only when all members have called theirs.
Passed(n) == IF last[n] = entryFunc THEN phase[n] ELSE 0

Called(n) == Passed(n) + (IF np[n] = "inBody" THEN 1 ELSE 0)

PhasesSeparate ==
  Sound(prog) /\ entryFunc # 0 =>
    \A n, m \in Node : Member(n) /\ Member(m) => Passed(n) <= Called(m)

\* The barrier of the join opens for the N threads it was built for or not at
\* all: a master that leaves it had a team of one or all of them with it.  (A
\* smaller team hangs in the join.)
JoinedWithAll ==
  np[0] = "joined" /\ teamSize > 1 =>
    \A n \in Served : last[n] = entryFunc /\ ~Busy(n) /\ np[n] # "join"

\* When the master is through free_node no other node is running: none is
\* inside a barrier, in a region or in its poll when the memory goes away.
ShutdownOrderly ==
  np[0] = "exited" => \A n \in Slave : np[n] = "exited"

\* A sound program comes to its end, unless a call failed (then the master
\* polls for ever, see the README) or rc made free_node call exit.
ProgramEnds ==
  <>(\/ np[0] = "exited"
     \/ stopped
     \/ \E n \in Slave : np[n] = "failed"
     \/ ~Sound(prog))

-----------------------------------------------------------------------------
\* What comments in the repository say, and the code does not do.

\* omp_rtl.h: in mode SLEEP a "node is waiting for work".
SleepingNodeIdle == \A n \in Node : mode[n] = "SLEEP" => ~Busy(n)
=============================================================================
