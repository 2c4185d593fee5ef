# Verification of the OpenMP-MCA runtime

TLA+ specifications of `OpenMP_MCA_Project`: an OpenMP runtime on the Multicore
Association's interfaces (`src/libopenmp-OpenUH`), the pthread runtime it comes
from (`libopenmp_OpenUH_new` there), an MTAPI task runtime (`src/MTAPI`), the
reference implementation of MRAPI and MCAPI they all build on
(`src/MCA-2.0.3`, a second copy in `src/MTAPI`), and a shim from GNU OpenMP to
MTAPI (`src/OpenMP-MTAPI_RTL`).
The specifications are translated from the C source. Paths below are relative to
`src/`; line numbers without a file are those of `libopenmp-OpenUH/omp_rtl.c`.

Contents: 1 inventory, 2 modules and how they correspond to the code, 3 runs and
bounds, 4 fairness, 5 proofs, 6 disagreements between code and comments,
7 what is not modelled, 8 plan.

## 1 Inventory

| Component | State | Operations | Hard behaviour | What makes it correct |
|---|---|---|---|---|
| Tournament barrier (260-298, 1443-1482) | `rounds[][]` (role, opponent, flag), `team[].sense`, `champion_sense` | `tour_barrier_init`, `__ompc_level_1_barrier` | lock-free, spin waits, flags never reset, re-entry by fast threads | nobody leaves before all arrived; no signal lost; everybody gets out |
| Nodes and regions (301-488, 841-1304) | per node `new_work`, `omp_exe_mode`, `is_ready`; team `entry_func`, `active_team_size`; `is_finished` | chain of node creation, `__ompc_fork`, slave loop, `__ompc_barrier`, `free_node` | all communication by polled flags, no locks; failing calls at start-up; shutdown | each member runs each region once; the join waits for all; shutdown after everybody |
| Shared-memory allocator (491-800) | table of slot descriptors, doubly linked by offsets | `setup_shmem`, `__ompc_allocate`, `__ompc_deallocate` | running out of descriptors or memory, merging in every order | slots partition the memory; blocks disjoint; everything merges back |
| Worksharing (1518-1980) | team's loop bounds and counter, nodes' loop counters, global count of singles | `__ompc_static_init_4`, `__ompc_scheduler_init_4`, `__ompc_schedule_next_4`, `__ompc_single` | threads at different constructs at once; first-comer protocol; bounds arithmetic | each iteration and each single exactly once, in the order of the barriers |
| Critical, master, reduction (1854-2018) | library mutexes | lock, unlock, test for thread 0 | none beyond the mutex | not modelled |
| Central barrier (1365-1434) | `count_barrier`, `global_barrier_flag` | `__ompc_level_1_barrier` | comparison outside of the lock | not compiled |
| Settings and user API (90-257, `omp_user_runtime.c`) | `icvs` | parsing, getters, setters, shared-memory API | the setter of the team size | enters as constants and requests |
| MTAPI tasks, groups, queues (`MTAPI/mtapi/src/mtapi_runtime.c`) | one task list for a node; of a task its status, its count of children, its queue and its group | create action, start, enqueue, wait, `ProcessTask`, `SetTaskComplete` | several workers, waits that run other tasks on top, counters moved with and without locks | each task runs once and in its turn; a wait returns after its tasks; programs end |
| MTAPI remote tasks (same file) | message list, the type of a message | `processer_func`, `listener_func`, start, await, complete | message and status written by two threads in different orders; two domains that send to each other | the function runs on one node, the result comes back, no sender waits for ever |
| MTAPI interface (`mtapi.c`) and utilities | handles | argument checks, pthread wrappers | none of its own | not modelled |
| MCAPI messages, packets, scalars (`transport_sm.c`, `mcapi.c`) | a ring of entries per endpoint, buffers, requests and their free list | send, receive, test, wait, wait_any, cancel, free | receives that reserve entries ahead of messages, bubbles in the ring, cancels, retries | no message lost or received twice, order kept, waits return |
| MCAPI endpoints, channels, initialization | handles, connections | create, get, connect, open | deferred lookups | not modelled |
| MRAPI locks (`mrapi_impl_spec.c`, `mrapi.c`) | the table `sems[]`, one semaphore member per entry, users and reference counts | create, get, lock, trylock, unlock, delete, finalize | checks in one critical section and use in another, yielding waiters, entries used again | shares never exceed the limit, the owner alone deletes, finalize removes only unused locks |
| MRAPI memory, metadata | | wrappers and queries | | not modelled |
| OpenMP-MTAPI shim (`OpenMP-MTAPI_RTL/*.c`) | a global function pointer | `GOMP_*` entry points | pointer replaced before a task runs | not modelled |
| OpenUH tasks and pool (`omp_task.c`, `omp_task_pool.c`, `omp_queue.c`) | task objects with counts of children, two queues per thread, count of pending tasks | create, taskwait, exit, switch, steal, barriers | stealing, tied tasks, full queues, sleeping in barriers, freeing of tasks | each task once, waits and barriers cover what they must, tied tasks under their ancestors, regions end |
| OpenUH threads, barriers of `omp_xbarrier.c`, collector | teams, flags | fork, barriers | | not modelled |
| OpenUH baseline (`libopenmp_OpenUH_old`) | older copy | | | not modelled |
| Benchmarks | | | | read for the calls the compiler emits |

How they interact: the program calls `__ompc_fork`; the master writes the team
and wakes the slaves by `new_work`; everybody runs the body, which calls the
worksharing functions and `__ompc_barrier`; body and region end in the
tournament barrier. `setup_nodes`, `__ompc_setup_param_offset` and the user API
take their memory from the allocator, `free_node` gives it back at exit. The
mutexes of the worksharing functions and of critical sections are MRAPI's locks
(379-413). In the pthread runtime the threads of a team run each other's explicit
tasks in taskwaits, at the end of tasks and in barriers. In MTAPI the
application's thread and the workers of a node share its task list; the
processer and the listener carry remote tasks to the other domain as MCAPI
messages; MCAPI keeps its database in shared memory that MRAPI provides.

The hazards of this code are listed in `PROJECT.json`, each with its line and
the properties aimed at it.

## 2 Modules

| Module | Lines it models | What it is |
|---|---|---|
| `Barrier` | promise of 1443-1482 | abstract reusable barrier: arrive, one step opens it, leave |
| `TourBarrier` | 260-298, 450-460, 1443-1482 | the tournament, one step per access to a shared volatile |
| `TourBarrierProofs` | | theorems about `TourBarrier` |
| `Regions` | promise of 1211-1304 | abstract regions: fork a team, each member begins and ends once, join |
| `ForkJoin` | 333-488, 841-1075, 1121-1155, 1211-1333, 1485-1516 | nodes, fork, slave loop, shutdown; composed with `TourBarrier` |
| `ForkJoinProofs` | | theorems about `ForkJoin`; takes those of the barrier from `TourBarrierProofs` (`INSTANCE`) |
| `Heap` | promise of 591-778 | abstract heap of disjoint blocks |
| `ShmemAlloc` | 491-783, 1042-1070, 1293-1299 | the allocator and its callers |
| `ShmemAllocProofs` | | theorems about `ShmemAlloc` |
| `WorkSharing` | 1211-1333, 1518-1851, 1912-1973 | loops and singles on top of the abstract `Barrier` |
| `WorkSharingProofs` | | theorems about `WorkSharing`, and about the division of loop bounds |
| `Tasks` | promise of `mtapi.c` | abstract tasks: start, run, complete after the children, wait |
| `MtapiTasks` | `mtapi_runtime.c` 77-340, 847-1025, 1289-1343 | actions, tasks, queues, groups, waits of a node |
| `MtapiRemote` | `mtapi_runtime.c` 98-110, 875-890, 969-1280, 1316-1450 | two nodes; extends `MtapiTasks` by messages, processer and listener |
| `MtapiProofs` | | the inductive invariant of `MtapiRemote`, what each step does, and theorems about where a task is |
| `MtapiCounters` | | theorems about `MtapiRemote`: queues, counters, waits, the refinement of `Tasks` |
| `Mailbox` | promise of `mcapi.c` | abstract endpoint: the i-th message is for the i-th outstanding receive |
| `McapiQueue` | `transport_sm.c` 2963-3035, 3193-3302, 3801-3955 | the ring of an endpoint as functions on a record |
| `McapiMessages` | `transport_sm.c` 272-351, 1715-2262, 2500-2867, 3360-3539 | requests, buffers and calls on top of the ring |
| `McapiProofs` | | theorems about `McapiQueue` and `McapiMessages` |
| `Locks` | promise of `mrapi.c` | abstract locks with shares |
| `MrapiLocks` | `mrapi_impl_spec.c` 156-201, 480-513, 714-728, 1469-1832, 2317-2881 | the table of locks and its critical sections |
| `MrapiLocksProofs` | | theorems about `MrapiLocks` |
| `TaskTree` | promise of OpenMP tasks | abstract tasks: create, run, done, left; taskwait; barriers |
| `OmpTasks` | `omp_task.c` 115-307, `omp_task_pool.c` 175-342, `omp_thread.h` 321-393, `omp_thread.c` 828-906 | explicit tasks, the stealing pool, the barriers that run tasks |
| `MCTourBarrier`, `MCForkJoin`, `MCShmemAlloc`, `MCWorkSharing`, `MCMtapi`, `MCMcapi`, `MCMrapi`, `MCOmpTasks` | | instances for TLC |

Definitions whose comment begins with `Fault:` are not part of any
specification. They are plausible mistakes in the definition that follows them;
each checked property is known to fail when one of them takes its place.

**TourBarrier.** `N` is `__omp_nthreads_var`, `LogMax` the second dimension of
`rounds`. `pc[t]` is where a thread is in `__ompc_level_1_barrier`, `round[t]` the
row its pointer is at, `sense`, `flag`, `championSense` are the variables of the
code. `Role(v, k)` is the table `tour_barrier_init` fills. One action per branch
of the loop: `LoserSignal`, `LoserWait`, `WinnerPass`, `ByePass`,
`ChampionRelease`, and `Arrive`, `Leave` for the call and the return.
`ImplementsBarrier` maps a thread to "go" once `champion_sense` has its sense, so
that the champion's one write is the step that opens the barrier.

**ForkJoin.** `np[n]` is where a node is: in the start-up chain, in
`__ompc_fork` (node 0), in the loop of `__ompc_slave_routine`, or in a region.
Every write another node may see is a step of its own, `omp_exe_mode` and
`new_work` of a woken node included. The barrier is `TourBarrier` itself
(`TB == INSTANCE`), stepped by `InBarrier`. Ghost variables: `last[n]` is the
region a node has last begun, `phase[n]` the barriers of the body it has passed,
`region` the number of forks. `Programs` are sequences of regions: how many
threads each asks for and how many barriers its body calls. `stopped` means that
the process is gone by `exit` or through a NULL row of the barrier; what `exit`
would still run in `atexit` is not followed. `CheckWork` reads `entry_func` once,
the code twice (948 and 954): between the two a member that the join waits for
cannot see a change.

*LARGER TEAMS.* The barrier is built for `N` threads, a region may ask for up to
`MaxNodes`. A team of more than `N` is joined by the first `N` alone; the
properties `ImplementsRegions` and `JoinedWithAll` therefore speak of the nodes
`0..N-1`, which hold them for every program (section 6 on the others). A team of
fewer than `N`, but more than one, hangs in the join, since the barrier waits for `N`. A call of
`omp_set_num_threads` between regions changes `__omp_nthreads_var` but not the
barrier, and so is a region that asks for that number.

**ShmemAlloc.** `slot` is the table `addr_meta_root`, links as slot numbers;
`grants` is what the callers hold, oldest first. Callers: any sequence of
requests; the deallocation of the newest block (the parameter index that
`__ompc_fork` frees, 1293-1299); the shutdown, which gives back everything in any
order; and the deallocation of an offset that was never given out (the -1 of a
failed request). With `AnyOrder` the program also frees its own blocks in any
order through `omp_deallocate_shmem_offset`. The arithmetic of addresses is
abstracted to units of memory. One thread calls these operations.

**WorkSharing.** A program is a sequence of regions, each with the size of its
team (1 or all) and its body, a sequence of constructs. `StaticInit` is the call
of `__ompc_static_init_4` and the loop of the compiled code over the bounds it
returns; `SchedulerInit`, `NextChunk`, `NextAll`, `NoMore` are the calls of the
dynamic schedule; `Single` is `__ompc_single`. The two functions hold
`pthread_scheduling` while they touch shared state, so a call is one step.
`Clip` is what the compiled code does with the upper bound it gets
(`mca_benchmarks/jacobi/jacobi_kernel.w2c.c:153`), mirrored for downward loops.
`ran` is a history: the bag of all iterations run. The barrier between
constructs is the abstract `Barrier`, which `TourBarrier` implements; mode
SLEEP, in which a node skips it, is kept.

**MtapiTasks, MtapiRemote.** A thread has a stack of frames: a task it is in, the
operation of the task's function it has come to, and where it is in the runtime,
since a waiting thread processes other tasks on top of its own (`WaitTask`,
`WaitGroupAll`, `PopWaiting`). `taskList` is the one list of a node; a step is a
section under a mutex, an atomic operation, or an unlocked access. The
parts of `SetTaskComplete` (status, parent, queue, group, result, message) are steps
in the order of the code. A program says what the application's threads and the action
functions do: create actions, start or enqueue tasks, wait. `MtapiRemote` adds the
list of messages, `processer_func`, which blocks in the acknowledgement of what it
sends, and `listener_func`. The type of the message a remote task was received
with, which three functions rewrite, is `served`. MCAPI is external here: a FIFO
without loss, as `McapiMessages` is proved to be (`McapiProofs!Refinement`). `StartRemoteTask` has the two
nodes written into it, so there are two. Jobs have one action on one node (`jobList`
is appended to without a lock), and only the thread that waits for a group starts its
tasks. `currentTask` may be NULL after a wait (960), and a task that is started then has no
parent, so that its starter completes without it. One program of the run does this: a
task starts `t3` after it has waited for any of a group. That the parent is missing
contradicts no property, since the abstract `Start` allows it; the task waits for `t3`
by its group. In all other programs nothing is started after a wait.

**McapiQueue, McapiMessages.** Each call holds the global lock, so it is one step;
the blocking calls are loops of steps (`SendLoop`, `RecvLoop`, `WaitLoop`), and the
status of a try is the input of the next, as in the code. The array of requests has
its free list, from whose head indices are taken and to which they return.
Applications say which calls each thread makes on which endpoints. `received` is
the set of messages copied or lent to the application; `ordered` is a history: an
endpoint has lost its order when a receive is cancelled whose message has come
while another receive waits, since the shift of reservations (3218) then leaves
a waiting receive beside a message nobody has reserved.

**MrapiLocks.** A call is a sequence of critical sections of an entry (`CheckHandle`,
then `MutexLock`, `ReadLimit`, `TryAcquire` and `TakeShares`, `MutexUnlock`,
`Release`, `Delete`), between which others run; `Enter` takes the member of the
semaphore and the end of the section gives one back. `globalOnly` is `use_global_only`
(68, a `#define`; `Builds` says which of its values are looked at): with it every section,
create, get and finalize included, is under one semaphore. As built (it is 0) an entry
has a member of its own, and create, get and finalize are under the global semaphore, each one step: they may come in the
middle of a section, which is why the test for free shares and the taking of them are
two steps. `held` and `using` are histories: the locks granted to a node, and the
nodes that have created or got the lock that is in an entry now. `down` means an
assertion has ended the process. With `Reuse` an
entry is created again while a valid node is still logged as its user.

*THE WRONG MEMBER.* `mrapi_impl_valid_lock_hndl` takes member s (491) and gives back
member 0 (511), and the yield of waiters gives back and takes member 0 (2710), whichever
entry they are about. `CheckHandle`, `Yield` and `Enter` do what they do, with the
member that `Member` says. As built this is right for entry 0 only; a call on any other
breaks the exclusion of entry 0, and is stuck itself (run `sections_overlap`, theorem
`OthersNeverGranted`). `Called` therefore says which entries' locks are called in each
build: in `Mrapi.cfg` all with `use_global_only`, and as built the first one, while the
other may be created, looked up and removed at finalize; in `MrapiSections.cfg` all. The
abstract `Locks` has a table of any size, in which a lock goes only by its owner
(`Delete`), with the last node that uses it (`Leave`), or with the process (`End`, which
needs a node that holds several shares of a lock: the assertion at 2865-2874).

**OmpTasks.** A thread has a stack of frames, one for each task it is in. Creation
is `NewTask`, `CountPending`, `SignalTask`, `PutTask`; the search for a task is
`TakeOwn`, `StealUntied`, `StealTied`, whose random first victim is any victim; the
end of a task is one step per access, since other threads read what it writes.
The array queues are sequences: their operations run under a lock. The two barriers
share their loop; `Drowse` is the decision to sleep under `pool_lock`. `freed` is a
history of deleted objects, which keep their content; `awaited` the tasks a taskwait
has returned for. Spurious wake-ups are left out.

Throughout, accesses to shared volatiles are taken as sequentially consistent;
the code has no fences.

## 3 Runs

| Run | Bounds | Shows |
|---|---|---|
| `tour_barrier` | `N = 6`, `LogMax = 3` (16,238 states) | `TypeOK`, `TournamentInv`, `NoRoundOverrun`, `ImplementsBarrier`, `NoSignalLost`, `EveryoneReleased` |
| `fork_join` | 4 nodes, barrier for 3, seven programs of one to three regions, failing calls (39,782 states) | `TypeOK`, `PhasesSeparate`, `JoinedWithAll`, `ShutdownOrderly`, `ImplementsRegions`, `ProgramEnds` |
| `shmem_alloc` | 6 descriptors, 10 units of memory, requests of 1 to 3 (1,731 states) | `Partition`, `FailsOnlyWhenFull`, `Restored`, `ImplementsHeap` |
| `work_sharing` | 3 threads, five programs (8,990 states) | `RunOnce`, `RegionComplete`, `BarrierOrders`, `ProgramEnds` |
| `mtapi` | two nodes, two workers on one and one on the other, four tasks, a queue, a group, six programs (46,190 states) | `TypeOK`, `NoneLostOrShared`, `CountersExact`, `ResultsThere`, `AnyAfterFirst`, `ImplementsTasks`, `LocalEnds`, `AcksArrive` |
| `mcapi` | two threads, an endpoint of each kind, queues for 2, 2 buffers, 3 requests, 3 messages, four applications (80,161 states) | `TypeOK`, `QueueExact`, `ImplementsMailbox`, `WaitEnds` |
| `mrapi` | 2 nodes, 2 entries and keys, 2 shares, 2 locks deep, four kinds of locks, as built and with `use_global_only` (3,064,538 states, a minute and a half) | `TypeOK`, `SectionExclusive`, `DatabaseExact`, `ImplementsLocks`, `KeptWhileUsed` |
| `omp_tasks` | 3 threads, 4 tasks, queues for 2, four programs (about 320,000 states, two minutes) | `TiedDescends`, `ImplementsTaskTree`, `RegionEnds` |
| `sleeping_node`, `remote_answer_lost`, `sections_overlap`, `task_freed` | as above, small programs; 3 nodes, 2 entries and mutexes only in `sections_overlap` | the disagreements of section 6 |

Why the bounds are enough. Six threads give the tournament three rounds, a thread
that wins, has no partner and then loses (thread 4), and every role; the threads
re-enter for ever, so laps of a fast thread over a slow one happen. Four nodes
with a barrier for three have a slave in the middle of the chain of creation, a
team smaller and one larger than the barrier, and a node that no region uses; the
programs have regions back to back, which is where late writes of one region
meet the next (the same run with `N = 4`, `MaxNodes = 5` also passes: 442,722
states). Six descriptors are fewer than ten units of memory, so both can run out,
with free slots on either side of a freed one. Three threads at loops of up to
nine iterations have blocks of different length, chunks that do not divide the
loop, loops shorter than the team and empty ones, in both directions (with four
threads the run passes too: 121,455 states).

Four tasks on two workers give a waiting thread tasks of its own queue, of another
queue and of none to run on top of itself, children waited for and not, a group
with members in a queue, and a remote task with a child where it runs. A queue for
two messages with three requests and three messages is full, wraps, has bubbles
before and behind a reservation, and has the request array run out while two
buffers do. Two entries give a node a lock beside the one it is waiting for, a lock that
another node deletes or removes by its finalize while one is held, and all sections of both
under one semaphore or under their own. Two nodes are a holder and a waiter;
`MrapiThreeNodes.cfg`, one key and 3 nodes, which are a holder, a waiter and a
node that deletes, creates or finalizes, has the same properties and passes too
(595,625 states). Two shares tell readers, writers and semaphores apart; depth
two has a recursive lock. Three threads and queues for two tasks have a thief at each
end, two thieves at one queue, a task that finds the queue full, and a thread
asleep while two others create and finish tasks.

Deadlock is not checked where a program comes to its end (`ForkJoin`,
`WorkSharing`, `OmpTasks`, `MtapiRemote`, where everything rests at the end);
`ProgramEnds`, `RegionEnds` and `LocalEnds` state that it does. `McapiMessages`
stops when all requests and messages of the bound are used, `MrapiLocks` when all
nodes have finalized. The barrier and the allocator
run for ever and are checked for deadlock. The nodes and the keys of `MrapiLocks`
are symmetric, which is sound because that run checks no liveness.

The programs of `work_sharing` are those the code supports: all dynamic loops in
one full region, with a barrier between two of them; at most one single in full
teams; downward even loops whose step divides their length; barriers in the first
full region only. Each restriction is the subject of section 6 or of a hazard in
`PROJECT.json`. The programs for `PhasesSeparate` and `ProgramEnds` in
`fork_join` (`Sound`) are those with teams of one or all and barriers in the
first full region; every other property of that run is checked for every
program.

## 4 Fairness

A node is an OS thread that spins, so it is assumed to take steps as long as it
can: weak fairness of each node's steps (`FairSpec`). That a thread calls the
barrier at all is not assumed in `TourBarrier`, where `EveryoneReleased` starts
from a complete team. Bodies of regions end. In `WorkSharing` the step that opens
a complete barrier is fair, which is `EveryoneReleased` of `TourBarrier`. In
`MtapiRemote` and `OmpTasks` every thread is scheduled: all of them poll, and a
thread asleep in a barrier has no step until it is woken. In `McapiMessages` only
the loops of blocking calls are fair; whether an application makes another call is
open, and the global lock is taken in the end by a thread that keeps asking for it.
Nothing is said about when a lock of MRAPI is granted: its waiters poll between
sections that others win, which only strong fairness would resolve.

No strong fairness is assumed anywhere: in `WorkSharing` the two mutexes are held
for one step, and a construct's loop is finite, so that a thread that loses every
race still gets its turn when the bounds are exhausted.

`ProgramEnds` of `ForkJoin` excepts failed calls: when `mrapi_initialize` fails in
a slave (889) the node returns without becoming ready, no further node is
created, and the master polls `is_ready` of the last node for ever.

## 5 Proofs

What TLC checks for a small instance is proved here for every value of the
constants. No module uses a RECURSIVE operator, which the prover does not support.

| Module | Theorem | Statement | Hypotheses |
|---|---|---|---|
| `TourBarrierProofs` | `TypeCorrect` | `Spec => []TypeOK` | |
| | `TournamentCorrect` | `Spec => []TournamentInv` | |
| | `RoundsInBounds` | `Spec => []NoRoundOverrun` | |
| | `SignalsKept` | `Spec => NoSignalLost` | |
| | `Refinement` | `Spec => ImplementsBarrier` | |
| `ForkJoinProofs` | `TypeCorrect` | `Spec => []TypeOK` | |
| | `JoinComplete` | `Spec => []JoinedWithAll` | |
| | `ShutdownComplete` | `Spec => []ShutdownOrderly` | |
| | `BarrierSeparates` | `Spec => []PhasesSeparate` | |
| | `Refinement` | `Spec => ImplementsRegions` | |
| `WorkSharingProofs` | `RunOnceHolds` | `Spec => []RunOnce` | `Orderly` |
| | `RegionCompleteHolds` | `Spec => []RegionComplete` | `Orderly` |
| | `BarrierOrdersHolds` | `Spec => []BarrierOrders` | `Orderly` |
| `McapiProofs` | `TypeCorrect` | `Spec => []TypeOK` | |
| | `QueuesExact` | `Spec => []QueueExact` | |
| | `Refinement` | `Spec => ImplementsMailbox` | |
| `MtapiProofs` | `Invariant` | `Spec => [](Inv1 /\ Inv2)` | |
| | `NoTaskLost` | `Spec => []NoneLostOrShared` | |
| `MtapiCounters` | `CountersAreExact` | `Spec => []CountersExact` | |
| | `TypesAreOk` | `Spec => []TypeOK` | |
| | `ResultsAreThere` | `Spec => []ResultsThere` | `WaitsForOwn` |
| | `KeepsThePromise` | `Spec => ImplementsTasks` | `WaitsForOwn` |
| | `AnyIsLate` | `Spec => AnyAfterFirst` | `WaitsForOwn` |
| `MrapiLocksProofs` | `LocksKept` | `Spec => KeptWhileUsed` | `~Reuse` |
| | `SectionsExclusive` | `Spec => []SectionExclusive` | `OneMember` |
| | `OthersNeverGranted` | `Spec => []OnlyFirstGranted` | |
| | `DatabaseAgrees` | `Spec => []DatabaseExact` | `OneMember`, `~Reuse` |
| | `TypeCorrect` | `Spec => []TypeOK` | `OneMember`, `~Reuse` |
| | `Refinement` | `Spec => ImplementsLocks` | `OneMember`, `~Reuse` |
| `ShmemAllocProofs` | `TypeCorrect` | `Spec => []TypeOK` | `~AnyOrder` |
| | `Partitioned` | `Spec => []Partition` | `~AnyOrder` |
| | `NeverFragmented` | `Spec => []FailsOnlyWhenFull` | `~AnyOrder` |
| | `HeldApart` | `Spec => []GrantsDisjoint` | `~AnyOrder` |
| | `FullyRestored` | `Spec => []Restored` | `~AnyOrder` |
| | `Refinement` | `Spec => ImplementsHeap` | `~AnyOrder` |

**Assumptions.** Those of the modules, which TLC evaluates in every run. In
`TourBarrier`: `TourAssumption` (the table has room for the rounds of `N` threads,
which the code takes for granted, see the hazards at 454 and 1105) and
`ShiftAssumption` (three facts about `1 << k`: positive, doubling, and that the
smaller power divides the larger; the provers know `^` for literals only);
`BarrierAssumption` of `ForkJoin` repeats the latter for the barrier it is composed
with. In `McapiMessages` and `MrapiLocks` the constants that stand for "none" are no
requests, numbers, nodes or keys. A mutex has one share (`mrapi.c` creates it so).
In `MtapiTasks` (`MtapiAssumption`) a program starts a task at one place of its
scripts at most: a task is the object that one call of `mtapiRT_startTask` or
`mtapiRT_enqueueTask` allocates (158, 244), so a second start is another task. In
`MtapiRemote` (`RemoteAssumption`) there are two nodes when the program is distributed,
as the model of `StartRemoteTask` has it, and any number when it is not.

**Hypotheses.** All theorems about `MrapiLocks` hold for a table of any size with any
number of locks alive at once. `OneMember` says which calls are made: with
`use_global_only` any, as built those on the lock of the first entry. It is a fact about the
code, not about the proof: in these cases the member that the check of a handle
and the yield of a waiter give back (511, 2710) is the one they have taken. As built and with calls
on two entries sections of the same entry do overlap (`sections_overlap`), and everything
that relies on a section falls with it. What is true of that case, which is how the
OpenMP runtime uses its six mutexes, is the theorem `OthersNeverGranted`, which has no hypothesis: no lock of
another entry is ever granted, since the first call on one keeps its member for ever.
`~Reuse` is needed by the flags of users, which outlive their lock
(`MrapiLockLost.cfg` is the counterexample); `LocksKept` needs only this one.
`OneMember` and `~Reuse` are those of the run `mrapi`.
`~AnyOrder` says that the program leaves the deallocation of blocks to the runtime,
which gives back the newest block after a fork and, at shutdown, everything in any
order (both are in the specification under this hypothesis). If the program frees its
own blocks in an order of its own the theorems are false: `ShmemOverlap.cfg` is the
counterexample. It is the hypothesis of the run `shmem_alloc`.

`Orderly` of the theorems about `WorkSharing` says which programs the calls are right for,
among the regions that a full team runs; regions of the master alone are free. Each
clause is a counter or a flag of the code that is not reset, and without it the theorems
are false: after the first joined region a late write of mode SLEEP (965) lets a node skip
barriers, so only the first may have any; the count of singles is never reset (1961), so
there is one single; the master's count of dynamic loops is not reset by the next fork
(1260), so they are in one region (`LoopSecondRegion.cfg` is the counterexample), and the team
has one set of bounds (1683), so a barrier lies between two of them; and the quotient of
a downward even loop is rounded towards zero (1564), so it must have no rest. Static
and even loops may be as many as the program likes. TLC evaluates it for the
programs that run (`SoundAreOrderly` in `MCWorkSharing`).

`WaitsForOwn` of the theorems about waits says what an application has to do to have
their promise: a group is waited for by the script that starts its tasks, and on two
nodes a task by the script that has started it. Both come from the code. The waits read
the counters of the group as they are (309, 330), so that a thread that waits while
another one is still adding tasks may find none; and a handle is the address of the record
on one node (204), which has no meaning on the other. TLC evaluates it for the programs
that run (`ProgramsWait` in `MCMtapi`).

**The barrier.** That thread 0 alone may open the barrier does not follow from the
state it sees, a single flag; it follows from the shape of the tournament.
`SubtreeInv` says that a waiting thread at round k has beaten the 2^k - 1 threads
above it, all of which wait. To keep it when a winner passes one has to know that
its flag means that its loser waits (`FlagInv`, which also says why the flags
need no reset: a flag equals the sense of its loser from the signal to the exit
only), that a loser stands at the round it lost (`WalkInv`), and that a released
thread is told from a waiting one by its sense (`SenseInv`). Their conjunction is
inductive. At the champion's last round the subtree of thread 0 is the team, and
the write of `champion_sense` is the abstract step `Release`.

**The regions.** The barrier's variables change in `ForkJoin` by steps of the barrier
only (`BarrierInv` says which nodes are inside), so that the theorems of
`TourBarrierProofs` hold of it; `Reached` counts the barriers a node has been
released from in the region, and `ReachInv` says that no node of the team is behind
the master: the master is in every barrier. A slave's part in a region is told by
`last` and `new_work` (`WorkInv`, `ActiveInv`): while `new_work` is set the region is
one the slave has still to run, or is running, whatever it still has to write for
the region before. `PhasesSeparate` needs the stronger `FirstInv`, that nobody of the
team sleeps in the first full region; in a later one it is false, which is
what `sleeping_node` shows.

**The loops.** `ShareSplit` says of a loop that is divided beforehand that every iteration is
in the share of exactly one thread, for every number of threads, step, direction and
chunk; it rests on the division of the bounds as 1564 does it. A loop
is seen through the numbers of its iterations (`Nth`), so that up and down are
one case. `Control` says where threads are: a thread inside a region has been woken for it
(`TeamInv`), nobody is past a barrier or the join that another has not reached (`BarrierInv`,
`JoinInv`), and until a full region has been joined nobody in it sleeps (`AwakeInv`, why
its barriers hold). `Data` says what has been run: of a shared loop the shares
of those who have finished it, of a dynamic one the first k iterations, where the lower bound
of the team is the k-th (`HandedOut`). The hard part is that the first thread at a dynamic
loop, and no other, sets the bounds: it is told by comparing two counts, so `LoopInv`
says that they are the number of loops a thread has begun and the number anyone has. The
barrier between two loops makes the old one complete when the bounds are set anew.

**The queues.** `QueueOk` says of the ring of an endpoint that every message is between
head and tail and that the counter is their number; lemmas state for each operation of `McapiQueue` (`Compact`, `Push`,
`TakeReserved`, `Unreserve`) what it does to the positions of messages and
reservations. `BuffersInv` relates the rings to the table of buffers and `RequestsInv`
to the requests: a receive that waits is one reservation, in its own queue, and an
index in the free list is clear and there once. Their conjunction is inductive; it has
no bound on the sizes, nor a history variable.

That a ring is a mailbox needs its order as well, `OrderInv`. `Shaped` holds of every
ring: the invalid entries are just those between head and tail without a message
(`Bubbles`), and behind the tail the reservations leave no gap (`Contiguous`), so a
message that comes falls to the first receive that waits for one. `Fifo`, which holds until a
cancel is late, says that a message nobody has reserved is behind every reservation;
it makes the i-th message that of the i-th receive (`GetRank`, `TakeRank`, `LateRank`).
The mapping lists the entries in use by the rank of their positions; `SortedAppend`,
`SortedRemove` and `SortedSame` say what becomes of such a list when an entry is added
behind the others, taken out, or when the head moves. The lemmas about the operations of
`McapiQueue` are stated as relations of two rings (`Takes`, `Pushes`, `Asks`, `Unasks`),
from which `TakesShape`, `PushShape`, `AskShape` and `CancelShape` conclude that the order
is kept, and `SendMail`, `GetMail`, `AskMail`, `TakeMail` and `CancelMail` that the step is
one of the mailbox. The hard one is the cancel, whose shift of reservations stops at the
tail or at the head: `ShiftOrder` shows that it keeps the order of the receives.

**The tasks.** A task that is started and not complete is in the list of its node,
in a frame of one thread, at its start in a frame of the thread that starts it, or with
the processer that has received it: `SomewhereInv` says that it is in one of these
places, `ListInv`, `HeldInv`, `BeginInv` and `ReceiveInv` that it is in no other as
well and which status it has there. A thread's stack may hold many tasks, and a
place deep in a stack is left only much later, so `Inv1` says what each frame can
be (`StackOk`: all but the innermost are waiting). That a start meets no task that is
there already is `FreshInv`: what a script has still to start, and what the function of a task
that has not run would start, has no record on any node. A remote task is two
records, on the node that started it and on the one that runs it; `RecordInv` says how
they agree, and `TokenInv`, `OneTokenInv`, `UnsentInv` and `ServedInv` follow the one
message about it through the lists, the processers and the network: without them
a second message of start could put a running task in the list. `ActionInv` has the same
for actions: a job's action is local on one node only, so a received task is never sent on.
From `Inv2` to `NoneLostOrShared`, which counts places, `PlacesOnce` shows that each of the
counted sets has one element at most and at most one of them has any.

Counters and queues are on top of it (`MtapiCounters`, `Inv3`). `CountInv` says that a counter
is the number of elements of a set: of the children that have not signed off with their
parent, of the members between the stages grow and group; it also says that both sets are
finite, so that adding or taking one element changes the number by one. That a
child has a parent that still counts it needs `CurrentInv` (a thread's current
task runs, below in its own stack). `SeenInv` says of a queue that it
holds exactly the tasks that have entered it and not left, each once, and that the task
that has passed the test of the head is still the head: so the one that is removed
is the one that leaves.

Waits and the refinement are the last layer (`Inv4`, `Sound`). `FilledInv` says that a record
whose body has ended, here or on the other node, has its result in the buffer, `DoneInv` that
the children of a complete task are complete, `AwaitedInv` that what a wait has returned for is.
`StartedInv` relates scripts to records: every start before the operation a script has come to has
been made, by the thread that runs the script. With `CountersExact` this is why a group
whose counter is 0 has only complete members. `EntryInv` says who enters a task in a queue: a task
that still runs below on the same stack, or the application. On two nodes
an answer names its task only; `AnsweredInv` says that while it is on its way the record on
the node that has run the task is complete. The mapping tells the phase of an abstract task by
marks of its two records (asleep, running, resting, finished); for each action it is shown which
record changes its mark, and that the change is one step of `Tasks` or none.

`AnyAfterFirst` (`AnyInv`) is about two counters that nobody reads together. `BehindInv` says that
until a task of a group has completed numOfTask is not above currentNumOfTask, and is below it
while a thread is between the two increments; `SawInv` that a
thread whose comparison holds or will hold has a complete task in the group. The second
needs that no task is counted between the two reads: the one script that starts tasks of the
group is the one that waits, and it runs in one frame. `OriginInv` says which script
made a record, hence that the complete task is on the node of the waiting thread.

**The locks.** `UsersInv` counts the users of an entry: with the nodes that are logged
and valid, if it was created after its earlier users had ended. `SectionInv` says that
under `OneMember` all calls are on entries of member 0, that one node at most is in a section, and that
the member is 0 exactly then. `StuckInv` says the opposite of an entry with a member of its own: whoever
is past its handle check waits at a member that is 0 and that nobody gives back. `DatabaseExact`
then needs what a call knows of the entry between its sections: `CallsInv` (its kind
and the number of its shares are still those of the entry) and `BeyondInv` (after the
check of the handle the lock may have been deleted, but then the node has no share of
it and nobody else has; between the test and the loop of an acquire the shares stay
free; a mutex about to be released is not locked again). The refinement maps the
calls to grants; `TakenShares` counts the shares taken in the abstract state by an
injection into those that are not free.

**The allocator.** A split (651) gives the new slot its links but leaves the back link of
the slot after it as it was, so that a split anywhere but at the end of the list makes
a link stale. `StackInv` is why this does not happen: until the shutdown begins only
the last slot of the list is free, hence every split is at the end. From the shutdown on
nothing is split. `TableOk` says what a table with good links is (`Linked`), that
its slots do not overlap (`Apart`) and that unused descriptors are as they were built;
`GrantInv` matches full slots and blocks held one to one; `Packed` says that no two free
slots are neighbours. Their conjunction `Inv` is inductive. The walk along the list is a
recursive function; `ChainStep` shows that it has a value, by a minimal
counterexample, and `ChainEnds` that it reaches the end within the table, by the
pigeonhole principle. `AbsorbOk` and `SplitOk` say what the two ways to change the list
keep. `Restored` also needs that merging keeps descriptor 1 after descriptor 0.

**Only model-checked.** Liveness under fairness (`EveryoneReleased`, both
`ProgramEnds`, `WaitEnds`, `LocalEnds`, `AcksArrive`, `RegionEnds`), which is out of
the prover's reach, and everything about `OmpTasks`, whose `TiedDescends` does not hold
of every program (`OmpTasksTied.cfg`).

## 6 Where code and comments disagree

With a run (`PROJECT.json` quotes the comment each of them contradicts):

| Run | Line | What happens |
|---|---|---|
| `sleeping_node` | 965 | a slave's late write of mode SLEEP replaces the NORMAL of the next region; the node skips that region's barriers |
| `remote_answer_lost` | `mtapi_runtime.c` 1196, 997 | a type or a status written late overwrites the completion of a remote task; its waiter waits for ever |
| `sections_overlap` | `mrapi_impl_spec.c` 511, 2710 | the member of another entry is given back; two nodes are in sections of one entry, and an entry whose member is kept is locked by nobody any more |
| `task_freed` | `omp_task.c` 234 | a task is no longer pending before it has left its parent; the barrier frees the parent first |

With a configuration that is not a run of the project, but can be given to TLC:
`ShmemOverlap.cfg` (with `MCShmemAlloc`; 651: a split leaves a back link stale;
after deallocations in the program's own order two blocks overlap),
`MrapiLockLost.cfg` (with `MCMrapi`; `mrapi_impl_spec.c` 2550, 715-724: the flags
`nodes[n].sems[s]` of a lock's users outlive it, so that the finalize of a node that used a
deleted lock counts down the users of the one created in its place, and removes it
while its creator uses it, against the comment at 2633-2635),
`LoopSecondRegion.cfg` (with `MCWorkSharing`; 1260: the master's loop counter is
not reset; in the second region with a dynamic loop bounds in use are initialized
again), and `OmpTasksTied.cfg` (with `MCOmpTasks`; `omp_task_pool.c` 234-236: a
thread in an untied task above a suspended tied one creates tied tasks, and runs
them though they do not descend from it).

Read in the code while modelling, and kept out of the models' inputs:

- 454: the barrier is built for `__omp_nthreads_var` threads; a larger team is
  joined before all its members have run (`omp_set_num_threads` has this effect too).
- 1564: the remainder of a downward loop is never positive; a last partial step is
  lost (from 4 to 0 by -2 two iterations are counted instead of three).
- 1961: the count of singles is never reset; the second single is run by nobody.
- MTAPI: `createGroup` (295-302) returns no value; the result of a group's member is
  stored after the counter that announces it (1312-1314); tasks are used after the
  status that lets a waiter free them (1290).
- MCAPI: a cancel leaves the index of its request out of the free list, for ever
  (2856), and the waiter is told that the request is invalid, not cancelled
  (`mcapi.c` 2601-2603); a blocking receive that once met a full request array never
  resets the status, so each try completes with the old one, keeps an index and
  tries again (1811-1813); a blocking send after such a try sends nothing; a cancel
  of a completed request reports success; taking the last request writes beside the
  array (319); a full queue that could be compacted still refuses the message (3380).
- MRAPI: an unlock by a node that holds two shares gives back both and fails an assertion
  (2865-2874), where `mrapi.c` 1099 says 'This function releases a single lock';
  locking a non-recursive mutex again returns without an error (1501);
  waiters on a deleted lock go on (the acquire does not look at `valid`) and may
  get the lock created in its place; finalize releases no locks.
- OpenUH tasks: a parent may read `num_children` as 1 and set FINISHED after its last
  child has looked, and is then never freed (300-303, 241-244), or two threads may
  both free it; an immediate task is an object on the stack (144) that a deferred child
  may outlive.

## 7 Not modelled

OpenMP-MCA: nested regions (the code reduces them to one thread), ordered loops,
guided and runtime schedules (`__ompc_schedule_next_4` returns no value for them), a
dynamic loop that follows another without a barrier, constructs called outside of any
region (they behave as in a team of one), critical, master and reduction (thin
wrappers of mutexes), the central barrier (not compiled), parsing of the
environment, the contents of parameters and frames. Teams of one thread from
start-up on (`__omp_nthreads_var = 1`) and of more than the tables hold are outside
of the assumptions: there the code writes beside its tables.

MTAPI: attributes and ids, timeouts (the code ignores them), memory of tasks and
messages, more than two nodes. MCAPI: creation, lookup and deletion of endpoints,
connecting, opening and closing of channels, initialize and finalize, priorities, sizes
and truncation. MRAPI: shared and remote memory, metadata, attributes set later, a
node that initializes again. OpenUH: immediate tasks and
cutoffs, nested teams, other pools and queues (the resizable queue of
`omp_queue.c` 626-657 among them), memory handed out again after a free, threads and
teams, the barriers of `omp_xbarrier.c`, the collector.

The shim, the parsers, the benchmarks and the older copies of the runtime are left
out because they have no state of their own that a property could be about.
Throughout, memory models weaker than sequential consistency.

## 8 Plan

Done: the models, and the proofs about the tournament barrier, nodes and regions, loops,
MTAPI tasks (where a task is, queues, counters and types), MCAPI messages and their order, MRAPI locks
and the allocator.

What remains to be proved is `OmpTasks`: the tree of the default pool. `TiedDescends` needs
a hypothesis on the programs, as `WaitsForOwn` is one for `MtapiTasks`, since it is false of
the programs of `OmpTasksTied.cfg`.
