----------------------------- MODULE WorkSharing -----------------------------
(***************************************************************************)
(* Worksharing in libopenmp-OpenUH (omp_rtl.c): __ompc_static_init_4,      *)
(* __ompc_scheduler_init_4, __ompc_schedule_next_4 and __ompc_single,      *)
(* called by the threads of a team from the body of a region.              *)
(*                                                                         *)
(* A body is a sequence of constructs (loops and singles); each ends with  *)
(* a barrier unless it is "nowait".  Fork, join and barrier are those of   *)
(* ForkJoin, reduced to what the constructs see: the resets of the loop    *)
(* counters, the mode of the nodes and the abstract Barrier.  The two      *)
(* scheduling functions hold a mutex while they touch shared state; each   *)
(* call is one step.                                                       *)
(***************************************************************************)
EXTENDS Integers, Sequences, FiniteSets, Bags

CONSTANTS
  T,          \* the threads of a full team (a team is the master alone or T)
  Programs    \* programs: sequences of regions [team, body]

\* A construct: a loop "even", "static" or "dynamic" over lower, lower + incr,
\* ... up to upper in chunks, or a "single".
Construct ==
  [kind : {"even", "static", "dynamic", "single"}, lower : Int, upper : Int,
   incr : Int \ {0}, chunk : Nat \ {0}, nowait : BOOLEAN]

ASSUME WorkSharingAssumption ==
  /\ T \in Nat /\ T > 1
  /\ \A p \in Programs : p \in Seq([team : {1, T}, body : Seq(Construct)])

Thread == 0..(T-1)

VARIABLES
  prog,          \* the program that runs, chosen at the start
  region,        \* the regions forked so far; region is the current one
  newWork,       \* the slaves whose new_work is set
  idx,           \* the loop variable i of the master
  asleep,        \* the slaves whose omp_exe_mode is SLEEP
  pc,            \* where a thread is
  at,            \* the construct of the body it is at
  status,        \* where it is in the barrier
  myLoop,        \* list_nodes[t].loop_count
  teamLoop,      \* p_team->loop_count
  bounds,        \* p_team->loop_lower_bound, _upper_bound, _increment, chunk_size
  taken,         \* p_team->schedule_count (used by a team of one)
  singleCount,   \* global_single_count
  ran            \* history: what has been run, a bag of <<region, at, iteration>>

forkVars == <<prog, region, newWork, idx, asleep>>
loopVars == <<myLoop, teamLoop, bounds, taken>>
vars == <<forkVars, pc, at, status, loopVars, singleCount, ran>>

B == INSTANCE Barrier

Body == prog[region].body
Team == prog[region].team
Current(t) == Body[at[t]]

\* lower, lower + incr, ... not beyond upper
Iterations(lower, upper, incr) ==
  IF incr > 0 THEN {i \in lower..upper : (i - lower) % incr = 0}
  ELSE {i \in upper..lower : (lower - i) % (-incr) = 0}

\* What a construct has to do: its iterations; a single is one iteration.
Work(c) ==
  IF c.kind = "single" THEN {0} ELSE Iterations(c.lower, c.upper, c.incr)

\* The type of the state; a region initializes a dynamic loop for each of its
\* constructs at most.
TypeOK ==
  /\ prog \in Programs
  /\ region \in 0..Len(prog)
  /\ newWork \subseteq Thread /\ idx \in 1..T
  /\ asleep \subseteq Thread \ {0}
  /\ pc \in [Thread -> {"serial", "fork", "idle", "body", "next", "end",
                        "barrier", "join", "sleep"}]
  /\ region > 0 => at \in [Thread -> 1..Len(Body)+1]
  /\ B!TypeOK
  /\ myLoop \in [Thread -> Nat]
  /\ teamLoop \in Nat /\ (region > 0 => teamLoop <= Len(Body))
  /\ bounds \in [lower : Int, upper : Int, incr : Int, chunk : Nat]
  /\ taken \in BOOLEAN
  /\ singleCount \in Nat
  /\ IsABag(ran)

Init ==
  /\ prog \in Programs
  /\ region = 0 /\ newWork = {} /\ idx = 1
  /\ asleep = Thread \ {0}
  /\ pc = [t \in Thread |-> IF t = 0 THEN "serial" ELSE "idle"]
  /\ at = [t \in Thread |-> 1]
  /\ B!Init
  /\ myLoop = [t \in Thread |-> 0] /\ teamLoop = 0
  /\ bounds = [lower |-> 0, upper |-> 0, incr |-> 0, chunk |-> 0]
  /\ taken = FALSE
  /\ singleCount = 0
  /\ ran = EmptyBag

Goto(t, place) == pc' = [pc EXCEPT ![t] = place]

\* Thread t runs these iterations of the construct it is at.
Ran(t, iterations) ==
  ran' = ran (+) SetToBag({<<region, at[t], i>> : i \in iterations})

-----------------------------------------------------------------------------
\* __ompc_fork and the slave routine.

\* The team's counter starts at zero; so do those of the slaves (in Wake), but
\* not that of the master.
Fork ==
  /\ pc[0] = "serial" /\ region < Len(prog)
  /\ region' = region + 1
  /\ teamLoop' = 0 /\ taken' = FALSE
  /\ idx' = 1
  /\ Goto(0, "fork")
  /\ UNCHANGED <<prog, newWork, asleep, at, status, myLoop, bounds, singleCount,
                 ran>>

\* Fault: the slave is not told.
WakeNot ==
  /\ pc[0] = "fork" /\ idx < Team
  /\ asleep' = asleep \ {idx}
  /\ myLoop' = [myLoop EXCEPT ![idx] = 0]
  /\ idx' = idx + 1
  /\ UNCHANGED <<prog, region, newWork, pc, at, status, teamLoop, bounds, taken,
                 singleCount, ran>>

\* omp_exe_mode = NORMAL, loop_count = 0 and new_work = 1 in list_nodes[i]; i++
Wake ==
  /\ pc[0] = "fork" /\ idx < Team
  /\ asleep' = asleep \ {idx}
  /\ myLoop' = [myLoop EXCEPT ![idx] = 0]
  /\ newWork' = newWork \union {idx}
  /\ idx' = idx + 1
  /\ UNCHANGED <<prog, region, pc, at, status, teamLoop, bounds, taken,
                 singleCount, ran>>

\* The master calls the body when its loop is over, a slave when it finds work.
BeginBody(t) ==
  /\ \/ t = 0 /\ pc[t] = "fork" /\ idx >= Team
     \/ t # 0 /\ pc[t] = "idle" /\ t \in newWork
  /\ Goto(t, "body")
  /\ UNCHANGED <<forkVars, at, status, loopVars, singleCount, ran>>

\* The body returned: new_work = 0, and the barrier of the join (a team of one
\* passes it at once).
EndBody(t) ==
  /\ pc[t] = "body" /\ at[t] > Len(Body)
  /\ newWork' = newWork \ {t}
  /\ at' = [at EXCEPT ![t] = 1]
  /\ IF Team = 1 THEN Goto(t, "serial") /\ UNCHANGED status
     ELSE Goto(t, "join") /\ B!Arrive(t)
  /\ UNCHANGED <<prog, region, idx, asleep, loopVars, singleCount, ran>>

Join(t) ==
  /\ pc[t] = "join" /\ B!Leave(t)
  /\ Goto(t, IF t = 0 THEN "serial" ELSE "sleep")
  /\ UNCHANGED <<forkVars, at, loopVars, singleCount, ran>>

\* omp_exe_mode = SLEEP: the master may have woken the node for the next
\* region already (see SleepingNodeIdle of ForkJoin).
FallAsleep(t) ==
  /\ pc[t] = "sleep"
  /\ asleep' = asleep \union {t}
  /\ Goto(t, "idle")
  /\ UNCHANGED <<prog, region, newWork, idx, at, status, loopVars, singleCount,
                 ran>>

\* The barrier opens.
Release ==
  /\ B!Release
  /\ UNCHANGED <<forkVars, pc, at, loopVars, singleCount, ran>>

\* Thread t calls the construct it is at, which is of one of these kinds.
Calls(t, kinds) ==
  pc[t] = "body" /\ at[t] \in DOMAIN Body /\ Current(t).kind \in kinds

-----------------------------------------------------------------------------
\* __ompc_static_init_4

\* The division of C truncates towards zero.
Quotient(a, b) ==
  LET Abs(x) == IF x < 0 THEN -x ELSE x
      q == Abs(a) \div Abs(b)
  IN  IF (a < 0) = (b < 0) THEN q ELSE -q

Remainder(a, b) == a - b * Quotient(a, b)

\* num_iter as OMP_SCHED_STATIC_EVEN computes it.
NumIter(c) ==
  LET diff == c.upper - c.lower + (IF c.incr > 0 THEN 1 ELSE -1)
  IN  Quotient(diff, c.incr) + (IF Remainder(diff, c.incr) > 0 THEN 1 ELSE 0)

\* The caller cuts its block off at the limit of the loop.
Clip(upper, c) ==
  IF c.incr > 0 THEN (IF upper > c.upper THEN c.upper ELSE upper)
  ELSE IF upper < c.upper THEN c.upper ELSE upper

\* Fault: the threads below the remainder get no iteration more.
EvenBlockShort(t, c) ==
  LET size  == IF NumIter(c) > T THEN NumIter(c) \div T ELSE 1
      lower == c.lower + t * size * c.incr
  IN  Iterations(lower, Clip(lower + (size - 1) * c.incr, c), c.incr)

\* OMP_SCHED_STATIC_EVEN: one block for each thread, the first ones longer.
EvenBlock(t, c) ==
  LET many  == NumIter(c) > T
      rest  == IF many THEN NumIter(c) % T ELSE 0
      chunk == IF many THEN NumIter(c) \div T ELSE 1
      size  == IF t < rest THEN chunk + 1 ELSE chunk
      lower == c.lower + (t * size + (IF t < rest THEN 0 ELSE rest)) * c.incr
  IN  Iterations(lower, Clip(lower + (size - 1) * c.incr, c), c.incr)

\* OMP_SCHED_STATIC: chunks in turn.  The caller steps from chunk to chunk by
\* the stride chunk * incr * T it is given.
StaticChunks(t, c) ==
  LET first(k) == c.lower + (t + k * T) * c.chunk * c.incr
      block(k) == Iterations(first(k), Clip(first(k) + (c.chunk - 1) * c.incr, c), c.incr)
  IN  UNION {block(k) : k \in 0..Cardinality(Work(c))}

\* The whole loop in the hands of a team of one.
StaticInit(t) ==
  /\ Calls(t, {"even", "static"})
  /\ Ran(t, IF Team = 1 THEN Work(Current(t))
            ELSE IF Current(t).kind = "even" THEN EvenBlock(t, Current(t))
            ELSE StaticChunks(t, Current(t)))
  /\ Goto(t, "end")
  /\ UNCHANGED <<forkVars, at, status, loopVars, singleCount>>

-----------------------------------------------------------------------------
\* __ompc_scheduler_init_4 and __ompc_schedule_next_4

BoundsOf(c) ==
  [lower |-> c.lower, upper |-> c.upper, incr |-> c.incr, chunk |-> c.chunk]

\* Fault: whoever calls initializes.
FirstHereAlways(t) == TRUE

\* The thread's count, one up, is ahead of the team's.
FirstHere(t) == myLoop[t] + 1 > teamLoop

\* A team of one stores the bounds.  In a full team the first one here does.
SchedulerInit(t) ==
  /\ Calls(t, {"dynamic"})
  /\ IF Team = 1
     THEN /\ bounds' = [BoundsOf(Current(t)) EXCEPT !.chunk = bounds.chunk]
          /\ taken' = FALSE
          /\ UNCHANGED <<myLoop, teamLoop>>
     ELSE /\ myLoop' = [myLoop EXCEPT ![t] = @ + 1]
          /\ IF FirstHere(t)
             THEN /\ bounds' = BoundsOf(Current(t))
                  /\ taken' = FALSE
                  /\ teamLoop' = teamLoop + 1
             ELSE UNCHANGED <<teamLoop, bounds, taken>>
  /\ Goto(t, "next")
  /\ UNCHANGED <<forkVars, at, status, singleCount, ran>>

\* trip_flag < 0: the next chunk would start beyond the upper bound.
Exhausted ==
  IF bounds.incr > 0 THEN bounds.lower > bounds.upper ELSE bounds.lower < bounds.upper

\* The call returns 1 and a chunk, which the caller cuts off and runs.
NextChunk(t) ==
  /\ pc[t] = "next" /\ Team > 1 /\ ~Exhausted
  /\ LET upper == bounds.lower + (bounds.chunk - 1) * bounds.incr
     IN  Ran(t, Iterations(bounds.lower, Clip(upper, Current(t)), bounds.incr))
  /\ bounds' = [bounds EXCEPT !.lower = @ + bounds.chunk * bounds.incr]
  /\ UNCHANGED <<forkVars, pc, at, status, myLoop, teamLoop, taken, singleCount>>

\* A team of one gets the whole loop at its first call.
NextAll(t) ==
  /\ pc[t] = "next" /\ Team = 1 /\ ~taken
  /\ taken' = TRUE
  /\ Ran(t, Iterations(bounds.lower, bounds.upper, bounds.incr))
  /\ UNCHANGED <<forkVars, pc, at, status, myLoop, teamLoop, bounds, singleCount>>

\* The call returns 0: the loop is over for this thread.
NoMore(t) ==
  /\ pc[t] = "next"
  /\ IF Team = 1 THEN taken ELSE Exhausted
  /\ Goto(t, "end")
  /\ UNCHANGED <<forkVars, at, status, loopVars, singleCount, ran>>

-----------------------------------------------------------------------------
\* __ompc_single.  Its local single_count is 1 whenever it is compared.
Single(t) ==
  /\ Calls(t, {"single"})
  /\ IF Team = 1 THEN Ran(t, {0}) /\ UNCHANGED singleCount
     ELSE IF singleCount < 1 THEN Ran(t, {0}) /\ singleCount' = singleCount + 1
     ELSE UNCHANGED <<singleCount, ran>>
  /\ Goto(t, "end")
  /\ UNCHANGED <<forkVars, at, status, loopVars>>

-----------------------------------------------------------------------------
\* The end of a construct.

NextConstruct(t) ==
  /\ at' = [at EXCEPT ![t] = @ + 1]
  /\ Goto(t, "body")

\* Fault: the barrier is skipped.
EndConstructPast(t) ==
  /\ pc[t] = "end"
  /\ NextConstruct(t) /\ UNCHANGED status
  /\ UNCHANGED <<forkVars, loopVars, singleCount, ran>>

\* The compiled code calls __ompc_barrier unless the construct is nowait; the
\* call returns at once in a team of one and in mode SLEEP.
EndConstruct(t) ==
  /\ pc[t] = "end"
  /\ IF Current(t).nowait \/ Team = 1 \/ t \in asleep
     THEN NextConstruct(t) /\ UNCHANGED status
     ELSE Goto(t, "barrier") /\ B!Arrive(t) /\ UNCHANGED at
  /\ UNCHANGED <<forkVars, loopVars, singleCount, ran>>

LeaveBarrier(t) ==
  /\ pc[t] = "barrier" /\ B!Leave(t)
  /\ NextConstruct(t)
  /\ UNCHANGED <<forkVars, loopVars, singleCount, ran>>

-----------------------------------------------------------------------------
Step(t) ==
  \/ BeginBody(t) \/ EndBody(t) \/ Join(t) \/ FallAsleep(t)
  \/ StaticInit(t)
  \/ SchedulerInit(t) \/ NextChunk(t) \/ NextAll(t) \/ NoMore(t)
  \/ Single(t)
  \/ EndConstruct(t) \/ LeaveBarrier(t)

Next ==
  \/ Fork \/ Wake \/ Release
  \/ \E t \in Thread : Step(t)

Spec == Init /\ [][Next]_vars

\* Every thread is an OS thread that keeps running; a barrier whose team is
\* complete opens (EveryoneReleased of TourBarrier).
FairSpec ==
  /\ Spec
  /\ WF_vars(Fork \/ Wake) /\ WF_vars(Release)
  /\ \A t \in Thread : WF_vars(Step(t))

-----------------------------------------------------------------------------
\* The programs these calls are right for.

\* The regions of a full team.
Full(p) == {r \in DOMAIN p : p[r].team = T}

\* A downward loop has no rest: 1564 rounds the quotient of one towards zero.
NoRest(c) ==
  c.incr < 0 /\ c.upper <= c.lower => (c.lower - c.upper + 1) % (-c.incr) = 0

\* Regions of a full team have barriers in the first of them only (later a node
\* in mode SLEEP skips them), one single in all (its counter is never reset),
\* and dynamic loops in one of them only (the master's count is not reset), with
\* a barrier between two of them.
Orderly(p) ==
  \A r, s \in Full(p) :
    /\ s < r => \A c \in DOMAIN p[r].body : p[r].body[c].nowait
    /\ \A c \in DOMAIN p[r].body, d \in DOMAIN p[s].body :
         LET kind == p[r].body[c].kind
         IN  p[s].body[d].kind = kind =>
               /\ kind = "single" => r = s /\ c = d
               /\ kind = "dynamic" =>
                    r = s /\ (c < d => \E b \in c..(d-1) : ~p[r].body[b].nowait)
               /\ kind = "even" => NoRest(p[r].body[c])

-----------------------------------------------------------------------------
Has(r, c, i) == BagIn(<<r, c, i>>, ran)

Done(r, c) == \A i \in Work(prog[r].body[c]) : Has(r, c, i)

\* The master has left the join of region r.
Over(r) == r < region \/ (r = region /\ pc[0] = "serial")

\* However the calls interleave, no iteration of a loop and no single is run
\* twice, and nothing is run that the loop does not have.
RunOnce ==
  \A x \in BagToSet(ran) :
    ran[x] = 1 /\ x[3] \in Work(prog[x[1]].body[x[2]])

\* When a region is over, every iteration and every single of it has been run.
RegionComplete ==
  \A r \in DOMAIN prog : Over(r) => \A c \in DOMAIN prog[r].body : Done(r, c)

\* A barrier between two constructs orders them: nothing of the later one is
\* run before all of the earlier one has been.
BarrierOrders ==
  \A x \in BagToSet(ran), r \in DOMAIN prog :
    r = x[1] =>
      \A c \in 1..(x[2]-1) :
        (\E d \in c..(x[2]-1) : ~prog[r].body[d].nowait) => Done(r, c)

\* The program comes to its end.
ProgramEnds == <>(pc[0] = "serial" /\ region = Len(prog))

-----------------------------------------------------------------------------
\* What comments in the repository say, and the code does not do.

\* omp_rtl.c, in __ompc_scheduler_init_4: "The first one call schedule_init do
\* the initialization work".  So a thread that initializes finds nobody who is
\* already taking chunks.
FirstInitializes ==
  [][teamLoop' > teamLoop => \A t \in Thread : pc[t] # "next"]_vars
=============================================================================
