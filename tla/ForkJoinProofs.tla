--------------------------- MODULE ForkJoinProofs ---------------------------
(***************************************************************************)
(* Proofs about the nodes and parallel regions, for every number of nodes, *)
(* every size of the barrier and every set of programs.                    *)
(***************************************************************************)
EXTENDS ForkJoin, TLAPS

TBP == INSTANCE TourBarrierProofs

-----------------------------------------------------------------------------
(* The constants.                                                          *)

\* What the constants mean for the sets the model is built from.
LEMMA Constants ==
  /\ N \in Nat /\ MaxNodes \in Nat /\ 1 < N /\ N <= MaxNodes
  /\ Served \subseteq Node /\ 0 \in Served /\ 0 \notin Slave
  /\ Node = Slave \union {0} /\ Node \subseteq Nat
  /\ \A n \in Node : n < MaxNodes
  /\ \A n \in Node : n \in Served <=> n < N
BY ForkJoinAssumption, BarrierAssumption DEF Node, Slave, Served, TB!TourAssumption

-----------------------------------------------------------------------------
(* The barrier, seen from the nodes that call it.                          *)

\* The state of the barrier is one the tournament can reach.
BarrierOk == TBP!IndInv

\* Whether a node is outside the barrier, waits in it or has been released.
st == [n \in Served |-> TB!Status(n)]

\* The state Init builds satisfies the barrier's invariant; everybody is outside.
LEMMA BarrierInit ==
  ASSUME TB!Init
  PROVE  BarrierOk /\ \A n \in Served : st[n] = "out"
<1>1. TBP!Init
  BY DEF TB!Init, TBP!Init, TB!Thread, TBP!Thread, TB!Rounds, TBP!Rounds, TB!LogN, TBP!LogN
<1>2. BarrierOk
  BY <1>1, TBP!InitInv, BarrierAssumption DEF BarrierOk, TB!TourAssumption, TB!ShiftAssumption,
     TBP!TourAssumption, TBP!ShiftAssumption
<1> QED
  BY <1>2 DEF st, TB!Init, TB!Status, TB!Thread, Served

\* The definitions of the barrier and of its proofs are the same.
LEMMA BarrierSame ==
  /\ TBP!TypeOK <=> TB!TypeOK
  /\ \A t \in Served :
       /\ TBP!Arrive(t) <=> TB!Arrive(t)
       /\ TBP!LoserSignal(t) <=> TB!LoserSignal(t)
       /\ TBP!LoserWait(t) <=> TB!LoserWait(t)
       /\ TBP!WinnerPass(t) <=> TB!WinnerPass(t)
       /\ TBP!ByePass(t) <=> TB!ByePass(t)
       /\ TBP!ChampionRelease(t) <=> TB!ChampionRelease(t)
       /\ TBP!Leave(t) <=> TB!Leave(t)
<1> USE DEF TB!Thread, TBP!Thread, TB!Rounds, TBP!Rounds, TB!LogN, TBP!LogN
<1>1. TBP!TypeOK <=> TB!TypeOK
  BY DEF TB!TypeOK, TBP!TypeOK
<1>2. \A t, k : TBP!Role(t, k) = TB!Role(t, k) /\ TBP!Opponent(t, k) = TB!Opponent(t, k)
  BY DEF TB!Role, TBP!Role, TB!Lost, TBP!Lost, TB!Loses, TBP!Loses, TB!Opponent, TBP!Opponent
<1> QED
  BY <1>1, <1>2 DEF TB!Arrive, TBP!Arrive, TB!LoserSignal, TBP!LoserSignal, TB!LoserWait,
     TBP!LoserWait, TB!WinnerPass, TBP!WinnerPass, TB!ByePass, TBP!ByePass,
     TB!ChampionRelease, TBP!ChampionRelease, TB!Leave, TBP!Leave

\* What the invariant says of the barrier's types.
LEMMA BarrierType ==
  ASSUME BarrierOk
  PROVE  /\ TB!TypeOK
         /\ st \in [Served -> {"out", "wait", "go"}]
<1>1. TB!TypeOK
  BY BarrierSame DEF BarrierOk, TBP!IndInv
<1> QED
  BY <1>1 DEF st, TB!Status

\* The same for the state after a step.
LEMMA BarrierTypeNext ==
  ASSUME BarrierOk'
  PROVE  TB!TypeOK'
BY DEF BarrierOk, TBP!IndInv, TB!TypeOK, TBP!TypeOK, TB!Thread, TBP!Thread, TB!Rounds,
   TBP!Rounds, TB!LogN, TBP!LogN

\* A step that leaves the barrier alone.
LEMMA BarrierIdle ==
  ASSUME BarrierOk, UNCHANGED barVars
  PROVE  BarrierOk' /\ st' = st
<1>1. UNCHANGED TBP!vars
  BY DEF barVars, TBP!vars
<1>2. BarrierOk'
  BY <1>1, TBP!NextInv, BarrierAssumption DEF BarrierOk, TB!TourAssumption, TB!ShiftAssumption,
     TBP!TourAssumption, TBP!ShiftAssumption
<1> QED
  BY <1>2 DEF barVars, st, TB!Status

\* A node calls the barrier.
LEMMA BarrierArrive ==
  ASSUME BarrierOk, NEW t \in Served, TB!Arrive(t)
  PROVE  /\ BarrierOk'
         /\ st[t] = "out"
         /\ st' = [st EXCEPT ![t] = "wait"]
<1>1. TBP!Arrive(t)
  BY BarrierSame
<1>2. t \in TBP!Thread
  BY DEF Served, TBP!Thread
<1>3. BarrierOk'
  BY <1>1, <1>2, TBP!ArriveInv, BarrierAssumption DEF BarrierOk, TB!TourAssumption,
     TB!ShiftAssumption, TBP!TourAssumption, TBP!ShiftAssumption
<1>4. sense[t] # championSense /\ pc[t] = "out"
  BY <1>1, <1>2 DEF BarrierOk, TBP!IndInv, TBP!TournamentInv, TBP!SenseInv, TBP!Arrive
<1>5. pc \in [Served -> {"out", "round", "champ", "exit"}]
  BY BarrierType DEF TB!TypeOK, TB!Thread, Served
<1>6. pc' = [pc EXCEPT ![t] = "round"] /\ sense' = sense /\ championSense' = championSense
  BY DEF TB!Arrive
<1> QED
  BY <1>3, <1>4, <1>5, <1>6 DEF st, TB!Status

\* A step inside the barrier.  Either nobody's status changes and the node stays inside, or the
\* master releases all nodes, which all wait, or the node was released and leaves.
LEMMA BarrierInside ==
  ASSUME BarrierOk, NEW t \in Served, TB!Inside(t)
  PROVE  /\ BarrierOk'
         /\ st[t] # "out"
         /\ \/ pc'[t] # "out" /\ st' = st
            \/ /\ pc'[t] # "out"
               /\ \A u \in Served : st[u] = "wait" /\ st'[u] = "go"
            \/ /\ pc'[t] = "out" /\ st[t] = "go"
               /\ st' = [st EXCEPT ![t] = "out"]
<1> USE DEF st, TB!Status
<1>0. /\ t \in TBP!Thread /\ Served = TBP!Thread
      /\ TBP!TourAssumption /\ TBP!ShiftAssumption
  BY BarrierAssumption DEF Served, TBP!Thread, TB!TourAssumption, TB!ShiftAssumption,
     TBP!TourAssumption, TBP!ShiftAssumption
<1>1. /\ pc \in [Served -> {"out", "round", "champ", "exit"}]
      /\ sense \in [Served -> BOOLEAN] /\ championSense \in BOOLEAN
  BY BarrierType DEF TB!TypeOK, TB!Thread, Served
<1>2. CASE TB!LoserSignal(t)
  <2>1. BarrierOk'
    BY <1>0, <1>2, BarrierSame, TBP!LoserSignalInv DEF BarrierOk
  <2> QED BY <1>1, <1>2, <2>1 DEF TB!LoserSignal
<1>3. CASE TB!LoserWait(t)
  <2>1. BarrierOk'
    BY <1>0, <1>3, BarrierSame, TBP!LoserWaitInv DEF BarrierOk
  <2> QED BY <1>1, <1>3, <2>1 DEF TB!LoserWait
<1>4. CASE TB!WinnerPass(t)
  <2>1. BarrierOk'
    BY <1>0, <1>4, BarrierSame, TBP!WinnerPassInv DEF BarrierOk
  <2> QED BY <1>1, <1>4, <2>1 DEF TB!WinnerPass
<1>5. CASE TB!ByePass(t)
  <2>1. BarrierOk'
    BY <1>0, <1>5, BarrierSame, TBP!ByePassInv DEF BarrierOk
  <2> QED BY <1>1, <1>5, <2>1 DEF TB!ByePass
<1>6. CASE TB!ChampionRelease(t)
  <2>1. BarrierOk'
    BY <1>0, <1>6, BarrierSame, TBP!ChampionReleaseInv DEF BarrierOk
  <2>2. \A u \in Served : TBP!Waiting(u)
    BY <1>0, <1>6, BarrierSame, TBP!AllWait DEF BarrierOk
  <2>3. \A u \in Served : pc[u] \in {"round", "champ"} /\ sense[u] # championSense
    BY <2>2 DEF TBP!Waiting
  <2>4. /\ pc[t] = "round" /\ championSense' = sense[t] /\ sense' = sense
        /\ pc' = [pc EXCEPT ![t] = "exit"]
    BY <1>6 DEF TB!ChampionRelease
  <2>5. \A u \in Served : pc'[u] # "out" /\ sense'[u] = championSense'
    BY <1>1, <2>3, <2>4
  <2>6. \A u \in Served : st[u] = "wait" /\ st'[u] = "go"
    BY <2>3, <2>5
  <2> QED BY <1>1, <2>1, <2>4, <2>6
<1>7. CASE TB!Leave(t)
  <2>1. BarrierOk'
    BY <1>0, <1>7, BarrierSame, TBP!LeaveInv DEF BarrierOk
  <2>2. sense[t] = championSense
    BY <1>0, <1>7 DEF TB!Leave, BarrierOk, TBP!IndInv, TBP!TournamentInv, TBP!SenseInv
  <2> QED BY <1>1, <1>7, <2>1, <2>2 DEF TB!Leave
<1> QED
  BY <1>2, <1>3, <1>4, <1>5, <1>6, <1>7 DEF TB!Inside

-----------------------------------------------------------------------------
(* The inductive invariant.                                                *)

\* Where the master is between a fork and the end of its join.
Waking == np[0] \in {"wakeMode", "wakeWork"}
InTeam == np[0] \in {"body", "inBody", "join", "inJoin", "joined"}
Closing == np[0] \in {"shutdown", "await", "exited"}

\* The places of the master's routine and of a slave's.
MasterPlace == {"create", "setup", "serial", "wakeMode", "wakeWork", "body", "inBody",
                "join", "inJoin", "joined", "shutdown", "await", "exited"}
SlavePlace == {"none", "init", "failed", "create", "test", "poll", "check", "body",
               "inBody", "join", "inJoin", "sleep", "exited"}

\* The nodes are created in order; none is created twice.
ChainInv ==
  /\ np[0] \in MasterPlace
  /\ \A n \in Slave : np[n] \in SlavePlace
  /\ \A n \in Node :
       np[n] \in {"none", "init", "create", "failed"} =>
         \A m \in Node : m > n => np[m] = "none"
  /\ \A n \in Node : np[n] = "create" => n < MaxNodes - 1

\* free_node has joined with the nodes below its loop variable.
ShutdownInv ==
  /\ np[0] \in {"shutdown", "await"} => \A n \in Slave : n < idx => np[n] = "exited"
  /\ np[0] = "await" => idx < MaxNodes
  /\ np[0] = "exited" => \A n \in Slave : np[n] = "exited"

\* A node is inside the barrier exactly when it called it; only nodes the
\* barrier was built for are.
BarrierInv ==
  /\ BarrierOk
  /\ \A n \in Node : np[n] \in {"inBody", "inJoin"} => n \in Served
  /\ \A n \in Served : st[n] # "out" <=> np[n] \in {"inBody", "inJoin"}

\* The master's place tells whether a region is open.
MasterInv ==
  /\ Waking \/ InTeam => entryFunc = region /\ entryFunc # 0 /\ mode[0] = "NORMAL"
  /\ ~Waking /\ ~InTeam => entryFunc = 0
  /\ Waking => last[0] < entryFunc
  /\ np[0] = "wakeWork" => idx < teamSize
  /\ InTeam => last[0] = entryFunc

\* A node that runs a body has passed no more barriers than the body calls, and
\* one that is through with its last region has passed them all.
InRegion == {"body", "inBody", "join", "inJoin", "joined", "sleep"}

PhaseInv ==
  \A n \in Node :
    /\ np[n] \in InRegion => last[n] # 0
    /\ np[n] = "body" => phase[n] <= prog[last[n]].barriers
    /\ np[n] = "inBody" => phase[n] < prog[last[n]].barriers
    /\ np[n] \notin {"body", "inBody"} /\ last[n] # 0 =>
         phase[n] = prog[last[n]].barriers

\* The team is the one the region asked for; a slave runs no solo region.
TeamInv ==
  /\ entryFunc # 0 => teamSize = TeamSize(prog[entryFunc].req)
  /\ \A n \in Served \ {0} : last[n] # 0 => ~Solo(prog, last[n])

\* new_work is set for members that have still to run the region, and for those
\* that run it; the master sets it for one node after the other.
WorkInv ==
  \A n \in Served \ {0} :
    /\ np[n] = "check" => newWork[n]
    /\ newWork[n] /\ ~Closing =>
         entryFunc # 0 /\ Member(n) /\ (last[n] < entryFunc \/ Busy(n))
    /\ Waking /\ n >= idx => ~newWork[n] /\ last[n] < entryFunc

\* Whoever runs a body or waits in a barrier does so for the region that is open.
ActiveInv ==
  \A n \in Served :
    np[n] \in {"body", "inBody", "join"} \/ st[n] = "wait" =>
      entryFunc # 0 /\ last[n] = entryFunc /\ Member(n)

\* The barriers of the open region a node has been released from or has skipped;
\* the one of the join counts.
Through(n) ==
  IF np[n] \in {"inBody", "inJoin"} THEN st[n] = "go" ELSE np[n] \notin {"body", "join"}

Reached(n) ==
  IF last[n] # entryFunc THEN 0 ELSE phase[n] + (IF Through(n) THEN 1 ELSE 0)

\* No node of a team is behind the master: the master calls every barrier.
ReachInv ==
  entryFunc # 0 /\ last[0] = entryFunc /\ teamSize > 1 =>
    \A n \in Served : Reached(n) >= Reached(0)

Inv ==
  /\ TypeOK /\ ChainInv /\ ShutdownInv /\ BarrierInv /\ MasterInv /\ PhaseInv
  /\ TeamInv /\ WorkInv /\ ActiveInv /\ ReachInv

-----------------------------------------------------------------------------
(* The steps of the body, by what they do to a node and to the barrier.    *)

\* Nothing but a node's place and its count of barriers can change.
Rest == <<newWork, mode, isReady, teamVars, prog, region, idx, last>>

\* A node enters the barrier.
Enter(n, inside) ==
  /\ n \in Served /\ teamSize > 1
  /\ st[n] = "out" /\ st' = [st EXCEPT ![n] = "wait"]
  /\ Goto(n, inside)
  /\ UNCHANGED <<Rest, phase, stopped>>

\* A node that has no row of rounds crashes the process.
Crash(n) ==
  /\ n \notin Served /\ teamSize > 1
  /\ stopped'
  /\ st' = st
  /\ UNCHANGED <<Rest, np, phase>>

\* __ompc_barrier in a body: skipped, entered, or a crash for want of a row of rounds.
LEMMA CallBarrierCases ==
  ASSUME BarrierOk, NEW n \in Node, CallBarrier(n)
  PROVE  /\ ~stopped /\ np[n] = "body" /\ phase[n] < prog[last[n]].barriers
         /\ \/ /\ ~(mode[n] = "NORMAL" /\ teamSize > 1)
               /\ phase' = [phase EXCEPT ![n] = @ + 1]
               /\ st' = st
               /\ UNCHANGED <<Rest, np, stopped>>
            \/ mode[n] = "NORMAL" /\ Enter(n, "inBody")
            \/ mode[n] = "NORMAL" /\ Crash(n)
<1>1. /\ ~stopped /\ np[n] = "body" /\ phase[n] < prog[last[n]].barriers
      /\ UNCHANGED Rest
  BY DEF CallBarrier, At, Rest
<1>2. CASE mode[n] = "NORMAL" /\ teamSize > 1
  <2>0. LevelOneBarrier(n, "inBody", "body") /\ UNCHANGED phase
    BY <1>2 DEF CallBarrier
  <2>1. CASE /\ n < N
             /\ TB!Arrive(n) /\ Goto(n, "inBody") /\ UNCHANGED stopped
    <3>1. n \in Served
      BY <2>1, Constants
    <3> QED BY <1>1, <1>2, <2>0, <2>1, <3>1, BarrierArrive DEF Enter
  <2>2. CASE n >= N /\ stopped' = TRUE /\ UNCHANGED <<np, barVars>>
    <3>1. n \notin Served
      BY <2>2, Constants
    <3> QED BY <1>1, <1>2, <2>0, <2>2, <3>1, BarrierIdle DEF Crash
  <2>3. ~(teamSize = 1)
    BY <1>2
  <2> QED BY <1>2, <2>0, <2>1, <2>2, <2>3 DEF LevelOneBarrier
<1>3. CASE ~(mode[n] = "NORMAL" /\ teamSize > 1)
  BY <1>1, <1>3, BarrierIdle DEF CallBarrier
<1> QED
  BY <1>1, <1>2, <1>3

\* The barrier of the join: skipped by a team of one, entered, or a crash.
LEMMA JoinBarrierCases ==
  ASSUME BarrierOk, NEW n \in Node, JoinBarrier(n)
  PROVE  /\ ~stopped /\ np[n] = "join"
         /\ \/ /\ teamSize = 1
               /\ Goto(n, IF n = 0 THEN "joined" ELSE "sleep")
               /\ st' = st
               /\ UNCHANGED <<Rest, phase, stopped>>
            \/ Enter(n, "inJoin")
            \/ Crash(n)
<1>1. /\ ~stopped /\ np[n] = "join" /\ UNCHANGED <<Rest, phase>>
      /\ LevelOneBarrier(n, "inJoin", IF n = 0 THEN "joined" ELSE "sleep")
  BY DEF JoinBarrier, At, Rest
<1>2. CASE /\ teamSize > 1 /\ n < N
           /\ TB!Arrive(n) /\ Goto(n, "inJoin") /\ UNCHANGED stopped
  <2>1. n \in Served
    BY <1>2, Constants
  <2> QED BY <1>1, <1>2, <2>1, BarrierArrive DEF Enter
<1>3. CASE teamSize > 1 /\ n >= N /\ stopped' = TRUE /\ UNCHANGED <<np, barVars>>
  <2>1. n \notin Served
    BY <1>3, Constants
  <2> QED BY <1>1, <1>3, <2>1, BarrierIdle DEF Crash
<1>4. CASE /\ teamSize = 1 /\ Goto(n, IF n = 0 THEN "joined" ELSE "sleep")
           /\ UNCHANGED <<stopped, barVars>>
  BY <1>1, <1>4, BarrierIdle
<1> QED
  BY <1>1, <1>2, <1>3, <1>4 DEF LevelOneBarrier

\* A step inside the barrier: one of the tournament's own, the release of everybody, or
\* the return to the body or out of the join.
LEMMA InBarrierCases ==
  ASSUME BarrierInv, NEW n \in Node, InBarrier(n)
  PROVE  /\ n \in Served /\ ~stopped /\ np[n] \in {"inBody", "inJoin"}
         /\ UNCHANGED <<Rest, stopped>>
         /\ \/ st' = st /\ UNCHANGED <<np, phase>>
            \/ /\ \A u \in Served : st[u] = "wait" /\ st'[u] = "go"
               /\ UNCHANGED <<np, phase>>
            \/ /\ st[n] = "go" /\ st' = [st EXCEPT ![n] = "out"]
               /\ np[n] = "inBody" /\ Goto(n, "body")
               /\ phase' = [phase EXCEPT ![n] = @ + 1]
            \/ /\ st[n] = "go" /\ st' = [st EXCEPT ![n] = "out"]
               /\ np[n] = "inJoin" /\ Goto(n, IF n = 0 THEN "joined" ELSE "sleep")
               /\ UNCHANGED phase
<1>1. /\ ~stopped /\ np[n] \in {"inBody", "inJoin"} /\ TB!Inside(n)
      /\ UNCHANGED <<Rest, stopped>>
  BY DEF InBarrier, At, Rest
<1>2. n \in Served /\ BarrierOk
  BY <1>1 DEF BarrierInv
<1>3. \/ pc'[n] # "out" /\ st' = st
      \/ /\ pc'[n] # "out"
         /\ \A u \in Served : st[u] = "wait" /\ st'[u] = "go"
      \/ pc'[n] = "out" /\ st[n] = "go" /\ st' = [st EXCEPT ![n] = "out"]
  BY <1>1, <1>2, BarrierInside
<1>4. pc'[n] # "out" => UNCHANGED <<np, phase>>
  BY DEF InBarrier
<1>5. pc'[n] = "out" /\ np[n] = "inBody" =>
        Goto(n, "body") /\ phase' = [phase EXCEPT ![n] = @ + 1]
  BY DEF InBarrier
<1>6. pc'[n] = "out" /\ np[n] = "inJoin" =>
        Goto(n, IF n = 0 THEN "joined" ELSE "sleep") /\ UNCHANGED phase
  BY DEF InBarrier
<1> QED
  BY <1>1, <1>2, <1>3, <1>4, <1>5, <1>6

\* The steps outside the bodies leave the barrier alone.
LEMMA OutsideIdle ==
  ASSUME BarrierOk,
         \/ Master \/ UNCHANGED vars
         \/ \E n \in Slave : SlaveStep(n)
         \/ \E n \in Node : CreateNode(n) \/ CreateFails(n) \/ EndBody(n)
  PROVE  BarrierOk' /\ st' = st
<1>1. UNCHANGED barVars
  <2>1. CASE Master
    BY <2>1 DEF Master, SetupDone, Fork, WakeMode, WakeWork, MasterBegin, Joined, Finish,
       WakeToExit, JoinNode, RcGarbage, MasterExit
  <2>2. CASE \E n \in Slave : SlaveStep(n)
    BY <2>2 DEF SlaveStep, InitFails, BecomeReady, TestFinished, PollWork, CheckWork, FallAsleep
  <2>3. CASE \E n \in Node : CreateNode(n) \/ CreateFails(n) \/ EndBody(n)
    BY <2>3 DEF CreateNode, CreateFails, EndBody
  <2>4. CASE UNCHANGED vars
    BY <2>4 DEF vars
  <2> QED BY <2>1, <2>2, <2>3, <2>4
<1> QED
  BY <1>1, BarrierIdle

\* The invariant of the barrier itself survives every step of a node.
LEMMA StepBarrierOk ==
  ASSUME BarrierInv, [Next]_vars
  PROVE  BarrierOk'
<1>0. BarrierOk
  BY DEF BarrierInv
<1>1. ASSUME NEW n \in Node, CallBarrier(n) \/ JoinBarrier(n), ~UNCHANGED barVars
      PROVE  BarrierOk'
  <2>1. n \in Served /\ TB!Arrive(n)
    BY <1>1, Constants DEF CallBarrier, JoinBarrier, LevelOneBarrier
  <2> QED BY <1>0, <2>1, BarrierArrive
<1>2. ASSUME NEW n \in Node, InBarrier(n)
      PROVE  BarrierOk'
  <2>1. n \in Served /\ TB!Inside(n)
    BY <1>2 DEF InBarrier, BarrierInv, At
  <2> QED BY <1>0, <2>1, BarrierInside
<1>3. CASE \/ Master \/ UNCHANGED vars
           \/ \E n \in Slave : SlaveStep(n)
           \/ \E n \in Node : CreateNode(n) \/ CreateFails(n) \/ EndBody(n)
  BY <1>0, <1>3, OutsideIdle
<1>4. CASE UNCHANGED barVars
  BY <1>0, <1>4, BarrierIdle
<1> QED
  BY <1>1, <1>2, <1>3, <1>4 DEF Next, Body


-----------------------------------------------------------------------------
(* Types.                                                                  *)

\* A request is cut to the nodes there are, but may be larger than the barrier.
LEMMA TeamSizeFact ==
  ASSUME NEW req \in Nat
  PROVE  TeamSize(req) \in 1..MaxNodes
BY Constants DEF TeamSize

\* A program is a sequence of regions.
LEMMA ProgramFact ==
  ASSUME prog \in Programs
  PROVE  /\ Len(prog) \in Nat /\ DOMAIN prog = 1..Len(prog)
         /\ \A r \in 1..Len(prog) : prog[r].req \in Nat /\ prog[r].barriers \in Nat
<1>1. prog \in Seq([req : Nat, barriers : Nat])
  BY ForkJoinAssumption
<1>2. Len(prog) \in Nat /\ DOMAIN prog = 1..Len(prog)
  BY <1>1
<1>3. \A r \in 1..Len(prog) : prog[r] \in [req : Nat, barriers : Nat]
  <2> DEFINE R == [req : Nat, barriers : Nat]
  <2>1. prog \in Seq(R)
    BY <1>1
  <2> HIDE DEF R
  <2>2. \A r \in 1..Len(prog) : prog[r] \in R
    BY <2>1
  <2> QED BY <2>2 DEF R
<1> QED
  BY <1>2, <1>3

\* The state setup_nodes has built is of the type.
LEMMA InitType == Init => TypeOK
<1> SUFFICES ASSUME Init PROVE TypeOK
  OBVIOUS
<1>1. Len(prog) \in Nat
  BY ProgramFact DEF Init
<1>2. TB!TypeOK
  BY BarrierInit, BarrierType DEF Init
<1>3. /\ region \in 0..Len(prog) /\ entryFunc \in 0..region /\ teamSize \in 1..MaxNodes
      /\ idx \in 1..MaxNodes /\ last \in [Node -> 0..region] /\ phase \in [Node -> Nat]
  BY <1>1, Constants DEF Init
<1> QED
  BY <1>2, <1>3, Constants DEF Init, TypeOK

Places == {"none", "init", "failed", "create", "setup", "serial",
           "wakeMode", "wakeWork", "test", "poll", "check", "body",
           "inBody", "join", "inJoin", "joined", "sleep",
           "shutdown", "await", "exited"}

\* Every step keeps the type.
LEMMA StepType ==
  ASSUME TypeOK, ChainInv, ShutdownInv, BarrierInv, MasterInv, [Next]_vars
  PROVE  TypeOK'
<1> USE DEF At, Goto
<1>0. TB!TypeOK'
  <2>1. BarrierOk'
    BY StepBarrierOk
  <2> QED BY <2>1, BarrierTypeNext
<1> DEFINE T == /\ np \in [Node -> Places]
                /\ newWork \in [Node -> BOOLEAN]
                /\ mode \in [Node -> {"SLEEP", "SEQUENTIAL", "NORMAL"}]
                /\ isReady \in [Node -> BOOLEAN]
                /\ finished \in BOOLEAN /\ stopped \in BOOLEAN
                /\ prog \in Programs
                /\ region \in 0..Len(prog)
                /\ entryFunc \in 0..region
                /\ teamSize \in 1..MaxNodes
                /\ idx \in 1..MaxNodes
                /\ last \in [Node -> 0..region]
                /\ phase \in [Node -> Nat]
<1> SUFFICES T'
  BY <1>0 DEF TypeOK, Places
<1>1. T
  BY DEF TypeOK, Places
<1>2. Len(prog) \in Nat
  BY <1>1, ProgramFact
<1> USE DEF Places
<1>3. ASSUME Master PROVE T'
  <2>1. CASE SetupDone
    BY <1>1, <2>1, Constants DEF SetupDone, teamVars, runVars
  <2>2. CASE Fork
    <3>1. TeamSize(prog[region+1].req) \in 1..MaxNodes
      <4>1. region + 1 \in 1..Len(prog)
        BY <1>1, <1>2, <2>2 DEF Fork
      <4> QED BY <1>1, <4>1, ProgramFact, TeamSizeFact
    <3>2. region + 1 \in 0..Len(prog)
      BY <1>1, <1>2, <2>2 DEF Fork
    <3> QED BY <1>1, <1>2, <2>2, <3>1, <3>2, Constants DEF Fork
  <2>3. CASE WakeMode
    BY <1>1, <2>3, Constants DEF WakeMode, teamVars, runVars
  <2>4. CASE WakeWork
    <3>1. idx < teamSize
      BY <2>4 DEF WakeWork, MasterInv
    <3>2. idx + 1 \in 1..MaxNodes
      BY <1>1, <3>1, Constants
    <3> QED BY <1>1, <2>4, <3>2, Constants DEF WakeWork, teamVars
  <2>5. CASE MasterBegin
    BY <1>1, <1>2, <2>5, Constants DEF MasterBegin, Run, teamVars
  <2>6. CASE Joined
    BY <1>1, <1>2, <2>6, Constants DEF Joined, runVars
  <2>7. CASE Finish
    BY <1>1, <2>7, Constants DEF Finish
  <2>8. CASE WakeToExit
    BY <1>1, <2>8, Constants DEF WakeToExit, teamVars, runVars
  <2>9. CASE JoinNode
    <3>1. idx < MaxNodes
      BY <2>9 DEF JoinNode, ShutdownInv
    <3> QED BY <1>1, <2>9, <3>1, Constants DEF JoinNode, teamVars
  <2>10. CASE RcGarbage
    BY <1>1, <2>10, Constants DEF RcGarbage, nodeVars, teamVars
  <2>11. CASE MasterExit
    BY <1>1, <2>11, Constants DEF MasterExit, teamVars, runVars
  <2> QED
    BY <1>3, <2>1, <2>2, <2>3, <2>4, <2>5, <2>6, <2>7, <2>8, <2>9, <2>10, <2>11 DEF Master
<1>4. ASSUME NEW n \in Slave, SlaveStep(n) PROVE T'
  <2>1. n \in Node
    BY Constants
  <2>2. CASE InitFails(n)
    BY <1>1, <2>1, <2>2 DEF InitFails, teamVars, runVars
  <2>3. CASE BecomeReady(n)
    BY <1>1, <2>1, <2>3 DEF BecomeReady, teamVars, runVars
  <2>4. CASE TestFinished(n)
    BY <1>1, <2>1, <2>4 DEF TestFinished, teamVars, runVars
  <2>5. CASE PollWork(n)
    BY <1>1, <2>1, <2>5 DEF PollWork, teamVars, runVars
  <2>6. CASE CheckWork(n)
    <3>1. CASE entryFunc # 0 /\ Run(n)
      BY <1>1, <1>2, <2>1, <2>6, <3>1 DEF CheckWork, Run, teamVars
    <3>2. CASE entryFunc = 0 /\ Goto(n, "test") /\ UNCHANGED <<last, phase>>
      BY <1>1, <1>2, <2>1, <2>6, <3>2 DEF CheckWork, teamVars
    <3> QED BY <2>6, <3>1, <3>2 DEF CheckWork
  <2>7. CASE FallAsleep(n)
    BY <1>1, <2>1, <2>7 DEF FallAsleep, teamVars, runVars
  <2> QED
    BY <1>4, <2>2, <2>3, <2>4, <2>5, <2>6, <2>7 DEF SlaveStep
<1>5. ASSUME NEW n \in Node, CreateNode(n) \/ CreateFails(n) PROVE T'
  <2>1. CASE CreateNode(n)
    <3>1. n + 1 \in Node
      BY <2>1, Constants DEF CreateNode, ChainInv, Node
    <3> QED BY <1>1, <2>1, <3>1 DEF CreateNode, teamVars, runVars
  <2>2. CASE CreateFails(n)
    BY <1>1, <2>2 DEF CreateFails, nodeVars, teamVars
  <2> QED BY <1>5, <2>1, <2>2
<1>6. ASSUME NEW n \in Node, Body(n) PROVE T'
  <2>1. CASE CallBarrier(n)
    <3>1. BarrierOk
      BY DEF BarrierInv
    <3>2. CASE phase' = [phase EXCEPT ![n] = @ + 1] /\ UNCHANGED <<Rest, np, stopped>>
      BY <1>1, <3>2 DEF Rest, teamVars
    <3>3. CASE Enter(n, "inBody")
      BY <1>1, <3>3 DEF Enter, Rest, teamVars
    <3>4. CASE Crash(n)
      BY <1>1, <3>4 DEF Crash, Rest, teamVars
    <3> QED BY <2>1, <3>1, <3>2, <3>3, <3>4, CallBarrierCases
  <2>2. CASE InBarrier(n)
    <3>1. UNCHANGED <<Rest, stopped>>
      BY <2>2, InBarrierCases
    <3>2. CASE UNCHANGED <<np, phase>>
      BY <1>1, <3>1, <3>2 DEF Rest, teamVars
    <3>3. CASE Goto(n, "body") /\ phase' = [phase EXCEPT ![n] = @ + 1]
      BY <1>1, <3>1, <3>3 DEF Rest, teamVars
    <3>4. CASE Goto(n, IF n = 0 THEN "joined" ELSE "sleep") /\ UNCHANGED phase
      BY <1>1, <3>1, <3>4 DEF Rest, teamVars
    <3> QED BY <2>2, <3>2, <3>3, <3>4, InBarrierCases
  <2>3. CASE EndBody(n)
    BY <1>1, <2>3 DEF EndBody, teamVars, runVars
  <2>4. CASE JoinBarrier(n)
    BY <1>1, <2>4, JoinBarrierCases DEF BarrierInv, Enter, Crash, Rest, teamVars
  <2> QED
    BY <1>6, <2>1, <2>2, <2>3, <2>4 DEF Body
<1>7. CASE UNCHANGED vars
  BY <1>1, <1>7 DEF vars, nodeVars, teamVars, runVars
<1> QED
  BY <1>3, <1>4, <1>5, <1>6, <1>7 DEF Next

-----------------------------------------------------------------------------
(* The creation of the nodes.                                              *)

\* A created node that moves on, but not to a place before its first test of
\* is_finished, leaves the order of creation alone.
LEMMA ChainMove ==
  ASSUME TypeOK, ChainInv, NEW n \in Node, NEW place,
         np[n] # "none", np' = [np EXCEPT ![n] = place],
         n = 0 => place \in MasterPlace \ {"create"},
         n # 0 => place \in SlavePlace \ {"none", "init", "create", "failed"}
  PROVE  ChainInv'
BY Constants DEF TypeOK, ChainInv, MasterPlace, SlavePlace

\* Every step keeps the order of creation.
LEMMA StepChain ==
  ASSUME TypeOK, ChainInv, BarrierInv, [Next]_vars
  PROVE  ChainInv'
<1> USE DEF At, Goto
<1>0. np \in [Node -> Places] /\ 0 \in Node
  BY Constants DEF TypeOK, Places
<1>1. CASE UNCHANGED np
  BY <1>1 DEF ChainInv
<1>2. ASSUME Master PROVE ChainInv'
  <2>1. PICK place \in MasterPlace \ {"create"} : np' = [np EXCEPT ![0] = place] \/ UNCHANGED np
    BY <1>2 DEF Master, SetupDone, Fork, WakeMode, WakeWork, MasterBegin, Run, Joined, Finish,
       WakeToExit, JoinNode, RcGarbage, MasterExit, nodeVars, MasterPlace
  <2>2. np[0] # "none"
    BY DEF ChainInv, MasterPlace
  <2> QED BY <1>0, <1>1, <2>1, <2>2, ChainMove
<1>3. ASSUME NEW n \in Slave, SlaveStep(n) PROVE ChainInv'
  <2>0. n \in Node /\ n # 0
    BY Constants
  <2>1. CASE InitFails(n)
    BY <1>0, <2>0, <2>1 DEF InitFails, ChainInv, SlavePlace
  <2>2. CASE BecomeReady(n)
    BY <1>0, <2>0, <2>2 DEF BecomeReady, ChainInv, SlavePlace
  <2>3. CASE TestFinished(n) \/ PollWork(n) \/ CheckWork(n) \/ FallAsleep(n)
    <3>1. PICK place \in {"exited", "poll", "check", "body", "test"} :
            np[n] # "none" /\ np' = [np EXCEPT ![n] = place]
      BY <2>3 DEF TestFinished, PollWork, CheckWork, Run, FallAsleep
    <3> QED BY <2>0, <3>1, ChainMove DEF SlavePlace
  <2> QED BY <1>3, <2>1, <2>2, <2>3 DEF SlaveStep
<1>4. ASSUME NEW n \in Node, CreateNode(n) PROVE ChainInv'
  <2>1. n + 1 \in Slave /\ n + 1 # 0 /\ n < MaxNodes - 1
    BY <1>4, Constants DEF CreateNode, ChainInv, Node, Slave
  <2>2. /\ np[n] = "create"
        /\ np' = [np EXCEPT ![n] = IF n = 0 THEN "setup" ELSE "test", ![n+1] = "init"]
    BY <1>4 DEF CreateNode
  <2>3. n + 1 \in Node /\ n # n + 1 /\ \A m \in Node : m > n => np[m] = "none"
    BY <2>1, <2>2, Constants DEF ChainInv
  <2>4. /\ np'[n] = IF n = 0 THEN "setup" ELSE "test"
        /\ np'[n+1] = "init"
        /\ \A m \in Node \ {n, n+1} : np'[m] = np[m]
    BY <1>0, <2>2, <2>3
  <2>5. \A k \in Node : np'[k] \in {"none", "init", "create", "failed"} =>
          \A m \in Node : m > k => np'[m] = "none"
    <3> SUFFICES ASSUME NEW k \in Node, np'[k] \in {"none", "init", "create", "failed"},
                        NEW m \in Node, m > k
                 PROVE  np'[m] = "none"
      OBVIOUS
    <3>1. k > n
      <4>1. k # n
        BY <2>4
      <4>2. CASE k < n
        <5>1. np[k] \in {"none", "init", "create", "failed"}
          BY <2>3, <2>4, <4>2, Constants
        <5>2. np[n] = "none"
          BY <4>2, <5>1, Constants DEF ChainInv
        <5> QED BY <2>2, <5>2
      <4> QED BY <4>1, <4>2, Constants
    <3>2. m > n + 1
      BY <3>1, Constants
    <3> QED BY <2>3, <2>4, <3>2, Constants
  <2>6. \A k \in Node : np'[k] = "create" => np[k] = "create"
    BY <2>4
  <2> QED BY <2>1, <2>4, <2>5, <2>6, Constants DEF ChainInv, MasterPlace, SlavePlace
<1>5. ASSUME NEW n \in Node, CreateFails(n) PROVE ChainInv'
  BY <1>1, <1>5 DEF CreateFails, nodeVars
<1>6. ASSUME NEW n \in Node, Body(n) PROVE ChainInv'
  <2>1. CASE UNCHANGED np
    BY <1>1, <2>1
  <2>2. CASE ~UNCHANGED np
    <3>1. np[n] \in {"body", "inBody", "join", "inJoin"}
      BY <1>6 DEF Body, CallBarrier, InBarrier, EndBody, JoinBarrier
    <3>2. PICK place \in {"body", "inBody", "join", "inJoin", IF n = 0 THEN "joined" ELSE "sleep"} :
            np' = [np EXCEPT ![n] = place]
      BY <1>6, <2>2 DEF Body, CallBarrier, InBarrier, EndBody, JoinBarrier, LevelOneBarrier
    <3> QED BY <3>1, <3>2, ChainMove DEF MasterPlace, SlavePlace
  <2> QED BY <2>1, <2>2
<1>7. CASE UNCHANGED vars
  BY <1>1, <1>7 DEF vars, nodeVars
<1> QED
  BY <1>2, <1>3, <1>4, <1>5, <1>6, <1>7 DEF Next

-----------------------------------------------------------------------------
(* The end of the program.                                                 *)

\* A node that has left its routine does not come back.
LEMMA ExitedStay ==
  ASSUME TypeOK, ChainInv, [Next]_vars, NEW m \in Node, np[m] = "exited"
  PROVE  np'[m] = "exited"
<1> USE DEF At, Goto
<1>0. np \in [Node -> Places] /\ 0 \in Node
  BY Constants DEF TypeOK, Places
<1>1. CASE Master
  BY <1>0, <1>1 DEF Master, SetupDone, Fork, WakeMode, WakeWork, MasterBegin, Run, Joined, Finish,
     WakeToExit, JoinNode, RcGarbage, MasterExit, nodeVars
<1>2. ASSUME NEW n \in Slave, SlaveStep(n) PROVE np'[m] = "exited"
  BY <1>0, <1>2 DEF SlaveStep, InitFails, BecomeReady, TestFinished, PollWork, CheckWork, Run,
     FallAsleep
<1>3. ASSUME NEW n \in Node, CreateNode(n) PROVE np'[m] = "exited"
  <2>1. n + 1 \in Node /\ np[n+1] = "none"
    BY <1>3, Constants DEF CreateNode, ChainInv, Node
  <2> QED BY <1>0, <1>3, <2>1 DEF CreateNode
<1>4. ASSUME NEW n \in Node, CreateFails(n) PROVE np'[m] = "exited"
  BY <1>4 DEF CreateFails, nodeVars
<1>5. ASSUME NEW n \in Node, Body(n) PROVE np'[m] = "exited"
  BY <1>0, <1>5 DEF Body, CallBarrier, InBarrier, EndBody, JoinBarrier, LevelOneBarrier
<1>6. CASE UNCHANGED vars
  BY <1>6 DEF vars, nodeVars
<1> QED
  BY <1>1, <1>2, <1>3, <1>4, <1>5, <1>6 DEF Next

\* Every step keeps what free_node knows of the threads it has joined with.
LEMMA StepShutdown ==
  ASSUME TypeOK, ChainInv, ShutdownInv, [Next]_vars
  PROVE  ShutdownInv'
<1> USE DEF At, Goto
<1>0. /\ np \in [Node -> Places] /\ 0 \in Node /\ Slave \subseteq Node
      /\ idx \in 1..MaxNodes
  BY Constants DEF TypeOK, Places
<1>1. \A n \in Slave : np[n] = "exited" => np'[n] = "exited"
  BY <1>0, ExitedStay
<1>2. CASE np'[0] \notin {"shutdown", "await", "exited"}
  BY <1>2 DEF ShutdownInv
<1>3. CASE np'[0] = np[0] /\ idx' = idx
  BY <1>1, <1>3 DEF ShutdownInv
<1>4. CASE Master
  <2>1. CASE Finish
    <3>1. idx' = 1 /\ np'[0] = "shutdown"
      BY <1>0, <2>1 DEF Finish
    <3>2. \A n \in Slave : ~(n < 1)
      BY DEF Slave
    <3> QED BY <3>1, <3>2 DEF ShutdownInv
  <2>2. CASE WakeToExit
    <3>1. idx' = idx /\ np'[0] = "await" /\ np[0] = "shutdown" /\ idx < MaxNodes
      BY <1>0, <2>2 DEF WakeToExit, runVars
    <3> QED BY <1>1, <3>1 DEF ShutdownInv
  <2>3. CASE JoinNode
    <3>1. idx' = idx + 1 /\ np'[0] = "shutdown" /\ np[0] = "await" /\ np[idx] = "exited"
      BY <1>0, <2>3 DEF JoinNode
    <3>2. \A n \in Slave : n < idx + 1 => n < idx \/ n = idx
      BY <1>0 DEF Slave
    <3> QED BY <1>1, <3>1, <3>2 DEF ShutdownInv
  <2>4. CASE MasterExit
    <3>1. idx = MaxNodes /\ np'[0] = "exited" /\ np[0] = "shutdown"
      BY <1>0, <2>4 DEF MasterExit
    <3>2. \A n \in Slave : n < MaxNodes
      BY <1>0, Constants
    <3> QED BY <1>1, <3>1, <3>2 DEF ShutdownInv
  <2>5. CASE RcGarbage
    BY <1>3, <2>5 DEF RcGarbage, nodeVars
  <2>6. CASE SetupDone \/ Fork \/ WakeMode \/ WakeWork \/ MasterBegin \/ Joined
    BY <1>0, <1>2, <2>6 DEF SetupDone, Fork, WakeMode, WakeWork, MasterBegin, Run, Joined
  <2> QED BY <1>4, <2>1, <2>2, <2>3, <2>4, <2>5, <2>6 DEF Master
<1>5. ASSUME NEW n \in Slave, SlaveStep(n) PROVE ShutdownInv'
  <2>1. n # 0
    BY DEF Slave
  <2> QED BY <1>0, <1>3, <1>5, <2>1 DEF SlaveStep, InitFails, BecomeReady, TestFinished, PollWork,
       CheckWork, Run, FallAsleep, runVars
<1>6. ASSUME NEW n \in Node, CreateNode(n) PROVE ShutdownInv'
  <2>1. n # 0 => np'[0] = np[0] /\ idx' = idx
    <3>1. n + 1 # 0
      BY Constants
    <3> QED BY <1>0, <1>6, <3>1 DEF CreateNode, runVars
  <2>2. n = 0 => np'[0] = "setup"
    <3>1. n = 0 => n + 1 # 0
      OBVIOUS
    <3> QED BY <1>0, <1>6, <3>1 DEF CreateNode
  <2> QED BY <1>2, <1>3, <2>1, <2>2
<1>7. ASSUME NEW n \in Node, CreateFails(n) PROVE ShutdownInv'
  BY <1>3, <1>7 DEF CreateFails, nodeVars
<1>8. ASSUME NEW n \in Node, Body(n) PROVE ShutdownInv'
  <2>1. idx' = idx
    BY <1>8 DEF Body, CallBarrier, InBarrier, EndBody, JoinBarrier, runVars
  <2>2. n # 0 \/ np'[0] = np[0] \/ np'[0] \in {"body", "inBody", "join", "inJoin", "joined"}
    BY <1>0, <1>8 DEF Body, CallBarrier, InBarrier, EndBody, JoinBarrier, LevelOneBarrier
  <2>3. n # 0 => np'[0] = np[0]
    BY <1>0, <1>8 DEF Body, CallBarrier, InBarrier, EndBody, JoinBarrier, LevelOneBarrier
  <2> QED BY <1>2, <1>3, <2>1, <2>2, <2>3
<1>9. CASE UNCHANGED vars
  BY <1>3, <1>9 DEF vars, nodeVars, runVars
<1> QED
  BY <1>4, <1>5, <1>6, <1>7, <1>8, <1>9 DEF Next

-----------------------------------------------------------------------------
(* Who is inside the barrier.                                              *)

\* Every step keeps the correspondence of the nodes' places and the barrier.
LEMMA StepBarrier ==
  ASSUME TypeOK, ChainInv, BarrierInv, [Next]_vars
  PROVE  BarrierInv'
<1> USE DEF At, Goto
<1>0. /\ np \in [Node -> Places] /\ 0 \in Node /\ Slave \subseteq Node /\ Served \subseteq Node
      /\ BarrierOk
      /\ st \in [Served -> {"out", "wait", "go"}]
  BY Constants, BarrierType DEF TypeOK, Places, BarrierInv
<1> DEFINE In(p) == p \in {"inBody", "inJoin"}
<1>1. BarrierOk'
  BY StepBarrierOk
<1>2. ASSUME st' = st, \A m \in Node : In(np'[m]) <=> In(np[m]) PROVE BarrierInv'
  BY <1>0, <1>1, <1>2 DEF BarrierInv
<1>3. CASE st' = st /\ UNCHANGED np
  BY <1>2, <1>3
<1>4. CASE Master
  <2>1. st' = st
    BY <1>0, <1>4, OutsideIdle
  <2>2. \A m \in Node : In(np'[m]) <=> In(np[m])
    BY <1>0, <1>4 DEF Master, SetupDone, Fork, WakeMode, WakeWork, MasterBegin, Run, Joined, Finish,
       WakeToExit, JoinNode, RcGarbage, MasterExit, nodeVars
  <2> QED BY <1>2, <2>1, <2>2
<1>5. ASSUME NEW n \in Slave, SlaveStep(n) PROVE BarrierInv'
  <2>1. st' = st
    BY <1>0, <1>5, OutsideIdle
  <2>2. \A m \in Node : In(np'[m]) <=> In(np[m])
    BY <1>0, <1>5 DEF SlaveStep, InitFails, BecomeReady, TestFinished, PollWork, CheckWork, Run,
       FallAsleep
  <2> QED BY <1>2, <2>1, <2>2
<1>6. ASSUME NEW n \in Node, CreateNode(n) PROVE BarrierInv'
  <2>1. st' = st
    BY <1>0, <1>6, OutsideIdle
  <2>2. n + 1 \in Node /\ np[n+1] = "none" /\ np[n] = "create"
    BY <1>6, Constants DEF CreateNode, ChainInv, Node
  <2>3. \A m \in Node : In(np'[m]) <=> In(np[m])
    BY <1>0, <1>6, <2>2 DEF CreateNode
  <2> QED BY <1>2, <2>1, <2>3
<1>7. ASSUME NEW n \in Node, CreateFails(n) PROVE BarrierInv'
  BY <1>0, <1>3, <1>7, OutsideIdle DEF CreateFails, nodeVars
<1>8. ASSUME NEW n \in Node, EndBody(n) PROVE BarrierInv'
  <2>1. st' = st
    BY <1>0, <1>8, OutsideIdle
  <2>2. \A m \in Node : In(np'[m]) <=> In(np[m])
    BY <1>0, <1>8 DEF EndBody
  <2> QED BY <1>2, <2>1, <2>2
<1>9. ASSUME NEW n \in Node, NEW inside \in {"inBody", "inJoin"}, Enter(n, inside),
             np[n] \in {"body", "join"}
      PROVE  BarrierInv'
  BY <1>0, <1>1, <1>9 DEF Enter, BarrierInv
<1>10. ASSUME NEW n \in Node, CallBarrier(n) PROVE BarrierInv'
  BY <1>0, <1>3, <1>9, <1>10, CallBarrierCases DEF Crash
<1>11. ASSUME NEW n \in Node, JoinBarrier(n) PROVE BarrierInv'
  <2>1. CASE st' = st /\ Goto(n, IF n = 0 THEN "joined" ELSE "sleep") /\ np[n] = "join"
    BY <1>0, <1>2, <2>1
  <2> QED BY <1>0, <1>3, <1>9, <1>11, <2>1, JoinBarrierCases DEF Crash
<1>12. ASSUME NEW n \in Node, InBarrier(n) PROVE BarrierInv'
  <2>1. n \in Served /\ np[n] \in {"inBody", "inJoin"}
    BY <1>12, InBarrierCases
  <2>2. CASE UNCHANGED np /\ \A u \in Served : st[u] = "wait" /\ st'[u] = "go"
    BY <1>0, <1>1, <2>2 DEF BarrierInv
  <2>3. ASSUME NEW p \in {"body", "joined", "sleep"}, Goto(n, p), st' = [st EXCEPT ![n] = "out"]
        PROVE  BarrierInv'
    BY <1>0, <1>1, <2>1, <2>3 DEF BarrierInv
  <2> QED BY <1>3, <1>12, <2>2, <2>3, InBarrierCases
<1>13. CASE UNCHANGED vars
  BY <1>0, <1>3, <1>13, OutsideIdle DEF vars, nodeVars
<1> QED
  BY <1>4, <1>5, <1>6, <1>7, <1>8, <1>10, <1>11, <1>12, <1>13 DEF Next, Body

-----------------------------------------------------------------------------
(* The master and its region.                                              *)

\* Every step keeps the master's view of its region.
LEMMA StepMaster ==
  ASSUME TypeOK, ChainInv, BarrierInv, MasterInv, [Next]_vars
  PROVE  MasterInv'
<1> USE DEF At, Goto, Waking, InTeam
<1>0. /\ np \in [Node -> Places] /\ 0 \in Node /\ Slave \subseteq Node /\ 0 \notin Slave
      /\ BarrierOk
      /\ region \in Nat /\ entryFunc \in 0..region /\ last \in [Node -> 0..region]
      /\ mode \in [Node -> {"SLEEP", "SEQUENTIAL", "NORMAL"}]
      /\ idx \in 1..MaxNodes /\ teamSize \in 1..MaxNodes /\ MaxNodes \in Nat
  BY Constants, ProgramFact DEF TypeOK, Places, BarrierInv
<1>1. CASE /\ np'[0] = np[0] /\ mode'[0] = mode[0] /\ last'[0] = last[0]
           /\ UNCHANGED <<entryFunc, region, idx, teamSize>>
  BY <1>1 DEF MasterInv
<1>2. CASE Master
  <2>1. CASE SetupDone
    BY <1>0, <2>1 DEF SetupDone, teamVars, runVars, MasterInv
  <2>2. CASE Fork
    BY <1>0, <2>2 DEF Fork, MasterInv
  <2>3. CASE WakeMode
    BY <1>0, <2>3 DEF WakeMode, teamVars, runVars, MasterInv
  <2>4. CASE WakeWork
    BY <1>0, <2>4 DEF WakeWork, teamVars, MasterInv
  <2>5. CASE MasterBegin
    BY <1>0, <2>5 DEF MasterBegin, Run, teamVars, MasterInv
  <2>6. CASE Joined
    BY <1>0, <2>6 DEF Joined, runVars, MasterInv
  <2>7. CASE Finish
    BY <1>0, <2>7 DEF Finish, MasterInv
  <2>8. CASE WakeToExit
    BY <1>0, <2>8 DEF WakeToExit, teamVars, runVars, MasterInv
  <2>9. CASE JoinNode
    BY <1>0, <2>9 DEF JoinNode, teamVars, MasterInv
  <2>10. CASE RcGarbage
    BY <1>1, <2>10 DEF RcGarbage, nodeVars, teamVars
  <2>11. CASE MasterExit
    BY <1>0, <2>11 DEF MasterExit, teamVars, runVars, MasterInv
  <2> QED
    BY <1>2, <2>1, <2>2, <2>3, <2>4, <2>5, <2>6, <2>7, <2>8, <2>9, <2>10, <2>11 DEF Master
<1>3. ASSUME NEW n \in Slave, SlaveStep(n) PROVE MasterInv'
  BY <1>0, <1>1, <1>3 DEF SlaveStep, InitFails, BecomeReady, TestFinished, PollWork, CheckWork,
     Run, FallAsleep, teamVars, runVars
<1>4. ASSUME NEW n \in Node, CreateNode(n) PROVE MasterInv'
  <2>1. n + 1 # 0
    BY Constants
  <2>2. CASE n # 0
    BY <1>0, <1>1, <1>4, <2>1, <2>2 DEF CreateNode, teamVars, runVars
  <2>3. CASE n = 0
    BY <1>0, <1>4, <2>1, <2>3 DEF CreateNode, teamVars, runVars, MasterInv
  <2> QED BY <2>2, <2>3
<1>5. ASSUME NEW n \in Node, CreateFails(n) PROVE MasterInv'
  BY <1>1, <1>5 DEF CreateFails, nodeVars, teamVars
<1>6. ASSUME NEW n \in Node, Body(n) PROVE MasterInv'
  <2>1. UNCHANGED <<mode, last, entryFunc, region, idx, teamSize>>
    BY <1>6 DEF Body, CallBarrier, InBarrier, EndBody, JoinBarrier, teamVars, runVars
  <2>2. CASE np'[0] = np[0]
    BY <1>1, <2>1, <2>2
  <2>3. CASE np'[0] # np[0]
    <3>1. /\ np[0] \in {"body", "inBody", "join", "inJoin"}
          /\ np'[0] \in {"body", "inBody", "join", "inJoin", "joined"}
      BY <1>0, <1>6, <2>3 DEF Body, CallBarrier, InBarrier, EndBody, JoinBarrier, LevelOneBarrier
    <3> QED BY <2>1, <3>1 DEF MasterInv
  <2> QED BY <2>2, <2>3
<1>7. CASE UNCHANGED vars
  BY <1>1, <1>7 DEF vars, nodeVars, teamVars, runVars
<1> QED
  BY <1>2, <1>3, <1>4, <1>5, <1>6, <1>7 DEF Next

-----------------------------------------------------------------------------
(* The barriers a node has passed.                                         *)

\* Every step keeps the counts of barriers within what the bodies call.
LEMMA StepPhase ==
  ASSUME TypeOK, ChainInv, BarrierInv, MasterInv, PhaseInv, [Next]_vars
  PROVE  PhaseInv'
<1> USE DEF At, Goto, InRegion
<1>0. /\ np \in [Node -> Places] /\ 0 \in Node /\ Slave \subseteq Node
      /\ BarrierOk /\ phase \in [Node -> Nat]
      /\ Len(prog) \in Nat /\ DOMAIN prog = 1..Len(prog)
      /\ \A r \in 1..Len(prog) : prog[r].barriers \in Nat
      /\ region \in 0..Len(prog) /\ entryFunc \in 0..region /\ last \in [Node -> 0..region]
  BY Constants, ProgramFact DEF TypeOK, Places, BarrierInv
<1>1. CASE /\ UNCHANGED <<last, phase, prog>>
           /\ \A m \in Node :
                \/ np'[m] = np[m]
                \/ np[m] \notin {"body", "inBody"} /\ np'[m] \notin InRegion
  BY <1>1 DEF PhaseInv
<1>2. ASSUME NEW n \in Node, Run(n), entryFunc # 0, UNCHANGED prog PROVE PhaseInv'
  BY <1>0, <1>2 DEF Run, PhaseInv
<1>3. CASE Master
  <2>1. CASE MasterBegin
    BY <1>0, <1>2, <2>1 DEF MasterBegin, MasterInv, Waking
  <2>2. CASE SetupDone \/ WakeMode
    BY <1>0, <1>1, <2>2 DEF SetupDone, WakeMode, runVars
  <2>5. CASE Fork
    BY <1>0, <1>1, <2>5 DEF Fork
  <2>6. CASE WakeWork
    BY <1>0, <1>1, <2>6 DEF WakeWork
  <2>3. CASE Joined \/ Finish \/ WakeToExit
    BY <1>0, <1>1, <2>3 DEF Joined, Finish, WakeToExit, runVars
  <2>4. CASE JoinNode \/ RcGarbage \/ MasterExit
    BY <1>0, <1>1, <2>4 DEF JoinNode, RcGarbage, MasterExit, nodeVars, runVars
  <2> QED BY <1>3, <2>1, <2>2, <2>3, <2>4, <2>5, <2>6 DEF Master
<1>4. ASSUME NEW n \in Slave, SlaveStep(n) PROVE PhaseInv'
  <2>1. CASE CheckWork(n)
    <3>1. n \in Node /\ np[n] = "check" /\ UNCHANGED prog
      BY <1>0, <2>1 DEF CheckWork
    <3>2. CASE entryFunc = 0 /\ Goto(n, "test") /\ UNCHANGED <<last, phase>>
      BY <1>0, <1>1, <3>1, <3>2
    <3>3. (entryFunc # 0 /\ Run(n)) \/ (entryFunc = 0 /\ Goto(n, "test") /\ UNCHANGED <<last, phase>>)
      BY <2>1 DEF CheckWork
    <3>4. CASE entryFunc # 0 /\ Run(n)
      BY <1>2, <3>1, <3>4
    <3> QED BY <3>2, <3>3, <3>4
  <2>2. CASE InitFails(n)
    BY <1>0, <1>1, <2>2 DEF InitFails, runVars
  <2>3. CASE BecomeReady(n)
    BY <1>0, <1>1, <2>3 DEF BecomeReady, runVars
  <2>4. CASE TestFinished(n)
    BY <1>0, <1>1, <2>4 DEF TestFinished, runVars
  <2>5. CASE PollWork(n)
    BY <1>0, <1>1, <2>5 DEF PollWork, runVars
  <2>6. CASE FallAsleep(n)
    BY <1>0, <1>1, <2>6 DEF FallAsleep, runVars
  <2> QED BY <1>4, <2>1, <2>2, <2>3, <2>4, <2>5, <2>6 DEF SlaveStep
<1>5. ASSUME NEW n \in Node, CreateNode(n) PROVE PhaseInv'
  <2>1. n + 1 \in Node /\ np[n] = "create" /\ np[n+1] = "none"
    BY <1>5, Constants DEF CreateNode, ChainInv, Node
  <2> QED BY <1>0, <1>1, <1>5, <2>1 DEF CreateNode, runVars
<1>6. ASSUME NEW n \in Node, CreateFails(n) PROVE PhaseInv'
  BY <1>1, <1>6 DEF CreateFails, nodeVars
<1>7. ASSUME NEW n \in Node, EndBody(n) PROVE PhaseInv'
  BY <1>0, <1>7 DEF EndBody, runVars, PhaseInv
<1>8. ASSUME NEW n \in Node, CallBarrier(n) PROVE PhaseInv'
  <2>1. /\ np[n] = "body" /\ phase[n] < prog[last[n]].barriers
        /\ last[n] \in 1..Len(prog)
    BY <1>0, <1>8, CallBarrierCases DEF PhaseInv
  <2>2. CASE phase' = [phase EXCEPT ![n] = @ + 1] /\ UNCHANGED <<Rest, np, stopped>>
    BY <1>0, <2>1, <2>2 DEF Rest, PhaseInv
  <2>3. CASE Enter(n, "inBody")
    BY <1>0, <2>1, <2>3 DEF Enter, Rest, PhaseInv
  <2>4. CASE Crash(n)
    BY <1>1, <2>4 DEF Crash, Rest
  <2> QED BY <1>0, <1>8, <2>2, <2>3, <2>4, CallBarrierCases
<1>9. ASSUME NEW n \in Node, JoinBarrier(n) PROVE PhaseInv'
  <2>1. np[n] = "join"
    BY <1>0, <1>9, JoinBarrierCases
  <2>2. ASSUME NEW p \in {"inJoin", "joined", "sleep"}, Goto(n, p), UNCHANGED <<Rest, phase>>
        PROVE  PhaseInv'
    BY <1>0, <2>1, <2>2 DEF Rest, PhaseInv
  <2>3. CASE Crash(n)
    BY <1>1, <2>3 DEF Crash, Rest
  <2> QED BY <1>0, <1>9, <2>2, <2>3, JoinBarrierCases DEF Enter
<1>10. ASSUME NEW n \in Node, InBarrier(n) PROVE PhaseInv'
  <2>1. UNCHANGED Rest
    BY <1>10, InBarrierCases
  <2>2. CASE UNCHANGED <<np, phase>>
    BY <1>1, <2>1, <2>2 DEF Rest
  <2>3. CASE np[n] = "inBody" /\ Goto(n, "body") /\ phase' = [phase EXCEPT ![n] = @ + 1]
    <3>1. last[n] \in 1..Len(prog) /\ phase[n] < prog[last[n]].barriers
      BY <1>0, <2>3 DEF PhaseInv
    <3> QED BY <1>0, <2>1, <2>3, <3>1 DEF Rest, PhaseInv
  <2>4. CASE np[n] = "inJoin" /\ Goto(n, IF n = 0 THEN "joined" ELSE "sleep") /\ UNCHANGED phase
    BY <1>0, <2>1, <2>4 DEF Rest, PhaseInv
  <2> QED BY <1>10, <2>2, <2>3, <2>4, InBarrierCases
<1>11. CASE UNCHANGED vars
  BY <1>1, <1>11 DEF vars, nodeVars, runVars
<1> QED
  BY <1>3, <1>4, <1>5, <1>6, <1>7, <1>8, <1>9, <1>10, <1>11 DEF Next, Body

-----------------------------------------------------------------------------
(* Who runs the region.                                                    *)

\* When the master is out of its join every member of its team (of a team of more
\* than one: every node the barrier was built for, for the barrier opens for all
\* of them only) has run the region to its end and was released.
LEMMA AllThrough ==
  ASSUME Inv, np[0] = "joined", NEW n \in Served, Member(n) \/ teamSize > 1
  PROVE  /\ last[n] = entryFunc
         /\ np[n] \notin {"body", "inBody", "join"} /\ st[n] # "wait"
<1>0. /\ np \in [Node -> Places] /\ 0 \in Node /\ n \in Node /\ 0 \in Served
      /\ phase \in [Node -> Nat] /\ n \in Nat
      /\ \A r \in DOMAIN prog : prog[r].barriers \in Nat
      /\ teamSize \in Nat /\ entryFunc \in 0..Len(prog) /\ DOMAIN prog = 1..Len(prog)
      /\ st \in [Served -> {"out", "wait", "go"}]
  BY Constants, ProgramFact, BarrierType DEF Inv, TypeOK, Places, BarrierInv
<1>1. /\ entryFunc # 0 /\ last[0] = entryFunc
      /\ entryFunc \in DOMAIN prog /\ phase[0] = prog[entryFunc].barriers
  BY <1>0 DEF Inv, MasterInv, InTeam, PhaseInv, InRegion
<1>2. CASE n = 0
  <2>1. st[0] = "out"
    BY <1>0 DEF Inv, BarrierInv
  <2> QED BY <1>1, <1>2, <2>1
<1>3. CASE n # 0
  <2>1. teamSize > 1
    BY <1>0, <1>3 DEF Member
  <2>2. Reached(0) = prog[entryFunc].barriers + 1
    BY <1>0, <1>1 DEF Reached, Through
  <2>3. Reached(n) >= prog[entryFunc].barriers + 1
    BY <1>1, <2>1, <2>2 DEF Inv, ReachInv
  <2>4. last[n] = entryFunc
    BY <1>0, <1>1, <2>3 DEF Reached
  <2>5. /\ np[n] = "body" => phase[n] <= prog[entryFunc].barriers
        /\ np[n] = "inBody" => phase[n] < prog[entryFunc].barriers
        /\ np[n] \in {"join", "inJoin"} => phase[n] = prog[entryFunc].barriers
    BY <1>0, <2>4 DEF Inv, PhaseInv
  <2>6. st[n] = "wait" => np[n] \in {"inBody", "inJoin"}
    BY <1>0 DEF Inv, BarrierInv
  <2>7. Reached(n) = phase[n] + (IF Through(n) THEN 1 ELSE 0) /\ phase[n] \in Nat
    BY <1>0, <2>4 DEF Reached
  <2>8. np[n] \notin {"body", "join"}
    BY <1>0, <1>1, <2>3, <2>5, <2>7 DEF Through
  <2>9. np[n] # "inBody"
    BY <1>0, <1>1, <2>3, <2>5, <2>7
  <2>10. ~(np[n] = "inJoin" /\ st[n] = "wait")
    BY <1>0, <1>1, <2>3, <2>5, <2>7 DEF Through
  <2> QED BY <2>4, <2>6, <2>8, <2>9, <2>10
<1> QED
  BY <1>2, <1>3

\* Every step keeps new_work in step with the region: it is cleared before the join and
\* set only between a fork and the body.
LEMMA StepWork ==
  ASSUME Inv, [Next]_vars
  PROVE  WorkInv'
<1> USE DEF At, Goto, Member, Busy, Waking, Closing
<1>0. /\ np \in [Node -> Places] /\ 0 \in Node /\ Slave \subseteq Node /\ 0 \notin Slave
      /\ Served \subseteq Node /\ Node \subseteq Nat /\ 0 \in Served /\ BarrierOk
      /\ newWork \in [Node -> BOOLEAN]
      /\ region \in Nat /\ entryFunc \in 0..region /\ last \in [Node -> 0..region]
      /\ idx \in Nat /\ teamSize \in Nat
  BY Constants, ProgramFact DEF Inv, TypeOK, Places, BarrierInv
<1>1. CASE /\ UNCHANGED <<newWork, entryFunc, teamSize, idx, last>>
           /\ Waking' => Waking
           /\ Closing => Closing'
           /\ \A m \in Served \ {0} : np'[m] = "check" => newWork[m]
           /\ \A m \in Served \ {0} : Busy(m) => Busy(m)'
  BY <1>1 DEF Inv, WorkInv
<1>2. CASE Master
  <2>1. CASE SetupDone
    BY <1>0, <1>1, <2>1 DEF SetupDone, teamVars, runVars, Inv, WorkInv
  <2>2. CASE Fork
    <3>1. entryFunc = 0 /\ \A m \in Served \ {0} : ~newWork[m]
      BY <2>2 DEF Fork, Inv, MasterInv, InTeam, WorkInv
    <3>2. entryFunc' = region + 1 /\ \A m \in Node : last'[m] < entryFunc'
      BY <1>0, <2>2 DEF Fork
    <3>3. newWork' = newWork /\ \A m \in Served \ {0} : np'[m] = np[m]
      BY <1>0, <2>2 DEF Fork
    <3> QED BY <1>0, <3>1, <3>2, <3>3 DEF Inv, WorkInv
  <2>3. CASE WakeMode
    BY <1>0, <2>3 DEF WakeMode, teamVars, runVars, Inv, WorkInv
  <2>4. CASE WakeWork
    <3>1. entryFunc # 0 /\ idx < teamSize
      BY <2>4 DEF WakeWork, Inv, MasterInv
    <3>2. /\ \A m \in Served \ {0} : np'[m] = np[m]
          /\ np'[0] = "wakeMode" /\ np[0] = "wakeWork" /\ idx' = idx + 1
          /\ UNCHANGED <<entryFunc, teamSize, last>>
          /\ \A m \in Node : newWork'[m] = (newWork[m] \/ m = idx)
      BY <1>0, <2>4 DEF WakeWork, teamVars
    <3>3. \A m \in Served \ {0} : m >= idx + 1 => m >= idx /\ m # idx
      BY <1>0
    <3> QED BY <1>0, <3>1, <3>2, <3>3 DEF Inv, WorkInv
  <2>5. CASE MasterBegin
    BY <1>0, <2>5 DEF MasterBegin, Run, teamVars, Inv, WorkInv
  <2>6. CASE Joined
    <3>1. \A m \in Served \ {0} : ~newWork[m]
      <4> SUFFICES ASSUME NEW m \in Served \ {0}, newWork[m] PROVE FALSE
        OBVIOUS
      <4>1. Member(m) /\ (last[m] < entryFunc \/ Busy(m))
        BY <2>6 DEF Joined, Inv, WorkInv
      <4>2. last[m] = entryFunc /\ ~Busy(m)
        BY <2>6, <4>1, AllThrough DEF Joined
      <4> QED BY <1>0, <4>1, <4>2
    <3>2. /\ newWork' = newWork /\ np'[0] = "serial"
          /\ \A m \in Served \ {0} : np'[m] = np[m]
      BY <1>0, <2>6 DEF Joined
    <3> QED BY <3>1, <3>2 DEF Inv, WorkInv
  <2>7. CASE Finish
    BY <1>0, <2>7 DEF Finish, Inv, WorkInv
  <2>8. CASE WakeToExit
    BY <1>0, <2>8 DEF WakeToExit, teamVars, runVars, Inv, WorkInv
  <2>9. CASE JoinNode
    BY <1>0, <2>9 DEF JoinNode, teamVars, Inv, WorkInv
  <2>10. CASE RcGarbage
    BY <1>0, <1>1, <2>10 DEF RcGarbage, nodeVars, teamVars, Inv, WorkInv
  <2>11. CASE MasterExit
    BY <1>0, <1>1, <2>11 DEF MasterExit, teamVars, runVars, Inv, WorkInv
  <2> QED
    BY <1>2, <2>1, <2>2, <2>3, <2>4, <2>5, <2>6, <2>7, <2>8, <2>9, <2>10, <2>11 DEF Master
<1>3. ASSUME NEW n \in Slave, SlaveStep(n) PROVE WorkInv'
  <2>0. n \in Node /\ n # 0
    BY <1>0
  <2>1. CASE InitFails(n) \/ BecomeReady(n) \/ TestFinished(n) \/ FallAsleep(n)
    BY <1>0, <1>1, <2>0, <2>1 DEF InitFails, BecomeReady, TestFinished, FallAsleep, teamVars,
       runVars, Inv, WorkInv
  <2>2. CASE PollWork(n)
    BY <1>0, <1>1, <2>0, <2>2 DEF PollWork, teamVars, runVars, Inv, WorkInv
  <2>3. CASE CheckWork(n) /\ entryFunc # 0 /\ Run(n)
    BY <1>0, <2>0, <2>3 DEF CheckWork, Run, teamVars, Inv, WorkInv
  <2>4. CASE CheckWork(n) /\ Goto(n, "test") /\ UNCHANGED <<last, phase>>
    BY <1>0, <1>1, <2>0, <2>4 DEF CheckWork, teamVars, Inv, WorkInv
  <2> QED BY <1>3, <2>1, <2>2, <2>3, <2>4 DEF SlaveStep, CheckWork
<1>4. ASSUME NEW n \in Node, CreateNode(n) PROVE WorkInv'
  <2>1. n + 1 \in Node /\ n + 1 # 0 /\ np[n+1] = "none"
    BY <1>4, Constants DEF CreateNode, Inv, ChainInv, Node
  <2> QED BY <1>0, <1>1, <1>4, <2>1 DEF CreateNode, teamVars, runVars, Inv, WorkInv
<1>5. ASSUME NEW n \in Node, CreateFails(n) PROVE WorkInv'
  BY <1>0, <1>1, <1>5 DEF CreateFails, nodeVars, teamVars, Inv, WorkInv
<1>6. ASSUME NEW n \in Node, EndBody(n) PROVE WorkInv'
  BY <1>0, <1>6 DEF EndBody, teamVars, runVars, Inv, WorkInv
<1>7. ASSUME NEW n \in Node, CallBarrier(n) PROVE WorkInv'
  <2>1. /\ UNCHANGED Rest /\ np[n] = "body"
        /\ UNCHANGED np \/ Goto(n, "inBody")
    BY <1>0, <1>7, CallBarrierCases DEF Enter, Crash
  <2> QED BY <1>0, <1>1, <2>1 DEF Rest, teamVars, Inv, WorkInv
<1>8. ASSUME NEW n \in Node, JoinBarrier(n) PROVE WorkInv'
  <2>1. /\ UNCHANGED Rest /\ np[n] = "join"
        /\ UNCHANGED np \/ \E p \in {"inJoin", "joined", "sleep"} : Goto(n, p)
    BY <1>0, <1>8, JoinBarrierCases DEF Enter, Crash
  <2> QED BY <1>0, <1>1, <2>1 DEF Rest, teamVars, Inv, WorkInv
<1>9. ASSUME NEW n \in Node, InBarrier(n) PROVE WorkInv'
  <2>1. /\ UNCHANGED Rest /\ np[n] \in {"inBody", "inJoin"}
        /\ \/ UNCHANGED np
           \/ np[n] = "inBody" /\ Goto(n, "body")
           \/ np[n] = "inJoin" /\ \E p \in {"joined", "sleep"} : Goto(n, p)
    BY <1>9, InBarrierCases DEF Inv
  <2> QED BY <1>0, <1>1, <2>1 DEF Rest, teamVars, Inv, WorkInv
<1>10. CASE UNCHANGED vars
  BY <1>0, <1>1, <1>10 DEF vars, nodeVars, teamVars, runVars, Inv, WorkInv
<1> QED
  BY <1>2, <1>3, <1>4, <1>5, <1>6, <1>7, <1>8, <1>9, <1>10 DEF Next, Body

\* The members of a team, as its region asked for them.
LEMMA StepTeam ==
  ASSUME Inv, [Next]_vars
  PROVE  TeamInv'
<1> USE DEF At, Goto
<1>0. /\ 0 \in Node /\ Slave \subseteq Node /\ 0 \notin Slave /\ Served \subseteq Node
      /\ Node \subseteq Nat /\ entryFunc \in Nat
      /\ region \in Nat /\ last \in [Node -> 0..region] /\ teamSize \in Nat
  BY Constants, ProgramFact DEF Inv, TypeOK
<1>1. CASE /\ UNCHANGED <<entryFunc, teamSize, prog>>
           /\ \A m \in Served \ {0} : last'[m] = last[m]
  BY <1>1 DEF Inv, TeamInv, Solo
<1>2. CASE Fork
  BY <1>0, <1>2 DEF Fork, Inv, TeamInv, Solo
<1>3. CASE Joined
  BY <1>3 DEF Joined, runVars, Inv, TeamInv, Solo
<1>4. CASE SetupDone \/ WakeMode \/ WakeWork \/ MasterBegin \/ Finish \/ WakeToExit \/ JoinNode
           \/ RcGarbage \/ MasterExit
  BY <1>0, <1>1, <1>4 DEF SetupDone, WakeMode, WakeWork, MasterBegin, Run, Finish, WakeToExit,
     JoinNode, RcGarbage, MasterExit, teamVars, runVars
<1>5. ASSUME NEW n \in Slave, CheckWork(n), Run(n), entryFunc # 0 PROVE TeamInv'
  <2>1. ASSUME n \in Served PROVE ~Solo(prog, entryFunc)
    <3>1. Member(n)
      BY <1>0, <1>5, <2>1 DEF CheckWork, Inv, WorkInv, MasterInv, Waking, InTeam, Closing
    <3> QED BY <1>0, <1>5, <3>1 DEF Member, Inv, TeamInv, Solo
  <2>2. UNCHANGED <<entryFunc, teamSize, prog>> /\ last' = [last EXCEPT ![n] = entryFunc]
    BY <1>5 DEF CheckWork, Run, teamVars
  <2> QED BY <1>0, <2>1, <2>2 DEF Inv, TeamInv, Solo
<1>6. ASSUME NEW n \in Slave, SlaveStep(n) PROVE TeamInv'
  <2>1. CASE InitFails(n) \/ BecomeReady(n) \/ TestFinished(n) \/ PollWork(n) \/ FallAsleep(n)
    BY <1>1, <2>1 DEF InitFails, BecomeReady, TestFinished, PollWork, FallAsleep, teamVars, runVars
  <2>2. CASE CheckWork(n)
    BY <1>1, <1>5, <2>2 DEF CheckWork, teamVars
  <2> QED BY <1>6, <2>1, <2>2 DEF SlaveStep
<1>7. ASSUME NEW n \in Node, CreateNode(n) \/ CreateFails(n) \/ Body(n) PROVE TeamInv'
  BY <1>1, <1>7 DEF CreateNode, CreateFails, Body, CallBarrier, InBarrier, EndBody, JoinBarrier,
     teamVars, runVars
<1>8. CASE UNCHANGED vars
  BY <1>1, <1>8 DEF vars, teamVars, runVars
<1> QED
  BY <1>2, <1>3, <1>4, <1>6, <1>7, <1>8 DEF Next, Master

\* Every step leaves only members of the open region's team in its body and barriers.
LEMMA StepActive ==
  ASSUME Inv, [Next]_vars
  PROVE  ActiveInv'
<1> USE DEF At, Goto, Member
<1> DEFINE Active(p) == p \in {"body", "inBody", "join"}
<1>0. /\ np \in [Node -> Places] /\ 0 \in Node /\ Slave \subseteq Node /\ 0 \notin Slave
      /\ Served \subseteq Node /\ Node \subseteq Nat /\ 0 \in Served /\ BarrierOk
      /\ st \in [Served -> {"out", "wait", "go"}]
      /\ region \in Nat /\ entryFunc \in 0..region /\ last \in [Node -> 0..region]
      /\ teamSize \in 1..MaxNodes /\ MaxNodes \in Nat
  BY Constants, ProgramFact, BarrierType DEF Inv, TypeOK, Places, BarrierInv
<1>1. CASE /\ UNCHANGED <<entryFunc, teamSize, last>>
           /\ \A m \in Served : Active(np'[m]) => Active(np[m]) \/ st[m] = "wait"
           /\ \A m \in Served : st'[m] = "wait" => Active(np[m]) \/ st[m] = "wait"
  BY <1>1 DEF Inv, ActiveInv
<1>2. CASE st' = st /\ UNCHANGED <<entryFunc, teamSize, last, np>>
  BY <1>1, <1>2
<1>3. ASSUME NEW n \in Node, Run(n), entryFunc # 0, n \in Served => Member(n), st' = st,
             UNCHANGED teamVars
      PROVE  ActiveInv'
  BY <1>0, <1>3 DEF Run, teamVars, Inv, ActiveInv
<1>4. CASE Master
  <2>0. st' = st
    BY <1>0, <1>4, OutsideIdle
  <2>1. CASE Fork
    <3>1. \A m \in Served : ~Active(np[m]) /\ st[m] # "wait"
      BY <2>1 DEF Fork, Inv, MasterInv, ActiveInv, Waking, InTeam
    <3>2. \A m \in Served : ~Active(np'[m])
      BY <1>0, <2>1, <3>1 DEF Fork
    <3> QED BY <2>0, <3>1, <3>2 DEF ActiveInv
  <2>2. CASE Joined
    <3>1. \A m \in Served : ~Active(np[m]) /\ st[m] # "wait"
      <4> SUFFICES ASSUME NEW m \in Served, Active(np[m]) \/ st[m] = "wait" PROVE FALSE
        OBVIOUS
      <4>1. Member(m)
        BY DEF Inv, ActiveInv
      <4> QED BY <2>2, <4>1, AllThrough DEF Joined
    <3>2. \A m \in Served : ~Active(np'[m])
      BY <1>0, <2>2, <3>1 DEF Joined
    <3> QED BY <2>0, <3>1, <3>2 DEF ActiveInv
  <2>3. CASE MasterBegin
    <3>1. entryFunc # 0
      BY <2>3 DEF MasterBegin, Inv, MasterInv, Waking
    <3> QED BY <1>0, <1>3, <2>0, <2>3, <3>1 DEF MasterBegin
  <2>4. CASE RcGarbage
    BY <1>2, <2>0, <2>4 DEF RcGarbage, nodeVars, teamVars
  <2>5. CASE SetupDone \/ WakeMode \/ WakeWork \/ Finish \/ WakeToExit \/ JoinNode \/ MasterExit
    BY <1>0, <1>1, <2>0, <2>5 DEF SetupDone, WakeMode, WakeWork, Finish, WakeToExit, JoinNode,
       MasterExit, teamVars, runVars
  <2> QED
    BY <1>4, <2>1, <2>2, <2>3, <2>4, <2>5 DEF Master
<1>5. ASSUME NEW n \in Slave, SlaveStep(n) PROVE ActiveInv'
  <2>0. n \in Node /\ n # 0 /\ st' = st
    BY <1>0, <1>5, OutsideIdle
  <2>1. CASE InitFails(n) \/ BecomeReady(n) \/ TestFinished(n) \/ PollWork(n) \/ FallAsleep(n)
    BY <1>0, <1>1, <2>0, <2>1 DEF InitFails, BecomeReady, TestFinished, PollWork, FallAsleep,
       teamVars, runVars
  <2>2. CASE CheckWork(n) /\ entryFunc # 0 /\ Run(n)
    <3>1. ~Closing
      BY <2>2 DEF Inv, MasterInv, Waking, InTeam, Closing
    <3>2. n \in Served => Member(n)
      BY <2>0, <2>2, <3>1 DEF CheckWork, Inv, WorkInv
    <3> QED BY <1>3, <2>0, <2>2, <3>2 DEF CheckWork
  <2>3. CASE CheckWork(n) /\ Goto(n, "test") /\ UNCHANGED <<last, phase>>
    BY <1>0, <1>1, <2>0, <2>3 DEF CheckWork, teamVars
  <2> QED BY <1>5, <2>1, <2>2, <2>3 DEF SlaveStep, CheckWork
<1>6. ASSUME NEW n \in Node, CreateNode(n) PROVE ActiveInv'
  <2>1. n + 1 \in Node
    BY <1>6, Constants DEF CreateNode, Inv, ChainInv, Node
  <2>2. st' = st
    BY <1>0, <1>6, OutsideIdle
  <2> QED BY <1>0, <1>1, <1>6, <2>1, <2>2 DEF CreateNode, teamVars, runVars
<1>7. ASSUME NEW n \in Node, CreateFails(n) PROVE ActiveInv'
  BY <1>0, <1>2, <1>7, OutsideIdle DEF CreateFails, nodeVars, teamVars
<1>8. ASSUME NEW n \in Node, EndBody(n) PROVE ActiveInv'
  <2>1. st' = st
    BY <1>0, <1>8, OutsideIdle
  <2> QED BY <1>0, <1>1, <1>8, <2>1 DEF EndBody, teamVars, runVars
<1>9. ASSUME NEW n \in Node, CallBarrier(n) PROVE ActiveInv'
  <2>1. CASE Enter(n, "inBody") /\ np[n] = "body"
    BY <1>0, <1>1, <2>1 DEF Enter, Rest, teamVars
  <2>2. CASE st' = st /\ UNCHANGED <<Rest, np>>
    BY <1>2, <2>2 DEF Rest, teamVars
  <2> QED BY <1>0, <1>9, <2>1, <2>2, CallBarrierCases DEF Crash
<1>10. ASSUME NEW n \in Node, JoinBarrier(n) PROVE ActiveInv'
  <2>1. CASE Enter(n, "inJoin") /\ np[n] = "join"
    BY <1>0, <1>1, <2>1 DEF Enter, Rest, teamVars
  <2>2. ASSUME NEW p \in {"joined", "sleep"}, Goto(n, p), st' = st, UNCHANGED Rest
        PROVE  ActiveInv'
    BY <1>0, <1>1, <2>2 DEF Rest, teamVars
  <2>3. CASE st' = st /\ UNCHANGED <<Rest, np>>
    BY <1>2, <2>3 DEF Rest, teamVars
  <2> QED BY <1>0, <1>10, <2>1, <2>2, <2>3, JoinBarrierCases DEF Crash
<1>11. ASSUME NEW n \in Node, InBarrier(n) PROVE ActiveInv'
  <2>1. n \in Served /\ UNCHANGED Rest
    BY <1>11, InBarrierCases DEF Inv
  <2>2. CASE st' = st /\ UNCHANGED np
    BY <1>2, <2>1, <2>2 DEF Rest, teamVars
  <2>3. CASE UNCHANGED np /\ \A u \in Served : st[u] = "wait" /\ st'[u] = "go"
    BY <1>1, <2>1, <2>3 DEF Rest, teamVars
  <2>4. CASE /\ st' = [st EXCEPT ![n] = "out"]
             /\ \/ np[n] = "inBody" /\ Goto(n, "body")
                \/ np[n] = "inJoin" /\ Goto(n, IF n = 0 THEN "joined" ELSE "sleep")
    BY <1>0, <1>1, <2>1, <2>4 DEF Rest, teamVars
  <2> QED BY <1>11, <2>2, <2>3, <2>4, InBarrierCases DEF Inv
<1>12. CASE UNCHANGED vars
  BY <1>0, <1>2, <1>12, OutsideIdle DEF vars, nodeVars, teamVars, runVars
<1> QED
  BY <1>4, <1>5, <1>6, <1>7, <1>8, <1>9, <1>10, <1>11, <1>12 DEF Next, Body

-----------------------------------------------------------------------------
(* Nobody is behind the master.                                            *)

\* A step after which each node of the barrier has reached what it had reached,
\* or, if it is a slave, more.
LEMMA ReachGrows ==
  ASSUME ReachInv, UNCHANGED <<entryFunc, teamSize>>,
         teamSize > 1 => /\ last'[0] = last[0] /\ Reached(0)' = Reached(0)
                         /\ \A m \in Served : Reached(m) \in Nat /\ Reached(m)' \in Nat
                         /\ \A m \in Served : Reached(m)' >= Reached(m)
  PROVE  ReachInv'
BY Constants DEF ReachInv

\* Every step leaves no node behind the master.
LEMMA StepReach ==
  ASSUME Inv, TypeOK', [Next]_vars
  PROVE  ReachInv'
<1> USE DEF At, Goto
<1> DEFINE Odd(p) == p \in {"body", "join", "inBody", "inJoin"}
<1>0. /\ np \in [Node -> Places] /\ 0 \in Node /\ Slave \subseteq Node /\ 0 \notin Slave
      /\ Served \subseteq Node /\ Node \subseteq Nat /\ 0 \in Served /\ BarrierOk
      /\ st \in [Served -> {"out", "wait", "go"}]
      /\ region \in Nat /\ entryFunc \in 0..region /\ last \in [Node -> 0..region]
      /\ phase \in [Node -> Nat] /\ phase' \in [Node -> Nat]
      /\ teamSize \in Nat
  <2>1. TypeOK /\ BarrierOk /\ prog \in Programs
    BY DEF Inv, BarrierInv, TypeOK
  <2>2. st \in [Served -> {"out", "wait", "go"}] /\ phase' \in [Node -> Nat]
    BY <2>1, BarrierType DEF TypeOK
  <2>3. Len(prog) \in Nat
    BY <2>1, ProgramFact
  <2>4. region \in Nat /\ entryFunc \in 0..region /\ last \in [Node -> 0..region]
    BY <2>1, <2>3 DEF TypeOK
  <2>5. /\ np \in [Node -> Places] /\ phase \in [Node -> Nat] /\ teamSize \in 1..MaxNodes
    BY <2>1 DEF TypeOK, Places
  <2>6. /\ 0 \in Node /\ Slave \subseteq Node /\ 0 \notin Slave /\ Served \subseteq Node
        /\ Node \subseteq Nat /\ 0 \in Served /\ MaxNodes \in Nat
    BY Constants
  <2> QED BY <2>1, <2>2, <2>4, <2>5, <2>6
<1>1. \A m \in Served : Reached(m) \in Nat /\ Reached(m)' \in Nat
  BY <1>0 DEF Reached
<1>2. CASE UNCHANGED <<entryFunc, teamSize>> /\ last'[0] = last[0]
           /\ \A m \in Served : Reached(m)' = Reached(m)
  BY <1>0, <1>1, <1>2, ReachGrows DEF Inv
<1>3. CASE /\ UNCHANGED <<entryFunc, teamSize, last, phase>> /\ st' = st
           /\ \A m \in Served : np'[m] = np[m] \/ (~Odd(np'[m]) /\ ~Odd(np[m]))
  <2>1. \A m \in Served : Through(m)' = Through(m)
    BY <1>3 DEF Through
  <2> QED BY <1>2, <1>3, <2>1 DEF Reached
<1>4. CASE Master
  <2>0. st' = st
    BY <1>0, <1>4, OutsideIdle
  <2>1. CASE Fork
    <3>1. last'[0] < entryFunc'
      BY <1>0, <2>1 DEF Fork
    <3> QED BY <1>0, <3>1, <2>1 DEF ReachInv, Fork
  <2>2. CASE Joined
    BY <2>2 DEF Joined, ReachInv
  <2>3. CASE MasterBegin
    <3>1. Reached(0)' = 0
      BY <1>0, <2>3 DEF MasterBegin, Run, teamVars, Reached, Through
    <3> QED BY <1>1, <3>1 DEF ReachInv
  <2>4. CASE SetupDone \/ WakeMode \/ WakeWork \/ Finish \/ WakeToExit \/ JoinNode \/ MasterExit
    BY <1>0, <1>3, <2>0, <2>4 DEF SetupDone, WakeMode, WakeWork, Finish, WakeToExit, JoinNode,
       MasterExit, teamVars, runVars
  <2>5. CASE RcGarbage
    BY <1>3, <2>0, <2>5 DEF RcGarbage, nodeVars, teamVars
  <2> QED
    BY <1>4, <2>1, <2>2, <2>3, <2>4, <2>5 DEF Master
<1>5. ASSUME NEW n \in Slave, SlaveStep(n) PROVE ReachInv'
  <2>0. n \in Node /\ n # 0 /\ st' = st
    BY <1>0, <1>5, OutsideIdle
  <2>1. CASE InitFails(n) \/ BecomeReady(n) \/ TestFinished(n) \/ PollWork(n) \/ FallAsleep(n)
    BY <1>0, <1>3, <2>0, <2>1 DEF InitFails, BecomeReady, TestFinished, PollWork, FallAsleep,
       teamVars, runVars
  <2>2. CASE CheckWork(n) /\ entryFunc # 0 /\ Run(n)
    <3>1. \A m \in Node \ {n} : last'[m] = last[m] /\ phase'[m] = phase[m] /\ np'[m] = np[m]
      BY <1>0, <2>0, <2>2 DEF CheckWork, Run
    <3>2. \A m \in Served \ {n} : Reached(m)' = Reached(m)
      BY <1>0, <2>0, <2>2, <3>1 DEF CheckWork, teamVars, Reached, Through
    <3>3. n \in Served => Reached(n) = 0
      <4>1. n \in Served => newWork[n] /\ ~Closing
        BY <2>0, <2>2 DEF CheckWork, Inv, WorkInv, MasterInv, Waking, InTeam, Closing
      <4>2. n \in Served => last[n] < entryFunc
        BY <2>0, <2>2, <4>1 DEF CheckWork, Inv, WorkInv, Busy
      <4> QED BY <1>0, <2>0, <4>2 DEF Reached
    <3>4. UNCHANGED <<entryFunc, teamSize>> /\ last'[0] = last[0]
      BY <1>0, <2>0, <2>2, <3>1 DEF CheckWork, teamVars
    <3>5. \A m \in Served : Reached(m)' >= Reached(m)
      BY <1>1, <3>2, <3>3
    <3> QED BY <1>0, <1>1, <2>0, <3>2, <3>4, <3>5, ReachGrows DEF Inv
  <2>3. CASE CheckWork(n) /\ Goto(n, "test") /\ UNCHANGED <<last, phase>>
    BY <1>0, <1>3, <2>0, <2>3 DEF CheckWork, teamVars
  <2> QED BY <1>5, <2>1, <2>2, <2>3 DEF SlaveStep, CheckWork
<1>6. ASSUME NEW n \in Node, CreateNode(n) PROVE ReachInv'
  <2>1. n + 1 \in Node /\ np[n+1] = "none"
    BY <1>6, Constants DEF CreateNode, Inv, ChainInv, Node
  <2>2. st' = st
    BY <1>0, <1>6, OutsideIdle
  <2> QED BY <1>0, <1>3, <1>6, <2>1, <2>2 DEF CreateNode, teamVars, runVars
<1>7. ASSUME NEW n \in Node, CreateFails(n) PROVE ReachInv'
  BY <1>0, <1>3, <1>7, OutsideIdle DEF CreateFails, nodeVars, teamVars
<1>8. ASSUME NEW n \in Node, EndBody(n) PROVE ReachInv'
  <2>1. st' = st
    BY <1>0, <1>8, OutsideIdle
  <2>2. /\ \A m \in Node \ {n} : np'[m] = np[m]
        /\ np[n] = "body" /\ np'[n] = "join"
        /\ UNCHANGED <<entryFunc, teamSize, last, phase>>
    BY <1>0, <1>8 DEF EndBody, teamVars, runVars
  <2>3. \A m \in Served : Through(m)' = Through(m)
    BY <1>0, <2>1, <2>2 DEF Through
  <2> QED BY <1>2, <2>2, <2>3 DEF Reached
<1>9. ASSUME NEW n \in Node, NEW inside \in {"inBody", "inJoin"}, Enter(n, inside),
             np[n] \in {"body", "join"}
      PROVE  ReachInv'
  <2>1. /\ \A m \in Node \ {n} : np'[m] = np[m]
        /\ \A m \in Served \ {n} : st'[m] = st[m]
        /\ np'[n] = inside /\ st'[n] = "wait"
        /\ UNCHANGED <<entryFunc, teamSize, last, phase>>
    BY <1>0, <1>9 DEF Enter, Rest, teamVars
  <2>2. \A m \in Served : Through(m)' = Through(m)
    BY <1>0, <1>9, <2>1 DEF Through
  <2> QED BY <1>2, <2>1, <2>2 DEF Reached
<1>10. ASSUME NEW n \in Node, CallBarrier(n) PROVE ReachInv'
  <2>1. CASE /\ ~(mode[n] = "NORMAL" /\ teamSize > 1) /\ np[n] = "body"
             /\ phase' = [phase EXCEPT ![n] = @ + 1] /\ st' = st
             /\ UNCHANGED <<Rest, np, stopped>>
    <3>1. UNCHANGED <<entryFunc, teamSize, last>>
      BY <2>1 DEF Rest, teamVars
    <3>2. \A m \in Served : Through(m)' = Through(m)
      BY <2>1 DEF Through
    <3>3. \A m \in Node \ {n} : phase'[m] = phase[m]
      BY <1>0, <2>1
    <3>4. phase'[n] >= phase[n]
      BY <1>0, <2>1
    <3>5. \A m \in Served : Reached(m)' >= Reached(m)
      BY <1>0, <3>1, <3>2, <3>3, <3>4 DEF Reached
    <3>6. teamSize > 1 => n # 0
      BY <2>1 DEF Inv, MasterInv, InTeam
    <3>7. teamSize > 1 => Reached(0)' = Reached(0)
      BY <1>0, <3>1, <3>2, <3>3, <3>6 DEF Reached
    <3> QED BY <1>1, <3>1, <3>5, <3>7, ReachGrows DEF Inv
  <2>2. CASE UNCHANGED <<Rest, np, phase>> /\ st' = st
    BY <1>3, <2>2 DEF Rest, teamVars
  <2> QED BY <1>0, <1>9, <1>10, <2>1, <2>2, CallBarrierCases DEF Crash
<1>11. ASSUME NEW n \in Node, JoinBarrier(n) PROVE ReachInv'
  <2>1. CASE teamSize = 1 /\ UNCHANGED Rest
    BY <2>1 DEF Rest, teamVars, ReachInv
  <2>2. CASE Enter(n, "inJoin") /\ np[n] = "join"
    BY <1>9, <2>2
  <2>3. CASE Crash(n)
    BY <1>3, <2>3 DEF Crash, Rest, teamVars
  <2> QED BY <1>0, <1>11, <2>1, <2>2, <2>3, JoinBarrierCases
<1>12. ASSUME NEW n \in Node, InBarrier(n) PROVE ReachInv'
  <2>1. n \in Served /\ np[n] \in {"inBody", "inJoin"} /\ UNCHANGED <<entryFunc, teamSize, last>>
    BY <1>12, InBarrierCases DEF Inv, Rest, teamVars
  <2>2. CASE st' = st /\ UNCHANGED <<np, phase>>
    BY <1>3, <2>1, <2>2
  <2>3. CASE UNCHANGED <<np, phase>> /\ \A u \in Served : st[u] = "wait" /\ st'[u] = "go"
    <3>1. \A m \in Served : np[m] \in {"inBody", "inJoin"} /\ last[m] = entryFunc
      BY <2>3 DEF Inv, BarrierInv, ActiveInv
    <3>2. \A m \in Served : Reached(m) = phase[m] /\ Reached(m)' = phase[m] + 1
      BY <1>0, <2>1, <2>3, <3>1 DEF Reached, Through
    <3> QED BY <1>0, <2>1, <2>3, <3>1, <3>2 DEF Inv, ReachInv
  <2>4. ASSUME st[n] = "go", st' = [st EXCEPT ![n] = "out"],
               \A m \in Node \ {n} : np'[m] = np[m] /\ phase'[m] = phase[m],
               \/ np[n] = "inBody" /\ np'[n] = "body" /\ phase'[n] = phase[n] + 1
               \/ np[n] = "inJoin" /\ np'[n] \in {"joined", "sleep"} /\ phase'[n] = phase[n]
        PROVE  ReachInv'
    <3>1. \A m \in Served \ {n} : st'[m] = st[m]
      BY <1>0, <2>1, <2>4
    <3>2. \A m \in Served \ {n} : Reached(m)' = Reached(m)
      BY <1>0, <2>1, <2>4, <3>1 DEF Reached, Through
    <3>3. Reached(n)' = Reached(n)
      BY <1>0, <2>1, <2>4 DEF Reached, Through
    <3> QED BY <1>2, <2>1, <3>2, <3>3
  <2>5. CASE /\ st[n] = "go" /\ st' = [st EXCEPT ![n] = "out"]
             /\ np[n] = "inBody" /\ Goto(n, "body") /\ phase' = [phase EXCEPT ![n] = @ + 1]
    BY <1>0, <2>1, <2>4, <2>5
  <2>6. CASE /\ st[n] = "go" /\ st' = [st EXCEPT ![n] = "out"]
             /\ np[n] = "inJoin" /\ Goto(n, IF n = 0 THEN "joined" ELSE "sleep")
             /\ UNCHANGED phase
    BY <1>0, <2>1, <2>4, <2>6
  <2> QED BY <1>12, <2>2, <2>3, <2>5, <2>6, InBarrierCases DEF Inv
<1>13. CASE UNCHANGED vars
  BY <1>0, <1>3, <1>13, OutsideIdle DEF vars, nodeVars, teamVars, runVars
<1> QED
  BY <1>4, <1>5, <1>6, <1>7, <1>8, <1>10, <1>11, <1>12, <1>13 DEF Next, Body

-----------------------------------------------------------------------------
(* The invariant holds.                                                    *)

\* The invariant holds at the start.
LEMMA InitInv == Init => Inv
<1> SUFFICES ASSUME Init PROVE Inv
  OBVIOUS
<1>1. TypeOK
  BY InitType
<1>2. /\ \A n \in Node : np[n] = (IF n = 0 THEN "create" ELSE "none")
      /\ np[0] = "create" /\ \A n \in Slave : np[n] = "none"
      /\ \A n \in Node : newWork[n] = FALSE
      /\ entryFunc = 0 /\ idx = 1
  BY Constants DEF Init
<1>3. BarrierOk /\ \A n \in Served : st[n] = "out"
  BY BarrierInit DEF Init
<1>4. ChainInv
  BY <1>2, Constants DEF ChainInv, MasterPlace, SlavePlace
<1>5. ShutdownInv /\ MasterInv /\ PhaseInv
  BY <1>2, Constants DEF Init, ShutdownInv, MasterInv, PhaseInv, Waking, InTeam, InRegion
<1>6. BarrierInv
  BY <1>2, <1>3, Constants DEF BarrierInv
<1>7. TeamInv /\ WorkInv /\ ActiveInv /\ ReachInv
  BY <1>2, <1>3, Constants DEF Init, TeamInv, WorkInv, ActiveInv, ReachInv, Waking, Closing
<1> QED
  BY <1>1, <1>4, <1>5, <1>6, <1>7 DEF Inv

\* The invariant is inductive.
LEMMA StepInv == Inv /\ [Next]_vars => Inv'
<1> SUFFICES ASSUME Inv, [Next]_vars PROVE Inv'
  OBVIOUS
<1>1. TypeOK' /\ ChainInv' /\ ShutdownInv'
  BY StepType, StepChain, StepShutdown DEF Inv
<1>2. BarrierInv' /\ MasterInv' /\ PhaseInv'
  BY StepBarrier, StepMaster, StepPhase DEF Inv
<1>3. TeamInv' /\ WorkInv' /\ ActiveInv' /\ ReachInv'
  BY <1>1, StepTeam, StepWork, StepActive, StepReach
<1> QED
  BY <1>1, <1>2, <1>3 DEF Inv

\* The invariant holds of every reachable state.
LEMMA Invariance == Spec => []Inv
BY InitInv, StepInv, PTL DEF Spec

-----------------------------------------------------------------------------
(* The theorems.                                                           *)

\* The words the nodes share keep their types, whatever the nodes interleave:
\* a node runs only regions that were forked, the loops of __ompc_fork and
\* free_node stay within the nodes there are.
THEOREM TypeCorrect == Spec => []TypeOK
BY Invariance, PTL DEF Inv

\* __ompc_fork returns from the barrier of the join only when each thread the
\* barrier was built for has run the body of this region and called the join.
THEOREM JoinComplete == Spec => []JoinedWithAll
<1>1. Inv => JoinedWithAll
  <2> SUFFICES ASSUME Inv, np[0] = "joined", teamSize > 1, NEW n \in Served
               PROVE  last[n] = entryFunc /\ ~Busy(n) /\ np[n] # "join"
    BY DEF JoinedWithAll
  <2> QED BY AllThrough DEF Busy
<1> QED
  BY <1>1, Invariance, PTL

\* When free_node has joined with all threads no node is in a region, in a
\* barrier or in its poll: the memory it gives back is not in use.
THEOREM ShutdownComplete == Spec => []ShutdownOrderly
<1>1. Inv => ShutdownOrderly
  BY DEF Inv, ShutdownInv, ShutdownOrderly
<1> QED
  BY <1>1, Invariance, PTL

-----------------------------------------------------------------------------
(* The region that wakes the slaves first, in a sound program.             *)

First ==
  /\ Sound(prog) /\ entryFunc # 0 /\ teamSize > 1
  /\ \A q \in 1..(entryFunc-1) : Solo(prog, q)

\* No member of the team is in mode SLEEP when it runs the body, so none skips a
\* barrier: all have reached what the master has reached.  (In a later region a
\* slave may run the body in mode SLEEP: it falls asleep after the join, when the
\* master may already have woken it for the next region.)
FirstInv ==
  First =>
    /\ \A n \in Served \ {0} :
         /\ newWork[n] /\ last[n] < entryFunc => mode[n] = "NORMAL"
         /\ Busy(n) => mode[n] = "NORMAL"
    /\ np[0] = "wakeWork" => mode[idx] = "NORMAL"
    /\ \A n \in Served : Reached(n) = Reached(0)

\* In that region the team has one member per thread of the barrier, and no slave
\* has run an earlier region.
LEMMA FirstFact ==
  ASSUME Inv, First
  PROVE  /\ teamSize = N
         /\ \A n \in Served \ {0} : last[n] \in {0, entryFunc}
<1>0. /\ Served \subseteq Node /\ DOMAIN prog = 1..Len(prog) /\ Len(prog) \in Nat
      /\ region \in 0..Len(prog) /\ entryFunc \in 0..region /\ last \in [Node -> 0..region]
      /\ entryFunc \in 1..Len(prog)
  BY Constants, ProgramFact DEF Inv, TypeOK, First
<1>1. teamSize = N
  <2>1. TeamSize(prog[entryFunc].req) \in {1, N}
    BY <1>0 DEF First, Sound
  <2> QED BY <2>1 DEF First, Inv, TeamInv
<1>2. ASSUME NEW n \in Served \ {0} PROVE last[n] \in {0, entryFunc}
  <2>1. last[n] # 0 => ~Solo(prog, last[n])
    BY DEF Inv, TeamInv
  <2>2. last[n] \in 0..region
    BY <1>0
  <2>3. last[n] <= entryFunc
    <3>1. entryFunc = region
      BY DEF Inv, MasterInv, First
    <3> QED BY <1>0, <2>2, <3>1
  <2> QED BY <1>0, <2>1, <2>2, <2>3 DEF First
<1> QED
  BY <1>1, <1>2

\* The invariant of the first region that wakes slaves is inductive, relative to Inv.
LEMMA StepFirst ==
  ASSUME Inv, Inv', FirstInv, [Next]_vars
  PROVE  FirstInv'
<1> USE DEF At, Goto
<1> DEFINE Odd(p) == p \in {"body", "join", "inBody", "inJoin"}
<1>0. /\ np \in [Node -> Places] /\ 0 \in Node /\ Slave \subseteq Node /\ 0 \notin Slave
      /\ Served \subseteq Node /\ Node \subseteq Nat /\ 0 \in Served /\ BarrierOk
      /\ st \in [Served -> {"out", "wait", "go"}]
      /\ region \in Nat /\ entryFunc \in 0..region /\ last \in [Node -> 0..region]
      /\ phase \in [Node -> Nat] /\ phase' \in [Node -> Nat]
      /\ mode \in [Node -> {"SLEEP", "SEQUENTIAL", "NORMAL"}]
      /\ newWork \in [Node -> BOOLEAN]
      /\ teamSize \in Nat /\ idx \in Nat
  <2>1. TypeOK /\ BarrierOk
    BY DEF Inv, BarrierInv
  <2>2. phase' \in [Node -> Nat]
    BY DEF Inv, TypeOK
  <2>3. st \in [Served -> {"out", "wait", "go"}]
    BY <2>1, BarrierType
  <2>4. region \in Nat
    BY <2>1, ProgramFact DEF TypeOK
  <2> QED BY <2>1, <2>2, <2>3, <2>4, Constants DEF TypeOK, Places
<1> SUFFICES ASSUME First'
             PROVE  FirstInv'
  BY DEF FirstInv
<1> DEFINE Awake == \A n \in Served \ {0} :
                      /\ newWork[n] /\ last[n] < entryFunc => mode[n] = "NORMAL"
                      /\ Busy(n) => mode[n] = "NORMAL"
           Woken == np[0] = "wakeWork" => mode[idx] = "NORMAL"
           Even  == \A n \in Served : Reached(n) = Reached(0)
<1>1. ASSUME UNCHANGED <<entryFunc, teamSize, prog>>
      PROVE  First /\ Awake /\ Woken /\ Even
  BY <1>1 DEF First, FirstInv, Sound, Solo
<1>2. CASE /\ UNCHANGED <<entryFunc, teamSize, prog, last, phase>> /\ st' = st
           /\ \A m \in Served : np'[m] = np[m] \/ (~Odd(np'[m]) /\ ~Odd(np[m]))
           /\ Awake' /\ Woken'
  <2>1. \A m \in Served : Through(m)' = Through(m)
    BY <1>2 DEF Through
  <2>2. \A m \in Served : Reached(m)' = Reached(m)
    BY <1>2, <2>1 DEF Reached
  <2> QED BY <1>1, <1>0, <1>2, <2>2 DEF FirstInv
<1>3. CASE /\ UNCHANGED <<newWork, mode, idx, entryFunc, teamSize, prog, last, phase>> /\ st' = st
           /\ np'[0] = "wakeWork" => np[0] = "wakeWork"
           /\ \A m \in Served : np'[m] = np[m] \/ (~Odd(np'[m]) /\ ~Odd(np[m]))
  <2>1. Awake'
    BY <1>1, <1>3 DEF Busy
  <2>2. Woken'
    BY <1>1, <1>3
  <2> QED BY <1>2, <1>3, <2>1, <2>2
<1>4. CASE Master
  <2>0. st' = st
    BY <1>0, <1>4, OutsideIdle
  <2>1. CASE Fork
    <3>1. \A m \in Served : last'[m] # entryFunc'
      BY <1>0, <2>1 DEF Fork
    <3>2. Even'
      BY <1>0, <3>1 DEF Reached
    <3>3. \A n \in Served \ {0} : ~newWork'[n] /\ ~Busy(n)'
      <4>1. \A n \in Served \ {0} : ~newWork[n] /\ ~Busy(n)
        BY <2>1 DEF Fork, Inv, MasterInv, WorkInv, ActiveInv, Busy, Waking, InTeam, Closing
      <4> QED BY <1>0, <2>1, <4>1 DEF Fork, Busy
    <3>4. np'[0] # "wakeWork"
      BY <1>0, <2>1 DEF Fork
    <3> QED BY <3>2, <3>3, <3>4 DEF FirstInv
  <2>2. CASE Joined
    BY <2>2 DEF Joined, First
  <2>3. CASE WakeMode
    <3>1. /\ UNCHANGED <<entryFunc, teamSize, prog, last, phase, newWork, idx>>
          /\ mode' = [mode EXCEPT ![idx] = "NORMAL"]
          /\ \A m \in Served : np'[m] = np[m] \/ (~Odd(np'[m]) /\ ~Odd(np[m]))
          /\ \A m \in Node \ {0} : np'[m] = np[m]
          /\ idx < teamSize
      BY <1>0, <2>3 DEF WakeMode, teamVars, runVars
    <3>2. \A m \in Node : mode'[m] = IF m = idx THEN "NORMAL" ELSE mode[m]
      BY <1>0, <3>1
    <3>3. idx \in Node
      BY <1>0, <3>1, Constants DEF Inv, TypeOK, Node
    <3>4. Awake' /\ Woken'
      BY <1>0, <1>1, <3>1, <3>2, <3>3 DEF Busy
    <3> QED BY <1>2, <2>0, <3>1, <3>4
  <2>4. CASE WakeWork
    <3>1. /\ UNCHANGED <<entryFunc, teamSize, prog, last, phase, mode>>
          /\ np[0] = "wakeWork"
          /\ newWork' = [newWork EXCEPT ![idx] = TRUE]
          /\ \A m \in Served : np'[m] = np[m] \/ (~Odd(np'[m]) /\ ~Odd(np[m]))
          /\ \A m \in Node \ {0} : np'[m] = np[m]
          /\ np'[0] # "wakeWork"
      BY <1>0, <2>4 DEF WakeWork, teamVars, runVars
    <3>2. \A m \in Node : newWork'[m] = (m = idx \/ newWork[m])
      BY <1>0, <3>1
    <3>3. mode[idx] = "NORMAL"
      BY <1>1, <3>1
    <3>4. Awake' /\ Woken'
      BY <1>0, <1>1, <3>1, <3>2, <3>3 DEF Busy
    <3> QED BY <1>2, <2>0, <3>1, <3>4
  <2>5. CASE MasterBegin
    <3>1. /\ UNCHANGED <<entryFunc, teamSize, prog, mode, newWork>>
          /\ \A m \in Node \ {0} : np'[m] = np[m] /\ last'[m] = last[m] /\ phase'[m] = phase[m]
          /\ np'[0] = "body" /\ phase'[0] = 0
      BY <1>0, <2>5 DEF MasterBegin, Run, teamVars
    <3>2. Reached(0)' = 0
      BY <3>1 DEF Reached, Through
    <3>3. Reached(0) = 0
      BY <1>0, <2>5 DEF MasterBegin, Inv, MasterInv, Waking, Reached
    <3>4. \A m \in Served \ {0} : Reached(m)' = Reached(m)
      BY <1>0, <2>0, <3>1 DEF Reached, Through
    <3>5. Even'
      BY <1>1, <3>1, <3>2, <3>3, <3>4
    <3>6. Awake' /\ Woken'
      BY <1>0, <1>1, <3>1 DEF Busy
    <3> QED BY <3>5, <3>6 DEF FirstInv
  <2>6. CASE SetupDone \/ Finish \/ WakeToExit \/ JoinNode \/ RcGarbage \/ MasterExit
    <3>1. entryFunc' = entryFunc
      BY <2>6 DEF SetupDone, Finish, WakeToExit, JoinNode, RcGarbage, MasterExit, teamVars
    <3>2. entryFunc = 0
      BY <2>6 DEF SetupDone, Finish, WakeToExit, JoinNode, RcGarbage, MasterExit, Inv, MasterInv,
         Waking, InTeam
    <3> QED BY <3>1, <3>2 DEF First
  <2> QED
    BY <1>4, <2>1, <2>2, <2>3, <2>4, <2>5, <2>6 DEF Master
<1>5. ASSUME NEW n \in Slave, SlaveStep(n) PROVE FirstInv'
  <2>0. n \in Node /\ n # 0 /\ st' = st
    BY <1>0, <1>5, OutsideIdle
  <2>1. CASE InitFails(n) \/ BecomeReady(n) \/ TestFinished(n) \/ PollWork(n)
    BY <1>0, <1>3, <2>0, <2>1 DEF InitFails, BecomeReady, TestFinished, PollWork, teamVars, runVars
  <2>2. CASE FallAsleep(n)
    <3>1. /\ UNCHANGED <<newWork, idx, entryFunc, teamSize, prog, last, phase>>
          /\ \A m \in Node \ {n} : np'[m] = np[m] /\ mode'[m] = mode[m]
          /\ np[n] = "sleep" /\ np'[n] = "test"
      BY <1>0, <2>0, <2>2 DEF FallAsleep, teamVars, runVars
    <3>2. n \in Served => last[n] = entryFunc
      BY <1>1, <2>0, <3>1, FirstFact DEF Inv, PhaseInv, InRegion
    <3>3. Awake'
      BY <1>0, <1>1, <3>1, <3>2 DEF Busy
    <3>4. Woken'
      <4> SUFFICES ASSUME np[0] = "wakeWork", n = idx PROVE FALSE
        BY <1>1, <2>0, <3>1, FirstFact, Constants DEF Inv, MasterInv, TypeOK, Node
      <4>1. idx \in Served \ {0}
        <5>1. idx < N
          BY <1>1, <3>1, FirstFact DEF Inv, MasterInv
        <5> QED BY <2>0, <5>1, Constants
      <4>2. last[idx] < entryFunc
        BY <1>0, <4>1 DEF Inv, WorkInv, Waking
      <4> QED BY <1>0, <3>2, <4>1, <4>2
    <3>5. \A m \in Served : np'[m] = np[m] \/ (~Odd(np'[m]) /\ ~Odd(np[m]))
      BY <1>0, <3>1
    <3> QED BY <1>2, <2>0, <3>1, <3>3, <3>4, <3>5
  <2>3. CASE CheckWork(n) /\ entryFunc # 0 /\ Run(n)
    <3>1. /\ \A m \in Node \ {n} : last'[m] = last[m] /\ phase'[m] = phase[m] /\ np'[m] = np[m]
          /\ np[n] = "check" /\ np'[n] = "body" /\ last'[n] = entryFunc /\ phase'[n] = 0
          /\ UNCHANGED <<newWork, mode, idx, entryFunc, teamSize, prog>>
      BY <1>0, <2>0, <2>3 DEF CheckWork, Run, teamVars
    <3>2. \A m \in Served \ {n} : Reached(m)' = Reached(m)
      BY <1>0, <2>0, <3>1 DEF Reached, Through
    <3>3. ASSUME n \in Served PROVE newWork[n] /\ last[n] < entryFunc
      <4>1. newWork[n] /\ ~Closing
        BY <2>0, <2>3, <3>1, <3>3 DEF Inv, WorkInv, MasterInv, Waking, InTeam, Closing
      <4> QED BY <2>0, <3>1, <3>3, <4>1 DEF Inv, WorkInv, Busy
    <3>4. n \in Served => Reached(n) = 0 /\ Reached(n)' = 0
      BY <1>0, <3>1, <3>3 DEF Reached, Through
    <3>5. Even'
      BY <1>0, <1>1, <2>0, <3>1, <3>2, <3>4
    <3>6. Awake'
      BY <1>0, <1>1, <2>0, <3>1, <3>3 DEF Busy
    <3>7. Woken'
      BY <1>0, <1>1, <2>0, <3>1
    <3> QED BY <3>5, <3>6, <3>7 DEF FirstInv
  <2>4. CASE CheckWork(n) /\ Goto(n, "test") /\ UNCHANGED <<last, phase>>
    BY <1>0, <1>3, <2>0, <2>4 DEF CheckWork, teamVars
  <2> QED BY <1>5, <2>1, <2>2, <2>3, <2>4 DEF SlaveStep, CheckWork
<1>6. ASSUME NEW n \in Node, CreateNode(n) PROVE FirstInv'
  <2>1. n + 1 \in Node /\ np[n+1] = "none" /\ np[n] = "create"
    BY <1>6, Constants DEF CreateNode, Inv, ChainInv, Node
  <2>2. st' = st
    BY <1>0, <1>6, OutsideIdle
  <2> QED BY <1>0, <1>3, <1>6, <2>1, <2>2 DEF CreateNode, teamVars, runVars
<1>7. ASSUME NEW n \in Node, CreateFails(n) PROVE FirstInv'
  BY <1>0, <1>3, <1>7, OutsideIdle DEF CreateFails, nodeVars, teamVars
\* What is left are the steps in the region.
<1>8. ASSUME \A m \in Node : Busy(m)' => Busy(m),
             \A m \in Node : newWork'[m] => newWork[m],
             np'[0] = "wakeWork" => np[0] = "wakeWork",
             UNCHANGED <<entryFunc, teamSize, prog, last, mode, idx>>
      PROVE  Awake' /\ Woken'
  <2>1. Awake'
    BY <1>0, <1>1, <1>8
  <2>2. Woken'
    BY <1>1, <1>8
  <2> QED BY <2>1, <2>2
<1>9. ASSUME NEW n \in Node, EndBody(n) PROVE FirstInv'
  <2>1. st' = st
    BY <1>0, <1>9, OutsideIdle
  <2>2. /\ \A m \in Node \ {n} : np'[m] = np[m] /\ newWork'[m] = newWork[m]
        /\ np[n] = "body" /\ np'[n] = "join" /\ ~newWork'[n]
        /\ UNCHANGED <<entryFunc, teamSize, prog, last, phase, mode, idx>>
    BY <1>0, <1>9 DEF EndBody, teamVars, runVars
  <2>3. \A m \in Served : Reached(m)' = Reached(m)
    BY <1>0, <2>1, <2>2 DEF Through, Reached
  <2>4. Awake' /\ Woken'
    BY <1>0, <1>8, <2>2 DEF Busy
  <2> QED BY <1>0, <1>1, <2>2, <2>3, <2>4 DEF FirstInv
<1>10. ASSUME NEW n \in Node, NEW inside \in {"inBody", "inJoin"}, Enter(n, inside),
             np[n] = IF inside = "inBody" THEN "body" ELSE "join"
      PROVE  FirstInv'
  <2>1. /\ \A m \in Node \ {n} : np'[m] = np[m]
        /\ \A m \in Served \ {n} : st'[m] = st[m]
        /\ np'[n] = inside /\ st'[n] = "wait"
        /\ UNCHANGED <<newWork, entryFunc, teamSize, prog, last, phase, mode, idx>>
    BY <1>0, <1>10 DEF Enter, Rest, teamVars
  <2>2. \A m \in Served : Reached(m)' = Reached(m)
    BY <1>0, <1>10, <2>1 DEF Through, Reached
  <2>3. Awake' /\ Woken'
    BY <1>0, <1>8, <1>10, <2>1 DEF Busy
  <2> QED BY <1>0, <1>1, <2>1, <2>2, <2>3 DEF FirstInv
<1>11. ASSUME NEW n \in Node, CallBarrier(n) PROVE FirstInv'
  <2>1. CASE /\ ~(mode[n] = "NORMAL" /\ teamSize > 1) /\ np[n] = "body"
             /\ phase' = [phase EXCEPT ![n] = @ + 1] /\ st' = st
             /\ UNCHANGED <<Rest, np, stopped>>
    <3>1. UNCHANGED <<newWork, entryFunc, teamSize, prog, last, mode, idx, np>>
      BY <2>1 DEF Rest, teamVars
    <3>2. n \notin Served
      <4>1. First /\ Awake
        BY <1>1, <3>1
      <4>2. mode[n] # "NORMAL"
        BY <2>1, <4>1 DEF First
      <4>3. n # 0
        BY <2>1, <4>2 DEF Inv, MasterInv, InTeam
      <4> QED BY <2>1, <4>1, <4>2, <4>3 DEF Busy
    <3>3. \A m \in Served : Reached(m)' = Reached(m)
      BY <1>0, <2>1, <3>1, <3>2 DEF Reached, Through
    <3>4. Awake' /\ Woken'
      BY <1>8, <3>1 DEF Busy
    <3> QED BY <1>0, <1>1, <3>1, <3>3, <3>4 DEF FirstInv
  <2>2. CASE UNCHANGED <<Rest, np, phase>> /\ st' = st
    BY <1>3, <2>2 DEF Rest, teamVars
  <2> QED BY <1>0, <1>10, <1>11, <2>1, <2>2, CallBarrierCases DEF Crash
<1>12. ASSUME NEW n \in Node, JoinBarrier(n) PROVE FirstInv'
  <2>1. CASE teamSize = 1 /\ UNCHANGED Rest
    BY <2>1 DEF Rest, teamVars, First
  <2>2. CASE Enter(n, "inJoin") /\ np[n] = "join"
    BY <1>10, <2>2
  <2>3. CASE Crash(n)
    BY <1>3, <2>3 DEF Crash, Rest, teamVars
  <2> QED BY <1>0, <1>12, <2>1, <2>2, <2>3, JoinBarrierCases
<1>13. ASSUME NEW n \in Node, InBarrier(n) PROVE FirstInv'
  <2>1. /\ n \in Served /\ np[n] \in {"inBody", "inJoin"}
        /\ UNCHANGED <<newWork, entryFunc, teamSize, prog, last, mode, idx>>
    BY <1>13, InBarrierCases DEF Inv, Rest, teamVars
  <2>2. CASE st' = st /\ UNCHANGED <<np, phase>>
    BY <1>3, <2>1, <2>2
  <2>3. CASE UNCHANGED <<np, phase>> /\ \A u \in Served : st[u] = "wait" /\ st'[u] = "go"
    <3>1. \A m \in Served : np[m] \in {"inBody", "inJoin"} /\ last[m] = entryFunc
      BY <2>3 DEF Inv, BarrierInv, ActiveInv
    <3>2. \A m \in Served : Reached(m) = phase[m] /\ Reached(m)' = phase[m] + 1
      BY <1>0, <2>1, <2>3, <3>1 DEF Reached, Through
    <3>3. Even'
      BY <1>0, <1>1, <2>1, <3>2
    <3>4. Awake' /\ Woken'
      BY <1>8, <2>1, <2>3 DEF Busy
    <3> QED BY <3>3, <3>4 DEF FirstInv
  <2>4. ASSUME st[n] = "go", st' = [st EXCEPT ![n] = "out"],
               \A m \in Node \ {n} : np'[m] = np[m] /\ phase'[m] = phase[m],
               \/ np[n] = "inBody" /\ np'[n] = "body" /\ phase'[n] = phase[n] + 1
               \/ np[n] = "inJoin" /\ np'[n] \in {"joined", "sleep"} /\ phase'[n] = phase[n]
        PROVE  FirstInv'
    <3>1. \A m \in Served \ {n} : st'[m] = st[m]
      BY <1>0, <2>1, <2>4
    <3>2. \A m \in Served \ {n} : Reached(m)' = Reached(m)
      BY <1>0, <2>1, <2>4, <3>1 DEF Reached, Through
    <3>3. Reached(n)' = Reached(n)
      BY <1>0, <2>1, <2>4 DEF Reached, Through
    <3>4. Awake' /\ Woken'
      BY <1>0, <1>8, <2>1, <2>4 DEF Busy
    <3> QED BY <1>0, <1>1, <2>1, <3>2, <3>3, <3>4 DEF FirstInv
  <2>5. CASE /\ st[n] = "go" /\ st' = [st EXCEPT ![n] = "out"]
             /\ np[n] = "inBody" /\ Goto(n, "body") /\ phase' = [phase EXCEPT ![n] = @ + 1]
    BY <1>0, <2>1, <2>4, <2>5
  <2>6. CASE /\ st[n] = "go" /\ st' = [st EXCEPT ![n] = "out"]
             /\ np[n] = "inJoin" /\ Goto(n, IF n = 0 THEN "joined" ELSE "sleep")
             /\ UNCHANGED phase
    BY <1>0, <2>1, <2>4, <2>6
  <2> QED BY <1>13, <2>2, <2>3, <2>5, <2>6, InBarrierCases DEF Inv
<1>14. CASE UNCHANGED vars
  BY <1>0, <1>3, <1>14, OutsideIdle DEF vars, nodeVars, teamVars, runVars
<1> QED
  BY <1>4, <1>5, <1>6, <1>7, <1>9, <1>11, <1>12, <1>13, <1>14 DEF Next, Body

\* A barrier in the body of a region separates its phases, in a sound program.
THEOREM BarrierSeparates == Spec => []PhasesSeparate
<1>1. Init => FirstInv
  BY DEF Init, FirstInv, First
<1>2. Spec => []FirstInv
  BY <1>1, Invariance, StepFirst, PTL DEF Spec
<1>3. Inv /\ FirstInv => PhasesSeparate
  <2> SUFFICES ASSUME Inv, FirstInv, Sound(prog), entryFunc # 0,
                      NEW n \in Node, NEW m \in Node, Member(n), Member(m)
               PROVE  Passed(n) <= Called(m)
    BY DEF PhasesSeparate
  <2>0. /\ np \in [Node -> Places] /\ 0 \in Served /\ Served \subseteq Node /\ Node \subseteq Nat
        /\ Len(prog) \in Nat /\ DOMAIN prog = 1..Len(prog)
        /\ \A r \in 1..Len(prog) : prog[r].barriers \in Nat
        /\ entryFunc \in 1..Len(prog) /\ phase \in [Node -> Nat] /\ teamSize \in 1..MaxNodes
        /\ MaxNodes \in Nat
    <3>1. TypeOK
      BY DEF Inv
    <3>2. Len(prog) \in Nat /\ entryFunc \in 1..Len(prog)
      BY <3>1, ProgramFact DEF TypeOK
    <3> QED BY <3>1, <3>2, Constants, ProgramFact DEF TypeOK, Places
  <2>1. CASE teamSize = 1
    <3>1. n = 0 /\ m = 0
      BY <2>0, <2>1 DEF Member
    <3> QED BY <2>0, <3>1 DEF Passed, Called
  <2>2. ASSUME NEW k \in Node
        PROVE  /\ Passed(k) \in 0..prog[entryFunc].barriers
               /\ np[k] \notin {"body", "inBody"} /\ last[k] = entryFunc =>
                    Passed(k) = prog[entryFunc].barriers
    <3>1. PhaseInv
      BY DEF Inv
    <3>2. CASE last[k] = entryFunc
      <4>1. prog[entryFunc].barriers \in Nat /\ phase[k] \in Nat /\ Passed(k) = phase[k]
        BY <2>0, <3>2 DEF Passed
      <4>2. /\ np[k] = "body" => phase[k] <= prog[entryFunc].barriers
            /\ np[k] = "inBody" => phase[k] < prog[entryFunc].barriers
            /\ np[k] \notin {"body", "inBody"} => phase[k] = prog[entryFunc].barriers
        BY <2>0, <3>1, <3>2 DEF PhaseInv
      <4> QED BY <3>2, <4>1, <4>2
    <3>3. CASE last[k] # entryFunc
      <4>1. Passed(k) = 0
        BY <3>3 DEF Passed
      <4> QED BY <2>0, <3>3, <4>1
    <3> QED BY <3>2, <3>3
  <2>3. CASE teamSize > 1 /\ prog[entryFunc].barriers = 0
    BY <2>0, <2>2, <2>3 DEF Called
  <2>4. CASE teamSize > 1 /\ prog[entryFunc].barriers > 0
    <3>1. ~Solo(prog, entryFunc)
      BY <2>0, <2>4 DEF Inv, TeamInv, Solo
    <3>2. First
      BY <2>0, <2>4, <3>1 DEF First, Sound
    <3>3. n \in Served /\ m \in Served
      BY <2>0, <3>2, FirstFact, Constants DEF Member
    <3>4. Reached(n) = Reached(m)
      BY <3>2, <3>3 DEF FirstInv
    <3>5. Passed(n) <= Reached(n)
      BY <2>0 DEF Passed, Reached
    <3>6. Reached(m) <= Called(m) \/ Called(m) = prog[entryFunc].barriers
      BY <2>0, <2>2 DEF Passed, Called, Reached, Through
    <3> QED BY <2>0, <2>2, <3>4, <3>5, <3>6 DEF Reached, Called
  <2> QED BY <2>0, <2>1, <2>2, <2>3, <2>4
<1> QED
  BY <1>2, <1>3, Invariance, PTL

-----------------------------------------------------------------------------
(* The refinement of the abstract regions.                                 *)

\* The members of the open region's team that have still to begin, and the nodes
\* that are in its body.
Todo == {n \in Served : entryFunc # 0 /\ Member(n) /\ last[n] < entryFunc}
Working == {n \in Served : Busy(n)}

\* A step that changes neither the team, nor who has begun, nor who is busy.
LEMMA RegionIdle ==
  ASSUME UNCHANGED <<entryFunc, teamSize>>,
         \A m \in Served : last'[m] = last[m] /\ (Busy(m)' <=> Busy(m))
  PROVE  UNCHANGED Abs!vars
<1>1. Todo' = Todo
  BY DEF Todo, Member
<1>2. Working' = Working
  BY DEF Working
<1> QED
  BY <1>1, <1>2 DEF Abs!vars, Todo, Working

\* A node begins the body.
LEMMA RegionBegin ==
  ASSUME TypeOK, NEW n \in Served, Run(n), ~Busy(n), UNCHANGED <<entryFunc, teamSize>>,
         entryFunc # 0, Member(n), last[n] < entryFunc
  PROVE  Abs!Begin(n)
<1>0. /\ np \in [Node -> Places] /\ n \in Node /\ Served \subseteq Node
      /\ entryFunc \in Nat /\ last \in [Node -> 0..region] /\ region \in Nat
  <2>1. region \in Nat
    BY ProgramFact DEF TypeOK
  <2> QED BY <2>1, Constants DEF TypeOK, Places
<1>1. n \in Todo
  BY DEF Todo
<1>2. Todo' = Todo \ {n}
  BY <1>0 DEF Todo, Run, Member
<1>3. Working' = Working \union {n}
  BY <1>0 DEF Working, Run, Goto, Busy
<1> QED
  BY <1>1, <1>2, <1>3 DEF Abs!Begin, Todo, Working

\* Every member of a team runs its region exactly once, nobody else does, and the
\* join waits for all of them: for every program, every interleaving.
THEOREM Refinement == Spec => ImplementsRegions
<1>1. ASSUME Init PROVE Abs!Init
  <2>1. entryFunc = 0 /\ \A n \in Served : ~Busy(n)
    BY <1>1, Constants DEF Init, Busy
  <2> QED BY <2>1 DEF Abs!Init
<1>2. ASSUME Inv, [Next]_vars PROVE [Abs!Next]_(Abs!vars)
  <2> USE DEF At, Goto
  <2>0. /\ np \in [Node -> Places] /\ 0 \in Served /\ Served \subseteq Node /\ Node \subseteq Nat
        /\ Slave \subseteq Node /\ 0 \notin Slave /\ 0 \in Node
        /\ region \in Nat /\ entryFunc \in 0..region /\ last \in [Node -> 0..region]
        /\ teamSize \in 1..MaxNodes /\ MaxNodes \in Nat
    <3>1. region \in Nat
      BY <1>2, ProgramFact DEF Inv, TypeOK
    <3> QED BY <1>2, <3>1, Constants DEF Inv, TypeOK, Places
  <2>1. ASSUME UNCHANGED <<entryFunc, teamSize, last>>,
               \A m \in Served : np'[m] = np[m] \/ (~Busy(m) /\ ~Busy(m)')
                                \/ (Busy(m) /\ Busy(m)')
        PROVE  UNCHANGED Abs!vars
    BY <2>1, RegionIdle DEF Busy
  <2>2. CASE Fork
    <3>1. /\ entryFunc = 0 /\ entryFunc' # 0
          /\ \A n \in Served : last'[n] < entryFunc'
          /\ 0 < teamSize'
      <4>1. teamSize' \in 1..MaxNodes
        BY <1>2, <2>2, StepInv DEF Inv, TypeOK
      <4> QED BY <1>2, <2>0, <2>2, <4>1 DEF Fork, Inv, MasterInv, Waking, InTeam
    <3>2. Working' = Working
      BY <2>0, <2>2 DEF Fork, Working, Busy
    <3>3. 0 \in Todo'
      BY <2>0, <3>1 DEF Todo, Member
    <3>4. PICK team \in (SUBSET Served) \ {{}} : Todo' = team
      BY <3>3 DEF Todo
    <3>5. Abs!Fork(team)
      BY <3>1, <3>2, <3>4 DEF Abs!Fork, Working, Todo
    <3> QED BY <3>5 DEF Abs!Next
  <2>3. CASE MasterBegin
    <3>1. Abs!Begin(0)
      BY <1>2, <2>0, <2>3, RegionBegin DEF MasterBegin, teamVars, Inv, MasterInv, Waking, Member,
         Busy
    <3> QED BY <2>0, <3>1 DEF Abs!Next
  <2>4. CASE Joined
    <3>1. /\ entryFunc # 0 /\ entryFunc' = 0
          /\ \A m \in Node \ {0} : np'[m] = np[m]
          /\ np[0] = "joined" /\ np'[0] = "serial"
      BY <1>2, <2>0, <2>4 DEF Joined, Inv, MasterInv, InTeam
    <3>2. Todo = {}
      <4> SUFFICES ASSUME NEW n \in Todo PROVE FALSE
        OBVIOUS
      <4>1. n \in Served /\ Member(n) /\ last[n] < entryFunc
        BY DEF Todo
      <4>2. last[n] = entryFunc
        BY <1>2, <3>1, <4>1, AllThrough
      <4> QED BY <2>0, <4>1, <4>2
    <3>3. Working = {}
      <4> SUFFICES ASSUME NEW n \in Working PROVE FALSE
        OBVIOUS
      <4>1. n \in Served /\ np[n] \in {"body", "inBody"}
        BY DEF Working, Busy
      <4>2. Member(n)
        BY <1>2, <4>1 DEF Inv, ActiveInv
      <4> QED BY <1>2, <3>1, <4>1, <4>2, AllThrough
    <3>4. Todo' = {}
      BY <3>1 DEF Todo
    <3>5. Working' = Working
      BY <2>0, <3>1 DEF Working, Busy
    <3>6. Abs!Join
      BY <3>1, <3>2, <3>3, <3>4, <3>5 DEF Abs!Join, Todo, Working
    <3> QED BY <3>6 DEF Abs!Next
  <2>5. CASE \/ SetupDone \/ WakeMode \/ WakeWork \/ Finish \/ WakeToExit \/ JoinNode
             \/ RcGarbage \/ MasterExit
    BY <2>0, <2>1, <2>5 DEF SetupDone, WakeMode, WakeWork, Finish, WakeToExit, JoinNode,
       RcGarbage, MasterExit, nodeVars, teamVars, runVars, Busy
  <2>6. ASSUME NEW n \in Slave, CheckWork(n), entryFunc # 0, Run(n) PROVE [Abs!Next]_(Abs!vars)
    <3>1. CASE n \in Served
      <4>1. newWork[n] /\ ~Closing /\ ~Busy(n)
        BY <1>2, <2>0, <2>6, <3>1 DEF CheckWork, Inv, WorkInv, MasterInv, Waking, InTeam, Closing,
           Busy
      <4>2. Member(n) /\ last[n] < entryFunc
        BY <1>2, <2>0, <2>6, <3>1, <4>1 DEF Inv, WorkInv
      <4>3. Abs!Begin(n)
        BY <1>2, <2>6, <3>1, <4>1, <4>2, RegionBegin DEF CheckWork, teamVars, Inv
      <4> QED BY <3>1, <4>3 DEF Abs!Next
    <3>2. CASE n \notin Served
      BY <2>0, <2>6, <3>2, RegionIdle DEF CheckWork, Run, teamVars, Busy
    <3> QED BY <3>1, <3>2
  <2>7. ASSUME NEW n \in Slave, SlaveStep(n) PROVE [Abs!Next]_(Abs!vars)
    <3>1. CASE CheckWork(n) /\ Goto(n, "test") /\ UNCHANGED <<last, phase>>
      BY <2>0, <2>1, <3>1 DEF CheckWork, teamVars, Busy
    <3>2. CASE InitFails(n) \/ BecomeReady(n) \/ TestFinished(n) \/ PollWork(n) \/ FallAsleep(n)
      BY <2>0, <2>1, <3>2 DEF InitFails, BecomeReady, TestFinished, PollWork, FallAsleep, teamVars,
         runVars, Busy
    <3> QED BY <2>6, <2>7, <3>1, <3>2 DEF SlaveStep, CheckWork
  <2>8. ASSUME NEW n \in Node, CreateNode(n) PROVE [Abs!Next]_(Abs!vars)
    <3>1. n + 1 \in Node /\ np[n+1] = "none" /\ np[n] = "create"
      BY <1>2, <2>8, Constants DEF CreateNode, Inv, ChainInv, Node
    <3> QED BY <2>0, <2>1, <2>8, <3>1 DEF CreateNode, teamVars, runVars, Busy
  <2>9. ASSUME NEW n \in Node, CreateFails(n) PROVE [Abs!Next]_(Abs!vars)
    BY <2>1, <2>9 DEF CreateFails, nodeVars, teamVars
  <2>10. ASSUME NEW n \in Node, EndBody(n) PROVE [Abs!Next]_(Abs!vars)
    <3>1. /\ UNCHANGED <<entryFunc, teamSize, last>>
          /\ \A m \in Node \ {n} : np'[m] = np[m]
          /\ np[n] = "body" /\ np'[n] = "join"
      BY <2>0, <2>10 DEF EndBody, teamVars, runVars
    <3>2. CASE n \in Served
      <4>1. Todo' = Todo
        BY <3>1 DEF Todo, Member
      <4>2. Working' = Working \ {n} /\ n \in Working
        BY <2>0, <3>1, <3>2 DEF Working, Busy
      <4>3. Abs!End(n)
        BY <3>1, <4>1, <4>2 DEF Abs!End, Todo, Working
      <4> QED BY <3>2, <4>3 DEF Abs!Next
    <3>3. CASE n \notin Served
      BY <2>0, <2>1, <3>1, <3>3
    <3> QED BY <3>2, <3>3
  <2>11. ASSUME NEW n \in Node, CallBarrier(n) \/ InBarrier(n) \/ JoinBarrier(n)
         PROVE  [Abs!Next]_(Abs!vars)
    <3>1. UNCHANGED <<entryFunc, teamSize, last>>
      BY <2>11 DEF CallBarrier, InBarrier, JoinBarrier, teamVars
    <3>2. \/ UNCHANGED np
          \/ np[n] = "body" /\ Goto(n, "inBody")
          \/ np[n] = "inBody" /\ Goto(n, "body")
          \/ /\ np[n] \in {"join", "inJoin"}
             /\ \E p \in {"inJoin", "joined", "sleep"} : Goto(n, p)
      BY <2>11 DEF CallBarrier, InBarrier, JoinBarrier, LevelOneBarrier
    <3> QED BY <2>0, <2>1, <3>1, <3>2 DEF Busy
  <2>12. CASE UNCHANGED vars
    BY <2>1, <2>12 DEF vars, nodeVars, teamVars, runVars
  <2> QED
    BY <1>2, <2>2, <2>3, <2>4, <2>5, <2>7, <2>8, <2>9, <2>10, <2>11, <2>12 DEF Next, Master, Body
<1> QED
  BY <1>1, <1>2, Invariance, PTL DEF Spec, ImplementsRegions, Abs!Spec
=============================================================================
