----------------------------- MODULE TourBarrier -----------------------------
(***************************************************************************)
(* The tournament barrier of libopenmp-OpenUH: tour_barrier_init and the   *)
(* BARR_TOUR version of __ompc_level_1_barrier.                            *)
(*                                                                         *)
(* In round k the threads whose number is a multiple of 2^k meet in pairs. *)
(* The odd one of a pair is the LOSER: it writes its sense into the flag   *)
(* of its opponent and waits for champion_sense.  The even one is the      *)
(* WINNER: it waits for that flag and goes on to the next round.  Thread 0 *)
(* is CHAMPION of the last round and releases all.  No flag is ever reset: *)
(* every thread flips its private sense when it leaves.                    *)
(*                                                                         *)
(* Each access to a shared volatile is one step and steps are totally      *)
(* ordered (sequential consistency; the code has no fences).               *)
(***************************************************************************)
EXTENDS Integers

CONSTANTS
  N,         \* __omp_nthreads_var: the threads the barrier is built for
  LogMax     \* OMP_LOG_MAX_NUM_THREADS: the rounds the table has room for

\* rounds[][LogMax] has room for the tournament of N threads.
ASSUME TourAssumption ==
  /\ N \in Nat /\ N > 1
  /\ LogMax \in Nat
  /\ \E k \in 1..LogMax : 2^(k-1) < N /\ N <= 2^k

\* The shifts 1 << k the code computes: facts of arithmetic, stated because
\* the provers know ^ at literals only.
ASSUME ShiftAssumption ==
  \A k \in 0..LogMax :
    /\ 2^k \in Nat \ {0} /\ 2^(k+1) = 2 * 2^k
    /\ \A j \in 0..k : 2^k % 2^j = 0

Thread == 0..(N-1)

\* Fault: the loop stops one doubling early (floor of the logarithm).
LogNFloor == CHOOSE k \in 0..LogMax : 2^k <= N /\ N < 2^(k+1)

\* __omp_log2_num_threads, by the exit condition of its loop.
LogN == CHOOSE k \in 1..LogMax : 2^(k-1) < N /\ N <= 2^k

Rounds == 0..(LogN-1)

-----------------------------------------------------------------------------
\* tour_barrier_init: the table of roles.

\* The test of the "else if": v is odd among the multiples of 2^k.
Loses(v, k) == v % 2^(k+1) = 2^k

\* The loop breaks at the first LOSER; later rounds keep the default DROPOUT.
Lost(v, k) == \E j \in 0..(k-1) : Loses(v, j)

\* Fault: the line that makes thread 0 the CHAMPION is missing.
RoleNoChampion(v, k) ==
  IF Lost(v, k) THEN "DROPOUT"
  ELSE IF Loses(v, k) THEN "LOSER"
  ELSE IF v % 2^(k+1) # 0 THEN "DROPOUT"
  ELSE IF v + 2^k < N THEN "WINNER" ELSE "NOOP"

Role(v, k) ==
  IF v = 0 /\ k = LogN - 1 THEN "CHAMPION"
  ELSE IF Lost(v, k) THEN "DROPOUT"
  ELSE IF Loses(v, k) THEN "LOSER"
  ELSE IF v % 2^(k+1) # 0 THEN "DROPOUT"
  ELSE IF v + 2^k < N THEN "WINNER" ELSE "NOOP"

Opponent(v, k) == v - 2^k

-----------------------------------------------------------------------------
VARIABLES
  pc,             \* where a thread is in __ompc_level_1_barrier
  round,          \* the row of myrounds its pointer "round" is at
  sense,          \* team[t].sense
  flag,           \* rounds[v][k].flag
  championSense   \* champion_sense

vars == <<pc, round, sense, flag, championSense>>

\* The type of the barrier's state; a thread never walks past the last row.
TypeOK ==
  /\ pc \in [Thread -> {"out", "round", "champ", "exit"}]
  /\ round \in [Thread -> Rounds]
  /\ sense \in [Thread -> BOOLEAN]
  /\ flag \in [Thread -> [Rounds -> BOOLEAN]]
  /\ championSense \in BOOLEAN

Init ==
  /\ pc = [t \in Thread |-> "out"]
  /\ round = [t \in Thread |-> 0]
  /\ sense = [t \in Thread |-> TRUE]
  /\ flag = [v \in Thread |-> [k \in Rounds |-> FALSE]]
  /\ championSense = FALSE

-----------------------------------------------------------------------------
\* The call: round = current_thd->myrounds.
Arrive(t) ==
  /\ pc[t] = "out"
  /\ pc' = [pc EXCEPT ![t] = "round"]
  /\ UNCHANGED <<round, sense, flag, championSense>>

\* *(round->opponent) = current_thd->sense
LoserSignal(t) ==
  /\ pc[t] = "round" /\ Role(t, round[t]) = "LOSER"
  /\ flag' = [flag EXCEPT ![Opponent(t, round[t])][round[t]] = sense[t]]
  /\ pc' = [pc EXCEPT ![t] = "champ"]
  /\ UNCHANGED <<round, sense, championSense>>

\* Fault: the loser goes on as soon as it has signalled.
LoserWaitNot(t) ==
  /\ pc[t] = "champ"
  /\ pc' = [pc EXCEPT ![t] = "exit"]
  /\ UNCHANGED <<round, sense, flag, championSense>>

\* while (champion_sense != current_thd->sense); break
LoserWait(t) ==
  /\ pc[t] = "champ" /\ championSense = sense[t]
  /\ pc' = [pc EXCEPT ![t] = "exit"]
  /\ UNCHANGED <<round, sense, flag, championSense>>

\* Fault: the winner does not wait for its loser.
WinnerPassNoWait(t) ==
  /\ pc[t] = "round" /\ Role(t, round[t]) = "WINNER"
  /\ round' = [round EXCEPT ![t] = @ + 1]
  /\ UNCHANGED <<pc, sense, flag, championSense>>

\* while (round->flag != current_thd->sense); round++
WinnerPass(t) ==
  /\ pc[t] = "round" /\ Role(t, round[t]) = "WINNER"
  /\ flag[t][round[t]] = sense[t]
  /\ round' = [round EXCEPT ![t] = @ + 1]
  /\ UNCHANGED <<pc, sense, flag, championSense>>

\* Fault: a thread without a partner waits for a flag like a winner.
ByePassWaits(t) ==
  /\ pc[t] = "round" /\ Role(t, round[t]) \in {"NOOP", "DROPOUT"}
  /\ flag[t][round[t]] = sense[t]
  /\ round' = [round EXCEPT ![t] = @ + 1]
  /\ UNCHANGED <<pc, sense, flag, championSense>>

\* NOOP and DROPOUT match no branch of the loop: round++
ByePass(t) ==
  /\ pc[t] = "round" /\ Role(t, round[t]) \in {"NOOP", "DROPOUT"}
  /\ round' = [round EXCEPT ![t] = @ + 1]
  /\ UNCHANGED <<pc, sense, flag, championSense>>

\* Fault: the champion releases without waiting for the last loser.
ChampionReleaseNoWait(t) ==
  /\ pc[t] = "round" /\ Role(t, round[t]) = "CHAMPION"
  /\ championSense' = sense[t]
  /\ pc' = [pc EXCEPT ![t] = "exit"]
  /\ UNCHANGED <<round, sense, flag>>

\* while (round->flag != current_thd->sense); champion_sense = sense; break
ChampionRelease(t) ==
  /\ pc[t] = "round" /\ Role(t, round[t]) = "CHAMPION"
  /\ flag[t][round[t]] = sense[t]
  /\ championSense' = sense[t]
  /\ pc' = [pc EXCEPT ![t] = "exit"]
  /\ UNCHANGED <<round, sense, flag>>

\* current_thd->sense ^= True; return.  The local pointer dies: the model
\* puts it back to the first row.
Leave(t) ==
  /\ pc[t] = "exit"
  /\ sense' = [sense EXCEPT ![t] = ~@]
  /\ round' = [round EXCEPT ![t] = 0]
  /\ pc' = [pc EXCEPT ![t] = "out"]
  /\ UNCHANGED <<flag, championSense>>

\* One step of the loop, for a thread that is inside the barrier.
Inside(t) ==
  \/ LoserSignal(t)
  \/ LoserWait(t)
  \/ WinnerPass(t)
  \/ ByePass(t)
  \/ ChampionRelease(t)
  \/ Leave(t)

Next == \E t \in Thread : Arrive(t) \/ Inside(t)

Spec == Init /\ [][Next]_vars

\* Every thread inside keeps running (each is an OS thread that spins); that
\* a thread calls the barrier at all is up to the program and not assumed.
FairSpec == Spec /\ \A t \in Thread : WF_vars(Inside(t))

-----------------------------------------------------------------------------
\* Why it works.  A thread waits until champion_sense has its sense.
Waiting(t) == pc[t] \in {"round", "champ"} /\ sense[t] # championSense

\* The sense of a thread equals champion_sense exactly between its release
\* and its exit; nobody is on the way out unreleased.
SenseInv ==
  \A t \in Thread :
    /\ sense[t] = championSense => pc[t] \in {"champ", "exit"}
    /\ pc[t] = "exit" => sense[t] = championSense

\* A flag holds the sense of its loser from the signal to the loser's exit
\* and the opposite sense otherwise: it needs no reset.
Signalled(t, k) == pc[t] \in {"champ", "exit"} /\ round[t] = k

FlagInv ==
  \A t \in Thread, k \in Rounds :
    Role(t, k) = "LOSER" =>
      (flag[Opponent(t, k)][k] = sense[t] <=> Signalled(t, k))

\* Where the threads stand: a thread has walked only rounds it did not lose,
\* and one that waits for the champion, or leaves, stands at the round it lost
\* (the champion at the last one).
WalkInv ==
  \A t \in Thread :
    /\ t % 2^round[t] = 0
    /\ pc[t] = "out" => round[t] = 0
    /\ pc[t] = "champ" => Role(t, round[t]) = "LOSER"
    /\ pc[t] = "exit" => Role(t, round[t]) \in {"LOSER", "CHAMPION"}

\* The tournament tree: a waiting thread at round k has beaten the 2^k - 1
\* threads above it; all of them wait for the champion.
SubtreeInv ==
  \A t, u \in Thread :
    /\ Waiting(t)
    /\ t < u /\ u < t + 2^round[t]
    => pc[u] = "champ" /\ Waiting(u)

\* The inductive invariant of the barrier.  Its last part is what the code
\* relies on when thread 0 alone opens the barrier: everybody is in.
TournamentInv == SenseInv /\ FlagInv /\ WalkInv /\ SubtreeInv

-----------------------------------------------------------------------------
\* The abstract barrier: a thread inside is released once champion_sense has
\* its sense.
Status(t) ==
  IF pc[t] = "out" THEN "out"
  ELSE IF championSense = sense[t] THEN "go"
  ELSE "wait"

Abs == INSTANCE Barrier WITH status <- [t \in Thread |-> Status(t)]

\* __ompc_level_1_barrier implements the reusable barrier.
ImplementsBarrier == Abs!Spec

-----------------------------------------------------------------------------
\* A loser never overwrites a signal its winner has not consumed yet: when
\* the flag of (v, k) is written, v does not stand at or before round k of
\* an episode whose signal the flag already holds.  (The flags are never
\* reset; a fast loser that re-enters must not lap a slow winner.)
Unread(v, k) ==
  /\ pc[v] = "round" /\ round[v] <= k
  /\ flag[v][k] = sense[v]

NoSignalLost ==
  [][\A v \in Thread, k \in Rounds :
        flag'[v][k] # flag[v][k] => ~Unread(v, k)]_vars

\* round++ never runs past the row of the table: a thread that still has to
\* walk on has a row to walk to, so myrounds[k] with k >= LogN is not read.
NoRoundOverrun ==
  \A t \in Thread :
    pc[t] = "round" /\ Role(t, round[t]) \notin {"LOSER", "CHAMPION"}
      => round[t] + 1 \in Rounds

\* Once the whole team waits, every thread gets out again.
EveryoneReleased ==
  \A t \in Thread :
    (\A u \in Thread : Status(u) = "wait") ~> (pc[t] = "out")
=============================================================================
