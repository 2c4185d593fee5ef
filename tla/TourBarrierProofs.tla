-------------------------- MODULE TourBarrierProofs --------------------------
(***************************************************************************)
(* Proofs about the tournament barrier, for every N and LogMax that        *)
(* satisfy TourAssumption.                                                 *)
(***************************************************************************)
EXTENDS TourBarrier, TLAPS

-----------------------------------------------------------------------------
(* Arithmetic.                                                             *)

\* A multiple of m is, modulo 2m, either 0 or m.
LEMMA HalfStep ==
  ASSUME NEW v \in Nat, NEW m \in Nat \ {0}, v % m = 0
  PROVE  v % (2*m) \in {0, m}
<1> DEFINE q == v \div (2*m)
           r == v % (2*m)
           j == v \div m
<1>1. q \in Nat /\ r \in 0..(2*m - 1) /\ v = (2*m) * q + r
  OBVIOUS
<1>2. j \in Nat /\ v = m * j
  OBVIOUS
<1> HIDE DEF q, r, j
<1>3. r = m * (j - 2 * q)
  BY <1>1, <1>2
<1>4. j - 2 * q \in {0, 1}
  <2> DEFINE d == j - 2 * q
  <2>1. d \in Int /\ r = m * d /\ 0 <= r /\ r < 2 * m
    BY <1>1, <1>2, <1>3
  <2> HIDE DEF d
  <2>2. d >= 0
    <3> SUFFICES ASSUME d <= -1 PROVE FALSE
      BY <2>1
    <3>1. m * d <= m * (-1)
      BY <2>1
    <3> QED BY <3>1, <2>1
  <2>3. d < 2
    <3> SUFFICES ASSUME d >= 2 PROVE FALSE
      BY <2>1
    <3>1. m * d >= m * 2
      BY <2>1
    <3> QED BY <3>1, <2>1
  <2> QED BY <2>1, <2>2, <2>3 DEF d
<1> QED
  BY <1>1, <1>3, <1>4 DEF r

\* A multiple of a multiple of m is a multiple of m.
LEMMA MultipleTrans ==
  ASSUME NEW v \in Nat, NEW a \in Nat \ {0}, NEW m \in Nat \ {0},
         v % a = 0, a % m = 0
  PROVE  v % m = 0
<1> DEFINE x == v \div a
           y == a \div m
<1>1. x \in Nat /\ v = a * x
  OBVIOUS
<1>2. y \in Nat /\ a = m * y
  OBVIOUS
<1> HIDE DEF x, y
<1>3. y * x \in Nat /\ v = m * (y * x)
  BY <1>1, <1>2
<1> DEFINE z == y * x
<1>4. z \in Nat /\ v = m * z
  BY <1>3
<1> HIDE DEF z
<1> QED
  BY <1>4

\* The sum of a multiple of 2a and a is, modulo 2a, a.
LEMMA OddMultiple ==
  ASSUME NEW v \in Nat, NEW a \in Nat \ {0}, v % (2*a) = 0
  PROVE  (v + a) % (2*a) = a
<1> DEFINE x == v \div (2*a)
<1>1. x \in Nat /\ v = (2*a) * x
  OBVIOUS
<1> HIDE DEF x
<1>2. (v + a) = (2*a) * x + a
  BY <1>1
<1> QED
  BY <1>1, <1>2

\* The sum of two multiples of m is a multiple of m.
LEMMA MultipleSum ==
  ASSUME NEW v \in Nat, NEW a \in Nat, NEW m \in Nat \ {0},
         v % m = 0, a % m = 0
  PROVE  (v + a) % m = 0
<1> DEFINE x == v \div m
           y == a \div m
<1>1. x \in Nat /\ v = m * x
  OBVIOUS
<1>2. y \in Nat /\ a = m * y
  OBVIOUS
<1> HIDE DEF x, y
<1>3. v + a = m * (x + y)
  BY <1>1, <1>2
<1> DEFINE z == x + y
           w == v + a
<1>4. z \in Nat /\ w \in Nat /\ w = m * z
  BY <1>1, <1>2, <1>3
<1> HIDE DEF z, w
<1>5. w % m = 0
  BY <1>4
<1> QED
  BY <1>5 DEF w

-----------------------------------------------------------------------------
(* The table of roles.                                                     *)

\* The exit condition of the loop that computes __omp_log2_num_threads.
LEMMA LogNFact ==
  /\ LogN \in 1..LogMax
  /\ LogN \in Nat \ {0}
  /\ 2^(LogN-1) < N
  /\ N <= 2^LogN
BY TourAssumption DEF LogN

\* The shifts that occur for the rounds of the tournament.
LEMMA ShiftFact ==
  ASSUME NEW k \in Rounds
  PROVE  /\ k \in 0..LogMax
         /\ 2^k \in Nat \ {0}
         /\ 2^(k+1) \in Nat \ {0}
         /\ 2^(k+1) = 2 * 2^k
         /\ \A j \in 0..k : 2^k % 2^j = 0
<1>1. LogMax \in Nat /\ LogN \in 1..LogMax
  BY TourAssumption, LogNFact
<1>2. k \in 0..LogMax
  BY <1>1 DEF Rounds
<1>3. 2^k \in Nat \ {0} /\ 2^(k+1) = 2 * 2^k /\ \A j \in 0..k : 2^k % 2^j = 0
  BY <1>2, ShiftAssumption
<1>4. 2^(k+1) \in Nat \ {0}
  BY <1>3
<1> QED
  BY <1>2, <1>3, <1>4

\* A multiple of 2^k lost no round before k.
LEMMA MultipleLostNone ==
  ASSUME NEW v \in Nat, NEW k \in Rounds, v % 2^k = 0
  PROVE  \A j \in 0..(k-1) : ~Loses(v, j)
<1> SUFFICES ASSUME NEW j \in 0..(k-1), Loses(v, j)
             PROVE  FALSE
  OBVIOUS
<1>1. j \in Rounds /\ j+1 \in 0..k
  BY LogNFact DEF Rounds
<1>2. 2^k % 2^(j+1) = 0 /\ 2^k \in Nat \ {0}
  BY <1>1, ShiftFact
<1>3. 2^j \in Nat \ {0} /\ 2^(j+1) \in Nat \ {0}
  BY <1>1, ShiftFact
<1>4. v % 2^(j+1) = 0
  BY <1>2, <1>3, MultipleTrans
<1> QED
  BY <1>3, <1>4 DEF Loses

\* A loser has an opponent in the team and loses no other round.
LEMMA LoserFact ==
  ASSUME NEW t \in Thread, NEW k \in Rounds, Role(t, k) = "LOSER"
  PROVE  /\ t # 0
         /\ Loses(t, k)
         /\ Opponent(t, k) \in Thread
         /\ \A j \in Rounds : Role(t, j) = "LOSER" => j = k
<1>1. /\ Loses(t, k) /\ \A j \in 0..(k-1) : ~Loses(t, j)
  BY DEF Role, Lost
<1>2. t \in Nat /\ N \in Nat /\ 2^k \in Nat \ {0} /\ 2^(k+1) \in Nat \ {0} /\ t < N
  BY TourAssumption, ShiftFact DEF Thread
<1>3. t >= 2^k
  <2> DEFINE m == 2^(k+1)
             h == 2^k
  <2>1. t % m = h /\ m \in Nat \ {0} /\ h \in Nat \ {0}
    BY <1>1, <1>2 DEF Loses
  <2> HIDE DEF m, h
  <2>2. t % m <= t
    BY <1>2, <2>1
  <2>3. t >= h
    BY <2>1, <2>2
  <2> QED BY <2>3 DEF h
<1>4. t # 0 /\ Opponent(t, k) \in Thread
  BY <1>2, <1>3, TourAssumption DEF Thread, Opponent
<1>5. ASSUME NEW j \in Rounds, Role(t, j) = "LOSER"
      PROVE  j = k
  <2>1. Loses(t, j) /\ \A i \in 0..(j-1) : ~Loses(t, i)
    BY <1>5 DEF Role, Lost
  <2>2. j \in Int /\ k \in Int /\ 0 <= j /\ 0 <= k
    BY LogNFact DEF Rounds
  <2> QED BY <1>1, <2>1, <2>2
<1> QED
  BY <1>1, <1>4, <1>5

\* The partner of an even multiple of 2^k is in the team or does not exist;
\* if it is, it loses round k.
LEMMA PartnerLoses ==
  ASSUME NEW t \in Thread, NEW k \in Rounds, t % 2^(k+1) = 0, t + 2^k < N
  PROVE  t + 2^k \in Thread /\ Role(t + 2^k, k) = "LOSER"
<1> DEFINE l == t + 2^k
<1>1. t \in Nat /\ N \in Nat /\ 2^k \in Nat \ {0} /\ 2^(k+1) = 2 * 2^k
  BY TourAssumption, ShiftFact DEF Thread
<1>2. l \in Nat /\ l > 0 /\ l \in Thread
  BY <1>1 DEF Thread
<1>3. Loses(l, k)
  BY <1>1, OddMultiple DEF Loses
<1>4. l % 2^k = 0
  <2>0. k \in 0..k
    BY LogNFact DEF Rounds
  <2>1. 2^k % 2^k = 0 /\ 2^(k+1) % 2^k = 0
    <3> DEFINE h == 2^k
    <3>1. h \in Nat \ {0} /\ 2^(k+1) = 2 * h
      BY <1>1
    <3> HIDE DEF h
    <3>2. h % h = 0 /\ (2 * h) % h = 0
      BY <3>1
    <3> QED BY <3>1, <3>2 DEF h
  <2>2. t % 2^k = 0
    BY <1>1, <2>1, MultipleTrans
  <2> QED
    BY <1>1, <2>1, <2>2, MultipleSum
<1>5. \A j \in 0..(k-1) : ~Loses(l, j)
  BY <1>2, <1>4, MultipleLostNone
<1>6. Role(l, k) = "LOSER"
  BY <1>2, <1>3, <1>5 DEF Role, Lost
<1> QED
  BY <1>2, <1>6

\* The roles a thread meets that has walked to round k without losing.
LEMMA WalkerFact ==
  ASSUME NEW t \in Thread, NEW k \in Rounds, t % 2^k = 0
  PROVE  /\ Role(t, k) \in {"LOSER", "WINNER", "NOOP", "CHAMPION"}
         /\ Role(t, k) = "CHAMPION" => /\ t = 0 /\ k = LogN - 1
                                      /\ t % 2^(k+1) = 0 /\ t + 2^k < N
         /\ Role(t, k) = "WINNER" => t % 2^(k+1) = 0 /\ t + 2^k < N
         /\ Role(t, k) = "NOOP" => t % 2^(k+1) = 0 /\ ~(t + 2^k < N)
         /\ Role(t, k) \in {"WINNER", "NOOP"} => k + 1 \in Rounds
<1>1. t \in Nat /\ N \in Nat /\ t < N
  BY TourAssumption DEF Thread
<1>2. k \in Nat /\ LogN \in Nat /\ k <= LogN - 1
  BY LogNFact DEF Rounds
<1>3. 2^k \in Nat \ {0} /\ 2^(k+1) = 2 * 2^k /\ 2^(k+1) \in Nat \ {0}
  BY ShiftFact
<1>4. t % 2^(k+1) = 0 \/ Loses(t, k)
  BY <1>1, <1>3, HalfStep DEF Loses
<1>5. \A j \in 0..(k-1) : ~Loses(t, j)
  BY <1>1, MultipleLostNone
<1>6. t = 0 => t % 2^(k+1) = 0 /\ ~Loses(t, k)
  <2> DEFINE m == 2^(k+1)
  <2>1. m \in Nat \ {0}
    BY <1>3
  <2> HIDE DEF m
  <2>2. 0 % m = 0
    BY <2>1
  <2> QED BY <1>3, <2>2 DEF m, Loses
<1>7. Role(t, k) \in {"LOSER", "WINNER", "NOOP", "CHAMPION"}
  BY <1>4, <1>5 DEF Role, Lost
<1>8. Role(t, k) = "CHAMPION" => /\ t = 0 /\ k = LogN - 1
                               /\ t % 2^(k+1) = 0 /\ t + 2^k < N
  <2>1. Role(t, k) = "CHAMPION" => t = 0 /\ k = LogN - 1
    BY DEF Role, Lost
  <2> QED BY <1>3, <1>6, <2>1, LogNFact
<1>9. /\ Role(t, k) = "WINNER" => t % 2^(k+1) = 0 /\ t + 2^k < N
      /\ Role(t, k) = "NOOP" => t % 2^(k+1) = 0 /\ ~(t + 2^k < N)
  BY DEF Role, Lost
<1>10. ASSUME Role(t, k) \in {"WINNER", "NOOP"}
       PROVE  k + 1 \in Rounds
  <2> SUFFICES ASSUME k = LogN - 1 PROVE FALSE
    BY <1>2 DEF Rounds
  <2>1. t # 0
    BY <1>10 DEF Role, Lost
  <2>2. t % 2^LogN = 0 /\ t < 2^LogN /\ 2^LogN \in Nat \ {0}
    <3>1. k + 1 = LogN
      BY <1>2
    <3> QED BY <1>1, <1>3, <1>9, <1>10, <3>1, LogNFact
  <2> DEFINE m == 2^LogN
  <2>3. t % m = 0 /\ t < m /\ m \in Nat \ {0}
    BY <2>2
  <2> HIDE DEF m
  <2>4. t = 0
    BY <1>1, <2>3
  <2> QED BY <2>1, <2>4
<1> QED
  BY <1>7, <1>8, <1>9, <1>10

-----------------------------------------------------------------------------
(* The inductive invariant.                                                *)

IndInv == TypeOK /\ TournamentInv

\* A thread whose flag holds its sense has beaten its partner: the partner
\* and all that the partner has beaten wait for the champion.
LEMMA BeatenWait ==
  ASSUME IndInv, NEW t \in Thread, pc[t] = "round",
         t % 2^(round[t]+1) = 0, t + 2^round[t] < N,
         flag[t][round[t]] = sense[t]
  PROVE  /\ Waiting(t)
         /\ \A u \in Thread :
              t < u /\ u < t + 2^(round[t]+1) => pc[u] = "champ" /\ Waiting(u)
<1> DEFINE k == round[t]
           l == t + 2^k
<1>1. k \in Rounds /\ t \in Nat
  BY TourAssumption DEF IndInv, TypeOK, Thread
<1>2. l \in Thread /\ Role(l, k) = "LOSER"
  BY <1>1, PartnerLoses
<1>3. /\ 2^k \in Nat \ {0} /\ 2^(k+1) = 2 * 2^k
  BY <1>1, ShiftFact
<1>4. Opponent(l, k) = t
  BY <1>1, <1>3 DEF Opponent
<1>5. Waiting(t)
  BY DEF IndInv, TypeOK, TournamentInv, SenseInv, Waiting
<1>6. flag[t][k] = sense[l] <=> Signalled(l, k)
  BY <1>1, <1>2, <1>4 DEF IndInv, TournamentInv, FlagInv
<1>7. sense[t] \in BOOLEAN /\ sense[l] \in BOOLEAN /\ championSense \in BOOLEAN
      /\ pc[l] \in {"out", "round", "champ", "exit"}
  BY <1>2 DEF IndInv, TypeOK
<1>8. /\ sense[l] = championSense => pc[l] \in {"champ", "exit"}
      /\ pc[l] = "exit" => sense[l] = championSense
  BY <1>2 DEF IndInv, TournamentInv, SenseInv
<1>9. Signalled(l, k) /\ Waiting(l) /\ pc[l] = "champ"
  <2>1. CASE Signalled(l, k)
    BY <1>5, <1>6, <1>7, <1>8, <2>1 DEF Waiting, Signalled
  <2>2. CASE ~Signalled(l, k)
    <3>1. sense[l] = championSense
      BY <1>5, <1>6, <1>7, <2>2 DEF Waiting
    <3>2. pc[l] \in {"champ", "exit"}
      BY <3>1, <1>8
    <3>3. round[l] = k
      <4>1. pc[l] \in {"champ", "exit"} => Role(l, round[l]) \in {"LOSER", "CHAMPION"}
        BY <1>2 DEF IndInv, TournamentInv, WalkInv
      <4>2. l # 0 /\ round[l] \in Rounds
        BY <1>2, <1>1, LoserFact DEF IndInv, TypeOK
      <4>3. Role(l, round[l]) = "LOSER"
        BY <3>2, <4>1, <4>2 DEF Role
      <4> QED BY <1>1, <1>2, <4>2, <4>3, LoserFact
    <3> QED BY <2>2, <3>2, <3>3 DEF Signalled
  <2> QED BY <2>1, <2>2
<1>10. round[l] = k
  BY <1>9 DEF Signalled
<1>11. ASSUME NEW u \in Thread, t < u, u < t + 2^(k+1)
       PROVE  pc[u] = "champ" /\ Waiting(u)
  <2>1. u \in Int /\ l \in Int /\ t + 2^(k+1) = l + 2^k
    BY <1>1, <1>3 DEF Thread
  <2>2. CASE u < l
    BY <1>5, <1>11, <2>2 DEF IndInv, TournamentInv, SubtreeInv
  <2>3. CASE u = l
    BY <1>9, <2>3
  <2>4. CASE l < u
    BY <1>2, <1>9, <1>10, <1>11, <2>1, <2>4 DEF IndInv, TournamentInv, SubtreeInv
  <2> QED BY <2>1, <2>2, <2>3, <2>4
<1> QED
  BY <1>5, <1>11

\* The invariant holds at the start.
LEMMA InitInv == Init => IndInv
<1> SUFFICES ASSUME Init PROVE IndInv
  OBVIOUS
<1>1. 0 \in Rounds
  BY LogNFact DEF Rounds
<1>2. TypeOK
  BY <1>1 DEF Init, TypeOK
<1>3. SenseInv /\ SubtreeInv
  BY DEF Init, SenseInv, SubtreeInv, Waiting
<1>4. FlagInv
  BY LoserFact DEF Init, FlagInv, Signalled
<1>5. WalkInv
  <2>1. 2^0 = 1 /\ \A t \in Thread : t % 1 = 0
    BY TourAssumption DEF Thread
  <2> QED BY <2>1 DEF Init, WalkInv
<1> QED
  BY <1>2, <1>3, <1>4, <1>5 DEF IndInv, TournamentInv

\* One lemma per action: it preserves the inductive invariant.
LEMMA ArriveInv ==
  ASSUME IndInv, NEW t \in Thread, Arrive(t)
  PROVE  IndInv'
<1> USE DEF Arrive
<1>1. TypeOK'
  BY DEF IndInv, TypeOK
<1>2. sense[t] # championSense /\ round[t] = 0 /\ pc[t] = "out"
  BY DEF IndInv, TournamentInv, SenseInv, WalkInv
<1>3. pc' = [pc EXCEPT ![t] = "round"] /\ pc \in [Thread -> {"out", "round", "champ", "exit"}]
  BY DEF IndInv, TypeOK
<1>4. SenseInv'
  BY <1>2, <1>3 DEF IndInv, TournamentInv, SenseInv
<1>5. FlagInv'
  BY <1>2, <1>3 DEF IndInv, TournamentInv, FlagInv, Signalled
<1>6. WalkInv'
  BY <1>2, <1>3 DEF IndInv, TournamentInv, WalkInv
<1>7. SubtreeInv'
  <2> SUFFICES ASSUME NEW v \in Thread, NEW u \in Thread,
                      Waiting(v)', v < u, u < v + 2^round[v]
               PROVE  pc'[u] = "champ" /\ Waiting(u)'
    BY DEF SubtreeInv
  <2>1. CASE v = t
    <3>1. 2^0 = 1 /\ v \in Int /\ u \in Int
      BY TourAssumption DEF Thread
    <3>2. 2^round[v] = 1
      BY <1>2, <2>1, <3>1
    <3> QED BY <3>1, <3>2
  <2>2. CASE v # t
    BY <1>2, <1>3, <2>2 DEF IndInv, TournamentInv, SubtreeInv, Waiting
  <2> QED BY <2>1, <2>2
<1> QED
  BY <1>1, <1>4, <1>5, <1>6, <1>7 DEF IndInv, TournamentInv

\* A loser's signal raises the flag of its opponent and no other.
LEMMA LoserSignalInv ==
  ASSUME IndInv, NEW t \in Thread, LoserSignal(t)
  PROVE  IndInv'
<1> USE DEF LoserSignal
<1> DEFINE r == round[t]
           o == Opponent(t, r)
<1>1. /\ r \in Rounds /\ pc[t] = "round" /\ Role(t, r) = "LOSER"
      /\ sense[t] \in BOOLEAN
      /\ pc \in [Thread -> {"out", "round", "champ", "exit"}]
      /\ flag \in [Thread -> [Rounds -> BOOLEAN]]
  BY DEF IndInv, TypeOK
<1>2. o \in Thread
  BY <1>1, LoserFact
<1>3. /\ pc' = [pc EXCEPT ![t] = "champ"]
      /\ flag' = [flag EXCEPT ![o][r] = sense[t]]
      /\ UNCHANGED <<round, sense, championSense>>
  OBVIOUS
<1>4. TypeOK'
  BY <1>1, <1>2, <1>3 DEF IndInv, TypeOK
<1>5. sense[t] # championSense
  BY <1>1 DEF IndInv, TournamentInv, SenseInv
<1>6. SenseInv'
  BY <1>1, <1>3, <1>5 DEF IndInv, TournamentInv, SenseInv
<1>7. FlagInv'
  <2> SUFFICES ASSUME NEW l \in Thread, NEW k \in Rounds, Role(l, k) = "LOSER"
               PROVE  flag'[Opponent(l, k)][k] = sense[l] <=> Signalled(l, k)'
    BY <1>3 DEF FlagInv
  <2>1. Opponent(l, k) \in Thread
    BY LoserFact
  <2>2. flag[Opponent(l, k)][k] = sense[l] <=> Signalled(l, k)
    BY DEF IndInv, TournamentInv, FlagInv
  <2>3. CASE l = t
    <3>1. k = r
      BY <1>1, <2>3, LoserFact
    <3> QED BY <1>1, <1>2, <1>3, <2>3, <3>1 DEF Signalled
  <2>4. CASE l # t
    <3>1. ~(Opponent(l, k) = o /\ k = r)
      <4>1. CASE k = r
        <5>1. l \in Int /\ t \in Int /\ 2^r \in Nat
          BY <1>1, TourAssumption, ShiftFact DEF Thread
        <5> QED BY <2>4, <4>1, <5>1 DEF Opponent
      <4> QED BY <4>1
    <3>2. flag'[Opponent(l, k)][k] = flag[Opponent(l, k)][k]
      BY <1>1, <1>2, <1>3, <2>1, <3>1
    <3>3. Signalled(l, k)' = Signalled(l, k)
      BY <1>1, <1>3, <2>4 DEF Signalled
    <3> QED BY <2>2, <3>2, <3>3
  <2> QED BY <2>3, <2>4
<1>8. WalkInv'
  BY <1>1, <1>3 DEF IndInv, TournamentInv, WalkInv
<1>9. SubtreeInv'
  <2>1. \A v \in Thread : Waiting(v)' <=> Waiting(v)
    BY <1>1, <1>3 DEF Waiting
  <2> QED BY <1>1, <1>3, <2>1 DEF IndInv, TournamentInv, SubtreeInv
<1> QED
  BY <1>4, <1>6, <1>7, <1>8, <1>9 DEF IndInv, TournamentInv

\* A loser that sees the release is on its way out.
LEMMA LoserWaitInv ==
  ASSUME IndInv, NEW t \in Thread, LoserWait(t)
  PROVE  IndInv'
<1>1. /\ pc[t] = "champ" /\ championSense = sense[t]
      /\ pc \in [Thread -> {"out", "round", "champ", "exit"}]
      /\ pc' = [pc EXCEPT ![t] = "exit"]
      /\ UNCHANGED <<round, sense, flag, championSense>>
  BY DEF IndInv, TypeOK, LoserWait
<1>2. TypeOK'
  BY <1>1 DEF IndInv, TypeOK
<1>3. SenseInv'
  BY <1>1 DEF IndInv, TournamentInv, SenseInv
<1>4. FlagInv'
  BY <1>1 DEF IndInv, TournamentInv, FlagInv, Signalled
<1>5. WalkInv'
  BY <1>1 DEF IndInv, TournamentInv, WalkInv
<1>6. SubtreeInv'
  <2>1. \A v \in Thread : Waiting(v)' <=> Waiting(v)
    BY <1>1 DEF Waiting
  <2>2. ~Waiting(t)
    BY <1>1 DEF Waiting
  <2> QED BY <1>1, <2>1, <2>2 DEF IndInv, TournamentInv, SubtreeInv
<1> QED
  BY <1>2, <1>3, <1>4, <1>5, <1>6 DEF IndInv, TournamentInv

\* WinnerPass and ByePass: the thread goes on, its subtree doubles.
LEMMA PassInv ==
  ASSUME IndInv, NEW t \in Thread, pc[t] = "round",
         t % 2^(round[t]+1) = 0, round[t] + 1 \in Rounds,
         round' = [round EXCEPT ![t] = @ + 1],
         UNCHANGED <<pc, sense, flag, championSense>>,
         \A u \in Thread :
           t < u /\ u < t + 2^(round[t]+1) => pc[u] = "champ" /\ Waiting(u)
  PROVE  IndInv'
<1>1. /\ round' = [round EXCEPT ![t] = @ + 1] /\ round \in [Thread -> Rounds]
      /\ UNCHANGED <<pc, sense, flag, championSense>>
  BY DEF IndInv, TypeOK
<1>2. TypeOK'
  BY <1>1 DEF IndInv, TypeOK
<1>3. SenseInv'
  BY <1>1 DEF IndInv, TournamentInv, SenseInv
<1>4. FlagInv'
  <2>1. \A l \in Thread, k \in Rounds : Signalled(l, k)' <=> Signalled(l, k)
    BY <1>1 DEF Signalled
  <2> QED BY <1>1, <2>1 DEF IndInv, TournamentInv, FlagInv
<1>5. WalkInv'
  BY <1>1 DEF IndInv, TournamentInv, WalkInv
<1>6. SubtreeInv'
  <2>1. \A v \in Thread : Waiting(v)' <=> Waiting(v)
    BY <1>1 DEF Waiting
  <2> SUFFICES ASSUME NEW v \in Thread, NEW u \in Thread,
                      Waiting(v), v < u, u < v + 2^(round'[v])
               PROVE  pc[u] = "champ" /\ Waiting(u)
    BY <1>1, <2>1 DEF SubtreeInv
  <2>2. CASE v = t
    BY <1>1, <2>2
  <2>3. CASE v # t
    BY <1>1, <2>3 DEF IndInv, TournamentInv, SubtreeInv
  <2> QED BY <2>2, <2>3
<1> QED
  BY <1>2, <1>3, <1>4, <1>5, <1>6 DEF IndInv, TournamentInv

\* A winner goes on when its loser has signalled.
LEMMA WinnerPassInv ==
  ASSUME IndInv, NEW t \in Thread, WinnerPass(t)
  PROVE  IndInv'
<1>1. round[t] \in Rounds /\ t % 2^round[t] = 0
  BY DEF IndInv, TypeOK, TournamentInv, WalkInv
<1>2. Role(t, round[t]) = "WINNER"
  BY DEF WinnerPass
<1>3. t % 2^(round[t]+1) = 0 /\ t + 2^round[t] < N /\ round[t] + 1 \in Rounds
  BY <1>1, <1>2, WalkerFact
<1>4. pc[t] = "round" /\ flag[t][round[t]] = sense[t]
  BY DEF WinnerPass
<1>5. \A u \in Thread :
         t < u /\ u < t + 2^(round[t]+1) => pc[u] = "champ" /\ Waiting(u)
  BY <1>3, <1>4, BeatenWait
<1> QED
  BY <1>3, <1>4, <1>5, PassInv DEF WinnerPass

\* A thread without a partner goes on: there is nobody above it.
LEMMA ByePassInv ==
  ASSUME IndInv, NEW t \in Thread, ByePass(t)
  PROVE  IndInv'
<1>1. round[t] \in Rounds /\ t % 2^round[t] = 0
  BY DEF IndInv, TypeOK, TournamentInv, WalkInv
<1>2. Role(t, round[t]) = "NOOP"
  BY <1>1, WalkerFact DEF ByePass
<1>3. /\ t % 2^(round[t]+1) = 0 /\ ~(t + 2^round[t] < N)
      /\ round[t] + 1 \in Rounds
  BY <1>1, <1>2, WalkerFact
<1>4. pc[t] = "round"
  BY DEF ByePass
<1>5. ASSUME NEW u \in Thread, t < u, u < t + 2^(round[t]+1)
      PROVE  pc[u] = "champ" /\ Waiting(u)
  <2>1. Waiting(t)
    BY <1>4 DEF IndInv, TypeOK, TournamentInv, SenseInv, Waiting
  <2>2. u < t + 2^round[t]
    <3>1. 2^round[t] \in Nat /\ t \in Nat /\ u < N /\ u \in Nat
      BY <1>1, ShiftFact, TourAssumption DEF Thread
    <3> QED BY <1>3, <3>1, TourAssumption
  <2> QED BY <1>5, <2>1, <2>2 DEF IndInv, TournamentInv, SubtreeInv
<1> QED
  BY <1>3, <1>4, <1>5, PassInv DEF ByePass

\* The champion opens the barrier: at that moment the whole team waits.
LEMMA AllWait ==
  ASSUME IndInv, NEW t \in Thread, ChampionRelease(t)
  PROVE  /\ t = 0
         /\ \A u \in Thread : Waiting(u)
         /\ \A u \in Thread \ {t} : pc[u] = "champ"
<1>1. round[t] \in Rounds /\ t % 2^round[t] = 0
  BY DEF IndInv, TypeOK, TournamentInv, WalkInv
<1>2. Role(t, round[t]) = "CHAMPION"
  BY DEF ChampionRelease
<1>3. /\ t = 0 /\ round[t] = LogN - 1
      /\ t % 2^(round[t]+1) = 0 /\ t + 2^round[t] < N
  BY <1>1, <1>2, WalkerFact
<1>4. /\ Waiting(t)
      /\ \A u \in Thread :
           t < u /\ u < t + 2^(round[t]+1) => pc[u] = "champ" /\ Waiting(u)
  BY <1>3, BeatenWait DEF ChampionRelease
<1>5. \A u \in Thread \ {t} : t < u /\ u < t + 2^(round[t]+1)
  <2>1. round[t] + 1 = LogN
    BY <1>3, LogNFact
  <2>2. N <= 2^(round[t]+1) /\ 2^(round[t]+1) \in Nat
    BY <1>1, <2>1, ShiftFact, LogNFact
  <2> QED BY <1>3, <2>2, TourAssumption DEF Thread
<1> QED
  BY <1>3, <1>4, <1>5

\* The release turns champion_sense: everybody waited for it.
LEMMA ChampionReleaseInv ==
  ASSUME IndInv, NEW t \in Thread, ChampionRelease(t)
  PROVE  IndInv'
<1>1. /\ pc \in [Thread -> {"out", "round", "champ", "exit"}]
      /\ sense \in [Thread -> BOOLEAN] /\ championSense \in BOOLEAN
      /\ pc[t] = "round" /\ Role(t, round[t]) = "CHAMPION"
      /\ championSense' = sense[t]
      /\ pc' = [pc EXCEPT ![t] = "exit"]
      /\ UNCHANGED <<round, sense, flag>>
  BY DEF IndInv, TypeOK, ChampionRelease
<1>2. /\ \A u \in Thread : Waiting(u)
      /\ \A u \in Thread \ {t} : pc[u] = "champ"
      /\ t = 0
  BY AllWait
<1>3. \A u \in Thread : sense[u] = championSense'
  BY <1>1, <1>2 DEF Waiting
<1>4. TypeOK'
  BY <1>1 DEF IndInv, TypeOK
<1>5. SenseInv'
  BY <1>1, <1>2, <1>3 DEF SenseInv
<1>6. FlagInv'
  <2>1. \A l \in Thread, k \in Rounds :
           Role(l, k) = "LOSER" => (Signalled(l, k)' <=> Signalled(l, k))
    <3> SUFFICES ASSUME NEW l \in Thread, NEW k \in Rounds, Role(l, k) = "LOSER"
                 PROVE  Signalled(l, k)' <=> Signalled(l, k)
      OBVIOUS
    <3>1. l # t
      BY <1>2, LoserFact
    <3> QED BY <1>1, <3>1 DEF Signalled
  <2> QED BY <1>1, <2>1 DEF IndInv, TournamentInv, FlagInv
<1>7. WalkInv'
  BY <1>1 DEF IndInv, TournamentInv, WalkInv
<1>8. SubtreeInv'
  BY <1>1, <1>3 DEF SubtreeInv, Waiting
<1> QED
  BY <1>4, <1>5, <1>6, <1>7, <1>8 DEF IndInv, TournamentInv

\* A thread that leaves flips its sense: it may enter again at once.
LEMMA LeaveInv ==
  ASSUME IndInv, NEW t \in Thread, Leave(t)
  PROVE  IndInv'
<1>1. /\ pc \in [Thread -> {"out", "round", "champ", "exit"}]
      /\ sense \in [Thread -> BOOLEAN] /\ championSense \in BOOLEAN
      /\ round \in [Thread -> Rounds]
      /\ flag \in [Thread -> [Rounds -> BOOLEAN]]
      /\ pc[t] = "exit"
      /\ sense' = [sense EXCEPT ![t] = ~@]
      /\ round' = [round EXCEPT ![t] = 0]
      /\ pc' = [pc EXCEPT ![t] = "out"]
      /\ UNCHANGED <<flag, championSense>>
  BY DEF IndInv, TypeOK, Leave
<1>2. sense[t] = championSense /\ ~Waiting(t)
  BY <1>1 DEF IndInv, TournamentInv, SenseInv, Waiting
<1>3. TypeOK'
  <2>1. 0 \in Rounds
    BY LogNFact DEF Rounds
  <2> QED BY <1>1, <2>1 DEF IndInv, TypeOK
<1>4. SenseInv'
  BY <1>1, <1>2 DEF IndInv, TournamentInv, SenseInv
<1>5. FlagInv'
  <2> SUFFICES ASSUME NEW l \in Thread, NEW k \in Rounds, Role(l, k) = "LOSER"
               PROVE  flag[Opponent(l, k)][k] = sense'[l] <=> Signalled(l, k)'
    BY <1>1 DEF FlagInv
  <2>1. flag[Opponent(l, k)][k] = sense[l] <=> Signalled(l, k)
    BY DEF IndInv, TournamentInv, FlagInv
  <2>2. CASE l = t
    <3>1. round[t] = k
      <4>1. Role(t, round[t]) \in {"LOSER", "CHAMPION"}
        BY <1>1 DEF IndInv, TournamentInv, WalkInv
      <4>2. t # 0
        BY <2>2, LoserFact
      <4>3. Role(t, round[t]) = "LOSER"
        BY <4>1, <4>2 DEF Role
      <4> QED BY <1>1, <2>2, <4>3, LoserFact
    <3>2. flag[Opponent(l, k)][k] = sense[l]
      BY <1>1, <2>1, <2>2, <3>1 DEF Signalled
    <3>3. sense'[l] # sense[l] /\ ~Signalled(l, k)'
      BY <1>1, <2>2 DEF Signalled
    <3> QED BY <3>2, <3>3
  <2>3. CASE l # t
    BY <1>1, <2>1, <2>3 DEF Signalled
  <2> QED BY <2>2, <2>3
<1>6. WalkInv'
  <2>1. 2^0 = 1 /\ t % 1 = 0
    BY TourAssumption DEF Thread
  <2> QED BY <1>1, <2>1 DEF IndInv, TournamentInv, WalkInv
<1>7. SubtreeInv'
  <2> SUFFICES ASSUME NEW v \in Thread, NEW u \in Thread,
                      Waiting(v)', v < u, u < v + 2^(round'[v])
               PROVE  pc'[u] = "champ" /\ Waiting(u)'
    BY DEF SubtreeInv
  <2>1. v # t
    BY <1>1 DEF Waiting
  <2>2. Waiting(v) /\ u < v + 2^round[v]
    BY <1>1, <2>1 DEF Waiting
  <2>3. pc[u] = "champ" /\ Waiting(u)
    BY <2>2 DEF IndInv, TournamentInv, SubtreeInv
  <2> QED BY <1>1, <1>2, <2>3 DEF Waiting
<1> QED
  BY <1>3, <1>4, <1>5, <1>6, <1>7 DEF IndInv, TournamentInv

\* The invariant is inductive.
LEMMA NextInv == IndInv /\ [Next]_vars => IndInv'
<1> SUFFICES ASSUME IndInv, [Next]_vars PROVE IndInv'
  OBVIOUS
<1>1. ASSUME NEW t \in Thread, Arrive(t) PROVE IndInv'
  BY <1>1, ArriveInv
<1>2. ASSUME NEW t \in Thread, LoserSignal(t) PROVE IndInv'
  BY <1>2, LoserSignalInv
<1>3. ASSUME NEW t \in Thread, LoserWait(t) PROVE IndInv'
  BY <1>3, LoserWaitInv
<1>4. ASSUME NEW t \in Thread, WinnerPass(t) PROVE IndInv'
  BY <1>4, WinnerPassInv
<1>5. ASSUME NEW t \in Thread, ByePass(t) PROVE IndInv'
  BY <1>5, ByePassInv
<1>6. ASSUME NEW t \in Thread, ChampionRelease(t) PROVE IndInv'
  BY <1>6, ChampionReleaseInv
<1>7. ASSUME NEW t \in Thread, Leave(t) PROVE IndInv'
  BY <1>7, LeaveInv
<1>8. CASE UNCHANGED vars
  BY <1>8 DEF vars, IndInv, TypeOK, TournamentInv, SenseInv, FlagInv, WalkInv,
              SubtreeInv, Waiting, Signalled
<1> QED
  BY <1>1, <1>2, <1>3, <1>4, <1>5, <1>6, <1>7, <1>8 DEF Next, Inside

-----------------------------------------------------------------------------
(* The theorems.                                                           *)

\* The invariant holds of every reachable state.
LEMMA Invariance == Spec => []IndInv
BY InitInv, NextInv, PTL DEF Spec

\* The locals and shared words of __ompc_level_1_barrier keep their types;
\* the row of myrounds a thread stands at exists in the table.
THEOREM TypeCorrect == Spec => []TypeOK
BY Invariance, PTL DEF IndInv

\* The sense-reversing argument of the barrier: flags, senses and the
\* tournament tree are consistent in every reachable state.
THEOREM TournamentCorrect == Spec => []TournamentInv
BY Invariance, PTL DEF IndInv

\* "round++" in __ompc_level_1_barrier never leaves rounds[vpid].
THEOREM RoundsInBounds == Spec => []NoRoundOverrun
<1>1. IndInv => NoRoundOverrun
  <2> SUFFICES ASSUME IndInv, NEW t \in Thread, pc[t] = "round",
                      Role(t, round[t]) \notin {"LOSER", "CHAMPION"}
               PROVE  round[t] + 1 \in Rounds
    BY DEF NoRoundOverrun
  <2>1. round[t] \in Rounds /\ t % 2^round[t] = 0
    BY DEF IndInv, TypeOK, TournamentInv, WalkInv
  <2> QED BY <2>1, WalkerFact
<1> QED
  BY <1>1, Invariance, PTL

\* A flag is written only when its reader does not still need the value it
\* holds, although the flags are never reset.
THEOREM SignalsKept == Spec => NoSignalLost
<1> DEFINE Kept == \A v \in Thread, k \in Rounds :
                     flag'[v][k] # flag[v][k] => ~Unread(v, k)
<1>1. IndInv /\ [Next]_vars => [Kept]_vars
  <2> SUFFICES ASSUME IndInv, Next,
                      NEW v \in Thread, NEW k \in Rounds,
                      flag'[v][k] # flag[v][k]
               PROVE  ~Unread(v, k)
    OBVIOUS
  <2>1. PICK t \in Thread : LoserSignal(t)
    BY DEF Next, Inside, Arrive, LoserWait, WinnerPass, ByePass,
           ChampionRelease, Leave
  <2>2. /\ pc[t] = "round" /\ Role(t, round[t]) = "LOSER"
        /\ round[t] \in Rounds
        /\ flag' = [flag EXCEPT ![Opponent(t, round[t])][round[t]] = sense[t]]
        /\ flag \in [Thread -> [Rounds -> BOOLEAN]]
        /\ sense \in [Thread -> BOOLEAN] /\ championSense \in BOOLEAN
    BY <2>1 DEF LoserSignal, IndInv, TypeOK
  <2>3. Opponent(t, round[t]) = v /\ round[t] = k
    BY <2>2
  <2>4. flag[v][k] # sense[t]
    BY <2>2, <2>3 DEF IndInv, TournamentInv, FlagInv, Signalled
  <2>5. pc[v] = "round" => sense[v] = sense[t]
    BY <2>2 DEF IndInv, TournamentInv, SenseInv
  <2> QED BY <2>4, <2>5 DEF Unread
<1> QED
  BY <1>1, Invariance, PTL DEF Spec, NoSignalLost

\* __ompc_level_1_barrier is a reusable barrier: initial states map to the
\* initial state of Barrier, every step to a step of Barrier or a stutter.
THEOREM Refinement == Spec => ImplementsBarrier
<1> DEFINE st == [t \in Thread |-> Status(t)]
<1>1. Init => Abs!Init
  BY DEF Init, Abs!Init, Status
<1>2. IndInv /\ [Next]_vars => [Abs!Next]_st
  <2> SUFFICES ASSUME IndInv, [Next]_vars PROVE [Abs!Next]_st
    OBVIOUS
  <2> USE DEF Status
  <2>0. /\ pc \in [Thread -> {"out", "round", "champ", "exit"}]
        /\ sense \in [Thread -> BOOLEAN] /\ championSense \in BOOLEAN
    BY DEF IndInv, TypeOK
  <2>1. ASSUME NEW t \in Thread, Arrive(t) PROVE Abs!Arrive(t)
    <3>1. sense[t] # championSense
      BY <2>1 DEF Arrive, IndInv, TournamentInv, SenseInv
    <3> QED BY <2>0, <2>1, <3>1 DEF Arrive, Abs!Arrive
  <2>2. ASSUME NEW t \in Thread,
               LoserSignal(t) \/ LoserWait(t) \/ WinnerPass(t) \/ ByePass(t)
        PROVE  UNCHANGED st
    <3>1. \A u \in Thread : Status(u)' = Status(u)
      BY <2>0, <2>2 DEF LoserSignal, LoserWait, WinnerPass, ByePass
    <3> QED BY <3>1
  <2>3. ASSUME NEW t \in Thread, ChampionRelease(t) PROVE Abs!Release
    <3>1. \A u \in Thread : Status(u) = "wait"
      BY <2>3, AllWait DEF Waiting
    <3>2. \A u \in Thread : Status(u)' = "go"
      <4>1. \A u \in Thread : sense[u] = sense[t]
        BY <2>0, <2>3, AllWait DEF Waiting
      <4>2. /\ pc' = [pc EXCEPT ![t] = "exit"] /\ sense' = sense
            /\ championSense' = sense[t]
        BY <2>3 DEF ChampionRelease
      <4>3. \A u \in Thread : pc[u] # "out"
        BY <3>1
      <4> QED BY <2>0, <4>1, <4>2, <4>3
    <3> QED BY <3>1, <3>2 DEF Abs!Release
  <2>4. ASSUME NEW t \in Thread, Leave(t) PROVE Abs!Leave(t)
    <3>1. sense[t] = championSense
      BY <2>4 DEF Leave, IndInv, TournamentInv, SenseInv
    <3> QED BY <2>0, <2>4, <3>1 DEF Leave, Abs!Leave
  <2>5. CASE UNCHANGED vars
    <3>1. \A u \in Thread : Status(u)' = Status(u)
      BY <2>5 DEF vars
    <3> QED BY <3>1
  <2> QED
    BY <2>1, <2>2, <2>3, <2>4, <2>5 DEF Next, Inside, Abs!Next
<1> QED
  BY <1>1, <1>2, Invariance, PTL DEF Spec, ImplementsBarrier, Abs!Spec
=============================================================================
