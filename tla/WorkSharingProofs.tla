------------------------- MODULE WorkSharingProofs -------------------------
(***************************************************************************)
(* Proofs about loops and singles, for every team size and every set of    *)
(* programs that are Orderly: every piece of work is run once, all of it   *)
(* before its region ends, and all of one construct before what follows    *)
(* its barrier.                                                            *)
(***************************************************************************)
EXTENDS WorkSharing, FiniteSetTheorems, TLAPS

\* The j-th iteration of a loop.
Nth(c, j) == c.lower + j * c.incr

\* Division.
LEMMA Divides ==
  ASSUME NEW a \in Nat, NEW b \in Nat, b > 0
  PROVE  /\ a \div b \in Nat /\ a % b \in 0..(b-1)
         /\ a = b * (a \div b) + (a % b)
  OBVIOUS

LEMMA ModZero ==
  ASSUME NEW a \in Nat, NEW b \in Nat, b > 0, a % b = 0
  PROVE  \E j \in Nat : a = j * b
<1>1. a \div b \in Nat /\ a = b * (a \div b) + (a % b)
  BY Divides
<1>2. a = (a \div b) * b
  BY <1>1
<1> QED BY <1>1, <1>2

LEMMA ZeroMod ==
  ASSUME NEW j \in Nat, NEW b \in Nat, b > 0
  PROVE  (j * b) % b = 0
  OBVIOUS

\* Products keep the order of naturals.
LEMMA Scale ==
  ASSUME NEW a \in Int, NEW b \in Int, NEW m \in Nat, m > 0
  PROVE  /\ a * m <= b * m <=> a <= b
         /\ a * m < b * m <=> a < b
         /\ a * m = b * m <=> a = b
  OBVIOUS

\* The iterations from the a-th up to the one before the b-th of an upward loop.
LEMMA Upward ==
  ASSUME NEW lower \in Int, NEW upper \in Int, NEW incr \in Nat, incr > 0, NEW i
  PROVE  i \in Iterations(lower, upper, incr) <=>
           \E j \in Nat : i = lower + j * incr /\ i <= upper
<1>1. ASSUME i \in Iterations(lower, upper, incr)
      PROVE  \E j \in Nat : i = lower + j * incr /\ i <= upper
  <2>1. i \in Int /\ lower <= i /\ i <= upper /\ (i - lower) % incr = 0
    BY <1>1 DEF Iterations
  <2>2. PICK a : a = i - lower
    OBVIOUS
  <2>3. a \in Nat /\ a % incr = 0
    BY <2>1, <2>2
  <2>4. PICK j \in Nat : a = j * incr
    BY <2>3, ModZero
  <2> QED BY <2>1, <2>2, <2>4
<1>2. ASSUME NEW j \in Nat, i = lower + j * incr, i <= upper
      PROVE  i \in Iterations(lower, upper, incr)
  <2>1. PICK a : a = j * incr
    OBVIOUS
  <2>2. a \in Nat /\ a % incr = 0 /\ i = lower + a /\ i - lower = a
    BY <1>2, <2>1, ZeroMod
  <2>3. i \in lower..upper
    BY <1>2, <2>2
  <2> QED BY <2>2, <2>3 DEF Iterations
<1> QED BY <1>1, <1>2

LEMMA Downward ==
  ASSUME NEW lower \in Int, NEW upper \in Int, NEW incr \in Int, incr < 0, NEW i
  PROVE  i \in Iterations(lower, upper, incr) <=>
           \E j \in Nat : i = lower + j * incr /\ i >= upper
<1>0. PICK down \in Nat : down = -incr /\ down > 0
  OBVIOUS
<1>1. ASSUME i \in Iterations(lower, upper, incr)
      PROVE  \E j \in Nat : i = lower + j * incr /\ i >= upper
  <2>1. i \in Int /\ upper <= i /\ i <= lower /\ (lower - i) % down = 0
    BY <1>0, <1>1 DEF Iterations
  <2>2. PICK a : a = lower - i
    OBVIOUS
  <2>3. a \in Nat /\ a % down = 0
    BY <2>1, <2>2
  <2>4. PICK j \in Nat : a = j * down
    BY <1>0, <2>3, ModZero
  <2>5. j * down = -(j * incr)
    BY <1>0
  <2> QED BY <2>1, <2>2, <2>4, <2>5
<1>2. ASSUME NEW j \in Nat, i = lower + j * incr, i >= upper
      PROVE  i \in Iterations(lower, upper, incr)
  <2>1. PICK a : a = j * down
    OBVIOUS
  <2>2. a = -(j * incr)
    BY <1>0, <2>1
  <2>3. a \in Nat /\ a % down = 0 /\ lower - i = a
    BY <1>0, <1>2, <2>1, <2>2, ZeroMod
  <2>4. i \in upper..lower
    BY <1>2, <2>3
  <2> QED BY <1>0, <2>3, <2>4 DEF Iterations
<1> QED BY <1>1, <1>2

-----------------------------------------------------------------------------
(* Loops. A loop is seen through the numbers of its iterations.            *)

Loops == {c \in Construct : c.kind # "single"}

\* The limit of a loop has not been passed.
Within(c, i) == IF c.incr > 0 THEN i <= c.upper ELSE i >= c.upper

LEMMA LoopFields ==
  ASSUME NEW c \in Construct
  PROVE  c.lower \in Int /\ c.upper \in Int /\ c.incr \in Int /\ c.incr # 0
         /\ c.chunk \in Nat /\ c.chunk > 0 /\ c.nowait \in BOOLEAN
         /\ c.kind \in {"even", "static", "dynamic", "single"}
BY DEF Construct

\* Every number stands for one iteration.
LEMMA NthOnce ==
  ASSUME NEW c \in Construct, NEW j \in Int, NEW k \in Int
  PROVE  Nth(c, j) \in Int /\ (Nth(c, j) = Nth(c, k) <=> j = k)
<1>1. c.lower \in Int /\ c.incr \in Int /\ c.incr # 0
  BY LoopFields
<1>2. PICK m, l : m = c.incr /\ l = c.lower
  OBVIOUS
<1>3. m \in Int /\ m # 0 /\ l \in Int
  BY <1>1, <1>2
<1>4. j * m = k * m => j = k
  BY <1>3
<1>5. l + j * m \in Int /\ (l + j * m = l + k * m <=> j * m = k * m)
  BY <1>3
<1> QED BY <1>2, <1>4, <1>5 DEF Nth

LEMMA WorkIs ==
  ASSUME NEW c \in Loops, NEW i
  PROVE  i \in Work(c) <=> \E j \in Nat : i = Nth(c, j) /\ Within(c, i)
<1>1. /\ c.lower \in Int /\ c.upper \in Int /\ c.incr \in Int /\ c.incr # 0 /\ c.kind # "single"
  BY LoopFields DEF Loops
<1>2. CASE c.incr > 0
  <2>1. c.incr \in Nat
    BY <1>1, <1>2
  <2>2. i \in Iterations(c.lower, c.upper, c.incr) <=>
          \E j \in Nat : i = c.lower + j * c.incr /\ i <= c.upper
    BY <1>1, <1>2, <2>1, Upward
  <2> QED BY <1>1, <1>2, <2>2 DEF Work, Nth, Within
<1>3. CASE c.incr < 0
  <2>1. i \in Iterations(c.lower, c.upper, c.incr) <=>
          \E j \in Nat : i = c.lower + j * c.incr /\ i >= c.upper
    BY <1>1, <1>3, Downward
  <2>2. ~(c.incr > 0)
    BY <1>1, <1>3
  <2> QED BY <1>1, <2>1, <2>2 DEF Work, Nth, Within
<1> QED BY <1>1, <1>2, <1>3

\* The iterations a block has: those from the a-th up to the one before the b-th.
LEMMA BlockIs ==
  ASSUME NEW c \in Loops, NEW a \in Nat, NEW b \in Int, NEW low, NEW high,
         low = Nth(c, a), high = Nth(c, b - 1), NEW i
  PROVE  i \in Iterations(low, Clip(high, c), c.incr) <=>
           \E j \in Nat : a <= j /\ j < b /\ i = Nth(c, j) /\ Within(c, i)
<1>1. /\ c.lower \in Int /\ c.upper \in Int /\ c.incr \in Int /\ c.incr # 0 /\ c.kind # "single"
  BY LoopFields DEF Loops
<1>2. PICK L, m, cut : L = c.lower /\ m = c.incr /\ cut = Clip(high, c)
  OBVIOUS
<1>3. /\ L \in Int /\ m \in Int /\ m # 0
      /\ low = L + a * m /\ high = L + (b - 1) * m
      /\ \A j \in Int : Nth(c, j) = L + j * m
  BY <1>1, <1>2 DEF Nth
<1>4. low \in Int /\ high \in Int /\ cut \in Int
  BY <1>1, <1>2, <1>3 DEF Clip
<1>5. CASE m > 0
  <2>1. \A x \in Int : x <= cut <=> x <= high /\ Within(c, x)
    BY <1>1, <1>2, <1>4, <1>5 DEF Clip, Within
  <2>2. i \in Iterations(low, cut, m) <=> \E k \in Nat : i = low + k * m /\ i <= cut
    <3>1. m \in Nat
      BY <1>3, <1>5
    <3>2. low \in Int /\ cut \in Int
      BY <1>4
    <3> QED BY ONLY <3>1, <3>2, <1>5, Upward
  <2>3. ASSUME NEW k \in Nat, i = low + k * m, i <= cut
        PROVE  \E j \in Nat : a <= j /\ j < b /\ i = Nth(c, j) /\ Within(c, i)
    <3>1. PICK j \in Nat : j = a + k
      OBVIOUS
    <3>2. i = L + j * m
      BY <1>3, <2>3, <3>1
    <3>3. i \in Int /\ i <= high /\ Within(c, i)
      BY <1>3, <1>4, <2>1, <2>3
    <3>4. j * m <= (b - 1) * m
      <4>1. PICK x, y : x = j * m /\ y = (b - 1) * m
        OBVIOUS
      <4>2. x \in Int /\ y \in Int /\ L \in Int
        BY <1>3, <4>1
      <4>3. L + x <= L + y
        BY <1>3, <3>2, <3>3, <4>1
      <4>4. x <= y
        BY <4>2, <4>3
      <4> QED BY <4>1, <4>4
    <3>5. j <= b - 1
      BY <1>3, <1>5, <3>4
    <3>6. a <= j /\ j < b
      BY <3>1, <3>5
    <3>7. i = Nth(c, j)
      BY <1>3, <3>2
    <3> QED BY <3>3, <3>6, <3>7
  <2>4. ASSUME NEW j \in Nat, a <= j, j < b, i = Nth(c, j), Within(c, i)
        PROVE  \E k \in Nat : i = low + k * m /\ i <= cut
    <3>1. PICK k \in Nat : j = a + k
      BY <2>4
    <3>2. i = L + j * m /\ i = low + k * m
      BY <1>3, <2>4, <3>1
    <3>3. j * m <= (b - 1) * m
      BY <1>3, <1>5, <2>4
    <3>4. i \in Int /\ i <= high
      BY <1>3, <3>2, <3>3
    <3> QED BY <2>1, <2>4, <3>2, <3>4
  <2> QED BY <1>2, <2>2, <2>3, <2>4
<1>6. CASE m < 0
  <2>1. \A x \in Int : x >= cut <=> x >= high /\ Within(c, x)
    BY <1>1, <1>2, <1>4, <1>6 DEF Clip, Within
  <2>2. i \in Iterations(low, cut, m) <=> \E k \in Nat : i = low + k * m /\ i >= cut
    <3>1. m \in Int
      BY <1>3
    <3>2. low \in Int /\ cut \in Int
      BY <1>4
    <3> QED BY ONLY <3>1, <3>2, <1>6, Downward
  <2>3. ASSUME NEW k \in Nat, i = low + k * m, i >= cut
        PROVE  \E j \in Nat : a <= j /\ j < b /\ i = Nth(c, j) /\ Within(c, i)
    <3>1. PICK j \in Nat : j = a + k
      OBVIOUS
    <3>2. i = L + j * m
      BY <1>3, <2>3, <3>1
    <3>3. i \in Int /\ i >= high /\ Within(c, i)
      BY <1>3, <1>4, <2>1, <2>3
    <3>4. j * m >= (b - 1) * m
      <4>1. PICK x, y : x = j * m /\ y = (b - 1) * m
        OBVIOUS
      <4>2. x \in Int /\ y \in Int /\ L \in Int
        BY <1>3, <4>1
      <4>3. L + x >= L + y
        BY <1>3, <3>2, <3>3, <4>1
      <4>4. x >= y
        BY <4>2, <4>3
      <4> QED BY <4>1, <4>4
    <3>5. j <= b - 1
      BY <1>3, <1>6, <3>4
    <3>6. a <= j /\ j < b
      BY <3>1, <3>5
    <3>7. i = Nth(c, j)
      BY <1>3, <3>2
    <3> QED BY <3>3, <3>6, <3>7
  <2>4. ASSUME NEW j \in Nat, a <= j, j < b, i = Nth(c, j), Within(c, i)
        PROVE  \E k \in Nat : i = low + k * m /\ i >= cut
    <3>1. PICK k \in Nat : j = a + k
      BY <2>4
    <3>2. i = L + j * m /\ i = low + k * m
      BY <1>3, <2>4, <3>1
    <3>3. j * m >= (b - 1) * m
      BY <1>3, <1>6, <2>4
    <3>4. i \in Int /\ i >= high
      BY <1>3, <3>2, <3>3
    <3> QED BY <2>1, <2>4, <3>2, <3>4
  <2> QED BY <1>2, <2>2, <2>3, <2>4
<1> QED BY <1>3, <1>5, <1>6

LEMMA WithinDown ==
  ASSUME NEW c \in Loops, NEW j \in Int, NEW k \in Int, k <= j, Within(c, Nth(c, j))
  PROVE  Within(c, Nth(c, k))
<1>1. /\ c.lower \in Int /\ c.upper \in Int /\ c.incr \in Int /\ c.incr # 0
  BY LoopFields DEF Loops
<1>2. PICK L, m, U : L = c.lower /\ m = c.incr /\ U = c.upper
  OBVIOUS
<1>3. CASE m > 0
  <2>1. k * m <= j * m
    BY <1>1, <1>2, <1>3
  <2>2. L + j * m <= U
    BY <1>2, <1>3 DEF Within, Nth
  <2>3. L + k * m <= U
    BY <1>1, <1>2, <2>1, <2>2
  <2> QED BY <1>2, <1>3, <2>3 DEF Within, Nth
<1>4. CASE m < 0
  <2>1. k * m >= j * m
    BY <1>1, <1>2, <1>4
  <2>2. ~(m > 0)
    BY <1>1, <1>2, <1>4
  <2>3. L + j * m >= U
    BY <1>2, <2>2 DEF Within, Nth
  <2>4. L + k * m >= U
    BY <1>1, <1>2, <2>1, <2>3
  <2> QED BY <1>2, <2>2, <2>4 DEF Within, Nth
<1> QED BY <1>1, <1>2, <1>3, <1>4

-----------------------------------------------------------------------------
(* OMP_SCHED_STATIC_EVEN.                                                  *)

LEMMA CountUp ==
  ASSUME NEW d \in Nat, NEW m \in Nat, d > 0, m > 0, NEW j \in Nat,
         NEW n, n = Quotient(d, m) + (IF Remainder(d, m) > 0 THEN 1 ELSE 0)
  PROVE  n \in Int /\ (j * m < d <=> j < n)
<1>1. PICK q, r : q = d \div m /\ r = d % m
  OBVIOUS
<1>2. q \in Nat /\ r \in 0..(m - 1) /\ d = m * q + r
  BY <1>1, Divides
<1>3. Quotient(d, m) = q
  BY <1>1 DEF Quotient
<1>4. Remainder(d, m) = r
  BY <1>2, <1>3 DEF Remainder
<1>5. n = q + (IF r > 0 THEN 1 ELSE 0)
  BY <1>3, <1>4
<1>6. CASE r > 0
  <2>1. n = q + 1
    BY <1>5, <1>6
  <2>2. j <= q => j * m <= q * m
    BY <1>2
  <2>3. j >= q + 1 => j * m >= (q + 1) * m
    BY <1>2
  <2>4. (q + 1) * m = m * q + m
    BY <1>2
  <2>5. q * m = m * q
    BY <1>2
  <2> QED BY <1>2, <1>6, <2>1, <2>2, <2>3, <2>4, <2>5
<1>7. CASE r = 0
  <2>1. n = q
    BY <1>2, <1>5, <1>7
  <2>2. j * m < q * m <=> j < q
    BY <1>2
  <2>3. d = q * m
    BY <1>2, <1>7
  <2> QED BY <1>2, <2>1, <2>2, <2>3
<1> QED BY <1>2, <1>6, <1>7

LEMMA CountDown ==
  ASSUME NEW e \in Int, NEW w \in Int, e < 0, w < 0, (-e) % (-w) = 0, NEW j \in Nat,
         NEW n, n = Quotient(e, w) + (IF Remainder(e, w) > 0 THEN 1 ELSE 0)
  PROVE  n \in Int /\ (j * (-w) < -e <=> j < n)
<1>0. PICK d, m : d = -e /\ m = -w
  OBVIOUS
<1>1. d \in Nat /\ m \in Nat /\ d > 0 /\ m > 0 /\ d % m = 0
  BY <1>0
<1>2. PICK q : q = d \div m
  OBVIOUS
<1>3. q \in Nat /\ d = m * q
  BY <1>1, <1>2, Divides
<1>4. Quotient(e, w) = q
  BY <1>0, <1>2 DEF Quotient
<1>5. Remainder(e, w) = 0
  <2>1. w * q = -(m * q)
    BY <1>0, <1>3
  <2> QED BY <1>0, <1>3, <1>4, <2>1 DEF Remainder
<1>6. n = q
  BY <1>3, <1>4, <1>5
<1>7. j * m < q * m <=> j < q
  BY <1>1, <1>3
<1> QED BY <1>0, <1>1, <1>3, <1>6, <1>7

\* num_iter is the number of iterations.
LEMMA CountIs ==
  ASSUME NEW c \in Loops, NoRest(c), Within(c, c.lower), NEW j \in Nat
  PROVE  NumIter(c) \in Int /\ (Within(c, Nth(c, j)) <=> j < NumIter(c))
<1>1. /\ c.lower \in Int /\ c.upper \in Int /\ c.incr \in Int /\ c.incr # 0
  BY LoopFields DEF Loops
<1>2. PICK L, U, n : L = c.lower /\ U = c.upper /\ n = NumIter(c)
  OBVIOUS
<1>3. CASE c.incr > 0
  <2>1. PICK d, m : d = U - L + 1 /\ m = c.incr
    OBVIOUS
  <2>2. d \in Nat /\ d > 0 /\ m \in Nat /\ m > 0
    BY <1>1, <1>2, <1>3, <2>1 DEF Within
  <2>3. n = Quotient(d, m) + (IF Remainder(d, m) > 0 THEN 1 ELSE 0)
    BY <1>2, <1>3, <2>1 DEF NumIter
  <2>4. n \in Int /\ (j * m < d <=> j < n)
    BY <2>2, <2>3, CountUp
  <2>5. PICK p : p = j * m
    OBVIOUS
  <2>6. p \in Int /\ (L + p <= U <=> p < d)
    BY <1>1, <1>2, <2>1, <2>2, <2>5
  <2>7. Within(c, Nth(c, j)) <=> L + p <= U
    BY <1>2, <1>3, <2>1, <2>5 DEF Within, Nth
  <2> QED BY <1>2, <2>4, <2>5, <2>6, <2>7
<1>4. CASE c.incr < 0
  <2>0. ~(c.incr > 0)
    BY <1>1, <1>4
  <2>1. PICK d, m : d = L - U + 1 /\ m = -c.incr
    OBVIOUS
  <2>2. d \in Nat /\ d > 0 /\ m \in Nat /\ m > 0 /\ U <= L
    BY <1>1, <1>2, <1>4, <2>0, <2>1 DEF Within
  <2>3. d % m = 0
    BY <1>2, <1>4, <2>1, <2>2 DEF NoRest
  <2>4. -d = U - L + (-1) /\ -m = c.incr
    BY <1>1, <1>2, <2>1
  <2>5. PICK e, w : e = -d /\ w = -m
    OBVIOUS
  <2>11. n = Quotient(e, w) + (IF Remainder(e, w) > 0 THEN 1 ELSE 0)
    BY <1>2, <2>0, <2>4, <2>5 DEF NumIter
  <2>6. n \in Int /\ (j * m < d <=> j < n)
    <3>1. /\ e \in Int /\ w \in Int /\ e < 0 /\ w < 0 /\ (-e) % (-w) = 0
          /\ -e = d /\ -w = m
      BY <2>2, <2>3, <2>5
    <3>2. n \in Int /\ (j * (-w) < -e <=> j < n)
      BY ONLY <2>11, <3>1, j \in Nat, CountDown
    <3> QED BY <3>1, <3>2
  <2>7. PICK p : p = j * m
    OBVIOUS
  <2>8. j * c.incr = -p
    BY <1>1, <2>1, <2>7
  <2>9. p \in Int /\ (L + (-p) >= U <=> p < d)
    BY <1>1, <1>2, <2>1, <2>2, <2>7
  <2>10. Within(c, Nth(c, j)) <=> L + (-p) >= U
    BY <1>2, <2>0, <2>8 DEF Within, Nth
  <2> QED BY <1>2, <2>6, <2>7, <2>9, <2>10
<1> QED BY <1>1, <1>3, <1>4

\* The number of the first iteration of thread t's block.
EvenStart(n, t) ==
  IF n > T THEN t * (n \div T) + (IF t < n % T THEN t ELSE n % T) ELSE t

LEMMA ThreadNat ==
  T \in Nat /\ T > 1 /\ \A t \in Thread : t \in Nat /\ t < T
BY WorkSharingAssumption DEF Thread

LEMMA EvenStep ==
  ASSUME NEW n \in Int, NEW t \in Nat
  PROVE  /\ EvenStart(n, t) \in Nat /\ EvenStart(n, t + 1) \in Nat
         /\ n > T => EvenStart(n, t + 1) = EvenStart(n, t) +
                       (IF t < n % T THEN (n \div T) + 1 ELSE n \div T)
         /\ ~(n > T) => EvenStart(n, t + 1) = EvenStart(n, t) + 1
<1>1. CASE n > T
  <2>1. PICK q, r : q = n \div T /\ r = n % T
    OBVIOUS
  <2>2. q \in Nat /\ r \in Nat
    BY <1>1, <2>1, Divides, ThreadNat
  <2>3. (t + 1) * q = t * q + q /\ t * q \in Nat
    BY <2>2
  <2>4. PICK x, y : x = t * q /\ y = (t + 1) * q
    OBVIOUS
  <2>5. EvenStart(n, t) = x + (IF t < r THEN t ELSE r)
    BY <1>1, <2>1, <2>4 DEF EvenStart
  <2>6. EvenStart(n, t + 1) = y + (IF t + 1 < r THEN t + 1 ELSE r)
    BY <1>1, <2>1, <2>4 DEF EvenStart
  <2>7. x \in Nat /\ y = x + q
    BY <2>3, <2>4
  <2>8. EvenStart(n, t + 1) = EvenStart(n, t) + (IF t < r THEN q + 1 ELSE q)
    BY <2>2, <2>5, <2>6, <2>7
  <2>9. EvenStart(n, t) \in Nat /\ EvenStart(n, t + 1) \in Nat
    BY <2>2, <2>5, <2>6, <2>7
  <2> QED BY <1>1, <2>1, <2>8, <2>9
<1>2. CASE ~(n > T)
  BY <1>2 DEF EvenStart
<1> QED BY <1>1, <1>2

LEMMA EvenIs ==
  ASSUME NEW c \in Loops, NEW t \in Thread, NumIter(c) \in Int, NEW i
  PROVE  i \in EvenBlock(t, c) <=>
           \E j \in Nat : /\ EvenStart(NumIter(c), t) <= j /\ j < EvenStart(NumIter(c), t + 1)
                          /\ i = Nth(c, j) /\ Within(c, i)
<1>1. PICK n : n = NumIter(c)
  OBVIOUS
<1>2. PICK many, q, r : /\ many = (n > T) /\ many \in BOOLEAN
                        /\ r = (IF many THEN n % T ELSE 0)
                        /\ q = (IF many THEN n \div T ELSE 1)
  <2>1. (n > T) \in BOOLEAN
    OBVIOUS
  <2> QED BY <2>1
<1>3. PICK size : size = (IF t < r THEN q + 1 ELSE q)
  OBVIOUS
<1>4. PICK a, b : a = t * size + (IF t < r THEN 0 ELSE r) /\ b = a + size
  OBVIOUS
<1>5. PICK low, high : low = c.lower + a * c.incr /\ high = low + (size - 1) * c.incr
  OBVIOUS
<1>6. EvenBlock(t, c) = Iterations(low, Clip(high, c), c.incr)
  BY <1>1, <1>2, <1>3, <1>4, <1>5 DEF EvenBlock
<1>7. t \in Nat /\ t < T /\ T \in Nat /\ T > 1 /\ n \in Int
  BY <1>1, ThreadNat
<1>8. /\ q \in Nat /\ r \in Nat
      /\ n > T => q = n \div T /\ r = n % T
      /\ ~(n > T) => q = 1 /\ r = 0
  <2>1. CASE n > T
    <3>1. n \in Nat
      BY <1>7, <2>1
    <3>2. (n \div T) \in Nat /\ (n % T) \in Nat
      BY <1>7, <3>1, Divides
    <3> QED BY <1>2, <2>1, <3>2
  <2>2. CASE ~(n > T)
    BY <1>2, <2>2
  <2> QED BY <2>1, <2>2
<1>9. a = EvenStart(n, t)
  <2>1. CASE n > T
    <3>1. t * (q + 1) = t * q + t
      BY <1>7, <1>8
    <3>2. PICK x, y : x = t * q /\ y = t * (q + 1)
      OBVIOUS
    <3>3. x \in Nat /\ y = x + t
      BY <1>7, <1>8, <3>1, <3>2
    <3>4. a = (IF t < r THEN y + 0 ELSE x + r)
      BY <1>3, <1>4, <3>2
    <3>5. EvenStart(n, t) = x + (IF t < r THEN t ELSE r)
      BY <1>8, <2>1, <3>2 DEF EvenStart
    <3> QED BY <1>7, <1>8, <3>3, <3>4, <3>5
  <2>2. CASE ~(n > T)
    BY <1>3, <1>4, <1>7, <1>8, <2>2 DEF EvenStart
  <2> QED BY <2>1, <2>2
<1>10. b = EvenStart(n, t + 1) /\ a \in Nat /\ b \in Nat
  <2>1. size = (IF n > T THEN (IF t < n % T THEN (n \div T) + 1 ELSE n \div T) ELSE 1)
    BY <1>3, <1>7, <1>8
  <2>2. /\ EvenStart(n, t) \in Nat /\ EvenStart(n, t + 1) \in Nat
        /\ n > T => EvenStart(n, t + 1) = EvenStart(n, t) +
                      (IF t < n % T THEN (n \div T) + 1 ELSE n \div T)
        /\ ~(n > T) => EvenStart(n, t + 1) = EvenStart(n, t) + 1
    BY <1>7, EvenStep
  <2>3. EvenStart(n, t + 1) = EvenStart(n, t) + size
    BY <2>1, <2>2
  <2> QED BY <1>4, <1>9, <2>2, <2>3
<1>11. low = Nth(c, a) /\ high = Nth(c, b - 1)
  <2>1. size \in Int /\ c.incr \in Int /\ c.lower \in Int
    BY <1>3, <1>8, LoopFields DEF Loops
  <2>2. PICK x, y, z : x = a * c.incr /\ y = (size - 1) * c.incr /\ z = (b - 1) * c.incr
    OBVIOUS
  <2>3. PICK e, w, m : e = size - 1 /\ w = b - 1 /\ m = c.incr
    OBVIOUS
  <2>5. e \in Int /\ w \in Int /\ m \in Int /\ a \in Int /\ w = a + e
    BY <1>4, <1>10, <2>1, <2>3
  <2>6. w * m = a * m + e * m /\ a * m \in Int /\ e * m \in Int
    BY <2>5
  <2>4. x \in Int /\ y \in Int /\ z = x + y
    BY <2>2, <2>3, <2>6
  <2> QED BY <1>5, <2>1, <2>2, <2>4 DEF Nth
<1>12. a \in Nat /\ b \in Int /\ c \in Loops
  BY <1>10
<1>13. i \in Iterations(low, Clip(high, c), c.incr) <=>
         \E j \in Nat : a <= j /\ j < b /\ i = Nth(c, j) /\ Within(c, i)
  BY ONLY <1>11, <1>12, BlockIs
<1> QED BY <1>1, <1>6, <1>9, <1>10, <1>13

\* The blocks lie one after the other.
LEMMA EvenOrder ==
  ASSUME NEW n \in Int, NEW t \in Thread, NEW u \in Thread, t < u
  PROVE  EvenStart(n, t + 1) <= EvenStart(n, u)
<1>1. t \in Nat /\ u \in Nat /\ T \in Nat /\ T > 1 /\ t + 1 <= u
  BY ThreadNat
<1>2. CASE n > T
  <2>1. PICK q, r : q = n \div T /\ r = n % T
    OBVIOUS
  <2>2. q \in Nat /\ r \in Nat
    BY <1>1, <1>2, <2>1, Divides
  <2>3. PICK x, y : x = (t + 1) * q /\ y = u * q
    OBVIOUS
  <2>4. x \in Nat /\ y \in Nat /\ x <= y
    BY <1>1, <2>2, <2>3
  <2>5. EvenStart(n, t + 1) = x + (IF t + 1 < r THEN t + 1 ELSE r)
    BY <1>2, <2>1, <2>3 DEF EvenStart
  <2>6. EvenStart(n, u) = y + (IF u < r THEN u ELSE r)
    BY <1>2, <2>1, <2>3 DEF EvenStart
  <2> QED BY <1>1, <2>2, <2>4, <2>5, <2>6
<1>3. CASE ~(n > T)
  BY <1>1, <1>3 DEF EvenStart
<1> QED BY <1>2, <1>3

\* Every number below the count is in a block.
LEMMA EvenCover ==
  ASSUME NEW n \in Int, NEW j \in Nat, j < n
  PROVE  \E t \in Thread : EvenStart(n, t) <= j /\ j < EvenStart(n, t + 1)
<1>1. T \in Nat /\ T > 1 /\ Thread = 0..(T - 1)
  BY ThreadNat DEF Thread
<1>2. CASE ~(n > T)
  <2>1. j \in Thread
    BY <1>1, <1>2
  <2> QED BY <1>2, <2>1 DEF EvenStart
<1>3. CASE n > T
  <2>1. PICK q, r : q = n \div T /\ r = n % T
    OBVIOUS
  <2>2. q \in Nat /\ r \in 0..(T - 1) /\ n = T * q + r
    BY <1>1, <1>3, <2>1, Divides
  <2>3. q > 0
    BY <1>1, <1>3, <2>2
  <2>4. ASSUME NEW t \in Nat
        PROVE  /\ EvenStart(n, t) = t * q + (IF t < r THEN t ELSE r)
               /\ EvenStart(n, t + 1) = t * q + q + (IF t + 1 < r THEN t + 1 ELSE r)
    <3>1. (t + 1) * q = t * q + q
      BY <2>2
    <3> QED BY <1>3, <2>1, <3>1 DEF EvenStart
  <2>5. CASE j < r * (q + 1)
    <3>1. PICK t : t = j \div (q + 1)
      OBVIOUS
    <3>2. PICK s : s = j % (q + 1)
      OBVIOUS
    <3>3. t \in Nat /\ s \in 0..q /\ j = (q + 1) * t + s
      <4>1. PICK w \in Nat : w = q + 1 /\ w > 0
        BY <2>2
      <4>2. j \div w \in Nat /\ j % w \in 0..(w - 1) /\ j = w * (j \div w) + (j % w)
        BY <4>1, Divides
      <4> QED BY <2>2, <3>1, <3>2, <4>1, <4>2
    <3>4. t < r
      <4>1. ASSUME t >= r PROVE FALSE
        <5>1. t * (q + 1) >= r * (q + 1)
          BY <2>2, <3>3, <4>1
        <5>2. t * (q + 1) = (q + 1) * t
          BY <2>2, <3>3
        <5> QED BY <2>2, <2>5, <3>3, <5>1, <5>2
      <4> QED BY <2>2, <3>3, <4>1
    <3>5. (q + 1) * t = t * q + t
      BY <2>2, <3>3
    <3>6. t \in Thread
      BY <1>1, <2>2, <3>3, <3>4
    <3>7. EvenStart(n, t) <= j /\ j < EvenStart(n, t + 1)
      BY <2>2, <2>4, <3>3, <3>4, <3>5
    <3> QED BY <3>6, <3>7
  <2>6. CASE j >= r * (q + 1)
    <3>0. PICK e : e = j - r
      OBVIOUS
    <3>1. e \in Nat /\ j = e + r /\ e >= r * q
      <4>1. r * (q + 1) = r * q + r /\ r * q \in Nat
        BY <2>2
      <4> QED BY <2>2, <2>6, <3>0, <4>1
    <3>2. PICK t, s : t = e \div q /\ s = e % q
      OBVIOUS
    <3>3. t \in Nat /\ s \in 0..(q - 1) /\ e = q * t + s
      BY <2>2, <2>3, <3>1, <3>2, Divides
    <3>4. q * t = t * q
      BY <2>2, <3>3
    <3>5. t >= r
      <4>1. ASSUME t + 1 <= r PROVE FALSE
        <5>1. (t + 1) * q <= r * q
          BY <2>2, <3>3, <4>1
        <5>2. (t + 1) * q = t * q + q
          BY <2>2, <3>3
        <5> QED BY <2>2, <3>1, <3>3, <3>4, <5>1, <5>2
      <4> QED BY <2>2, <3>3, <4>1
    <3>6. t < T
      <4>1. ASSUME t >= T PROVE FALSE
        <5>1. t * q >= T * q
          BY <1>1, <2>2, <3>3, <4>1
        <5> QED BY <1>1, <2>2, <3>0, <3>1, <3>3, <3>4, <5>1
      <4> QED BY <1>1, <3>3, <4>1
    <3>7. t \in Thread
      BY <1>1, <3>3, <3>6
    <3>8. EvenStart(n, t) <= j /\ j < EvenStart(n, t + 1)
      BY <2>2, <2>4, <3>1, <3>3, <3>4, <3>5
    <3> QED BY <3>7, <3>8
  <2> QED BY <2>2, <2>5, <2>6
<1> QED BY <1>2, <1>3

LEMMA EvenSplit ==
  ASSUME NEW c \in Loops, NoRest(c)
  PROVE  /\ \A t \in Thread : EvenBlock(t, c) \subseteq Work(c)
         /\ \A t, u \in Thread : t # u => EvenBlock(t, c) \cap EvenBlock(u, c) = {}
         /\ \A i \in Work(c) : \E t \in Thread : i \in EvenBlock(t, c)
<1>1. PICK n : n = NumIter(c)
  OBVIOUS
<1>2. n \in Int
  <2>1. c.lower \in Int /\ c.upper \in Int /\ c.incr \in Int /\ c.incr # 0
    BY LoopFields DEF Loops
  <2>2. \A a, b \in Int : b # 0 => Quotient(a, b) \in Int
    BY DEF Quotient
  <2>3. PICK d : d = c.upper - c.lower + (IF c.incr > 0 THEN 1 ELSE -1)
    OBVIOUS
  <2>4. d \in Int /\ Quotient(d, c.incr) \in Int
    BY <2>1, <2>2, <2>3
  <2> QED BY <1>1, <2>3, <2>4 DEF NumIter
<1>3. ASSUME NEW t \in Thread, NEW i
      PROVE  i \in EvenBlock(t, c) <=>
               \E j \in Nat : /\ EvenStart(n, t) <= j /\ j < EvenStart(n, t + 1)
                              /\ i = Nth(c, j) /\ Within(c, i)
  BY <1>1, <1>2, EvenIs
<1>4. ASSUME NEW t \in Thread, NEW i \in EvenBlock(t, c) PROVE i \in Work(c)
  BY <1>3, WorkIs
<1>5. ASSUME NEW t \in Thread, NEW u \in Thread, t < u, NEW i \in EvenBlock(t, c),
             i \in EvenBlock(u, c)
      PROVE  FALSE
  <2>1. PICK j \in Nat : j < EvenStart(n, t + 1) /\ i = Nth(c, j)
    BY <1>3
  <2>2. PICK k \in Nat : EvenStart(n, u) <= k /\ i = Nth(c, k)
    BY <1>3, <1>5
  <2>3. EvenStart(n, t + 1) <= EvenStart(n, u)
    BY <1>2, <1>5, EvenOrder
  <2>4. j = k
    <3>1. c \in Construct /\ j \in Int /\ k \in Int /\ Nth(c, j) = Nth(c, k)
      BY <2>1, <2>2 DEF Loops
    <3> QED BY <3>1, NthOnce
  <2>5. EvenStart(n, t + 1) \in Nat /\ EvenStart(n, u) \in Nat
    BY <1>2, EvenStep, ThreadNat
  <2> QED BY <2>1, <2>2, <2>3, <2>4, <2>5
<1>6. ASSUME NEW t \in Thread, NEW u \in Thread, t # u
      PROVE  EvenBlock(t, c) \cap EvenBlock(u, c) = {}
  <2>1. t < u \/ u < t
    BY <1>6, ThreadNat
  <2> QED BY <1>5, <2>1
<1>7. ASSUME NEW i \in Work(c)
      PROVE  \E t \in Thread : i \in EvenBlock(t, c)
  <2>1. PICK j \in Nat : i = Nth(c, j) /\ Within(c, i)
    BY WorkIs
  <2>2. Within(c, c.lower)
    <3>1. Within(c, Nth(c, 0))
      BY <2>1, WithinDown
    <3>2. Nth(c, 0) = c.lower
      BY LoopFields DEF Nth, Loops
    <3> QED BY <3>1, <3>2
  <2>3. j < n
    BY <1>1, <2>1, <2>2, CountIs
  <2>4. PICK t \in Thread : EvenStart(n, t) <= j /\ j < EvenStart(n, t + 1)
    BY <1>2, <2>3, EvenCover
  <2> QED BY <1>3, <2>1, <2>4
<1> QED BY <1>4, <1>6, <1>7

-----------------------------------------------------------------------------
(* OMP_SCHED_STATIC.                                                       *)

LEMMA WorkFinite ==
  ASSUME NEW c \in Loops
  PROVE  IsFiniteSet(Work(c)) /\ Cardinality(Work(c)) \in Nat
<1>1. c.lower \in Int /\ c.upper \in Int /\ c.kind # "single"
  BY LoopFields DEF Loops
<1>2. PICK a, b \in Int : Work(c) \subseteq a..b
  <2>1. Work(c) \subseteq c.lower..c.upper \/ Work(c) \subseteq c.upper..c.lower
    BY <1>1 DEF Work, Iterations
  <2> QED BY <1>1, <2>1
<1>3. IsFiniteSet(a..b)
  BY FS_Interval
<1>4. IsFiniteSet(Work(c))
  BY <1>2, <1>3, FS_Subset
<1> QED BY <1>4, FS_CardinalityType

\* An iteration's number is below the count of iterations.
LEMMA NumberBelow ==
  ASSUME NEW c \in Loops, NEW j \in Nat, Within(c, Nth(c, j))
  PROVE  j < Cardinality(Work(c))
<1>1. PICK f : f = [k \in 0..j |-> Nth(c, k)]
  OBVIOUS
<1>2. \A k \in 0..j : f[k] \in Work(c)
  <2> SUFFICES ASSUME NEW k \in 0..j PROVE f[k] \in Work(c)
    OBVIOUS
  <2>1. k \in Nat /\ k <= j /\ f[k] = Nth(c, k)
    BY <1>1
  <2>2. Within(c, Nth(c, k))
    BY <2>1, WithinDown
  <2> QED BY <2>1, <2>2, WorkIs
<1>3. \A k, l \in 0..j : f[k] = f[l] => k = l
  BY <1>1, NthOnce DEF Loops
<1>4. f \in Injection(0..j, Work(c))
  BY <1>1, <1>2, <1>3 DEF Injection, IsInjective
<1>5. Cardinality(0..j) <= Cardinality(Work(c))
  BY <1>4, WorkFinite, FS_Injection
<1>6. Cardinality(0..j) = j + 1
  BY FS_Interval
<1> QED BY <1>5, <1>6, WorkFinite

\* The k-th chunk of thread t.
LEMMA StaticIs ==
  ASSUME NEW c \in Loops, NEW t \in Thread, NEW i
  PROVE  i \in StaticChunks(t, c) <=>
           \E k \in 0..Cardinality(Work(c)), j \in Nat :
             /\ (t + k * T) * c.chunk <= j /\ j < (t + k * T) * c.chunk + c.chunk
             /\ i = Nth(c, j) /\ Within(c, i)
<1>1. PICK S : S = 0..Cardinality(Work(c))
  OBVIOUS
<1>2. S \subseteq Nat
  BY <1>1, WorkFinite
<1> DEFINE first(k) == c.lower + (t + k * T) * c.chunk * c.incr
           block(k) == Iterations(first(k), Clip(first(k) + (c.chunk - 1) * c.incr, c), c.incr)
<1>3. StaticChunks(t, c) = UNION {block(k) : k \in S}
  BY <1>1 DEF StaticChunks
<1>4. ASSUME NEW k \in S
      PROVE  i \in block(k) <=>
               \E j \in Nat : /\ (t + k * T) * c.chunk <= j /\ j < (t + k * T) * c.chunk + c.chunk
                              /\ i = Nth(c, j) /\ Within(c, i)
  <2>1. PICK a, b : a = (t + k * T) * c.chunk /\ b = a + c.chunk
    OBVIOUS
  <2>2. t \in Nat /\ T \in Nat /\ k \in Nat /\ c.chunk \in Nat
        /\ c.lower \in Int /\ c.incr \in Int
    BY <1>2, <1>4, ThreadNat, LoopFields DEF Loops
  <2>3. a \in Nat /\ b \in Int
    <3>1. k * T \in Nat
      BY <2>2
    <3>2. t + k * T \in Nat
      BY <2>2, <3>1
    <3>3. (t + k * T) * c.chunk \in Nat
      BY <2>2, <3>2
    <3> QED BY <2>1, <2>2, <3>3
  <2>4. PICK low, high : low = first(k) /\ high = low + (c.chunk - 1) * c.incr
    OBVIOUS
  <2>5. low = Nth(c, a) /\ high = Nth(c, b - 1)
    <3>1. low = c.lower + a * c.incr
      BY <2>1, <2>4
    <3>2. PICK e, w, m : e = c.chunk - 1 /\ w = b - 1 /\ m = c.incr
      OBVIOUS
    <3>3. e \in Int /\ w \in Int /\ m \in Int /\ a \in Int /\ w = a + e
      BY <2>1, <2>2, <2>3, <3>2
    <3>4. w * m = a * m + e * m /\ a * m \in Int /\ e * m \in Int
      BY <3>3
    <3>5. PICK x, y, z : x = a * m /\ y = e * m /\ z = w * m
      OBVIOUS
    <3>6. low = c.lower + x /\ high = low + y /\ z = x + y /\ x \in Int /\ y \in Int
      BY <2>4, <3>1, <3>2, <3>4, <3>5
    <3>7. high = c.lower + z
      BY <2>2, <3>6
    <3> QED BY <3>1, <3>2, <3>5, <3>7 DEF Nth
  <2>6. block(k) = Iterations(low, Clip(high, c), c.incr)
    BY <2>4
  <2>7. c \in Loops
    OBVIOUS
  <2>8. i \in Iterations(low, Clip(high, c), c.incr) <=>
         \E j \in Nat : a <= j /\ j < b /\ i = Nth(c, j) /\ Within(c, i)
    BY ONLY <2>3, <2>5, <2>7, BlockIs
  <2> QED BY <2>1, <2>6, <2>8
<1> HIDE DEF block
<1> QED BY <1>1, <1>3, <1>4

\* A number has one place in the chunks that are dealt in turn.
LEMMA Dealt ==
  ASSUME NEW m \in Nat, m > 0, NEW j \in Nat,
         NEW t \in Thread, NEW k \in Nat, NEW u \in Thread, NEW l \in Nat,
         (t + k * T) * m <= j, j < (t + k * T) * m + m,
         (u + l * T) * m <= j, j < (u + l * T) * m + m
  PROVE  t = u
<1>1. T \in Nat /\ T > 1 /\ t \in 0..(T - 1) /\ u \in 0..(T - 1)
  BY ThreadNat DEF Thread
<1>2. PICK a, b : a = t + k * T /\ b = u + l * T
  OBVIOUS
<1>3. a \in Nat /\ b \in Nat
  <2>1. k * T \in Nat /\ l * T \in Nat
    BY <1>1
  <2> QED BY <1>1, <1>2, <2>1
<1>4. a * m <= j /\ j < a * m + m /\ b * m <= j /\ j < b * m + m
  BY <1>2
<1>5. (a + 1) * m = a * m + m /\ (b + 1) * m = b * m + m
  BY <1>3
<1>6. a = b
  <2>1. ASSUME a + 1 <= b PROVE FALSE
    <3>1. (a + 1) * m <= b * m
      BY <1>3, <2>1
    <3>2. a * m \in Nat /\ b * m \in Nat
      BY <1>3
    <3> QED BY <1>4, <1>5, <3>1, <3>2
  <2>2. ASSUME b + 1 <= a PROVE FALSE
    <3>1. (b + 1) * m <= a * m
      BY <1>3, <2>2
    <3>2. a * m \in Nat /\ b * m \in Nat
      BY <1>3
    <3> QED BY <1>4, <1>5, <3>1, <3>2
  <2> QED BY <1>3, <2>1, <2>2
<1>7. t + k * T = u + l * T
  BY <1>2, <1>6
<1>8. (k + 1) * T = k * T + T /\ (l + 1) * T = l * T + T /\ k * T \in Nat /\ l * T \in Nat
  BY <1>1
<1>9. k = l
  <2>1. ASSUME k + 1 <= l PROVE FALSE
    <3>1. (k + 1) * T <= l * T
      BY <1>1, <2>1
    <3> QED BY <1>1, <1>7, <1>8, <3>1
  <2>2. ASSUME l + 1 <= k PROVE FALSE
    <3>1. (l + 1) * T <= k * T
      BY <1>1, <2>2
    <3> QED BY <1>1, <1>7, <1>8, <3>1
  <2> QED BY <2>1, <2>2
<1> QED BY <1>1, <1>7, <1>8, <1>9

LEMMA StaticSplit ==
  ASSUME NEW c \in Loops
  PROVE  /\ \A t \in Thread : StaticChunks(t, c) \subseteq Work(c)
         /\ \A t, u \in Thread : t # u => StaticChunks(t, c) \cap StaticChunks(u, c) = {}
         /\ \A i \in Work(c) : \E t \in Thread : i \in StaticChunks(t, c)
<1>1. PICK m : m = c.chunk
  OBVIOUS
<1>2. m \in Nat /\ m > 0 /\ c \in Construct
  BY <1>1, LoopFields DEF Loops
<1>3. ASSUME NEW t \in Thread, NEW i
      PROVE  i \in StaticChunks(t, c) <=>
           \E k \in 0..Cardinality(Work(c)), j \in Nat :
             /\ (t + k * T) * m <= j /\ j < (t + k * T) * m + m
             /\ i = Nth(c, j) /\ Within(c, i)
  BY <1>1, StaticIs
<1>4. 0..Cardinality(Work(c)) \subseteq Nat
  BY WorkFinite
<1>5. ASSUME NEW t \in Thread, NEW i \in StaticChunks(t, c) PROVE i \in Work(c)
  BY <1>3, WorkIs
<1>6. ASSUME NEW t \in Thread, NEW u \in Thread, NEW i \in StaticChunks(t, c),
             i \in StaticChunks(u, c)
      PROVE  t = u
  <2>1. PICK k \in Nat, j \in Nat :
           /\ (t + k * T) * m <= j /\ j < (t + k * T) * m + m /\ i = Nth(c, j)
    BY <1>3, <1>4
  <2>2. PICK l \in Nat, h \in Nat :
           /\ (u + l * T) * m <= h /\ h < (u + l * T) * m + m /\ i = Nth(c, h)
    BY <1>3, <1>4, <1>6
  <2>3. j = h
    <3>1. j \in Int /\ h \in Int /\ Nth(c, j) = Nth(c, h)
      BY <2>1, <2>2
    <3> QED BY <1>2, <3>1, NthOnce
  <2>4. (u + l * T) * m <= j /\ j < (u + l * T) * m + m
    BY <2>2, <2>3
  <2> QED BY <1>2, <2>1, <2>4, Dealt
<1>7. ASSUME NEW i \in Work(c)
      PROVE  \E t \in Thread : i \in StaticChunks(t, c)
  <2>1. PICK j \in Nat : i = Nth(c, j) /\ Within(c, i)
    BY WorkIs
  <2>2. T \in Nat /\ T > 1 /\ Thread = 0..(T - 1)
    BY ThreadNat DEF Thread
  <2>3. PICK a, s : a = j \div m /\ s = j % m
    OBVIOUS
  <2>4. a \in Nat /\ s \in 0..(m - 1) /\ j = m * a + s
    BY <1>2, <2>3, Divides
  <2>5. PICK k, t : k = a \div T /\ t = a % T
    OBVIOUS
  <2>6. k \in Nat /\ t \in 0..(T - 1) /\ a = T * k + t
    BY <2>2, <2>4, <2>5, Divides
  <2>7. T * k = k * T /\ k * T \in Nat /\ m * a = a * m /\ a * m \in Nat
    BY <1>2, <2>2, <2>4, <2>6
  <2>8. a = t + k * T /\ a * m <= j /\ j < a * m + m
    BY <1>2, <2>2, <2>4, <2>6, <2>7
  <2>9. k <= j
    <3>1. k <= k * T
      BY <2>2, <2>6
    <3>2. a <= a * m
      BY <1>2, <2>4
    <3> QED BY <2>2, <2>6, <2>7, <2>8, <3>1, <3>2
  <2>10. k \in 0..Cardinality(Work(c))
    BY <2>1, <2>6, <2>9, NumberBelow, WorkFinite
  <2> QED BY <1>3, <2>1, <2>2, <2>6, <2>8, <2>10
<1> QED BY <1>5, <1>6, <1>7

-----------------------------------------------------------------------------
(* What a thread gets of a loop that is divided beforehand.                *)

Share(t, c) == IF c.kind = "even" THEN EvenBlock(t, c) ELSE StaticChunks(t, c)

\* The threads share a loop out: all of it, and nothing twice.
LEMMA ShareSplit ==
  ASSUME NEW c \in Loops, c.kind = "even" => NoRest(c)
  PROVE  /\ \A t \in Thread : Share(t, c) \subseteq Work(c)
         /\ \A t, u \in Thread : t # u => Share(t, c) \cap Share(u, c) = {}
         /\ \A i \in Work(c) : \E t \in Thread : i \in Share(t, c)
BY EvenSplit, StaticSplit DEF Share

-----------------------------------------------------------------------------
(* Where the threads are in the region that runs.                          *)

Slave == Thread \ {0}

\* A region has been forked and not been joined.
Running == pc[0] # "serial"

InBody(t) == pc[t] \in {"body", "next", "end", "barrier"}

\* The body has returned.
Ended(t) == IF t = 0 THEN pc[0] = "join" ELSE t < idx /\ t \notin newWork

\* The join has let the thread go.
Passed(t) == Ended(t) /\ ~(pc[t] = "join" /\ status[t] = "wait")

\* A slave that the region has not reached yet.
Resting(t) ==
  \/ pc[t] \in {"idle", "sleep"} /\ status[t] = "out"
  \/ pc[t] = "join" /\ status[t] = "go"

\* The thread has called construct c, is through with it, has left its barrier.
Begun(t, c) ==
  Ended(t) \/ (InBody(t) /\ (at[t] > c \/ (at[t] = c /\ pc[t] # "body")))
Finished(t, c) ==
  Ended(t) \/ (InBody(t) /\ (at[t] > c \/ (at[t] = c /\ pc[t] \in {"end", "barrier"})))
Beyond(t, c) ==
  Ended(t) \/ (InBody(t) /\ (at[t] > c \/ (at[t] = c /\ pc[t] = "barrier" /\ status[t] = "go")))

Open(c) == \E t \in Thread : Begun(t, c)

\* No region with a full team has been joined.
Young == \A r \in Full(prog) : r <= region => r = region /\ Running

-----------------------------------------------------------------------------
(* The invariant: where threads can be.                                    *)

Typed ==
  /\ prog \in Programs
  /\ region \in 0..Len(prog)
  /\ newWork \subseteq Slave /\ idx \in 1..T
  /\ asleep \subseteq Slave
  /\ pc \in [Thread -> {"serial", "fork", "idle", "body", "next", "end",
                        "barrier", "join", "sleep"}]
  /\ at \in [Thread -> Nat \ {0}]
  /\ status \in [Thread -> {"out", "wait", "go"}]
  /\ myLoop \in [Thread -> Nat] /\ teamLoop \in Nat
  /\ bounds \in [lower : Int, upper : Int, incr : Int, chunk : Nat]
  /\ taken \in BOOLEAN /\ singleCount \in Nat

\* One thread.
ShapeOf(t) ==
  /\ pc[t] \in {"serial", "fork"} => t = 0
  /\ pc[t] \in {"idle", "sleep"} => t # 0
  /\ pc[t] \in {"barrier", "join"} <=> status[t] \in {"wait", "go"}
  /\ ~InBody(t) => at[t] = 1
  /\ InBody(t) => region > 0 /\ at[t] <= Len(Body) + 1
  /\ pc[t] \in {"next", "end", "barrier"} => at[t] <= Len(Body)
  /\ pc[t] = "next" => Current(t).kind = "dynamic"
  /\ pc[t] = "barrier" => Team = T /\ ~Current(t).nowait

Shape == \A t \in Thread : ShapeOf(t)

\* Between regions, and in a region of the master alone, the slaves rest.
RestInv ==
  /\ Running => region > 0
  /\ ~Running \/ Team = 1 => newWork = {} /\ \A t \in Slave : Resting(t)
  /\ Running /\ Team = 1 => idx = 1 /\ pc[0] # "join"

\* In a region of a full team.
TeamInv ==
  Running /\ Team = T =>
    /\ \A t \in newWork : t < idx
    /\ pc[0] # "fork" => idx = T
    /\ \A t \in Slave : InBody(t) => t \in newWork
    /\ \A t \in Slave : Ended(t) \/ Resting(t) \/ InBody(t)

JoinInv ==
  Running /\ Team = T =>
    \A t, u \in Thread : Passed(t) => Passed(u)

BarrierInv ==
  Running /\ Team = T =>
    \A t, u \in Thread, c \in DOMAIN Body :
      ~Body[c].nowait /\ Beyond(t, c) => Beyond(u, c)

\* As long as no region has been joined nobody in it is asleep.
AwakeInv ==
  Young =>
    /\ idx > 1 => Running /\ Team = T
    /\ \A t \in Slave : ~Ended(t) => pc[t] \notin {"sleep", "join"}
    /\ \A t \in Slave : t < idx /\ ~Passed(t) => t \notin asleep

Control ==
  Typed /\ Shape /\ RestInv /\ TeamInv /\ JoinInv /\ BarrierInv /\ AwakeInv

-----------------------------------------------------------------------------
(* The invariant: what has been run.                                       *)

Slots ==
  \A x \in DOMAIN ran :
    /\ ran[x] = 1
    /\ x = <<x[1], x[2], x[3]>>
    /\ x[1] \in 1..region /\ x[2] \in DOMAIN prog[x[1]].body
    /\ x[3] \in Work(prog[x[1]].body[x[2]])

DoneInv ==
  \A r \in 1..region : r < region \/ ~Running =>
    \A c \in DOMAIN prog[r].body : Done(r, c)

\* In a region of the master alone.
AloneInv ==
  Running /\ Team = 1 =>
    \A c \in DOMAIN Body :
      /\ \A i \in Work(Body[c]) :
           Has(region, c, i) <=> Finished(0, c) \/ (Begun(0, c) /\ taken)
      /\ Begun(0, c) /\ ~Finished(0, c) =>
           /\ bounds.lower = Body[c].lower /\ bounds.upper = Body[c].upper
           /\ bounds.incr = Body[c].incr

\* A loop divided beforehand.
SharedOk(c) ==
  \A i \in Work(Body[c]) :
    Has(region, c, i) <=> \E t \in Thread : Finished(t, c) /\ i \in Share(t, Body[c])

SingleOk(c) == Has(region, c, 0) <=> \E t \in Thread : Finished(t, c)

\* The dynamic loop whose bounds the team has.
Latest(c) ==
  Open(c) /\ \A d \in DOMAIN Body : d > c /\ Body[d].kind = "dynamic" => ~Open(d)

\* The first k iterations of construct c have been handed out.
HandedOut(c, k) ==
  \A j \in Nat : Within(Body[c], Nth(Body[c], j)) =>
    (Has(region, c, Nth(Body[c], j)) <=> j < k)

DynamicOk(c) ==
  /\ ~Open(c) => \A i \in Work(Body[c]) : ~Has(region, c, i)
  /\ Open(c) /\ ~Latest(c) => Done(region, c)
  /\ (\E t \in Thread : Finished(t, c)) => Done(region, c)
  /\ Latest(c) =>
       /\ bounds.upper = Body[c].upper /\ bounds.incr = Body[c].incr
       /\ bounds.chunk = Body[c].chunk
       /\ \E k \in Nat : bounds.lower = Nth(Body[c], k) /\ HandedOut(c, k)

WorkInv ==
  Running /\ Team = T =>
    \A c \in DOMAIN Body :
      /\ Body[c].kind \in {"even", "static"} => SharedOk(c)
      /\ Body[c].kind = "single" => SingleOk(c)
      /\ Body[c].kind = "dynamic" => DynamicOk(c)

SingleInv ==
  \A r \in Full(prog) : \A c \in DOMAIN prog[r].body :
    prog[r].body[c].kind = "single" => (Has(r, c, 0) <=> singleCount > 0)

HasLoop(r) == \E c \in DOMAIN prog[r].body : prog[r].body[c].kind = "dynamic"

LoopsOf(t) == {c \in DOMAIN Body : Body[c].kind = "dynamic" /\ Begun(t, c)}
OpenLoops == {c \in DOMAIN Body : Body[c].kind = "dynamic" /\ Open(c)}

LoopInv ==
  /\ (\A r \in Full(prog) : r <= region => ~HasLoop(r)) => \A t \in Thread : myLoop[t] = 0
  /\ Running /\ Team = T /\ HasLoop(region) =>
       /\ \A t \in Thread : myLoop[t] = Cardinality(LoopsOf(t))
       /\ teamLoop = Cardinality(OpenLoops)

Data == Slots /\ DoneInv /\ AloneInv /\ WorkInv /\ SingleInv /\ LoopInv

-----------------------------------------------------------------------------
(* What the definitions say of one state.                                  *)

\* The region that runs.
LEMMA RegionsOk ==
  ASSUME Typed
  PROVE  /\ DOMAIN prog = 1..Len(prog) /\ Len(prog) \in Nat
         /\ \A r \in DOMAIN prog :
              /\ prog[r].team \in {1, T} /\ prog[r].body \in Seq(Construct)
              /\ DOMAIN prog[r].body = 1..Len(prog[r].body) /\ Len(prog[r].body) \in Nat
              /\ \A c \in DOMAIN prog[r].body : prog[r].body[c] \in Construct
<1>1. PICK R : R = [team : {1, T}, body : Seq(Construct)]
  OBVIOUS
<1>2. prog \in Seq(R)
  BY <1>1, WorkSharingAssumption DEF Typed
<1>3. DOMAIN prog = 1..Len(prog) /\ Len(prog) \in Nat /\ \A r \in DOMAIN prog : prog[r] \in R
  BY <1>2
<1>4. ASSUME NEW r \in DOMAIN prog
      PROVE  /\ prog[r].team \in {1, T} /\ prog[r].body \in Seq(Construct)
             /\ DOMAIN prog[r].body = 1..Len(prog[r].body) /\ Len(prog[r].body) \in Nat
             /\ \A c \in DOMAIN prog[r].body : prog[r].body[c] \in Construct
  <2>1. PICK x : x = prog[r]
    OBVIOUS
  <2>2. x \in [team : {1, T}, body : Seq(Construct)]
    BY <1>1, <1>3, <2>1
  <2>3. x.team \in {1, T} /\ x.body \in Seq(Construct)
    BY <2>2
  <2>4. PICK b : b = x.body
    OBVIOUS
  <2>5. DOMAIN b = 1..Len(b) /\ Len(b) \in Nat /\ \A c \in DOMAIN b : b[c] \in Construct
    BY <2>3, <2>4
  <2> QED BY <2>1, <2>3, <2>4, <2>5
<1> QED BY <1>3, <1>4

\* The region that runs.
LEMMA RegionOk ==
  ASSUME Typed, region > 0
  PROVE  /\ region \in DOMAIN prog /\ region \in Nat /\ Team \in {1, T}
         /\ DOMAIN Body = 1..Len(Body) /\ Len(Body) \in Nat
         /\ \A c \in DOMAIN Body : Body[c] \in Construct
<1>1. region \in 0..Len(prog)
  BY DEF Typed
<1>2. region \in DOMAIN prog /\ region \in Nat
  BY <1>1, RegionsOk
<1> QED BY <1>2, RegionsOk DEF Body, Team

\* Whose state a step leaves alone.
Same(u) ==
  /\ pc'[u] = pc[u] /\ at'[u] = at[u] /\ status'[u] = status[u]
  /\ u \in newWork' <=> u \in newWork

\* All that the invariant says of a thread is said by its state.
LEMMA SameMarks ==
  ASSUME NEW u \in Thread, Same(u), idx' = idx
  PROVE  /\ InBody(u)' <=> InBody(u)
         /\ Ended(u)' <=> Ended(u)
         /\ Passed(u)' <=> Passed(u)
         /\ Resting(u)' <=> Resting(u)
         /\ \A c : /\ Begun(u, c)' <=> Begun(u, c)
                   /\ Finished(u, c)' <=> Finished(u, c)
                   /\ Beyond(u, c)' <=> Beyond(u, c)
<1>1. InBody(u)' <=> InBody(u)
  BY DEF Same, InBody
<1>2. Ended(u)' <=> Ended(u)
  BY DEF Same, Ended
<1> QED BY <1>1, <1>2 DEF Same, Passed, Resting, Begun, Finished, Beyond

LEMMA SameShape ==
  ASSUME NEW u \in Thread, Same(u), UNCHANGED <<prog, region>>, ShapeOf(u)
  PROVE  ShapeOf(u)'
BY DEF Same, ShapeOf, InBody, Current, Body, Team

\* One barrier holds for every thread of a full team.
LEMMA Barred ==
  ASSUME Control, \A p \in Programs : Orderly(p), Running, Team = T,
         NEW c \in DOMAIN Body, ~Body[c].nowait
  PROVE  Young
<1>1. region > 0 /\ prog \in Programs
  BY DEF Control, RestInv, Typed
<1>2. region \in Full(prog)
  BY <1>1, RegionOk DEF Control, Full, Team
<1>3. ASSUME NEW r \in Full(prog), r <= region PROVE r = region
  <2>1. r \in Nat /\ region \in Nat
    BY RegionsOk DEF Full, Control, Typed
  <2>2. ~(r < region)
    BY <1>1, <1>2 DEF Orderly, Body
  <2> QED BY <1>3, <2>1, <2>2
<1> QED BY <1>3 DEF Young

\* Nobody is at a place of two.
LEMMA MarksOrder ==
  ASSUME Typed, Shape, NEW t \in Thread, NEW c \in Nat
  PROVE  /\ Finished(t, c) => Begun(t, c)
         /\ Beyond(t, c) => Finished(t, c)
         /\ \A d \in Nat : d < c /\ Begun(t, c) => Finished(t, d)
         /\ \A d \in Nat : d < c /\ Begun(t, c) => Beyond(t, d)
         /\ Begun(t, c) /\ ~Finished(t, c) => InBody(t) /\ at[t] = c /\ pc[t] = "next"
<1>1. at[t] \in Nat /\ pc[t] \in {"serial", "fork", "idle", "body", "next", "end",
                                  "barrier", "join", "sleep"}
  BY DEF Typed
<1>2. Finished(t, c) => Begun(t, c)
  BY DEF Finished, Begun
<1>3. Beyond(t, c) => Finished(t, c)
  BY DEF Finished, Beyond
<1>4. ASSUME NEW d \in Nat, d < c, Begun(t, c) PROVE Finished(t, d) /\ Beyond(t, d)
  BY <1>1, <1>4 DEF Begun, Finished, Beyond
<1>5. Begun(t, c) /\ ~Finished(t, c) => InBody(t) /\ at[t] = c /\ pc[t] = "next"
  BY <1>1 DEF Begun, Finished, InBody
<1> QED BY <1>2, <1>3, <1>4, <1>5

-----------------------------------------------------------------------------
(* The steps of one thread keep Control.                                   *)

\* What a step of thread t has to see to.
InRegion(t) ==
  /\ Passed(t)' <=> Passed(t)
  /\ \A c \in DOMAIN Body : ~Body[c].nowait => (Beyond(t, c)' <=> Beyond(t, c))
  /\ t # 0 => /\ InBody(t)' => t \in newWork'
              /\ Ended(t)' \/ Resting(t)' \/ InBody(t)'
  /\ t = 0 /\ pc'[0] # "fork" => idx = T

Awake(t) ==
  /\ ~Ended(t)' => pc'[t] \notin {"sleep", "join"}
  /\ t < idx /\ ~Passed(t)' => t \notin asleep'

Moves(t) ==
  /\ UNCHANGED <<prog, region, idx>>
  /\ newWork' \subseteq newWork
  /\ \A u \in Thread : u # t => Same(u) /\ (u \in asleep' <=> u \in asleep)
  /\ Running' <=> Running
  /\ ShapeOf(t)'
  /\ Running /\ Team = T => InRegion(t)
  /\ t # 0 /\ (~Running \/ Team = 1) => Resting(t)'
  /\ t = 0 /\ Running /\ Team = 1 => pc'[0] # "join"
  /\ t # 0 /\ Young => Awake(t)

LEMMA MovesKeeps ==
  ASSUME Control, Typed', NEW t \in Thread, Moves(t)
  PROVE  Control'
<1>1. /\ UNCHANGED <<prog, region, idx>> /\ newWork' \subseteq newWork
      /\ Running' <=> Running
      /\ Running /\ Team = T => InRegion(t)
  BY DEF Moves
<1>2. ASSUME NEW u \in Thread, u # t
      PROVE  /\ Same(u) /\ (u \in asleep' <=> u \in asleep)
             /\ InBody(u)' <=> InBody(u)
             /\ Ended(u)' <=> Ended(u)
             /\ Passed(u)' <=> Passed(u)
             /\ Resting(u)' <=> Resting(u)
             /\ \A c : Beyond(u, c)' <=> Beyond(u, c)
  <2>1. Same(u) /\ (u \in asleep' <=> u \in asleep)
    BY <1>2 DEF Moves
  <2> QED BY <1>1, <2>1, SameMarks
<1>3. Team' = Team /\ Body' = Body /\ (Young' <=> Young)
  BY <1>1 DEF Team, Body, Young, Full
<1>4. Shape'
  <2> SUFFICES ASSUME NEW u \in Thread PROVE ShapeOf(u)'
    BY DEF Shape
  <2>1. CASE u = t
    BY <2>1 DEF Moves
  <2>2. CASE u # t
    <3>1. ShapeOf(u) /\ Same(u)
      BY <1>2, <2>2 DEF Control, Shape
    <3> QED BY <1>1, <3>1, SameShape
  <2> QED BY <2>1, <2>2
<1>5. RestInv'
  <2>1. Running' => region' > 0
    BY <1>1 DEF Control, RestInv
  <2>2. ASSUME ~Running' \/ Team' = 1
        PROVE  newWork' = {} /\ \A u \in Slave : Resting(u)'
    <3>1. newWork' = {} /\ \A u \in Slave : Resting(u)
      BY <1>1, <1>3, <2>2 DEF Control, RestInv
    <3>2. t # 0 => Resting(t)'
      BY <1>1, <1>3, <2>2 DEF Moves
    <3> QED BY <1>2, <3>1, <3>2 DEF Slave
  <2>3. Running' /\ Team' = 1 => idx' = 1
    BY <1>1, <1>3 DEF Control, RestInv
  <2>4. Running' /\ Team' = 1 => pc'[0] # "join"
    <3>1. CASE t = 0
      BY <1>1, <1>3, <3>1 DEF Moves
    <3>2. CASE t # 0
      <4>1. 0 \in Thread
        BY ThreadNat DEF Thread
      <4>2. pc'[0] = pc[0]
        BY <1>2, <3>2, <4>1 DEF Same
      <4> QED BY <1>1, <1>3, <4>2 DEF Control, RestInv
    <3> QED BY <3>1, <3>2
  <2> QED BY <2>1, <2>2, <2>3, <2>4 DEF RestInv
<1>6. TeamInv'
  <2> SUFFICES ASSUME Running', Team' = T
               PROVE  /\ \A u \in newWork' : u < idx'
                      /\ pc'[0] # "fork" => idx' = T
                      /\ \A u \in Slave : InBody(u)' => u \in newWork'
                      /\ \A u \in Slave : Ended(u)' \/ Resting(u)' \/ InBody(u)'
    BY DEF TeamInv
  <2>1. InRegion(t) /\ Running /\ Team = T
    BY <1>1, <1>3
  <2>2. \A u \in newWork' : u < idx'
    BY <1>1, <2>1 DEF Control, TeamInv
  <2>3. pc'[0] # "fork" => idx' = T
    <3>1. CASE t = 0
      BY <1>1, <2>1, <3>1 DEF InRegion
    <3>2. CASE t # 0
      <4>1. 0 \in Thread
        BY ThreadNat DEF Thread
      <4>2. pc'[0] = pc[0]
        BY <1>2, <3>2, <4>1 DEF Same
      <4> QED BY <1>1, <2>1, <4>2 DEF Control, TeamInv
    <3> QED BY <3>1, <3>2
  <2>4. ASSUME NEW u \in Slave
        PROVE  (InBody(u)' => u \in newWork') /\ (Ended(u)' \/ Resting(u)' \/ InBody(u)')
    <3>1. CASE u = t
      BY <2>1, <3>1 DEF InRegion, Slave
    <3>2. CASE u # t
      <4>1. (InBody(u) => u \in newWork) /\ (Ended(u) \/ Resting(u) \/ InBody(u))
        BY <2>1 DEF Control, TeamInv
      <4>2. u \in newWork' <=> u \in newWork
        BY <1>2, <3>2 DEF Same, Slave
      <4> QED BY <1>2, <3>2, <4>1, <4>2 DEF Slave
    <3> QED BY <3>1, <3>2
  <2> QED BY <2>2, <2>3, <2>4
<1>7. JoinInv' /\ BarrierInv'
  <2> SUFFICES ASSUME Running', Team' = T
               PROVE  /\ \A u, v \in Thread : Passed(u)' => Passed(v)'
                      /\ \A u, v \in Thread, c \in DOMAIN Body' :
                           ~Body'[c].nowait /\ Beyond(u, c)' => Beyond(v, c)'
    BY DEF JoinInv, BarrierInv
  <2>1. InRegion(t) /\ Running /\ Team = T
    BY <1>1, <1>3
  <2>2. ASSUME NEW u \in Thread
        PROVE  /\ Passed(u)' <=> Passed(u)
               /\ \A c \in DOMAIN Body : ~Body[c].nowait => (Beyond(u, c)' <=> Beyond(u, c))
    BY <1>2, <2>1 DEF InRegion
  <2>3. \A u, v \in Thread : Passed(u) => Passed(v)
    BY <2>1 DEF Control, JoinInv
  <2>4. \A u, v \in Thread, c \in DOMAIN Body :
          ~Body[c].nowait /\ Beyond(u, c) => Beyond(v, c)
    BY <2>1 DEF Control, BarrierInv
  <2> QED BY <1>3, <2>2, <2>3, <2>4
<1>8. AwakeInv'
  <2> SUFFICES ASSUME Young'
               PROVE  /\ idx' > 1 => Running' /\ Team' = T
                      /\ \A u \in Slave : ~Ended(u)' => pc'[u] \notin {"sleep", "join"}
                      /\ \A u \in Slave : u < idx' /\ ~Passed(u)' => u \notin asleep'
    BY DEF AwakeInv
  <2>1. /\ idx > 1 => Running /\ Team = T
        /\ \A u \in Slave : ~Ended(u) => pc[u] \notin {"sleep", "join"}
        /\ \A u \in Slave : u < idx /\ ~Passed(u) => u \notin asleep
    BY <1>3 DEF Control, AwakeInv
  <2>2. t # 0 => Awake(t)
    BY <1>3 DEF Moves
  <2>3. ASSUME NEW u \in Slave
        PROVE  /\ ~Ended(u)' => pc'[u] \notin {"sleep", "join"}
               /\ u < idx' /\ ~Passed(u)' => u \notin asleep'
    <3>1. CASE u = t
      BY <1>1, <2>2, <3>1 DEF Awake, Slave
    <3>2. CASE u # t
      <4>1. u \in Thread /\ pc'[u] = pc[u]
        BY <1>2, <3>2 DEF Same, Slave
      <4> QED BY <1>1, <1>2, <2>1, <3>2, <4>1
    <3> QED BY <3>1, <3>2
  <2> QED BY <1>1, <1>3, <2>1, <2>3
<1> QED BY <1>4, <1>5, <1>6, <1>7, <1>8 DEF Control

-----------------------------------------------------------------------------
(* Control holds in every step: the steps of the body.                     *)

LEMMA ZeroThread == 0 \in Thread
BY ThreadNat DEF Thread

LEMMA Place ==
  ASSUME Typed, NEW t \in Thread, NEW p, Goto(t, p)
  PROVE  pc'[t] = p /\ \A u \in Thread : u # t => pc'[u] = pc[u]
BY DEF Typed, Goto

\* A thread in the body has not ended, and slaves are there in a full team only.
LEMMA InsideFacts ==
  ASSUME Control, NEW t \in Thread, InBody(t)
  PROVE  /\ Running /\ region > 0 /\ ~Ended(t) /\ ~Passed(t)
         /\ t # 0 => Team = T /\ t \in newWork
<1>1. ShapeOf(t) /\ pc[t] \in {"body", "next", "end", "barrier"}
  BY DEF Control, Shape, InBody
<1>2. region > 0
  BY <1>1 DEF ShapeOf, InBody
<1>3. CASE t = 0
  BY <1>1, <1>2, <1>3 DEF Running, Ended, Passed
<1>4. CASE t # 0
  <2>1. t \in Slave /\ ~Resting(t)
    BY <1>1, <1>4 DEF Slave, Resting
  <2>2. Running /\ Team # 1
    BY <2>1 DEF Control, RestInv
  <2>3. Team = T
    BY <1>2, <2>2, RegionOk DEF Control
  <2>4. t \in newWork
    BY <2>1, <2>2, <2>3 DEF Control, TeamInv
  <2> QED BY <1>2, <1>4, <2>2, <2>3, <2>4 DEF Ended, Passed
<1> QED BY <1>3, <1>4

\* A step inside the body.
Inside(t) ==
  /\ InBody(t) /\ InBody(t)' /\ ShapeOf(t)'
  /\ UNCHANGED forkVars
  /\ \A u \in Thread : u # t => Same(u)
  /\ Team = T =>
       \A c \in DOMAIN Body : ~Body[c].nowait => (Beyond(t, c)' <=> Beyond(t, c))

LEMMA InsideKeeps ==
  ASSUME Control, Typed', NEW t \in Thread, Inside(t)
  PROVE  Control'
<1>1. /\ InBody(t) /\ InBody(t)' /\ ShapeOf(t)'
      /\ UNCHANGED <<prog, region, newWork, idx, asleep>>
      /\ \A u \in Thread : u # t => Same(u)
  BY DEF Inside, forkVars
<1>2. /\ Running /\ region > 0 /\ ~Ended(t) /\ ~Passed(t)
      /\ t # 0 => Team = T /\ t \in newWork
  BY <1>1, InsideFacts
<1>3. pc[t] \in {"body", "next", "end", "barrier"} /\ pc'[t] \in {"body", "next", "end", "barrier"}
  BY <1>1 DEF InBody
<1>4. ~Ended(t)' /\ ~Passed(t)'
  BY <1>1, <1>2, <1>3 DEF Ended, Passed
<1>5. Running' <=> Running
  <2>1. CASE t = 0
    BY <1>3, <2>1 DEF Running
  <2>2. CASE t # 0
    BY <1>1, <2>2, ZeroThread DEF Running, Same
  <2> QED BY <2>1, <2>2
<1>6. ASSUME Running, Team = T PROVE InRegion(t)
  <2>1. \A c \in DOMAIN Body : ~Body[c].nowait => (Beyond(t, c)' <=> Beyond(t, c))
    BY <1>6 DEF Inside
  <2>2. t = 0 => idx = T
    BY <1>3, <1>6 DEF Control, TeamInv
  <2> QED BY <1>1, <1>2, <1>4, <2>1, <2>2 DEF InRegion
<1>7. ASSUME t # 0, Young PROVE Awake(t)
  <2>1. t \in Slave /\ pc'[t] \notin {"sleep", "join"}
    BY <1>3, <1>7 DEF Slave
  <2>2. t < idx => t \notin asleep
    BY <1>2, <1>7, <2>1 DEF Control, AwakeInv
  <2> QED BY <1>1, <2>1, <2>2 DEF Awake
<1>8. T # 1
  BY ThreadNat
<1>9. Moves(t)
  BY <1>1, <1>2, <1>3, <1>5, <1>6, <1>7, <1>8 DEF Moves
<1> QED BY <1>9, MovesKeeps

\* From one place of the construct to the next one.
Walk(t) ==
  /\ pc[t] \in {"body", "next"} /\ at[t] \in DOMAIN Body
  /\ pc'[t] \in {"next", "end"}
  /\ pc'[t] = "next" => Current(t).kind = "dynamic"
  /\ \A u \in Thread : u # t => pc'[u] = pc[u]
  /\ UNCHANGED <<forkVars, at, status>>

LEMMA WalkControl ==
  ASSUME Control, Typed', NEW t \in Thread, Walk(t)
  PROVE  Control'
<1>1. /\ pc[t] \in {"body", "next"} /\ pc'[t] \in {"next", "end"}
      /\ UNCHANGED <<prog, region, newWork, idx, asleep, at, status>>
  BY DEF Walk, forkVars
<1>2. InBody(t) /\ InBody(t)'
  BY <1>1 DEF InBody
<1>3. region > 0
  BY <1>2, InsideFacts
<1>4. DOMAIN Body = 1..Len(Body) /\ Len(Body) \in Nat
  BY <1>3, RegionOk DEF Control
<1>5. status[t] \notin {"wait", "go"}
  BY <1>1 DEF Control, Shape, ShapeOf
<1>6. ShapeOf(t)'
  <2>1. at[t] \in Nat /\ at[t] <= Len(Body)
    BY <1>4 DEF Walk
  <2>2. Len(Body)' = Len(Body) /\ Current(t)' = Current(t)
    BY <1>1 DEF Body, Current
  <2>3. pc'[t] = "next" => Current(t).kind = "dynamic"
    BY DEF Walk
  <2> QED BY <1>1, <1>2, <1>3, <1>4, <1>5, <2>1, <2>2, <2>3 DEF ShapeOf
<1>7. \A c : Beyond(t, c)' <=> Beyond(t, c)
  <2>1. ~Ended(t) /\ ~Ended(t)'
    BY <1>1, <1>2, InsideFacts DEF Ended
  <2> QED BY <1>1, <1>2, <2>1 DEF Beyond
<1>8. \A u \in Thread : u # t => Same(u)
  BY <1>1 DEF Walk, Same
<1>9. Inside(t)
  BY <1>1, <1>2, <1>6, <1>7, <1>8 DEF Inside, forkVars
<1> QED BY <1>9, InsideKeeps

\* The end of a construct.
LEMMA EndConstructFacts ==
  ASSUME Control, \A p \in Programs : Orderly(p), NEW t \in Thread, EndConstruct(t)
  PROVE  /\ pc[t] = "end" /\ at[t] \in DOMAIN Body /\ status[t] = "out"
         /\ \/ /\ Current(t).nowait \/ Team = 1
               /\ at' = [at EXCEPT ![t] = at[t] + 1] /\ Goto(t, "body") /\ UNCHANGED status
            \/ /\ ~Current(t).nowait /\ Team = T
               /\ Goto(t, "barrier") /\ status' = [status EXCEPT ![t] = "wait"]
               /\ UNCHANGED at
         /\ UNCHANGED <<forkVars, loopVars, singleCount, ran>>
<1>1. /\ pc[t] = "end" /\ UNCHANGED <<forkVars, loopVars, singleCount, ran>>
      /\ IF Current(t).nowait \/ Team = 1 \/ t \in asleep
         THEN at' = [at EXCEPT ![t] = at[t] + 1] /\ Goto(t, "body") /\ UNCHANGED status
         ELSE Goto(t, "barrier") /\ status' = [status EXCEPT ![t] = "wait"] /\ UNCHANGED at
  BY DEF EndConstruct, NextConstruct, B!Arrive
<1>2. InBody(t)
  BY <1>1 DEF InBody
<1>3. /\ Running /\ region > 0 /\ ~Passed(t)
      /\ t # 0 => Team = T /\ t \in newWork
  BY <1>2, InsideFacts
<1>4. /\ at[t] \in DOMAIN Body /\ Team \in {1, T}
  <2>1. at[t] \in Nat \ {0} /\ at[t] <= Len(Body)
    BY <1>1 DEF Control, Typed, Shape, ShapeOf
  <2> QED BY <1>3, <2>1, RegionOk DEF Control
<1>5. status[t] = "out"
  BY <1>1 DEF Control, Typed, Shape, ShapeOf
<1>6. ASSUME t \in asleep, ~Current(t).nowait, Team = T PROVE FALSE
  <2>1. Young
    BY <1>3, <1>4, <1>6, Barred DEF Current
  <2>2. t \in Slave
    BY <1>6 DEF Control, Typed
  <2>3. t \in newWork
    BY <1>3, <2>2 DEF Slave
  <2>4. t < idx
    BY <1>3, <1>6, <2>3 DEF Control, TeamInv
  <2> QED BY <1>3, <1>6, <2>1, <2>2, <2>4 DEF Control, AwakeInv
<1> QED BY <1>1, <1>4, <1>5, <1>6

LEMMA EndConstructControl ==
  ASSUME Control, Typed', \A p \in Programs : Orderly(p), NEW t \in Thread, EndConstruct(t)
  PROVE  Control'
<1>1. /\ pc[t] = "end" /\ at[t] \in DOMAIN Body /\ status[t] = "out"
      /\ \/ /\ Current(t).nowait \/ Team = 1
            /\ at' = [at EXCEPT ![t] = at[t] + 1] /\ Goto(t, "body") /\ UNCHANGED status
         \/ /\ ~Current(t).nowait /\ Team = T
            /\ Goto(t, "barrier") /\ status' = [status EXCEPT ![t] = "wait"]
            /\ UNCHANGED at
      /\ UNCHANGED <<prog, region, newWork, idx, asleep>>
  BY EndConstructFacts DEF forkVars
<1>2. InBody(t)
  BY <1>1 DEF InBody
<1>3. Running /\ region > 0 /\ ~Ended(t)
  BY <1>2, InsideFacts
<1>4. DOMAIN Body = 1..Len(Body) /\ Len(Body) \in Nat
  BY <1>3, RegionOk DEF Control
<1>5. /\ at \in [Thread -> Nat \ {0}] /\ status \in [Thread -> {"out", "wait", "go"}] /\ Typed
  BY DEF Control, Typed
<1>6. Len(Body)' = Len(Body) /\ Body' = Body /\ Team' = Team
  BY <1>1 DEF Body, Team
<1>10. T # 1
  BY ThreadNat
<1>7. CASE /\ Current(t).nowait \/ Team = 1
           /\ at' = [at EXCEPT ![t] = at[t] + 1] /\ Goto(t, "body") /\ UNCHANGED status
  <2>1. /\ at'[t] = at[t] + 1 /\ pc'[t] = "body" /\ status'[t] = "out"
        /\ \A u \in Thread : u # t => at'[u] = at[u] /\ pc'[u] = pc[u] /\ status'[u] = status[u]
    BY <1>1, <1>5, <1>7, Place
  <2>2. InBody(t)' /\ ~Ended(t)'
    BY <1>1, <1>3, <2>1 DEF InBody, Ended
  <2>3. ShapeOf(t)'
    BY <1>1, <1>3, <1>4, <1>6, <2>1, <2>2 DEF ShapeOf
  <2>4. ASSUME Team = T, NEW c \in DOMAIN Body, ~Body[c].nowait
        PROVE  Beyond(t, c)' <=> Beyond(t, c)
    <3>1. c # at[t]
      BY <1>7, <1>10, <2>4 DEF Current
    <3>2. c \in Nat /\ at[t] \in Nat
      BY <1>4, <1>5
    <3> QED BY <1>1, <1>2, <1>3, <2>1, <2>2, <3>1, <3>2 DEF Beyond
  <2>5. \A u \in Thread : u # t => Same(u)
    BY <1>1, <2>1 DEF Same
  <2>6. Inside(t)
    BY <1>1, <1>2, <2>2, <2>3, <2>4, <2>5 DEF Inside, forkVars
  <2> QED BY <2>6, InsideKeeps
<1>8. CASE /\ ~Current(t).nowait /\ Team = T
           /\ Goto(t, "barrier") /\ status' = [status EXCEPT ![t] = "wait"]
           /\ UNCHANGED at
  <2>1. /\ at'[t] = at[t] /\ pc'[t] = "barrier" /\ status'[t] = "wait"
        /\ \A u \in Thread : u # t => at'[u] = at[u] /\ pc'[u] = pc[u] /\ status'[u] = status[u]
    BY <1>1, <1>5, <1>8, Place
  <2>2. InBody(t)' /\ ~Ended(t)'
    BY <1>1, <1>3, <2>1 DEF InBody, Ended
  <2>3. ShapeOf(t)'
    <3>1. Current(t)' = Current(t)
      BY <1>6, <2>1 DEF Current
    <3> QED BY <1>1, <1>3, <1>4, <1>6, <1>8, <2>1, <2>2, <3>1 DEF ShapeOf
  <2>4. \A c : Beyond(t, c)' <=> Beyond(t, c)
    BY <1>1, <1>2, <1>3, <2>1, <2>2 DEF Beyond
  <2>5. \A u \in Thread : u # t => Same(u)
    BY <1>1, <2>1 DEF Same
  <2>6. Inside(t)
    BY <1>1, <1>2, <2>2, <2>3, <2>4, <2>5 DEF Inside, forkVars
  <2> QED BY <2>6, InsideKeeps
<1> QED BY <1>1, <1>7, <1>8

LEMMA LeaveBarrierControl ==
  ASSUME Control, Typed', NEW t \in Thread, LeaveBarrier(t)
  PROVE  Control'
<1>1. /\ pc[t] = "barrier" /\ status[t] = "go" /\ Goto(t, "body")
      /\ status' = [status EXCEPT ![t] = "out"] /\ at' = [at EXCEPT ![t] = at[t] + 1]
      /\ UNCHANGED <<prog, region, newWork, idx, asleep>>
  BY DEF LeaveBarrier, NextConstruct, B!Leave, forkVars
<1>2. InBody(t)
  BY <1>1 DEF InBody
<1>3. Running /\ region > 0 /\ ~Ended(t)
  BY <1>2, InsideFacts
<1>4. DOMAIN Body = 1..Len(Body) /\ Len(Body) \in Nat
  BY <1>3, RegionOk DEF Control
<1>5. /\ at \in [Thread -> Nat \ {0}] /\ status \in [Thread -> {"out", "wait", "go"}] /\ Typed
      /\ at[t] <= Len(Body)
  BY <1>1 DEF Control, Typed, Shape, ShapeOf
<1>6. Len(Body)' = Len(Body)
  BY <1>1 DEF Body
<1>7. /\ at'[t] = at[t] + 1 /\ pc'[t] = "body" /\ status'[t] = "out"
      /\ \A u \in Thread : u # t => at'[u] = at[u] /\ pc'[u] = pc[u] /\ status'[u] = status[u]
  BY <1>1, <1>5, Place
<1>8. InBody(t)' /\ ~Ended(t)'
  BY <1>1, <1>3, <1>7 DEF InBody, Ended
<1>9. ShapeOf(t)'
  BY <1>1, <1>3, <1>4, <1>5, <1>6, <1>7, <1>8 DEF ShapeOf
<1>10. ASSUME NEW c \in DOMAIN Body PROVE Beyond(t, c)' <=> Beyond(t, c)
  <2>1. c \in Nat /\ at[t] \in Nat
    BY <1>4, <1>5
  <2> QED BY <1>1, <1>2, <1>3, <1>7, <1>8, <2>1 DEF Beyond
<1>11. \A u \in Thread : u # t => Same(u)
  BY <1>1, <1>7 DEF Same
<1>12. Inside(t)
  BY <1>1, <1>2, <1>8, <1>9, <1>10, <1>11 DEF Inside, forkVars
<1> QED BY <1>12, InsideKeeps

-----------------------------------------------------------------------------
(* Control holds in every step: fork, join and the release of a barrier.   *)

LEMMA BeginBodyFacts ==
  ASSUME Control, NEW t \in Thread, BeginBody(t)
  PROVE  /\ t = 0 => pc[0] = "fork" /\ idx >= Team
         /\ t # 0 => pc[t] = "idle" /\ t \in newWork
         /\ pc'[t] = "body" /\ status[t] = "out" /\ at[t] = 1
         /\ \A u \in Thread : u # t => Same(u)
         /\ UNCHANGED <<prog, region, newWork, idx, asleep, at, status>>
         /\ Running /\ region > 0 /\ (t # 0 => Team = T) /\ ~InBody(t) /\ ~Ended(t)
         /\ (Running' <=> Running) /\ InBody(t)' /\ ~Ended(t)'
<1>1. /\ t = 0 => pc[0] = "fork" /\ idx >= Team
      /\ t # 0 => pc[t] = "idle" /\ t \in newWork
      /\ Goto(t, "body")
      /\ UNCHANGED <<prog, region, newWork, idx, asleep, at, status>>
  BY DEF BeginBody, forkVars
<1>2. pc'[t] = "body" /\ \A u \in Thread : u # t => pc'[u] = pc[u]
  BY <1>1, Place DEF Control
<1>3. pc[t] \in {"fork", "idle"} /\ ~InBody(t)
  BY <1>1 DEF InBody
<1>4. ShapeOf(t) /\ status[t] \in {"out", "wait", "go"}
  BY DEF Control, Shape, Typed
<1>5. status[t] = "out" /\ at[t] = 1
  BY <1>3, <1>4 DEF ShapeOf
<1>6. Running /\ region > 0 /\ (t # 0 => Team = T)
  <2>1. Running
    BY <1>1 DEF Control, RestInv, Running
  <2>2. region > 0
    BY <2>1 DEF Control, RestInv
  <2>3. Team \in {1, T}
    BY <2>2, RegionOk DEF Control
  <2> QED BY <1>1, <2>1, <2>2, <2>3 DEF Control, RestInv
<1>7. (Running' <=> Running) /\ InBody(t)'
  BY <1>1, <1>2, <1>6, ZeroThread DEF Running, InBody
<1>8. ~Ended(t) /\ ~Ended(t)'
  BY <1>1, <1>2 DEF Ended
<1>9. \A u \in Thread : u # t => Same(u)
  BY <1>1, <1>2 DEF Same
<1> QED BY <1>1, <1>2, <1>3, <1>5, <1>6, <1>7, <1>8, <1>9

LEMMA BeginBodyControl ==
  ASSUME Control, Typed', NEW t \in Thread, BeginBody(t)
  PROVE  Control'
<1>1. /\ t = 0 => pc[0] = "fork" /\ idx >= Team
      /\ t # 0 => pc[t] = "idle" /\ t \in newWork
      /\ pc'[t] = "body" /\ status[t] = "out" /\ at[t] = 1
      /\ \A u \in Thread : u # t => Same(u)
      /\ UNCHANGED <<prog, region, newWork, idx, asleep, at, status>>
      /\ Running /\ region > 0 /\ (t # 0 => Team = T) /\ ~InBody(t) /\ ~Ended(t)
      /\ (Running' <=> Running) /\ InBody(t)' /\ ~Ended(t)'
  BY BeginBodyFacts
<1>2. DOMAIN Body = 1..Len(Body) /\ Len(Body) \in Nat /\ T # 1
  BY <1>1, RegionOk, ThreadNat DEF Control
<1>3. ShapeOf(t)'
  <2>1. Len(Body)' = Len(Body)
    BY <1>1 DEF Body
  <2> QED BY <1>1, <1>2, <2>1 DEF ShapeOf
<1>4. ~Passed(t) /\ ~Passed(t)'
  BY <1>1 DEF Passed
<1>5. ASSUME Team = T PROVE InRegion(t)
  <2>1. ASSUME NEW c \in DOMAIN Body PROVE ~Beyond(t, c) /\ ~Beyond(t, c)'
    <3>1. ~(at[t] > c) /\ at'[t] = at[t]
      BY <1>1, <1>2
    <3> QED BY <1>1, <3>1 DEF Beyond
  <2>2. t = 0 => idx = T
    <3>1. idx \in 1..T /\ T \in Nat
      BY ThreadNat DEF Control, Typed
    <3> QED BY <1>1, <1>5, <3>1
  <2>3. t # 0 => t \in newWork'
    BY <1>1
  <2> QED BY <1>1, <1>4, <2>1, <2>2, <2>3 DEF InRegion
<1>6. ASSUME t # 0, Young PROVE Awake(t)
  <2>1. t \in Slave /\ pc'[t] \notin {"sleep", "join"}
    BY <1>1, <1>6 DEF Slave
  <2>2. t < idx => t \notin asleep
    BY <1>4, <1>6, <2>1 DEF Control, AwakeInv
  <2> QED BY <1>1, <2>1, <2>2 DEF Awake
<1>7. Moves(t)
  BY <1>1, <1>2, <1>3, <1>5, <1>6 DEF Moves
<1> QED BY <1>7, MovesKeeps

\* The body returns.
LEMMA EndBodyFacts ==
  ASSUME Control, NEW t \in Thread, EndBody(t)
  PROVE  /\ pc[t] = "body" /\ at[t] > Len(Body) /\ status[t] = "out"
         /\ InBody(t) /\ Running /\ region > 0 /\ ~Ended(t) /\ ~Passed(t) /\ ~InBody(t)'
         /\ t # 0 => Team = T /\ t \in newWork
         /\ newWork' = newWork \ {t} /\ at'[t] = 1
         /\ UNCHANGED <<prog, region, idx, asleep>>
         /\ \A u \in Thread : u # t => Same(u)
         /\ Team = 1 => t = 0 /\ pc'[0] = "serial" /\ UNCHANGED status
         /\ Team = T => pc'[t] = "join" /\ status'[t] = "wait" /\ Ended(t)'
         /\ Team \in {1, T}
<1>1. /\ pc[t] = "body" /\ at[t] > Len(Body)
      /\ newWork' = newWork \ {t} /\ at' = [at EXCEPT ![t] = 1]
      /\ Team = 1 => Goto(t, "serial") /\ UNCHANGED status
      /\ Team # 1 => Goto(t, "join") /\ status' = [status EXCEPT ![t] = "wait"]
      /\ UNCHANGED <<prog, region, idx, asleep>>
  BY DEF EndBody, B!Arrive
<1>2. InBody(t)
  BY <1>1 DEF InBody
<1>3. /\ Running /\ region > 0 /\ ~Ended(t) /\ ~Passed(t)
      /\ t # 0 => Team = T /\ t \in newWork
  BY <1>2, InsideFacts
<1>4. /\ at \in [Thread -> Nat \ {0}] /\ status \in [Thread -> {"out", "wait", "go"}] /\ Typed
      /\ status[t] = "out"
  BY <1>1 DEF Control, Typed, Shape, ShapeOf
<1>5. Team \in {1, T} /\ T # 1
  BY <1>3, RegionOk, ThreadNat DEF Control
<1>6. Team = 1 => t = 0 /\ pc'[t] = "serial" /\ \A u \in Thread : u # t => pc'[u] = pc[u]
  BY <1>1, <1>3, <1>4, <1>5, Place
<1>7. Team = T => /\ pc'[t] = "join" /\ status'[t] = "wait"
                  /\ \A u \in Thread : u # t => pc'[u] = pc[u] /\ status'[u] = status[u]
  BY <1>1, <1>4, <1>5, Place
<1>8. at'[t] = 1 /\ \A u \in Thread : u # t => at'[u] = at[u]
  BY <1>1, <1>4
<1>9. \A u \in Thread : u # t => Same(u)
  BY <1>1, <1>5, <1>6, <1>7, <1>8 DEF Same
<1>10. ~InBody(t)'
  BY <1>5, <1>6, <1>7 DEF InBody
<1>11. Team = T => Ended(t)'
  <2>1. t # 0 /\ Team = T => t < idx
    BY <1>3 DEF Control, TeamInv
  <2> QED BY <1>1, <1>7, <2>1 DEF Ended
<1> QED BY <1>1, <1>2, <1>3, <1>4, <1>5, <1>6, <1>7, <1>8, <1>9, <1>10, <1>11

LEMMA EndBodyTeam ==
  ASSUME Control, Typed', NEW t \in Thread, EndBody(t), Team = T
  PROVE  Control'
<1>1. /\ pc[t] = "body" /\ at[t] > Len(Body) /\ status[t] = "out"
      /\ InBody(t) /\ Running /\ region > 0 /\ ~Ended(t) /\ ~Passed(t) /\ ~InBody(t)'
      /\ t # 0 => t \in newWork
      /\ newWork' = newWork \ {t} /\ at'[t] = 1
      /\ UNCHANGED <<prog, region, idx, asleep>>
      /\ \A u \in Thread : u # t => Same(u)
      /\ pc'[t] = "join" /\ status'[t] = "wait" /\ Ended(t)'
  BY EndBodyFacts
<1>2. DOMAIN Body = 1..Len(Body) /\ Len(Body) \in Nat /\ T # 1
  BY <1>1, RegionOk, ThreadNat DEF Control
<1>3. Running' <=> Running
  BY <1>1, ZeroThread DEF Running, Same
<1>4. ShapeOf(t)'
  BY <1>1 DEF ShapeOf
<1>5. ~Passed(t)'
  BY <1>1 DEF Passed
<1>6. InRegion(t)
  <2>1. ASSUME NEW c \in DOMAIN Body PROVE Beyond(t, c) /\ Beyond(t, c)'
    <3>1. at[t] \in Nat
      BY DEF Control, Typed
    <3>2. at[t] > c
      BY <1>1, <1>2, <3>1
    <3> QED BY <1>1, <3>2 DEF Beyond
  <2>2. t = 0 => idx = T
    BY <1>1 DEF Control, TeamInv
  <2> QED BY <1>1, <1>5, <2>1, <2>2 DEF InRegion
<1>7. ASSUME t # 0, Young PROVE Awake(t)
  <2>1. t \in Slave
    BY <1>7 DEF Slave
  <2>2. t < idx => t \notin asleep
    BY <1>1, <1>7, <2>1 DEF Control, AwakeInv
  <2> QED BY <1>1, <2>2 DEF Awake
<1>8. Moves(t)
  BY <1>1, <1>2, <1>3, <1>4, <1>6, <1>7 DEF Moves
<1> QED BY <1>8, MovesKeeps

\* The end of a region: the master is alone again.
LEMMA SerialKeeps ==
  ASSUME Control, Typed', Running, UNCHANGED <<prog, region, idx, asleep>>,
         pc'[0] = "serial", ShapeOf(0)', \A u \in Slave : Same(u),
         newWork' = {}, \A u \in Slave : Resting(u)
  PROVE  Control'
<1>1. ~Running'
  BY DEF Running
<1>2. ASSUME NEW u \in Slave PROVE ShapeOf(u)' /\ (Resting(u)' <=> Resting(u))
  <2>1. u \in Thread /\ Same(u) /\ ShapeOf(u)
    BY <1>2 DEF Slave, Control, Shape
  <2> QED BY <2>1, SameShape, SameMarks
<1>3. Shape'
  BY <1>2 DEF Shape, Slave
<1>4. RestInv'
  BY <1>1, <1>2 DEF RestInv
<1>5. TeamInv' /\ JoinInv' /\ BarrierInv'
  BY <1>1 DEF TeamInv, JoinInv, BarrierInv
<1>6. AwakeInv'
  <2> SUFFICES ASSUME Young' PROVE AwakeInv'
    BY DEF AwakeInv
  <2>1. \A r \in Full(prog) : r <= region => FALSE
    BY <1>1 DEF Young, Full
  <2>2. region > 0 /\ Team # T
    <3>1. region > 0
      BY DEF Control, RestInv
    <3>2. region \in DOMAIN prog /\ region \in Nat
      BY <3>1, RegionOk DEF Control
    <3> QED BY <2>1, <3>1, <3>2 DEF Full, Team
  <2>3. Young /\ idx = 1
    <3>1. Team = 1
      BY <2>2, RegionOk DEF Control
    <3> QED BY <2>1, <3>1 DEF Young, Control, RestInv
  <2>4. ASSUME NEW u \in Slave
        PROVE  /\ ~Ended(u)' => pc'[u] \notin {"sleep", "join"}
               /\ u < idx' /\ ~Passed(u)' => u \notin asleep'
    <3>1. u \in Nat /\ u # 0 /\ ~(u < idx)
      BY <2>3, <2>4, ThreadNat DEF Slave
    <3>2. ~Ended(u)
      BY <3>1 DEF Ended
    <3>3. pc[u] \notin {"sleep", "join"}
      BY <2>3, <3>2 DEF Control, AwakeInv
    <3> QED BY <3>1, <3>3 DEF Same
  <2> QED BY <2>3, <2>4 DEF AwakeInv
<1> QED BY <1>3, <1>4, <1>5, <1>6 DEF Control

LEMMA EndBodyAlone ==
  ASSUME Control, Typed', NEW t \in Thread, EndBody(t), Team = 1
  PROVE  Control'
<1>1. /\ t = 0 /\ pc'[0] = "serial" /\ Running /\ status[t] = "out" /\ UNCHANGED status
      /\ newWork' = newWork \ {t} /\ at'[t] = 1
      /\ UNCHANGED <<prog, region, idx, asleep>>
      /\ \A u \in Thread : u # t => Same(u)
  BY EndBodyFacts
<1>2. newWork = {} /\ \A u \in Slave : Resting(u)
  BY DEF Control, RestInv
<1>3. ShapeOf(0)'
  BY <1>1 DEF ShapeOf, InBody
<1>4. \A u \in Slave : Same(u)
  BY <1>1 DEF Slave
<1> QED BY <1>1, <1>2, <1>3, <1>4, SerialKeeps

LEMMA JoinFacts ==
  ASSUME Control, NEW t \in Thread, Join(t)
  PROVE  /\ pc[t] = "join" /\ status[t] = "go" /\ status'[t] = "out" /\ at[t] = 1
         /\ pc'[t] = (IF t = 0 THEN "serial" ELSE "sleep")
         /\ UNCHANGED <<prog, region, newWork, idx, asleep, at>>
         /\ \A u \in Thread : u # t => Same(u)
<1>1. /\ pc[t] = "join" /\ status[t] = "go" /\ Goto(t, IF t = 0 THEN "serial" ELSE "sleep")
      /\ status' = [status EXCEPT ![t] = "out"]
      /\ UNCHANGED <<prog, region, newWork, idx, asleep, at>>
  BY DEF Join, B!Leave, forkVars
<1>2. status \in [Thread -> {"out", "wait", "go"}] /\ Typed
  BY DEF Control, Typed
<1>3. PICK p : p = (IF t = 0 THEN "serial" ELSE "sleep")
  OBVIOUS
<1>4. pc'[t] = p /\ \A u \in Thread : u # t => pc'[u] = pc[u]
  BY <1>1, <1>2, <1>3, Place
<1>5. status'[t] = "out" /\ \A u \in Thread : u # t => status'[u] = status[u]
  BY <1>1, <1>2
<1>6. \A u \in Thread : u # t => Same(u)
  BY <1>1, <1>4, <1>5 DEF Same
<1>7. at[t] = 1
  BY <1>1 DEF Control, Shape, ShapeOf, InBody
<1> QED BY <1>1, <1>3, <1>4, <1>5, <1>6, <1>7

\* The barrier of the join has opened for all, or for none.
LEMMA AllPassed ==
  ASSUME Control, pc[0] = "join", status[0] = "go"
  PROVE  /\ Running /\ region > 0 /\ Team = T
         /\ \A u \in Thread : Ended(u)
         /\ newWork = {} /\ \A u \in Slave : Resting(u)
<1>1. Running /\ Team # 1 /\ region > 0
  BY DEF Control, RestInv, Running
<1>2. Team = T
  BY <1>1, RegionOk DEF Control
<1>3. Passed(0)
  BY DEF Passed, Ended
<1>4. \A u \in Thread : Passed(u)
  BY <1>1, <1>2, <1>3, ZeroThread DEF Control, JoinInv
<1>5. \A u \in Thread : Ended(u)
  BY <1>4 DEF Passed
<1>6. \A u \in Slave : u \notin newWork
  BY <1>5 DEF Slave, Ended
<1>7. newWork = {}
  BY <1>6 DEF Control, Typed
<1>8. ASSUME NEW u \in Slave PROVE Resting(u)
  <2>1. u \in Thread /\ u # 0 /\ ShapeOf(u)
    BY <1>8 DEF Slave, Control, Shape
  <2>2. ~InBody(u)
    BY <1>1, <1>2, <1>6, <1>8 DEF Control, TeamInv
  <2>3. pc[u] \in {"idle", "sleep", "join"} /\ status[u] \in {"out", "wait", "go"}
    BY <2>1, <2>2 DEF Control, Typed, ShapeOf, InBody
  <2>4. ~(pc[u] = "join" /\ status[u] = "wait")
    BY <1>4, <2>1 DEF Passed
  <2>5. pc[u] = "join" <=> status[u] \in {"wait", "go"}
    BY <2>1, <2>3 DEF ShapeOf
  <2> QED BY <2>3, <2>4, <2>5 DEF Resting
<1> QED BY <1>1, <1>2, <1>5, <1>7, <1>8

LEMMA JoinControl ==
  ASSUME Control, Typed', NEW t \in Thread, Join(t)
  PROVE  Control'
<1>1. /\ pc[t] = "join" /\ status[t] = "go" /\ status'[t] = "out" /\ at[t] = 1
      /\ pc'[t] = (IF t = 0 THEN "serial" ELSE "sleep")
      /\ UNCHANGED <<prog, region, newWork, idx, asleep, at>>
      /\ \A u \in Thread : u # t => Same(u)
  BY JoinFacts
<1>2. ShapeOf(t)'
  BY <1>1 DEF ShapeOf, InBody
<1>3. CASE t = 0
  <2>1. /\ Running /\ newWork' = {} /\ \A u \in Slave : Resting(u)
    BY <1>1, <1>3, AllPassed
  <2>2. \A u \in Slave : Same(u)
    BY <1>1, <1>3 DEF Slave
  <2> QED BY <1>1, <1>2, <1>3, <2>1, <2>2, SerialKeeps
<1>4. CASE t # 0
  <2>1. (Running' <=> Running) /\ (Ended(t)' <=> Ended(t)) /\ (Passed(t)' <=> Passed(t))
    BY <1>1, <1>4, ZeroThread DEF Running, Same, Ended, Passed
  <2>2. ~InBody(t) /\ ~InBody(t)' /\ Resting(t)'
    BY <1>1, <1>4 DEF InBody, Resting
  <2>3. \A c : Beyond(t, c)' <=> Beyond(t, c)
    BY <2>1, <2>2 DEF Beyond
  <2>4. InRegion(t)
    BY <1>4, <2>1, <2>2, <2>3 DEF InRegion
  <2>5. ASSUME Young PROVE Awake(t)
    <3>1. t \in Slave
      BY <1>4 DEF Slave
    <3>2. Ended(t) /\ (t < idx /\ ~Passed(t) => t \notin asleep)
      BY <1>1, <2>5, <3>1 DEF Control, AwakeInv
    <3> QED BY <1>1, <2>1, <3>2 DEF Awake
  <2>6. Moves(t)
    BY <1>1, <1>2, <1>4, <2>1, <2>2, <2>4, <2>5 DEF Moves
  <2> QED BY <2>6, MovesKeeps
<1> QED BY <1>3, <1>4

LEMMA FallAsleepControl ==
  ASSUME Control, Typed', NEW t \in Thread, FallAsleep(t)
  PROVE  Control'
<1>1. /\ pc[t] = "sleep" /\ Goto(t, "idle") /\ asleep' = asleep \union {t}
      /\ UNCHANGED <<prog, region, newWork, idx, at, status>>
  BY DEF FallAsleep
<1>2. pc'[t] = "idle" /\ \A u \in Thread : u # t => pc'[u] = pc[u]
  BY <1>1, Place DEF Control
<1>3. t # 0 /\ t \in Slave /\ ShapeOf(t)
  BY <1>1 DEF Control, Shape, ShapeOf, Slave
<1>4. ShapeOf(t)'
  BY <1>1, <1>2, <1>3 DEF ShapeOf, InBody
<1>5. \A u \in Thread : u # t => Same(u) /\ (u \in asleep' <=> u \in asleep)
  BY <1>1, <1>2 DEF Same
<1>6. /\ (Running' <=> Running) /\ (Ended(t)' <=> Ended(t)) /\ (Passed(t)' <=> Passed(t))
      /\ (Resting(t)' <=> Resting(t)) /\ ~InBody(t) /\ ~InBody(t)'
  BY <1>1, <1>2, <1>3, ZeroThread DEF Running, Ended, Passed, Resting, InBody
<1>7. \A c : Beyond(t, c)' <=> Beyond(t, c)
  BY <1>6 DEF Beyond
<1>8. ASSUME Running, Team = T PROVE InRegion(t)
  <2>1. Ended(t) \/ Resting(t)
    BY <1>3, <1>6, <1>8 DEF Control, TeamInv
  <2> QED BY <1>3, <1>6, <1>7, <2>1 DEF InRegion
<1>9. ~Running \/ Team = 1 => Resting(t)'
  BY <1>3, <1>6 DEF Control, RestInv
<1>10. ASSUME Young PROVE Awake(t)
  <2>1. Ended(t)
    BY <1>1, <1>3, <1>10 DEF Control, AwakeInv
  <2>2. Passed(t)
    BY <1>1, <2>1 DEF Passed
  <2> QED BY <1>6, <2>1, <2>2 DEF Awake
<1>11. Moves(t)
  BY <1>1, <1>3, <1>4, <1>5, <1>6, <1>8, <1>9, <1>10 DEF Moves
<1> QED BY <1>11, MovesKeeps

LEMMA ForkControl ==
  ASSUME Control, Typed', Fork
  PROVE  Control'
<1>1. /\ pc[0] = "serial" /\ region' = region + 1 /\ idx' = 1 /\ Goto(0, "fork")
      /\ UNCHANGED <<prog, newWork, asleep, at, status>>
  BY DEF Fork
<1>2. pc'[0] = "fork" /\ \A u \in Thread : u # 0 => pc'[u] = pc[u]
  BY <1>1, ZeroThread, Place DEF Control
<1>3. ~Running /\ Running' /\ newWork = {} /\ \A u \in Slave : Resting(u)
  BY <1>1, <1>2 DEF Running, Control, RestInv
<1>4. region \in Nat
  BY RegionsOk DEF Control, Typed
<1>5. ASSUME NEW u \in Slave
      PROVE  /\ ~InBody(u)' /\ Resting(u)' /\ ShapeOf(u)' /\ ~Ended(u)'
             /\ idx = 1 => ~Ended(u)
  <2>1. u \in Thread /\ u # 0 /\ u \in Nat
    BY <1>5, ThreadNat DEF Slave
  <2>2. pc[u] \in {"idle", "sleep", "join"} /\ pc'[u] = pc[u] /\ Resting(u)
    BY <1>2, <1>3, <1>5, <2>1 DEF Resting
  <2>3. ~InBody(u) /\ ~InBody(u)'
    BY <2>2 DEF InBody
  <2>4. ~(u < 1)
    BY <2>1
  <2>5. ~Ended(u)'
    BY <1>1, <2>1, <2>4 DEF Ended
  <2>6. idx = 1 => ~Ended(u)
    BY <2>1, <2>4 DEF Ended
  <2>7. ShapeOf(u)
    BY <2>1 DEF Control, Shape
  <2>8. ShapeOf(u)'
    BY <1>1, <2>2, <2>3, <2>7 DEF ShapeOf
  <2>9. Resting(u)'
    BY <1>1, <2>2 DEF Resting
  <2> QED BY <2>3, <2>5, <2>6, <2>8, <2>9
<1>6. ShapeOf(0)' /\ ~InBody(0)' /\ ~Ended(0)'
  <2>1. ShapeOf(0)
    BY ZeroThread DEF Control, Shape
  <2>2. ~InBody(0) /\ ~InBody(0)'
    BY <1>1, <1>2 DEF InBody
  <2> QED BY <1>1, <1>2, <2>1, <2>2 DEF ShapeOf, Ended
<1>7. Shape'
  BY <1>5, <1>6 DEF Shape, Slave
<1>8. RestInv'
  <2>1. region' > 0 /\ newWork' = {} /\ idx' = 1 /\ pc'[0] # "join"
    BY <1>1, <1>2, <1>3, <1>4
  <2> QED BY <1>5, <2>1 DEF RestInv
<1>9. \A u \in Thread : ~InBody(u)' /\ ~Ended(u)' /\ ~Passed(u)'
  <2>1. \A u \in Thread : ~InBody(u)' /\ ~Ended(u)'
    BY <1>5, <1>6 DEF Slave
  <2> QED BY <2>1 DEF Passed
<1>10. TeamInv'
  BY <1>1, <1>2, <1>3, <1>5, <1>9 DEF TeamInv, Slave
<1>11. JoinInv' /\ BarrierInv'
  BY <1>9 DEF JoinInv, BarrierInv, Beyond
<1>12. AwakeInv'
  <2> SUFFICES ASSUME Young' PROVE AwakeInv'
    BY DEF AwakeInv
  <2>1. ASSUME NEW r \in Full(prog), r <= region PROVE FALSE
    <3>1. r \in Nat /\ r \in Full(prog)'
      BY <1>1, <2>1, RegionsOk DEF Full, Control
    <3>2. r <= region' /\ r # region'
      BY <1>1, <1>4, <2>1, <3>1
    <3> QED BY <3>1, <3>2 DEF Young
  <2>2. Young /\ ~(idx > 1)
    BY <1>3, <2>1 DEF Young, Control, AwakeInv
  <2>3. idx = 1
    BY <2>2, ThreadNat DEF Control, Typed
  <2>4. ASSUME NEW u \in Slave
        PROVE  pc'[u] \notin {"sleep", "join"} /\ ~(u < idx')
    <3>1. ~Ended(u)
      BY <1>5, <2>3, <2>4
    <3>2. pc[u] \notin {"sleep", "join"} /\ u \in Thread /\ u # 0
      BY <2>2, <2>4, <3>1 DEF Control, AwakeInv, Slave
    <3>3. ~(u < 1)
      BY <3>2, ThreadNat
    <3> QED BY <1>1, <1>2, <3>2, <3>3
  <2> QED BY <1>1, <2>4 DEF AwakeInv
<1> QED BY <1>7, <1>8, <1>10, <1>11, <1>12 DEF Control

\* A slave that is woken is not in the region yet.
LEMMA WakeFacts ==
  ASSUME Control, Wake
  PROVE  /\ pc[0] = "fork" /\ idx \in Slave /\ idx' = idx + 1 /\ idx' \in 1..T
         /\ asleep' = asleep \ {idx} /\ newWork' = newWork \union {idx}
         /\ UNCHANGED <<prog, region, pc, at, status>>
         /\ Running /\ region > 0 /\ Team = T
         /\ ~InBody(idx) /\ ~Ended(idx)
         /\ \A u \in Thread :
              /\ InBody(u)' <=> InBody(u)
              /\ Ended(u)' <=> Ended(u)
              /\ Passed(u)' <=> Passed(u)
              /\ Resting(u)' <=> Resting(u)
              /\ \A c : /\ Begun(u, c)' <=> Begun(u, c)
                        /\ Finished(u, c)' <=> Finished(u, c)
                        /\ Beyond(u, c)' <=> Beyond(u, c)
<1>1. /\ pc[0] = "fork" /\ idx < Team /\ idx' = idx + 1
      /\ asleep' = asleep \ {idx} /\ newWork' = newWork \union {idx}
      /\ UNCHANGED <<prog, region, pc, at, status>>
  BY DEF Wake
<1>2. Running /\ region > 0
  BY <1>1 DEF Running, Control, RestInv
<1>3. idx \in 1..T /\ T \in Nat /\ T > 1 /\ Thread = 0..(T-1)
  BY ThreadNat DEF Control, Typed, Thread
<1>4. Team = T
  BY <1>1, <1>2, <1>3, RegionOk DEF Control
<1>5. idx \in Slave /\ idx' \in 1..T
  BY <1>1, <1>3, <1>4 DEF Slave
<1>6. idx \notin newWork /\ ~InBody(idx)
  BY <1>2, <1>3, <1>4, <1>5 DEF Control, TeamInv
<1>7. idx # 0 /\ ~Ended(idx)
  BY <1>3 DEF Ended
<1>8. ASSUME NEW u \in Thread PROVE Ended(u)' <=> Ended(u)
  <2>1. u \in Nat /\ idx \in Nat
    BY <1>3, ThreadNat
  <2>2. CASE u = idx
    BY <1>1, <1>7, <2>2 DEF Ended
  <2>3. CASE u # idx
    <3>1. (u < idx' <=> u < idx) /\ (u \in newWork' <=> u \in newWork)
      BY <1>1, <2>1, <2>3
    <3> QED BY <1>1, <3>1 DEF Ended
  <2> QED BY <2>2, <2>3
<1>9. \A u \in Thread : (InBody(u)' <=> InBody(u)) /\ (Resting(u)' <=> Resting(u))
  BY <1>1 DEF InBody, Resting
<1>10. ASSUME NEW u \in Thread
       PROVE  /\ Passed(u)' <=> Passed(u)
              /\ \A c : /\ Begun(u, c)' <=> Begun(u, c)
                        /\ Finished(u, c)' <=> Finished(u, c)
                        /\ Beyond(u, c)' <=> Beyond(u, c)
  BY <1>1, <1>8, <1>9 DEF Passed, Begun, Finished, Beyond
<1> QED BY <1>1, <1>2, <1>4, <1>5, <1>6, <1>7, <1>8, <1>9, <1>10

LEMMA WakeControl ==
  ASSUME Control, Typed', Wake
  PROVE  Control'
<1>1. /\ pc[0] = "fork" /\ idx \in Slave /\ idx' = idx + 1 /\ idx' \in 1..T
      /\ asleep' = asleep \ {idx} /\ newWork' = newWork \union {idx}
      /\ UNCHANGED <<prog, region, pc, at, status>>
      /\ Running /\ region > 0 /\ Team = T
      /\ \A u \in Thread :
           /\ InBody(u)' <=> InBody(u)
           /\ Ended(u)' <=> Ended(u)
           /\ Passed(u)' <=> Passed(u)
           /\ Resting(u)' <=> Resting(u)
           /\ \A c : Beyond(u, c)' <=> Beyond(u, c)
  BY WakeFacts
<1>2. Team' = Team /\ Body' = Body /\ Running' /\ (Young' <=> Young) /\ T # 1
  BY <1>1, ThreadNat DEF Team, Body, Running, Young, Full
<1>3. Slave \subseteq Thread /\ \A u \in Slave : u \in Nat
  BY ThreadNat DEF Slave
<1>4. Shape'
  <2> SUFFICES ASSUME NEW u \in Thread PROVE ShapeOf(u)'
    BY DEF Shape
  <2>1. ShapeOf(u)
    BY DEF Control, Shape
  <2>2. Current(u)' = Current(u) /\ Len(Body)' = Len(Body)
    BY <1>1, <1>2 DEF Current
  <2> QED BY <1>1, <1>2, <2>1, <2>2 DEF ShapeOf
<1>5. RestInv'
  BY <1>1, <1>2 DEF RestInv
<1>6. TeamInv'
  <2>1. \A u \in newWork' : u < idx'
    BY <1>1, <1>3 DEF Control, TeamInv, Typed
  <2>2. \A u \in Slave : InBody(u)' => u \in newWork'
    BY <1>1, <1>3 DEF Control, TeamInv
  <2>3. \A u \in Slave : Ended(u)' \/ Resting(u)' \/ InBody(u)'
    BY <1>1, <1>3 DEF Control, TeamInv
  <2> QED BY <1>1, <1>2, <2>1, <2>2, <2>3 DEF TeamInv
<1>7. JoinInv' /\ BarrierInv'
  BY <1>1, <1>2 DEF Control, JoinInv, BarrierInv
<1>8. AwakeInv'
  <2> SUFFICES ASSUME Young' PROVE AwakeInv'
    BY DEF AwakeInv
  <2>1. ASSUME NEW u \in Slave
        PROVE  /\ ~Ended(u)' => pc'[u] \notin {"sleep", "join"}
               /\ u < idx' /\ ~Passed(u)' => u \notin asleep'
    <3>1. /\ ~Ended(u) => pc[u] \notin {"sleep", "join"}
          /\ u < idx /\ ~Passed(u) => u \notin asleep
      BY <1>2 DEF Control, AwakeInv
    <3>2. u < idx' => u < idx \/ u = idx
      BY <1>1, <1>3
    <3> QED BY <1>1, <1>3, <3>1, <3>2
  <2> QED BY <1>1, <1>2, <2>1 DEF AwakeInv
<1> QED BY <1>4, <1>5, <1>6, <1>7, <1>8 DEF Control

\* All wait at the same place.
LEMMA ReleaseFacts ==
  ASSUME Control, Release
  PROVE  /\ \A u \in Thread : status[u] = "wait" /\ status'[u] = "go"
         /\ UNCHANGED <<prog, region, newWork, idx, asleep, pc, at>>
         /\ Running /\ region > 0 /\ Team = T
         /\ \/ \A u \in Thread : Ended(u)
            \/ /\ \A u \in Thread : ~Ended(u) /\ pc[u] = "barrier"
               /\ \A u, v \in Thread : at[u] = at[v]
<1>1. /\ \A u \in Thread : status[u] = "wait" /\ status'[u] = "go"
      /\ UNCHANGED <<prog, region, newWork, idx, asleep, pc, at>>
  BY DEF Release, B!Release, forkVars
<1>2. ASSUME NEW u \in Thread
      PROVE  /\ pc[u] \in {"barrier", "join"}
             /\ pc[u] = "barrier" => /\ at[u] \in Nat \ {0} /\ at[u] <= Len(Body) /\ Team = T
                                     /\ ~Current(u).nowait /\ InBody(u) /\ region > 0
  <2>1. ShapeOf(u) /\ at[u] \in Nat \ {0}
    BY DEF Control, Shape, Typed
  <2> QED BY <1>1, <2>1 DEF ShapeOf, InBody
<1>3. Running /\ region > 0 /\ Team = T
  <2>1. pc[0] \in {"barrier", "join"} /\ Running
    BY <1>2, ZeroThread DEF Running
  <2>2. region > 0
    BY <2>1 DEF Control, RestInv
  <2>3. Team # 1
    BY <1>2, <2>1, ZeroThread, ThreadNat DEF Control, RestInv
  <2> QED BY <2>1, <2>2, <2>3, RegionOk DEF Control
<1>4. DOMAIN Body = 1..Len(Body) /\ Len(Body) \in Nat
  BY <1>3, RegionOk DEF Control
<1>5. ASSUME NEW u \in Thread, ~Ended(u)
      PROVE  pc[u] = "barrier" /\ at[u] \in DOMAIN Body /\ ~Body[at[u]].nowait /\ ~Beyond(u, at[u])
  <2>1. pc[u] = "barrier"
    <3>1. CASE u = 0
      BY <1>2, <1>5, <3>1 DEF Ended
    <3>2. CASE u # 0
      <4>1. u \in Slave /\ ~Resting(u)
        BY <1>1, <1>2, <3>2 DEF Slave, Resting
      <4>2. InBody(u)
        BY <1>3, <1>5, <4>1 DEF Control, TeamInv
      <4> QED BY <1>2, <4>2 DEF InBody
    <3> QED BY <3>1, <3>2
  <2>2. at[u] \in DOMAIN Body /\ ~Body[at[u]].nowait /\ at[u] \in Nat
    BY <1>2, <1>4, <2>1 DEF Current
  <2>3. ~Beyond(u, at[u])
    BY <1>1, <1>5, <2>2 DEF Beyond
  <2> QED BY <2>1, <2>2, <2>3
<1>6. ASSUME NEW u \in Thread, NEW v \in Thread, ~Ended(u) PROVE ~Ended(v)
  <2>1. PICK c : c = at[u]
    OBVIOUS
  <2>2. c \in DOMAIN Body /\ ~Body[c].nowait /\ ~Beyond(u, c)
    BY <1>5, <1>6, <2>1
  <2>3. ~Beyond(v, c)
    BY <1>3, <2>2 DEF Control, BarrierInv
  <2> QED BY <2>3 DEF Beyond
<1>7. ASSUME NEW u \in Thread, NEW v \in Thread, ~Ended(u), ~Ended(v) PROVE ~(at[u] < at[v])
  <2>1. PICK c : c = at[u]
    OBVIOUS
  <2>2. c \in DOMAIN Body /\ ~Body[c].nowait /\ ~Beyond(u, c)
    BY <1>5, <1>7, <2>1
  <2>3. ~Beyond(v, c) /\ pc[v] = "barrier"
    BY <1>3, <1>5, <1>7, <2>2 DEF Control, BarrierInv
  <2>4. ~(at[v] > c) /\ at[v] \in Nat /\ c \in Nat
    BY <1>2, <1>4, <2>2, <2>3 DEF Beyond
  <2> QED BY <2>1, <2>4
<1>8. ASSUME NEW u \in Thread, NEW v \in Thread, ~Ended(u) PROVE at[u] = at[v]
  <2>1. ~Ended(v)
    BY <1>6, <1>8
  <2>2. ~(at[u] < at[v]) /\ ~(at[v] < at[u])
    BY <1>7, <1>8, <2>1
  <2> QED BY <2>2 DEF Control, Typed
<1> QED BY <1>1, <1>3, <1>5, <1>6, <1>8

LEMMA ReleaseControl ==
  ASSUME Control, Typed', Release
  PROVE  Control'
<1>1. /\ \A u \in Thread : status[u] = "wait" /\ status'[u] = "go"
      /\ UNCHANGED <<prog, region, newWork, idx, asleep, pc, at>>
      /\ Running /\ region > 0 /\ Team = T
      /\ \/ \A u \in Thread : Ended(u)
         \/ /\ \A u \in Thread : ~Ended(u) /\ pc[u] = "barrier"
            /\ \A u, v \in Thread : at[u] = at[v]
  BY ReleaseFacts
<1>2. Team' = Team /\ Body' = Body /\ Running' /\ (Young' <=> Young) /\ T # 1
  BY <1>1, ThreadNat DEF Team, Body, Running, Young, Full
<1>3. Slave \subseteq Thread
  BY DEF Slave
<1>4. \A u \in Thread : (InBody(u)' <=> InBody(u)) /\ (Ended(u)' <=> Ended(u))
  BY <1>1 DEF InBody, Ended
<1>5. \A u \in Thread : Passed(u)' <=> Ended(u)
  BY <1>1, <1>4 DEF Passed
<1>6. Shape'
  <2> SUFFICES ASSUME NEW u \in Thread PROVE ShapeOf(u)'
    BY DEF Shape
  <2>1. ShapeOf(u) /\ (InBody(u)' <=> InBody(u))
    BY <1>4 DEF Control, Shape
  <2>2. Current(u)' = Current(u) /\ Len(Body)' = Len(Body)
    BY <1>1, <1>2 DEF Current
  <2> QED BY <1>1, <1>2, <2>1, <2>2 DEF ShapeOf
<1>7. RestInv'
  BY <1>1, <1>2 DEF RestInv
<1>8. TeamInv'
  <2>1. \A u \in Slave : Ended(u)' \/ Resting(u)' \/ InBody(u)'
    <3> SUFFICES ASSUME NEW u \in Slave PROVE Ended(u) \/ InBody(u)
      BY <1>3, <1>4
    <3>1. ~Resting(u)
      BY <1>1, <1>3 DEF Resting
    <3> QED BY <1>1, <3>1 DEF Control, TeamInv
  <2> QED BY <1>1, <1>2, <1>3, <1>4, <2>1 DEF Control, TeamInv
<1>9. JoinInv'
  BY <1>1, <1>5 DEF JoinInv
<1>10. BarrierInv'
  <2> SUFFICES ASSUME NEW u \in Thread, NEW v \in Thread, NEW c \in DOMAIN Body, Beyond(u, c)'
               PROVE  Beyond(v, c)'
    BY <1>2 DEF BarrierInv
  <2>1. CASE \A w \in Thread : Ended(w)
    BY <1>4, <2>1 DEF Beyond
  <2>2. CASE ~Ended(u) /\ ~Ended(v) /\ pc[u] = "barrier" /\ pc[v] = "barrier" /\ at[u] = at[v]
    BY <1>1, <1>4, <2>2 DEF Beyond, InBody
  <2> QED BY <1>1, <2>1, <2>2
<1>11. AwakeInv'
  <2> SUFFICES ASSUME Young' PROVE AwakeInv'
    BY DEF AwakeInv
  <2>1. \A u \in Thread : Passed(u) => Passed(u)'
    BY <1>5 DEF Passed
  <2> QED BY <1>1, <1>2, <1>3, <1>4, <2>1 DEF Control, AwakeInv
<1> QED BY <1>6, <1>7, <1>8, <1>9, <1>10, <1>11 DEF Control

-----------------------------------------------------------------------------
(* Types, and Control in every step.                                       *)

\* A thread that calls a construct.
LEMMA CallFacts ==
  ASSUME Control, NEW t \in Thread, NEW kinds, Calls(t, kinds)
  PROVE  /\ pc[t] = "body" /\ at[t] \in DOMAIN Body /\ Current(t) \in Construct
         /\ Current(t).kind \in kinds /\ InBody(t) /\ region > 0 /\ Running
<1>1. pc[t] = "body" /\ at[t] \in DOMAIN Body /\ Current(t).kind \in kinds
  BY DEF Calls
<1>2. InBody(t)
  BY <1>1 DEF InBody
<1>3. region > 0 /\ Running
  BY <1>2, InsideFacts
<1>4. Current(t) \in Construct
  BY <1>1, <1>3, RegionOk DEF Control, Current
<1> QED BY <1>1, <1>2, <1>3, <1>4

LEMMA NextPlaceFacts ==
  ASSUME Control, NEW t \in Thread, pc[t] = "next"
  PROVE  /\ at[t] \in DOMAIN Body /\ Current(t) \in Construct
         /\ Current(t).kind = "dynamic" /\ InBody(t) /\ region > 0 /\ Running
<1>1. InBody(t)
  BY DEF InBody
<1>2. region > 0 /\ Running
  BY <1>1, InsideFacts
<1>3. at[t] \in Nat \ {0} /\ at[t] <= Len(Body) /\ Current(t).kind = "dynamic"
  BY DEF Control, Typed, Shape, ShapeOf
<1>4. at[t] \in DOMAIN Body
  BY <1>2, <1>3, RegionOk DEF Control
<1> QED BY <1>1, <1>2, <1>3, <1>4, RegionOk DEF Control, Current

LEMMA TypedBounds ==
  ASSUME Typed, NEW c \in Construct
  PROVE  /\ BoundsOf(c) \in [lower : Int, upper : Int, incr : Int, chunk : Nat]
         /\ [BoundsOf(c) EXCEPT !.chunk = bounds.chunk]
              \in [lower : Int, upper : Int, incr : Int, chunk : Nat]
         /\ bounds.lower \in Int /\ bounds.chunk \in Nat /\ bounds.incr \in Int
BY LoopFields DEF Typed, BoundsOf

LEMMA TypedStep ==
  ASSUME Control, Next
  PROVE  Typed'
<1>1. /\ prog \in Programs
      /\ region \in 0..Len(prog)
      /\ newWork \subseteq Slave /\ idx \in 1..T
      /\ asleep \subseteq Slave
      /\ pc \in [Thread -> {"serial", "fork", "idle", "body", "next", "end",
                            "barrier", "join", "sleep"}]
      /\ at \in [Thread -> Nat \ {0}]
      /\ status \in [Thread -> {"out", "wait", "go"}]
      /\ myLoop \in [Thread -> Nat] /\ teamLoop \in Nat
      /\ bounds \in [lower : Int, upper : Int, incr : Int, chunk : Nat]
      /\ taken \in BOOLEAN /\ singleCount \in Nat
      /\ Typed
  BY DEF Control, Typed
<1>2. T \in Nat /\ T > 1 /\ Thread = 0..(T-1)
  BY ThreadNat DEF Thread
<1>3. ASSUME NEW t \in Thread, NEW p \in {"serial", "fork", "idle", "body", "next", "end",
                                         "barrier", "join", "sleep"}, Goto(t, p)
      PROVE  pc' \in [Thread -> {"serial", "fork", "idle", "body", "next", "end",
                                 "barrier", "join", "sleep"}]
  BY <1>1, <1>3 DEF Goto
<1>4. CASE Fork
  <2>1. Goto(0, "fork") /\ region' \in 0..Len(prog)
    BY <1>1, <1>4, RegionsOk DEF Fork
  <2>2. pc' \in [Thread -> {"serial", "fork", "idle", "body", "next", "end",
                            "barrier", "join", "sleep"}]
    BY <1>3, <2>1, ZeroThread
  <2>3. /\ idx' = 1 /\ teamLoop' = 0 /\ taken' = FALSE
        /\ UNCHANGED <<prog, newWork, asleep, at, status, myLoop, bounds, singleCount>>
    BY <1>4 DEF Fork
  <2>4. idx' \in 1..T
    BY <1>2, <2>3
  <2> QED BY <1>1, <2>1, <2>2, <2>3, <2>4 DEF Typed
<1>5. CASE Wake
  <2>1. idx \in Slave /\ idx' \in 1..T /\ idx \in Thread
    BY <1>5, WakeFacts DEF Slave
  <2>2. newWork' \subseteq Slave /\ asleep' \subseteq Slave /\ myLoop' \in [Thread -> Nat]
    BY <1>1, <1>5, <2>1 DEF Wake
  <2> QED BY <1>1, <1>5, <2>1, <2>2 DEF Wake, Typed
<1>6. CASE Release
  <2>1. status' \in [Thread -> {"out", "wait", "go"}]
    BY <1>6 DEF Release, B!Release
  <2> QED BY <1>1, <1>6, <2>1 DEF Release, forkVars, loopVars, Typed
<1>7. ASSUME NEW t \in Thread, BeginBody(t) PROVE Typed'
  <2>1. Goto(t, "body")
    BY <1>7 DEF BeginBody
  <2> QED BY <1>1, <1>3, <1>7, <2>1 DEF BeginBody, forkVars, loopVars, Typed
<1>8. ASSUME NEW t \in Thread, EndBody(t) PROVE Typed'
  <2>1. Goto(t, "serial") \/ Goto(t, "join")
    BY <1>8 DEF EndBody
  <2>2. status' \in [Thread -> {"out", "wait", "go"}]
    BY <1>1, <1>8 DEF EndBody, B!Arrive
  <2>3. at' \in [Thread -> Nat \ {0}] /\ newWork' \subseteq Slave
    BY <1>1, <1>8 DEF EndBody
  <2> QED BY <1>1, <1>3, <1>8, <2>1, <2>2, <2>3 DEF EndBody, loopVars, Typed
<1>9. ASSUME NEW t \in Thread, Join(t) PROVE Typed'
  <2>1. Goto(t, "serial") \/ Goto(t, "sleep")
    BY <1>9 DEF Join
  <2>2. status' \in [Thread -> {"out", "wait", "go"}]
    BY <1>1, <1>9 DEF Join, B!Leave
  <2> QED BY <1>1, <1>3, <1>9, <2>1, <2>2 DEF Join, forkVars, loopVars, Typed
<1>10. ASSUME NEW t \in Thread, FallAsleep(t) PROVE Typed'
  <2>1. Goto(t, "idle")
    BY <1>10 DEF FallAsleep
  <2>2. t # 0
    BY <1>10 DEF FallAsleep, Control, Shape, ShapeOf
  <2>3. asleep' \subseteq Slave
    BY <1>1, <1>10, <2>2 DEF FallAsleep, Slave
  <2> QED BY <1>1, <1>3, <1>10, <2>1, <2>3 DEF FallAsleep, loopVars, Typed
<1>11. ASSUME NEW t \in Thread, StaticInit(t) PROVE Typed'
  <2>1. Goto(t, "end")
    BY <1>11 DEF StaticInit
  <2> QED BY <1>1, <1>3, <1>11, <2>1 DEF StaticInit, forkVars, loopVars, Typed
<1>12. ASSUME NEW t \in Thread, SchedulerInit(t) PROVE Typed'
  <2>1. Goto(t, "next") /\ Calls(t, {"dynamic"})
    BY <1>12 DEF SchedulerInit
  <2>2. Current(t) \in Construct
    BY <2>1, CallFacts
  <2>3. PICK c \in Construct : c = Current(t)
    BY <2>2
  <2>4. bounds' = bounds \/ bounds' = BoundsOf(c) \/ bounds' = [BoundsOf(c) EXCEPT !.chunk = bounds.chunk]
    BY <1>12, <2>3 DEF SchedulerInit
  <2>5. bounds' \in [lower : Int, upper : Int, incr : Int, chunk : Nat]
    BY <1>1, <2>4, TypedBounds
  <2>6. myLoop' \in [Thread -> Nat] /\ teamLoop' \in Nat /\ taken' \in BOOLEAN
    <3>1. CASE Team = 1
      BY <1>1, <1>12, <3>1 DEF SchedulerInit
    <3>2. CASE Team # 1
      <4>1. myLoop' = [myLoop EXCEPT ![t] = myLoop[t] + 1]
        BY <1>12, <3>2 DEF SchedulerInit
      <4>2. myLoop' \in [Thread -> Nat]
        BY <1>1, <4>1
      <4>3. \/ taken' = FALSE /\ teamLoop' = teamLoop + 1
            \/ UNCHANGED <<teamLoop, taken>>
        BY <1>12, <3>2 DEF SchedulerInit
      <4>4. teamLoop' \in Nat
        BY <1>1, <4>3
      <4>5. taken' \in BOOLEAN
        BY <1>1, <4>3, Zenon
      <4> QED BY <4>2, <4>4, <4>5
    <3> QED BY <3>1, <3>2
  <2> QED BY <1>1, <1>3, <1>12, <2>1, <2>5, <2>6 DEF SchedulerInit, forkVars, Typed
<1>13. ASSUME NEW t \in Thread, NextChunk(t) PROVE Typed'
  <2>1. bounds' = [bounds EXCEPT !.lower = bounds.lower + bounds.chunk * bounds.incr]
    BY <1>13 DEF NextChunk
  <2>2. bounds.lower + bounds.chunk * bounds.incr \in Int
    <3>1. bounds.lower \in Int /\ bounds.chunk \in Nat /\ bounds.incr \in Int
      BY <1>1
    <3>2. PICK a, b : a = bounds.chunk /\ b = bounds.incr
      OBVIOUS
    <3>3. a * b \in Int
      BY <3>1, <3>2
    <3> QED BY <3>1, <3>2, <3>3
  <2>3. bounds' \in [lower : Int, upper : Int, incr : Int, chunk : Nat]
    <3>1. PICK l \in Int : l = bounds.lower + bounds.chunk * bounds.incr
      BY <2>2
    <3>2. bounds' = [bounds EXCEPT !.lower = l]
      BY <2>1, <3>1
    <3> QED BY <1>1, <3>2
  <2> QED BY <1>1, <1>13, <2>3 DEF NextChunk, forkVars, Typed
<1>14. ASSUME NEW t \in Thread, NextAll(t) PROVE Typed'
  BY <1>1, <1>14 DEF NextAll, forkVars, Typed
<1>15. ASSUME NEW t \in Thread, NoMore(t) PROVE Typed'
  <2>1. Goto(t, "end")
    BY <1>15 DEF NoMore
  <2> QED BY <1>1, <1>3, <1>15, <2>1 DEF NoMore, forkVars, loopVars, Typed
<1>16. ASSUME NEW t \in Thread, Single(t) PROVE Typed'
  <2>1. Goto(t, "end") /\ singleCount' \in Nat
    BY <1>1, <1>16 DEF Single
  <2> QED BY <1>1, <1>3, <1>16, <2>1 DEF Single, forkVars, loopVars, Typed
<1>17. ASSUME NEW t \in Thread, EndConstruct(t) PROVE Typed'
  <2>1. Goto(t, "body") \/ Goto(t, "barrier")
    BY <1>17 DEF EndConstruct, NextConstruct
  <2>3. \/ status' = status /\ at' = [at EXCEPT ![t] = at[t] + 1]
        \/ status' = [status EXCEPT ![t] = "wait"] /\ at' = at
    BY <1>17 DEF EndConstruct, NextConstruct, B!Arrive
  <2>4. at[t] + 1 \in Nat \ {0}
    BY <1>1
  <2>2. status' \in [Thread -> {"out", "wait", "go"}] /\ at' \in [Thread -> Nat \ {0}]
    BY <1>1, <2>3, <2>4
  <2> QED BY <1>1, <1>3, <1>17, <2>1, <2>2 DEF EndConstruct, forkVars, loopVars, Typed
<1>18. ASSUME NEW t \in Thread, LeaveBarrier(t) PROVE Typed'
  <2>1. Goto(t, "body")
    BY <1>18 DEF LeaveBarrier, NextConstruct
  <2>2. status' \in [Thread -> {"out", "wait", "go"}] /\ at' \in [Thread -> Nat \ {0}]
    BY <1>1, <1>18 DEF LeaveBarrier, NextConstruct, B!Leave
  <2> QED BY <1>1, <1>3, <1>18, <2>1, <2>2 DEF LeaveBarrier, forkVars, loopVars, Typed
<1> QED BY <1>4, <1>5, <1>6, <1>7, <1>8, <1>9, <1>10, <1>11, <1>12, <1>13, <1>14, <1>15,
           <1>16, <1>17, <1>18 DEF Next, Step

\* A call of a construct is a walk.
LEMMA Walks ==
  ASSUME Control, NEW t \in Thread,
         \/ StaticInit(t) \/ SchedulerInit(t) \/ NextChunk(t) \/ NextAll(t) \/ NoMore(t)
         \/ Single(t)
  PROVE  Walk(t)
<1>1. Typed
  BY DEF Control
<1>2. ASSUME pc[t] = "body", NEW kinds, Calls(t, kinds), Goto(t, "end"),
             UNCHANGED <<forkVars, at, status>>
      PROVE  Walk(t)
  <2>1. at[t] \in DOMAIN Body
    BY <1>2, CallFacts
  <2>2. pc'[t] = "end" /\ \A u \in Thread : u # t => pc'[u] = pc[u]
    BY <1>1, <1>2, Place
  <2> QED BY <1>2, <2>1, <2>2 DEF Walk
<1>3. CASE StaticInit(t)
  BY <1>2, <1>3, CallFacts DEF StaticInit
<1>4. CASE Single(t)
  BY <1>2, <1>4, CallFacts DEF Single
<1>5. CASE SchedulerInit(t)
  <2>1. Calls(t, {"dynamic"}) /\ Goto(t, "next") /\ UNCHANGED <<forkVars, at, status>>
    BY <1>5 DEF SchedulerInit
  <2>2. pc[t] = "body" /\ at[t] \in DOMAIN Body /\ Current(t).kind = "dynamic"
    BY <2>1, CallFacts
  <2>3. pc'[t] = "next" /\ \A u \in Thread : u # t => pc'[u] = pc[u]
    BY <1>1, <2>1, Place
  <2> QED BY <2>1, <2>2, <2>3 DEF Walk
<1>6. CASE NextChunk(t) \/ NextAll(t)
  <2>1. pc[t] = "next" /\ UNCHANGED <<forkVars, pc, at, status>>
    BY <1>6 DEF NextChunk, NextAll
  <2>2. at[t] \in DOMAIN Body /\ Current(t).kind = "dynamic"
    BY <2>1, NextPlaceFacts
  <2> QED BY <2>1, <2>2 DEF Walk
<1>7. CASE NoMore(t)
  <2>1. pc[t] = "next" /\ Goto(t, "end") /\ UNCHANGED <<forkVars, at, status>>
    BY <1>7 DEF NoMore
  <2>2. at[t] \in DOMAIN Body
    BY <2>1, NextPlaceFacts
  <2>3. pc'[t] = "end" /\ \A u \in Thread : u # t => pc'[u] = pc[u]
    BY <1>1, <2>1, Place
  <2> QED BY <2>1, <2>2, <2>3 DEF Walk
<1> QED BY <1>3, <1>4, <1>5, <1>6, <1>7

LEMMA ControlStep ==
  ASSUME Control, \A p \in Programs : Orderly(p), Next
  PROVE  Control'
<1>1. Typed'
  BY TypedStep
<1>2. CASE Fork \/ Wake \/ Release
  BY <1>1, <1>2, ForkControl, WakeControl, ReleaseControl
<1>3. ASSUME NEW t \in Thread, Step(t) PROVE Control'
  <2>1. CASE BeginBody(t) \/ Join(t) \/ FallAsleep(t)
    BY <1>1, <2>1, BeginBodyControl, JoinControl, FallAsleepControl
  <2>2. CASE EndBody(t)
    <3>1. Team \in {1, T}
      BY <2>2, EndBodyFacts
    <3> QED BY <1>1, <2>2, <3>1, EndBodyTeam, EndBodyAlone
  <2>3. CASE \/ StaticInit(t) \/ SchedulerInit(t) \/ NextChunk(t) \/ NextAll(t) \/ NoMore(t)
             \/ Single(t)
    BY <1>1, <2>3, Walks, WalkControl
  <2>4. CASE EndConstruct(t)
    BY <1>1, <2>4, EndConstructControl
  <2>5. CASE LeaveBarrier(t)
    BY <1>1, <2>5, LeaveBarrierControl
  <2> QED BY <1>3, <2>1, <2>2, <2>3, <2>4, <2>5 DEF Step
<1> QED BY <1>2, <1>3 DEF Next

LEMMA ControlStutters ==
  ASSUME Control, UNCHANGED vars
  PROVE  Control'
<1>1. UNCHANGED <<prog, region, newWork, idx, asleep, pc, at, status, myLoop, teamLoop, bounds,
                  taken, singleCount>>
  BY DEF vars, forkVars, loopVars
<1>2. /\ Typed' /\ Shape' /\ RestInv' /\ TeamInv' /\ JoinInv' /\ BarrierInv' /\ AwakeInv'
  BY <1>1 DEF Control, Typed, Shape, ShapeOf, RestInv, TeamInv, JoinInv, BarrierInv, AwakeInv,
              Running, InBody, Ended, Passed, Resting, Beyond, Young, Full, Body, Team, Current
<1> QED BY <1>2 DEF Control

-----------------------------------------------------------------------------
(* What is asked of a program.                                             *)

LEMMA OrderlyPair ==
  ASSUME NEW p, Orderly(p), NEW r \in Full(p), NEW s \in Full(p),
         NEW c \in DOMAIN p[r].body, NEW d \in DOMAIN p[s].body,
         NEW k, p[r].body[c].kind = k, p[s].body[d].kind = k
  PROVE  /\ k = "single" => r = s /\ c = d
         /\ k = "dynamic" => r = s /\ (c < d => \E b \in c..(d-1) : ~p[r].body[b].nowait)
         /\ k = "even" => NoRest(p[r].body[c])
BY DEF Orderly

-----------------------------------------------------------------------------
(* Data: steps that call no construct.                                     *)

\* Where the region is, as long as it runs.
LEMMA RegionRuns ==
  ASSUME Control, Running
  PROVE  /\ region > 0 /\ region \in Nat /\ region \in DOMAIN prog /\ prog \in Programs
         /\ Team \in {1, T} /\ T # 1 /\ Body = prog[region].body
         /\ DOMAIN Body = 1..Len(Body) /\ Len(Body) \in Nat
         /\ \A c \in DOMAIN Body : Body[c] \in Construct /\ c \in Nat
         /\ Team = T => region \in Full(prog)
         /\ Team = 1 => region \notin Full(prog)
<1>1. region > 0 /\ prog \in Programs
  BY DEF Control, RestInv, Typed
<1>2. /\ region \in DOMAIN prog /\ region \in Nat /\ Team \in {1, T}
      /\ DOMAIN Body = 1..Len(Body) /\ Len(Body) \in Nat
      /\ \A c \in DOMAIN Body : Body[c] \in Construct
  BY <1>1, RegionOk DEF Control
<1>3. \A c \in DOMAIN Body : c \in Nat
  BY <1>2
<1>4. T # 1
  BY ThreadNat
<1> QED BY <1>1, <1>2, <1>3, <1>4 DEF Full, Team, Body

\* Which dynamic loops have been begun stays, and so do the counts.
LEMMA LoopKept ==
  ASSUME LoopInv, UNCHANGED <<prog, region, myLoop, teamLoop>>, Running' => Running,
         Running /\ Team = T =>
           \A u \in Thread, d \in DOMAIN Body :
             Body[d].kind = "dynamic" => (Begun(u, d)' <=> Begun(u, d))
  PROVE  LoopInv'
<1>1. Team' = Team /\ Body' = Body /\ Full(prog)' = Full(prog) /\ \A r : HasLoop(r)' <=> HasLoop(r)
  BY DEF Team, Body, Full, HasLoop
<1>2. ASSUME Running, Team = T
      PROVE  (\A u \in Thread : LoopsOf(u)' = LoopsOf(u)) /\ OpenLoops' = OpenLoops
  <2>1. \A u \in Thread, d \in DOMAIN Body :
          Body[d].kind = "dynamic" => (Begun(u, d)' <=> Begun(u, d))
    BY <1>2
  <2>2. \A u \in Thread : LoopsOf(u)' = LoopsOf(u)
    BY <1>1, <2>1 DEF LoopsOf
  <2>3. \A d \in DOMAIN Body : Body[d].kind = "dynamic" => (Open(d)' <=> Open(d))
    BY <2>1 DEF Open
  <2>4. OpenLoops' = OpenLoops
    BY <1>1, <2>3 DEF OpenLoops
  <2> QED BY <2>2, <2>4
<1>3. (\A r \in Full(prog) : r <= region => ~HasLoop(r))' => \A u \in Thread : myLoop'[u] = 0
  BY <1>1 DEF LoopInv
<1>4. ASSUME Running', Team' = T, HasLoop(region)'
      PROVE  /\ \A u \in Thread : myLoop'[u] = Cardinality(LoopsOf(u))'
             /\ teamLoop' = Cardinality(OpenLoops)'
  <2>1. /\ \A u \in Thread : myLoop[u] = Cardinality(LoopsOf(u))
        /\ teamLoop = Cardinality(OpenLoops)
    BY <1>1, <1>4 DEF LoopInv, HasLoop
  <2> QED BY <1>1, <1>2, <1>4, <2>1
<1> QED BY <1>3, <1>4 DEF LoopInv

\* How far the threads are in the constructs of the body stays.
MarksKept ==
  \A u \in Thread, d \in DOMAIN Body :
    (Begun(u, d)' <=> Begun(u, d)) /\ (Finished(u, d)' <=> Finished(u, d))

LEMMA DataKept ==
  ASSUME Data, UNCHANGED <<prog, region, bounds, taken, singleCount, ran>>,
         Running' <=> Running, Running => MarksKept, LoopInv'
  PROVE  Data'
<1>1. Team' = Team /\ Body' = Body /\ Full(prog)' = Full(prog)
  BY DEF Team, Body, Full
<1>2. \A r, c, i : Has(r, c, i)' <=> Has(r, c, i)
  BY DEF Has
<1>3. \A r, c : Done(r, c)' <=> Done(r, c)
  BY <1>2 DEF Done
<1>4. Slots' /\ DoneInv'
  BY <1>3 DEF Data, Slots, DoneInv
<1>5. AloneInv'
  <2>1. ASSUME Running, Team = 1, NEW c \in DOMAIN Body
        PROVE  (Begun(0, c)' <=> Begun(0, c)) /\ (Finished(0, c)' <=> Finished(0, c))
    BY <2>1, ZeroThread DEF MarksKept
  <2> QED BY <1>1, <1>2, <2>1 DEF Data, AloneInv
<1>6. WorkInv'
  <2> SUFFICES ASSUME Running, Team = T, NEW c \in DOMAIN Body
               PROVE  /\ Body[c].kind \in {"even", "static"} => SharedOk(c)'
                      /\ Body[c].kind = "single" => SingleOk(c)'
                      /\ Body[c].kind = "dynamic" => DynamicOk(c)'
    BY <1>1 DEF WorkInv
  <2>1. /\ Body[c].kind \in {"even", "static"} => SharedOk(c)
        /\ Body[c].kind = "single" => SingleOk(c)
        /\ Body[c].kind = "dynamic" => DynamicOk(c)
    BY DEF Data, WorkInv
  <2>2. \A u \in Thread, d \in DOMAIN Body :
          (Begun(u, d)' <=> Begun(u, d)) /\ (Finished(u, d)' <=> Finished(u, d))
    BY DEF MarksKept
  <2>3. SharedOk(c) => SharedOk(c)'
    BY <1>1, <1>2, <2>2 DEF SharedOk
  <2>4. SingleOk(c) => SingleOk(c)'
    BY <1>2, <2>2 DEF SingleOk
  <2>5. \A d \in DOMAIN Body : Open(d)' <=> Open(d)
    BY <2>2 DEF Open
  <2>6. Latest(c)' <=> Latest(c)
    BY <1>1, <2>5 DEF Latest
  <2>7. \A k : HandedOut(c, k)' <=> HandedOut(c, k)
    BY <1>1, <1>2 DEF HandedOut
  <2>8. (\E u \in Thread : Finished(u, c))' <=> (\E u \in Thread : Finished(u, c))
    BY <2>2
  <2>9. DynamicOk(c) => DynamicOk(c)'
    BY <1>1, <1>2, <1>3, <2>5, <2>6, <2>7, <2>8 DEF DynamicOk
  <2> QED BY <2>1, <2>3, <2>4, <2>9
<1>7. SingleInv'
  BY <1>1, <1>2 DEF Data, SingleInv
<1> QED BY <1>4, <1>5, <1>6, <1>7 DEF Data

\* A thread that leaves its marks in the region.
LEMMA StepKept ==
  ASSUME Control, Data, NEW t \in Thread,
         UNCHANGED <<prog, region, idx, loopVars, singleCount, ran>>, Running' <=> Running,
         \A u \in Thread : u # t => Same(u),
         Running => \A d \in DOMAIN Body : /\ Begun(t, d)' <=> Begun(t, d)
                                           /\ Finished(t, d)' <=> Finished(t, d)
  PROVE  Data'
<1>1. ASSUME Running PROVE MarksKept
  <2> SUFFICES ASSUME NEW u \in Thread, NEW d \in DOMAIN Body
               PROVE  (Begun(u, d)' <=> Begun(u, d)) /\ (Finished(u, d)' <=> Finished(u, d))
    BY DEF MarksKept
  <2>1. CASE u = t
    BY <1>1, <2>1
  <2>2. CASE u # t
    BY <2>2, SameMarks
  <2> QED BY <2>1, <2>2
<1>2. UNCHANGED <<bounds, taken, myLoop, teamLoop>>
  BY DEF loopVars
<1>3. LoopInv'
  BY <1>1, <1>2, LoopKept DEF Data, MarksKept
<1> QED BY <1>1, <1>2, <1>3, DataKept

LEMMA BeginBodyData ==
  ASSUME Control, Data, NEW t \in Thread, BeginBody(t)
  PROVE  Data'
<1>1. /\ pc'[t] = "body" /\ at[t] = 1 /\ ~InBody(t) /\ ~Ended(t) /\ InBody(t)' /\ ~Ended(t)'
      /\ \A u \in Thread : u # t => Same(u)
      /\ UNCHANGED <<prog, region, idx, at>> /\ Running /\ (Running' <=> Running)
  BY BeginBodyFacts
<1>2. UNCHANGED <<loopVars, singleCount, ran>>
  BY DEF BeginBody
<1>3. ASSUME NEW d \in DOMAIN Body
      PROVE  (Begun(t, d)' <=> Begun(t, d)) /\ (Finished(t, d)' <=> Finished(t, d))
  <2>1. ~(at[t] > d) /\ at'[t] = at[t]
    BY <1>1, RegionRuns
  <2> QED BY <1>1, <2>1 DEF Begun, Finished
<1> QED BY <1>1, <1>2, <1>3, StepKept

LEMMA EndBodyData ==
  ASSUME Control, Data, NEW t \in Thread, EndBody(t), Team = T
  PROVE  Data'
<1>1. /\ pc[t] = "body" /\ at[t] > Len(Body)
      /\ InBody(t) /\ Running /\ region > 0 /\ ~Ended(t) /\ Ended(t)'
      /\ UNCHANGED <<prog, region, idx>> /\ pc'[t] = "join"
      /\ \A u \in Thread : u # t => Same(u)
  BY EndBodyFacts
<1>2. UNCHANGED <<loopVars, singleCount, ran>>
  BY DEF EndBody
<1>3. Running' <=> Running
  BY <1>1, ZeroThread DEF Running, Same
<1>4. ASSUME NEW d \in DOMAIN Body
      PROVE  (Begun(t, d)' <=> Begun(t, d)) /\ (Finished(t, d)' <=> Finished(t, d))
  <2>1. at[t] \in Nat /\ DOMAIN Body = 1..Len(Body) /\ Len(Body) \in Nat
    BY <1>1, RegionRuns DEF Control, Typed
  <2>2. at[t] > d
    BY <1>1, <2>1
  <2> QED BY <1>1, <2>2 DEF Begun, Finished
<1> QED BY <1>1, <1>2, <1>3, <1>4, StepKept

LEMMA JoinData ==
  ASSUME Control, Data, NEW t \in Thread, t # 0, Join(t)
  PROVE  Data'
<1>1. /\ pc[t] = "join" /\ pc'[t] = "sleep"
      /\ UNCHANGED <<prog, region, newWork, idx, at>>
      /\ \A u \in Thread : u # t => Same(u)
  BY JoinFacts
<1>2. UNCHANGED <<loopVars, singleCount, ran>>
  BY DEF Join
<1>3. (Running' <=> Running) /\ (Ended(t)' <=> Ended(t))
  BY <1>1, ZeroThread DEF Running, Same, Ended
<1>4. \A d : (Begun(t, d)' <=> Begun(t, d)) /\ (Finished(t, d)' <=> Finished(t, d))
  BY <1>1, <1>3 DEF Begun, Finished, InBody
<1> QED BY <1>1, <1>2, <1>3, <1>4, StepKept

LEMMA FallAsleepData ==
  ASSUME Control, Data, NEW t \in Thread, FallAsleep(t)
  PROVE  Data'
<1>1. /\ pc[t] = "sleep" /\ Goto(t, "idle")
      /\ UNCHANGED <<prog, region, newWork, idx, at, status, loopVars, singleCount, ran>>
  BY DEF FallAsleep
<1>2. pc'[t] = "idle" /\ \A u \in Thread : u # t => pc'[u] = pc[u]
  BY <1>1, Place DEF Control
<1>3. t # 0
  BY <1>1 DEF Control, Shape, ShapeOf
<1>4. \A u \in Thread : u # t => Same(u)
  BY <1>1, <1>2 DEF Same
<1>5. (Running' <=> Running) /\ (Ended(t)' <=> Ended(t))
  BY <1>1, <1>2, <1>3, ZeroThread DEF Running, Ended
<1>6. \A d : (Begun(t, d)' <=> Begun(t, d)) /\ (Finished(t, d)' <=> Finished(t, d))
  BY <1>1, <1>2, <1>5 DEF Begun, Finished, InBody
<1> QED BY <1>1, <1>4, <1>5, <1>6, StepKept

LEMMA EndConstructData ==
  ASSUME Control, Data, \A p \in Programs : Orderly(p), NEW t \in Thread, EndConstruct(t)
  PROVE  Data'
<1>1. /\ pc[t] = "end" /\ at[t] \in DOMAIN Body
      /\ \/ /\ at' = [at EXCEPT ![t] = at[t] + 1] /\ Goto(t, "body") /\ UNCHANGED status
         \/ /\ Goto(t, "barrier") /\ status' = [status EXCEPT ![t] = "wait"]
            /\ UNCHANGED at
      /\ UNCHANGED <<prog, region, newWork, idx, loopVars, singleCount, ran>>
  BY EndConstructFacts DEF forkVars
<1>2. InBody(t) /\ Running /\ region > 0 /\ ~Ended(t)
  BY <1>1, InsideFacts DEF InBody
<1>3. /\ at \in [Thread -> Nat \ {0}] /\ status \in [Thread -> {"out", "wait", "go"}] /\ Typed
  BY DEF Control, Typed
<1>4. /\ \/ pc'[t] = "body" /\ at'[t] = at[t] + 1
         \/ pc'[t] = "barrier" /\ at'[t] = at[t]
      /\ \A u \in Thread : u # t => at'[u] = at[u] /\ pc'[u] = pc[u] /\ status'[u] = status[u]
  BY <1>1, <1>3, Place
<1>5. InBody(t)' /\ ~Ended(t)'
  BY <1>1, <1>2, <1>4 DEF InBody, Ended
<1>6. Running' <=> Running
  BY <1>4, <1>5, <1>2, ZeroThread DEF Running, InBody
<1>7. \A u \in Thread : u # t => Same(u)
  BY <1>1, <1>4 DEF Same
<1>8. ASSUME NEW d \in DOMAIN Body
      PROVE  (Begun(t, d)' <=> Begun(t, d)) /\ (Finished(t, d)' <=> Finished(t, d))
  <2>1. d \in Nat /\ at[t] \in Nat
    BY <1>2, <1>3, RegionRuns
  <2> QED BY <1>1, <1>2, <1>4, <1>5, <2>1 DEF Begun, Finished
<1> QED BY <1>1, <1>6, <1>7, <1>8, StepKept

LEMMA LeaveBarrierData ==
  ASSUME Control, Data, NEW t \in Thread, LeaveBarrier(t)
  PROVE  Data'
<1>1. /\ pc[t] = "barrier" /\ Goto(t, "body")
      /\ status' = [status EXCEPT ![t] = "out"] /\ at' = [at EXCEPT ![t] = at[t] + 1]
      /\ UNCHANGED <<prog, region, newWork, idx, loopVars, singleCount, ran>>
  BY DEF LeaveBarrier, NextConstruct, B!Leave, forkVars
<1>2. InBody(t) /\ Running /\ region > 0 /\ ~Ended(t)
  BY <1>1, InsideFacts DEF InBody
<1>3. /\ at \in [Thread -> Nat \ {0}] /\ status \in [Thread -> {"out", "wait", "go"}] /\ Typed
  BY DEF Control, Typed
<1>4. /\ at'[t] = at[t] + 1 /\ pc'[t] = "body"
      /\ \A u \in Thread : u # t => at'[u] = at[u] /\ pc'[u] = pc[u] /\ status'[u] = status[u]
  BY <1>1, <1>3, Place
<1>5. InBody(t)' /\ ~Ended(t)'
  BY <1>1, <1>2, <1>4 DEF InBody, Ended
<1>6. Running' <=> Running
  BY <1>4, <1>5, <1>2, ZeroThread DEF Running, InBody
<1>7. \A u \in Thread : u # t => Same(u)
  BY <1>1, <1>4 DEF Same
<1>8. ASSUME NEW d \in DOMAIN Body
      PROVE  (Begun(t, d)' <=> Begun(t, d)) /\ (Finished(t, d)' <=> Finished(t, d))
  <2>1. d \in Nat /\ at[t] \in Nat
    BY <1>2, <1>3, RegionRuns
  <2> QED BY <1>1, <1>2, <1>4, <1>5, <2>1 DEF Begun, Finished
<1> QED BY <1>1, <1>6, <1>7, <1>8, StepKept

LEMMA ReleaseData ==
  ASSUME Control, Data, Release
  PROVE  Data'
<1>1. /\ UNCHANGED <<prog, region, newWork, idx, pc, at, loopVars, singleCount, ran>>
  BY DEF Release, forkVars
<1>2. Running' <=> Running
  BY <1>1 DEF Running
<1>3. MarksKept
  BY <1>1 DEF MarksKept, Begun, Finished, Ended, InBody
<1>4. UNCHANGED <<bounds, taken, myLoop, teamLoop>>
  BY <1>1 DEF loopVars
<1>5. LoopInv'
  BY <1>1, <1>2, <1>3, <1>4, LoopKept DEF Data, MarksKept
<1> QED BY <1>1, <1>2, <1>3, <1>4, <1>5, DataKept

LEMMA WakeData ==
  ASSUME Control, Data, Wake
  PROVE  Data'
<1>1. /\ idx \in Slave /\ Running /\ region > 0 /\ Team = T
      /\ UNCHANGED <<prog, region, pc, at, status>>
      /\ ~InBody(idx) /\ ~Ended(idx)
      /\ \A u \in Thread : \A c : /\ Begun(u, c)' <=> Begun(u, c)
                                  /\ Finished(u, c)' <=> Finished(u, c)
  BY WakeFacts
<1>2. /\ myLoop' = [myLoop EXCEPT ![idx] = 0]
      /\ UNCHANGED <<teamLoop, bounds, taken, singleCount, ran>>
  BY DEF Wake
<1>3. Running' <=> Running
  BY <1>1 DEF Running
<1>4. MarksKept
  BY <1>1 DEF MarksKept
<1>5. idx \in Thread /\ myLoop \in [Thread -> Nat]
  BY <1>1 DEF Slave, Control, Typed
<1>6. PICK e \in Thread : e = idx
  BY <1>5
<1>7. myLoop'[e] = 0 /\ \A u \in Thread : u # e => myLoop'[u] = myLoop[u]
  BY <1>2, <1>5, <1>6
<1>8. LoopInv'
  <2>1. Team' = Team /\ Body' = Body /\ Full(prog)' = Full(prog) /\ \A r : HasLoop(r)' <=> HasLoop(r)
    BY <1>1 DEF Team, Body, Full, HasLoop
  <2>2. (\A r \in Full(prog) : r <= region => ~HasLoop(r))' => \A u \in Thread : myLoop'[u] = 0
    BY <1>1, <1>7, <2>1 DEF Data, LoopInv
  <2>3. ASSUME HasLoop(region)'
        PROVE  /\ \A u \in Thread : myLoop'[u] = Cardinality(LoopsOf(u))'
               /\ teamLoop' = Cardinality(OpenLoops)'
    <3>1. /\ \A u \in Thread : myLoop[u] = Cardinality(LoopsOf(u))
          /\ teamLoop = Cardinality(OpenLoops)
      BY <1>1, <2>1, <2>3 DEF Data, LoopInv, HasLoop
    <3>2. \A u \in Thread : LoopsOf(u)' = LoopsOf(u)
      BY <1>4, <2>1 DEF MarksKept, LoopsOf
    <3>3. \A d \in DOMAIN Body : Open(d)' <=> Open(d)
      BY <1>4 DEF Open, MarksKept
    <3>4. OpenLoops' = OpenLoops
      BY <2>1, <3>3 DEF OpenLoops
    <3>5. LoopsOf(e) = {}
      BY <1>1, <1>6 DEF LoopsOf, Begun
    <3>6. Cardinality(LoopsOf(e)) = 0
      BY <3>5, FS_EmptySet
    <3>7. ASSUME NEW u \in Thread PROVE myLoop'[u] = Cardinality(LoopsOf(u)')
      <4>1. CASE u = e
        BY <1>7, <3>2, <3>6, <4>1
      <4>2. CASE u # e
        BY <1>7, <3>1, <3>2, <4>2
      <4> QED BY <4>1, <4>2
    <3> QED BY <1>2, <3>1, <3>4, <3>7
  <2> QED BY <2>2, <2>3 DEF LoopInv
<1> QED BY <1>1, <1>2, <1>3, <1>4, <1>8, DataKept

\* What has been run lies in the regions forked so far.
LEMMA HasFacts ==
  ASSUME Data, NEW r, NEW c, NEW i, Has(r, c, i)
  PROVE  r \in 1..region /\ c \in DOMAIN prog[r].body /\ i \in Work(prog[r].body[c])
<1>1. PICK x : x = <<r, c, i>>
  OBVIOUS
<1>2. x \in DOMAIN ran /\ x[1] = r /\ x[2] = c /\ x[3] = i
  BY <1>1 DEF Has, BagIn, BagToSet
<1> QED BY <1>2 DEF Data, Slots

LEMMA ForkData ==
  ASSUME Control, Control', Data, \A p \in Programs : Orderly(p), Fork
  PROVE  Data'
<1>1. /\ pc[0] = "serial" /\ region' = region + 1 /\ idx' = 1 /\ Goto(0, "fork")
      /\ UNCHANGED <<prog, newWork, asleep, at, status, myLoop, bounds, singleCount, ran>>
      /\ teamLoop' = 0
  BY DEF Fork
<1>2. pc'[0] = "fork" /\ \A u \in Thread : u # 0 => pc'[u] = pc[u]
  BY <1>1, ZeroThread, Place DEF Control
<1>3. ~Running /\ Running' /\ \A u \in Slave : Resting(u)
  BY <1>1, <1>2 DEF Running, Control, RestInv
<1>4. region \in Nat /\ region' \in Nat /\ region' \in DOMAIN prog /\ prog \in Programs
  <2>1. region \in Nat /\ prog \in Programs /\ prog' = prog
    BY <1>1, RegionsOk DEF Control, Typed
  <2>2. region' \in 0..Len(prog)
    BY <1>1 DEF Control, Typed
  <2> QED BY <1>1, <2>1, <2>2, RegionsOk DEF Control
<1>5. \A u \in Thread : \A c : ~Begun(u, c)' /\ ~Finished(u, c)'
  <2>1. ASSUME NEW u \in Thread PROVE ~InBody(u)' /\ ~Ended(u)'
    <3>1. CASE u = 0
      BY <1>2, <3>1 DEF InBody, Ended
    <3>2. CASE u # 0
      <4>1. u \in Slave /\ u \in Nat
        BY <3>2, ThreadNat DEF Slave
      <4>2. pc[u] \in {"idle", "sleep", "join"}
        BY <1>3, <4>1 DEF Resting
      <4>3. ~(u < 1)
        BY <3>2, <4>1
      <4> QED BY <1>1, <1>2, <3>2, <4>2, <4>3 DEF InBody, Ended
    <3> QED BY <3>1, <3>2
  <2> QED BY <2>1 DEF Begun, Finished
<1>6. \A r, c, i : Has(r, c, i)' <=> Has(r, c, i)
  BY <1>1 DEF Has
<1>7. \A c, i : ~Has(region', c, i)
  <2> SUFFICES ASSUME NEW c, NEW i, Has(region', c, i) PROVE FALSE
    OBVIOUS
  <2>1. region' \in 1..region
    BY HasFacts
  <2> QED BY <1>1, <1>4, <2>1
<1>8. Slots'
  <2>1. ASSUME NEW x \in DOMAIN ran
        PROVE  /\ ran[x] = 1 /\ x = <<x[1], x[2], x[3]>>
               /\ x[1] \in 1..region' /\ x[2] \in DOMAIN prog[x[1]].body
               /\ x[3] \in Work(prog[x[1]].body[x[2]])
    <3>1. /\ ran[x] = 1 /\ x = <<x[1], x[2], x[3]>>
          /\ x[1] \in 1..region /\ x[2] \in DOMAIN prog[x[1]].body
          /\ x[3] \in Work(prog[x[1]].body[x[2]])
      BY <2>1 DEF Data, Slots
    <3> QED BY <1>1, <1>4, <3>1
  <2> QED BY <1>1, <2>1 DEF Slots
<1>9. DoneInv'
  <2> SUFFICES ASSUME NEW r \in 1..region', r < region' \/ ~Running', NEW c \in DOMAIN prog[r].body
               PROVE  Done(r, c)'
    BY <1>1 DEF DoneInv
  <2>1. r \in 1..region
    BY <1>1, <1>3, <1>4
  <2>2. Done(r, c)
    BY <1>3, <2>1 DEF Data, DoneInv
  <2> QED BY <1>1, <1>6, <2>2 DEF Done
<1>10. AloneInv'
  BY <1>5, <1>6, <1>7, ZeroThread DEF AloneInv
<1>11. WorkInv'
  <2> SUFFICES ASSUME NEW c \in DOMAIN Body'
               PROVE  SharedOk(c)' /\ SingleOk(c)' /\ DynamicOk(c)'
    BY DEF WorkInv
  <2>1. ~Open(c)' /\ ~Latest(c)'
    BY <1>5 DEF Open, Latest
  <2>2. DynamicOk(c)'
    BY <1>5, <1>6, <1>7, <2>1 DEF DynamicOk
  <2>3. SharedOk(c)' /\ SingleOk(c)'
    BY <1>5, <1>6, <1>7 DEF SharedOk, SingleOk
  <2> QED BY <2>2, <2>3
<1>12. SingleInv'
  BY <1>1, <1>6 DEF Data, SingleInv, Full
<1>13. LoopInv'
  <2>1. Full(prog)' = Full(prog) /\ \A r : HasLoop(r)' <=> HasLoop(r)
    BY <1>1 DEF Full, HasLoop
  <2>2. \A r \in Full(prog) : r \in Nat
    BY RegionsOk DEF Control, Full
  <2>3. ASSUME \A r \in Full(prog) : r <= region' => ~HasLoop(r)
        PROVE  \A u \in Thread : myLoop'[u] = 0
    <3>1. \A r \in Full(prog) : r <= region => ~HasLoop(r)
      BY <1>1, <1>4, <2>2, <2>3
    <3> QED BY <1>1, <3>1 DEF Data, LoopInv
  <2>4. ASSUME Team' = T, HasLoop(region')
        PROVE  /\ \A u \in Thread : myLoop'[u] = Cardinality(LoopsOf(u))'
               /\ teamLoop' = Cardinality(OpenLoops)'
    <3>1. PICK s : s = region'
      OBVIOUS
    <3>2. s \in Full(prog) /\ HasLoop(s) /\ s = region + 1
      BY <1>1, <1>4, <2>4, <3>1 DEF Full, Team
    <3>3. ASSUME NEW r \in Full(prog), r <= region PROVE ~HasLoop(r)
      <4> SUFFICES ASSUME HasLoop(r) PROVE FALSE
        OBVIOUS
      <4>1. PICK c \in DOMAIN prog[r].body : prog[r].body[c].kind = "dynamic"
        BY DEF HasLoop
      <4>2. PICK d \in DOMAIN prog[s].body : prog[s].body[d].kind = "dynamic"
        BY <3>2 DEF HasLoop
      <4>3. Orderly(prog) /\ r \in Full(prog) /\ s \in Full(prog)
        BY <1>4, <3>2, <3>3
      <4>5. r = s
        BY ONLY <4>1, <4>2, <4>3, OrderlyPair
      <4> QED BY <1>4, <2>2, <3>2, <3>3, <4>5
    <3>4. \A u \in Thread : myLoop[u] = 0
      BY <3>3 DEF Data, LoopInv
    <3>5. \A u \in Thread : LoopsOf(u)' = {}
      BY <1>5 DEF LoopsOf
    <3>6. OpenLoops' = {}
      BY <1>5 DEF OpenLoops, Open
    <3>7. Cardinality({}) = 0
      BY FS_EmptySet
    <3> QED BY <1>1, <3>4, <3>5, <3>6, <3>7
  <2> QED BY <1>1, <2>1, <2>3, <2>4 DEF LoopInv
<1> QED BY <1>8, <1>9, <1>10, <1>11, <1>12, <1>13 DEF Data

-----------------------------------------------------------------------------
(* The end of a region.                                                    *)

\* What all threads are through with has been run.
LEMMA FinishedDone ==
  ASSUME Control, Data, \A p \in Programs : Orderly(p), Running, NEW c \in DOMAIN Body,
         Team = 1 => Finished(0, c),
         Team = T => \A u \in Thread : Finished(u, c)
  PROVE  Done(region, c)
<1>1. /\ Team \in {1, T} /\ Body = prog[region].body /\ Body[c] \in Construct
      /\ Team = T => region \in Full(prog)
      /\ prog \in Programs
  BY RegionRuns
<1>2. CASE Team = 1
  BY <1>1, <1>2 DEF Data, AloneInv, Done
<1>3. CASE Team = T
  <2>1. /\ Body[c].kind \in {"even", "static"} => SharedOk(c)
        /\ Body[c].kind = "single" => SingleOk(c)
        /\ Body[c].kind = "dynamic" => DynamicOk(c)
    BY <1>3 DEF Data, WorkInv
  <2>2. \A u \in Thread : Finished(u, c)
    BY <1>3
  <2>3. CASE Body[c].kind \in {"even", "static"}
    <3>1. Body[c] \in Loops
      BY <1>1, <2>3 DEF Loops
    <3>2. Body[c].kind = "even" => NoRest(Body[c])
      <4> SUFFICES ASSUME Body[c].kind = "even" PROVE NoRest(Body[c])
        OBVIOUS
      <4>1. region \in Full(prog) /\ Orderly(prog) /\ c \in DOMAIN prog[region].body
            /\ prog[region].body[c].kind = "even"
        BY <1>1, <1>3
      <4> QED BY <1>1, <4>1, OrderlyPair
    <3>3. PICK k : k = Body[c]
      OBVIOUS
    <3>4. \A i \in Work(k) : \E u \in Thread : i \in Share(u, k)
      BY <3>1, <3>2, <3>3, ShareSplit
    <3> QED BY <1>1, <2>1, <2>2, <2>3, <3>3, <3>4 DEF SharedOk, Done
  <2>4. CASE Body[c].kind = "single"
    BY <1>1, <2>1, <2>2, <2>4, ZeroThread DEF SingleOk, Done, Work
  <2>5. CASE Body[c].kind = "dynamic"
    BY <2>1, <2>2, <2>5, ZeroThread DEF DynamicOk
  <2>6. Body[c].kind \in {"even", "static", "dynamic", "single"}
    BY <1>1, LoopFields
  <2> QED BY <2>3, <2>4, <2>5, <2>6
<1> QED BY <1>1, <1>2, <1>3

LEMMA RegionEnds ==
  ASSUME Control, Data, Running, ~Running',
         UNCHANGED <<prog, region, loopVars, singleCount, ran>>,
         \A c \in DOMAIN Body : Done(region, c)
  PROVE  Data'
<1>1. /\ Team' = Team /\ Full(prog)' = Full(prog)
      /\ UNCHANGED <<bounds, taken, myLoop, teamLoop>>
      /\ region \in Nat /\ Body = prog[region].body
  BY RegionRuns DEF Team, Full, loopVars
<1>2. \A r, c : Done(r, c)' <=> Done(r, c)
  BY DEF Has, Done
<1>3. Slots'
  BY DEF Data, Slots
<1>4. DoneInv'
  <2> SUFFICES ASSUME NEW r \in 1..region, NEW c \in DOMAIN prog[r].body PROVE Done(r, c)
    BY <1>2 DEF DoneInv
  <2>1. CASE r = region
    BY <1>1, <2>1
  <2>2. CASE r # region
    <3>1. r < region
      BY <1>1, <2>2
    <3> QED BY <3>1 DEF Data, DoneInv
  <2> QED BY <2>1, <2>2
<1>5. AloneInv' /\ WorkInv'
  BY DEF AloneInv, WorkInv
<1>6. SingleInv'
  BY <1>1 DEF Data, SingleInv, Has
<1>7. LoopInv'
  BY <1>1 DEF Data, LoopInv, HasLoop
<1> QED BY <1>3, <1>4, <1>5, <1>6, <1>7 DEF Data

LEMMA EndBodyAloneData ==
  ASSUME Control, Data, \A p \in Programs : Orderly(p), NEW t \in Thread, EndBody(t), Team = 1
  PROVE  Data'
<1>1. /\ pc[t] = "body" /\ at[t] > Len(Body) /\ t = 0 /\ pc'[0] = "serial" /\ Running
      /\ InBody(t) /\ UNCHANGED <<prog, region>> /\ T # 1
  BY EndBodyFacts, ThreadNat
<1>2. UNCHANGED <<loopVars, singleCount, ran>> /\ ~Running'
  BY <1>1 DEF EndBody, Running
<1>3. ASSUME NEW c \in DOMAIN Body PROVE Done(region, c)
  <2>1. at[0] \in Nat /\ c \in 1..Len(Body) /\ Len(Body) \in Nat
    BY <1>1, RegionRuns, ZeroThread DEF Control, Typed
  <2>2. at[0] > c
    BY <1>1, <2>1
  <2>3. Finished(0, c)
    BY <1>1, <2>2 DEF Finished
  <2> QED BY <1>1, <2>3, FinishedDone
<1> QED BY <1>1, <1>2, <1>3, RegionEnds

LEMMA JoinLastData ==
  ASSUME Control, Data, \A p \in Programs : Orderly(p), Join(0)
  PROVE  Data'
<1>1. /\ pc[0] = "join" /\ status[0] = "go" /\ pc'[0] = "serial"
      /\ UNCHANGED <<prog, region>>
  BY JoinFacts, ZeroThread
<1>2. /\ Running /\ Team = T /\ \A u \in Thread : Ended(u)
  BY <1>1, AllPassed
<1>3. UNCHANGED <<loopVars, singleCount, ran>> /\ ~Running' /\ T # 1
  BY <1>1, ThreadNat DEF Join, Running
<1>4. ASSUME NEW c \in DOMAIN Body PROVE Done(region, c)
  <2>1. \A u \in Thread : Finished(u, c)
    BY <1>2 DEF Finished
  <2> QED BY <1>2, <1>3, <2>1, FinishedDone
<1> QED BY <1>1, <1>2, <1>3, <1>4, RegionEnds

-----------------------------------------------------------------------------
(* Data: a step within a construct.                                        *)

\* A thread that walks through construct c moves its marks there only.
LEMMA WalkMarks ==
  ASSUME Control, NEW t \in Thread, Walk(t), NEW c, c = at[t]
  PROVE  /\ c \in DOMAIN Body /\ Running /\ Running' /\ UNCHANGED <<prog, region, idx, newWork>>
         /\ Body' = Body /\ Team' = Team /\ Full(prog)' = Full(prog)
         /\ Begun(t, c)' /\ ~Finished(t, c)
         /\ Finished(t, c)' <=> pc'[t] = "end"
         /\ Begun(t, c) <=> pc[t] = "next"
         /\ \A u \in Thread, d \in DOMAIN Body : u # t \/ d # c =>
              (Begun(u, d)' <=> Begun(u, d)) /\ (Finished(u, d)' <=> Finished(u, d))
         /\ \A d \in DOMAIN Body : /\ d < c => Begun(t, d) /\ Finished(t, d)
                                   /\ d > c => ~Begun(t, d)
         /\ \A d \in DOMAIN Body : c <= d => ~Beyond(t, d)
         /\ Team = 1 => t = 0
<1>1. /\ pc[t] \in {"body", "next"} /\ c \in DOMAIN Body /\ pc'[t] \in {"next", "end"}
      /\ \A u \in Thread : u # t => pc'[u] = pc[u]
      /\ UNCHANGED <<prog, region, newWork, idx, at, status>>
  BY DEF Walk, forkVars
<1>2. InBody(t) /\ InBody(t)'
  BY <1>1 DEF InBody
<1>3. Running /\ region > 0 /\ ~Ended(t) /\ (t # 0 => Team = T)
  BY <1>2, InsideFacts
<1>4. ~Ended(t)' /\ Running'
  BY <1>1, <1>3, ZeroThread DEF Ended, Running
<1>5. Body' = Body /\ Team' = Team /\ Full(prog)' = Full(prog)
  BY <1>1 DEF Body, Team, Full
<1>6. \A d \in DOMAIN Body : d \in Nat
  BY <1>3, RegionRuns
<1>7. /\ Begun(t, c)' /\ ~Finished(t, c)
      /\ Finished(t, c)' <=> pc'[t] = "end"
      /\ Begun(t, c) <=> pc[t] = "next"
  BY <1>1, <1>2, <1>3, <1>4, <1>6 DEF Begun, Finished
<1>8. ASSUME NEW d \in DOMAIN Body
      PROVE  /\ d # c => (Begun(t, d)' <=> Begun(t, d)) /\ (Finished(t, d)' <=> Finished(t, d))
             /\ d < c => Begun(t, d) /\ Finished(t, d)
             /\ d > c => ~Begun(t, d)
             /\ c <= d => ~Beyond(t, d)
  <2>1. c \in Nat /\ d \in Nat /\ at[t] = c /\ at'[t] = c
    BY <1>1, <1>6
  <2> QED BY <1>1, <1>2, <1>3, <1>4, <2>1 DEF Begun, Finished, Beyond
<1>9. ASSUME NEW u \in Thread, NEW d \in DOMAIN Body, u # t
      PROVE  (Begun(u, d)' <=> Begun(u, d)) /\ (Finished(u, d)' <=> Finished(u, d))
  <2>1. Same(u)
    BY <1>1, <1>9 DEF Same
  <2> QED BY <1>1, <2>1, SameMarks
<1>10. Team = 1 => t = 0
  BY <1>3, ThreadNat
<1> QED BY <1>1, <1>3, <1>4, <1>5, <1>7, <1>8, <1>9, <1>10

\* What a bag has after slots have been added that it did not have.
LEMMA RanAdds ==
  ASSUME Data, NEW t \in Thread, NEW S, NEW c, c = at[t], Ran(t, S),
         UNCHANGED <<prog, region>>, region \in 1..region, c \in DOMAIN Body,
         S \subseteq Work(Body[c]), \A i \in S : ~Has(region, c, i)
  PROVE  /\ Slots'
         /\ \A r, d, i : Has(r, d, i)' <=> Has(r, d, i) \/ (r = region /\ d = c /\ i \in S)
<1>1. PICK N : N = {<<region, c, i>> : i \in S}
  OBVIOUS
<1>2. ran' = ran (+) SetToBag(N)
  BY <1>1 DEF Ran
<1>3. \A x \in N : x \notin DOMAIN ran
  BY <1>1 DEF Has, BagIn, BagToSet
<1>4. /\ DOMAIN ran' = DOMAIN ran \union N
      /\ \A x \in DOMAIN ran : ran'[x] = ran[x]
      /\ \A x \in N : ran'[x] = 1
  <2>1. \A x \in DOMAIN ran : ran[x] = 1
    BY DEF Data, Slots
  <2> QED BY <1>2, <1>3, <2>1 DEF (+), SetToBag
<1>5. ASSUME NEW r, NEW d, NEW i
      PROVE  Has(r, d, i)' <=> Has(r, d, i) \/ (r = region /\ d = c /\ i \in S)
  <2>1. PICK x : x = <<r, d, i>>
    OBVIOUS
  <2>2. Has(r, d, i) <=> x \in DOMAIN ran
    BY <2>1 DEF Has, BagIn, BagToSet
  <2>3. Has(r, d, i)' <=> x \in DOMAIN ran'
    BY <2>1 DEF Has, BagIn, BagToSet
  <2>4. x \in N <=> r = region /\ d = c /\ i \in S
    BY <1>1, <2>1
  <2> QED BY <1>4, <2>2, <2>3, <2>4
<1>6. Slots'
  <2>1. ASSUME NEW x \in DOMAIN ran'
        PROVE  /\ ran'[x] = 1
               /\ x = <<x[1], x[2], x[3]>>
               /\ x[1] \in 1..region /\ x[2] \in DOMAIN prog[x[1]].body
               /\ x[3] \in Work(prog[x[1]].body[x[2]])
    <3>1. CASE x \in DOMAIN ran
      BY <1>4, <3>1 DEF Data, Slots
    <3>2. CASE x \in N
      <4>1. PICK i \in S : x = <<region, c, i>>
        BY <1>1, <3>2
      <4>2. x[1] = region /\ x[2] = c /\ x[3] = i
        BY <4>1
      <4>3. i \in Work(Body[c])
        BY <4>1
      <4> QED BY <1>4, <3>2, <4>1, <4>2, <4>3 DEF Body
    <3> QED BY <1>4, <2>1, <3>1, <3>2
  <2> QED BY <2>1 DEF Slots
<1> QED BY <1>5, <1>6

\* A walk runs some iterations of its construct, or none.
Adds(c, S) ==
  /\ Slots'
  /\ \A r, d, i : Has(r, d, i)' <=> Has(r, d, i) \/ (r = region /\ d = c /\ i \in S)

LEMMA NothingRun ==
  ASSUME Data, UNCHANGED <<prog, region, ran>>, NEW c
  PROVE  Adds(c, {})
<1>1. Slots'
  BY DEF Data, Slots
<1> QED BY <1>1 DEF Adds, Has

\* What the walk leaves alone.
LEMMA WalkKeeps ==
  ASSUME Control, Data, NEW t \in Thread, Walk(t), NEW c, c = at[t], NEW S, Adds(c, S)
  PROVE  /\ DoneInv'
         /\ UNCHANGED singleCount /\ (Team = 1 \/ Body[c].kind # "single") => SingleInv'
         /\ \A d \in DOMAIN Body : Done(region, d) => Done(region, d)'
         /\ \A d \in DOMAIN Body : d # c => /\ SharedOk(d) => SharedOk(d)'
                                            /\ SingleOk(d) => SingleOk(d)'
<1>1. /\ c \in DOMAIN Body /\ Running /\ Running' /\ UNCHANGED <<prog, region>>
      /\ Body' = Body /\ Team' = Team /\ Full(prog)' = Full(prog)
      /\ \A u \in Thread, d \in DOMAIN Body : u # t \/ d # c =>
           (Begun(u, d)' <=> Begun(u, d)) /\ (Finished(u, d)' <=> Finished(u, d))
  BY WalkMarks
<1>2. \A r, d, i : Has(r, d, i)' <=> Has(r, d, i) \/ (r = region /\ d = c /\ i \in S)
  BY DEF Adds
<1>3. \A r, d : Done(r, d) => Done(r, d)'
  BY <1>1, <1>2 DEF Done
<1>4. DoneInv'
  BY <1>1, <1>3 DEF Data, DoneInv
<1>5. ASSUME UNCHANGED singleCount, Team = 1 \/ Body[c].kind # "single" PROVE SingleInv'
  <2> SUFFICES ASSUME NEW r \in Full(prog), NEW d \in DOMAIN prog[r].body,
                      prog[r].body[d].kind = "single"
               PROVE  Has(r, d, 0)' <=> singleCount > 0
    BY <1>1, <1>5 DEF SingleInv
  <2>1. Has(r, d, 0) <=> singleCount > 0
    BY DEF Data, SingleInv
  <2>2. ~(r = region /\ d = c)
    BY <1>1, <1>5, RegionRuns
  <2> QED BY <1>2, <2>1, <2>2
<1>6. ASSUME NEW d \in DOMAIN Body, d # c
      PROVE  (SharedOk(d) => SharedOk(d)') /\ (SingleOk(d) => SingleOk(d)')
  <2>1. \A i : Has(region, d, i)' <=> Has(region, d, i)
    BY <1>1, <1>2, <1>6
  <2>2. \A u \in Thread : Finished(u, d)' <=> Finished(u, d)
    BY <1>1, <1>6
  <2> QED BY <1>1, <2>1, <2>2 DEF SharedOk, SingleOk
<1> QED BY <1>1, <1>3, <1>4, <1>5, <1>6

\* Another dynamic loop.
LEMMA OtherDynamic ==
  ASSUME Control, Data, NEW t \in Thread, Walk(t), NEW c, c = at[t], NEW S, Adds(c, S),
         NEW d \in DOMAIN Body, d # c, DynamicOk(d),
         Latest(d)' => Latest(d) /\ UNCHANGED bounds,
         Latest(d) /\ ~Latest(d)' => Done(region, d)
  PROVE  DynamicOk(d)'
<1>1. /\ UNCHANGED <<prog, region>> /\ Body' = Body
      /\ \A u \in Thread :
           (Begun(u, d)' <=> Begun(u, d)) /\ (Finished(u, d)' <=> Finished(u, d))
  BY WalkMarks
<1>2. \A i : Has(region, d, i)' <=> Has(region, d, i)
  BY <1>1 DEF Adds
<1>3. Open(d)' <=> Open(d)
  BY <1>1 DEF Open
<1>4. Done(region, d)' <=> Done(region, d)
  BY <1>1, <1>2 DEF Done
<1>5. \A k : HandedOut(d, k)' <=> HandedOut(d, k)
  BY <1>1, <1>2 DEF HandedOut
<1>6. ~Open(d)' => \A i \in Work(Body[d]) : ~Has(region, d, i)'
  BY <1>2, <1>3 DEF DynamicOk
<1>7. Open(d)' /\ ~Latest(d)' => Done(region, d)'
  BY <1>3, <1>4 DEF DynamicOk
<1>8. (\E u \in Thread : Finished(u, d)') => Done(region, d)'
  BY <1>1, <1>4 DEF DynamicOk
<1>9. Latest(d)' =>
        /\ bounds'.upper = Body[d].upper /\ bounds'.incr = Body[d].incr
        /\ bounds'.chunk = Body[d].chunk
        /\ \E k \in Nat : bounds'.lower = Nth(Body[d], k) /\ HandedOut(d, k)'
  BY <1>5 DEF DynamicOk
<1> QED BY <1>1, <1>6, <1>7, <1>8, <1>9 DEF DynamicOk

\* A region of the master alone.
LEMMA AloneWalk ==
  ASSUME Control, Control', Data, NEW t \in Thread, Walk(t), NEW c, c = at[t], NEW S, Adds(c, S),
         Team = 1, UNCHANGED <<myLoop, teamLoop, singleCount>>,
         \A i \in Work(Body[c]) : Has(region, c, i)' <=> (pc'[0] = "end" \/ taken'),
         pc'[0] = "end" \/ (/\ bounds'.lower = Body[c].lower /\ bounds'.upper = Body[c].upper
                            /\ bounds'.incr = Body[c].incr)
  PROVE  Data'
<1>1. /\ c \in DOMAIN Body /\ Running /\ Running' /\ UNCHANGED <<prog, region>>
      /\ Body' = Body /\ Team' = Team /\ T # 1 /\ t = 0
      /\ Begun(t, c)' /\ (Finished(t, c)' <=> pc'[t] = "end")
      /\ \A u \in Thread, d \in DOMAIN Body : u # t \/ d # c =>
           (Begun(u, d)' <=> Begun(u, d)) /\ (Finished(u, d)' <=> Finished(u, d))
      /\ \A d \in DOMAIN Body : /\ d < c => Begun(t, d) /\ Finished(t, d)
                                /\ d > c => ~Begun(t, d)
  BY WalkMarks, ThreadNat
<1>2. \A d \in DOMAIN Body : d \in Nat
  BY <1>1, RegionRuns
<1>3. AloneInv'
  <2> SUFFICES ASSUME NEW d \in DOMAIN Body
               PROVE  /\ \A i \in Work(Body[d]) :
                           Has(region, d, i)' <=> Finished(0, d)' \/ (Begun(0, d)' /\ taken')
                      /\ Begun(0, d)' /\ ~Finished(0, d)' =>
                           /\ bounds'.lower = Body[d].lower /\ bounds'.upper = Body[d].upper
                           /\ bounds'.incr = Body[d].incr
    BY <1>1 DEF AloneInv
  <2>1. CASE d = c
    BY <1>1, <2>1
  <2>2. CASE d # c
    <3>1. (Begun(0, d)' <=> Begun(0, d)) /\ (Finished(0, d)' <=> Finished(0, d))
      BY <1>1, <2>2
    <3>2. Begun(0, d) <=> Finished(0, d)
      <4>1. d < c \/ d > c
        BY <1>1, <1>2, <2>2
      <4>2. Finished(0, d) => Begun(0, d)
        BY <1>2, ZeroThread, MarksOrder DEF Control
      <4> QED BY <1>1, <4>1, <4>2
    <3>3. \A i \in Work(Body[d]) : Has(region, d, i)' <=> Has(region, d, i)
      BY <1>1, <2>2 DEF Adds
    <3>4. \A i \in Work(Body[d]) : Has(region, d, i) <=> Finished(0, d) \/ (Begun(0, d) /\ taken)
      BY <1>1 DEF Data, AloneInv
    <3> QED BY <3>1, <3>2, <3>3, <3>4
  <2> QED BY <2>1, <2>2
<1>4. WorkInv'
  BY <1>1 DEF WorkInv
<1>5. DoneInv' /\ SingleInv'
  BY WalkKeeps
<1>6. LoopInv'
  BY <1>1, LoopKept DEF Data
<1> QED BY <1>3, <1>4, <1>5, <1>6 DEF Data, Adds

-----------------------------------------------------------------------------
(* Data: constructs in a region of the master alone.                       *)

LEMMA AloneData ==
  ASSUME Control, Control', Data, NEW t \in Thread, Team = 1,
         \/ StaticInit(t) \/ SchedulerInit(t) \/ NextAll(t) \/ NoMore(t) \/ Single(t)
  PROVE  Data'
<1>1. Walk(t)
  BY Walks
<1>2. PICK c : c = at[t]
  OBVIOUS
<1>3. /\ c \in DOMAIN Body /\ Running /\ UNCHANGED <<prog, region>> /\ t = 0 /\ Body' = Body
      /\ ~Finished(t, c) /\ (Begun(t, c) <=> pc[t] = "next")
  BY <1>1, <1>2, WalkMarks
<1>4. region \in 1..region /\ Body[c] \in Construct
  BY <1>3, RegionRuns
<1>5. /\ \A i \in Work(Body[c]) : Has(region, c, i) <=> (pc[0] = "next" /\ taken)
      /\ pc[0] = "next" => /\ bounds.lower = Body[c].lower /\ bounds.upper = Body[c].upper
                           /\ bounds.incr = Body[c].incr
  BY <1>3 DEF Data, AloneInv
<1>6. Current(t) = Body[c] /\ Typed
  BY <1>2 DEF Current, Control
<1>7. ASSUME Ran(t, Work(Body[c])), ~(pc[0] = "next" /\ taken)
      PROVE  /\ Adds(c, Work(Body[c]))
             /\ \A i \in Work(Body[c]) : Has(region, c, i)'
  <2>1. \A i \in Work(Body[c]) : ~Has(region, c, i)
    BY <1>5, <1>7
  <2>2. Adds(c, Work(Body[c]))
    BY <1>2, <1>3, <1>4, <1>7, <2>1, RanAdds DEF Adds
  <2> QED BY <1>3, <2>2 DEF Adds
<1>8. CASE StaticInit(t) \/ Single(t)
  <2>1. /\ Calls(t, {"even", "static", "single"}) /\ Goto(t, "end")
        /\ UNCHANGED <<myLoop, teamLoop, singleCount>>
    BY <1>8 DEF StaticInit, Single, loopVars, Calls
  <2>2. pc[0] = "body" /\ pc'[0] = "end"
    BY <1>3, <1>6, <2>1, Place DEF Calls
  <2>3. Ran(t, Work(Body[c]))
    <3>1. CASE StaticInit(t)
      BY <1>6, <3>1 DEF StaticInit
    <3>2. CASE Single(t)
      <4>1. Work(Body[c]) = {0}
        BY <1>6, <3>2 DEF Single, Calls, Work
      <4> QED BY <3>2, <4>1 DEF Single
    <3> QED BY <1>8, <3>1, <3>2
  <2> QED BY <1>1, <1>2, <1>7, <2>1, <2>2, <2>3, AloneWalk
<1>9. CASE SchedulerInit(t)
  <2>1. /\ Calls(t, {"dynamic"}) /\ Goto(t, "next")
        /\ bounds' = [BoundsOf(Body[c]) EXCEPT !.chunk = bounds.chunk] /\ taken' = FALSE
        /\ UNCHANGED <<myLoop, teamLoop, singleCount, ran>>
    BY <1>6, <1>9 DEF SchedulerInit
  <2>2. pc[0] = "body" /\ pc'[0] = "next"
    BY <1>3, <1>6, <2>1, Place DEF Calls
  <2>3. /\ bounds'.lower = Body[c].lower /\ bounds'.upper = Body[c].upper
        /\ bounds'.incr = Body[c].incr
    BY <2>1 DEF BoundsOf
  <2>4. Adds(c, {})
    BY <1>3, <2>1, NothingRun
  <2>5. \A i \in Work(Body[c]) : Has(region, c, i)' <=> (pc'[0] = "end" \/ taken')
    BY <1>3, <1>5, <2>1, <2>2, <2>4 DEF Adds
  <2> QED BY <1>1, <1>2, <2>1, <2>3, <2>4, <2>5, AloneWalk
<1>10. CASE NextAll(t)
  <2>1. /\ pc[t] = "next" /\ taken' = TRUE /\ ~taken
        /\ Ran(t, Iterations(bounds.lower, bounds.upper, bounds.incr))
        /\ UNCHANGED <<pc, myLoop, teamLoop, singleCount, bounds>>
    BY <1>10 DEF NextAll
  <2>2. Body[c].kind = "dynamic"
    BY <1>6, <2>1, NextPlaceFacts
  <2>3. Work(Body[c]) = Iterations(bounds.lower, bounds.upper, bounds.incr)
    BY <1>3, <1>5, <2>1, <2>2 DEF Work
  <2> QED BY <1>1, <1>2, <1>3, <1>5, <1>7, <2>1, <2>3, AloneWalk
<1>11. CASE NoMore(t)
  <2>1. /\ pc[t] = "next" /\ taken /\ Goto(t, "end")
        /\ UNCHANGED <<myLoop, teamLoop, singleCount, bounds, ran>>
    BY <1>11 DEF NoMore, loopVars
  <2>2. pc'[0] = "end"
    BY <1>3, <1>6, <2>1, Place
  <2>3. Adds(c, {})
    BY <1>3, <2>1, NothingRun
  <2>4. \A i \in Work(Body[c]) : Has(region, c, i)' <=> (pc'[0] = "end" \/ taken')
    BY <1>3, <1>5, <2>1, <2>2, <2>3 DEF Adds
  <2> QED BY <1>1, <1>2, <2>1, <2>2, <2>3, <2>4, AloneWalk
<1> QED BY <1>8, <1>9, <1>10, <1>11

-----------------------------------------------------------------------------
(* Data: constructs in a region of the full team.                          *)

LEMMA TeamWalk ==
  ASSUME Control, Data, NEW t \in Thread, Walk(t), NEW c, c = at[t], NEW S, Adds(c, S),
         Team = T,
         \A d \in DOMAIN Body : d # c /\ Body[d].kind = "dynamic" => DynamicOk(d)',
         Body[c].kind \in {"even", "static"} => SharedOk(c)',
         Body[c].kind = "single" => SingleOk(c)',
         Body[c].kind = "dynamic" => DynamicOk(c)',
         SingleInv', LoopInv'
  PROVE  Data'
<1>1. /\ c \in DOMAIN Body /\ Running /\ Body' = Body /\ Team' = Team /\ T # 1
  BY WalkMarks, ThreadNat
<1>2. /\ DoneInv'
      /\ \A d \in DOMAIN Body : d # c => /\ SharedOk(d) => SharedOk(d)'
                                         /\ SingleOk(d) => SingleOk(d)'
  BY WalkKeeps
<1>3. \A d \in DOMAIN Body :
        /\ Body[d].kind \in {"even", "static"} => SharedOk(d)
        /\ Body[d].kind = "single" => SingleOk(d)
  BY <1>1 DEF Data, WorkInv
<1>4. \A d \in DOMAIN Body :
        /\ Body[d].kind \in {"even", "static"} => SharedOk(d)'
        /\ Body[d].kind = "single" => SingleOk(d)'
        /\ Body[d].kind = "dynamic" => DynamicOk(d)'
  <2> SUFFICES ASSUME NEW d \in DOMAIN Body
               PROVE  /\ Body[d].kind \in {"even", "static"} => SharedOk(d)'
                      /\ Body[d].kind = "single" => SingleOk(d)'
                      /\ Body[d].kind = "dynamic" => DynamicOk(d)'
    OBVIOUS
  <2>1. CASE d = c
    <3>1. /\ Body[c].kind \in {"even", "static"} => SharedOk(c)'
          /\ Body[c].kind = "single" => SingleOk(c)'
          /\ Body[c].kind = "dynamic" => DynamicOk(c)'
      OBVIOUS
    <3>2. (SharedOk(c)' => SharedOk(d)') /\ (SingleOk(c)' => SingleOk(d)')
          /\ (DynamicOk(c)' => DynamicOk(d)')
      BY <2>1
    <3> QED BY <2>1, <3>1, <3>2
  <2>2. CASE d # c
    BY <1>2, <1>3, <2>2
  <2> QED BY <2>1, <2>2
<1>5. WorkInv'
  BY <1>1, <1>4 DEF WorkInv
<1>6. AloneInv'
  BY <1>1 DEF AloneInv
<1> QED BY <1>2, <1>5, <1>6 DEF Data, Adds

\* A construct that is no dynamic loop.
LEMMA PlainWalk ==
  ASSUME Control, Data, NEW t \in Thread, Walk(t), NEW c, c = at[t], NEW S, Adds(c, S),
         Team = T, Body[c].kind # "dynamic", UNCHANGED <<bounds, myLoop, teamLoop>>,
         Body[c].kind \in {"even", "static"} => SharedOk(c)',
         Body[c].kind = "single" => SingleOk(c)',
         SingleInv'
  PROVE  Data'
<1>1. /\ c \in DOMAIN Body /\ Running /\ Body' = Body /\ UNCHANGED <<prog, region>>
      /\ \A u \in Thread, d \in DOMAIN Body : u # t \/ d # c =>
           (Begun(u, d)' <=> Begun(u, d)) /\ (Finished(u, d)' <=> Finished(u, d))
  BY WalkMarks
<1>2. \A u \in Thread, d \in DOMAIN Body : Body[d].kind = "dynamic" => (Begun(u, d)' <=> Begun(u, d))
  BY <1>1
<1>3. LoopInv'
  BY <1>1, <1>2, LoopKept DEF Data
<1>4. \A d \in DOMAIN Body : Body[d].kind = "dynamic" => (Open(d)' <=> Open(d))
  BY <1>2 DEF Open
<1>5. ASSUME NEW d \in DOMAIN Body, d # c, Body[d].kind = "dynamic"
      PROVE  DynamicOk(d)'
  <2>1. Latest(d)' <=> Latest(d)
    BY <1>1, <1>4, <1>5 DEF Latest
  <2>2. DynamicOk(d)
    BY <1>1, <1>5 DEF Data, WorkInv
  <2> QED BY <1>5, <2>1, <2>2, OtherDynamic
<1> QED BY <1>3, <1>5, TeamWalk

LEMMA StaticData ==
  ASSUME Control, Data, \A p \in Programs : Orderly(p), NEW t \in Thread, StaticInit(t), Team = T
  PROVE  Data'
<1>1. Walk(t) /\ T # 1
  BY Walks, ThreadNat
<1>2. PICK c : c = at[t]
  OBVIOUS
<1>3. /\ c \in DOMAIN Body /\ Running /\ UNCHANGED <<prog, region>> /\ Body' = Body
      /\ Begun(t, c)' /\ ~Finished(t, c)
      /\ Finished(t, c)' <=> pc'[t] = "end"
      /\ \A u \in Thread, d \in DOMAIN Body : u # t \/ d # c =>
           (Begun(u, d)' <=> Begun(u, d)) /\ (Finished(u, d)' <=> Finished(u, d))
  BY <1>1, <1>2, WalkMarks
<1>4. /\ region \in 1..region /\ Body[c] \in Construct /\ Body = prog[region].body
      /\ region \in Full(prog) /\ prog \in Programs
  BY <1>3, RegionRuns
<1>5. /\ Body[c].kind \in {"even", "static"} /\ Ran(t, Share(t, Body[c])) /\ Goto(t, "end")
      /\ UNCHANGED <<bounds, myLoop, teamLoop, singleCount>>
  BY <1>1, <1>2 DEF StaticInit, Calls, Current, Share, loopVars
<1>6. Finished(t, c)'
  BY <1>3, <1>5, Place DEF Control
<1>7. Body[c] \in Loops /\ (Body[c].kind = "even" => NoRest(Body[c]))
  <2>1. Body[c] \in Loops
    BY <1>4, <1>5 DEF Loops
  <2>2. ASSUME Body[c].kind = "even" PROVE NoRest(Body[c])
    <3>1. region \in Full(prog) /\ Orderly(prog) /\ c \in DOMAIN prog[region].body
          /\ prog[region].body[c].kind = "even"
      BY <1>3, <1>4, <2>2
    <3> QED BY <1>4, <3>1, OrderlyPair
  <2> QED BY <2>1, <2>2
<1>8. PICK k : k = Body[c]
  OBVIOUS
<1>9. /\ \A u \in Thread : Share(u, k) \subseteq Work(k)
      /\ \A u, v \in Thread : u # v => Share(u, k) \cap Share(v, k) = {}
  BY <1>7, <1>8, ShareSplit
<1>10. \A i \in Work(k) : Has(region, c, i) <=> \E u \in Thread : Finished(u, c) /\ i \in Share(u, k)
  BY <1>3, <1>5, <1>8 DEF Data, WorkInv, SharedOk
<1>11. ASSUME NEW i \in Share(t, k) PROVE ~Has(region, c, i)
  <2> SUFFICES ASSUME Has(region, c, i) PROVE FALSE
    OBVIOUS
  <2>1. PICK u \in Thread : Finished(u, c) /\ i \in Share(u, k)
    BY <1>9, <1>10, <1>11
  <2>2. u = t
    BY <1>9, <1>11, <2>1
  <2> QED BY <1>3, <2>1, <2>2
<1>12. Adds(c, Share(t, k))
  <2>1. Ran(t, Share(t, k)) /\ Share(t, k) \subseteq Work(Body[c])
        /\ \A i \in Share(t, k) : ~Has(region, c, i)
    BY <1>5, <1>8, <1>9, <1>11
  <2> QED BY <1>2, <1>3, <1>4, <2>1, RanAdds DEF Adds
<1>13. SharedOk(c)'
  <2>1. \A u \in Thread : Finished(u, c)' <=> Finished(u, c) \/ u = t
    BY <1>3, <1>6
  <2>2. \A i : Has(region, c, i)' <=> Has(region, c, i) \/ i \in Share(t, k)
    BY <1>3, <1>12 DEF Adds
  <2>3. \A i \in Work(k) :
          Has(region, c, i)' <=> \E u \in Thread : Finished(u, c)' /\ i \in Share(u, k)
    BY <1>10, <2>1, <2>2
  <2> QED BY <1>3, <1>8, <2>3 DEF SharedOk
<1>14. SingleInv'
  BY <1>1, <1>2, <1>5, <1>12, WalkKeeps
<1> QED BY <1>1, <1>2, <1>5, <1>12, <1>13, <1>14, PlainWalk

LEMMA SingleData ==
  ASSUME Control, Data, \A p \in Programs : Orderly(p), NEW t \in Thread, Single(t), Team = T
  PROVE  Data'
<1>1. Walk(t) /\ T # 1
  BY Walks, ThreadNat
<1>2. PICK c : c = at[t]
  OBVIOUS
<1>3. /\ c \in DOMAIN Body /\ Running /\ UNCHANGED <<prog, region>> /\ Body' = Body
      /\ Full(prog)' = Full(prog)
      /\ Finished(t, c)' <=> pc'[t] = "end"
  BY <1>1, <1>2, WalkMarks
<1>4. /\ region \in 1..region /\ Body[c] \in Construct /\ Body = prog[region].body
      /\ region \in Full(prog) /\ prog \in Programs
  BY <1>3, RegionRuns
<1>5. /\ Body[c].kind = "single" /\ Goto(t, "end")
      /\ UNCHANGED <<bounds, myLoop, teamLoop>>
      /\ \/ singleCount < 1 /\ Ran(t, {0}) /\ singleCount' = singleCount + 1
         \/ ~(singleCount < 1) /\ UNCHANGED <<singleCount, ran>>
  BY <1>1, <1>2 DEF Single, Calls, Current, loopVars
<1>6. Finished(t, c)'
  BY <1>3, <1>5, Place DEF Control
<1>7. singleCount \in Nat /\ Work(Body[c]) = {0}
  BY <1>5 DEF Control, Typed, Work
<1>8. Has(region, c, 0) <=> singleCount > 0
  BY <1>3, <1>4, <1>5 DEF Data, SingleInv
<1>9. ASSUME NEW S, Adds(c, S), Has(region, c, 0)', singleCount' > 0 PROVE Data'
  <2>1. SingleOk(c)'
    BY <1>6, <1>9 DEF SingleOk
  <2>2. SingleInv'
    <3> SUFFICES ASSUME NEW r \in Full(prog), NEW d \in DOMAIN prog[r].body,
                        prog[r].body[d].kind = "single"
                 PROVE  Has(r, d, 0)'
      BY <1>3, <1>9 DEF SingleInv
    <3>1. r = region /\ d = c
      <4>1. /\ region \in Full(prog) /\ Orderly(prog) /\ c \in DOMAIN prog[region].body
            /\ prog[region].body[c].kind = "single"
        BY <1>3, <1>4, <1>5
      <4> QED BY <4>1, OrderlyPair
    <3> QED BY <1>3, <1>9, <3>1
  <2> QED BY <1>1, <1>2, <1>5, <1>9, <2>1, <2>2, PlainWalk
<1>10. CASE singleCount < 1 /\ Ran(t, {0}) /\ singleCount' = singleCount + 1
  <2>1. \A i \in {0} : ~Has(region, c, i)
    BY <1>7, <1>8, <1>10
  <2>2. Adds(c, {0})
    <3>1. Ran(t, {0}) /\ {0} \subseteq Work(Body[c])
      BY <1>7, <1>10
    <3> QED BY <1>2, <1>3, <1>4, <2>1, <3>1, RanAdds DEF Adds
  <2>3. Has(region, c, 0)'
    BY <1>3, <2>2 DEF Adds
  <2> QED BY <1>7, <1>9, <1>10, <2>2, <2>3
<1>11. CASE ~(singleCount < 1) /\ UNCHANGED <<singleCount, ran>>
  <2>1. Adds(c, {})
    BY <1>3, <1>11, NothingRun
  <2>2. singleCount > 0
    BY <1>7, <1>11
  <2>3. Has(region, c, 0)'
    BY <1>3, <1>8, <2>1, <2>2 DEF Adds
  <2> QED BY <1>9, <1>11, <2>1, <2>2, <2>3
<1> QED BY <1>5, <1>10, <1>11

-----------------------------------------------------------------------------
(* Data: dynamic loops in a region of the full team.                       *)

\* A barrier lies between this loop and the next one, and a thread has not left it.
LEMMA NoneAhead ==
  ASSUME Control, \A p \in Programs : Orderly(p), Running, Team = T, NEW t \in Thread,
         NEW c \in DOMAIN Body, Body[c].kind = "dynamic",
         \A d \in DOMAIN Body : c <= d => ~Beyond(t, d)
  PROVE  \A d \in DOMAIN Body : d > c /\ Body[d].kind = "dynamic" => ~Open(d)
<1> SUFFICES ASSUME NEW d \in DOMAIN Body, d > c, Body[d].kind = "dynamic",
                    NEW u \in Thread, Begun(u, d)
             PROVE  FALSE
  BY DEF Open
<1>1. /\ region \in Full(prog) /\ Orderly(prog) /\ Body = prog[region].body
      /\ DOMAIN Body = 1..Len(Body) /\ Len(Body) \in Nat /\ c \in Nat /\ d \in Nat /\ c < d
  BY RegionRuns
<1>2. PICK b \in c..(d-1) : ~Body[b].nowait
  BY <1>1, OrderlyPair
<1>3. b \in DOMAIN Body /\ c <= b /\ b < d /\ b \in Nat
  BY <1>1, <1>2
<1>4. Beyond(u, b)
  BY <1>1, <1>3, MarksOrder DEF Control
<1>5. Beyond(t, b)
  BY <1>2, <1>3, <1>4 DEF Control, BarrierInv
<1> QED BY <1>3, <1>5

\* The loops that a thread has begun, and that the team has, where the thread
\* calls one.
LEMMA LoopsAt ==
  ASSUME Control, \A p \in Programs : Orderly(p), Running, Team = T, NEW t \in Thread,
         NEW c \in DOMAIN Body, Body[c].kind = "dynamic", ~Begun(t, c),
         \A d \in DOMAIN Body : d < c => Begun(t, d),
         \A d \in DOMAIN Body : c <= d => ~Beyond(t, d)
  PROVE  /\ OpenLoops = LoopsOf(t) \union (IF Open(c) THEN {c} ELSE {})
         /\ Cardinality(LoopsOf(t)) \in Nat
         /\ Cardinality(LoopsOf(t) \union {c}) = Cardinality(LoopsOf(t)) + 1
<1>1. \A d \in DOMAIN Body : d > c /\ Body[d].kind = "dynamic" => ~Open(d)
  BY NoneAhead
<1>2. DOMAIN Body = 1..Len(Body) /\ Len(Body) \in Nat /\ \A d \in DOMAIN Body : d \in Nat
  BY RegionRuns
<1>3. ASSUME NEW d \in DOMAIN Body, Body[d].kind = "dynamic", d # c
      PROVE  Open(d) <=> Begun(t, d)
  <2>1. d < c \/ d > c
    BY <1>2, <1>3
  <2> QED BY <1>1, <1>3, <2>1 DEF Open
<1>4. OpenLoops = LoopsOf(t) \union (IF Open(c) THEN {c} ELSE {})
  <2>1. \A d : d \in OpenLoops <=> d \in LoopsOf(t) \/ (d = c /\ Open(c))
    BY <1>3 DEF OpenLoops, LoopsOf
  <2> QED BY <2>1
<1>5. IsFiniteSet(LoopsOf(t)) /\ c \notin LoopsOf(t)
  <2>1. LoopsOf(t) \subseteq 1..Len(Body)
    BY <1>2 DEF LoopsOf
  <2>2. IsFiniteSet(1..Len(Body))
    BY <1>2, FS_Interval
  <2> QED BY <2>1, <2>2, FS_Subset DEF LoopsOf
<1>6. Cardinality(LoopsOf(t)) \in Nat
  BY <1>5, FS_CardinalityType
<1>7. Cardinality(LoopsOf(t) \union {c}) = Cardinality(LoopsOf(t)) + 1
  BY <1>5, FS_AddElement
<1> QED BY <1>4, <1>6, <1>7

LEMMA SchedulerInitData ==
  ASSUME Control, Data, \A p \in Programs : Orderly(p), NEW t \in Thread, SchedulerInit(t),
         Team = T
  PROVE  Data'
<1>1. Walk(t) /\ T # 1 /\ Typed
  BY Walks, ThreadNat DEF Control
<1>2. PICK c : c = at[t]
  OBVIOUS
<1>3. /\ c \in DOMAIN Body /\ Running /\ Running' /\ UNCHANGED <<prog, region>> /\ Body' = Body
      /\ Team' = Team
      /\ Begun(t, c)' /\ ~Finished(t, c) /\ (Finished(t, c)' <=> pc'[t] = "end")
      /\ Begun(t, c) <=> pc[t] = "next"
      /\ \A u \in Thread, d \in DOMAIN Body : u # t \/ d # c =>
           (Begun(u, d)' <=> Begun(u, d)) /\ (Finished(u, d)' <=> Finished(u, d))
      /\ \A d \in DOMAIN Body : /\ d < c => Begun(t, d) /\ Finished(t, d)
                                /\ d > c => ~Begun(t, d)
      /\ \A d \in DOMAIN Body : c <= d => ~Beyond(t, d)
  BY <1>1, <1>2, WalkMarks
<1>4. /\ region \in Full(prog) /\ prog \in Programs /\ Body[c] \in Construct
      /\ Body = prog[region].body /\ region \in Nat /\ \A d \in DOMAIN Body : d \in Nat
  BY <1>3, RegionRuns
<1>5. /\ pc[t] = "body" /\ Body[c].kind = "dynamic" /\ Goto(t, "next")
      /\ myLoop' = [myLoop EXCEPT ![t] = myLoop[t] + 1]
      /\ FirstHere(t) => /\ bounds' = BoundsOf(Body[c]) /\ teamLoop' = teamLoop + 1
      /\ ~FirstHere(t) => UNCHANGED <<teamLoop, bounds>>
      /\ UNCHANGED <<singleCount, ran>>
  BY <1>1, <1>2 DEF SchedulerInit, Calls, Current
<1>6. pc'[t] = "next" /\ ~Begun(t, c) /\ ~Finished(t, c)'
  BY <1>1, <1>3, <1>5, Place
<1>7. \A d \in DOMAIN Body : d > c /\ Body[d].kind = "dynamic" => ~Open(d)
  BY <1>3, <1>5, NoneAhead
<1>8. /\ OpenLoops = LoopsOf(t) \union (IF Open(c) THEN {c} ELSE {})
      /\ Cardinality(LoopsOf(t)) \in Nat
      /\ Cardinality(LoopsOf(t) \union {c}) = Cardinality(LoopsOf(t)) + 1
  BY <1>3, <1>5, <1>6, LoopsAt
<1>9. /\ \A u \in Thread : myLoop[u] = Cardinality(LoopsOf(u))
      /\ teamLoop = Cardinality(OpenLoops)
  BY <1>3, <1>4, <1>5 DEF Data, LoopInv, HasLoop
<1>10. FirstHere(t) <=> ~Open(c)
  <2>1. CASE Open(c)
    <3>1. OpenLoops = LoopsOf(t) \union {c}
      BY <1>8, <2>1
    <3> QED BY <1>8, <1>9, <2>1, <3>1 DEF FirstHere
  <2>2. CASE ~Open(c)
    <3>1. OpenLoops = LoopsOf(t)
      BY <1>8, <2>2
    <3> QED BY <1>8, <1>9, <2>2, <3>1 DEF FirstHere
  <2> QED BY <2>1, <2>2
<1>11. /\ LoopsOf(t)' = LoopsOf(t) \union {c}
       /\ \A u \in Thread : u # t => LoopsOf(u)' = LoopsOf(u)
       /\ OpenLoops' = OpenLoops \union {c}
       /\ Open(c)' /\ \A d \in DOMAIN Body : d # c => (Open(d)' <=> Open(d))
  <2>1. LoopsOf(t)' = LoopsOf(t) \union {c}
    BY <1>3, <1>5 DEF LoopsOf
  <2>2. \A u \in Thread : u # t => LoopsOf(u)' = LoopsOf(u)
    BY <1>3 DEF LoopsOf
  <2>3. Open(c)' /\ \A d \in DOMAIN Body : d # c => (Open(d)' <=> Open(d))
    BY <1>3 DEF Open
  <2>4. OpenLoops' = OpenLoops \union {c}
    BY <1>3, <1>5, <2>3 DEF OpenLoops
  <2> QED BY <2>1, <2>2, <2>3, <2>4
<1>12. LoopInv'
  <2>1. myLoop'[t] = myLoop[t] + 1 /\ \A u \in Thread : u # t => myLoop'[u] = myLoop[u]
    BY <1>1, <1>5 DEF Typed
  <2>2. ASSUME NEW u \in Thread PROVE myLoop'[u] = Cardinality(LoopsOf(u)')
    <3>1. CASE u = t
      BY <1>8, <1>9, <1>11, <2>1, <3>1
    <3>2. CASE u # t
      BY <1>9, <1>11, <2>1, <3>2
    <3> QED BY <3>1, <3>2
  <2>3. teamLoop' = Cardinality(OpenLoops')
    <3>1. CASE Open(c)
      <4>1. OpenLoops' = OpenLoops
        BY <1>8, <1>11, <3>1
      <4> QED BY <1>5, <1>9, <1>10, <3>1, <4>1
    <3>2. CASE ~Open(c)
      <4>1. OpenLoops = LoopsOf(t)
        BY <1>8, <3>2
      <4> QED BY <1>5, <1>8, <1>9, <1>10, <1>11, <3>2, <4>1
    <3> QED BY <3>1, <3>2
  <2>4. ~(\A r \in Full(prog) : r <= region => ~HasLoop(r))'
    <3>1. region <= region /\ HasLoop(region)'
      BY <1>3, <1>4, <1>5 DEF HasLoop
    <3> QED BY <1>3, <1>4, <3>1 DEF Full
  <2> QED BY <2>2, <2>3, <2>4 DEF LoopInv
<1>13. Adds(c, {}) /\ SingleInv'
  <2>1. Adds(c, {})
    BY <1>3, <1>5, NothingRun
  <2> QED BY <1>1, <1>2, <1>5, <2>1, WalkKeeps
<1>14. \A i : Has(region, c, i)' <=> Has(region, c, i)
  BY <1>3, <1>13 DEF Adds
<1>15. \A d \in DOMAIN Body : Body[d].kind = "dynamic" => DynamicOk(d)
  BY <1>3 DEF Data, WorkInv
<1>16. CASE ~Open(c)
  <2>1. bounds' = BoundsOf(Body[c])
    BY <1>5, <1>10, <1>16
  <2>2. ASSUME NEW d \in DOMAIN Body, d # c, Body[d].kind = "dynamic"
        PROVE  DynamicOk(d)'
    <3>1. d < c \/ d > c
      BY <1>3, <1>4, <2>2
    <3>2. ~Latest(d)'
      <4>1. CASE d < c
        BY <1>3, <1>5, <1>11, <4>1 DEF Latest
      <4>2. CASE d > c
        BY <1>7, <1>11, <2>2, <4>2 DEF Latest
      <4> QED BY <3>1, <4>1, <4>2
    <3>3. Latest(d) => Done(region, d)
      <4> SUFFICES ASSUME Latest(d) PROVE Done(region, d)
        OBVIOUS
      <4>1. d < c
        BY <1>7, <2>2, <3>1 DEF Latest
      <4>2. Finished(t, d)
        BY <1>3, <4>1
      <4> QED BY <1>15, <2>2, <4>2 DEF DynamicOk
    <3> QED BY <1>1, <1>2, <1>13, <1>15, <2>2, <3>2, <3>3, OtherDynamic
  <2>3. \A i \in Work(Body[c]) : ~Has(region, c, i)'
    BY <1>5, <1>14, <1>15, <1>16, <1>3 DEF DynamicOk
  <2>4. \A u \in Thread : ~Finished(u, c)'
    <3> SUFFICES ASSUME NEW u \in Thread, u # t, Finished(u, c) PROVE FALSE
      BY <1>3, <1>6
    <3>1. Begun(u, c)
      BY <1>3, <1>4, MarksOrder DEF Control
    <3> QED BY <1>16, <3>1 DEF Open
  <2>5. Latest(c)'
    BY <1>3, <1>4, <1>7, <1>11 DEF Latest
  <2>6. bounds'.lower = Nth(Body[c], 0)
    <3>1. Body[c].lower \in Int /\ Body[c].incr \in Int
      BY <1>4, LoopFields
    <3>2. 0 * Body[c].incr = 0
      BY <3>1
    <3> QED BY <2>1, <3>1, <3>2 DEF BoundsOf, Nth
  <2>7. HandedOut(c, 0)'
    <3>1. Body[c] \in Loops
      BY <1>4, <1>5 DEF Loops
    <3>2. \A j \in Nat : Within(Body[c], Nth(Body[c], j)) => ~Has(region, c, Nth(Body[c], j))'
      BY <1>3, <2>3, <3>1, WorkIs
    <3> QED BY <1>3, <3>2 DEF HandedOut
  <2>8. DynamicOk(c)'
    <3>1. /\ bounds'.upper = Body[c].upper /\ bounds'.incr = Body[c].incr
          /\ bounds'.chunk = Body[c].chunk
      BY <2>1 DEF BoundsOf
    <3> QED BY <1>3, <1>11, <2>4, <2>5, <2>6, <2>7, <3>1 DEF DynamicOk
  <2> QED BY <1>1, <1>2, <1>5, <1>12, <1>13, <2>2, <2>8, TeamWalk
<1>17. CASE Open(c)
  <2>1. UNCHANGED bounds
    BY <1>5, <1>10, <1>17
  <2>2. \A d \in DOMAIN Body : Latest(d)' <=> Latest(d)
    BY <1>3, <1>11, <1>17 DEF Latest
  <2>3. \A d \in DOMAIN Body : d # c /\ Body[d].kind = "dynamic" => DynamicOk(d)'
    BY <1>1, <1>2, <1>13, <1>15, <2>1, <2>2, OtherDynamic
  <2>4. DynamicOk(c)'
    <3>1. DynamicOk(c)
      BY <1>3, <1>5, <1>15
    <3>2. \A k : HandedOut(c, k)' <=> HandedOut(c, k)
      BY <1>3, <1>14 DEF HandedOut
    <3>3. Done(region, c)' <=> Done(region, c)
      BY <1>3, <1>14 DEF Done
    <3>4. \A u \in Thread : Finished(u, c)' <=> Finished(u, c)
      BY <1>3, <1>6
    <3>5. Latest(c)' <=> Latest(c)
      BY <1>3, <2>2
    <3> QED BY <1>3, <1>11, <1>17, <2>1, <3>1, <3>2, <3>3, <3>4, <3>5 DEF DynamicOk
  <2> QED BY <1>1, <1>2, <1>5, <1>12, <1>13, <2>3, <2>4, TeamWalk
<1> QED BY <1>16, <1>17

\* A thread that takes chunks takes them of the loop whose bounds the team has.
LEMMA TakesLatest ==
  ASSUME Control, Data, \A p \in Programs : Orderly(p), NEW t \in Thread, Walk(t),
         NEW c, c = at[t], Team = T, pc[t] = "next"
  PROVE  /\ Body[c].kind = "dynamic" /\ Body[c] \in Construct /\ Latest(c)
         /\ bounds.upper = Body[c].upper /\ bounds.incr = Body[c].incr
         /\ bounds.chunk = Body[c].chunk
         /\ \E k \in Nat : bounds.lower = Nth(Body[c], k) /\ HandedOut(c, k)
         /\ \A u \in Thread, d \in DOMAIN Body : Begun(u, d)' <=> Begun(u, d)
         /\ \A d \in DOMAIN Body : Latest(d)' <=> Latest(d)
         /\ \A d \in DOMAIN Body : d # c /\ Body[d].kind = "dynamic" => ~Latest(d)
<1>1. /\ c \in DOMAIN Body /\ Running /\ Body' = Body /\ T # 1 /\ Begun(t, c) /\ Begun(t, c)'
      /\ \A u \in Thread, d \in DOMAIN Body : u # t \/ d # c =>
           (Begun(u, d)' <=> Begun(u, d)) /\ (Finished(u, d)' <=> Finished(u, d))
      /\ \A d \in DOMAIN Body : c <= d => ~Beyond(t, d)
  BY WalkMarks, ThreadNat
<1>2. Body[c].kind = "dynamic" /\ Body[c] \in Construct
  BY NextPlaceFacts DEF Current
<1>3. \A d \in DOMAIN Body : d > c /\ Body[d].kind = "dynamic" => ~Open(d)
  BY <1>1, <1>2, NoneAhead
<1>4. Latest(c)
  BY <1>1, <1>3 DEF Latest, Open
<1>5. DynamicOk(c)
  BY <1>1, <1>2 DEF Data, WorkInv
<1>6. \A u \in Thread, d \in DOMAIN Body : Begun(u, d)' <=> Begun(u, d)
  BY <1>1
<1>7. \A d \in DOMAIN Body : Latest(d)' <=> Latest(d)
  <2>1. \A d \in DOMAIN Body : Open(d)' <=> Open(d)
    BY <1>6 DEF Open
  <2> QED BY <1>1, <2>1 DEF Latest
<1>8. ASSUME NEW d \in DOMAIN Body, d # c, Body[d].kind = "dynamic" PROVE ~Latest(d)
  <2>1. d < c \/ d > c
    BY <1>1, <1>8, RegionRuns
  <2> QED BY <1>1, <1>2, <1>3, <1>4, <1>8, <2>1 DEF Latest
<1> QED BY <1>2, <1>4, <1>5, <1>6, <1>7, <1>8 DEF DynamicOk

LEMMA NthAdd ==
  ASSUME NEW c \in Construct, NEW k \in Int, NEW m \in Int
  PROVE  Nth(c, k) + m * c.incr = Nth(c, k + m)
<1>1. PICK a, l : a = c.incr /\ l = c.lower
  OBVIOUS
<1>2. a \in Int /\ l \in Int
  BY <1>1, LoopFields
<1>3. PICK x, y, z : x = k * a /\ y = m * a /\ z = (k + m) * a
  OBVIOUS
<1>4. x \in Int /\ y \in Int /\ z = x + y
  BY <1>2, <1>3
<1>5. (l + x) + y = l + z
  BY <1>2, <1>4
<1> QED BY <1>1, <1>3, <1>5 DEF Nth

\* The loop whose bounds the team has, after a step that hands out or ends it.
LEMMA TakesData ==
  ASSUME Control, Data, \A p \in Programs : Orderly(p), NEW t \in Thread, Walk(t),
         NEW c, c = at[t], Team = T, pc[t] = "next", NEW S, Adds(c, S), NEW k \in Nat,
         UNCHANGED <<myLoop, teamLoop, singleCount>>,
         bounds'.upper = bounds.upper, bounds'.incr = bounds.incr, bounds'.chunk = bounds.chunk,
         bounds'.lower = Nth(Body[c], k), HandedOut(c, k)',
         pc'[t] = "end" => Done(region, c)
  PROVE  Data'
<1>1. /\ Body[c].kind = "dynamic" /\ Latest(c)
      /\ bounds.upper = Body[c].upper /\ bounds.incr = Body[c].incr
      /\ bounds.chunk = Body[c].chunk
      /\ \A u \in Thread, d \in DOMAIN Body : Begun(u, d)' <=> Begun(u, d)
      /\ \A d \in DOMAIN Body : Latest(d)' <=> Latest(d)
      /\ \A d \in DOMAIN Body : d # c /\ Body[d].kind = "dynamic" => ~Latest(d)
  BY TakesLatest
<1>2. /\ c \in DOMAIN Body /\ Running /\ Running' /\ Body' = Body /\ T # 1
      /\ UNCHANGED <<prog, region>> /\ (Finished(t, c)' <=> pc'[t] = "end")
      /\ \A u \in Thread, d \in DOMAIN Body : u # t \/ d # c =>
           (Begun(u, d)' <=> Begun(u, d)) /\ (Finished(u, d)' <=> Finished(u, d))
  BY WalkMarks, ThreadNat
<1>3. \A d \in DOMAIN Body : Body[d].kind = "dynamic" => DynamicOk(d)
  BY <1>2 DEF Data, WorkInv
<1>4. \A d \in DOMAIN Body : d # c /\ Body[d].kind = "dynamic" => DynamicOk(d)'
  BY <1>1, <1>3, OtherDynamic
<1>5. SingleInv' /\ (Done(region, c) => Done(region, c)')
  BY <1>1, <1>2, WalkKeeps
<1>6. LoopInv'
  BY <1>1, <1>2, LoopKept DEF Data
<1>7. DynamicOk(c)'
  <2>1. Open(c)' /\ Latest(c)'
    BY <1>1, <1>2 DEF Latest
  <2>2. (\E u \in Thread : Finished(u, c)') => Done(region, c)'
    <3> SUFFICES ASSUME NEW u \in Thread, Finished(u, c)' PROVE Done(region, c)
      BY <1>5
    <3>1. CASE u = t
      BY <1>2, <3>1
    <3>2. CASE u # t
      <4>1. Finished(u, c)
        BY <1>2, <3>2
      <4> QED BY <1>1, <1>2, <1>3, <4>1 DEF DynamicOk
    <3> QED BY <3>1, <3>2
  <2> QED BY <1>1, <1>2, <2>1, <2>2 DEF DynamicOk
<1> QED BY <1>1, <1>4, <1>5, <1>6, <1>7, TeamWalk

LEMMA NextChunkData ==
  ASSUME Control, Data, \A p \in Programs : Orderly(p), NEW t \in Thread, NextChunk(t), Team = T
  PROVE  Data'
<1>1. Walk(t)
  BY Walks
<1>2. PICK c, C : c = at[t] /\ C = Body[c]
  OBVIOUS
<1>3. /\ pc[t] = "next" /\ ~Exhausted
      /\ Ran(t, Iterations(bounds.lower,
                  Clip(bounds.lower + (bounds.chunk - 1) * bounds.incr, C), bounds.incr))
      /\ bounds' = [bounds EXCEPT !.lower = bounds.lower + bounds.chunk * bounds.incr]
      /\ UNCHANGED <<pc, myLoop, teamLoop, singleCount>>
  BY <1>2 DEF NextChunk, Current
<1>4. /\ C.kind = "dynamic" /\ C \in Construct
      /\ bounds.upper = C.upper /\ bounds.incr = C.incr /\ bounds.chunk = C.chunk
      /\ \E k \in Nat : bounds.lower = Nth(C, k) /\ HandedOut(c, k)
  BY <1>1, <1>2, <1>3, TakesLatest
<1>5. PICK k \in Nat : bounds.lower = Nth(C, k) /\ HandedOut(c, k)
  BY <1>4
<1>6. /\ c \in DOMAIN Body /\ Running /\ UNCHANGED <<prog, region>> /\ Body' = Body
  BY <1>1, <1>2, WalkMarks
<1>7. region \in 1..region
  BY <1>6, RegionRuns
<1>8. C.chunk \in Nat /\ C.chunk > 0 /\ C \in Loops
  BY <1>4, LoopFields DEF Loops
<1>9. PICK n : n = k + C.chunk
  OBVIOUS
<1>10. n \in Nat /\ n - 1 = k + (C.chunk - 1)
  BY <1>8, <1>9
<1>11. PICK low, high : low = bounds.lower /\ high = bounds.lower + (bounds.chunk - 1) * bounds.incr
  OBVIOUS
<1>12. low = Nth(C, k) /\ high = Nth(C, n - 1)
  <2>1. PICK m : m = C.chunk - 1
    OBVIOUS
  <2>2. m \in Int /\ k \in Int /\ C \in Construct
    BY <1>4, <1>8, <2>1
  <2>3. Nth(C, k) + m * C.incr = Nth(C, k + m)
    BY ONLY <2>2, NthAdd
  <2> QED BY <1>4, <1>5, <1>10, <1>11, <2>1, <2>3
<1>13. PICK S : S = Iterations(low, Clip(high, C), C.incr)
  OBVIOUS
<1>14. ASSUME NEW i
       PROVE  i \in S <=> \E j \in Nat : k <= j /\ j < n /\ i = Nth(C, j) /\ Within(C, i)
  <2>1. n \in Int
    BY <1>10
  <2>2. i \in Iterations(low, Clip(high, C), C.incr) <=>
          \E j \in Nat : k <= j /\ j < n /\ i = Nth(C, j) /\ Within(C, i)
    BY ONLY <1>8, <1>12, <2>1, k \in Nat, BlockIs
  <2> QED BY <1>13, <2>2
<1>15. \A j \in Nat : Within(C, Nth(C, j)) => (Has(region, c, Nth(C, j)) <=> j < k)
  BY <1>2, <1>5 DEF HandedOut
<1>16. Adds(c, S)
  <2>1. Ran(t, S)
    BY <1>3, <1>4, <1>11, <1>13
  <2>2. S \subseteq Work(Body[c])
    BY <1>2, <1>8, <1>14, WorkIs
  <2>3. \A i \in S : ~Has(region, c, i)
    <3> SUFFICES ASSUME NEW i \in S PROVE ~Has(region, c, i)
      OBVIOUS
    <3>1. PICK j \in Nat : k <= j /\ i = Nth(C, j) /\ Within(C, i)
      BY <1>14
    <3>2. ~(j < k)
      BY <3>1
    <3> QED BY <1>15, <3>1, <3>2
  <2> QED BY <1>2, <1>6, <1>7, <2>1, <2>2, <2>3, RanAdds DEF Adds
<1>17. HandedOut(c, n)'
  <2>1. ASSUME NEW j \in Nat, Within(C, Nth(C, j))
        PROVE  Has(region, c, Nth(C, j))' <=> j < n
    <3>1. PICK i : i = Nth(C, j)
      OBVIOUS
    <3>2. Has(region, c, i)' <=> Has(region, c, i) \/ i \in S
      BY <1>6, <1>16 DEF Adds
    <3>3. Has(region, c, i) <=> j < k
      BY <1>15, <2>1, <3>1
    <3>4. i \in S <=> k <= j /\ j < n
      <4>1. ASSUME NEW h \in Nat, i = Nth(C, h) PROVE h = j
        <5>1. C \in Construct /\ j \in Int /\ h \in Int /\ Nth(C, j) = Nth(C, h)
          BY <1>4, <3>1, <4>1
        <5> QED BY ONLY <5>1, NthOnce
      <4> QED BY <1>14, <2>1, <3>1, <4>1
    <3>5. Has(region, c, i)' <=> j < n
      BY <1>8, <1>9, <3>2, <3>3, <3>4
    <3> QED BY <1>2, <1>6, <3>1, <3>5
  <2> QED BY <1>2, <1>6, <2>1 DEF HandedOut
<1>18. bounds'.lower = Nth(Body[c], n)
  <2>1. PICK m : m = C.chunk
    OBVIOUS
  <2>2. m \in Int /\ k \in Int /\ C \in Construct
    BY <1>4, <1>8, <2>1
  <2>3. Nth(C, k) + m * C.incr = Nth(C, k + m)
    BY ONLY <2>2, NthAdd
  <2>4. bounds'.lower = bounds.lower + bounds.chunk * bounds.incr
    BY <1>3 DEF Control, Typed
  <2> QED BY <1>2, <1>4, <1>5, <1>9, <2>1, <2>3, <2>4
<1>19. bounds'.upper = bounds.upper /\ bounds'.incr = bounds.incr /\ bounds'.chunk = bounds.chunk
  BY <1>3 DEF Control, Typed
<1>20. pc'[t] # "end"
  BY <1>3
<1> QED BY <1>1, <1>2, <1>3, <1>10, <1>16, <1>17, <1>18, <1>19, <1>20, TakesData

LEMMA NoMoreData ==
  ASSUME Control, Data, \A p \in Programs : Orderly(p), NEW t \in Thread, NoMore(t), Team = T
  PROVE  Data'
<1>1. Walk(t) /\ T # 1
  BY Walks, ThreadNat
<1>2. PICK c, C : c = at[t] /\ C = Body[c]
  OBVIOUS
<1>3. /\ pc[t] = "next" /\ Exhausted
      /\ UNCHANGED <<bounds, myLoop, teamLoop, singleCount, ran>>
  BY <1>1 DEF NoMore, loopVars
<1>4. /\ C.kind = "dynamic" /\ C \in Construct
      /\ bounds.upper = C.upper /\ bounds.incr = C.incr
      /\ \E k \in Nat : bounds.lower = Nth(C, k) /\ HandedOut(c, k)
  BY <1>1, <1>2, <1>3, TakesLatest
<1>5. PICK k \in Nat : bounds.lower = Nth(C, k) /\ HandedOut(c, k)
  BY <1>4
<1>6. /\ c \in DOMAIN Body /\ Running /\ UNCHANGED <<prog, region>> /\ Body' = Body
  BY <1>1, <1>2, WalkMarks
<1>7. C \in Loops /\ C.upper \in Int /\ Nth(C, k) \in Int
  BY <1>4, LoopFields, NthOnce DEF Loops
<1>8. ~Within(C, Nth(C, k))
  BY <1>3, <1>4, <1>5, <1>7 DEF Exhausted, Within
<1>9. Done(region, c)
  <2> SUFFICES ASSUME NEW i \in Work(C) PROVE Has(region, c, i)
    BY <1>2 DEF Done, Body
  <2>1. PICK j \in Nat : i = Nth(C, j) /\ Within(C, i)
    BY <1>7, WorkIs
  <2>2. j < k
    <3> SUFFICES ASSUME k <= j PROVE FALSE
      OBVIOUS
    <3> QED BY <1>7, <1>8, <2>1, WithinDown
  <2> QED BY <1>2, <1>5, <2>1, <2>2 DEF HandedOut
<1>10. Adds(c, {})
  BY <1>3, <1>6, NothingRun
<1>11. HandedOut(c, k)'
  BY <1>3, <1>5, <1>6 DEF HandedOut, Has
<1>12. bounds'.lower = Nth(Body[c], k)
  BY <1>2, <1>3, <1>5
<1> QED BY <1>1, <1>2, <1>3, <1>9, <1>10, <1>11, <1>12, TakesData

-----------------------------------------------------------------------------
(* The theorems.                                                           *)

WsInv == Control /\ Data

LEMMA WsInit ==
  ASSUME \A p \in Programs : Orderly(p), Init
  PROVE  WsInv
<1>1. /\ prog \in Programs /\ region = 0 /\ newWork = {} /\ idx = 1 /\ asleep = Slave
      /\ pc = [t \in Thread |-> IF t = 0 THEN "serial" ELSE "idle"]
      /\ at = [t \in Thread |-> 1]
      /\ status = [t \in Thread |-> "out"]
      /\ myLoop = [t \in Thread |-> 0] /\ teamLoop = 0
      /\ bounds = [lower |-> 0, upper |-> 0, incr |-> 0, chunk |-> 0]
      /\ taken = FALSE /\ singleCount = 0 /\ ran = EmptyBag
  BY DEF Init, B!Init, Slave
<1>2. T \in Nat /\ T > 1 /\ 0 \in Thread /\ \A t \in Slave : t \in Nat /\ t # 0 /\ t \in Thread
  BY ThreadNat, ZeroThread DEF Slave
<1>3. Typed
  <2>1. Len(prog) \in Nat
    BY <1>1, WorkSharingAssumption
  <2>2. 0 \in 0..Len(prog) /\ 1 \in 1..T
    BY <1>2, <2>1
  <2>3. pc \in [Thread -> {"serial", "fork", "idle", "body", "next", "end",
                           "barrier", "join", "sleep"}]
    BY <1>1
  <2>4. at \in [Thread -> Nat \ {0}] /\ myLoop \in [Thread -> Nat]
    BY <1>1
  <2>5. status \in [Thread -> {"out", "wait", "go"}]
    BY <1>1
  <2>6. bounds \in [lower : Int, upper : Int, incr : Int, chunk : Nat]
    BY <1>1
  <2>7. taken \in BOOLEAN
    BY <1>1, Zenon
  <2>8. /\ prog \in Programs /\ region \in 0..Len(prog) /\ newWork \subseteq Slave
        /\ idx \in 1..T /\ asleep \subseteq Slave /\ teamLoop \in Nat /\ singleCount \in Nat
    BY <1>1, <2>2
  <2> QED BY <2>3, <2>4, <2>5, <2>6, <2>7, <2>8, Zenon DEF Typed
<1>4. ~Running /\ pc[0] = "serial" /\ \A t \in Slave : pc[t] = "idle"
  BY <1>1, <1>2 DEF Running
<1>5. Shape
  BY <1>1 DEF Shape, ShapeOf, InBody
<1>6. RestInv /\ TeamInv /\ JoinInv /\ BarrierInv
  BY <1>1, <1>2, <1>4 DEF RestInv, TeamInv, JoinInv, BarrierInv, Resting
<1>7. AwakeInv
  <2>1. \A t \in Slave : ~(t < idx)
    BY <1>1, <1>2
  <2> QED BY <1>1, <1>4, <2>1 DEF AwakeInv
<1>8. DOMAIN ran = {}
  BY <1>1 DEF EmptyBag, SetToBag
<1>9. \A r, c, i : ~Has(r, c, i)
  BY <1>8 DEF Has, BagIn, BagToSet
<1>10. Slots /\ DoneInv /\ AloneInv /\ WorkInv
  BY <1>1, <1>4, <1>8 DEF Slots, DoneInv, AloneInv, WorkInv
<1>11. SingleInv /\ LoopInv
  BY <1>1, <1>4, <1>9 DEF SingleInv, LoopInv
<1> QED BY <1>3, <1>5, <1>6, <1>7, <1>10, <1>11 DEF WsInv, Control, Data

LEMMA WsStep ==
  ASSUME \A p \in Programs : Orderly(p), WsInv, [Next]_vars
  PROVE  WsInv'
<1>1. Control /\ Data
  BY DEF WsInv
<1>2. CASE UNCHANGED vars
  <2>1. UNCHANGED <<prog, region, newWork, idx, asleep, pc, at, status, myLoop, teamLoop, bounds,
                    taken, singleCount, ran>>
    BY <1>2 DEF vars, forkVars, loopVars
  <2>2. Running' <=> Running
    BY <2>1 DEF Running
  <2>3. MarksKept
    BY <2>1 DEF MarksKept, Begun, Finished, Ended, InBody
  <2>4. LoopInv'
    BY <1>1, <2>1, <2>2, <2>3, LoopKept DEF Data, MarksKept
  <2>5. Data'
    BY <1>1, <2>1, <2>2, <2>3, <2>4, DataKept
  <2>6. Control'
    BY <1>1, <1>2, ControlStutters
  <2> QED BY <2>5, <2>6 DEF WsInv
<1>3. CASE Next
  <2>1. Control'
    BY <1>1, <1>3, ControlStep
  <2>2. CASE Fork \/ Wake \/ Release
    BY <1>1, <2>1, <2>2, ForkData, WakeData, ReleaseData DEF WsInv
  <2>3. ASSUME NEW t \in Thread, Step(t) PROVE Data'
    <3>1. CASE BeginBody(t) \/ FallAsleep(t) \/ EndConstruct(t) \/ LeaveBarrier(t)
      BY <1>1, <3>1, BeginBodyData, FallAsleepData, EndConstructData, LeaveBarrierData
    <3>2. CASE EndBody(t)
      <4>1. Team \in {1, T}
        BY <1>1, <3>2, EndBodyFacts
      <4> QED BY <1>1, <3>2, <4>1, EndBodyData, EndBodyAloneData
    <3>3. CASE Join(t)
      <4>1. CASE t = 0
        BY <1>1, <3>3, <4>1, JoinLastData
      <4>2. CASE t # 0
        BY <1>1, <3>3, <4>2, JoinData
      <4> QED BY <4>1, <4>2
    <3>4. CASE \/ StaticInit(t) \/ SchedulerInit(t) \/ NextChunk(t) \/ NextAll(t) \/ NoMore(t)
               \/ Single(t)
      <4>1. Running
        BY <1>1, <3>4, Walks, WalkMarks
      <4>2. Team \in {1, T} /\ T # 1
        BY <1>1, <4>1, RegionRuns
      <4>3. CASE Team = 1
        <5>1. ~NextChunk(t)
          BY <4>3 DEF NextChunk
        <5> QED BY <1>1, <2>1, <3>4, <4>3, <5>1, AloneData
      <4>4. CASE Team = T
        <5>1. ~NextAll(t)
          BY <4>2, <4>4 DEF NextAll
        <5> QED BY <1>1, <3>4, <4>4, <5>1, StaticData, SchedulerInitData, NextChunkData,
                   NoMoreData, SingleData
      <4> QED BY <4>2, <4>3, <4>4
    <3> QED BY <2>3, <3>1, <3>2, <3>3, <3>4 DEF Step
  <2> QED BY <1>3, <2>1, <2>2, <2>3 DEF Next, WsInv
<1> QED BY <1>2, <1>3

LEMMA WsAlways ==
  ASSUME \A p \in Programs : Orderly(p)
  PROVE  Spec => []WsInv
BY WsInit, WsStep, PTL DEF Spec

LEMMA RunOnceIs ==
  ASSUME WsInv
  PROVE  RunOnce
BY DEF WsInv, Data, Slots, RunOnce, BagToSet

LEMMA RegionCompleteIs ==
  ASSUME WsInv
  PROVE  RegionComplete
<1> SUFFICES ASSUME NEW r \in DOMAIN prog, Over(r), NEW c \in DOMAIN prog[r].body PROVE Done(r, c)
  BY DEF RegionComplete
<1>1. r \in 1..region /\ (r < region \/ ~Running)
  <2>1. r \in Nat /\ r > 0 /\ region \in Nat
    BY RegionsOk DEF WsInv, Control, Typed
  <2> QED BY <2>1 DEF Over, Running
<1> QED BY <1>1 DEF WsInv, Data, DoneInv

LEMMA BarrierOrdersIs ==
  ASSUME WsInv, \A p \in Programs : Orderly(p)
  PROVE  BarrierOrders
<1>1. Control /\ Data
  BY DEF WsInv
<1> SUFFICES ASSUME NEW x \in DOMAIN ran, NEW c \in 1..(x[2]-1),
                    NEW b \in c..(x[2]-1), ~prog[x[1]].body[b].nowait
             PROVE  Done(x[1], c)
  BY DEF BarrierOrders, BagToSet
<1>2. PICK r, d, i : r = x[1] /\ d = x[2] /\ i = x[3]
  OBVIOUS
<1>3. /\ r \in 1..region /\ d \in DOMAIN prog[r].body /\ i \in Work(prog[r].body[d])
      /\ Has(r, d, i)
  BY <1>1, <1>2 DEF Data, Slots, Has, BagIn, BagToSet
<1>4. region \in Nat /\ r \in DOMAIN prog /\ DOMAIN prog[r].body = 1..Len(prog[r].body)
      /\ Len(prog[r].body) \in Nat /\ d \in Nat
  <2>1. region \in Nat /\ r \in DOMAIN prog
    BY <1>1, <1>3, RegionsOk DEF Control, Typed
  <2> QED BY <1>1, <1>3, <2>1, RegionsOk DEF Control
<1>5. /\ c \in Nat /\ b \in Nat /\ c <= b /\ b < d
      /\ c \in DOMAIN prog[r].body /\ b \in DOMAIN prog[r].body /\ ~prog[r].body[b].nowait
  BY <1>2, <1>3, <1>4
<1>6. CASE r < region \/ ~Running
  BY <1>1, <1>2, <1>3, <1>5, <1>6 DEF Data, DoneInv
<1>7. CASE r = region /\ Running
  <2>1. Team \in {1, T} /\ T # 1 /\ Body = prog[region].body /\ Body[d] \in Construct
    BY <1>1, <1>3, <1>7, RegionRuns
  <2>2. d \in DOMAIN Body /\ c \in DOMAIN Body /\ b \in DOMAIN Body /\ ~Body[b].nowait
        /\ i \in Work(Body[d]) /\ Has(region, d, i)
    BY <1>3, <1>5, <1>7, <2>1
  <2>3. CASE Team = 1
    <3>1. Finished(0, d) \/ Begun(0, d)
      BY <1>1, <1>7, <2>2, <2>3 DEF Data, AloneInv
    <3>2. Begun(0, d)
      BY <1>1, <1>4, <3>1, ZeroThread, MarksOrder DEF Control
    <3>3. c < d
      BY <1>4, <1>5
    <3>4. Finished(0, c)
      BY <1>1, <1>4, <1>5, <3>2, <3>3, ZeroThread, MarksOrder DEF Control
    <3> QED BY <1>1, <1>2, <1>7, <2>1, <2>2, <2>3, <3>4, FinishedDone
  <2>4. CASE Team = T
    <3>1. PICK u \in Thread : Begun(u, d)
      <4>1. /\ Body[d].kind \in {"even", "static"} => SharedOk(d)
            /\ Body[d].kind = "single" => SingleOk(d)
            /\ Body[d].kind = "dynamic" => DynamicOk(d)
        BY <1>1, <1>7, <2>2, <2>4 DEF Data, WorkInv
      <4>2. CASE Body[d].kind \in {"even", "static"}
        <5>1. PICK u \in Thread : Finished(u, d)
          BY <2>2, <4>1, <4>2 DEF SharedOk
        <5> QED BY <1>1, <1>4, <5>1, MarksOrder DEF Control
      <4>3. CASE Body[d].kind = "single"
        <5>1. i = 0
          BY <2>2, <4>3 DEF Work
        <5>2. PICK u \in Thread : Finished(u, d)
          BY <2>2, <4>1, <4>3, <5>1 DEF SingleOk
        <5> QED BY <1>1, <1>4, <5>2, MarksOrder DEF Control
      <4>4. CASE Body[d].kind = "dynamic"
        BY <2>2, <4>1, <4>4 DEF DynamicOk, Open
      <4>5. Body[d].kind \in {"even", "static", "dynamic", "single"}
        BY <2>1, LoopFields
      <4> QED BY <4>2, <4>3, <4>4, <4>5
    <3>2. Beyond(u, b)
      BY <1>1, <1>4, <1>5, <3>1, MarksOrder DEF Control
    <3>3. \A v \in Thread : Beyond(v, b)
      BY <1>1, <1>7, <2>2, <2>4, <3>2 DEF Control, BarrierInv
    <3>4. ASSUME NEW v \in Thread PROVE Finished(v, c)
      <4>1. Beyond(v, b)
        BY <3>3
      <4>2. CASE c = b
        BY <1>1, <1>5, <4>1, <4>2, MarksOrder DEF Control
      <4>3. CASE c < b
        <5>1. Begun(v, b)
          BY <1>1, <1>5, <4>1, MarksOrder DEF Control
        <5> QED BY <1>1, <1>5, <4>3, <5>1, MarksOrder DEF Control
      <4> QED BY <1>5, <4>2, <4>3
    <3> QED BY <1>1, <1>2, <1>7, <2>1, <2>2, <2>4, <3>4, FinishedDone
  <2> QED BY <2>1, <2>3, <2>4
<1> QED BY <1>3, <1>4, <1>6, <1>7

\* In programs whose constructs the calls are right for, no iteration of a loop and
\* no single is run twice, however the calls of __ompc_static_init_4,
\* __ompc_scheduler_init_4, __ompc_schedule_next_4 and __ompc_single interleave,
\* and nothing is run that a loop does not have.
THEOREM RunOnceHolds ==
  ASSUME \A p \in Programs : Orderly(p)
  PROVE  Spec => []RunOnce
BY WsAlways, RunOnceIs, PTL

\* When the master has left the join of a region, every iteration of its loops and
\* every single of it has been run.
THEOREM RegionCompleteHolds ==
  ASSUME \A p \in Programs : Orderly(p)
  PROVE  Spec => []RegionComplete
BY WsAlways, RegionCompleteIs, PTL

\* Nothing behind a barrier is run before all that lies before it has been.
THEOREM BarrierOrdersHolds ==
  ASSUME \A p \in Programs : Orderly(p)
  PROVE  Spec => []BarrierOrders
BY WsAlways, BarrierOrdersIs, PTL

=============================================================================
