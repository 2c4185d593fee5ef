--------------------------- MODULE MrapiLocksProofs ---------------------------
(***************************************************************************)
(* Proofs about the locks of MRAPI, for every number of nodes, keys,       *)
(* entries and shares, and every depth, kind of lock and timeout.          *)
(* Where a theorem assumes OneMember, the calls are of locks whose         *)
(* sections are all under member 0: of any lock with use_global_only, and  *)
(* of the lock of the first entry as built.                                *)
(***************************************************************************)
EXTENDS MrapiLocks, FiniteSetTheorems, TLAPS

-----------------------------------------------------------------------------
(* Numbers and shares.                                                     *)

\* A set of natural numbers that is not empty has a least element.
LEMMA Least ==
  ASSUME NEW S \in SUBSET Nat, S # {}
  PROVE  Min(S) \in S /\ \A y \in S : Min(S) <= y
<1> DEFINE R == {ss \in Nat \X Nat : ss[1] < ss[2]}
<1>1. IsWellFoundedOn(R, Nat)
  BY NatLessThanWellFounded DEF OpToRel
<1>2. PICK x \in S : \A y \in S : ~ (<<y, x>> \in R)
  BY <1>1, WFMin
<1>3. ASSUME NEW y \in S PROVE x <= y
  <2>1. ~ (<<y, x>> \in R)
    BY <1>2
  <2>2. <<y, x>> \in Nat \X Nat /\ <<y, x>>[1] = y /\ <<y, x>>[2] = x
    OBVIOUS
  <2>3. ~ (y < x)
    BY <2>1, <2>2
  <2> QED BY <2>3
<1> QED BY <1>3 DEF Min

\* The lowest elements of a finite set of numbers, as many as are asked for.
LEMMA LowestCount ==
  ASSUME NEW S \in SUBSET Nat, IsFiniteSet(S), NEW n \in Nat, n <= Cardinality(S)
  PROVE  Lowest(S, n) \subseteq S /\ Cardinality(Lowest(S, n)) = n
<1> DEFINE Rank(i) == Cardinality({j \in S : j <= i})
           Bad == {k \in 0..Cardinality(S) : Cardinality(Lowest(S, k)) # k}
<1>0. \A x \in S : x \in Nat
  OBVIOUS
<1>1. /\ Cardinality(S) \in Nat
      /\ \A T \in SUBSET S : IsFiniteSet(T) /\ Cardinality(T) \in Nat /\ Cardinality(T) <= Cardinality(S)
                             /\ (Cardinality(T) = Cardinality(S) => T = S)
  BY FS_Subset, FS_CardinalityType
<1>2. \A k : Lowest(S, k) = {i \in S : Rank(i) <= k}
  BY DEF Lowest
<1>3. \A i, j \in S : j <= i => Rank(j) <= Rank(i)
  <2> SUFFICES ASSUME NEW i \in S, NEW j \in S, j <= i PROVE Rank(j) <= Rank(i)
    OBVIOUS
  <2>1. {k \in S : k <= j} \in SUBSET {k \in S : k <= i}
    <3>1. i \in Nat /\ j \in Nat
      BY <1>0
    <3>2. ASSUME NEW k \in S, k <= j PROVE k <= i
      BY <1>0, <3>1, <3>2
    <3> QED BY <3>2
  <2>2. IsFiniteSet({k \in S : k <= i})
    BY <1>1
  <2> QED BY <2>1, <2>2, FS_Subset
<1>4. \A i \in S : Rank(i) \in Nat
  BY <1>1
<1>5. Lowest(S, 0) = {}
  <2>1. \A i \in S : Rank(i) # 0
    <3> SUFFICES ASSUME NEW i \in S, Rank(i) = 0 PROVE FALSE
      OBVIOUS
    <3>1. IsFiniteSet({j \in S : j <= i}) /\ i \in {j \in S : j <= i}
      BY <1>0, <1>1
    <3> QED BY <3>1, FS_EmptySet
  <2>2. \A i \in S : ~ (Rank(i) <= 0)
    <3> HIDE DEF Rank
    <3> QED BY <1>4, <2>1
  <2> QED BY <1>2, <2>2
<1>6. Bad = {}
  <2> SUFFICES ASSUME Bad # {} PROVE FALSE
    OBVIOUS
  <2> DEFINE k == Min(Bad)
             p == k - 1
             L == Lowest(S, p)
             Rest == S \ L
             next == Min(Rest)
  <2>1. k \in Bad /\ \A y \in Bad : k <= y
    BY <1>1, Least
  <2>2. k # 0
    BY <1>5, <2>1, FS_EmptySet
  <2>3. p \in 0..Cardinality(S) /\ p \notin Bad /\ k \in Nat /\ p < Cardinality(S) /\ k = p + 1
    BY <1>1, <2>1, <2>2
  <2> HIDE DEF k
  <2>4. Cardinality(L) = p
    BY <2>3
  <2>5. L \in SUBSET S /\ IsFiniteSet(L) /\ Rest # {} /\ Rest \in SUBSET Nat
    <3>1. L \in SUBSET S
      BY DEF Lowest
    <3> HIDE DEF L
    <3>2. IsFiniteSet(L) /\ L # S
      BY <1>1, <2>3, <2>4, <3>1
    <3> QED BY <1>0, <3>1, <3>2
  <2> HIDE DEF p
  <2>6. next \in Rest /\ \A y \in Rest : next <= y
    <3> HIDE DEF Rest
    <3> QED BY <2>5, Least
  <2> HIDE DEF next
  <2>7. {j \in S : j <= next} = L \union {next}
    <3>1. ASSUME NEW j \in S, j <= next PROVE j \in L \union {next}
      BY <2>6, <3>1
    <3>2. ASSUME NEW j \in L PROVE j \in S /\ j <= next
      <4>1. /\ j \in S /\ next \in S /\ Rank(j) <= p /\ ~ (Rank(next) <= p)
            /\ Rank(j) \in Nat /\ Rank(next) \in Nat /\ p \in Nat /\ j \in Nat /\ next \in Nat
        <5>1. j \in S /\ next \in S /\ j \in Lowest(S, p) /\ next \notin Lowest(S, p)
          BY <1>2, <2>6
        <5> QED BY <1>0, <1>2, <1>4, <2>3, <5>1
      <4>2. next <= j => Rank(next) <= Rank(j)
        BY <1>3, <4>1
      <4> HIDE DEF Rank
      <4> QED BY <4>1, <4>2
    <3> QED BY <2>6, <3>1, <3>2
  <2>8. Rank(next) = k
    <3>1. next \notin L /\ Cardinality(L \union {next}) = Cardinality(L) + 1
      <4>1. next \notin L
        BY <2>6
      <4> HIDE DEF L
      <4> QED BY <2>5, <4>1, FS_AddElement
    <3> QED BY <2>3, <2>4, <2>7, <3>1
  <2>9. Lowest(S, k) = L \union {next}
    <3>1. ASSUME NEW i \in Lowest(S, k) PROVE i \in L \union {next}
      <4>1. i \in S /\ Rank(i) <= k
        BY <1>2
      <4>2. CASE i <= next
        BY <2>7, <4>1, <4>2
      <4>3. CASE ~ (i <= next)
        <5>1. i \notin {j \in S : j <= next} /\ next <= i /\ {j \in S : j <= next} \subseteq {j \in S : j <= i}
          <6>1. i \in Nat /\ next \in Nat /\ \A j \in S : j \in Nat
            BY <1>0, <2>6, <4>1
          <6>2. next <= i
            BY <4>3, <6>1
          <6>3. ASSUME NEW j \in S, j <= next PROVE j <= i
            BY <6>1, <6>2, <6>3
          <6> QED BY <4>1, <4>3, <6>2, <6>3
        <5>2. {j \in S : j <= next} \in SUBSET {j \in S : j <= i} /\ i \in {j \in S : j <= i}
          BY <4>1, <5>1
        <5>3. IsFiniteSet({j \in S : j <= i}) /\ Cardinality({j \in S : j <= next}) = k
          BY <1>1, <2>8
        <5>4. Rank(i) = k
          BY <1>3, <1>4, <2>3, <2>6, <2>8, <4>1, <5>1
        <5>5. {j \in S : j <= i} = {j \in S : j <= next}
          BY <5>2, <5>3, <5>4, FS_Subset
        <5> QED BY <5>1, <5>2, <5>5
      <4> QED BY <4>2, <4>3
    <3>2. ASSUME NEW i \in L \union {next} PROVE i \in Lowest(S, k)
      <4>1. CASE i = next
        <5>1. i \in S /\ Rank(i) = k
          BY <2>6, <2>8, <4>1
        <5>2. Rank(i) <= k
          <6> HIDE DEF Rank
          <6> QED BY <2>3, <5>1
        <5> QED BY <1>2, <5>1, <5>2
      <4>2. CASE i \in L
        <5>1. i \in S /\ Rank(i) \in Nat /\ Rank(i) <= p
          BY <1>2, <1>4, <4>2
        <5>2. Rank(i) <= k
          <6> HIDE DEF Rank
          <6> QED BY <2>3, <5>1
        <5> QED BY <1>2, <5>1, <5>2
      <4> QED BY <4>1, <4>2
    <3> QED BY <3>1, <3>2
  <2>10. Cardinality(Lowest(S, k)) = k
    BY <2>3, <2>4, <2>5, <2>6, <2>9, FS_AddElement
  <2> QED BY <2>1, <2>10
<1>7. Lowest(S, n) \subseteq S /\ n \in 0..Cardinality(S) /\ n \notin Bad
  BY <1>1, <1>6 DEF Lowest
<1> QED BY <1>7

-----------------------------------------------------------------------------
(* The entry of a lock.                                                    *)

LockRec == [valid : BOOLEAN, deleted : BOOLEAN, key : Key \union {None},
            type : {"mutex", "sem", "rwl"}, limit : 0..MaxShares, recursive : BOOLEAN,
            ext : BOOLEAN, holder : [Share -> Node \union {None}], lockKey : Int,
            numLocks : Int, refs : Int]

\* The shares of an entry that a node holds, or that are free.
Owned(l, n) == {i \in 1..l.limit : l.holder[i] = n}

\* What the constants mean.
LEMMA Names ==
  /\ None \notin Node /\ None \notin Key /\ IsFiniteSet(Node)
  /\ MaxShares \in Nat /\ MaxDepth \in Nat /\ MaxSems \in Nat
  /\ MaxShares # 0 /\ MaxDepth # 0 /\ MaxSems # 0
  /\ Slot \subseteq Nat /\ 0 \in Slot /\ Share = 1..MaxShares
  /\ Member(0) = 0 /\ \A s \in Slot : Member(s) \in Slot /\ Member(s) \in {0, s}
BY LocksAssumption DEF Slot, Share, Member

\* The shares of an entry are finitely many and each has one holder.
LEMMA OwnedFinite ==
  ASSUME NEW l \in LockRec, NEW n
  PROVE  /\ Owned(l, n) \in SUBSET (1..l.limit) /\ Owned(l, n) \subseteq Share
         /\ Owned(l, n) \in SUBSET Nat /\ l.limit \in 0..MaxShares
         /\ IsFiniteSet(Owned(l, n)) /\ Cardinality(Owned(l, n)) \in 0..l.limit
         /\ (Cardinality(Owned(l, n)) = 0 <=> Owned(l, n) = {})
         /\ (Cardinality(Owned(l, n)) = l.limit => Owned(l, n) = 1..l.limit)
<1>1. l.limit \in 0..MaxShares
  BY DEF LockRec
<1>2. /\ Owned(l, n) \in SUBSET (1..l.limit) /\ Owned(l, n) \in SUBSET Nat
      /\ 1..l.limit \subseteq Share
  BY <1>1, Names DEF Owned
<1>3. IsFiniteSet(1..l.limit) /\ Cardinality(1..l.limit) = l.limit
  <2>1. 1 \in Int /\ l.limit \in Int
    BY <1>1, Names
  <2> DEFINE k == l.limit
  <2> HIDE DEF k
  <2>2. IsFiniteSet(1..k) /\ Cardinality(1..k) = IF 1 > k THEN 0 ELSE k - 1 + 1
    BY <2>1, FS_Interval DEF k
  <2>3. Cardinality(1..k) = k
    BY <1>1, <2>1, <2>2, Names DEF k
  <2> QED BY <2>2, <2>3 DEF k
<1>4. IsFiniteSet(Owned(l, n)) /\ Cardinality(Owned(l, n)) <= l.limit
      /\ (Cardinality(Owned(l, n)) = l.limit => Owned(l, n) = 1..l.limit)
  BY <1>2, <1>3, FS_Subset
<1>5. Cardinality(Owned(l, n)) \in Nat
  BY <1>4, FS_CardinalityType
<1> QED BY <1>1, <1>2, <1>4, <1>5, FS_EmptySet, Names

\* The entry of a lock that is created.
LEMMA NewFields ==
  ASSUME NEW k \in Key, NEW kind \in Kinds
  PROVE  LET l == NewLock(k, kind) IN
         /\ l \in LockRec /\ l.valid = TRUE /\ l.key = k /\ l.type = kind.type
         /\ l.limit = kind.limit /\ l.limit \in Share /\ (l.type = "mutex" => l.limit = 1)
         /\ l.lockKey = 0 /\ l.numLocks = 0 /\ l.refs = 1
         /\ \A n \in Node : Owned(l, n) = {}
         /\ Owned(l, None) = 1..l.limit
<1> DEFINE l == NewLock(k, kind)
<1>1. /\ kind.type \in {"mutex", "sem", "rwl"} /\ kind.limit \in Share
      /\ kind.recursive \in BOOLEAN /\ kind.ext \in BOOLEAN
      /\ (kind.type = "mutex" => kind.limit = 1)
  BY LocksAssumption, Names DEF Share
<1>2. /\ NoLock.holder \in [Share -> Node \union {None}]
      /\ \A i \in Share : NoLock.holder[i] = None
  BY DEF NoLock
<1>3. l \in LockRec
  BY <1>1, <1>2, Names DEF LockRec, NewLock
<1>4. /\ l.limit = kind.limit /\ l.holder = NoLock.holder /\ 1..l.limit \subseteq Share
  BY <1>1, Names DEF NewLock
<1>5. /\ \A n \in Node : Owned(l, n) = {}
      /\ Owned(l, None) = 1..l.limit
  BY <1>2, <1>4, Names DEF Owned
<1> QED BY <1>1, <1>3, <1>4, <1>5 DEF NewLock

\* The fields an entry keeps when shares are granted, given back, and so on.
SameLock(l, m) ==
  /\ m.valid = l.valid /\ m.deleted = l.deleted /\ m.key = l.key /\ m.type = l.type
  /\ m.limit = l.limit /\ m.recursive = l.recursive /\ m.ext = l.ext

\* Shares that are granted.
LEMMA GrantFields ==
  ASSUME NEW l \in LockRec, NEW n \in Node, NEW got \in SUBSET Owned(l, None)
  PROVE  LET m == Grant(l, n, got) IN
         /\ m \in LockRec /\ SameLock(l, m) /\ m.lockKey = l.lockKey /\ m.refs = l.refs
         /\ m.numLocks = l.numLocks + Cardinality(got)
         /\ Owned(m, n) = Owned(l, n) \union got /\ Owned(m, None) = Owned(l, None) \ got
         /\ \A o \in Node \ {n} : Owned(m, o) = Owned(l, o)
         /\ Cardinality(Owned(m, n)) = Cardinality(Owned(l, n)) + Cardinality(got)
         /\ Cardinality(Owned(m, None)) = Cardinality(Owned(l, None)) - Cardinality(got)
<1> DEFINE m == Grant(l, n, got)
           h == [i \in Share |-> IF i \in got THEN n ELSE l.holder[i]]
<1>0. /\ IsFiniteSet(got) /\ Cardinality(got) \in Nat
      /\ IsFiniteSet(Owned(l, n)) /\ IsFiniteSet(Owned(l, None)) /\ Owned(l, n) \subseteq Share
      /\ Cardinality(Owned(l, n)) \in Nat
      /\ got \subseteq Share /\ 1..l.limit \subseteq Share
  <2>1. IsFiniteSet(Owned(l, n)) /\ IsFiniteSet(Owned(l, None)) /\ Owned(l, n) \subseteq Share
        /\ Owned(l, None) \subseteq Share /\ l.limit \in 0..MaxShares /\ Cardinality(Owned(l, n)) \in Nat
    BY OwnedFinite, Names
  <2>2. IsFiniteSet(got)
    BY <2>1, FS_Subset
  <2> QED BY <2>1, <2>2, FS_CardinalityType, Names
<1>1. h \in [Share -> Node \union {None}] /\ l.numLocks + Cardinality(got) \in Int
  BY <1>0 DEF LockRec
<1>2. m = [l EXCEPT !.holder = h, !.numLocks = l.numLocks + Cardinality(got)]
  BY DEF Grant
<1>3. \A i \in Share : h[i] = IF i \in got THEN n ELSE l.holder[i]
  OBVIOUS
<1> HIDE DEF h, m
<1>4. /\ m \in LockRec /\ SameLock(l, m) /\ m.lockKey = l.lockKey /\ m.refs = l.refs
      /\ m.numLocks = l.numLocks + Cardinality(got) /\ m.holder = h /\ m.limit = l.limit
  BY <1>1, <1>2 DEF LockRec, SameLock
<1>5. /\ Owned(m, n) = Owned(l, n) \union got /\ Owned(m, None) = Owned(l, None) \ got
      /\ \A o \in Node \ {n} : Owned(m, o) = Owned(l, o)
  BY <1>0, <1>3, <1>4, Names DEF Owned
<1>6. Owned(l, n) \intersect got = {} /\ Owned(l, None) \intersect got = got
  BY Names DEF Owned
<1>7. Cardinality(Owned(m, n)) = Cardinality(Owned(l, n)) + Cardinality(got)
  <2> DEFINE A == Owned(l, n)
  <2>1. IsFiniteSet(A) /\ IsFiniteSet(got) /\ A \intersect got = {} /\ Owned(m, n) = A \union got
        /\ Cardinality(A) \in Nat /\ Cardinality(got) \in Nat /\ Cardinality({}) = 0
    BY <1>0, <1>5, <1>6, FS_EmptySet
  <2> HIDE DEF A
  <2>2. Cardinality(A \union got) = Cardinality(A) + Cardinality(got) - Cardinality(A \intersect got)
    BY <2>1, FS_Union
  <2>3. Cardinality(A \intersect got) = 0
    <3>1. A \intersect got = {} /\ Cardinality({}) = 0
      BY <2>1
    <3> QED BY <3>1, Zenon
  <2>4. Cardinality(A \union got) = Cardinality(A) + Cardinality(got)
    BY <2>1, <2>2, <2>3
  <2> QED BY <2>1, <2>4 DEF A
<1>8. Cardinality(Owned(m, None)) = Cardinality(Owned(l, None)) - Cardinality(got)
  BY <1>0, <1>5, <1>6, FS_Difference
<1> QED BY <1>4, <1>5, <1>7, <1>8 DEF m

\* Shares that a node gives back, all of them.
LEMMA GiveBackFields ==
  ASSUME NEW l \in LockRec, NEW n \in Node, NEW num \in Nat
  PROVE  LET m == GiveBack(l, Owned(l, n), num) IN
         /\ m \in LockRec /\ SameLock(l, m) /\ m.lockKey = l.lockKey /\ m.refs = l.refs
         /\ m.numLocks = l.numLocks - num
         /\ Owned(m, n) = {} /\ Owned(m, None) = Owned(l, None) \union Owned(l, n)
         /\ \A o \in Node \ {n} : Owned(m, o) = Owned(l, o)
         /\ Cardinality(Owned(m, None)) = Cardinality(Owned(l, None)) + Cardinality(Owned(l, n))
<1> DEFINE mine == Owned(l, n)
           m == GiveBack(l, mine, num)
           h == [i \in Share |-> IF i \in mine THEN None ELSE l.holder[i]]
<1>0. /\ IsFiniteSet(mine) /\ IsFiniteSet(Owned(l, None)) /\ mine \subseteq Share
      /\ Cardinality(mine) \in Nat /\ Cardinality(Owned(l, None)) \in Nat
      /\ 1..l.limit \subseteq Share
  BY OwnedFinite, Names
<1>1. h \in [Share -> Node \union {None}] /\ l.numLocks - num \in Int
  BY DEF LockRec
<1>2. m = [l EXCEPT !.holder = h, !.numLocks = l.numLocks - num]
  BY DEF GiveBack
<1>3. \A i \in Share : h[i] = IF i \in mine THEN None ELSE l.holder[i]
  OBVIOUS
<1> HIDE DEF h, m
<1>4. /\ m \in LockRec /\ SameLock(l, m) /\ m.lockKey = l.lockKey /\ m.refs = l.refs
      /\ m.numLocks = l.numLocks - num /\ m.holder = h /\ m.limit = l.limit
  BY <1>1, <1>2 DEF LockRec, SameLock
<1>5. /\ Owned(m, n) = {} /\ Owned(m, None) = Owned(l, None) \union mine
      /\ \A o \in Node \ {n} : Owned(m, o) = Owned(l, o)
  BY <1>0, <1>3, <1>4, Names DEF Owned
<1>6. Owned(l, None) \intersect mine = {}
  BY Names DEF Owned
<1>7. Cardinality(Owned(m, None)) = Cardinality(Owned(l, None)) + Cardinality(mine)
  <2> DEFINE A == Owned(l, None)
  <2>1. IsFiniteSet(A) /\ IsFiniteSet(mine) /\ A \intersect mine = {} /\ Owned(m, None) = A \union mine
        /\ Cardinality(A) \in Nat /\ Cardinality(mine) \in Nat /\ Cardinality({}) = 0
    BY <1>0, <1>5, <1>6, FS_EmptySet
  <2> HIDE DEF A, mine
  <2>2. Cardinality(A \union mine) = Cardinality(A) + Cardinality(mine) - Cardinality(A \intersect mine)
    BY <2>1, FS_Union
  <2>3. Cardinality(A \intersect mine) = 0
    <3>1. A \intersect mine = {} /\ Cardinality({}) = 0
      BY <2>1
    <3> QED BY <3>1, Zenon
  <2>4. Cardinality(A \union mine) = Cardinality(A) + Cardinality(mine)
    BY <2>1, <2>2, <2>3
  <2> QED BY <2>1, <2>4 DEF A, mine
<1> QED BY <1>4, <1>5, <1>7 DEF m

\* A lock that is deleted.
LEMMA RemovedFields ==
  ASSUME NEW l \in LockRec
  PROVE  LET m == Removed(l) IN
         /\ m \in LockRec /\ m.valid = FALSE /\ m.key = l.key /\ m.type = l.type
         /\ m.limit = l.limit /\ m.lockKey = l.lockKey /\ m.refs = l.refs
         /\ m.numLocks = l.numLocks /\ m.holder = l.holder
BY DEF LockRec, Removed

\* A lock one of whose users ends.
Ended(l, v, b) == [l EXCEPT !.refs = v, !.valid = b]

\* It has one user less, and may be gone.
LEMMA EndFields ==
  ASSUME NEW l \in LockRec, NEW v \in Int, NEW b \in BOOLEAN
  PROVE  LET m == Ended(l, v, b) IN
         /\ m \in LockRec /\ m.valid = b /\ m.key = l.key /\ m.type = l.type
         /\ m.limit = l.limit /\ m.lockKey = l.lockKey /\ m.refs = v
         /\ m.numLocks = l.numLocks /\ m.holder = l.holder
BY DEF LockRec, Ended

\* A lock whose users are counted.
LEMMA CountedFields ==
  ASSUME NEW l \in LockRec, NEW v \in Int
  PROVE  LET m == [l EXCEPT !.refs = v] IN
         /\ m \in LockRec /\ SameLock(l, m) /\ m.lockKey = l.lockKey /\ m.refs = v
         /\ m.numLocks = l.numLocks /\ m.holder = l.holder
BY DEF LockRec, SameLock

\* A mutex that is locked again, or unlocked once.
LEMMA KeyFields ==
  ASSUME NEW l \in LockRec, NEW v \in Int
  PROVE  LET m == [l EXCEPT !.lockKey = v] IN
         /\ m \in LockRec /\ SameLock(l, m) /\ m.lockKey = v /\ m.refs = l.refs
         /\ m.numLocks = l.numLocks /\ m.holder = l.holder
BY DEF LockRec, SameLock

-----------------------------------------------------------------------------
(* The shape of the state.                                                 *)

CallRec == [op : {"lock", "unlock", "delete"}, slot : Slot, type : {"mutex", "sem", "rwl"},
            mode : {"reader", "writer"}, key : Nat, left : (Nat \ {0}) \union {Infinite},
            num : Nat, stage : Stage \ {"idle"}, inside : BOOLEAN]

Shape ==
  /\ sems \in [Slot -> LockRec] /\ member \in [Slot -> Int]
  /\ users \in [Node -> SUBSET Slot] /\ handles \in [Node -> SUBSET Slot]
  /\ nodes \subseteq Node /\ down \in BOOLEAN
  /\ call \in [Node -> CallRec \union {NoCall}]
  /\ held \in [Node -> [Slot -> Int]]
  /\ using \in [Slot -> SUBSET Node]

\* A node that is in a call.
LEMMA InCall ==
  ASSUME Shape, NEW n \in Node
  PROVE  /\ call[n].stage = "idle" <=> call[n] = NoCall
         /\ call[n] # NoCall => call[n] \in CallRec
         /\ NoCall \notin CallRec
<1>1. NoCall.stage = "idle" /\ \A c \in CallRec : c.stage # "idle"
  BY DEF NoCall, CallRec
<1>2. call[n] \in CallRec \union {NoCall}
  BY DEF Shape
<1> QED BY <1>1, <1>2

\* The fields of a call that goes on.
SameCall(c, d) ==
  /\ d \in CallRec /\ d.op = c.op /\ d.slot = c.slot
  /\ d.type = c.type /\ d.mode = c.mode /\ d.key = c.key

\* A call that goes on with another section.
LEMMA GoFields ==
  ASSUME NEW c \in CallRec, NEW x \in Stage \ {"idle"}, NEW b \in BOOLEAN
  PROVE  LET d == [c EXCEPT !.stage = x, !.inside = b] IN
         SameCall(c, d) /\ d.stage = x /\ d.inside = b /\ d.num = c.num
BY DEF CallRec, SameCall

\* A writer that has read the limit.
WithNum(c, v, x) == [c EXCEPT !.num = v, !.inside = FALSE, !.stage = x]

\* It asks for all shares.
LEMMA NumFields ==
  ASSUME NEW c \in CallRec, NEW v \in Nat, NEW x \in Stage \ {"idle"}
  PROVE  LET d == WithNum(c, v, x) IN
         SameCall(c, d) /\ d.stage = x /\ d.inside = FALSE /\ d.num = v
BY DEF CallRec, SameCall, WithNum

\* A call that tries again.
WithLeft(c, x, v) == [c EXCEPT !.stage = x, !.left = v]

\* It has one attempt less.
LEMMA LeftFields ==
  ASSUME NEW c \in CallRec, NEW v \in (Nat \ {0}) \union {Infinite}, NEW x \in Stage \ {"idle"}
  PROVE  LET d == WithLeft(c, x, v) IN
         SameCall(c, d) /\ d.stage = x /\ d.inside = c.inside /\ d.num = c.num
BY DEF CallRec, SameCall, WithLeft

\* The same, of the stage alone.
LEMMA StageFields ==
  ASSUME NEW c \in CallRec, NEW x \in Stage \ {"idle"}
  PROVE  LET d == [c EXCEPT !.stage = x] IN
         SameCall(c, d) /\ d.stage = x /\ d.inside = c.inside /\ d.num = c.num
BY DEF CallRec, SameCall

\* The same, of whether the node is in the section.
LEMMA InsideFields ==
  ASSUME NEW c \in CallRec, NEW b \in BOOLEAN
  PROVE  LET d == [c EXCEPT !.inside = b] IN
         SameCall(c, d) /\ d.stage = c.stage /\ d.inside = b /\ d.num = c.num
BY DEF CallRec, SameCall

\* What a step makes of the call of a node, and of the entry of a lock.
Others(n) == \A o \in Node \ {n} : call'[o] = call[o]
CallIs(n, c) == call' \in [Node -> CallRec \union {NoCall}] /\ call'[n] = c /\ Others(n)
Goes(n, x, b) ==
  /\ call' \in [Node -> CallRec \union {NoCall}] /\ Others(n)
  /\ SameCall(call[n], call'[n]) /\ call'[n].stage = x /\ call'[n].inside = b
EntryIs(s, l) ==
  sems' \in [Slot -> LockRec] /\ sems'[s] = l /\ \A x \in Slot \ {s} : sems'[x] = sems[x]
Posted(m) ==
  /\ member' \in [Slot -> Int] /\ member'[Member(m)] = member[Member(m)] + 1
  /\ \A x \in Slot \ {Member(m)} : member'[x] = member[x]
KeyIs(s, v) ==
  /\ sems' \in [Slot -> LockRec] /\ \A x \in Slot \ {s} : sems'[x] = sems[x]
  /\ SameLock(sems[s], sems'[s]) /\ sems'[s].lockKey = v /\ sems'[s].refs = sems[s].refs
  /\ sems'[s].numLocks = sems[s].numLocks /\ sems'[s].holder = sems[s].holder
HeldIs(n, s, v) ==
  /\ held' \in [Node -> [Slot -> Int]] /\ held'[n][s] = v
  /\ \A o \in Node, x \in Slot : ~(o = n /\ x = s) => held'[o][x] = held[o][x]

\* The assignments.
LEMMA CallSet ==
  ASSUME Shape, NEW n \in Node, NEW c \in CallRec \union {NoCall}, call' = [call EXCEPT ![n] = c]
  PROVE  CallIs(n, c)
BY DEF Shape, CallIs, Others

\* A node leaves its section and goes on to the next.
LEMMA CallGoes ==
  ASSUME Shape, NEW n \in Node, call[n] \in CallRec, NEW x \in Stage \ {"idle"}, GoTo(n, x)
  PROVE  Goes(n, x, FALSE) /\ call'[n].num = call[n].num
<1>1. /\ call'[n] = [call[n] EXCEPT !.stage = x, !.inside = FALSE] /\ Others(n)
      /\ call' = [call EXCEPT ![n] = call'[n]]
  BY DEF Shape, GoTo, Others
<1>2. /\ SameCall(call[n], call'[n]) /\ call'[n].stage = x /\ call'[n].inside = FALSE
      /\ call'[n].num = call[n].num
  <2> DEFINE c == call[n]
             d == [c EXCEPT !.stage = x, !.inside = FALSE]
  <2>1. c \in CallRec /\ call'[n] = d
    BY <1>1
  <2> HIDE DEF c
  <2>2. SameCall(c, d) /\ d.stage = x /\ d.inside = FALSE /\ d.num = c.num
    BY <2>1, GoFields
  <2> HIDE DEF d
  <2> QED BY <2>1, <2>2 DEF c
<1>3. call' \in [Node -> CallRec \union {NoCall}]
  BY <1>1, <1>2 DEF Shape, SameCall
<1> QED BY <1>1, <1>2, <1>3 DEF Goes

\* An entry is written.
LEMMA EntrySet ==
  ASSUME Shape, NEW s \in Slot, NEW l \in LockRec, sems' = [sems EXCEPT ![s] = l]
  PROVE  EntryIs(s, l)
BY DEF Shape, EntryIs

\* A member of the semaphore is given back.
LEMMA MemberSet ==
  ASSUME Shape, NEW m \in Slot, Post(m)
  PROVE  Posted(m)
BY Names DEF Shape, Posted, Post

\* What a node has been granted of an entry is counted.
LEMMA HeldSet ==
  ASSUME Shape, NEW n \in Node, NEW s \in Slot, NEW v \in Int, held' = [held EXCEPT ![n][s] = v]
  PROVE  HeldIs(n, s, v)
<1>1. held[n] \in [Slot -> Int]
  BY DEF Shape
<1>2. held'[n] = [held[n] EXCEPT ![s] = v] /\ \A o \in Node \ {n} : held'[o] = held[o]
  BY DEF Shape
<1>3. held'[n] \in [Slot -> Int] /\ \A x \in Slot : held'[n][x] = IF x = s THEN v ELSE held[n][x]
  BY <1>1, <1>2
<1>4. held' \in [Node -> [Slot -> Int]]
  BY <1>2, <1>3 DEF Shape
<1> QED BY <1>2, <1>3, <1>4 DEF HeldIs

\* Nobody holds the lock any more.
NobodyIs(s) ==
  /\ held' \in [Node -> [Slot -> Int]]
  /\ \A n \in Node, x \in Slot : held'[n][x] = IF x = s THEN 0 ELSE held[n][x]

\* What everybody has been granted of an entry is cleared.
LEMMA NobodySet ==
  ASSUME Shape, NEW s \in Slot, NobodyHolds(s)
  PROVE  NobodyIs(s)
<1>1. ASSUME NEW n \in Node
      PROVE  /\ held'[n] \in [Slot -> Int]
             /\ \A x \in Slot : held'[n][x] = IF x = s THEN 0 ELSE held[n][x]
  <2>1. held[n] \in [Slot -> Int] /\ held'[n] = [held[n] EXCEPT ![s] = 0]
    BY DEF Shape, NobodyHolds
  <2> QED BY <2>1
<1>2. held' \in [Node -> [Slot -> Int]]
  <2>1. held' = [n \in Node |-> [held[n] EXCEPT ![s] = 0]]
    BY DEF NobodyHolds
  <2>2. \A n \in Node : held'[n] = [held[n] EXCEPT ![s] = 0]
    BY <2>1
  <2>3. \A n \in Node : [held[n] EXCEPT ![s] = 0] \in [Slot -> Int]
    BY DEF Shape
  <2> QED BY <2>1, <2>3
<1> QED BY <1>1, <1>2 DEF NobodyIs

\* A node in a section: its call, and its entry.
LEMMA InSection ==
  ASSUME Shape, NEW n \in Node, NEW x \in Stage \ {"idle"}, In(n, x)
  PROVE  /\ call[n] \in CallRec /\ call[n] # NoCall /\ call[n].slot \in Slot /\ ~down
         /\ call[n].stage = x /\ call[n].inside = TRUE /\ sems[call[n].slot] \in LockRec
         /\ call[n].num \in Nat
<1>1. ~down /\ call[n].stage = x /\ call[n].inside
  BY DEF In
<1>2. call[n] \in CallRec /\ call[n] # NoCall
  BY <1>1, InCall
<1>3. call[n].slot \in Slot /\ call[n].inside \in BOOLEAN /\ call[n].num \in Nat
  BY <1>2 DEF CallRec
<1> QED BY <1>1, <1>2, <1>3 DEF Shape

\* A step of a section, as far as the users of the lock are concerned.
Quiet ==
  /\ UNCHANGED <<users, handles, nodes, using>>
  /\ \A s \in Slot : /\ (sems'[s].valid => sems[s].valid) /\ sems'[s].refs = sems[s].refs
                     /\ sems'[s].key = sems[s].key /\ sems'[s].type = sems[s].type
                     /\ sems'[s].limit = sems[s].limit
  /\ \A n \in Node : \/ call'[n] = NoCall
                     \/ call[n] # NoCall /\ call'[n].slot = call[n].slot
                                         /\ call'[n].type = call[n].type

-----------------------------------------------------------------------------
(* The sections.                                                           *)

\* The check of the handle: the call goes on with a valid entry only.
LEMMA CheckHandleStep ==
  ASSUME Shape, NEW n \in Node, CheckHandle(n)
  PROVE  /\ Shape' /\ Quiet /\ In(n, "handle") /\ Posted(0)
         /\ UNCHANGED <<sems, users, nodes, down, handles, held, using>>
         /\ \/ /\ sems[call[n].slot].valid /\ Goes(n, FirstSection(call[n]), FALSE)
               /\ call'[n].num = call[n].num
            \/ CallIs(n, NoCall)
<1> DEFINE s == call[n].slot
           f == FirstSection(call[n])
<1>1. /\ In(n, "handle") /\ UNCHANGED <<sems, users, nodes, down, handles, held, using>>
      /\ "handle" \in Stage \ {"idle"} /\ call[n] \in CallRec /\ call[n] # NoCall
  BY InSection DEF CheckHandle, Stage
<1>2. f \in Stage \ {"idle"}
  BY <1>1 DEF FirstSection, Stage, CallRec
<1>3. Posted(0)
  BY Names, MemberSet DEF CheckHandle
<1> HIDE DEF f
<1>4. \/ sems[s].valid /\ Goes(n, f, FALSE) /\ call'[n].num = call[n].num
      \/ CallIs(n, NoCall)
  <2>1. CASE sems[s].valid
    <3>1. GoTo(n, f)
      BY <2>1 DEF CheckHandle, f
    <3> QED BY <1>1, <1>2, <2>1, <3>1, CallGoes
  <2>2. CASE ~sems[s].valid
    BY <2>2, CallSet DEF CheckHandle, Return
  <2> QED BY <2>1, <2>2
<1>5. Shape'
  BY <1>1, <1>3, <1>4 DEF Shape, Posted, Goes, CallIs
<1>6. Quiet
  BY <1>1, <1>4 DEF Quiet, Goes, CallIs, Others, SameCall
<1> QED BY <1>1, <1>3, <1>4, <1>5, <1>6 DEF f

\* Locking a mutex: its owner returns, and has locked it once more when it is
\* recursive; any other node goes on to the shares.
LEMMA MutexLockStep ==
  ASSUME Shape, NEW n \in Node, MutexLock(n)
  PROVE  LET s == call[n].slot IN
         /\ Shape' /\ Quiet /\ In(n, "mutex lock") /\ Posted(s)
         /\ UNCHANGED <<users, nodes, down, handles, using>>
         /\ \/ /\ LockedBy(n, s) /\ CallIs(n, NoCall)
               /\ \/ /\ sems[s].recursive /\ KeyIs(s, sems[s].lockKey + 1)
                     /\ HeldIs(n, s, held[n][s] + 1)
                  \/ UNCHANGED <<sems, held>>
            \/ /\ ~LockedBy(n, s) /\ Goes(n, "acquire", FALSE) /\ call'[n].num = call[n].num
               /\ UNCHANGED <<sems, held>>
<1> DEFINE s == call[n].slot
           mine == LockedBy(n, s)
<1>1. /\ In(n, "mutex lock") /\ UNCHANGED <<users, nodes, down, handles, using>>
      /\ call[n] \in CallRec /\ call[n] # NoCall /\ s \in Slot /\ sems[s] \in LockRec
      /\ held[n][s] \in Int /\ {"mutex lock", "acquire"} \subseteq Stage \ {"idle"}
  <2>1. {"mutex lock", "acquire"} \subseteq Stage \ {"idle"}
    BY DEF Stage
  <2> QED BY <2>1, InSection DEF MutexLock, Shape
<1>2. Posted(s)
  BY <1>1, MemberSet DEF MutexLock
<1>3. \/ /\ mine /\ sems[s].recursive
         /\ sems' = [sems EXCEPT ![s].lockKey = @ + 1] /\ held' = [held EXCEPT ![n][s] = @ + 1]
      \/ ~(mine /\ sems[s].recursive) /\ UNCHANGED <<sems, held>>
  BY DEF MutexLock
<1>4. IF mine THEN Return(n) ELSE GoTo(n, "acquire")
  BY DEF MutexLock
<1> HIDE DEF s, mine
<1>5. CASE mine
  <2>1. CallIs(n, NoCall)
    BY <1>4, <1>5, CallSet DEF Return
  <2>2. CASE UNCHANGED <<sems, held>>
    <3>1. Shape' /\ Quiet
      BY <1>1, <1>2, <2>1, <2>2 DEF Shape, Posted, CallIs, Others, Quiet
    <3> QED BY <1>1, <1>2, <1>5, <2>1, <2>2, <3>1 DEF s, mine
  <2>3. CASE /\ sems[s].recursive
             /\ sems' = [sems EXCEPT ![s].lockKey = @ + 1] /\ held' = [held EXCEPT ![n][s] = @ + 1]
    <3>1. HeldIs(n, s, held[n][s] + 1)
      <4> DEFINE v == held[n][s] + 1
      <4>1. held' = [held EXCEPT ![n][s] = v]
        BY <2>3
      <4>2. v \in Int
        <5>1. held[n][s] \in Int
          BY <1>1
        <5> QED BY <5>1
      <4> HIDE DEF v
      <4>3. HeldIs(n, s, v)
        BY <1>1, <4>1, <4>2, HeldSet
      <4> QED BY <4>3 DEF v
    <3> DEFINE l == [sems[s] EXCEPT !.lockKey = sems[s].lockKey + 1]
    <3>2. /\ l \in LockRec /\ SameLock(sems[s], l) /\ l.lockKey = sems[s].lockKey + 1
          /\ l.refs = sems[s].refs /\ l.numLocks = sems[s].numLocks /\ l.holder = sems[s].holder
      <4>1. sems[s] \in LockRec
        BY <1>1
      <4>2. sems[s].lockKey \in Int
        BY <4>1 DEF LockRec
      <4>3. sems[s].lockKey + 1 \in Int
        BY <4>2
      <4> QED BY <4>1, <4>3, KeyFields
    <3>3. sems' = [sems EXCEPT ![s] = l]
      BY <2>3
    <3> HIDE DEF l
    <3>4. EntryIs(s, l)
      BY <1>1, <3>2, <3>3, EntrySet
    <3>5. Shape' /\ Quiet
      BY <1>1, <1>2, <2>1, <3>1, <3>2, <3>4
         DEF Shape, Posted, CallIs, Others, Quiet, HeldIs, EntryIs, SameLock
    <3>6. KeyIs(s, sems[s].lockKey + 1)
      BY <3>2, <3>4 DEF KeyIs, EntryIs
    <3> QED BY <1>1, <1>2, <1>5, <2>1, <2>3, <3>1, <3>5, <3>6 DEF s, mine
  <2> QED BY <1>3, <2>2, <2>3
<1>6. CASE ~mine
  <2>1. Goes(n, "acquire", FALSE) /\ call'[n].num = call[n].num
    BY <1>1, <1>4, <1>6, CallGoes
  <2>2. UNCHANGED <<sems, held>>
    BY <1>3, <1>6
  <2>3. Shape' /\ Quiet
    BY <1>1, <1>2, <2>1, <2>2 DEF Shape, Posted, Goes, Others, Quiet, SameCall
  <2> QED BY <1>1, <1>2, <1>6, <2>1, <2>2, <2>3 DEF s, mine
<1> QED BY <1>5, <1>6

\* A writer asks for as many shares as the entry has.
LEMMA ReadLimitStep ==
  ASSUME Shape, NEW n \in Node, ReadLimit(n)
  PROVE  /\ Shape' /\ Quiet /\ In(n, "limit") /\ Posted(call[n].slot)
         /\ UNCHANGED <<sems, users, nodes, down, handles, held, using>>
         /\ Goes(n, IF call[n].op = "lock" THEN "acquire" ELSE "release", FALSE)
         /\ call'[n].num = sems[call[n].slot].limit
<1> DEFINE c == call[n]
           s == c.slot
           x == IF c.op = "lock" THEN "acquire" ELSE "release"
           v == sems[s].limit
           d == WithNum(c, v, x)
<1>1. /\ In(n, "limit") /\ UNCHANGED <<sems, users, nodes, down, handles, held, using>>
      /\ c \in CallRec /\ c # NoCall /\ s \in Slot /\ sems[s] \in LockRec
      /\ x \in Stage \ {"idle"} /\ "limit" \in Stage \ {"idle"}
  <2>1. x \in Stage \ {"idle"} /\ "limit" \in Stage \ {"idle"}
    BY DEF Stage
  <2> QED BY <2>1, InSection DEF ReadLimit
<1>2. Posted(s)
  BY <1>1, MemberSet DEF ReadLimit
<1>3. v \in Nat
  BY <1>1, Names DEF LockRec
<1>4. call'[n] = d /\ Others(n) /\ call' = [call EXCEPT ![n] = call'[n]]
  BY DEF ReadLimit, Shape, Others, WithNum
<1> HIDE DEF c, v, x
<1>5. SameCall(c, d) /\ d.stage = x /\ d.inside = FALSE /\ d.num = v
  <2>1. c \in CallRec /\ v \in Nat /\ x \in Stage \ {"idle"}
    BY <1>1, <1>3
  <2> QED BY <2>1, NumFields
<1> HIDE DEF d
<1>6. call' \in [Node -> CallRec \union {NoCall}]
  BY <1>4, <1>5 DEF Shape, SameCall
<1>7. Goes(n, x, FALSE) /\ call'[n].num = v
  BY <1>4, <1>5, <1>6 DEF Goes, c
<1>8. Shape' /\ Quiet
  BY <1>1, <1>2, <1>7 DEF Shape, Posted, Goes, Others, Quiet, SameCall, c
<1> QED BY <1>1, <1>2, <1>7, <1>8 DEF x, c, v

\* The test before the loop: the shares fit, or the node yields.
LEMMA TryAcquireStep ==
  ASSUME Shape, NEW n \in Node, TryAcquire(n)
  PROVE  LET s == call[n].slot IN
         /\ Shape' /\ Quiet /\ In(n, "acquire")
         /\ UNCHANGED <<sems, users, nodes, down, handles, held, using>>
         /\ \/ /\ sems[s].limit - sems[s].numLocks - call[n].num >= 0
               /\ Goes(n, "take", TRUE) /\ UNCHANGED member
            \/ Goes(n, "yield", FALSE) /\ Posted(0)
         /\ call'[n].num = call[n].num
<1> DEFINE c == call[n]
           s == c.slot
           fits == sems[s].limit - sems[s].numLocks - c.num >= 0
<1>1. /\ In(n, "acquire") /\ UNCHANGED <<sems, users, nodes, down, handles, held, using>>
      /\ c \in CallRec /\ c # NoCall /\ s \in Slot /\ c.inside = TRUE
      /\ {"take", "yield", "acquire"} \subseteq Stage \ {"idle"}
  <2>1. {"take", "yield", "acquire"} \subseteq Stage \ {"idle"}
    BY DEF Stage
  <2> QED BY <2>1, InSection DEF TryAcquire
<1>2. IF fits THEN call' = [call EXCEPT ![n].stage = "take"] /\ UNCHANGED member ELSE Yield(n)
  BY DEF TryAcquire
<1> HIDE DEF fits
<1>3. CASE fits
  <2> DEFINE d == [c EXCEPT !.stage = "take"]
  <2>1. call'[n] = d /\ Others(n) /\ call' = [call EXCEPT ![n] = call'[n]]
    BY <1>2, <1>3 DEF Shape, Others
  <2> HIDE DEF c
  <2>2. SameCall(c, d) /\ d.stage = "take" /\ d.inside = TRUE /\ d.num = c.num
    BY <1>1, StageFields
  <2> HIDE DEF d
  <2>3. call' \in [Node -> CallRec \union {NoCall}]
    BY <2>1, <2>2 DEF Shape, SameCall
  <2>4. Goes(n, "take", TRUE) /\ call'[n].num = c.num
    BY <2>1, <2>2, <2>3 DEF Goes, c
  <2>5. Shape' /\ Quiet
    BY <1>1, <1>2, <1>3, <2>4 DEF Shape, Goes, Others, Quiet, SameCall, c
  <2> QED BY <1>1, <1>2, <1>3, <2>4, <2>5 DEF c, fits
<1>4. CASE ~fits
  <2>1. Goes(n, "yield", FALSE) /\ call'[n].num = c.num
    BY <1>1, <1>2, <1>4, CallGoes DEF Yield
  <2>2. Posted(0)
    BY <1>2, <1>4, Names, MemberSet DEF Yield
  <2>3. Shape' /\ Quiet
    BY <1>1, <2>1, <2>2 DEF Shape, Posted, Goes, Others, Quiet, SameCall
  <2> QED BY <1>1, <2>1, <2>2, <2>3
<1> QED BY <1>3, <1>4

\* The shares of an entry, by the name of the model.
LEMMA SharesAre ==
  ASSUME NEW s \in Slot, NEW n
  PROVE  SharesOf(s, n) = Owned(sems[s], n)
BY DEF SharesOf, Owned

\* Taking the shares: as many of the free ones as were asked for, if there are
\* so many; otherwise the shares found are taken and the node yields.
LEMMA TakeSharesStep ==
  ASSUME Shape, NEW n \in Node, TakeShares(n)
  PROVE  LET s == call[n].slot
             got == Lowest(Owned(sems[s], None), call[n].num)
         IN
         /\ Shape' /\ Quiet /\ In(n, "take") /\ UNCHANGED <<users, nodes, down, handles, using>>
         /\ got \in SUBSET Owned(sems[s], None) /\ EntryIs(s, Grant(sems[s], n, got))
         /\ \/ /\ Cardinality(got) = call[n].num /\ HeldIs(n, s, held[n][s] + call[n].num)
               /\ CallIs(n, NoCall) /\ Posted(s)
            \/ /\ Cardinality(got) # call[n].num /\ UNCHANGED held
               /\ Goes(n, "yield", FALSE) /\ call'[n].num = call[n].num /\ Posted(0)
<1> DEFINE s == call[n].slot
           num == call[n].num
           got == Lowest(Owned(sems[s], None), num)
           l == Grant(sems[s], n, got)
<1>1. /\ In(n, "take") /\ UNCHANGED <<users, nodes, down, handles, using>>
      /\ call[n] \in CallRec /\ call[n] # NoCall /\ s \in Slot /\ sems[s] \in LockRec
      /\ held[n][s] \in Int /\ num \in Nat /\ "yield" \in Stage \ {"idle"}
  <2>1. {"take", "yield"} \subseteq Stage \ {"idle"}
    BY DEF Stage
  <2> QED BY <2>1, InSection DEF TakeShares, Shape
<1>2. got \in SUBSET Owned(sems[s], None)
  BY DEF Lowest
<1>3. /\ sems' = [sems EXCEPT ![s] = l]
      /\ IF Cardinality(got) = num
         THEN held' = [held EXCEPT ![n][s] = held[n][s] + num] /\ Return(n) /\ Post(s)
         ELSE Yield(n) /\ UNCHANGED held
  BY <1>1, SharesAre DEF TakeShares
<1> HIDE DEF s, num, got, l
<1>4. l \in LockRec /\ SameLock(sems[s], l) /\ l.refs = sems[s].refs
  BY <1>1, <1>2, GrantFields DEF l
<1>5. EntryIs(s, l)
  BY <1>1, <1>3, <1>4, EntrySet
<1>6. CASE Cardinality(got) = num
  <2>1. CallIs(n, NoCall) /\ Posted(s)
    BY <1>1, <1>3, <1>6, CallSet, MemberSet DEF Return
  <2>2. HeldIs(n, s, held[n][s] + num)
    <3> DEFINE v == held[n][s] + num
    <3>1. v \in Int
      <4>1. held[n][s] \in Int /\ num \in Nat
        BY <1>1
      <4> QED BY <4>1
    <3>2. held' = [held EXCEPT ![n][s] = v]
      BY <1>3, <1>6
    <3> HIDE DEF v
    <3>3. HeldIs(n, s, v)
      BY <1>1, <3>1, <3>2, HeldSet
    <3> QED BY <3>3 DEF v
  <2>3. Shape' /\ Quiet
    BY <1>1, <1>4, <1>5, <2>1, <2>2
       DEF Shape, Posted, CallIs, Others, Quiet, HeldIs, EntryIs, SameLock
  <2> QED BY <1>1, <1>2, <1>5, <1>6, <2>1, <2>2, <2>3 DEF s, num, got, l
<1>7. CASE Cardinality(got) # num
  <2>1. Goes(n, "yield", FALSE) /\ call'[n].num = call[n].num
    BY <1>1, <1>3, <1>7, CallGoes DEF Yield
  <2>2. Posted(0) /\ UNCHANGED held
    BY <1>3, <1>7, Names, MemberSet DEF Yield
  <2>3. Shape' /\ Quiet
    BY <1>1, <1>4, <1>5, <2>1, <2>2
       DEF Shape, Posted, Goes, Others, Quiet, SameCall, EntryIs, SameLock
  <2> QED BY <1>1, <1>2, <1>5, <1>7, <2>1, <2>2, <2>3 DEF s, num, got, l
<1> QED BY <1>6, <1>7

\* The end of the loop of a lock that was not got.
LEMMA AgainStep ==
  ASSUME Shape, NEW n \in Node, Again(n)
  PROVE  /\ Shape' /\ Quiet /\ In(n, "yield")
         /\ UNCHANGED <<sems, users, nodes, down, handles, held, using>>
         /\ \/ CallIs(n, NoCall) /\ Posted(call[n].slot)
            \/ Goes(n, "acquire", TRUE) /\ call'[n].num = call[n].num /\ UNCHANGED member
<1> DEFINE c == call[n]
           s == c.slot
           v == IF c.left = Infinite THEN c.left ELSE c.left - 1
<1>1. /\ In(n, "yield") /\ UNCHANGED <<sems, users, nodes, down, handles, held, using>>
      /\ c \in CallRec /\ c # NoCall /\ s \in Slot /\ c.inside = TRUE
      /\ "acquire" \in Stage \ {"idle"}
  <2>1. {"acquire", "yield"} \subseteq Stage \ {"idle"}
    BY DEF Stage
  <2> QED BY <2>1, InSection DEF Again
<1>2. CASE c.left = 1
  <2>1. Return(n) /\ Post(s)
    BY <1>2 DEF Again
  <2>2. CallIs(n, NoCall) /\ Posted(s)
    BY <1>1, <2>1, CallSet, MemberSet DEF Return
  <2>3. Shape' /\ Quiet
    BY <1>1, <2>2 DEF Shape, Posted, CallIs, Others, Quiet
  <2> QED BY <1>1, <2>2, <2>3
<1>3. CASE c.left # 1
  <2> DEFINE x == "acquire"
             d == WithLeft(c, x, v)
  <2>1. v \in (Nat \ {0}) \union {Infinite}
    <3>1. c.left \in (Nat \ {0}) \union {Infinite}
      BY <1>1 DEF CallRec
    <3> QED BY <1>3, <3>1
  <2>2. call'[n] = d /\ Others(n) /\ call' = [call EXCEPT ![n] = call'[n]] /\ UNCHANGED member
    BY <1>3 DEF Again, Shape, Others, WithLeft
  <2> HIDE DEF c, v, x
  <2>3. SameCall(c, d) /\ d.stage = x /\ d.inside = c.inside /\ d.num = c.num
    <3>1. c \in CallRec /\ v \in (Nat \ {0}) \union {Infinite} /\ x \in Stage \ {"idle"}
      BY <1>1, <2>1 DEF x
    <3> QED BY <3>1, LeftFields
  <2> HIDE DEF d
  <2>4. call' \in [Node -> CallRec \union {NoCall}]
    BY <2>2, <2>3 DEF Shape, SameCall
  <2>5. Goes(n, "acquire", TRUE) /\ call'[n].num = c.num
    BY <1>1, <2>2, <2>3, <2>4 DEF Goes, c, x
  <2>6. Shape' /\ Quiet
    BY <1>1, <2>2, <2>5 DEF Shape, Goes, Others, Quiet, SameCall, c
  <2> QED BY <1>1, <2>2, <2>5, <2>6 DEF c
<1> QED BY <1>2, <1>3

\* Unlocking a mutex: a recursion of it, or the mutex, which another section
\* releases.
LEMMA MutexUnlockStep ==
  ASSUME Shape, NEW n \in Node, MutexUnlock(n)
  PROVE  LET s == call[n].slot
             mine == UnlocksRecursion(n, s, call[n].key)
         IN
         /\ Shape' /\ Quiet /\ In(n, "mutex unlock") /\ Posted(s)
         /\ UNCHANGED <<users, nodes, down, handles, using>>
         /\ \/ /\ mine /\ KeyIs(s, sems[s].lockKey - 1) /\ HeldIs(n, s, held[n][s] - 1)
               /\ CallIs(n, NoCall)
            \/ /\ ~mine /\ UNCHANGED <<sems, held>>
               /\ \/ sems[s].lockKey # 0 /\ CallIs(n, NoCall)
                  \/ /\ sems[s].lockKey = 0 /\ Goes(n, "release", FALSE)
                     /\ call'[n].num = call[n].num
<1> DEFINE s == call[n].slot
           key == sems[s].lockKey
           mine == UnlocksRecursion(n, s, call[n].key)
<1>1. /\ In(n, "mutex unlock") /\ UNCHANGED <<users, nodes, down, handles, using>>
      /\ call[n] \in CallRec /\ call[n] # NoCall /\ s \in Slot /\ sems[s] \in LockRec
      /\ held[n][s] \in Int /\ "release" \in Stage \ {"idle"}
  <2>1. {"mutex unlock", "release"} \subseteq Stage \ {"idle"}
    BY DEF Stage
  <2> QED BY <2>1, InSection DEF MutexUnlock, Shape
<1>2. Posted(s)
  BY <1>1, MemberSet DEF MutexUnlock
<1>3. IF mine
      THEN sems' = [sems EXCEPT ![s].lockKey = key - 1] /\ held' = [held EXCEPT ![n][s] = held[n][s] - 1]
      ELSE UNCHANGED <<sems, held>>
  BY DEF MutexUnlock
<1>4. IF ~mine /\ key = 0 THEN GoTo(n, "release") ELSE Return(n)
  BY DEF MutexUnlock
<1> HIDE DEF s, mine
<1>5. CASE mine
  <2>1. CallIs(n, NoCall)
    BY <1>4, <1>5, CallSet DEF Return
  <2>2. HeldIs(n, s, held[n][s] - 1)
    <3> DEFINE v == held[n][s] - 1
    <3>1. v \in Int
      <4>1. held[n][s] \in Int
        BY <1>1
      <4> QED BY <4>1
    <3>2. held' = [held EXCEPT ![n][s] = v]
      BY <1>3, <1>5
    <3> HIDE DEF v
    <3>3. HeldIs(n, s, v)
      BY <1>1, <3>1, <3>2, HeldSet
    <3> QED BY <3>3 DEF v
  <2> DEFINE l == [sems[s] EXCEPT !.lockKey = sems[s].lockKey - 1]
  <2>3. /\ l \in LockRec /\ SameLock(sems[s], l) /\ l.lockKey = sems[s].lockKey - 1
        /\ l.refs = sems[s].refs /\ l.numLocks = sems[s].numLocks /\ l.holder = sems[s].holder
    <3>1. sems[s] \in LockRec
      BY <1>1
    <3>2. sems[s].lockKey \in Int
      BY <3>1 DEF LockRec
    <3>3. sems[s].lockKey - 1 \in Int
      BY <3>2
    <3> QED BY <3>1, <3>3, KeyFields
  <2>4. sems' = [sems EXCEPT ![s] = l]
    BY <1>3, <1>5
  <2> HIDE DEF l
  <2>5. EntryIs(s, l)
    BY <1>1, <2>3, <2>4, EntrySet
  <2>6. Shape' /\ Quiet
    BY <1>1, <1>2, <2>1, <2>2, <2>3, <2>5
       DEF Shape, Posted, CallIs, Others, Quiet, HeldIs, EntryIs, SameLock
  <2>7. KeyIs(s, sems[s].lockKey - 1)
    BY <2>3, <2>5 DEF KeyIs, EntryIs
  <2> QED BY <1>1, <1>2, <1>5, <2>1, <2>2, <2>6, <2>7 DEF s, mine
<1>6. CASE ~mine
  <2>1. UNCHANGED <<sems, held>>
    BY <1>3, <1>6
  <2>2. CASE key = 0
    <3>1. Goes(n, "release", FALSE) /\ call'[n].num = call[n].num
      BY <1>1, <1>4, <1>6, <2>2, CallGoes
    <3>2. Shape' /\ Quiet
      BY <1>1, <1>2, <2>1, <3>1 DEF Shape, Posted, Goes, Others, Quiet, SameCall
    <3> QED BY <1>1, <1>2, <1>6, <2>1, <2>2, <3>1, <3>2 DEF s, mine
  <2>3. CASE key # 0
    <3>1. CallIs(n, NoCall)
      BY <1>4, <2>3, CallSet DEF Return
    <3>2. Shape' /\ Quiet
      BY <1>1, <1>2, <2>1, <3>1 DEF Shape, Posted, CallIs, Others, Quiet
    <3> QED BY <1>1, <1>2, <1>6, <2>1, <2>3, <3>1, <3>2 DEF s, mine
  <2> QED BY <2>2, <2>3
<1> QED BY <1>5, <1>6

\* Releasing: all shares of the node, if they are at least as many as it gives
\* back; if they are more the process ends.
LEMMA ReleaseStep ==
  ASSUME Shape, NEW n \in Node, Release(n)
  PROVE  LET s == call[n].slot
             mine == Owned(sems[s], n)
             num == call[n].num
         IN
         /\ Shape' /\ Quiet /\ In(n, "release") /\ Posted(s) /\ CallIs(n, NoCall)
         /\ UNCHANGED <<users, nodes, handles, using>>
         /\ \/ /\ sems[s].valid /\ EntryIs(s, GiveBack(sems[s], mine, num))
               /\ \/ Cardinality(mine) = num /\ UNCHANGED down /\ HeldIs(n, s, 0)
                  \/ /\ Cardinality(mine) > num /\ down'
                     /\ held' \in [Node -> [Slot -> Int]]
                     /\ \A m \in Node, r \in Slot : held'[m][r] = 0
            \/ UNCHANGED <<sems, held, down>>
<1> DEFINE s == call[n].slot
           mine == Owned(sems[s], n)
           num == call[n].num
           l == GiveBack(sems[s], mine, num)
<1>1. /\ In(n, "release") /\ UNCHANGED <<users, nodes, handles, using>>
      /\ call[n] \in CallRec /\ call[n] # NoCall /\ s \in Slot /\ sems[s] \in LockRec
      /\ num \in Nat /\ Return(n) /\ Post(s)
  <2>1. "release" \in Stage \ {"idle"}
    BY DEF Stage
  <2> QED BY <2>1, InSection DEF Release
<1>2. Posted(s) /\ CallIs(n, NoCall)
  BY <1>1, MemberSet, CallSet DEF Return
<1>3. Cardinality(mine) \in Nat
  <2>1. sems[s] \in LockRec /\ sems[s].limit \in 0..MaxShares
    BY <1>1 DEF LockRec
  <2>2. Cardinality(mine) \in 0..sems[s].limit
    BY <2>1, OwnedFinite
  <2> QED BY <2>1, <2>2, Names
<1>4. IF sems[s].valid /\ Cardinality(mine) >= num
      THEN /\ sems' = [sems EXCEPT ![s] = l]
           /\ down' = (Cardinality(mine) # num)
           /\ held' = IF down' THEN [m \in Node |-> [r \in Slot |-> 0]]
                               ELSE [held EXCEPT ![n][s] = 0]
      ELSE UNCHANGED <<sems, held, down>>
  BY <1>1, SharesAre DEF Release
<1> HIDE DEF s, num, mine, l
<1>5. CASE ~(sems[s].valid /\ Cardinality(mine) >= num)
  <2>1. UNCHANGED <<sems, held, down>>
    BY <1>4, <1>5
  <2>2. Shape' /\ Quiet
    BY <1>1, <1>2, <2>1 DEF Shape, Posted, CallIs, Others, Quiet
  <2> QED BY <1>1, <1>2, <2>1, <2>2 DEF s
<1>6. CASE sems[s].valid /\ Cardinality(mine) >= num
  <2>1. l \in LockRec /\ SameLock(sems[s], l) /\ l.refs = sems[s].refs
    BY <1>1, GiveBackFields DEF l, mine
  <2>2. EntryIs(s, l)
    BY <1>1, <1>4, <1>6, <2>1, EntrySet
  <2>3. CASE Cardinality(mine) = num
    <3>1. down' = FALSE /\ ~down
      BY <1>1, <1>4, <1>6, <2>3 DEF In
    <3>2. HeldIs(n, s, 0)
      BY <1>1, <1>4, <1>6, <3>1, HeldSet
    <3>3. UNCHANGED down
      BY <3>1 DEF Shape
    <3>4. Shape' /\ Quiet
      BY <1>1, <1>2, <2>1, <2>2, <3>2, <3>3
         DEF Shape, Posted, CallIs, Others, Quiet, HeldIs, EntryIs, SameLock
    <3> QED BY <1>1, <1>2, <1>6, <2>2, <2>3, <3>2, <3>3, <3>4 DEF s, mine, num, l
  <2>4. CASE Cardinality(mine) # num
    <3>1. down' = TRUE /\ Cardinality(mine) > num
      <4>1. down' = (Cardinality(mine) # num)
        BY <1>4, <1>6, Zenon
      <4>2. Cardinality(mine) >= num /\ Cardinality(mine) \in Nat /\ num \in Nat
        BY <1>1, <1>3, <1>6
      <4>3. Cardinality(mine) > num
        BY <2>4, <4>2
      <4>4. down' = TRUE
        BY <2>4, <4>1, Zenon
      <4> QED BY <4>3, <4>4
    <3>2. held' = [m \in Node |-> [r \in Slot |-> 0]]
      BY <1>4, <1>6, <3>1
    <3>3. held' \in [Node -> [Slot -> Int]] /\ \A m \in Node, r \in Slot : held'[m][r] = 0
      BY <3>2
    <3>4. Shape' /\ Quiet
      BY <1>1, <1>2, <2>1, <2>2, <3>1, <3>3
         DEF Shape, Posted, CallIs, Others, Quiet, EntryIs, SameLock
    <3> QED BY <1>1, <1>2, <1>6, <2>2, <3>1, <3>3, <3>4 DEF s, mine, num, l
  <2> QED BY <2>3, <2>4
<1> QED BY <1>5, <1>6

\* Deleting.
LEMMA DeleteStep ==
  ASSUME Shape, NEW n \in Node, Delete(n)
  PROVE  LET s == call[n].slot IN
         /\ Shape' /\ Quiet /\ In(n, "delete") /\ Posted(s) /\ CallIs(n, NoCall)
         /\ UNCHANGED <<users, nodes, down, handles, using>>
         /\ \/ /\ sems[s].valid /\ Cardinality(Owned(sems[s], n)) = sems[s].limit
               /\ EntryIs(s, Removed(sems[s])) /\ NobodyIs(s)
            \/ UNCHANGED <<sems, held>>
<1> DEFINE s == call[n].slot
           l == Removed(sems[s])
           owner == Cardinality(Owned(sems[s], n)) = sems[s].limit
<1>1. /\ In(n, "delete") /\ UNCHANGED <<users, nodes, down, handles, using>>
      /\ call[n] \in CallRec /\ call[n] # NoCall /\ s \in Slot /\ sems[s] \in LockRec
      /\ Return(n) /\ Post(s)
  <2>1. "delete" \in Stage \ {"idle"}
    BY DEF Stage
  <2> QED BY <2>1, InSection DEF Delete
<1>2. Posted(s) /\ CallIs(n, NoCall)
  BY <1>1, MemberSet, CallSet DEF Return
<1>3. IF sems[s].valid /\ owner
      THEN sems' = [sems EXCEPT ![s] = l] /\ NobodyHolds(s)
      ELSE UNCHANGED <<sems, held>>
  BY <1>1, SharesAre DEF Delete, OwnsAll
<1> HIDE DEF s, l, owner
<1>4. CASE ~(sems[s].valid /\ owner)
  <2>1. UNCHANGED <<sems, held>>
    BY <1>3, <1>4
  <2>2. Shape' /\ Quiet
    BY <1>1, <1>2, <2>1 DEF Shape, Posted, CallIs, Others, Quiet
  <2> QED BY <1>1, <1>2, <2>1, <2>2 DEF s
<1>5. CASE sems[s].valid /\ owner
  <2>1. /\ l \in LockRec /\ l.valid = FALSE /\ l.key = sems[s].key /\ l.type = sems[s].type
        /\ l.limit = sems[s].limit /\ l.refs = sems[s].refs
    BY <1>1, RemovedFields DEF l
  <2>2. EntryIs(s, l) /\ NobodyIs(s)
    BY <1>1, <1>3, <1>5, <2>1, EntrySet, NobodySet
  <2>3. Shape' /\ Quiet
    BY <1>1, <1>2, <2>1, <2>2
       DEF Shape, Posted, CallIs, Others, Quiet, NobodyIs, EntryIs
  <2> QED BY <1>1, <1>2, <1>5, <2>2, <2>3 DEF s, l, owner
<1> QED BY <1>4, <1>5

\* Taking the semaphore of an entry, or of the table after a yield.
LEMMA EnterStep ==
  ASSUME Shape, NEW n \in Node, Enter(n)
  PROVE  LET m == Member(IF call[n].stage = "yield" THEN 0 ELSE call[n].slot) IN
         /\ Shape' /\ Quiet /\ ~down /\ call[n] # NoCall /\ call[n] \in CallRec
         /\ call[n].inside = FALSE
         /\ UNCHANGED <<sems, users, nodes, down, handles, held, using>>
         /\ m \in Slot /\ member[m] > 0 /\ member' \in [Slot -> Int]
         /\ member'[m] = member[m] - 1 /\ \A x \in Slot \ {m} : member'[x] = member[x]
         /\ Goes(n, call[n].stage, TRUE) /\ call'[n].num = call[n].num
<1> DEFINE c == call[n]
           m == Member(IF c.stage = "yield" THEN 0 ELSE c.slot)
           d == [c EXCEPT !.inside = TRUE]
<1>1. /\ ~down /\ c.stage # "idle" /\ ~c.inside
      /\ UNCHANGED <<sems, users, nodes, down, handles, held, using>>
      /\ member[m] > 0 /\ member' = [member EXCEPT ![m] = @ - 1]
      /\ call' = [call EXCEPT ![n].inside = TRUE]
  BY DEF Enter
<1>2. c # NoCall /\ c \in CallRec
  BY <1>1, InCall
<1>3. c.inside = FALSE /\ c.slot \in Slot
  BY <1>1, <1>2 DEF CallRec
<1>4. m \in Slot
  BY <1>3, Names
<1>5. /\ member' \in [Slot -> Int] /\ member'[m] = member[m] - 1
      /\ \A x \in Slot \ {m} : member'[x] = member[x]
  <2> HIDE DEF m
  <2> QED BY <1>1, <1>4 DEF Shape
<1>6. call'[n] = d /\ Others(n) /\ call' = [call EXCEPT ![n] = call'[n]]
  BY <1>1 DEF Shape, Others
<1>7. SameCall(c, d) /\ d.stage = c.stage /\ d.inside = TRUE /\ d.num = c.num
  <2> HIDE DEF c
  <2> QED BY <1>2, InsideFields
<1> HIDE DEF d
<1>8. call' \in [Node -> CallRec \union {NoCall}]
  BY <1>6, <1>7 DEF Shape, SameCall
<1>9. Goes(n, c.stage, TRUE) /\ call'[n].num = c.num
  BY <1>6, <1>7, <1>8 DEF Goes
<1>10. Shape' /\ Quiet
  BY <1>1, <1>2, <1>5, <1>9 DEF Shape, Goes, Others, Quiet, SameCall
<1> QED BY <1>1, <1>2, <1>3, <1>4, <1>5, <1>9, <1>10

-----------------------------------------------------------------------------
(* The calls, and the steps under the global semaphore.                    *)

\* A call starts with the check of the handle.
CallStarts(n, c) ==
  /\ c \in CallRec /\ c.slot \in handles[n] /\ c.stage = "handle" /\ c.inside = FALSE
  /\ c.slot \in Called[globalOnly]
  /\ c.num = 1 /\ c.type = sems[c.slot].type /\ c.key \in 0..MaxDepth
  /\ Mode(n, c.slot, c.op, c.mode)
  /\ c.op = "lock" => held[n][c.slot] < MaxDepth
  /\ c.op = "unlock" /\ c.type # "mutex" => c.key = 0

\* Its parameters.
LEMMA CallFields ==
  ASSUME Shape, NEW n \in Node, NEW s \in Slot, NEW op \in {"lock", "unlock", "delete"},
         NEW mode \in {"reader", "writer"}, NEW key \in 0..MaxDepth,
         NEW timeout \in (Nat \ {0}) \union {Infinite}, Call(n, s, op, mode, key, timeout),
         op = "unlock" /\ sems[s].type # "mutex" => key = 0
  PROVE  /\ Idle(n) /\ UNCHANGED <<sems, member, users, nodes, down, handles, held, using>>
         /\ \E c \in CallRec : CallStarts(n, c) /\ CallIs(n, c)
<1> DEFINE c == [op |-> op, slot |-> s, type |-> sems[s].type, mode |-> mode, key |-> key,
                 left |-> timeout, num |-> 1, stage |-> "handle", inside |-> FALSE]
<1>1. /\ Idle(n) /\ s \in handles[n] /\ s \in Called[globalOnly] /\ Mode(n, s, op, mode)
      /\ UNCHANGED <<sems, member, users, nodes, down, handles, held, using>>
      /\ op = "lock" => held[n][s] < MaxDepth
      /\ call' = [call EXCEPT ![n] = c]
  BY DEF Call
<1>2. sems[s] \in LockRec /\ key \in Nat /\ "handle" \in Stage \ {"idle"}
  <2>1. sems[s] \in LockRec /\ "handle" \in Stage \ {"idle"}
    BY DEF Shape, Stage
  <2>2. key \in Nat
    BY Names
  <2> QED BY <2>1, <2>2
<1>3. sems[s].type \in {"mutex", "sem", "rwl"}
  BY <1>2 DEF LockRec
<1>4. c \in CallRec
  BY <1>2, <1>3 DEF CallRec
<1>5. CallStarts(n, c)
  BY <1>1, <1>4 DEF CallStarts
<1> HIDE DEF c
<1>6. CallIs(n, c)
  BY <1>1, <1>4, CallSet
<1> QED BY <1>1, <1>4, <1>5, <1>6

\* A node starts a call.
LEMMA CallStep ==
  ASSUME Shape, NEW n \in Node, CallLock(n) \/ CallUnlock(n) \/ CallDelete(n)
  PROVE  /\ Shape' /\ Idle(n) /\ call[n] = NoCall
         /\ UNCHANGED <<sems, member, users, nodes, down, handles, held, using>>
         /\ \E c \in CallRec : CallStarts(n, c) /\ CallIs(n, c)
<1>0. 0 \in 0..MaxDepth /\ Timeouts \subseteq (Nat \ {0}) \union {Infinite}
  BY LocksAssumption
<1>1. /\ Idle(n) /\ UNCHANGED <<sems, member, users, nodes, down, handles, held, using>>
      /\ \E c \in CallRec : CallStarts(n, c) /\ CallIs(n, c)
  <2>1. CASE CallLock(n)
    <3>1. PICK s \in Slot, mode \in {"reader", "writer"}, t \in Timeouts : Call(n, s, "lock", mode, 0, t)
      BY <2>1 DEF CallLock
    <3>2. t \in (Nat \ {0}) \union {Infinite}
      BY <1>0
    <3> QED BY <1>0, <3>1, <3>2, CallFields
  <2>2. CASE CallUnlock(n)
    <3>1. PICK s \in Slot, mode \in {"reader", "writer"}, k \in 0..MaxDepth :
            (sems[s].type # "mutex" => k = 0) /\ Call(n, s, "unlock", mode, k, Infinite)
      BY <2>2 DEF CallUnlock
    <3> QED BY <3>1, CallFields
  <2>3. CASE CallDelete(n)
    <3>1. PICK s \in Slot : Call(n, s, "delete", "reader", 0, Infinite)
      BY <2>3 DEF CallDelete
    <3> QED BY <1>0, <3>1, CallFields
  <2> QED BY <2>1, <2>2, <2>3
<1>2. call[n] = NoCall
  BY <1>1, InCall DEF Idle
<1>3. Shape'
  BY <1>1 DEF Shape, CallIs
<1> QED BY <1>1, <1>2, <1>3

\* A node is logged as a user of an entry, and gets a handle for it.
Joins(n, s) ==
  /\ users' \in [Node -> SUBSET Slot] /\ handles' \in [Node -> SUBSET Slot]
  /\ users'[n] = users[n] \union {s} /\ handles'[n] = handles[n] \union {s}
  /\ \A o \in Node \ {n} : users'[o] = users[o] /\ handles'[o] = handles[o]

\* The assignments.
LEMMA JoinsSet ==
  ASSUME Shape, NEW n \in Node, NEW s \in Slot,
         users' = [users EXCEPT ![n] = @ \union {s}],
         handles' = [handles EXCEPT ![n] = @ \union {s}]
  PROVE  Joins(n, s)
<1>1. users[n] \union {s} \in SUBSET Slot /\ handles[n] \union {s} \in SUBSET Slot
  BY DEF Shape
<1> QED BY <1>1 DEF Shape, Joins

\* Creating a lock, in an entry that is not used.
LEMMA CreateLockStep ==
  ASSUME Shape, NEW n \in Node, NEW k \in Key, NEW kind \in Kinds, CreateLock(n, k, kind)
  PROVE  \E s \in Slot :
         /\ Shape' /\ Idle(n) /\ call[n] = NoCall /\ ~sems[s].valid
         /\ Reuse \/ \A o \in nodes \ {n} : s \notin users[o]
         /\ EntryIs(s, NewLock(k, kind)) /\ Joins(n, s) /\ NobodyIs(s)
         /\ using' \in [Slot -> SUBSET Node] /\ using'[s] = {n}
         /\ \A x \in Slot \ {s} : using'[x] = using[x]
         /\ UNCHANGED <<member, nodes, down, call>>
<1> DEFINE s == Min(Unused)
<1>1. s \in Slot /\ ~sems[s].valid
  <2>1. Unused \in SUBSET Nat /\ Unused # {} /\ Unused \subseteq Slot
    BY Names DEF CreateLock, Unused
  <2>2. s \in Unused
    BY <2>1, Least
  <2> QED BY <2>1, <2>2 DEF Unused
<1>2. /\ Idle(n)
      /\ Reuse \/ \A o \in nodes \ {n} : s \notin users[o]
      /\ sems' = [sems EXCEPT ![s] = NewLock(k, kind)]
      /\ users' = [users EXCEPT ![n] = @ \union {s}]
      /\ handles' = [handles EXCEPT ![n] = @ \union {s}]
      /\ NobodyHolds(s) /\ using' = [using EXCEPT ![s] = {n}]
      /\ UNCHANGED <<member, nodes, down, call>>
  BY DEF CreateLock
<1> HIDE DEF s
<1>3. call[n] = NoCall
  BY <1>2, InCall DEF Idle
<1>4. EntryIs(s, NewLock(k, kind))
  BY <1>1, <1>2, NewFields, EntrySet
<1>5. Joins(n, s) /\ NobodyIs(s)
  BY <1>1, <1>2, JoinsSet, NobodySet
<1>6. /\ using' \in [Slot -> SUBSET Node] /\ using'[s] = {n}
      /\ \A x \in Slot \ {s} : using'[x] = using[x]
  BY <1>1, <1>2 DEF Shape
<1>7. Shape'
  BY <1>2, <1>4, <1>5, <1>6 DEF Shape, EntryIs, Joins, NobodyIs
<1> QED BY <1>1, <1>2, <1>3, <1>4, <1>5, <1>6, <1>7

\* Getting a lock by its key.
LEMMA GetLockStep ==
  ASSUME Shape, NEW n \in Node, NEW k \in Key, GetLock(n, k)
  PROVE  \E s \in Slot :
         /\ Shape' /\ Idle(n) /\ call[n] = NoCall /\ sems[s].key = k /\ Joins(n, s)
         /\ sems' \in [Slot -> LockRec] /\ \A x \in Slot \ {s} : sems'[x] = sems[x]
         /\ SameLock(sems[s], sems'[s]) /\ sems'[s].lockKey = sems[s].lockKey
         /\ sems'[s].numLocks = sems[s].numLocks /\ sems'[s].holder = sems[s].holder
         /\ sems'[s].refs = CountUser(sems[s].refs, n, s)
         /\ using' \in [Slot -> SUBSET Node] /\ using'[s] = using[s] \union {n}
         /\ \A x \in Slot \ {s} : using'[x] = using[x]
         /\ UNCHANGED <<member, nodes, down, call, held>>
<1> DEFINE s == Min(WithKey(k))
           v == CountUser(sems[s].refs, n, s)
           l == [sems[s] EXCEPT !.refs = v]
<1>1. s \in Slot /\ sems[s].key = k
  <2>1. WithKey(k) \in SUBSET Nat /\ WithKey(k) # {} /\ WithKey(k) \subseteq Slot
    BY Names DEF GetLock, WithKey
  <2>2. s \in WithKey(k)
    BY <2>1, Least
  <2> QED BY <2>1, <2>2 DEF WithKey
<1>2. /\ Idle(n) /\ sems' = [sems EXCEPT ![s] = l]
      /\ users' = [users EXCEPT ![n] = @ \union {s}]
      /\ handles' = [handles EXCEPT ![n] = @ \union {s}]
      /\ using' = [using EXCEPT ![s] = @ \union {n}]
      /\ UNCHANGED <<member, nodes, down, call, held>>
  BY DEF GetLock
<1> HIDE DEF s
<1>3. call[n] = NoCall
  BY <1>2, InCall DEF Idle
<1>4. sems[s] \in LockRec /\ v \in Int
  <2>1. sems[s] \in LockRec
    BY <1>1 DEF Shape
  <2>2. sems[s].refs \in Int
    BY <2>1 DEF LockRec
  <2>3. sems[s].refs + 1 \in Int
    BY <2>2
  <2> QED BY <2>1, <2>2, <2>3 DEF CountUser
<1> HIDE DEF v
<1>5. /\ l \in LockRec /\ SameLock(sems[s], l) /\ l.lockKey = sems[s].lockKey
      /\ l.refs = v /\ l.numLocks = sems[s].numLocks /\ l.holder = sems[s].holder
  BY <1>4, CountedFields
<1> HIDE DEF l
<1>6. EntryIs(s, l)
  BY <1>1, <1>2, <1>5, EntrySet
<1>7. Joins(n, s)
  BY <1>1, <1>2, JoinsSet
<1>8. /\ using' \in [Slot -> SUBSET Node] /\ using'[s] = using[s] \union {n}
      /\ \A x \in Slot \ {s} : using'[x] = using[x]
  <2>1. using[s] \union {n} \in SUBSET Node
    BY <1>1 DEF Shape
  <2> QED BY <1>1, <1>2, <2>1 DEF Shape
<1>9. Shape'
  BY <1>2, <1>6, <1>7, <1>8 DEF Shape, EntryIs, Joins
<1> QED BY <1>1, <1>2, <1>3, <1>5, <1>6, <1>7, <1>8, <1>9 DEF EntryIs, v

\* The end of a node.
LEMMA FinalizeStep ==
  ASSUME Shape, NEW n \in Node, FinalizeNode(n)
  PROVE  /\ Shape' /\ Idle(n) /\ call[n] = NoCall /\ nodes' = nodes \ {n}
         /\ UNCHANGED <<member, users, down, handles, call, held, using>>
         /\ sems' \in [Slot -> LockRec]
         /\ \A s \in Slot :
              /\ ~sems[s].valid => sems'[s] = sems[s]
              /\ sems'[s].key = sems[s].key /\ sems'[s].type = sems[s].type
              /\ sems'[s].limit = sems[s].limit /\ sems'[s].lockKey = sems[s].lockKey
              /\ sems'[s].numLocks = sems[s].numLocks /\ sems'[s].holder = sems[s].holder
              /\ sems[s].valid =>
                   /\ sems'[s].refs = sems[s].refs - IF s \in users[n] THEN 1 ELSE 0
                   /\ sems'[s].valid <=> sems'[s].refs # 0
<1> DEFINE refs(s) == sems[s].refs - IF s \in users[n] THEN 1 ELSE 0
           freed == {s \in Slot : sems[s].valid /\ refs(s) = 0}
           new(s) == IF ~sems[s].valid THEN sems[s]
                     ELSE [sems[s] EXCEPT !.refs = refs(s), !.valid = s \notin freed]
<1>1. /\ Idle(n) /\ sems' = [s \in Slot |-> new(s)] /\ nodes' = nodes \ {n}
      /\ UNCHANGED <<member, users, down, handles, call, held, using>>
  BY DEF FinalizeNode
<1>2. call[n] = NoCall
  BY <1>1, InCall DEF Idle
<1>3. ASSUME NEW s \in Slot
      PROVE  /\ new(s) \in LockRec
             /\ ~sems[s].valid => new(s) = sems[s]
             /\ new(s).key = sems[s].key /\ new(s).type = sems[s].type
             /\ new(s).limit = sems[s].limit /\ new(s).lockKey = sems[s].lockKey
             /\ new(s).numLocks = sems[s].numLocks /\ new(s).holder = sems[s].holder
             /\ sems[s].valid => /\ new(s).refs = refs(s)
                                 /\ new(s).valid <=> new(s).refs # 0
  <2>1. sems[s] \in LockRec
    BY DEF Shape
  <2>2. CASE ~sems[s].valid
    BY <2>1, <2>2
  <2>3. CASE sems[s].valid
    <3> DEFINE v == refs(s)
               b == s \notin freed
               l == Ended(sems[s], v, b)
    <3>1. v \in Int
      <4>1. sems[s].refs \in Int
        BY <2>1 DEF LockRec
      <4>2. sems[s].refs - 1 \in Int /\ sems[s].refs - 0 \in Int
        BY <4>1
      <4> QED BY <4>2
    <3>2. b \in BOOLEAN /\ (b <=> v # 0)
      BY <2>3
    <3>3. new(s) = l
      BY <2>3 DEF Ended
    <3> HIDE DEF v, b, new
    <3>4. /\ l \in LockRec /\ l.valid = b /\ l.key = sems[s].key /\ l.type = sems[s].type
          /\ l.limit = sems[s].limit /\ l.lockKey = sems[s].lockKey /\ l.refs = v
          /\ l.numLocks = sems[s].numLocks /\ l.holder = sems[s].holder
      BY <2>1, <3>1, <3>2, EndFields
    <3> HIDE DEF l
    <3> QED BY <2>3, <3>2, <3>3, <3>4 DEF v
  <2> QED BY <2>2, <2>3
<1> HIDE DEF new
<1>4. sems' \in [Slot -> LockRec] /\ \A s \in Slot : sems'[s] = new(s)
  BY <1>1, <1>3
<1>5. Shape'
  BY <1>1, <1>4 DEF Shape
<1> QED BY <1>1, <1>2, <1>3, <1>4, <1>5

-----------------------------------------------------------------------------
(* The invariants.                                                         *)

\* The nodes that are logged as users of an entry, and those that still are.
Logged(s) == {n \in Node : s \in users[n]}
Active(s) == {n \in nodes : s \in users[n]}

\* The users: a handle and a call are of a node that is logged; the count of a
\* lock that exists is that of its users that have not ended.
UserOf(n) ==
  /\ handles[n] \subseteq users[n]
  /\ call[n] # NoCall => n \in nodes /\ call[n].slot \in handles[n]
UsedBy(s) == using[s] \subseteq Logged(s) /\ 0 <= sems[s].refs /\ sems[s].refs <= Cardinality(Logged(s))
CountOf(s) == sems[s].valid => sems[s].refs = Cardinality(Active(s))
UsersInv ==
  /\ \A n \in Node : UserOf(n)
  /\ \A s \in Slot : UsedBy(s) /\ CountOf(s)

\* The sections, when all are under member 0: at most one node is in one, and
\* then the member is taken.
Inside(n) == call[n] # NoCall /\ call[n].inside
SectionInv ==
  /\ globalOnly \in Builds
  /\ \A n \in Node : call[n] # NoCall => Member(call[n].slot) = 0
  /\ \A n, o \in Node : Inside(n) /\ Inside(o) => n = o
  /\ member[0] = IF \E n \in Node : Inside(n) THEN 0 ELSE 1
  /\ \A s \in Slot \ {0} : member[s] = 1

\* An entry that has been created: its shares, and the key of a mutex.
EntryOk(l) ==
  /\ l.valid => l.key # None
  /\ l.key # None => l.limit \in Share /\ (l.type = "mutex" => l.limit = 1)
  /\ l.lockKey \in 0..MaxDepth /\ l.numLocks \in 0..MaxShares
EntryInv ==
  \A s \in Slot : EntryOk(sems[s]) /\ \A n \in Node : s \in users[n] => sems[s].key # None

\* What a call knows of the lock and of what the node holds of it.
CallOk(c, l, v) ==
  /\ c.type = l.type /\ (c.mode = "writer" => c.type = "rwl")
  /\ c.num = 1 \/ (c.mode = "writer" /\ c.num = l.limit)
  /\ c.op = "lock" => v < MaxDepth /\ (c.type = "rwl" => v = 0)
  /\ c.stage \in {"mutex lock", "acquire", "take", "yield"} => c.op = "lock"
  /\ c.stage \in {"mutex unlock", "release"} => c.op = "unlock"
  /\ c.stage \in {"mutex lock", "mutex unlock"} => c.type = "mutex"
  /\ c.stage = "limit" => c.mode = "writer" /\ c.op # "delete"
  /\ c.stage = "take" => c.inside
CallsInv ==
  \A n \in Node : call[n] # NoCall => CallOk(call[n], sems[call[n].slot], held[n][call[n].slot])

\* What the nodes have been granted agrees with the shares of the entry.
GrantedOk(l, n, v) ==
  IF l.type = "mutex" THEN (Owned(l, n) # {} <=> v > 0) /\ (v > 0 => l.lockKey = v - 1)
                      ELSE Cardinality(Owned(l, n)) = v
SharesOk(s) ==
  LET l == sems[s] IN
  /\ l.numLocks = l.limit - Cardinality(Owned(l, None))
  /\ l.valid => /\ \A n \in Node : GrantedOk(l, n, held[n][s])
                /\ l.type = "mutex" /\ Owned(l, None) # {} => l.lockKey = 0
SharesInv == ~down => \A s \in Slot : SharesOk(s)
HeldInv == \A n \in Node, s \in Slot : held[n][s] \in (0..MaxDepth) \union Share

\* What a call knows after the check of the handle: a lock that is gone has no
\* share for it, the shares it takes are free, and a mutex that it releases is
\* not locked again.
BeyondOk(n, c, l) ==
  /\ l.valid \/ (Owned(l, n) = {} /\ l.numLocks = l.limit)
  /\ c.stage = "take" => l.valid /\ l.limit - l.numLocks >= c.num
  /\ c.stage = "release" /\ l.type = "mutex" /\ Owned(l, n) # {} => l.lockKey = 0
BeyondInv ==
  ~down => \A n \in Node : call[n] # NoCall /\ call[n].stage # "handle"
                             => BeyondOk(n, call[n], sems[call[n].slot])

-----------------------------------------------------------------------------
(* The users of a lock.                                                    *)

\* The users are finitely many.
LEMMA UsersFinite ==
  ASSUME Shape, NEW s \in Slot
  PROVE  /\ IsFiniteSet(Logged(s)) /\ IsFiniteSet(Active(s)) /\ Active(s) \subseteq Logged(s)
         /\ Cardinality(Logged(s)) \in Nat /\ Cardinality(Active(s)) \in Nat
         /\ Cardinality(Active(s)) <= Cardinality(Logged(s))
         /\ Cardinality(Logged(s)) <= Cardinality(Node)
         /\ sems[s] \in LockRec /\ sems[s].refs \in Int
<1>1. Logged(s) \in SUBSET Node /\ Active(s) \in SUBSET Logged(s)
  BY DEF Shape, Logged, Active
<1>2. sems[s] \in LockRec
  BY DEF Shape
<1>3. sems[s].refs \in Int
  BY <1>2 DEF LockRec
<1>4. IsFiniteSet(Logged(s)) /\ Cardinality(Logged(s)) <= Cardinality(Node)
  BY <1>1, Names, FS_Subset
<1>5. IsFiniteSet(Active(s)) /\ Cardinality(Active(s)) <= Cardinality(Logged(s))
  BY <1>1, <1>4, FS_Subset
<1> QED BY <1>1, <1>2, <1>3, <1>4, <1>5, FS_CardinalityType

\* Sections do not touch the users.
LEMMA QuietUsers ==
  ASSUME Shape, UsersInv, Quiet
  PROVE  UsersInv'
<1>1. \A s \in Slot : Logged(s)' = Logged(s) /\ Active(s)' = Active(s)
  BY DEF Quiet, Logged, Active
<1>2. ASSUME NEW n \in Node PROVE UserOf(n)'
  BY DEF Quiet, UsersInv, UserOf
<1>3. ASSUME NEW s \in Slot PROVE UsedBy(s)' /\ CountOf(s)'
  <2>1. UsedBy(s) /\ CountOf(s)
    BY DEF UsersInv
  <2>2. using' = using /\ sems'[s].refs = sems[s].refs /\ (sems'[s].valid => sems[s].valid)
    BY DEF Quiet
  <2> QED BY <1>1, <2>1, <2>2 DEF UsedBy, CountOf
<1> QED BY <1>2, <1>3 DEF UsersInv

\* A node that joins is counted once.
LEMMA JoinedUsers ==
  ASSUME Shape, Shape', UsersInv, NEW n \in nodes, NEW s \in Slot, Joins(n, s),
         UNCHANGED <<nodes, call>>,
         \A x \in Slot \ {s} : sems'[x] = sems[x] /\ using'[x] = using[x]
  PROVE  /\ \A m \in Node : UserOf(m)'
         /\ \A x \in Slot \ {s} : UsedBy(x)' /\ CountOf(x)'
         /\ Logged(s)' = Logged(s) \union {n} /\ Active(s)' = Active(s) \union {n}
<1>0. n \in Node /\ nodes \subseteq Node
  BY DEF Shape
<1>1. ASSUME NEW m \in Node PROVE UserOf(m)'
  <2>1. UserOf(m)
    BY DEF UsersInv
  <2>2. handles[m] \subseteq handles'[m] /\ (handles[m] \subseteq users[m] => handles'[m] \subseteq users'[m])
    BY <1>0 DEF Joins
  <2> QED BY <2>1, <2>2 DEF UserOf
<1>2. ASSUME NEW x \in Slot \ {s} PROVE UsedBy(x)' /\ CountOf(x)'
  <2>1. \A m \in Node : x \in users'[m] <=> x \in users[m]
    BY <1>0 DEF Joins
  <2>2. Logged(x)' = Logged(x) /\ Active(x)' = Active(x)
    BY <1>0, <2>1 DEF Logged, Active
  <2>3. UsedBy(x) /\ CountOf(x)
    BY DEF UsersInv
  <2> QED BY <2>2, <2>3 DEF UsedBy, CountOf
<1>3. Logged(s)' = Logged(s) \union {n} /\ Active(s)' = Active(s) \union {n}
  BY <1>0 DEF Joins, Logged, Active
<1> QED BY <1>1, <1>2, <1>3

\* A lock that is created has the node that creates it as its user.
LEMMA CreateUsers ==
  ASSUME Shape, UsersInv, ~Reuse, NEW n \in Node, NEW k \in Key, NEW kind \in Kinds,
         CreateLock(n, k, kind)
  PROVE  UsersInv'
<1>1. PICK s \in Slot :
         /\ Shape' /\ n \in nodes /\ Joins(n, s) /\ EntryIs(s, NewLock(k, kind))
         /\ \A o \in nodes \ {n} : s \notin users[o]
         /\ using'[s] = {n} /\ \A x \in Slot \ {s} : using'[x] = using[x]
         /\ UNCHANGED <<nodes, call>>
  BY CreateLockStep DEF Idle
<1>2. /\ \A m \in Node : UserOf(m)'
      /\ \A x \in Slot \ {s} : UsedBy(x)' /\ CountOf(x)'
      /\ Logged(s)' = Logged(s) \union {n} /\ Active(s)' = Active(s) \union {n}
  BY <1>1, JoinedUsers DEF EntryIs
<1>3. sems'[s].refs = 1
  BY <1>1 DEF EntryIs, NewLock
<1>4. UsedBy(s)'
  <2>1. IsFiniteSet(Logged(s)) /\ Cardinality(Logged(s)) \in Nat
    BY UsersFinite
  <2>2. {n} \subseteq Logged(s)' /\ IsFiniteSet(Logged(s)')
    BY <1>2, <2>1, FS_AddElement
  <2>3. Cardinality({n}) = 1 /\ Cardinality({n}) <= Cardinality(Logged(s)')
    BY <2>2, FS_Singleton, FS_Subset
  <2> QED BY <1>1, <1>3, <2>2, <2>3 DEF UsedBy
<1>5. CountOf(s)'
  <2>1. Active(s)' = {n}
    BY <1>1, <1>2 DEF Active
  <2>2. Cardinality({n}) = 1
    BY FS_Singleton
  <2>3. Cardinality(Active(s)') = 1
    BY <2>1, <2>2, Zenon
  <2> QED BY <1>3, <2>3 DEF CountOf
<1> QED BY <1>2, <1>4, <1>5 DEF UsersInv

\* A lock that is got has one user more, unless the node was one.
LEMMA GetUsers ==
  ASSUME Shape, UsersInv, NEW n \in Node, NEW k \in Key, GetLock(n, k)
  PROVE  UsersInv'
<1>1. PICK s \in Slot :
         /\ Shape' /\ n \in nodes /\ Joins(n, s)
         /\ \A x \in Slot \ {s} : sems'[x] = sems[x]
         /\ SameLock(sems[s], sems'[s]) /\ sems'[s].refs = CountUser(sems[s].refs, n, s)
         /\ using'[s] = using[s] \union {n} /\ \A x \in Slot \ {s} : using'[x] = using[x]
         /\ UNCHANGED <<nodes, call>>
  BY GetLockStep DEF Idle
<1>2. /\ \A m \in Node : UserOf(m)'
      /\ \A x \in Slot \ {s} : UsedBy(x)' /\ CountOf(x)'
      /\ Logged(s)' = Logged(s) \union {n} /\ Active(s)' = Active(s) \union {n}
  BY <1>1, JoinedUsers
<1>3. /\ IsFiniteSet(Logged(s)) /\ IsFiniteSet(Active(s)) /\ Active(s) \subseteq Logged(s)
      /\ Cardinality(Logged(s)) \in Nat /\ Cardinality(Active(s)) \in Nat
      /\ sems[s].refs \in Int
  BY UsersFinite
<1>4. UsedBy(s) /\ CountOf(s) /\ (sems'[s].valid => sems[s].valid)
  BY <1>1 DEF UsersInv, SameLock
<1>5. CASE s \in users[n]
  <2>1. Logged(s)' = Logged(s) /\ Active(s)' = Active(s) /\ sems'[s].refs = sems[s].refs
    BY <1>1, <1>2, <1>5 DEF Logged, Active, CountUser
  <2>2. n \in Logged(s)
    BY <1>5 DEF Logged
  <2>3. UsedBy(s)' /\ CountOf(s)'
    BY <1>1, <1>4, <2>1, <2>2 DEF UsedBy, CountOf
  <2> QED BY <1>2, <2>3 DEF UsersInv
<1>6. CASE s \notin users[n]
  <2>1. n \notin Logged(s) /\ n \notin Active(s) /\ sems'[s].refs = sems[s].refs + 1
    BY <1>1, <1>6 DEF Logged, Active, CountUser
  <2>2. /\ Cardinality(Logged(s)') = Cardinality(Logged(s)) + 1
        /\ Cardinality(Active(s)') = Cardinality(Active(s)) + 1
    <3>1. /\ Cardinality(Logged(s) \union {n}) = Cardinality(Logged(s)) + 1
          /\ Cardinality(Active(s) \union {n}) = Cardinality(Active(s)) + 1
      BY <1>3, <2>1, FS_AddElement
    <3> QED BY <1>2, <3>1, Zenon
  <2>3. 0 <= sems'[s].refs /\ sems'[s].refs <= Cardinality(Logged(s)')
    BY <1>3, <1>4, <2>1, <2>2 DEF UsedBy
  <2>4. using'[s] \subseteq Logged(s)'
    BY <1>1, <1>2, <1>4 DEF UsedBy
  <2>5. CountOf(s)'
    BY <1>3, <1>4, <2>1, <2>2 DEF CountOf
  <2> QED BY <1>2, <2>3, <2>4, <2>5 DEF UsersInv, UsedBy
<1> QED BY <1>5, <1>6

\* A node that ends takes itself off the counts of the locks that exist; a lock
\* that another node uses stays.
LEMMA FinalizeUsers ==
  ASSUME Shape, UsersInv, NEW n \in Node, FinalizeNode(n)
  PROVE  /\ UsersInv'
         /\ \A s \in Slot : sems[s].valid /\ Active(s)' # {} => sems'[s].valid
<1>0. /\ Idle(n) /\ call[n] = NoCall /\ nodes' = nodes \ {n}
      /\ UNCHANGED <<member, users, down, handles, call, held, using>>
  BY FinalizeStep
<1>1. ASSUME NEW m \in Node PROVE UserOf(m)'
  BY <1>0 DEF UsersInv, UserOf
<1>2. ASSUME NEW s \in Slot
      PROVE  UsedBy(s)' /\ CountOf(s)' /\ (sems[s].valid /\ Active(s)' # {} => sems'[s].valid)
  <2>1. Logged(s)' = Logged(s) /\ using'[s] = using[s]
    BY <1>0 DEF Logged
  <2>2. /\ IsFiniteSet(Active(s)) /\ Cardinality(Logged(s)) \in Nat /\ Cardinality(Active(s)) \in Nat
        /\ Cardinality(Active(s)) <= Cardinality(Logged(s)) /\ sems[s].refs \in Int
    BY UsersFinite
  <2>3. UsedBy(s) /\ CountOf(s)
    BY DEF UsersInv
  <2>4. CASE ~sems[s].valid
    <3>1. sems'[s] = sems[s]
      BY <2>4, FinalizeStep
    <3> QED BY <2>1, <2>3, <2>4, <3>1 DEF UsedBy, CountOf
  <2>5. CASE sems[s].valid
    <3>1. /\ sems'[s].refs = sems[s].refs - IF s \in users[n] THEN 1 ELSE 0
          /\ sems'[s].valid <=> sems'[s].refs # 0
      BY <2>5, FinalizeStep
    <3>2. sems[s].refs = Cardinality(Active(s))
      BY <2>3, <2>5 DEF CountOf
    <3>3. /\ sems'[s].refs = Cardinality(Active(s)') /\ 0 <= sems'[s].refs
          /\ sems'[s].refs <= Cardinality(Logged(s)) /\ IsFiniteSet(Active(s)')
      <4>1. CASE s \in users[n]
        <5>1. n \in Active(s) /\ Active(s)' = Active(s) \ {n}
          BY <1>0, <4>1 DEF Active, Idle
        <5>2. Cardinality(Active(s) \ {n}) = Cardinality(Active(s)) - 1 /\ IsFiniteSet(Active(s) \ {n})
          BY <2>2, <5>1, FS_RemoveElement
        <5>3. Cardinality(Active(s)') = Cardinality(Active(s)) - 1 /\ IsFiniteSet(Active(s)')
          BY <5>1, <5>2, Zenon
        <5>4. Cardinality(Active(s)') \in Nat
          BY <5>3, FS_CardinalityType
        <5>5. sems'[s].refs = Cardinality(Active(s)) - 1
          BY <3>1, <3>2, <4>1
        <5> QED BY <2>2, <5>3, <5>4, <5>5
      <4>2. CASE s \notin users[n]
        <5>1. Active(s)' = Active(s)
          BY <1>0, <4>2 DEF Active
        <5>2. sems'[s].refs = Cardinality(Active(s))
          BY <2>2, <3>1, <3>2, <4>2
        <5> QED BY <2>2, <5>1, <5>2
      <4> QED BY <4>1, <4>2
    <3>4. UsedBy(s)' /\ CountOf(s)'
      BY <2>1, <2>3, <3>3 DEF UsedBy, CountOf
    <3>5. Active(s)' # {} => sems'[s].valid
      BY <3>1, <3>3, FS_EmptySet
    <3> QED BY <3>4, <3>5
  <2> QED BY <2>4, <2>5
<1> QED BY <1>1, <1>2 DEF UsersInv

\* A call is of a node that is logged.
LEMMA CallUsers ==
  ASSUME Shape, UsersInv, NEW n \in Node, CallLock(n) \/ CallUnlock(n) \/ CallDelete(n)
  PROVE  UsersInv'
<1>1. /\ Idle(n) /\ UNCHANGED <<sems, users, nodes, handles, using>>
      /\ \E c \in CallRec : CallStarts(n, c) /\ CallIs(n, c)
  BY CallStep
<1>2. \A s \in Slot : Logged(s)' = Logged(s) /\ Active(s)' = Active(s)
  BY <1>1 DEF Logged, Active
<1>3. ASSUME NEW m \in Node PROVE UserOf(m)'
  BY <1>1 DEF UsersInv, UserOf, CallIs, Others, CallStarts, Idle
<1>4. ASSUME NEW s \in Slot PROVE UsedBy(s)' /\ CountOf(s)'
  BY <1>1, <1>2 DEF UsersInv, UsedBy, CountOf
<1> QED BY <1>3, <1>4 DEF UsersInv

\* The sections and what they make of the users.
LEMMA SectionStep ==
  ASSUME Shape, NEW n \in Node, Enter(n) \/ LockStep(n)
  PROVE  Shape' /\ Quiet
BY EnterStep, CheckHandleStep, MutexLockStep, ReadLimitStep, TryAcquireStep, TakeSharesStep,
   AgainStep, MutexUnlockStep, ReleaseStep, DeleteStep DEF LockStep

\* Initially.
LEMMA InitShape ==
  ASSUME Init
  PROVE  Shape /\ UsersInv
<1>1. NoLock \in LockRec
  BY Names DEF NoLock, LockRec
<1>2. Shape
  <2>1. sems \in [Slot -> LockRec] /\ member \in [Slot -> Int]
    BY <1>1 DEF Init
  <2>2. users \in [Node -> SUBSET Slot] /\ handles \in [Node -> SUBSET Slot]
    BY DEF Init
  <2>3. held \in [Node -> [Slot -> Int]]
    BY DEF Init
  <2> QED BY <2>1, <2>2, <2>3 DEF Init, Shape
<1>3. \A n \in Node : UserOf(n)
  BY DEF Init, UserOf
<1>4. \A s \in Slot : UsedBy(s) /\ CountOf(s)
  <2> SUFFICES ASSUME NEW s \in Slot PROVE UsedBy(s) /\ CountOf(s)
    OBVIOUS
  <2>1. sems[s].refs = 0 /\ sems[s].valid = FALSE /\ using[s] = {}
    BY DEF Init, NoLock
  <2>2. Cardinality(Logged(s)) \in Nat
    BY <1>2, UsersFinite
  <2> QED BY <2>1, <2>2 DEF UsedBy, CountOf
<1> QED BY <1>2, <1>3, <1>4 DEF UsersInv

\* Every step keeps the shape of the state.
LEMMA ShapeStep ==
  ASSUME Shape, [Next]_vars
  PROVE  Shape'
<1>1. CASE UNCHANGED vars
  BY <1>1 DEF vars, Shape
<1>2. CASE Next
  BY <1>2, GetLockStep, CreateLockStep, FinalizeStep, CallStep, SectionStep DEF Next
<1> QED BY <1>1, <1>2

\* Every step keeps the account of the users.
LEMMA UsersStep ==
  ASSUME Shape, UsersInv, ~Reuse, [Next]_vars
  PROVE  UsersInv'
<1>1. CASE UNCHANGED vars
  BY <1>1 DEF vars, UsersInv, UserOf, UsedBy, CountOf, Logged, Active
<1>2. CASE Next
  BY <1>2, GetUsers, CreateUsers, FinalizeUsers, CallUsers, SectionStep, QuietUsers DEF Next
<1> QED BY <1>1, <1>2

\* A node that ends takes no lock away from another, when entries are only
\* created again after all their users have ended: for every number of locks.
THEOREM LocksKept ==
  ASSUME ~Reuse
  PROVE  Spec => KeptWhileUsed
<1>1. Init => Shape /\ UsersInv
  BY InitShape
<1>2. Shape /\ UsersInv /\ [Next]_vars => (Shape /\ UsersInv)'
  BY ShapeStep, UsersStep
<1>3. Shape /\ UsersInv /\ [Next]_vars
        => [\A s \in Slot : nodes' # nodes /\ sems[s].valid /\ using[s] \intersect nodes' # {}
                              => sems'[s].valid]_vars
  <2> SUFFICES ASSUME Shape, UsersInv, Next, nodes' # nodes, NEW s \in Slot, sems[s].valid,
                      using[s] \intersect nodes' # {}
               PROVE  sems'[s].valid
    OBVIOUS
  <2>1. PICK n \in Node :
          \/ \E k \in Key : GetLock(n, k) \/ \E kind \in Kinds : CreateLock(n, k, kind)
          \/ FinalizeNode(n) \/ (CallLock(n) \/ CallUnlock(n) \/ CallDelete(n))
          \/ (Enter(n) \/ LockStep(n))
    BY DEF Next
  <2>2. ~(\E k \in Key : GetLock(n, k)) /\ ~(\E k \in Key, kind \in Kinds : CreateLock(n, k, kind))
    BY DEF GetLock, CreateLock
  <2>3. ~(CallLock(n) \/ CallUnlock(n) \/ CallDelete(n))
    BY CallStep
  <2>4. ~(Enter(n) \/ LockStep(n))
    BY SectionStep DEF Quiet
  <2>5. FinalizeNode(n)
    BY <2>1, <2>2, <2>3, <2>4
  <2>6. Active(s)' # {}
    <3>1. users' = users /\ UsedBy(s)
      BY <2>5, FinalizeStep DEF UsersInv
    <3> QED BY <3>1 DEF UsedBy, Logged, Active
  <2> QED BY <2>5, <2>6, FinalizeUsers
<1> QED BY <1>1, <1>2, <1>3, PTL DEF Spec, KeptWhileUsed

-----------------------------------------------------------------------------
(* The sections, when all are under member 0.                              *)

\* As built only the lock of the first entry is called.
OneMember == FALSE \in Builds => Called[FALSE] \subseteq {0}

\* No step changes the build.
LEMMA BuildFixed ==
  ASSUME [Next]_vars
  PROVE  globalOnly' = globalOnly
<1>1. ASSUME NEW n \in Node, LockStep(n) PROVE globalOnly' = globalOnly
  <2>1. CheckHandle(n) \/ ReadLimit(n) \/ TryAcquire(n) \/ Again(n) => globalOnly' = globalOnly
    BY DEF CheckHandle, ReadLimit, TryAcquire, Again
  <2>2. MutexLock(n) \/ MutexUnlock(n) => globalOnly' = globalOnly
    BY DEF MutexLock, MutexUnlock
  <2>3. TakeShares(n) \/ Release(n) \/ Delete(n) => globalOnly' = globalOnly
    BY DEF TakeShares, Release, Delete
  <2> QED BY <1>1, <2>1, <2>2, <2>3 DEF LockStep
<1>2. ASSUME NEW n \in Node, CallLock(n) \/ CallUnlock(n) \/ CallDelete(n) \/ Enter(n)
      PROVE  globalOnly' = globalOnly
  BY <1>2 DEF CallLock, CallUnlock, CallDelete, Call, Enter
<1>3. ASSUME NEW n \in Node, NEW k \in Key, GetLock(n, k) \/ \E kind \in Kinds : CreateLock(n, k, kind)
      PROVE  globalOnly' = globalOnly
  BY <1>3 DEF GetLock, CreateLock
<1>4. ASSUME NEW n \in Node, FinalizeNode(n) PROVE globalOnly' = globalOnly
  BY <1>4 DEF FinalizeNode
<1> QED BY <1>1, <1>2, <1>3, <1>4 DEF Next, vars

\* The calls are of locks whose sections are under member 0.
LEMMA CalledMember ==
  ASSUME OneMember, globalOnly \in Builds, NEW s \in Called[globalOnly]
  PROVE  Member(s) = 0
BY LocksAssumption DEF OneMember, Member

\* A node that leaves its section, and one that goes on in it.
LEMMA LeavesSection ==
  ASSUME Shape, SectionInv, UNCHANGED globalOnly, NEW n \in Node, Inside(n),
         NEW m \in Slot, Member(m) = 0, Posted(m), Others(n),
         call'[n] = NoCall \/ (~call'[n].inside /\ call'[n].slot = call[n].slot)
  PROVE  SectionInv'
<1>1. member'[0] = member[0] + 1 /\ \A s \in Slot \ {0} : member'[s] = member[s]
  BY DEF Posted
<1>2. member[0] = 0
  BY DEF SectionInv
<1>3. \A o \in Node : ~Inside(o)'
  BY DEF SectionInv, Inside, Others
<1>4. \A o \in Node : call'[o] # NoCall => Member(call[o].slot)' = 0
  BY DEF SectionInv, Inside, Others, Member
<1> QED BY <1>1, <1>2, <1>3, <1>4 DEF SectionInv

\* A node that stays in its section: the sections are those before.
LEMMA StaysInside ==
  ASSUME Shape, SectionInv, UNCHANGED globalOnly, NEW n \in Node, Inside(n), UNCHANGED member,
         Others(n), call'[n] # NoCall, call'[n].inside, call'[n].slot = call[n].slot
  PROVE  SectionInv'
<1>1. \A o \in Node : Inside(o)' <=> Inside(o)
  BY DEF Inside, Others
<1>2. \A o \in Node : call'[o] # NoCall => Member(call[o].slot)' = 0
  BY DEF SectionInv, Inside, Others, Member
<1> QED BY <1>1, <1>2 DEF SectionInv

\* A node that enters finds nobody inside.
LEMMA EntersSection ==
  ASSUME Shape, SectionInv, UNCHANGED globalOnly, NEW n \in Node, Enter(n)
  PROVE  SectionInv'
<1> DEFINE m == Member(IF call[n].stage = "yield" THEN 0 ELSE call[n].slot)
<1>1. /\ call[n] # NoCall /\ call[n].inside = FALSE /\ Goes(n, call[n].stage, TRUE)
      /\ m \in Slot /\ member[m] > 0 /\ member'[m] = member[m] - 1
      /\ \A x \in Slot \ {m} : member'[x] = member[x]
  BY EnterStep
<1>2. m = 0
  BY <1>1, Names DEF SectionInv
<1> HIDE DEF m
<1>3. member[0] = 1 /\ \A o \in Node : ~Inside(o)
  BY <1>1, <1>2 DEF SectionInv
<1>4. member'[0] = 0 /\ \A s \in Slot \ {0} : member'[s] = 1
  BY <1>1, <1>2, <1>3 DEF SectionInv
<1>5. \A o \in Node : Inside(o)' <=> o = n
  <2>1. call'[n] # NoCall /\ call'[n].inside = TRUE
    BY <1>1, InCall DEF Goes, SameCall
  <2> QED BY <1>1, <1>3, <2>1 DEF Inside, Goes, Others
<1>6. \A o \in Node : call'[o] # NoCall => Member(call[o].slot)' = 0
  BY <1>1 DEF SectionInv, Goes, SameCall, Others, Member
<1> QED BY <1>4, <1>5, <1>6 DEF SectionInv

\* What a step in a section does to the semaphore: it gives back member 0, that
\* of its entry, or none.
Leaves(n) ==
  /\ Others(n)
  /\ call'[n] = NoCall \/ (~call'[n].inside /\ call'[n].slot = call[n].slot)
  /\ Posted(0) \/ Posted(call[n].slot)
Remains(n) ==
  /\ UNCHANGED member /\ Others(n) /\ call'[n] # NoCall /\ call'[n].inside
  /\ call'[n].slot = call[n].slot

\* The steps in a section.
LEMMA SectionMember ==
  ASSUME Shape, NEW n \in Node, LockStep(n)
  PROVE  Inside(n) /\ call[n].slot \in Slot /\ (Leaves(n) \/ Remains(n))
<1>1. \E x \in Stage \ {"idle"} : In(n, x)
  BY CheckHandleStep, MutexLockStep, ReadLimitStep, TryAcquireStep, TakeSharesStep,
     AgainStep, MutexUnlockStep, ReleaseStep, DeleteStep DEF LockStep, Stage
<1>2. Inside(n) /\ call[n].slot \in Slot
  BY <1>1, InSection DEF Inside
<1>3. \A c, d : SameCall(c, d) => d # NoCall /\ d.slot = c.slot
  BY InCall DEF SameCall
<1>4. Leaves(n) \/ Remains(n)
  <2>1. CASE CheckHandle(n)
    BY <1>3, <2>1, CheckHandleStep DEF Goes, CallIs, Leaves
  <2>2. CASE MutexLock(n)
    BY <1>3, <2>2, MutexLockStep DEF Goes, CallIs, Leaves
  <2>3. CASE ReadLimit(n)
    BY <1>3, <2>3, ReadLimitStep DEF Goes, Leaves
  <2>4. CASE TryAcquire(n)
    BY <1>3, <2>4, TryAcquireStep DEF Goes, Leaves, Remains
  <2>5. CASE TakeShares(n)
    BY <1>3, <2>5, TakeSharesStep DEF Goes, CallIs, Leaves
  <2>6. CASE Again(n)
    BY <1>3, <2>6, AgainStep DEF Goes, CallIs, Leaves, Remains
  <2>7. CASE MutexUnlock(n)
    BY <1>3, <2>7, MutexUnlockStep DEF Goes, CallIs, Leaves
  <2>8. CASE Release(n)
    BY <2>8, ReleaseStep DEF CallIs, Leaves
  <2>9. CASE Delete(n)
    BY <2>9, DeleteStep DEF CallIs, Leaves
  <2> QED BY <2>1, <2>2, <2>3, <2>4, <2>5, <2>6, <2>7, <2>8, <2>9 DEF LockStep
<1> QED BY <1>2, <1>4

\* Every step keeps the nodes apart.
LEMMA SectionsApart ==
  ASSUME Shape, SectionInv, OneMember, [Next]_vars
  PROVE  SectionInv'
<1>0. UNCHANGED globalOnly
  BY BuildFixed
<1>1. CASE UNCHANGED <<member, call>>
  BY <1>0, <1>1 DEF SectionInv, Inside, Member
<1>2. CASE Next
  <2>1. PICK n \in Node :
          \/ \E k \in Key : GetLock(n, k) \/ \E kind \in Kinds : CreateLock(n, k, kind)
          \/ FinalizeNode(n) \/ (CallLock(n) \/ CallUnlock(n) \/ CallDelete(n))
          \/ Enter(n) \/ LockStep(n)
    BY <1>2 DEF Next
  <2>2. CASE \/ \E k \in Key : GetLock(n, k) \/ \E kind \in Kinds : CreateLock(n, k, kind)
             \/ FinalizeNode(n)
    BY <1>1, <2>2 DEF GetLock, CreateLock, FinalizeNode
  <2>3. CASE CallLock(n) \/ CallUnlock(n) \/ CallDelete(n)
    <3>1. UNCHANGED member /\ call[n] = NoCall
      BY <2>3, CallStep
    <3>2. PICK c \in CallRec : CallStarts(n, c) /\ CallIs(n, c)
      BY <2>3, CallStep
    <3>3. \A o \in Node : Inside(o)' <=> Inside(o)
      BY <3>1, <3>2 DEF CallStarts, CallIs, Others, Inside
    <3>4. Member(c.slot) = 0
      BY <3>2, CalledMember DEF SectionInv, CallStarts
    <3>5. \A o \in Node : call'[o] # NoCall => Member(call[o].slot)' = 0
      BY <1>0, <3>2, <3>4 DEF SectionInv, CallIs, Others, Member
    <3> QED BY <1>0, <3>1, <3>3, <3>5 DEF SectionInv
  <2>4. CASE Enter(n)
    BY <1>0, <2>4, EntersSection
  <2>5. CASE LockStep(n)
    <3>1. Inside(n) /\ call[n].slot \in Slot /\ (Leaves(n) \/ Remains(n))
      BY <2>5, SectionMember
    <3>2. Member(call[n].slot) = 0 /\ Member(0) = 0 /\ 0 \in Slot
      BY <3>1, Names DEF SectionInv, Inside
    <3>3. CASE Leaves(n)
      BY <1>0, <3>1, <3>2, <3>3, LeavesSection DEF Leaves
    <3>4. CASE Remains(n)
      BY <1>0, <3>1, <3>4, StaysInside DEF Remains
    <3> QED BY <3>1, <3>3, <3>4
  <2> QED BY <2>1, <2>2, <2>3, <2>4, <2>5
<1> QED BY <1>1, <1>2 DEF vars

\* Initially nobody is in a section.
LEMMA InitSections ==
  ASSUME Init
  PROVE  SectionInv
BY Names DEF Init, SectionInv, Inside, NoCall

\* "Anytime we read or write the database, we must be in a critical section":
\* two nodes are never in a section of the same entry, however many entries
\* there are, when all sections are under member 0 (mrapi_impl_spec.c:156-201).
THEOREM SectionsExclusive ==
  ASSUME OneMember
  PROVE  Spec => []SectionExclusive
<1>1. Init => Shape /\ SectionInv
  BY InitShape, InitSections
<1>2. Shape /\ SectionInv /\ [Next]_vars => (Shape /\ SectionInv)'
  BY SectionsApart, ShapeStep
<1>3. Shape /\ SectionInv => SectionExclusive
  BY DEF SectionInv, SectionExclusive, Inside
<1> QED BY <1>1, <1>2, <1>3, PTL DEF Spec

-----------------------------------------------------------------------------
(* The other entries, as built.                                            *)

\* A node that is in a section of the entry is at the check of its handle.
\* Once a node has left the check nobody enters any more: the member of the
\* entry is taken and stays so.
StuckAt(s) ==
  /\ \A n \in Node : held[n][s] = 0
  /\ \A n \in Node : call[n] # NoCall /\ call[n].slot = s =>
       call[n].stage = "handle" \/ (call[n].stage # "yield" /\ ~call[n].inside /\ member[s] <= 0)
  /\ \A n, o \in Node : Inside(n) /\ Inside(o) /\ call[n].slot = s /\ call[o].slot = s => n = o
  /\ \A n \in Node : Inside(n) /\ call[n].slot = s => member[s] <= 0
  /\ member[s] <= 1
StuckInv == ~globalOnly => \A s \in Slot \ {0} : StuckAt(s)

\* A step keeps it.
LEMMA StuckStep ==
  ASSUME Shape, [Next]_vars, ~globalOnly, NEW s \in Slot \ {0}, StuckAt(s)
  PROVE  StuckAt(s)'
<1>0. \A x \in Slot : Member(x) = x
  BY DEF Member
<1>1. CASE UNCHANGED vars
  BY <1>1 DEF vars, StuckAt, Inside
<1>2. CASE Next
  <2>1. PICK n \in Node :
          \/ \E k \in Key : GetLock(n, k) \/ \E kind \in Kinds : CreateLock(n, k, kind)
          \/ FinalizeNode(n) \/ (CallLock(n) \/ CallUnlock(n) \/ CallDelete(n))
          \/ Enter(n) \/ LockStep(n)
    BY <1>2 DEF Next
  <2>2. CASE UNCHANGED <<member, call>> /\ \A o \in Node : held'[o][s] \in {0, held[o][s]}
    BY <2>2 DEF StuckAt, Inside
  <2>3. CASE \E k \in Key : GetLock(n, k)
    <3>1. UNCHANGED <<member, call, held>>
      BY <2>3, GetLockStep
    <3> QED BY <2>2, <3>1
  <2>4. CASE \E k \in Key, kind \in Kinds : CreateLock(n, k, kind)
    <3>1. UNCHANGED <<member, call>> /\ \E x \in Slot : NobodyIs(x)
      BY <2>4, CreateLockStep
    <3> QED BY <2>2, <3>1 DEF NobodyIs
  <2>5. CASE FinalizeNode(n)
    <3>1. UNCHANGED <<member, call, held>>
      BY <2>5, FinalizeStep
    <3> QED BY <2>2, <3>1
  <2>6. CASE CallLock(n) \/ CallUnlock(n) \/ CallDelete(n)
    <3>1. UNCHANGED <<member, held>>
      BY <2>6, CallStep
    <3>2. PICK c \in CallRec : c.stage = "handle" /\ c.inside = FALSE /\ CallIs(n, c)
      BY <2>6, CallStep DEF CallStarts
    <3> QED BY <3>1, <3>2 DEF StuckAt, CallIs, Others, Inside
  <2>7. CASE Enter(n)
    <3> DEFINE y == IF call[n].stage = "yield" THEN 0 ELSE call[n].slot
    <3>1. /\ call[n] # NoCall /\ call[n] \in CallRec /\ Goes(n, call[n].stage, TRUE) /\ UNCHANGED held
          /\ member[Member(y)] > 0 /\ member' \in [Slot -> Int]
          /\ member'[Member(y)] = member[Member(y)] - 1
          /\ \A x \in Slot \ {Member(y)} : member'[x] = member[x]
      BY <2>7, EnterStep
    <3>2. y \in Slot /\ Member(y) = y /\ member[s] \in Int
      BY <1>0, <3>1, Names DEF CallRec, Shape
    <3>3. call'[n].slot = call[n].slot /\ call'[n].stage = call[n].stage /\ Others(n)
      BY <3>1 DEF Goes, SameCall
    <3>4. CASE call[n].slot # s
      <4>1. y # s
        BY <3>4
      <4>2. member'[s] = member[s]
        BY <3>1, <3>2, <4>1
      <4> QED BY <3>1, <3>3, <3>4, <4>2 DEF StuckAt, Others, Inside
    <3>5. CASE call[n].slot = s
      <4>1. call[n].stage = "handle"
        <5>1. call[n].stage # "handle" => y = s /\ member[s] <= 0
          BY <3>1, <3>5 DEF StuckAt
        <5> QED BY <3>1, <3>2, <5>1
      <4>2. y = s
        BY <3>5, <4>1
      <4>3. member[s] = 1 /\ member'[s] = 0
        BY <3>1, <3>2, <4>2 DEF StuckAt
      <4>4. \A o \in Node : ~(Inside(o) /\ call[o].slot = s)
        BY <4>3 DEF StuckAt
      <4> QED BY <3>1, <3>3, <4>1, <4>3, <4>4 DEF StuckAt, Others, Inside
    <3> QED BY <3>4, <3>5
  <2>8. CASE LockStep(n)
    <3>1. Inside(n) /\ call[n].slot \in Slot /\ (Leaves(n) \/ Remains(n))
      BY <2>8, SectionMember
    <3>2. CASE call[n].slot = s
      <4>1. call[n].stage = "handle" /\ member[s] <= 0
        BY <3>1, <3>2 DEF StuckAt, Inside
      <4>2. CheckHandle(n)
        BY <2>8, <4>1 DEF LockStep, MutexLock, ReadLimit, TryAcquire, TakeShares, Again, MutexUnlock,
           Release, Delete, In
      <4>3. /\ Posted(0) /\ UNCHANGED held
            /\ Goes(n, FirstSection(call[n]), FALSE) \/ CallIs(n, NoCall)
        BY <4>2, CheckHandleStep
      <4>4. member'[s] = member[s]
        BY <1>0, <4>3, Names DEF Posted
      <4>5. FirstSection(call[n]) # "yield"
        <5>1. call[n] \in CallRec
          BY <3>1, InCall DEF Inside
        <5> QED BY <5>1 DEF FirstSection, CallRec
      <4>6. Others(n) /\ ~Inside(n)'
        BY <4>3 DEF Goes, CallIs, Inside
      <4> QED BY <4>1, <4>3, <4>4, <4>5, <4>6 DEF StuckAt, Goes, CallIs, Others, Inside
    <3>3. CASE call[n].slot # s
      <4>1. member'[s] = member[s]
        BY <1>0, <3>1, <3>3, Names DEF Leaves, Remains, Posted
      <4>2. \A o \in Node : held'[o][s] \in {0, held[o][s]}
        <5>1. CASE CheckHandle(n) \/ ReadLimit(n) \/ TryAcquire(n) \/ Again(n)
          BY <5>1, CheckHandleStep, ReadLimitStep, TryAcquireStep, AgainStep
        <5>2. CASE MutexLock(n)
          BY <3>1, <3>3, <5>2, MutexLockStep DEF HeldIs
        <5>3. CASE MutexUnlock(n)
          BY <3>1, <3>3, <5>3, MutexUnlockStep DEF HeldIs
        <5>4. CASE TakeShares(n)
          BY <3>1, <3>3, <5>4, TakeSharesStep DEF HeldIs
        <5>5. CASE Release(n)
          BY <3>1, <3>3, <5>5, ReleaseStep DEF HeldIs
        <5>6. CASE Delete(n)
          BY <3>1, <3>3, <5>6, DeleteStep DEF NobodyIs
        <5> QED BY <2>8, <5>1, <5>2, <5>3, <5>4, <5>5, <5>6 DEF LockStep
      <4>3. Others(n) /\ (call'[n] = NoCall \/ call'[n].slot # s)
        BY <3>1, <3>3 DEF Leaves, Remains
      <4> QED BY <4>1, <4>2, <4>3 DEF StuckAt, Others, Inside
    <3> QED BY <3>2, <3>3
  <2> QED BY <2>1, <2>3, <2>4, <2>5, <2>6, <2>7, <2>8
<1> QED BY <1>1, <1>2

\* Of the entries other than the first: nothing is granted, nobody gets beyond
\* the check of the handle, and no two nodes are in it.
OnlyFirstGranted ==
  ~globalOnly => \A s \in Slot \ {0}, n, o \in Node :
    /\ held[n][s] = 0
    /\ call[n] # NoCall /\ call[n].inside /\ call[n].slot = s => call[n].stage = "handle"
    /\ n # o => ~(Inside(n) /\ Inside(o) /\ call[n].slot = s /\ call[o].slot = s)

\* As built no node is ever granted a lock of an entry other than the first: the
\* check of the handle takes the member of the entry and gives back member 0
\* (mrapi_impl_spec.c:491, 511), so that the section that locks waits for ever.
\* For every table and all calls.
THEOREM OthersNeverGranted ==
  Spec => []OnlyFirstGranted
<1>1. Init => Shape /\ StuckInv
  <2> SUFFICES ASSUME Init, NEW s \in Slot \ {0} PROVE StuckAt(s)
    BY InitShape DEF StuckInv
  <2>1. member[s] = 1 /\ \A n \in Node : call[n] = NoCall /\ held[n][s] = 0
    BY DEF Init
  <2> QED BY <2>1 DEF StuckAt, Inside
<1>2. Shape /\ StuckInv /\ [Next]_vars => (Shape /\ StuckInv)'
  <2> SUFFICES ASSUME Shape, StuckInv, [Next]_vars, ~globalOnly', NEW s \in Slot \ {0}
               PROVE  StuckAt(s)'
    BY ShapeStep DEF StuckInv
  <2>1. ~globalOnly
    BY BuildFixed
  <2>2. StuckAt(s)
    BY <2>1 DEF StuckInv
  <2> QED BY <2>1, <2>2, StuckStep
<1>3. Shape /\ StuckInv => OnlyFirstGranted
  BY DEF StuckInv, StuckAt, OnlyFirstGranted, Inside
<1> QED BY <1>1, <1>2, <1>3, PTL DEF Spec

-----------------------------------------------------------------------------
(* The locks, when all sections are under member 0.                        *)

LockState == EntryInv /\ CallsInv /\ SharesInv /\ HeldInv /\ BeyondInv

\* What holds of the call of a node in a state that is not down.
CallFits(n, c) ==
  c # NoCall =>
    /\ CallOk(c, sems[c.slot], held[n][c.slot])
    /\ c.stage # "handle" => BeyondOk(n, c, sems[c.slot])

\* A step that changes neither the entries nor what the nodes hold.
LEMMA SameEntries ==
  ASSUME Shape, LockState, NEW n \in Node, UNCHANGED <<sems, held, down, users>>, Others(n),
         CallFits(n, call'[n])
  PROVE  LockState'
<1>1. EntryInv' /\ HeldInv'
  BY DEF LockState, EntryInv, HeldInv
<1>2. SharesInv'
  BY DEF LockState, SharesInv, SharesOk
<1>3. CallsInv'
  BY DEF LockState, CallsInv, CallFits, Others
<1>4. BeyondInv'
  BY DEF LockState, BeyondInv, CallFits, Others
<1> QED BY <1>1, <1>2, <1>3, <1>4 DEF LockState

\* A step of a node that changes one entry and what the node holds of it.
LEMMA OneEntry ==
  ASSUME Shape, Shape', LockState, ~down, NEW n \in Node, NEW s \in Slot, NEW v,
         UNCHANGED <<down, users>>, HeldIs(n, s, v), call'[n] = NoCall, Others(n),
         \A x \in Slot \ {s} : sems'[x] = sems[x],
         sems'[s].type = sems[s].type, sems'[s].limit = sems[s].limit, sems'[s].key = sems[s].key,
         EntryOk(sems'[s]), SharesOk(s)', v \in (0..MaxDepth) \union Share,
         \A o \in Node \ {n} : call[o] # NoCall /\ call[o].slot = s /\ call[o].stage # "handle"
                                 => BeyondOk(o, call[o], sems'[s])
  PROVE  LockState'
<1>1. EntryInv'
  BY DEF LockState, EntryInv
<1>2. HeldInv'
  BY DEF LockState, HeldInv, HeldIs
<1>3. SharesInv'
  <2>1. ASSUME NEW x \in Slot \ {s} PROVE SharesOk(x)'
    <3>1. SharesOk(x) /\ \A o \in Node : held'[o][x] = held[o][x]
      BY DEF LockState, SharesInv, HeldIs
    <3> QED BY <3>1 DEF SharesOk
  <2> QED BY <2>1 DEF SharesInv
<1>4. ASSUME NEW o \in Node, call'[o] # NoCall
      PROVE  /\ o # n /\ call'[o] = call[o] /\ call[o].slot \in Slot
             /\ CallOk(call[o], sems[call[o].slot], held[o][call[o].slot])
             /\ held'[o][call[o].slot] = held[o][call[o].slot]
             /\ sems'[call[o].slot].type = sems[call[o].slot].type
             /\ sems'[call[o].slot].limit = sems[call[o].slot].limit
  <2>1. o # n /\ call'[o] = call[o]
    BY <1>4 DEF Others
  <2>2. call[o] \in CallRec
    BY <1>4, <2>1, InCall
  <2>3. call[o].slot \in Slot
    BY <2>2 DEF CallRec
  <2>4. CallOk(call[o], sems[call[o].slot], held[o][call[o].slot])
    BY <1>4, <2>1 DEF LockState, CallsInv
  <2>5. held'[o][call[o].slot] = held[o][call[o].slot]
    BY <2>1, <2>3 DEF HeldIs
  <2> QED BY <2>1, <2>3, <2>4, <2>5
<1>5. CallsInv'
  <2>1. ASSUME NEW o \in Node, call'[o] # NoCall
        PROVE  CallOk(call'[o], sems'[call'[o].slot], held'[o][call'[o].slot])
    <3> DEFINE c == call[o]
               l == sems[c.slot]
               m == sems'[c.slot]
               h == held[o][c.slot]
    <3>1. call'[o] = c /\ CallOk(c, l, h) /\ held'[o][c.slot] = h /\ m.type = l.type /\ m.limit = l.limit
      BY <1>4, <2>1
    <3> HIDE DEF c, l, m, h
    <3>2. CallOk(c, m, h)
      BY <3>1 DEF CallOk
    <3> QED BY <3>1, <3>2 DEF c, l, m, h
  <2> QED BY <2>1 DEF CallsInv
<1>6. BeyondInv'
  <2>1. ASSUME NEW o \in Node, call'[o] # NoCall, call'[o].stage # "handle"
        PROVE  BeyondOk(o, call'[o], sems'[call'[o].slot])
    <3>1. CASE call[o].slot = s
      BY <1>4, <2>1, <3>1
    <3>2. CASE call[o].slot # s
      <4>1. BeyondOk(o, call[o], sems[call[o].slot])
        BY <1>4, <2>1 DEF LockState, BeyondInv
      <4> QED BY <1>4, <2>1, <3>2, <4>1
    <3> QED BY <3>1, <3>2
  <2> QED BY <2>1 DEF BeyondInv
<1> QED BY <1>1, <1>2, <1>3, <1>5, <1>6 DEF LockState

\* A node in a section: what it knows, and what the others are at.
LEMMA AtSection ==
  ASSUME Shape, UsersInv, SectionInv, LockState, NEW n \in Node, NEW x \in Stage \ {"idle"},
         In(n, x)
  PROVE  LET c == call[n]
             s == c.slot
             l == sems[s]
         IN
         /\ c # NoCall /\ c \in CallRec /\ s \in Slot /\ l \in LockRec /\ ~down /\ c.stage = x
         /\ c.inside = TRUE
         /\ EntryOk(l) /\ l.key # None /\ l.limit \in Share /\ (l.type = "mutex" => l.limit = 1)
         /\ c.num \in Share /\ held[n][s] \in (0..MaxDepth) \union Share
         /\ CallOk(c, l, held[n][s]) /\ SharesOk(s)
         /\ x # "handle" => BeyondOk(n, c, l)
         /\ \A o \in Node \ {n} : call[o] # NoCall => call[o].stage # "take"
         /\ \A o \in Node \ {n} : call[o] # NoCall /\ call[o].slot = s /\ call[o].stage # "handle"
                                    => BeyondOk(o, call[o], l)
<1> DEFINE c == call[n]
           s == c.slot
           l == sems[s]
<1>1. /\ c # NoCall /\ c \in CallRec /\ s \in Slot /\ l \in LockRec /\ ~down /\ c.stage = x
      /\ c.inside = TRUE
  BY InSection
<1>2. EntryOk(l) /\ l.key # None
  BY <1>1 DEF LockState, EntryInv, UsersInv, UserOf
<1>3. l.limit \in Share /\ (l.type = "mutex" => l.limit = 1)
  BY <1>2 DEF EntryOk
<1>4. CallOk(c, l, held[n][s])
  BY <1>1 DEF LockState, CallsInv
<1>5. c.num \in Share
  <2>1. 1 \in Share
    BY Names
  <2> QED BY <1>3, <1>4, <2>1 DEF CallOk
<1>6. held[n][s] \in (0..MaxDepth) \union Share /\ SharesOk(s)
  BY <1>1 DEF LockState, HeldInv, SharesInv
<1>7. x # "handle" => BeyondOk(n, c, l)
  BY <1>1 DEF LockState, BeyondInv
<1>8. ASSUME NEW o \in Node \ {n}, call[o] # NoCall PROVE call[o].stage # "take"
  <2>1. ~Inside(o)
    BY <1>1 DEF SectionInv, Inside
  <2>2. CallOk(call[o], sems[call[o].slot], held[o][call[o].slot])
    BY <1>8 DEF LockState, CallsInv
  <2> QED BY <1>8, <2>1, <2>2 DEF Inside, CallOk
<1>9. \A o \in Node \ {n} : call[o] # NoCall /\ call[o].slot = s /\ call[o].stage # "handle"
                              => BeyondOk(o, call[o], l)
  BY <1>1 DEF LockState, BeyondInv
<1> HIDE DEF c, s, l
<1> QED BY <1>1, <1>2, <1>3, <1>4, <1>5, <1>6, <1>7, <1>8, <1>9 DEF c, s, l

\* Entering a section changes nothing of a lock.
LEMMA EnterLocks ==
  ASSUME Shape, LockState, NEW n \in Node, Enter(n)
  PROVE  LockState'
<1>1. /\ ~down /\ call[n] # NoCall /\ call[n] \in CallRec
      /\ UNCHANGED <<sems, users, down, held>>
      /\ Goes(n, call[n].stage, TRUE) /\ call'[n].num = call[n].num
  BY EnterStep
<1>2. /\ CallOk(call[n], sems[call[n].slot], held[n][call[n].slot])
      /\ call[n].stage # "handle" => BeyondOk(n, call[n], sems[call[n].slot])
  BY <1>1 DEF LockState, CallsInv, BeyondInv
<1>3. CallFits(n, call'[n])
  BY <1>1, <1>2 DEF CallFits, CallOk, BeyondOk, Goes, SameCall
<1> QED BY <1>1, <1>3, SameEntries DEF Goes

\* The check of the handle.
LEMMA CheckHandleLocks ==
  ASSUME Shape, UsersInv, SectionInv, LockState, NEW n \in Node, CheckHandle(n)
  PROVE  LockState'
<1> DEFINE c == call[n]
           l == sems[c.slot]
           f == FirstSection(c)
<1>1. /\ In(n, "handle") /\ UNCHANGED <<sems, users, nodes, down, handles, held, using>>
      /\ \/ l.valid /\ Goes(n, f, FALSE) /\ call'[n].num = call[n].num
         \/ CallIs(n, NoCall)
      /\ "handle" \in Stage \ {"idle"}
  BY CheckHandleStep DEF Stage
<1>2. c \in CallRec /\ CallOk(c, l, held[n][c.slot]) /\ c.stage = "handle"
  BY <1>1, AtSection
<1>3. CASE CallIs(n, NoCall)
  BY <1>1, <1>3, SameEntries DEF CallIs, CallFits
<1>4. CASE l.valid /\ Goes(n, f, FALSE) /\ call'[n].num = call[n].num
  <2>1. /\ c.op = "delete" => f = "delete"
        /\ c.op # "delete" => c.op \in {"lock", "unlock"}
        /\ c.op # "delete" /\ c.type = "mutex" => f = IF c.op = "lock" THEN "mutex lock" ELSE "mutex unlock"
        /\ c.op # "delete" /\ c.type # "mutex" /\ c.mode = "writer" => f = "limit"
        /\ c.op # "delete" /\ c.type # "mutex" /\ c.mode # "writer"
             => f = IF c.op = "lock" THEN "acquire" ELSE "release"
    <3>1. c.mode = "writer" => c.type # "mutex"
      BY <1>2 DEF CallOk
    <3>2. c.op \in {"lock", "unlock", "delete"}
      BY <1>2 DEF CallRec
    <3> HIDE DEF c
    <3> QED BY <3>1, <3>2 DEF FirstSection
  <2>2. /\ call'[n].op = c.op /\ call'[n].slot = c.slot /\ call'[n].type = c.type
        /\ call'[n].mode = c.mode /\ call'[n].stage = f /\ call'[n].num = c.num
    BY <1>4 DEF Goes, SameCall
  <2> HIDE DEF f
  <2>3. CallOk(call'[n], l, held[n][c.slot])
    BY <1>2, <2>1, <2>2 DEF CallOk
  <2>4. BeyondOk(n, call'[n], l)
    BY <1>2, <1>4, <2>1, <2>2 DEF BeyondOk, CallOk
  <2>5. CallFits(n, call'[n])
    BY <2>2, <2>3, <2>4 DEF CallFits
  <2> QED BY <1>1, <1>4, <2>5, SameEntries DEF Goes
<1> QED BY <1>1, <1>3, <1>4

\* A mutex has one share.
LEMMA MutexOwner ==
  ASSUME NEW l \in LockRec, l.limit = 1, NEW n
  PROVE  /\ Owned(l, n) = IF l.holder[1] = n THEN {1} ELSE {}
         /\ Cardinality({1}) = 1
<1>1. 1..l.limit = {1}
  OBVIOUS
<1> QED BY <1>1, FS_Singleton DEF Owned

\* The shares depend on the holders alone.
LEMMA OwnedSame ==
  ASSUME NEW l, NEW m, m.holder = l.holder, m.limit = l.limit, NEW n
  PROVE  Owned(m, n) = Owned(l, n)
BY DEF Owned

\* The key of a recursive mutex goes with the depth of its locks.
LEMMA KeyLocks ==
  ASSUME Shape, Shape', UsersInv, SectionInv, LockState, NEW n \in Node, NEW x \in Stage \ {"idle"},
         In(n, x), x # "handle", NEW s \in Slot, s = call[n].slot, sems[s].type = "mutex",
         LockedBy(n, s), NEW d \in {1, -1}, KeyIs(s, sems[s].lockKey + d),
         HeldIs(n, s, held[n][s] + d), held[n][s] + d \in 1..MaxDepth,
         CallIs(n, NoCall), UNCHANGED <<down, users>>
  PROVE  LockState'
<1> DEFINE c == call[n]
           l == sems[s]
           m == sems'[s]
           v == held[n][s]
<1>1. /\ c # NoCall /\ c \in CallRec /\ s \in Slot /\ l \in LockRec /\ ~down
      /\ EntryOk(l) /\ l.key # None /\ l.limit = 1 /\ SharesOk(s) /\ BeyondOk(n, c, l)
      /\ v \in (0..MaxDepth) \union Share
  BY AtSection
<1>2. \A o \in Node \ {n} : call[o] # NoCall /\ call[o].slot = s /\ call[o].stage # "handle"
                              => BeyondOk(o, call[o], l)
  BY AtSection
<1>3. /\ Owned(l, n) = {1} /\ Owned(l, None) = {}
      /\ \A o \in Node \ {n} : Owned(l, o) = {}
  BY <1>1, MutexOwner, Names DEF LockedBy
<1>4. l.valid /\ v > 0 /\ l.lockKey = v - 1
  BY <1>1, <1>3 DEF BeyondOk, SharesOk, GrantedOk
<1>5. /\ m \in LockRec /\ SameLock(l, m) /\ m.lockKey = l.lockKey + d
      /\ m.numLocks = l.numLocks /\ m.holder = l.holder /\ \A y \in Slot \ {s} : sems'[y] = sems[y]
  BY <1>1 DEF KeyIs
<1>6. \A o : Owned(m, o) = Owned(l, o)
  BY <1>5, OwnedSame DEF SameLock
<1>7. /\ v \in Nat /\ v + d \in 1..MaxDepth /\ MaxDepth \in Nat
      /\ held'[n][s] = v + d /\ \A o \in Node \ {n} : held'[o][s] = held[o][s]
  <2>1. held'[n][s] = v + d /\ \A o \in Node \ {n} : held'[o][s] = held[o][s]
    BY <1>1 DEF HeldIs
  <2>2. v + d \in 1..MaxDepth
    OBVIOUS
  <2> HIDE DEF v
  <2>3. v \in Nat
    BY <1>1, Names
  <2> QED BY <2>1, <2>2, <2>3, Names
<1>8. m.lockKey = v + d - 1 /\ m.lockKey \in 0..MaxDepth
  <2>1. m.lockKey = (v - 1) + d
    BY <1>4, <1>5
  <2> HIDE DEF v, m
  <2> QED BY <1>7, <2>1
<1>9. EntryOk(m)
  BY <1>1, <1>5, <1>8 DEF EntryOk, SameLock
<1> HIDE DEF v, l, m
<1>10. SharesOk(s)'
  <2>1. m.numLocks = m.limit - Cardinality(Owned(m, None))
    BY <1>1, <1>5, <1>6 DEF SharesOk, SameLock, l
  <2>2. GrantedOk(m, n, held'[n][s])
    <3> DEFINE h == held'[n][s]
    <3>1. h = v + d /\ h > 0 /\ m.lockKey = h - 1
      <4>1. h = v + d /\ m.lockKey = v + d - 1
        BY <1>7, <1>8
      <4>2. v \in Int /\ d \in Int /\ v + d \in 1..MaxDepth /\ MaxDepth \in Int
        BY <1>7
      <4> HIDE DEF h
      <4>3. h > 0
        BY <4>1, <4>2
      <4>4. m.lockKey = h - 1
        BY <4>1, <4>2
      <4> QED BY <4>1, <4>3, <4>4
    <3>2. m.type = "mutex" /\ Owned(m, n) # {}
      BY <1>3, <1>5, <1>6 DEF SameLock, l
    <3> HIDE DEF h
    <3>3. GrantedOk(m, n, h)
      BY <3>1, <3>2 DEF GrantedOk
    <3> QED BY <3>3 DEF h
  <2>3. ASSUME NEW o \in Node \ {n} PROVE GrantedOk(m, o, held'[o][s])
    <3>1. GrantedOk(l, o, held[o][s])
      BY <1>1, <1>4 DEF SharesOk, l
    <3> QED BY <1>3, <1>5, <1>6, <1>7, <3>1 DEF GrantedOk, SameLock, l
  <2>4. \A o \in Node : GrantedOk(m, o, held'[o][s])
    BY <2>2, <2>3
  <2>5. Owned(m, None) = {}
    BY <1>3, <1>6
  <2> QED BY <2>1, <2>4, <2>5 DEF SharesOk, m
<1>11. ASSUME NEW o \in Node \ {n}, call[o] # NoCall, call[o].slot = s, call[o].stage # "handle"
       PROVE  BeyondOk(o, call[o], m)
  <2>1. BeyondOk(o, call[o], l) /\ call[o].stage # "take"
    <3>1. call[o].stage # "take"
      BY <1>11, AtSection
    <3> QED BY <1>2, <1>11, <3>1
  <2> QED BY <1>3, <1>4, <1>5, <1>6, <2>1 DEF BeyondOk, SameLock
<1>12. v + d \in (0..MaxDepth) \union Share
  BY <1>7
<1>13. /\ sems'[s].type = sems[s].type /\ sems'[s].limit = sems[s].limit
       /\ sems'[s].key = sems[s].key /\ call'[n] = NoCall /\ Others(n)
       /\ HeldIs(n, s, v + d) /\ EntryOk(sems'[s])
  BY <1>5, <1>9 DEF SameLock, CallIs, l, m, v
<1> DEFINE w == v + d
<1> HIDE DEF w
<1>14. w \in (0..MaxDepth) \union Share /\ HeldIs(n, s, w)
  BY <1>12, <1>13 DEF w
<1>15. /\ ~down /\ s \in Slot /\ UNCHANGED <<down, users>> /\ EntryOk(sems'[s]) /\ SharesOk(s)'
       /\ \A y \in Slot \ {s} : sems'[y] = sems[y]
       /\ \A o \in Node \ {n} : call[o] # NoCall /\ call[o].slot = s /\ call[o].stage # "handle"
                                 => BeyondOk(o, call[o], sems'[s])
  BY <1>1, <1>5, <1>9, <1>10, <1>11 DEF m
<1>16. call'[n] = NoCall /\ Others(n)
       /\ sems'[s].type = sems[s].type /\ sems'[s].limit = sems[s].limit /\ sems'[s].key = sems[s].key
  BY <1>13
<1> QED BY <1>14, <1>15, <1>16, OneEntry

\* Locking a mutex.
LEMMA MutexLockLocks ==
  ASSUME Shape, Shape', UsersInv, SectionInv, LockState, NEW n \in Node, MutexLock(n)
  PROVE  LockState'
<1> DEFINE c == call[n]
           s == c.slot
           l == sems[s]
           v == held[n][s]
<1>1. /\ In(n, "mutex lock") /\ UNCHANGED <<users, nodes, down, handles, using>>
      /\ \/ /\ LockedBy(n, s) /\ CallIs(n, NoCall)
            /\ \/ KeyIs(s, l.lockKey + 1) /\ HeldIs(n, s, v + 1)
               \/ UNCHANGED <<sems, held>>
         \/ /\ ~LockedBy(n, s) /\ Goes(n, "acquire", FALSE) /\ call'[n].num = c.num
            /\ UNCHANGED <<sems, held>>
      /\ "mutex lock" \in Stage \ {"idle"}
  BY MutexLockStep DEF Stage
<1>2. /\ c \in CallRec /\ c.stage = "mutex lock" /\ CallOk(c, l, v) /\ BeyondOk(n, c, l)
      /\ v \in (0..MaxDepth) \union Share
  BY <1>1, AtSection
<1>3. c.op = "lock" /\ l.type = "mutex" /\ v < MaxDepth
  BY <1>2 DEF CallOk
<1>4. CASE LockedBy(n, s) /\ CallIs(n, NoCall) /\ KeyIs(s, l.lockKey + 1) /\ HeldIs(n, s, v + 1)
  <2>1. v + 1 \in 1..MaxDepth
    <3>1. v \in (0..MaxDepth) \union Share /\ v < MaxDepth
      BY <1>2, <1>3
    <3> HIDE DEF v
    <3> QED BY <3>1, Names
  <2> DEFINE d == 1
  <2>2. /\ d \in {1, -1} /\ KeyIs(s, l.lockKey + d) /\ HeldIs(n, s, v + d) /\ s \in Slot
        /\ v + d \in 1..MaxDepth /\ In(n, "mutex lock") /\ "mutex lock" # "handle"
    BY <1>1, <1>4, <2>1, AtSection
  <2> HIDE DEF d
  <2> QED BY <1>1, <1>3, <1>4, <2>2, KeyLocks
<1>5. CASE CallIs(n, NoCall) /\ UNCHANGED <<sems, held>>
  BY <1>1, <1>5, SameEntries DEF CallIs, CallFits
<1>6. CASE /\ ~LockedBy(n, s) /\ Goes(n, "acquire", FALSE) /\ call'[n].num = c.num
           /\ UNCHANGED <<sems, held>>
  <2>1. CallFits(n, call'[n])
    BY <1>2, <1>3, <1>6 DEF CallFits, CallOk, BeyondOk, Goes, SameCall
  <2> QED BY <1>1, <1>6, <2>1, SameEntries DEF Goes
<1> QED BY <1>1, <1>4, <1>5, <1>6

\* Reading the limit.
LEMMA ReadLimitLocks ==
  ASSUME Shape, UsersInv, SectionInv, LockState, NEW n \in Node, ReadLimit(n)
  PROVE  LockState'
<1> DEFINE c == call[n]
           l == sems[c.slot]
           x == IF c.op = "lock" THEN "acquire" ELSE "release"
<1>1. /\ In(n, "limit") /\ UNCHANGED <<sems, users, nodes, down, handles, held, using>>
      /\ Goes(n, x, FALSE) /\ call'[n].num = l.limit /\ "limit" \in Stage \ {"idle"}
  BY ReadLimitStep DEF Stage
<1>2. /\ c \in CallRec /\ c.stage = "limit" /\ CallOk(c, l, held[n][c.slot]) /\ BeyondOk(n, c, l)
  BY <1>1, AtSection
<1>3. c.op \in {"lock", "unlock"} /\ c.mode = "writer" /\ c.type = "rwl" /\ l.type = "rwl"
  BY <1>2 DEF CallOk, CallRec
<1>4. CallFits(n, call'[n])
  BY <1>1, <1>2, <1>3 DEF CallFits, CallOk, BeyondOk, Goes, SameCall
<1> QED BY <1>1, <1>4, SameEntries DEF Goes

\* Testing whether the shares are free.
LEMMA TryAcquireLocks ==
  ASSUME Shape, UsersInv, SectionInv, LockState, NEW n \in Node, TryAcquire(n)
  PROVE  LockState'
<1> DEFINE c == call[n]
           l == sems[c.slot]
<1>1. /\ In(n, "acquire") /\ UNCHANGED <<sems, users, nodes, down, handles, held, using>>
      /\ \/ l.limit - l.numLocks - c.num >= 0 /\ Goes(n, "take", TRUE)
         \/ Goes(n, "yield", FALSE)
      /\ call'[n].num = c.num /\ "acquire" \in Stage \ {"idle"}
  BY TryAcquireStep DEF Stage
<1>2. /\ c \in CallRec /\ c.stage = "acquire" /\ CallOk(c, l, held[n][c.slot]) /\ BeyondOk(n, c, l)
      /\ l.limit \in Share /\ EntryOk(l) /\ c.num \in Share
  BY <1>1, AtSection
<1>3. CASE Goes(n, "yield", FALSE)
  <2>1. CallFits(n, call'[n])
    BY <1>1, <1>2, <1>3 DEF CallFits, CallOk, BeyondOk, Goes, SameCall
  <2> QED BY <1>1, <1>3, <2>1, SameEntries DEF Goes
<1>4. CASE l.limit - l.numLocks - c.num >= 0 /\ Goes(n, "take", TRUE)
  <2>1. l.limit \in Nat /\ l.numLocks \in Nat /\ c.num \in Nat /\ c.num # 0
    BY <1>2, Names DEF EntryOk
  <2>2. l.limit - l.numLocks >= c.num /\ ~(l.numLocks = l.limit)
    BY <1>4, <2>1
  <2>3. BeyondOk(n, call'[n], l) /\ CallOk(call'[n], l, held[n][c.slot])
    BY <1>1, <1>2, <1>4, <2>2 DEF CallOk, BeyondOk, Goes, SameCall
  <2>4. CallFits(n, call'[n])
    BY <1>4, <2>3 DEF CallFits, Goes, SameCall
  <2> QED BY <1>1, <1>4, <2>4, SameEntries DEF Goes
<1> QED BY <1>1, <1>3, <1>4

\* Trying again.
LEMMA AgainLocks ==
  ASSUME Shape, UsersInv, SectionInv, LockState, NEW n \in Node, Again(n)
  PROVE  LockState'
<1> DEFINE c == call[n]
           l == sems[c.slot]
<1>1. /\ In(n, "yield") /\ UNCHANGED <<sems, users, nodes, down, handles, held, using>>
      /\ \/ CallIs(n, NoCall)
         \/ Goes(n, "acquire", TRUE) /\ call'[n].num = c.num
      /\ "yield" \in Stage \ {"idle"}
  BY AgainStep DEF Stage
<1>2. c \in CallRec /\ c.stage = "yield" /\ CallOk(c, l, held[n][c.slot]) /\ BeyondOk(n, c, l)
  BY <1>1, AtSection
<1>3. CASE CallIs(n, NoCall)
  BY <1>1, <1>3, SameEntries DEF CallIs, CallFits
<1>4. CASE Goes(n, "acquire", TRUE) /\ call'[n].num = c.num
  <2>1. CallFits(n, call'[n])
    BY <1>2, <1>4 DEF CallFits, CallOk, BeyondOk, Goes, SameCall
  <2> QED BY <1>1, <1>4, <2>1, SameEntries DEF Goes
<1> QED BY <1>1, <1>3, <1>4

\* Taking the shares: as many as were asked for are free.
LEMMA TakeSharesLocks ==
  ASSUME Shape, Shape', UsersInv, SectionInv, LockState, NEW n \in Node, TakeShares(n)
  PROVE  LockState'
<1>0. In(n, "take") /\ "take" \in Stage \ {"idle"} /\ call[n].slot \in Slot
  <2>1. In(n, "take") /\ "take" \in Stage \ {"idle"}
    BY TakeSharesStep DEF Stage
  <2> QED BY <2>1, AtSection
<1> PICK s \in Slot : s = call[n].slot
  BY <1>0
<1> DEFINE c == call[n]
           l == sems[s]
           v == held[n][s]
           num == c.num
           free == Owned(l, None)
           got == Lowest(free, num)
           m == Grant(l, n, got)
<1>1. /\ c \in CallRec /\ c.stage = "take" /\ c # NoCall /\ ~down /\ l \in LockRec
      /\ EntryOk(l) /\ l.key # None /\ l.limit \in Share /\ (l.type = "mutex" => l.limit = 1)
      /\ num \in Share /\ v \in (0..MaxDepth) \union Share
      /\ CallOk(c, l, v) /\ SharesOk(s) /\ BeyondOk(n, c, l)
  BY <1>0, AtSection
<1>2. /\ \A o \in Node \ {n} : call[o] # NoCall => call[o].stage # "take"
      /\ \A o \in Node \ {n} : call[o] # NoCall /\ call[o].slot = s /\ call[o].stage # "handle"
                                 => BeyondOk(o, call[o], l)
  BY <1>0, AtSection
<1>3. /\ UNCHANGED <<users, nodes, down, handles, using>>
      /\ got \in SUBSET free /\ EntryIs(s, m)
      /\ \/ Cardinality(got) = num /\ HeldIs(n, s, v + num) /\ CallIs(n, NoCall)
         \/ Cardinality(got) # num
  BY TakeSharesStep
<1>4. /\ v \in Nat /\ num \in Nat /\ num # 0 /\ l.limit \in Nat /\ l.limit <= MaxShares
      /\ l.numLocks \in Nat /\ MaxShares \in Nat /\ MaxDepth \in Nat
  <2>1. num \in Share /\ l.limit \in Share /\ l.numLocks \in 0..MaxShares /\ v \in (0..MaxDepth) \union Share
    BY <1>1 DEF EntryOk
  <2> HIDE DEF num, l, v
  <2> QED BY <2>1, Names
<1>5. /\ free \in SUBSET Nat /\ IsFiniteSet(free) /\ Cardinality(free) \in 0..l.limit
      /\ l.numLocks = l.limit - Cardinality(free)
      /\ l.valid /\ l.limit - l.numLocks >= num
  BY <1>1, OwnedFinite DEF SharesOk, BeyondOk
<1>6. Cardinality(free) \in Nat /\ num <= Cardinality(free)
  <2>1. Cardinality(free) \in 0..l.limit /\ l.numLocks = l.limit - Cardinality(free)
        /\ l.limit - l.numLocks >= num
    BY <1>5
  <2> HIDE DEF free, l, num
  <2> QED BY <1>4, <2>1
<1>7. Cardinality(got) = num /\ HeldIs(n, s, v + num) /\ call'[n] = NoCall /\ Others(n)
  <2>1. Cardinality(got) = num
    <3> HIDE DEF free, num
    <3> QED BY <1>4, <1>5, <1>6, LowestCount
  <2> QED BY <1>3, <2>1 DEF CallIs
<1>8. /\ m \in LockRec /\ SameLock(l, m) /\ m.lockKey = l.lockKey
      /\ m.numLocks = l.numLocks + Cardinality(got)
      /\ Owned(m, n) = Owned(l, n) \union got /\ Owned(m, None) = free \ got
      /\ \A o \in Node \ {n} : Owned(m, o) = Owned(l, o)
      /\ Cardinality(Owned(m, n)) = Cardinality(Owned(l, n)) + Cardinality(got)
      /\ Cardinality(Owned(m, None)) = Cardinality(free) - Cardinality(got)
  BY <1>1, <1>3, GrantFields
<1>9. /\ Cardinality(Owned(l, n)) \in Nat /\ IsFiniteSet(Owned(m, None))
      /\ sems'[s] = m /\ \A y \in Slot \ {s} : sems'[y] = sems[y]
      /\ held'[n][s] = v + num /\ \A o \in Node \ {n} : held'[o][s] = held[o][s]
      /\ Cardinality(Owned(m, None)) \in Nat
  <2>1. Cardinality(Owned(l, n)) \in 0..l.limit /\ IsFiniteSet(Owned(m, None))
        /\ Cardinality(Owned(m, None)) \in 0..m.limit /\ m.limit = l.limit
    BY <1>1, <1>8, OwnedFinite DEF SameLock
  <2>2. sems'[s] = m /\ \A y \in Slot \ {s} : sems'[y] = sems[y]
    BY <1>3 DEF EntryIs
  <2>3. held'[n][s] = v + num /\ \A o \in Node \ {n} : held'[o][s] = held[o][s]
    BY <1>7 DEF HeldIs
  <2> HIDE DEF m, l, v, num
  <2> QED BY <1>4, <2>1, <2>2, <2>3
<1> HIDE DEF m, l, v, num, free, got, c
<1>10. /\ m.numLocks = l.numLocks + num /\ m.numLocks \in 0..MaxShares
       /\ m.numLocks = m.limit - Cardinality(Owned(m, None))
  BY <1>4, <1>5, <1>6, <1>7, <1>8, <1>9 DEF SameLock
<1>11. EntryOk(m)
  BY <1>1, <1>8, <1>10 DEF EntryOk, SameLock
<1>12. l.type = "mutex" => num = 1
  BY <1>1 DEF CallOk, num
<1>13. ASSUME l.type = "mutex"
       PROVE  /\ GrantedOk(m, n, held'[n][s]) /\ v + num \in (0..MaxDepth) \union Share
              /\ Owned(m, None) = {}
  <2>1. /\ num = 1 /\ l.limit = 1 /\ m.limit = 1 /\ Cardinality(free) = 1
        /\ Cardinality(Owned(m, None)) = 0
    BY <1>1, <1>4, <1>5, <1>6, <1>7, <1>8, <1>12, <1>13 DEF SameLock
  <2>2. free # {} /\ Owned(m, None) = {} /\ Owned(m, n) # {}
    <3>1. free # {} /\ Owned(m, None) = {}
      BY <1>5, <1>9, <2>1, FS_EmptySet
    <3>2. got # {}
      BY <1>7, <2>1, FS_EmptySet
    <3> QED BY <1>8, <3>1, <3>2
  <2>3. Owned(l, n) = {} /\ \A o \in Node : Owned(l, o) = {}
    BY <1>1, <2>1, <2>2, MutexOwner, Names DEF free
  <2>4. l.lockKey = 0
    BY <1>1, <1>5, <1>13, <2>2 DEF SharesOk, l, free
  <2>5. v = 0
    <3>1. GrantedOk(l, n, v)
      BY <1>1, <1>5 DEF SharesOk, l, v
    <3>2. ~(v > 0)
      BY <1>13, <2>3, <3>1 DEF GrantedOk
    <3> QED BY <1>4, <3>2
  <2>6. v + num = 1 /\ 1 \in Share
    BY <2>1, <2>5, Names
  <2>7. GrantedOk(m, n, held'[n][s])
    <3>1. held'[n][s] = 1 /\ m.lockKey = 0 /\ m.type = "mutex"
      BY <1>8, <1>9, <1>13, <2>4, <2>6 DEF SameLock
    <3> QED BY <2>2, <3>1 DEF GrantedOk
  <2> QED BY <2>2, <2>6, <2>7
<1>14. ASSUME l.type # "mutex"
       PROVE  GrantedOk(m, n, held'[n][s]) /\ v + num \in (0..MaxDepth) \union Share
  <2>1. GrantedOk(m, n, held'[n][s])
    <3>1. Cardinality(Owned(l, n)) = v
      BY <1>1, <1>5, <1>14 DEF SharesOk, GrantedOk, l, v
    <3>2. m.type # "mutex"
      BY <1>8, <1>14 DEF SameLock
    <3>3. Cardinality(Owned(m, n)) = v + num
      BY <1>7, <1>8, <3>1
    <3> QED BY <1>9, <3>2, <3>3 DEF GrantedOk
  <2>2. v + num \in (0..MaxDepth) \union Share
    <3>1. c.op = "lock" /\ v < MaxDepth /\ (c.type = "rwl" => v = 0)
          /\ (num = 1 \/ c.mode = "writer") /\ (c.mode = "writer" => c.type = "rwl")
      BY <1>1 DEF CallOk, num
    <3>2. CASE num = 1
      <4>1. v + num \in 0..MaxDepth
        BY <1>4, <3>1, <3>2
      <4> QED BY <4>1
    <3>3. CASE num # 1
      <4>1. v = 0
        BY <3>1, <3>3
      <4>2. v + num = num
        BY <1>4, <4>1
      <4> QED BY <1>1, <4>2
    <3> QED BY <3>2, <3>3
  <2> QED BY <2>1, <2>2
<1>15. /\ GrantedOk(m, n, held'[n][s]) /\ v + num \in (0..MaxDepth) \union Share
       /\ l.type = "mutex" => Owned(m, None) = {}
  BY <1>13, <1>14
<1>16. SharesOk(s)'
  <2>1. ASSUME NEW o \in Node \ {n} PROVE GrantedOk(m, o, held'[o][s])
    <3>1. GrantedOk(l, o, held[o][s])
      BY <1>1, <1>5 DEF SharesOk, l
    <3>2. Owned(m, o) = Owned(l, o) /\ m.type = l.type /\ m.lockKey = l.lockKey
          /\ held'[o][s] = held[o][s]
      BY <1>8, <1>9 DEF SameLock
    <3> QED BY <3>1, <3>2 DEF GrantedOk
  <2>2. \A o \in Node : GrantedOk(m, o, held'[o][s])
    BY <1>15, <2>1
  <2>3. m.type = "mutex" => Owned(m, None) = {}
    BY <1>8, <1>15 DEF SameLock
  <2> QED BY <1>9, <1>10, <2>2, <2>3 DEF SharesOk
<1>17. ASSUME NEW o \in Node \ {n}, call[o] # NoCall, call[o].slot = s, call[o].stage # "handle"
       PROVE  BeyondOk(o, call[o], m)
  <2>1. BeyondOk(o, call[o], l) /\ call[o].stage # "take"
    BY <1>2, <1>17
  <2>2. Owned(m, o) = Owned(l, o) /\ m.lockKey = l.lockKey /\ m.valid /\ m.type = l.type
    BY <1>5, <1>8 DEF SameLock
  <2> QED BY <2>1, <2>2 DEF BeyondOk
<1> DEFINE w == v + num
<1>18. w \in (0..MaxDepth) \union Share /\ HeldIs(n, s, w)
  BY <1>7, <1>15
<1> HIDE DEF w
<1>19. /\ ~down /\ UNCHANGED <<down, users>> /\ EntryOk(sems'[s])
       /\ \A y \in Slot \ {s} : sems'[y] = sems[y]
       /\ \A o \in Node \ {n} : call[o] # NoCall /\ call[o].slot = s /\ call[o].stage # "handle"
                                 => BeyondOk(o, call[o], sems'[s])
  BY <1>1, <1>3, <1>9, <1>11, <1>17
<1>20. call'[n] = NoCall /\ Others(n)
       /\ sems'[s].type = sems[s].type /\ sems'[s].limit = sems[s].limit /\ sems'[s].key = sems[s].key
  BY <1>7, <1>8, <1>9 DEF SameLock, l
<1> QED BY <1>16, <1>18, <1>19, <1>20, OneEntry

\* Unlocking a mutex.
LEMMA MutexUnlockLocks ==
  ASSUME Shape, Shape', UsersInv, SectionInv, LockState, NEW n \in Node, MutexUnlock(n)
  PROVE  LockState'
<1> DEFINE c == call[n]
           s == c.slot
           l == sems[s]
           v == held[n][s]
           mine == UnlocksRecursion(n, s, c.key)
<1>1. /\ In(n, "mutex unlock") /\ UNCHANGED <<users, nodes, down, handles, using>>
      /\ \/ mine /\ KeyIs(s, l.lockKey - 1) /\ HeldIs(n, s, v - 1) /\ CallIs(n, NoCall)
         \/ /\ UNCHANGED <<sems, held>>
            /\ \/ CallIs(n, NoCall)
               \/ l.lockKey = 0 /\ Goes(n, "release", FALSE) /\ call'[n].num = c.num
      /\ "mutex unlock" \in Stage \ {"idle"}
  BY MutexUnlockStep DEF Stage
<1>2. /\ c \in CallRec /\ c.stage = "mutex unlock" /\ CallOk(c, l, v) /\ BeyondOk(n, c, l)
      /\ v \in (0..MaxDepth) \union Share /\ s \in Slot /\ l \in LockRec /\ EntryOk(l)
      /\ l.limit \in Share /\ (l.type = "mutex" => l.limit = 1) /\ SharesOk(s)
  BY <1>1, AtSection
<1>3. c.op = "unlock" /\ l.type = "mutex"
  BY <1>2 DEF CallOk
<1>4. CASE mine /\ KeyIs(s, l.lockKey - 1) /\ HeldIs(n, s, v - 1) /\ CallIs(n, NoCall)
  <2>1. LockedBy(n, s) /\ l.lockKey # 0
    BY <1>4 DEF UnlocksRecursion
  <2>2. Owned(l, n) = {1}
    BY <1>2, <1>3, <2>1, MutexOwner DEF LockedBy
  <2>3. v > 0 /\ l.lockKey = v - 1
    BY <1>2, <1>3, <2>2 DEF BeyondOk, SharesOk, GrantedOk
  <2>4. v - 1 \in 1..MaxDepth
    <3>1. l.lockKey \in 0..MaxDepth /\ v \in (0..MaxDepth) \union Share
      BY <1>2 DEF EntryOk
    <3> HIDE DEF v, l
    <3> QED BY <2>1, <2>3, <3>1, Names
  <2>5. v + (-1) = v - 1 /\ l.lockKey + (-1) = l.lockKey - 1
    <3>1. v \in Int /\ l.lockKey \in Int
      <4>1. l.lockKey \in 0..MaxDepth
        BY <1>2 DEF EntryOk
      <4>2. v \in (0..MaxDepth) \union Share
        BY <1>2
      <4> HIDE DEF v, l
      <4> QED BY <4>1, <4>2, Names
    <3> HIDE DEF v, l
    <3> QED BY <3>1
  <2> DEFINE d == -1
  <2>6. /\ d \in {1, -1} /\ KeyIs(s, l.lockKey + d) /\ HeldIs(n, s, v + d)
        /\ v + d \in 1..MaxDepth /\ In(n, "mutex unlock") /\ "mutex unlock" # "handle"
    BY <1>1, <1>4, <2>4, <2>5
  <2> HIDE DEF d
  <2> QED BY <1>1, <1>2, <1>3, <1>4, <2>1, <2>6, KeyLocks
<1>5. CASE CallIs(n, NoCall) /\ UNCHANGED <<sems, held>>
  BY <1>1, <1>5, SameEntries DEF CallIs, CallFits
<1>6. CASE /\ l.lockKey = 0 /\ Goes(n, "release", FALSE) /\ call'[n].num = c.num
           /\ UNCHANGED <<sems, held>>
  <2>1. CallFits(n, call'[n])
    BY <1>2, <1>3, <1>6 DEF CallFits, CallOk, BeyondOk, Goes, SameCall
  <2> QED BY <1>1, <1>6, <2>1, SameEntries DEF Goes
<1> QED BY <1>1, <1>4, <1>5, <1>6

\* Nothing is known of a call any more when the process has ended, but for the
\* numbers.
LEMMA EndedLocks ==
  ASSUME Shape, LockState, NEW n \in Node, NEW s \in Slot, down', UNCHANGED users,
         call'[n] = NoCall, Others(n), \A o \in Node, x \in Slot : held'[o][x] = 0,
         \A x \in Slot \ {s} : sems'[x] = sems[x],
         sems'[s].type = sems[s].type, sems'[s].limit = sems[s].limit, sems'[s].key = sems[s].key,
         EntryOk(sems'[s])
  PROVE  LockState'
<1>1. EntryInv'
  BY DEF LockState, EntryInv
<1>2. HeldInv'
  BY Names DEF HeldInv
<1>3. CallsInv'
  <2>1. ASSUME NEW o \in Node, call'[o] # NoCall
        PROVE  CallOk(call'[o], sems'[call'[o].slot], held'[o][call'[o].slot])
    <3> DEFINE c == call[o]
               l == sems[c.slot]
               m == sems'[c.slot]
               h == held'[o][c.slot]
    <3>1. o # n /\ call'[o] = c
      BY <2>1 DEF Others
    <3>2. c \in CallRec
      BY <2>1, <3>1, InCall
    <3>3. c.slot \in Slot
      BY <3>2 DEF CallRec
    <3>4. CallOk(c, l, held[o][c.slot]) /\ h = 0 /\ m.type = l.type /\ m.limit = l.limit
      BY <2>1, <3>1, <3>3 DEF LockState, CallsInv
    <3>5. 0 < MaxDepth
      BY Names
    <3> HIDE DEF c, l, m, h
    <3>6. CallOk(c, m, h)
      BY <3>4, <3>5 DEF CallOk
    <3> QED BY <3>1, <3>6 DEF c, m, h
  <2> QED BY <2>1 DEF CallsInv
<1>4. SharesInv' /\ BeyondInv'
  BY DEF SharesInv, BeyondInv
<1> QED BY <1>1, <1>2, <1>3, <1>4 DEF LockState

\* Releasing.
LEMMA ReleaseLocks ==
  ASSUME Shape, Shape', UsersInv, SectionInv, LockState, NEW n \in Node, Release(n)
  PROVE  LockState'
<1>0. In(n, "release") /\ "release" \in Stage \ {"idle"} /\ call[n].slot \in Slot
  <2>1. In(n, "release") /\ "release" \in Stage \ {"idle"}
    BY ReleaseStep DEF Stage
  <2> QED BY <2>1, AtSection
<1> PICK s \in Slot : s = call[n].slot
  BY <1>0
<1> DEFINE c == call[n]
           l == sems[s]
           v == held[n][s]
           num == c.num
           mine == Owned(l, n)
           free == Owned(l, None)
           m == GiveBack(l, mine, num)
<1>1. /\ c \in CallRec /\ c.stage = "release" /\ c # NoCall /\ ~down /\ l \in LockRec
      /\ EntryOk(l) /\ l.key # None /\ l.limit \in Share /\ (l.type = "mutex" => l.limit = 1)
      /\ num \in Share /\ v \in (0..MaxDepth) \union Share
      /\ CallOk(c, l, v) /\ SharesOk(s) /\ BeyondOk(n, c, l)
  BY <1>0, AtSection
<1>2. /\ \A o \in Node \ {n} : call[o] # NoCall => call[o].stage # "take"
      /\ \A o \in Node \ {n} : call[o] # NoCall /\ call[o].slot = s /\ call[o].stage # "handle"
                                 => BeyondOk(o, call[o], l)
  BY <1>0, AtSection
<1>3. /\ UNCHANGED <<users, nodes, handles, using>> /\ call'[n] = NoCall /\ Others(n)
      /\ \/ /\ l.valid /\ EntryIs(s, m)
            /\ \/ Cardinality(mine) = num /\ UNCHANGED down /\ HeldIs(n, s, 0)
               \/ Cardinality(mine) > num /\ down' /\ \A o \in Node, x \in Slot : held'[o][x] = 0
         \/ UNCHANGED <<sems, held, down>>
  BY ReleaseStep DEF CallIs
<1>4. CASE UNCHANGED <<sems, held, down>>
  BY <1>3, <1>4, SameEntries DEF CallFits
<1>5. CASE /\ l.valid /\ EntryIs(s, m)
           /\ \/ Cardinality(mine) = num /\ UNCHANGED down /\ HeldIs(n, s, 0)
              \/ Cardinality(mine) > num /\ down' /\ \A o \in Node, x \in Slot : held'[o][x] = 0
  <2>1. /\ num \in Nat /\ num # 0 /\ l.limit \in Nat /\ l.limit <= MaxShares
        /\ l.numLocks \in Nat /\ MaxShares \in Nat
    <3>1. num \in Share /\ l.limit \in Share /\ l.numLocks \in 0..MaxShares
      BY <1>1 DEF EntryOk
    <3> HIDE DEF num, l
    <3> QED BY <3>1, Names
  <2>2. /\ m \in LockRec /\ SameLock(l, m) /\ m.lockKey = l.lockKey
        /\ m.numLocks = l.numLocks - num /\ Owned(m, n) = {}
        /\ Owned(m, None) = free \union mine
        /\ \A o \in Node \ {n} : Owned(m, o) = Owned(l, o)
        /\ Cardinality(Owned(m, None)) = Cardinality(free) + Cardinality(mine)
    <3>1. l \in LockRec /\ num \in Nat
      BY <1>1, <2>1
    <3> HIDE DEF l, num
    <3> QED BY <3>1, GiveBackFields
  <2>3. /\ Cardinality(mine) \in Nat /\ Cardinality(free) \in Nat
        /\ Cardinality(Owned(m, None)) \in 0..l.limit
        /\ l.numLocks = l.limit - Cardinality(free)
        /\ (mine = {} => Cardinality(mine) = 0) /\ Cardinality({}) = 0
    <3>1. /\ Cardinality(mine) \in 0..l.limit /\ Cardinality(free) \in 0..l.limit
          /\ Cardinality(Owned(m, None)) \in 0..m.limit /\ m.limit = l.limit
          /\ (mine = {} => Cardinality(mine) = 0)
      BY <1>1, <2>2, OwnedFinite DEF SameLock
    <3>2. l.numLocks = l.limit - Cardinality(free)
      BY <1>1 DEF SharesOk
    <3> HIDE DEF mine, free, m, l
    <3> QED BY <2>1, <3>1, <3>2, FS_EmptySet
  <2>4. sems'[s] = m /\ \A y \in Slot \ {s} : sems'[y] = sems[y]
    BY <1>5 DEF EntryIs
  <2> HIDE DEF m, l, v, num, free, mine, c
  <2>5. Cardinality(mine) >= num
    BY <1>5, <2>1, <2>3
  <2>6. m.numLocks \in 0..MaxShares
    BY <2>1, <2>2, <2>3, <2>5
  <2>7. EntryOk(m)
    BY <1>1, <2>2, <2>6 DEF EntryOk, SameLock
  <2>8. /\ EntryOk(sems'[s]) /\ sems'[s].type = sems[s].type /\ sems'[s].limit = sems[s].limit
        /\ sems'[s].key = sems[s].key
    BY <2>2, <2>4, <2>7 DEF SameLock, l
  <2>9. CASE Cardinality(mine) > num /\ down' /\ \A o \in Node, x \in Slot : held'[o][x] = 0
    BY <1>3, <2>4, <2>8, <2>9, EndedLocks
  <2>10. CASE Cardinality(mine) = num /\ UNCHANGED down /\ HeldIs(n, s, 0)
    <3>1. held'[n][s] = 0 /\ \A o \in Node \ {n} : held'[o][s] = held[o][s]
      BY <2>10 DEF HeldIs
    <3>2. m.numLocks = m.limit - Cardinality(Owned(m, None))
      <4>1. m.limit = l.limit
        BY <2>2 DEF SameLock
      <4> QED BY <2>1, <2>2, <2>3, <2>10, <4>1
    <3>3. ASSUME NEW o \in Node \ {n} PROVE GrantedOk(m, o, held'[o][s])
      <4>1. GrantedOk(l, o, held[o][s])
        BY <1>1, <1>5 DEF SharesOk, l
      <4>2. Owned(m, o) = Owned(l, o) /\ m.type = l.type /\ m.lockKey = l.lockKey
            /\ held'[o][s] = held[o][s]
        BY <2>2, <3>1 DEF SameLock
      <4> QED BY <4>1, <4>2 DEF GrantedOk
    <3>4. GrantedOk(m, n, held'[n][s])
      <4>1. Cardinality(Owned(m, n)) = 0
        BY <2>2, <2>3
      <4> QED BY <2>2, <3>1, <4>1 DEF GrantedOk
    <3>5. l.type = "mutex" => m.lockKey = 0
      <4>1. mine # {}
        BY <2>1, <2>3, <2>10
      <4> QED BY <1>1, <2>2, <4>1 DEF BeyondOk, mine
    <3>6. SharesOk(s)'
      <4>1. \A o \in Node : GrantedOk(m, o, held'[o][s])
        BY <3>3, <3>4
      <4>2. m.type = "mutex" => m.lockKey = 0
        BY <2>2, <3>5 DEF SameLock
      <4> QED BY <2>4, <3>2, <4>1, <4>2 DEF SharesOk
    <3>7. ASSUME NEW o \in Node \ {n}, call[o] # NoCall, call[o].slot = s, call[o].stage # "handle"
          PROVE  BeyondOk(o, call[o], m)
      <4>1. BeyondOk(o, call[o], l) /\ call[o].stage # "take"
        BY <1>2, <3>7
      <4>2. Owned(m, o) = Owned(l, o) /\ m.lockKey = l.lockKey /\ m.valid /\ m.type = l.type
        BY <1>5, <2>2 DEF SameLock
      <4> QED BY <4>1, <4>2 DEF BeyondOk
    <3>8. 0 \in (0..MaxDepth) \union Share /\ ~down /\ UNCHANGED <<down, users>>
      BY <1>1, <1>3, <2>10, Names
    <3>9. \A o \in Node \ {n} : call[o] # NoCall /\ call[o].slot = s /\ call[o].stage # "handle"
                                  => BeyondOk(o, call[o], sems'[s])
      BY <2>4, <3>7
    <3> QED BY <1>3, <2>4, <2>8, <2>10, <3>6, <3>8, <3>9, OneEntry
  <2> QED BY <1>5, <2>9, <2>10
<1> QED BY <1>3, <1>4, <1>5

\* Deleting: the node that deletes holds all shares, so no other has one.
LEMMA DeleteLocks ==
  ASSUME Shape, Shape', UsersInv, SectionInv, LockState, NEW n \in Node, Delete(n)
  PROVE  LockState'
<1>0. In(n, "delete") /\ "delete" \in Stage \ {"idle"} /\ call[n].slot \in Slot
  <2>1. In(n, "delete") /\ "delete" \in Stage \ {"idle"}
    BY DeleteStep DEF Stage
  <2> QED BY <2>1, AtSection
<1> PICK s \in Slot : s = call[n].slot
  BY <1>0
<1> DEFINE l == sems[s]
           m == Removed(l)
<1>1. /\ ~down /\ l \in LockRec /\ EntryOk(l) /\ l.limit \in Share /\ SharesOk(s)
      /\ \A o \in Node \ {n} : call[o] # NoCall => call[o].stage # "take"
  BY <1>0, AtSection
<1>2. /\ UNCHANGED <<users, nodes, down, handles, using>> /\ call'[n] = NoCall /\ Others(n)
      /\ \/ Cardinality(Owned(l, n)) = l.limit /\ EntryIs(s, m) /\ NobodyIs(s)
         \/ UNCHANGED <<sems, held>>
  BY DeleteStep DEF CallIs
<1>3. CASE UNCHANGED <<sems, held>>
  BY <1>2, <1>3, SameEntries DEF CallFits
<1>4. CASE Cardinality(Owned(l, n)) = l.limit /\ EntryIs(s, m) /\ NobodyIs(s)
  <2>1. /\ m.valid = FALSE /\ m.key = l.key /\ m.type = l.type /\ m.limit = l.limit
        /\ m.lockKey = l.lockKey /\ m.numLocks = l.numLocks /\ m.holder = l.holder
    BY <1>1, RemovedFields
  <2>2. /\ sems'[s] = m /\ \A y \in Slot \ {s} : sems'[y] = sems[y]
        /\ \A o \in Node, x \in Slot : held'[o][x] = IF x = s THEN 0 ELSE held[o][x]
    BY <1>4 DEF EntryIs, NobodyIs
  <2>3. \A o : Owned(m, o) = Owned(l, o)
    BY <2>1, OwnedSame
  <2>4. Owned(l, n) = 1..l.limit
    BY <1>1, <1>4, OwnedFinite
  <2>5. \A o : o # n => Owned(l, o) = {}
    BY <2>4 DEF Owned
  <2>6. l.numLocks = l.limit
    <3>1. Cardinality(Owned(l, None)) = 0
      BY <2>5, Names, FS_EmptySet
    <3>2. l.numLocks = l.limit - Cardinality(Owned(l, None)) /\ l.limit \in Nat
      BY <1>1, Names DEF SharesOk
    <3> HIDE DEF l
    <3> QED BY <3>1, <3>2
  <2> HIDE DEF m, l
  <2>7. EntryInv'
    <3>1. EntryOk(m)
      BY <1>1, <2>1 DEF EntryOk
    <3> QED BY <1>2, <2>1, <2>2, <3>1 DEF LockState, EntryInv, l
  <2>8. HeldInv'
    BY <2>2, Names DEF LockState, HeldInv
  <2>9. SharesInv'
    <3>1. SharesOk(s)'
      BY <1>1, <2>1, <2>2, <2>3 DEF SharesOk, l
    <3>2. ASSUME NEW x \in Slot \ {s} PROVE SharesOk(x)'
      <4>1. SharesOk(x) /\ \A o \in Node : held'[o][x] = held[o][x]
        BY <1>1, <2>2 DEF LockState, SharesInv
      <4> QED BY <2>2, <4>1 DEF SharesOk
    <3> QED BY <3>1, <3>2 DEF SharesInv
  <2>10. ASSUME NEW o \in Node, call'[o] # NoCall
         PROVE  /\ o # n /\ call'[o] = call[o] /\ call[o].slot \in Slot
                /\ CallOk(call[o], sems[call[o].slot], held[o][call[o].slot])
    <3>1. o # n /\ call'[o] = call[o]
      BY <1>2, <2>10 DEF Others
    <3>2. call[o] \in CallRec
      BY <2>10, <3>1, InCall
    <3> QED BY <2>10, <3>1, <3>2 DEF CallRec, LockState, CallsInv
  <2>11. CallsInv'
    <3>1. ASSUME NEW o \in Node, call'[o] # NoCall
          PROVE  CallOk(call'[o], sems'[call'[o].slot], held'[o][call'[o].slot])
      <4> DEFINE c == call[o]
                 k == sems[c.slot]
                 j == sems'[c.slot]
                 g == held[o][c.slot]
                 h == held'[o][c.slot]
      <4>1. /\ call'[o] = c /\ CallOk(c, k, g) /\ (h = g \/ h = 0)
            /\ j.type = k.type /\ j.limit = k.limit
        BY <2>1, <2>2, <2>10, <3>1 DEF l
      <4>2. 0 < MaxDepth
        BY Names
      <4> HIDE DEF c, k, j, g, h
      <4>3. CallOk(c, j, h)
        BY <4>1, <4>2 DEF CallOk
      <4> QED BY <4>1, <4>3 DEF c, j, h
    <3> QED BY <3>1 DEF CallsInv
  <2>12. BeyondInv'
    <3>1. ASSUME NEW o \in Node, call'[o] # NoCall, call'[o].stage # "handle"
          PROVE  BeyondOk(o, call'[o], sems'[call'[o].slot])
      <4>1. CASE call[o].slot = s
        <5>1. Owned(m, o) = {} /\ m.numLocks = m.limit /\ call[o].stage # "take"
          BY <1>1, <2>1, <2>3, <2>5, <2>6, <2>10, <3>1
        <5> QED BY <2>2, <2>10, <3>1, <4>1, <5>1 DEF BeyondOk
      <4>2. CASE call[o].slot # s
        <5>1. BeyondOk(o, call[o], sems[call[o].slot])
          BY <1>1, <2>10, <3>1 DEF LockState, BeyondInv
        <5> QED BY <2>2, <2>10, <3>1, <4>2, <5>1
      <4> QED BY <4>1, <4>2
    <3> QED BY <3>1 DEF BeyondInv
  <2> QED BY <2>7, <2>8, <2>9, <2>11, <2>12 DEF LockState
<1> QED BY <1>2, <1>3, <1>4

\* A call that starts.
LEMMA CallLocks ==
  ASSUME Shape, LockState, NEW n \in Node, CallLock(n) \/ CallUnlock(n) \/ CallDelete(n)
  PROVE  LockState'
<1>1. /\ Idle(n) /\ UNCHANGED <<sems, member, users, nodes, down, handles, held, using>>
      /\ \E c \in CallRec : CallStarts(n, c) /\ CallIs(n, c)
  BY CallStep
<1>2. PICK c \in CallRec : CallStarts(n, c) /\ CallIs(n, c)
  BY <1>1
<1> DEFINE l == sems[c.slot]
           v == held[n][c.slot]
<1>3. /\ c.stage = "handle" /\ c.num = 1 /\ c.type = l.type /\ Mode(n, c.slot, c.op, c.mode)
      /\ c.op = "lock" => v < MaxDepth
  BY <1>2 DEF CallStarts
<1>4. c.mode = "writer" => c.type = "rwl"
  BY <1>3 DEF Mode
<1>5. c.op = "lock" /\ c.type = "rwl" => v = 0
  BY <1>3 DEF Mode
<1>6. CallOk(c, l, v)
  <2> HIDE DEF l, v
  <2> QED BY <1>3, <1>4, <1>5 DEF CallOk
<1>7. CallFits(n, call'[n])
  BY <1>2, <1>3, <1>6 DEF CallFits, CallIs
<1> QED BY <1>1, <1>2, <1>7, SameEntries DEF CallIs

\* A lock that is created: no other node uses the entry.
LEMMA CreateLocks ==
  ASSUME Shape, UsersInv, LockState, ~Reuse, NEW n \in Node, NEW k \in Key, NEW kind \in Kinds,
         CreateLock(n, k, kind)
  PROVE  LockState'
<1> DEFINE m == NewLock(k, kind)
<1>1. PICK s \in Slot :
         /\ Idle(n) /\ call[n] = NoCall /\ ~sems[s].valid
         /\ \A o \in nodes \ {n} : s \notin users[o]
         /\ EntryIs(s, m) /\ Joins(n, s) /\ NobodyIs(s)
         /\ UNCHANGED <<member, nodes, down, call>>
  BY CreateLockStep
<1>2. /\ m \in LockRec /\ m.valid = TRUE /\ m.key = k /\ m.limit \in Share
      /\ (m.type = "mutex" => m.limit = 1) /\ m.lockKey = 0 /\ m.numLocks = 0
      /\ \A o \in Node : Owned(m, o) = {}
      /\ Owned(m, None) = 1..m.limit
  BY NewFields
<1> HIDE DEF m
<1>3. /\ sems'[s] = m /\ \A y \in Slot \ {s} : sems'[y] = sems[y]
      /\ \A o \in Node, x \in Slot : held'[o][x] = IF x = s THEN 0 ELSE held[o][x]
      /\ \A o \in Node, x \in Slot \ {s} : x \in users'[o] <=> x \in users[o]
  BY <1>1 DEF EntryIs, NobodyIs, Joins
<1>4. EntryOk(m) /\ m.key # None
  BY <1>2, Names DEF EntryOk
<1>5. EntryInv'
  BY <1>3, <1>4 DEF LockState, EntryInv
<1>6. HeldInv'
  BY <1>3, Names DEF LockState, HeldInv
<1>7. SharesInv'
  <2>1. Cardinality(1..m.limit) = m.limit /\ m.limit \in Nat
    <3> DEFINE j == m.limit
    <3>1. j \in Share
      BY <1>2
    <3> HIDE DEF j
    <3>2. j \in Nat /\ 1 \in Int /\ j \in Int /\ ~(1 > j)
      BY <3>1, Names
    <3>3. Cardinality(1..j) = IF 1 > j THEN 0 ELSE j - 1 + 1
      BY <3>2, FS_Interval
    <3>4. Cardinality(1..j) = j
      BY <3>2, <3>3
    <3> QED BY <3>2, <3>4 DEF j
  <2>2. m.numLocks = m.limit - Cardinality(Owned(m, None))
    <3> DEFINE j == m.limit
               f == Cardinality(Owned(m, None))
    <3>1. f = Cardinality(1..j)
      BY <1>2
    <3>2. j \in Nat /\ f = j /\ m.numLocks = 0
      BY <1>2, <2>1, <3>1
    <3> HIDE DEF j, f
    <3> QED BY <3>2 DEF j, f
  <2>3. \A o \in Node : GrantedOk(m, o, held'[o][s])
    <3> SUFFICES ASSUME NEW o \in Node PROVE GrantedOk(m, o, held'[o][s])
      OBVIOUS
    <3>1. held'[o][s] = 0 /\ Owned(m, o) = {} /\ Cardinality({}) = 0
      BY <1>2, <1>3, FS_EmptySet
    <3>2. Cardinality(Owned(m, o)) = 0
      BY <3>1, Zenon
    <3>3. GrantedOk(m, o, 0)
      BY <3>1, <3>2 DEF GrantedOk
    <3> QED BY <3>1, <3>3
  <2>4. SharesOk(s)'
    BY <1>2, <1>3, <2>2, <2>3 DEF SharesOk
  <2>5. ASSUME NEW x \in Slot \ {s} PROVE SharesOk(x)'
    <3>1. SharesOk(x) /\ \A o \in Node : held'[o][x] = held[o][x]
      BY <1>1, <1>3 DEF LockState, SharesInv, Idle
    <3> QED BY <1>3, <3>1 DEF SharesOk
  <2> QED BY <2>4, <2>5 DEF SharesInv
<1>8. ASSUME NEW o \in Node, call'[o] # NoCall
      PROVE  /\ call'[o] = call[o] /\ call[o] # NoCall /\ call[o].slot \in Slot \ {s}
             /\ sems'[call[o].slot] = sems[call[o].slot]
             /\ held'[o][call[o].slot] = held[o][call[o].slot]
  <2>1. call'[o] = call[o] /\ call[o] # NoCall /\ o # n
    BY <1>1, <1>8
  <2>2. o \in nodes \ {n} /\ call[o].slot \in users[o] /\ call[o] \in CallRec
    BY <2>1, InCall DEF UsersInv, UserOf
  <2>3. call[o].slot \in Slot \ {s}
    BY <1>1, <2>2 DEF CallRec
  <2> QED BY <1>3, <2>1, <2>3
<1>9. CallsInv'
  BY <1>8 DEF LockState, CallsInv
<1>10. BeyondInv'
  BY <1>1, <1>8 DEF LockState, BeyondInv
<1> QED BY <1>5, <1>6, <1>7, <1>9, <1>10 DEF LockState

\* A step that changes no lock but for its count and whether it exists.
LEMMA CountLocks ==
  ASSUME Shape, LockState, UNCHANGED <<down, call, held>>,
         \A s \in Slot : /\ sems'[s].key = sems[s].key /\ sems'[s].type = sems[s].type
                         /\ sems'[s].limit = sems[s].limit /\ sems'[s].lockKey = sems[s].lockKey
                         /\ sems'[s].numLocks = sems[s].numLocks /\ sems'[s].holder = sems[s].holder
                         /\ (sems'[s].valid => sems[s].valid),
         \A s \in Slot, n \in Node : s \in users'[n] => sems[s].key # None,
         \A n \in Node : call[n] # NoCall /\ sems[call[n].slot].valid => sems'[call[n].slot].valid
  PROVE  LockState'
<1>1. ASSUME NEW s \in Slot PROVE \A o : Owned(sems'[s], o) = Owned(sems[s], o)
  BY OwnedSame
<1>2. EntryInv'
  <2>1. ASSUME NEW s \in Slot PROVE EntryOk(sems'[s])
    <3>1. EntryOk(sems[s])
      BY DEF LockState, EntryInv
    <3> QED BY <3>1 DEF EntryOk
  <2> QED BY <2>1 DEF EntryInv
<1>3. HeldInv'
  BY DEF LockState, HeldInv
<1>4. SharesInv'
  <2> SUFFICES ASSUME ~down, NEW s \in Slot PROVE SharesOk(s)'
    BY DEF SharesInv
  <2>1. SharesOk(s)
    BY DEF LockState, SharesInv
  <2>2. ASSUME NEW o \in Node, GrantedOk(sems[s], o, held[o][s])
        PROVE  GrantedOk(sems'[s], o, held'[o][s])
    BY <1>1, <2>2 DEF GrantedOk
  <2> QED BY <1>1, <2>1, <2>2 DEF SharesOk
<1>5. ASSUME NEW n \in Node, call[n] # NoCall PROVE call[n].slot \in Slot
  <2>1. call[n] \in CallRec
    BY <1>5, InCall
  <2> QED BY <2>1 DEF CallRec
<1>6. CallsInv'
  <2>1. ASSUME NEW n \in Node, call[n] # NoCall
        PROVE  CallOk(call[n], sems'[call[n].slot], held[n][call[n].slot])
    <3> DEFINE c == call[n]
               l == sems[c.slot]
               m == sems'[c.slot]
               h == held[n][c.slot]
    <3>1. CallOk(c, l, h) /\ m.type = l.type /\ m.limit = l.limit
      BY <1>5, <2>1 DEF LockState, CallsInv
    <3> HIDE DEF c, l, m, h
    <3>2. CallOk(c, m, h)
      BY <3>1 DEF CallOk
    <3> QED BY <3>2 DEF c, m, h
  <2> QED BY <2>1 DEF CallsInv
<1>7. BeyondInv'
  <2>1. ASSUME ~down, NEW n \in Node, call[n] # NoCall, call[n].stage # "handle"
        PROVE  BeyondOk(n, call[n], sems'[call[n].slot])
    <3> DEFINE c == call[n]
               l == sems[c.slot]
               m == sems'[c.slot]
    <3>1. BeyondOk(n, c, l)
      BY <2>1 DEF LockState, BeyondInv
    <3>2. /\ m.type = l.type /\ m.limit = l.limit /\ m.lockKey = l.lockKey
          /\ m.numLocks = l.numLocks /\ (l.valid => m.valid) /\ Owned(m, n) = Owned(l, n)
      BY <1>1, <1>5, <2>1
    <3> HIDE DEF c, l, m
    <3>3. BeyondOk(n, c, m)
      BY <3>1, <3>2 DEF BeyondOk
    <3> QED BY <3>3 DEF c, m
  <2> QED BY <2>1 DEF BeyondInv
<1> QED BY <1>2, <1>3, <1>4, <1>6, <1>7 DEF LockState

\* A lock that is got.
LEMMA GetLocks ==
  ASSUME Shape, LockState, NEW n \in Node, NEW k \in Key, GetLock(n, k)
  PROVE  LockState'
<1>1. PICK s \in Slot :
         /\ sems[s].key = k /\ Joins(n, s)
         /\ \A x \in Slot \ {s} : sems'[x] = sems[x]
         /\ SameLock(sems[s], sems'[s]) /\ sems'[s].lockKey = sems[s].lockKey
         /\ sems'[s].numLocks = sems[s].numLocks /\ sems'[s].holder = sems[s].holder
         /\ UNCHANGED <<down, call, held>>
  BY GetLockStep
<1>2. \A x \in Slot : /\ sems'[x].key = sems[x].key /\ sems'[x].type = sems[x].type
                      /\ sems'[x].limit = sems[x].limit /\ sems'[x].lockKey = sems[x].lockKey
                      /\ sems'[x].numLocks = sems[x].numLocks /\ sems'[x].holder = sems[x].holder
                      /\ (sems'[x].valid <=> sems[x].valid)
  BY <1>1 DEF SameLock
<1>3. \A x \in Slot, o \in Node : x \in users'[o] => sems[x].key # None
  BY <1>1, Names DEF Joins, LockState, EntryInv
<1>4. \A o \in Node : call[o] # NoCall /\ sems[call[o].slot].valid => sems'[call[o].slot].valid
  BY <1>2, InCall DEF CallRec
<1> QED BY <1>1, <1>2, <1>3, <1>4, CountLocks

\* A node that ends takes no lock away from a call.
LEMMA FinalizeLocks ==
  ASSUME Shape, UsersInv, LockState, NEW n \in Node, FinalizeNode(n)
  PROVE  LockState'
<1>1. /\ call[n] = NoCall /\ nodes' = nodes \ {n} /\ UNCHANGED <<users, down, call, held>>
      /\ \A s \in Slot :
              /\ ~sems[s].valid => sems'[s] = sems[s]
              /\ sems'[s].key = sems[s].key /\ sems'[s].type = sems[s].type
              /\ sems'[s].limit = sems[s].limit /\ sems'[s].lockKey = sems[s].lockKey
              /\ sems'[s].numLocks = sems[s].numLocks /\ sems'[s].holder = sems[s].holder
  BY FinalizeStep
<1>2. \A x \in Slot, o \in Node : x \in users'[o] => sems[x].key # None
  BY <1>1 DEF LockState, EntryInv
<1>3. ASSUME NEW o \in Node, call[o] # NoCall, sems[call[o].slot].valid
      PROVE  sems'[call[o].slot].valid
  <2> DEFINE s == call[o].slot
  <2>1. o \in nodes' /\ s \in users[o] /\ call[o] \in CallRec
    BY <1>1, <1>3, InCall DEF UsersInv, UserOf
  <2>2. s \in Slot
    BY <2>1 DEF CallRec
  <2>3. PICK x \in Slot : x = s
    BY <2>2
  <2>4. o \in Active(x)'
    BY <1>1, <2>1, <2>3 DEF Active
  <2> QED BY <1>3, <2>3, <2>4, FinalizeUsers
<1>4. \A x \in Slot : sems'[x].valid => sems[x].valid
  BY <1>1
<1> QED BY <1>1, <1>2, <1>3, <1>4, CountLocks

\* Initially.
LEMMA InitLocks ==
  ASSUME Init
  PROVE  LockState
<1>1. /\ \A s \in Slot : sems[s] = NoLock
      /\ \A n \in Node : call[n] = NoCall /\ users[n] = {}
      /\ \A n \in Node, s \in Slot : held[n][s] = 0
  BY DEF Init
<1>2. EntryOk(NoLock)
  BY Names DEF EntryOk, NoLock
<1>3. EntryInv
  BY <1>1, <1>2 DEF EntryInv
<1>4. Cardinality(Owned(NoLock, None)) = 0 /\ NoLock.valid = FALSE /\ NoLock.limit = 0 /\ NoLock.numLocks = 0
  <2>1. Owned(NoLock, None) = {}
    BY DEF Owned, NoLock
  <2> QED BY <2>1, FS_EmptySet DEF NoLock
<1>5. SharesInv
  BY <1>1, <1>4 DEF SharesInv, SharesOk
<1>6. CallsInv /\ BeyondInv
  BY <1>1 DEF CallsInv, BeyondInv
<1>7. HeldInv
  BY <1>1, Names DEF HeldInv
<1> QED BY <1>3, <1>5, <1>6, <1>7 DEF LockState

\* Every step keeps what is known of the locks.
LEMMA LocksStep ==
  ASSUME Shape, UsersInv, SectionInv, LockState, ~Reuse, [Next]_vars
  PROVE  LockState'
<1>1. CASE UNCHANGED vars
  BY <1>1 DEF vars, LockState, EntryInv, CallsInv, SharesInv, SharesOk, HeldInv, BeyondInv
<1>2. CASE Next
  <2>1. Shape'
    BY ShapeStep
  <2>2. PICK n \in Node :
          \/ \E k \in Key : GetLock(n, k) \/ \E kind \in Kinds : CreateLock(n, k, kind)
          \/ FinalizeNode(n) \/ (CallLock(n) \/ CallUnlock(n) \/ CallDelete(n))
          \/ Enter(n) \/ LockStep(n)
    BY <1>2 DEF Next
  <2>3. CASE \E k \in Key : GetLock(n, k)
    BY <2>3, GetLocks
  <2>4. CASE \E k \in Key, kind \in Kinds : CreateLock(n, k, kind)
    BY <2>4, CreateLocks
  <2>5. CASE FinalizeNode(n)
    BY <2>5, FinalizeLocks
  <2>6. CASE CallLock(n) \/ CallUnlock(n) \/ CallDelete(n)
    BY <2>6, CallLocks
  <2>7. CASE Enter(n)
    BY <2>7, EnterLocks
  <2>8. CASE LockStep(n)
    BY <2>1, <2>8, CheckHandleLocks, MutexLockLocks, ReadLimitLocks, TryAcquireLocks,
       TakeSharesLocks, AgainLocks, MutexUnlockLocks, ReleaseLocks, DeleteLocks DEF LockStep
  <2> QED BY <2>2, <2>3, <2>4, <2>5, <2>6, <2>7, <2>8
<1> QED BY <1>1, <1>2

-----------------------------------------------------------------------------
(* The theorems.                                                           *)

\* The inductive invariant.
Inv == Shape /\ UsersInv /\ SectionInv /\ LockState

\* It is one, when all sections are under member 0 and an entry is created again
\* only after its users.
LEMMA InvHolds ==
  ASSUME OneMember, ~Reuse
  PROVE  Spec => []Inv
<1>1. Init => Inv
  BY InitShape, InitSections, InitLocks DEF Inv
<1>2. Inv /\ [Next]_vars => Inv'
  BY ShapeStep, UsersStep, SectionsApart, LocksStep DEF Inv
<1> QED BY <1>1, <1>2, PTL DEF Spec

\* The entry of a lock agrees at all times with what its users have been
\* granted by mrapi_impl_acquire_lock_locked and have given back.
THEOREM DatabaseAgrees ==
  ASSUME OneMember, ~Reuse
  PROVE  Spec => []DatabaseExact
<1>1. Inv => DatabaseExact
  <2> SUFFICES ASSUME Inv, NEW s \in Slot, sems[s].valid, ~down
               PROVE  /\ sems[s].numLocks = sems[s].limit - Cardinality(SharesOf(s, None))
                      /\ \A n \in Node :
                           IF sems[s].type = "mutex"
                           THEN /\ SharesOf(s, n) # {} <=> held[n][s] > 0
                                /\ held[n][s] > 0 => sems[s].lockKey = held[n][s] - 1
                           ELSE Cardinality(SharesOf(s, n)) = held[n][s]
    BY DEF DatabaseExact
  <2>1. SharesOk(s)
    BY DEF Inv, LockState, SharesInv
  <2> QED BY <2>1, SharesAre DEF SharesOk, GrantedOk
<1> QED BY <1>1, InvHolds, PTL

\* The variables keep their types: the counters of an entry stay within the
\* limit and the depth, the count of users within the number of nodes, and no
\* member of the semaphore is ever given back twice.
THEOREM TypeCorrect ==
  ASSUME OneMember, ~Reuse
  PROVE  Spec => []TypeOK
<1>1. Inv => TypeOK
  <2> SUFFICES ASSUME Inv PROVE TypeOK
    OBVIOUS
  <2>1. ASSUME NEW s \in Slot
        PROVE  sems[s] \in [valid : BOOLEAN, deleted : BOOLEAN, key : Key \union {None},
                       type : {"mutex", "sem", "rwl"}, limit : 0..MaxShares,
                       recursive : BOOLEAN, ext : BOOLEAN,
                       holder : [Share -> Node \union {None}], lockKey : 0..MaxDepth,
                       numLocks : 0..MaxShares, refs : 0..Cardinality(Node)]
    <3>1. sems[s] \in LockRec /\ sems[s].lockKey \in 0..MaxDepth /\ sems[s].numLocks \in 0..MaxShares
      BY DEF Inv, Shape, LockState, EntryInv, EntryOk
    <3>2. sems[s].refs \in 0..Cardinality(Node)
      <4>1. /\ Cardinality(Logged(s)) \in Nat /\ Cardinality(Logged(s)) <= Cardinality(Node)
            /\ sems[s].refs \in Int
        BY UsersFinite DEF Inv
      <4>2. 0 <= sems[s].refs /\ sems[s].refs <= Cardinality(Logged(s))
        BY DEF Inv, UsersInv, UsedBy
      <4>3. Cardinality(Node) \in Nat
        BY Names, FS_CardinalityType
      <4> QED BY <4>1, <4>2, <4>3
    <3> QED BY <3>1, <3>2 DEF LockRec
  <2>2. member \in [Slot -> 0..1]
    <3>1. member[0] \in 0..1 /\ \A x \in Slot \ {0} : member[x] \in 0..1
      BY DEF Inv, SectionInv
    <3> QED BY <3>1 DEF Inv, Shape
  <2>3. held \in [Node -> [Slot -> (0..MaxDepth) \union Share]]
    <3>1. \A n \in Node : held[n] \in [Slot -> (0..MaxDepth) \union Share]
      BY DEF Inv, Shape, LockState, HeldInv
    <3> QED BY <3>1 DEF Inv, Shape
  <2>4. ASSUME NEW n \in Node
        PROVE  /\ call[n].stage \in Stage
               /\ call[n] # NoCall => /\ call[n].slot \in handles[n] /\ call[n].num \in Share
                                      /\ call[n].inside \in BOOLEAN
    <3>1. CASE call[n] = NoCall
      BY <3>1 DEF NoCall, Stage
    <3>2. CASE call[n] # NoCall
      <4>1. call[n] \in CallRec
        BY <3>2, InCall DEF Inv
      <4>2. call[n].slot \in handles[n] /\ call[n].slot \in users[n] /\ call[n].slot \in Slot
        BY <3>2, <4>1 DEF Inv, UsersInv, UserOf, CallRec
      <4>3. sems[call[n].slot].limit \in Share /\ 1 \in Share
        <5>1. EntryOk(sems[call[n].slot]) /\ sems[call[n].slot].key # None
          BY <4>2 DEF Inv, LockState, EntryInv
        <5> QED BY <5>1, Names DEF EntryOk
      <4>4. call[n].num \in Share
        BY <3>2, <4>3 DEF Inv, LockState, CallsInv, CallOk
      <4> QED BY <4>1, <4>2, <4>4 DEF CallRec
    <3> QED BY <3>1, <3>2
  <2>5. sems \in [Slot -> [valid : BOOLEAN, deleted : BOOLEAN, key : Key \union {None},
                       type : {"mutex", "sem", "rwl"}, limit : 0..MaxShares,
                       recursive : BOOLEAN, ext : BOOLEAN,
                       holder : [Share -> Node \union {None}], lockKey : 0..MaxDepth,
                       numLocks : 0..MaxShares, refs : 0..Cardinality(Node)]]
    BY <2>1 DEF Inv, Shape
  <2> QED BY <2>2, <2>3, <2>4, <2>5 DEF TypeOK, Inv, Shape, SectionInv
<1> QED BY <1>1, InvHolds, PTL

-----------------------------------------------------------------------------
(* The locks of the interface.                                             *)

\* What a node has been granted is what it has of the shares of the entry.
LEMMA GrantedShares ==
  ASSUME Inv, NEW s \in Slot, sems[s].valid, ~down, NEW n \in Node
  PROVE  /\ Granted(s, n) = Cardinality(Owned(sems[s], n)) /\ held[n][s] \in Nat
         /\ Granted(s, n) \in 0..sems[s].limit
<1> DEFINE l == sems[s]
           v == held[n][s]
<1>1. l \in LockRec /\ SharesOk(s) /\ GrantedOk(l, n, v) /\ v \in (0..MaxDepth) \union Share
  <2>1. l \in LockRec /\ SharesOk(s) /\ v \in (0..MaxDepth) \union Share
    BY DEF Inv, Shape, LockState, SharesInv, HeldInv
  <2> QED BY <2>1 DEF SharesOk
<1>2. Cardinality(Owned(l, n)) \in 0..l.limit
  BY <1>1, OwnedFinite
<1>3. v \in Nat
  <2>1. v \in (0..MaxDepth) \union Share
    BY <1>1
  <2> HIDE DEF v
  <2> QED BY <2>1, Names
<1>4. CASE l.type # "mutex"
  BY <1>1, <1>2, <1>3, <1>4 DEF Granted, GrantedOk
<1>5. CASE l.type = "mutex"
  <2>1. CASE Owned(l, n) = {}
    <3>1. v = 0 /\ Cardinality(Owned(l, n)) = 0
      <4>1. ~(v > 0)
        BY <1>1, <1>5, <2>1 DEF GrantedOk
      <4>2. Cardinality(Owned(l, n)) = 0
        BY <2>1, FS_EmptySet
      <4> HIDE DEF v
      <4> QED BY <1>3, <4>1, <4>2
    <3>2. Granted(s, n) = 0
      BY <3>1 DEF Granted
    <3> QED BY <1>2, <1>3, <3>1, <3>2
  <2>2. CASE Owned(l, n) # {}
    <3>1. l.limit \in 0..1
      <4>1. EntryOk(l) /\ l.limit \in 0..MaxShares
        BY <1>1 DEF Inv, LockState, EntryInv, LockRec
      <4>2. l.key # None
        BY <4>1 DEF EntryOk
      <4> QED BY <1>5, <4>1, <4>2 DEF EntryOk
    <3>2. Cardinality(Owned(l, n)) = 1
      <4>1. Cardinality(Owned(l, n)) # 0
        BY <1>1, <2>2, OwnedFinite
      <4> HIDE DEF l
      <4> QED BY <1>2, <3>1, <4>1
    <3>3. v > 0
      BY <1>1, <1>5, <2>2 DEF GrantedOk
    <3>4. Granted(s, n) = 1
      <4>1. Granted(s, n) = IF v > 1 THEN 1 ELSE v
        BY <1>5 DEF Granted
      <4> HIDE DEF v
      <4> QED BY <1>3, <3>3, <4>1
    <3> QED BY <1>2, <1>3, <3>2, <3>4
  <2> QED BY <2>1, <2>2
<1> QED BY <1>4, <1>5

\* A prefix of the shares of a node, by its length.
LEMMA LowestGrows ==
  ASSUME NEW S \in SUBSET Nat, IsFiniteSet(S), NEW i \in Nat, NEW j \in Nat, i <= j
  PROVE  Lowest(S, i) \subseteq Lowest(S, j)
<1> SUFFICES ASSUME NEW x \in S, Cardinality({y \in S : y <= x}) <= i
             PROVE  Cardinality({y \in S : y <= x}) <= j
  BY DEF Lowest
<1> DEFINE k == Cardinality({y \in S : y <= x})
<1>1. {y \in S : y <= x} \in SUBSET S
  OBVIOUS
<1>2. k \in Nat /\ k <= i
  BY <1>1, FS_Subset, FS_CardinalityType
<1> HIDE DEF k
<1>3. k <= j
  BY <1>2
<1> QED BY <1>3 DEF k

\* The shares that have been granted are shares that are not free: each of
\* those counted is the next lowest one of its holder.
LEMMA TakenShares ==
  ASSUME Inv, NEW s \in Slot, sems[s].valid, ~down
  PROVE  LockTable!Taken(s) \in Nat /\ LockTable!Taken(s) <= sems[s].numLocks
<1> DEFINE l == sems[s]
           T == {x \in Node \X (1..MaxShares) : x[2] <= Granted(s, x[1])}
           S == (1..l.limit) \ Owned(l, None)
           P(x, k) == Lowest(Owned(l, x[1]), k)
           f == [x \in T |-> CHOOSE i : i \in P(x, x[2]) \ P(x, x[2] - 1)]
<1>1. l \in LockRec /\ l.numLocks = l.limit - Cardinality(Owned(l, None)) /\ l.limit \in 0..MaxShares
  BY DEF Inv, Shape, LockState, SharesInv, SharesOk, LockRec
<1>2. IsFiniteSet(S) /\ Cardinality(S) = l.numLocks
  <2> DEFINE j == l.limit
             U == Owned(l, None)
  <2>1. j \in Nat /\ 1 \in Int /\ j \in Int /\ U \in SUBSET (1..j) /\ IsFiniteSet(U)
        /\ l.numLocks = j - Cardinality(U)
    BY <1>1, OwnedFinite, Names
  <2> HIDE DEF j, U
  <2>2. IsFiniteSet(1..j) /\ Cardinality(1..j) = IF 1 > j THEN 0 ELSE j - 1 + 1
    BY <2>1, FS_Interval
  <2>3. Cardinality(1..j) = j
    BY <2>1, <2>2
  <2>4. IsFiniteSet((1..j) \ U) /\ Cardinality((1..j) \ U) = Cardinality(1..j) - Cardinality((1..j) \intersect U)
    BY <2>2, FS_Difference
  <2>5. (1..j) \intersect U = U
    BY <2>1
  <2>6. Cardinality((1..j) \ U) = j - Cardinality(U)
    BY <2>3, <2>4, <2>5
  <2> QED BY <2>1, <2>4, <2>6 DEF j, U
<1>3. LockTable!Taken(s) = Cardinality(T)
  <2>1. \A x \in Node \X (1..MaxShares) : x[1] \in Node
    OBVIOUS
  <2>2. LockTable!Taken(s) = Cardinality({x \in Node \X (1..MaxShares) : x[2] <= OwnedBy[s][x[1]]})
    <3>1. \A Q : LockTable!Cardinality(Q) = Cardinality(Q)
      BY DEF LockTable!Cardinality, Cardinality
    <3> QED BY <3>1 DEF LockTable!Taken
  <2>3. \A x \in Node \X (1..MaxShares) : OwnedBy[s][x[1]] = Granted(s, x[1])
    BY <2>1 DEF OwnedBy
  <2>4. T = {x \in Node \X (1..MaxShares) : x[2] <= OwnedBy[s][x[1]]}
    BY <2>3
  <2> QED BY <2>2, <2>4
<1>4. ASSUME NEW x \in T
      PROVE  /\ x[1] \in Node /\ x[2] \in Nat /\ x[2] - 1 \in Nat /\ x = <<x[1], x[2]>>
             /\ P(x, x[2]) \ P(x, x[2] - 1) # {}
             /\ P(x, x[2]) \subseteq Owned(l, x[1])
  <2> DEFINE O == Owned(l, x[1])
             k == x[2]
  <2>1. x[1] \in Node /\ k \in 1..MaxShares /\ x = <<x[1], x[2]>> /\ k <= Granted(s, x[1])
    OBVIOUS
  <2>2. k \in Nat /\ k - 1 \in Nat /\ k # k - 1 /\ k - 1 <= k
    <3> HIDE DEF k
    <3> QED BY <2>1, Names
  <2>3. O \in SUBSET Nat /\ IsFiniteSet(O) /\ k <= Cardinality(O) /\ Cardinality(O) \in Nat
    <3>1. O \in SUBSET Nat /\ IsFiniteSet(O)
      BY <1>1, OwnedFinite
    <3>2. Granted(s, x[1]) = Cardinality(O)
      BY <2>1, GrantedShares
    <3> QED BY <2>1, <3>1, <3>2, FS_CardinalityType
  <2> HIDE DEF O, k
  <2>4. k - 1 <= Cardinality(O)
    BY <2>2, <2>3
  <2>5. Cardinality(Lowest(O, k)) = k /\ Cardinality(Lowest(O, k - 1)) = k - 1 /\ Lowest(O, k) \subseteq O
    BY <2>2, <2>3, <2>4, LowestCount
  <2>6. Lowest(O, k - 1) \subseteq Lowest(O, k)
    BY <2>2, <2>3, LowestGrows
  <2>7. Lowest(O, k) # Lowest(O, k - 1)
    BY <2>2, <2>5
  <2>8. Lowest(O, k) \ Lowest(O, k - 1) # {}
    BY <2>6, <2>7
  <2> QED BY <2>1, <2>2, <2>5, <2>8 DEF O, k
<1>5. ASSUME NEW x \in T PROVE f[x] \in P(x, x[2]) /\ f[x] \notin P(x, x[2] - 1)
  <2>1. \E i : i \in P(x, x[2]) \ P(x, x[2] - 1)
    BY <1>4
  <2> HIDE DEF P
  <2> QED BY <2>1
<1> HIDE DEF f
<1>6. ASSUME NEW x \in T PROVE f[x] \in S
  <2>1. f[x] \in Owned(l, x[1]) /\ x[1] # None
    BY <1>4, <1>5, Names
  <2> QED BY <2>1 DEF Owned
<1>7. ASSUME NEW x \in T, NEW y \in T, f[x] = f[y] PROVE x = y
  <2>1. f[x] \in Owned(l, x[1]) /\ f[x] \in Owned(l, y[1])
    BY <1>4, <1>5, <1>7
  <2>2. x[1] = y[1]
    BY <2>1 DEF Owned
  <2> DEFINE O == Owned(l, x[1])
             i == x[2]
             j == y[2]
  <2>3. O \in SUBSET Nat /\ IsFiniteSet(O)
    BY <1>1, OwnedFinite
  <2>4. i \in Nat /\ j \in Nat /\ i - 1 \in Nat /\ j - 1 \in Nat
    BY <1>4
  <2>5. /\ f[x] \in Lowest(O, i) /\ f[x] \notin Lowest(O, i - 1)
        /\ f[x] \in Lowest(O, j) /\ f[x] \notin Lowest(O, j - 1)
    BY <1>5, <1>7, <2>2
  <2> HIDE DEF O, i, j
  <2>6. ~(i <= j - 1) /\ ~(j <= i - 1)
    BY <2>3, <2>4, <2>5, LowestGrows
  <2>7. i = j
    BY <2>4, <2>6
  <2> QED BY <1>4, <2>2, <2>7 DEF i, j
<1>8. f \in [T -> S]
  BY <1>6 DEF f
<1> HIDE DEF T, S
<1>9. f \in Injection(T, S)
  <2> HIDE DEF l
  <2>1. \A x, y \in T : f[x] = f[y] => x = y
    BY <1>7
  <2> QED BY <1>8, <2>1 DEF Injection, IsInjective
<1>10. IsFiniteSet(T) /\ Cardinality(T) <= Cardinality(S)
  BY <1>2, <1>9, FS_Injection
<1> QED BY <1>2, <1>3, <1>10, FS_CardinalityType

\* The nodes, the locks that exist, and their limits, after a step.
LEMMA TableKept ==
  ASSUME UNCHANGED <<down, nodes>>,
         \A s \in Slot : sems'[s].valid = sems[s].valid /\ sems'[s].limit = sems[s].limit
  PROVE  UNCHANGED <<Present, Live, Limit>>
BY DEF Present, Live, Limit

\* A step that grants nothing.
LEMMA TableSame ==
  ASSUME \A s \in Slot, n \in Node : Granted(s, n)' = Granted(s, n)
  PROVE  OwnedBy' = OwnedBy
<1>1. \A s \in Slot : [n \in Node |-> Granted(s, n)'] = [n \in Node |-> Granted(s, n)]
  OBVIOUS
<1>2. OwnedBy' = [s \in Slot |-> [n \in Node |-> Granted(s, n)']]
  BY DEF OwnedBy
<1>3. OwnedBy = [s \in Slot |-> [n \in Node |-> Granted(s, n)]]
  BY DEF OwnedBy
<1> QED BY <1>1, <1>2, <1>3

\* A step that changes what one node has been granted of one lock.
LEMMA TableGrants ==
  ASSUME NEW n \in Node, NEW s \in Slot, NEW v, Granted(s, n)' = v,
         \A x \in Slot, o \in Node : ~(x = s /\ o = n) => Granted(x, o)' = Granted(x, o)
  PROVE  OwnedBy' = [OwnedBy EXCEPT ![s][n] = v]
<1>1. /\ \A x \in Slot : OwnedBy[x] = [o \in Node |-> Granted(x, o)]
      /\ \A x \in Slot : OwnedBy'[x] = [o \in Node |-> Granted(x, o)']
      /\ DOMAIN OwnedBy = Slot /\ OwnedBy' = [x \in Slot |-> OwnedBy'[x]]
  BY DEF OwnedBy
<1>2. \A x \in Slot \ {s} : OwnedBy'[x] = OwnedBy[x]
  <2> SUFFICES ASSUME NEW x \in Slot \ {s} PROVE OwnedBy'[x] = OwnedBy[x]
    OBVIOUS
  <2>1. \A o \in Node : Granted(x, o)' = Granted(x, o)
    OBVIOUS
  <2> QED BY <1>1, <2>1
<1>3. OwnedBy'[s] = [OwnedBy[s] EXCEPT ![n] = v]
  <2>1. \A o \in Node : Granted(s, o)' = IF o = n THEN v ELSE Granted(s, o)
    OBVIOUS
  <2>2. OwnedBy'[s] = [o \in Node |-> IF o = n THEN v ELSE Granted(s, o)]
    BY <1>1, <2>1
  <2>3. OwnedBy[s] = [o \in Node |-> Granted(s, o)]
    BY <1>1
  <2> QED BY <2>2, <2>3
<1>4. OwnedBy' = [OwnedBy EXCEPT ![s] = [OwnedBy[s] EXCEPT ![n] = v]]
  <2> DEFINE w == [OwnedBy[s] EXCEPT ![n] = v]
             f == [OwnedBy EXCEPT ![s] = w]
  <2>1. \A x \in Slot : f[x] = IF x = s THEN w ELSE OwnedBy[x]
    BY <1>1
  <2>2. f = [x \in Slot |-> f[x]]
    BY <1>1
  <2> HIDE DEF f
  <2>3. \A x \in Slot : OwnedBy'[x] = f[x]
    BY <1>2, <1>3, <2>1
  <2>4. OwnedBy' = f
    BY <1>1, <2>2, <2>3
  <2> QED BY <2>4 DEF f
<1> QED BY <1>4

\* A step after which nobody has been granted anything of one lock.
LEMMA TableClears ==
  ASSUME NEW s \in Slot, \A o \in Node : Granted(s, o)' = 0,
         \A x \in Slot \ {s}, o \in Node : Granted(x, o)' = Granted(x, o)
  PROVE  OwnedBy' = [OwnedBy EXCEPT ![s] = LockTable!Nobody]
<1>1. /\ \A x \in Slot : OwnedBy[x] = [o \in Node |-> Granted(x, o)]
      /\ \A x \in Slot : OwnedBy'[x] = [o \in Node |-> Granted(x, o)']
      /\ DOMAIN OwnedBy = Slot /\ OwnedBy' = [x \in Slot |-> OwnedBy'[x]]
  BY DEF OwnedBy
<1>2. \A x \in Slot \ {s} : OwnedBy'[x] = OwnedBy[x]
  <2> SUFFICES ASSUME NEW x \in Slot \ {s} PROVE OwnedBy'[x] = OwnedBy[x]
    OBVIOUS
  <2>1. \A o \in Node : Granted(x, o)' = Granted(x, o)
    OBVIOUS
  <2> QED BY <1>1, <2>1
<1>3. OwnedBy'[s] = LockTable!Nobody
  BY <1>1 DEF LockTable!Nobody
<1> DEFINE f == [OwnedBy EXCEPT ![s] = LockTable!Nobody]
<1>4. /\ \A x \in Slot : f[x] = IF x = s THEN LockTable!Nobody ELSE OwnedBy[x]
      /\ f = [x \in Slot |-> f[x]]
  BY <1>1
<1> HIDE DEF f
<1>5. \A x \in Slot : OwnedBy'[x] = f[x]
  BY <1>2, <1>3, <1>4
<1>6. OwnedBy' = f
  BY <1>1, <1>4, <1>5
<1> QED BY <1>6 DEF f

\* Steps that leave the table of the interface as it is: they change neither
\* the locks nor what has been granted.
LEMMA TableQuiet ==
  ASSUME UNCHANGED <<sems, held, down, nodes, using>>
  PROVE  UNCHANGED LockTable!vars
<1>1. UNCHANGED <<Present, Live, Limit>>
  BY TableKept
<1>2. \A s \in Slot, n \in Node : Granted(s, n)' = Granted(s, n)
  BY DEF Granted
<1> QED BY <1>1, <1>2, TableSame DEF LockTable!vars

\* Getting a lock.
LEMMA GetTable ==
  ASSUME Shape, NEW n \in Node, NEW k \in Key, GetLock(n, k)
  PROVE  \E s \in Slot : LockTable!Get(n, s)
<1>1. PICK s \in Slot :
        /\ \A x \in Slot \ {s} : sems'[x] = sems[x]
        /\ SameLock(sems[s], sems'[s]) /\ UNCHANGED <<down, nodes, held>> /\ Idle(n)
        /\ using' \in [Slot -> SUBSET Node] /\ using'[s] = using[s] \union {n}
        /\ \A x \in Slot \ {s} : using'[x] = using[x]
  BY GetLockStep
<1>2. \A x \in Slot : /\ sems'[x].valid = sems[x].valid /\ sems'[x].limit = sems[x].limit
                      /\ sems'[x].type = sems[x].type
  BY <1>1 DEF SameLock
<1>3. UNCHANGED <<Present, Live, Limit>>
  BY <1>1, <1>2, TableKept
<1>4. \A x \in Slot, o \in Node : Granted(x, o)' = Granted(x, o)
  BY <1>1, <1>2 DEF Granted
<1>5. n \in Present
  BY <1>1 DEF Present, Idle
<1>6. using' = [using EXCEPT ![s] = @ \union {n}]
  BY <1>1 DEF Shape
<1> QED BY <1>3, <1>4, <1>5, <1>6, TableSame DEF LockTable!Get

\* Creating a lock.
LEMMA CreateTable ==
  ASSUME Shape, NEW n \in Node, NEW k \in Key, NEW kind \in Kinds, CreateLock(n, k, kind)
  PROVE  \E s \in Slot : LockTable!Create(n, s)
<1>1. PICK s \in Slot :
        /\ Idle(n) /\ ~sems[s].valid /\ EntryIs(s, NewLock(k, kind)) /\ NobodyIs(s)
        /\ UNCHANGED <<down, nodes>>
        /\ using' \in [Slot -> SUBSET Node] /\ using'[s] = {n}
        /\ \A x \in Slot \ {s} : using'[x] = using[x]
  BY CreateLockStep
<1>2. /\ ~down /\ sems'[s].valid = TRUE /\ sems'[s].limit = kind.limit
      /\ \A x \in Slot \ {s} : sems'[x] = sems[x]
      /\ \A o \in Node, x \in Slot : held'[o][x] = IF x = s THEN 0 ELSE held[o][x]
  BY <1>1, NewFields DEF Idle, EntryIs, NobodyIs, NewLock
<1>3. kind.limit \in 1..MaxShares
  BY LocksAssumption
<1>4. s \notin Live /\ Live' = Live \union {s}
  BY <1>1, <1>2 DEF Live
<1>5. Limit' = [Limit EXCEPT ![s] = kind.limit]
  BY <1>2 DEF Limit
<1>6. /\ \A o \in Node : Granted(s, o)' = 0
      /\ \A x \in Slot \ {s}, o \in Node : Granted(x, o)' = Granted(x, o)
  BY <1>2 DEF Granted
<1>7. OwnedBy' = [OwnedBy EXCEPT ![s] = LockTable!Nobody]
  BY <1>6, TableClears
<1>8. n \in Present /\ Present' = Present
  BY <1>1 DEF Present, Idle
<1>9. using' = [using EXCEPT ![s] = {n}]
  BY <1>1 DEF Shape
<1> QED BY <1>3, <1>4, <1>5, <1>7, <1>8, <1>9 DEF LockTable!Create

\* The end of a node: a lock that another node uses stays.
LEMMA FinalizeTable ==
  ASSUME Shape, UsersInv, NEW n \in Node, FinalizeNode(n)
  PROVE  LockTable!Leave(n)
<1>1. /\ UNCHANGED <<down, held, users, using>> /\ Idle(n) /\ nodes' = nodes \ {n}
      /\ \A s \in Slot : /\ ~sems[s].valid => sems'[s] = sems[s]
                         /\ sems'[s].type = sems[s].type /\ sems'[s].limit = sems[s].limit
  BY FinalizeStep
<1>2. n \in Present /\ Present' = Present \ {n} /\ Present' = nodes'
  BY <1>1 DEF Present, Idle
<1>3. Limit' = Limit
  BY <1>1 DEF Limit
<1>4. \A x \in Slot, o \in Node : Granted(x, o)' = Granted(x, o)
  BY <1>1 DEF Granted
<1>5. OwnedBy' = OwnedBy
  BY <1>4, TableSame
<1>6. Live' \subseteq Live
  BY <1>1 DEF Live
<1>7. ASSUME NEW s \in Live \ Live' PROVE using[s] \intersect Present' = {}
  <2>1. s \in Slot /\ sems[s].valid /\ ~sems'[s].valid
    BY <1>1 DEF Live
  <2>2. Active(s)' = {}
    BY <2>1, FinalizeUsers
  <2>3. using[s] \subseteq Logged(s)
    BY <2>1 DEF UsersInv, UsedBy
  <2> QED BY <1>1, <1>2, <2>2, <2>3 DEF Logged, Active
<1> QED BY <1>1, <1>2, <1>3, <1>5, <1>6, <1>7 DEF LockTable!Leave

\* The key of a recursive mutex is not seen.
LEMMA KeyTable ==
  ASSUME NEW n \in Node, NEW s \in Slot, NEW a, NEW v \in Int, KeyIs(s, a), HeldIs(n, s, v),
         UNCHANGED <<down, nodes, using>>, sems[s].type = "mutex", v > 0, held[n][s] \in Nat, held[n][s] > 0
  PROVE  UNCHANGED LockTable!vars
<1>1. \A x \in Slot : /\ sems'[x].valid = sems[x].valid /\ sems'[x].limit = sems[x].limit
                      /\ sems'[x].type = sems[x].type
  BY DEF KeyIs, SameLock
<1>2. UNCHANGED <<Present, Live, Limit>>
  BY <1>1, TableKept
<1>3. Granted(s, n) = 1 /\ Granted(s, n)' = 1
  <2>1. held'[n][s] = v /\ sems'[s].type = "mutex"
    BY <1>1 DEF HeldIs
  <2> QED BY <2>1 DEF Granted
<1>4. \A x \in Slot, o \in Node : ~(x = s /\ o = n) => Granted(x, o)' = Granted(x, o)
  <2>1. \A x \in Slot, o \in Node : ~(x = s /\ o = n) => held'[o][x] = held[o][x]
    BY DEF HeldIs
  <2> QED BY <1>1, <2>1 DEF Granted
<1>5. \A x \in Slot, o \in Node : Granted(x, o)' = Granted(x, o)
  BY <1>3, <1>4
<1> QED BY <1>2, <1>5, TableSame DEF LockTable!vars

\* The first section of mrapi_impl_mutex_lock: locking again is not seen.
LEMMA MutexLockTable ==
  ASSUME Inv, NEW n \in Node, MutexLock(n)
  PROVE  UNCHANGED LockTable!vars
<1>0. /\ Shape /\ In(n, "mutex lock") /\ "mutex lock" \in Stage \ {"idle"} /\ call[n].slot \in Slot
      /\ UsersInv /\ SectionInv /\ LockState
  <2>1. In(n, "mutex lock") /\ "mutex lock" \in Stage \ {"idle"}
    BY MutexLockStep DEF Stage, Inv
  <2> QED BY <2>1, AtSection DEF Inv
<1> PICK s \in Slot : s = call[n].slot
  BY <1>0
<1>1. \/ /\ LockedBy(n, s) /\ KeyIs(s, sems[s].lockKey + 1) /\ HeldIs(n, s, held[n][s] + 1)
      \/ UNCHANGED <<sems, held>>
  BY <1>0, MutexLockStep
<1>2. UNCHANGED <<down, nodes, using>>
  BY <1>0, MutexLockStep
<1>3. CASE UNCHANGED <<sems, held>>
  BY <1>2, <1>3, TableQuiet
<1>4. CASE LockedBy(n, s) /\ KeyIs(s, sems[s].lockKey + 1) /\ HeldIs(n, s, held[n][s] + 1)
  <2> DEFINE l == sems[s]
             v == held[n][s]
  <2>1. /\ l \in LockRec /\ ~down /\ l.limit \in Share /\ (l.type = "mutex" => l.limit = 1)
        /\ v \in (0..MaxDepth) \union Share /\ l.type = "mutex"
        /\ SharesOk(s) /\ BeyondOk(n, call[n], l)
    BY <1>0, AtSection DEF CallOk
  <2>2. Owned(l, n) # {}
    BY <1>4, <2>1, MutexOwner DEF LockedBy
  <2>3. v > 0
    <3>1. l.valid
      BY <2>1, <2>2 DEF BeyondOk
    <3>2. GrantedOk(l, n, v)
      BY <2>1, <3>1 DEF SharesOk
    <3> QED BY <2>1, <2>2, <3>2 DEF GrantedOk
  <2> DEFINE w == v + 1
  <2> HIDE DEF v
  <2>4. v \in Nat /\ w \in Int /\ w > 0
    BY <2>1, <2>3, Names
  <2>5. HeldIs(n, s, w)
    BY <1>4 DEF v
  <2> HIDE DEF w
  <2> QED BY <1>2, <1>4, <2>1, <2>3, <2>4, <2>5, KeyTable DEF v
<1> QED BY <1>1, <1>3, <1>4

\* The section of mrapi_impl_mutex_unlock: a mutex that stays locked.
LEMMA MutexUnlockTable ==
  ASSUME Inv, NEW n \in Node, MutexUnlock(n)
  PROVE  UNCHANGED LockTable!vars
<1>0. /\ Shape /\ In(n, "mutex unlock") /\ "mutex unlock" \in Stage \ {"idle"}
      /\ call[n].slot \in Slot /\ UsersInv /\ SectionInv /\ LockState
  <2>1. In(n, "mutex unlock") /\ "mutex unlock" \in Stage \ {"idle"}
    BY MutexUnlockStep DEF Stage, Inv
  <2> QED BY <2>1, AtSection DEF Inv
<1> PICK s \in Slot : s = call[n].slot
  BY <1>0
<1>1. \/ /\ UnlocksRecursion(n, s, call[n].key) /\ KeyIs(s, sems[s].lockKey - 1)
         /\ HeldIs(n, s, held[n][s] - 1)
      \/ UNCHANGED <<sems, held>>
  BY <1>0, MutexUnlockStep
<1>2. UNCHANGED <<down, nodes, using>>
  BY <1>0, MutexUnlockStep
<1>3. CASE UNCHANGED <<sems, held>>
  BY <1>2, <1>3, TableQuiet
<1>4. CASE /\ UnlocksRecursion(n, s, call[n].key) /\ KeyIs(s, sems[s].lockKey - 1)
           /\ HeldIs(n, s, held[n][s] - 1)
  <2> DEFINE l == sems[s]
             v == held[n][s]
  <2>1. /\ l \in LockRec /\ ~down /\ l.limit \in Share /\ (l.type = "mutex" => l.limit = 1)
        /\ v \in (0..MaxDepth) \union Share /\ l.type = "mutex" /\ EntryOk(l)
        /\ SharesOk(s) /\ BeyondOk(n, call[n], l)
    BY <1>0, AtSection DEF CallOk
  <2>2. Owned(l, n) # {} /\ l.lockKey # 0
    BY <1>4, <2>1, MutexOwner DEF UnlocksRecursion, LockedBy
  <2>3. v > 0 /\ l.lockKey = v - 1
    <3>1. l.valid
      BY <2>1, <2>2 DEF BeyondOk
    <3>2. GrantedOk(l, n, v)
      BY <2>1, <3>1 DEF SharesOk
    <3> QED BY <2>1, <2>2, <3>2 DEF GrantedOk
  <2> DEFINE w == v - 1
  <2> HIDE DEF v
  <2>4. v \in Nat /\ w \in Int /\ w > 0
    <3>1. v \in Nat
      BY <2>1, Names
    <3>2. w # 0
      BY <2>2, <2>3
    <3> QED BY <2>3, <3>1, <3>2
  <2>5. HeldIs(n, s, w)
    BY <1>4 DEF v
  <2> HIDE DEF w
  <2> QED BY <1>2, <1>4, <2>1, <2>3, <2>4, <2>5, KeyTable DEF v
<1> QED BY <1>1, <1>3, <1>4

\* The loop of mrapi_impl_acquire_lock_locked: the shares are those of the
\* request, and no more than there are.
LEMMA TakeSharesTable ==
  ASSUME Inv, NEW n \in Node, TakeShares(n)
  PROVE  \E s \in Slot : LockTable!Acquire(n, s)
<1>0. /\ Shape /\ In(n, "take") /\ "take" \in Stage \ {"idle"} /\ call[n].slot \in Slot
      /\ UsersInv /\ SectionInv /\ LockState
  <2>1. In(n, "take") /\ "take" \in Stage \ {"idle"}
    BY TakeSharesStep DEF Stage, Inv
  <2> QED BY <2>1, AtSection DEF Inv
<1> PICK s \in Slot : s = call[n].slot
  BY <1>0
<1> DEFINE l == sems[s]
           v == held[n][s]
           num == call[n].num
           free == Owned(l, None)
           got == Lowest(free, num)
           m == Grant(l, n, got)
<1>1. /\ ~down /\ l \in LockRec /\ call[n].stage = "take"
      /\ EntryOk(l) /\ l.limit \in Share /\ (l.type = "mutex" => l.limit = 1)
      /\ num \in Share /\ v \in (0..MaxDepth) \union Share
      /\ CallOk(call[n], l, v) /\ SharesOk(s) /\ BeyondOk(n, call[n], l)
  BY <1>0, AtSection
<1>2. /\ UNCHANGED <<down, nodes, using>> /\ got \in SUBSET free /\ EntryIs(s, m)
      /\ \/ Cardinality(got) = num /\ HeldIs(n, s, v + num)
         \/ Cardinality(got) # num
  BY <1>0, TakeSharesStep
<1>3. /\ v \in Nat /\ num \in Nat /\ num # 0 /\ l.limit \in Nat /\ l.numLocks \in Nat
  <2>1. num \in Share /\ l.limit \in Share /\ l.numLocks \in 0..MaxShares /\ v \in (0..MaxDepth) \union Share
    BY <1>1 DEF EntryOk
  <2> HIDE DEF num, l, v
  <2> QED BY <2>1, Names
<1>4. /\ free \in SUBSET Nat /\ IsFiniteSet(free) /\ Cardinality(free) \in 0..l.limit
      /\ l.numLocks = l.limit - Cardinality(free) /\ l.valid /\ l.limit - l.numLocks >= num
  BY <1>1, OwnedFinite DEF SharesOk, BeyondOk
<1>5. Cardinality(free) \in Nat /\ num <= Cardinality(free) /\ free # {}
  <2>1. Cardinality(free) \in Nat /\ num <= Cardinality(free)
    <3>1. Cardinality(free) \in 0..l.limit /\ l.numLocks = l.limit - Cardinality(free)
          /\ l.limit - l.numLocks >= num
      BY <1>4
    <3> HIDE DEF free, l, num
    <3> QED BY <1>3, <3>1
  <2>2. Cardinality(free) # 0
    <3> HIDE DEF free, num
    <3> QED BY <1>3, <2>1
  <2> QED BY <2>1, <2>2, FS_EmptySet
<1>6. HeldIs(n, s, v + num)
  <2>1. Cardinality(got) = num
    <3> HIDE DEF free, num
    <3> QED BY <1>3, <1>4, <1>5, LowestCount
  <2> QED BY <1>2, <2>1
<1>7. \A x \in Slot : /\ sems'[x].valid = sems[x].valid /\ sems'[x].limit = sems[x].limit
                      /\ sems'[x].type = sems[x].type
  BY <1>1, <1>2, GrantFields DEF EntryIs, SameLock
<1>8. UNCHANGED <<Present, Live, Limit>>
  BY <1>2, <1>7, TableKept
<1>9. num \in {1, l.limit}
  BY <1>1 DEF CallOk
<1>10. Granted(s, n)' = Granted(s, n) + num
  <2>1. held'[n][s] = v + num /\ sems'[s].type = l.type
    BY <1>6, <1>7 DEF HeldIs
  <2>2. CASE l.type # "mutex"
    BY <2>1, <2>2 DEF Granted
  <2>3. CASE l.type = "mutex"
    <3>1. num = 1
      BY <1>1, <2>3 DEF CallOk
    <3>2. Owned(l, n) = {}
      BY <1>1, <1>5, <2>3, MutexOwner, Names
    <3>3. v = 0
      <4>1. ~(v > 0)
        BY <1>1, <1>4, <2>3, <3>2 DEF SharesOk, GrantedOk
      <4> QED BY <1>3, <4>1
    <3>4. Granted(s, n) = 0
      BY <3>3 DEF Granted
    <3>5. held'[n][s] = 1
      BY <2>1, <3>1, <3>3
    <3>6. Granted(s, n)' = 1
      BY <3>5 DEF Granted
    <3> QED BY <3>1, <3>4, <3>6
  <2> QED BY <2>2, <2>3
<1>11. \A x \in Slot, o \in Node : ~(x = s /\ o = n) => Granted(x, o)' = Granted(x, o)
  <2>1. \A x \in Slot, o \in Node : ~(x = s /\ o = n) => held'[o][x] = held[o][x]
    BY <1>6 DEF HeldIs
  <2> QED BY <1>7, <2>1 DEF Granted
<1>12. OwnedBy' = [OwnedBy EXCEPT ![s][n] = @ + num]
  <2> DEFINE w == Granted(s, n) + num
  <2>1. OwnedBy' = [OwnedBy EXCEPT ![s][n] = w]
    <3>1. Granted(s, n)' = w
      BY <1>10
    <3> HIDE DEF w
    <3> QED BY <1>11, <3>1, TableGrants
  <2>2. OwnedBy[s][n] = Granted(s, n)
    BY DEF OwnedBy
  <2> QED BY <2>1, <2>2
<1>13. LockTable!Taken(s) + num <= Limit[s] /\ Limit[s] = l.limit
  <2>1. LockTable!Taken(s) \in Nat /\ LockTable!Taken(s) <= l.numLocks
    BY <1>1, <1>4, TakenShares
  <2>2. Limit[s] = l.limit /\ l.limit - l.numLocks >= num
    BY <1>4 DEF Limit
  <2> HIDE DEF l, num
  <2> QED BY <1>3, <2>1, <2>2
<1>14. n \in Present /\ s \in Live
  <2>1. n \in nodes
    BY <1>0, AtSection DEF UsersInv, UserOf
  <2> QED BY <1>1, <1>4, <2>1 DEF Present, Live
<1> QED BY <1>2, <1>8, <1>9, <1>12, <1>13, <1>14 DEF LockTable!Acquire

\* mrapi_impl_release_lock: the node gives all its shares back, or the process
\* ends.
LEMMA ReleaseTable ==
  ASSUME Inv, NEW n \in Node, Release(n)
  PROVE  \/ UNCHANGED LockTable!vars
         \/ \E s \in Slot : LockTable!Release(n, s)
         \/ \E s \in Slot : LockTable!End(n, s)
<1>0. /\ Shape /\ In(n, "release") /\ "release" \in Stage \ {"idle"} /\ call[n].slot \in Slot
      /\ UsersInv /\ SectionInv /\ LockState
  <2>1. In(n, "release") /\ "release" \in Stage \ {"idle"}
    BY ReleaseStep DEF Stage, Inv
  <2> QED BY <2>1, AtSection DEF Inv
<1> PICK s \in Slot : s = call[n].slot
  BY <1>0
<1> DEFINE l == sems[s]
           num == call[n].num
           mine == Owned(l, n)
           m == GiveBack(l, mine, num)
<1>1. /\ ~down /\ l \in LockRec /\ num \in Share /\ n \in nodes
      /\ UNCHANGED <<nodes, using>>
  BY <1>0, AtSection, ReleaseStep DEF UsersInv, UserOf
<1>2. \/ /\ l.valid /\ EntryIs(s, m)
         /\ \/ Cardinality(mine) = num /\ UNCHANGED down /\ HeldIs(n, s, 0)
            \/ /\ Cardinality(mine) > num /\ down'
               /\ \A o \in Node, x \in Slot : held'[o][x] = 0
      \/ UNCHANGED <<sems, held, down>>
  BY <1>0, ReleaseStep
<1>3. CASE UNCHANGED <<sems, held, down>>
  BY <1>1, <1>3, TableQuiet
<1>4. ASSUME l.valid, EntryIs(s, m)
      PROVE  \A x \in Slot : /\ sems'[x].valid = sems[x].valid /\ sems'[x].limit = sems[x].limit
                             /\ sems'[x].type = sems[x].type
  <2>1. num \in Nat
    <3> HIDE DEF num
    <3> QED BY <1>1, Names
  <2>2. SameLock(l, m)
    <3> HIDE DEF l, num
    <3> QED BY <1>1, <2>1, GiveBackFields
  <2> QED BY <1>4, <2>2 DEF EntryIs, SameLock
<1>5. CASE l.valid /\ EntryIs(s, m) /\ Cardinality(mine) = num /\ UNCHANGED down /\ HeldIs(n, s, 0)
  <2>1. \A x \in Slot : /\ sems'[x].valid = sems[x].valid /\ sems'[x].limit = sems[x].limit
                        /\ sems'[x].type = sems[x].type
    BY <1>4, <1>5
  <2>2. UNCHANGED <<Present, Live, Limit>>
    BY <1>1, <1>5, <2>1, TableKept
  <2>3. OwnedBy[s][n] > 0
    <3>1. OwnedBy[s][n] = num
      BY <1>1, <1>5, GrantedShares DEF OwnedBy
    <3> HIDE DEF num
    <3> QED BY <1>1, <3>1, Names
  <2>4. Granted(s, n)' = 0
    BY <1>5 DEF HeldIs, Granted
  <2>5. \A x \in Slot, o \in Node : ~(x = s /\ o = n) => Granted(x, o)' = Granted(x, o)
    <3>1. \A x \in Slot, o \in Node : ~(x = s /\ o = n) => held'[o][x] = held[o][x]
      BY <1>5 DEF HeldIs
    <3> QED BY <2>1, <3>1 DEF Granted
  <2>6. OwnedBy' = [OwnedBy EXCEPT ![s][n] = 0]
    BY <2>4, <2>5, TableGrants
  <2>7. n \in Present /\ s \in Live
    BY <1>1, <1>5 DEF Present, Live
  <2> QED BY <1>1, <2>2, <2>3, <2>6, <2>7 DEF LockTable!Release
<1>6. CASE /\ l.valid /\ EntryIs(s, m) /\ Cardinality(mine) > num /\ down'
           /\ \A o \in Node, x \in Slot : held'[o][x] = 0
  <2>1. \A x \in Slot : sems'[x].limit = sems[x].limit
    BY <1>4, <1>6
  <2>2. Live' = {} /\ Present' = {}
    BY <1>6 DEF Live, Present
  <2>3. Limit' = Limit
    BY <2>1 DEF Limit
  <2>4. \A x \in Slot, o \in Node : Granted(x, o)' = 0
    BY <1>6 DEF Granted
  <2>5. OwnedBy' = [x \in Slot |-> LockTable!Nobody]
    <3>1. \A x \in Slot : [o \in Node |-> Granted(x, o)'] = LockTable!Nobody
      BY <2>4 DEF LockTable!Nobody
    <3>2. OwnedBy' = [x \in Slot |-> [o \in Node |-> Granted(x, o)']]
      BY DEF OwnedBy
    <3> QED BY <3>1, <3>2
  <2>6. OwnedBy[s][n] > 1
    <3>1. OwnedBy[s][n] = Cardinality(mine)
      BY <1>1, <1>6, GrantedShares DEF OwnedBy
    <3>2. Cardinality(mine) > num
      BY <1>6
    <3>3. Cardinality(mine) \in Nat
      <4>1. Cardinality(mine) \in 0..l.limit /\ l.limit \in 0..MaxShares
        BY <1>1, OwnedFinite
      <4> HIDE DEF mine, l
      <4> QED BY <4>1, Names
    <3> HIDE DEF num, mine
    <3> QED BY <1>1, <3>1, <3>2, <3>3, Names
  <2>7. n \in Present /\ s \in Live
    BY <1>1, <1>6 DEF Present, Live
  <2> QED BY <1>1, <2>2, <2>3, <2>5, <2>6, <2>7 DEF LockTable!End
<1> QED BY <1>2, <1>3, <1>5, <1>6

\* mrapi_impl_sem_delete: only the node that holds all shares.
LEMMA DeleteTable ==
  ASSUME Inv, NEW n \in Node, Delete(n)
  PROVE  \/ UNCHANGED LockTable!vars
         \/ \E s \in Slot : LockTable!Delete(n, s)
<1>0. /\ Shape /\ In(n, "delete") /\ "delete" \in Stage \ {"idle"} /\ call[n].slot \in Slot
      /\ UsersInv /\ SectionInv /\ LockState
  <2>1. In(n, "delete") /\ "delete" \in Stage \ {"idle"}
    BY DeleteStep DEF Stage, Inv
  <2> QED BY <2>1, AtSection DEF Inv
<1> PICK s \in Slot : s = call[n].slot
  BY <1>0
<1> DEFINE l == sems[s]
<1>1. ~down /\ l \in LockRec /\ UNCHANGED <<down, nodes, using>> /\ n \in nodes
  BY <1>0, AtSection, DeleteStep DEF UsersInv, UserOf
<1>2. \/ /\ l.valid /\ Cardinality(Owned(l, n)) = l.limit
         /\ EntryIs(s, Removed(l)) /\ NobodyIs(s)
      \/ UNCHANGED <<sems, held>>
  BY <1>0, DeleteStep
<1>3. CASE UNCHANGED <<sems, held>>
  BY <1>1, <1>3, TableQuiet
<1>4. CASE /\ l.valid /\ Cardinality(Owned(l, n)) = l.limit
           /\ EntryIs(s, Removed(l)) /\ NobodyIs(s)
  <2>1. /\ sems'[s].valid = FALSE /\ \A x \in Slot \ {s} : sems'[x] = sems[x]
        /\ \A x \in Slot : sems'[x].limit = sems[x].limit /\ sems'[x].type = sems[x].type
    <3> DEFINE m == Removed(l)
    <3>1. m.valid = FALSE /\ m.limit = l.limit /\ m.type = l.type
      BY <1>1, RemovedFields
    <3>2. sems'[s] = m /\ \A x \in Slot \ {s} : sems'[x] = sems[x]
      BY <1>4 DEF EntryIs
    <3> HIDE DEF m
    <3> QED BY <3>1, <3>2
  <2>2. s \in Live /\ Live' = Live \ {s}
    BY <1>1, <1>4, <2>1 DEF Live
  <2>3. Limit' = Limit
    BY <2>1 DEF Limit
  <2>4. OwnedBy[s][n] = Limit[s]
    BY <1>1, <1>4, GrantedShares DEF OwnedBy, Limit
  <2>5. /\ \A o \in Node : Granted(s, o)' = 0
        /\ \A x \in Slot \ {s}, o \in Node : Granted(x, o)' = Granted(x, o)
    <3>1. \A o \in Node, x \in Slot : held'[o][x] = IF x = s THEN 0 ELSE held[o][x]
      BY <1>4 DEF NobodyIs
    <3> QED BY <2>1, <3>1 DEF Granted
  <2>6. OwnedBy' = [OwnedBy EXCEPT ![s] = LockTable!Nobody]
    BY <2>5, TableClears
  <2>7. n \in Present /\ Present' = Present
    BY <1>1 DEF Present
  <2> QED BY <1>1, <2>2, <2>3, <2>4, <2>6, <2>7 DEF LockTable!Delete
<1> QED BY <1>2, <1>3, <1>4

\* The database implements the locks of the interface: every step of it is one
\* of theirs, or is not seen.  What the calls of all nodes have been granted
\* never exceeds the limit of a lock, a writer is alone, and a lock goes only
\* when the owner of all its shares deletes it or the last node that uses it
\* ends, or with the process (mrapi.c on mrapi_impl_spec.c).
THEOREM Refinement ==
  ASSUME OneMember, ~Reuse
  PROVE  Spec => ImplementsLocks
<1>1. Init => LockTable!Init
  <2> SUFFICES ASSUME Init PROVE LockTable!Init
    OBVIOUS
  <2>1. /\ \A s \in Slot : sems[s] = NoLock
        /\ \A n \in Node, s \in Slot : held[n][s] = 0
    BY DEF Init
  <2>2. Live = {} /\ Limit = [s \in Slot |-> 0]
    BY <2>1 DEF Live, Limit, NoLock
  <2>3. OwnedBy = [s \in Slot |-> LockTable!Nobody]
    <3>1. \A x \in Slot, o \in Node : Granted(x, o) = 0
      BY <2>1 DEF Granted
    <3>2. \A x \in Slot : [o \in Node |-> Granted(x, o)] = LockTable!Nobody
      BY <3>1 DEF LockTable!Nobody
    <3> QED BY <3>2 DEF OwnedBy
  <2>4. Present = Node
    BY DEF Init, Present
  <2> QED BY <2>2, <2>3, <2>4 DEF Init, LockTable!Init
<1>2. Inv /\ [Next]_vars => [LockTable!Next]_(LockTable!vars)
  <2> SUFFICES ASSUME Inv, [Next]_vars PROVE LockTable!Next \/ UNCHANGED LockTable!vars
    OBVIOUS
  <2>0. Shape
    BY DEF Inv
  <2>1. CASE UNCHANGED vars
    BY <2>1, TableQuiet DEF vars
  <2>2. CASE Next
    <3>1. PICK n \in Node :
            \/ \E k \in Key : GetLock(n, k) \/ \E kind \in Kinds : CreateLock(n, k, kind)
            \/ FinalizeNode(n) \/ (CallLock(n) \/ CallUnlock(n) \/ CallDelete(n))
            \/ Enter(n) \/ LockStep(n)
      BY <2>2 DEF Next
    <3>2. CASE \E k \in Key : GetLock(n, k)
      BY <2>0, <3>2, GetTable DEF LockTable!Next
    <3>3. CASE \E k \in Key, kind \in Kinds : CreateLock(n, k, kind)
      BY <2>0, <3>3, CreateTable DEF LockTable!Next
    <3>4. CASE FinalizeNode(n)
      BY <2>0, <3>4, FinalizeTable DEF LockTable!Next, Inv
    <3>5. CASE CallLock(n) \/ CallUnlock(n) \/ CallDelete(n)
      BY <2>0, <3>5, CallStep, TableQuiet
    <3>6. CASE Enter(n)
      BY <2>0, <3>6, EnterStep, TableQuiet
    <3>7. CASE LockStep(n)
      <4>1. CASE CheckHandle(n) \/ ReadLimit(n) \/ TryAcquire(n) \/ Again(n)
        BY <2>0, <4>1, CheckHandleStep, ReadLimitStep, TryAcquireStep, AgainStep, TableQuiet
      <4>2. CASE MutexLock(n) \/ MutexUnlock(n)
        BY <4>2, MutexLockTable, MutexUnlockTable
      <4>3. CASE TakeShares(n)
        BY <4>3, TakeSharesTable DEF LockTable!Next
      <4>4. CASE Release(n)
        BY <4>4, ReleaseTable DEF LockTable!Next
      <4>5. CASE Delete(n)
        BY <4>5, DeleteTable DEF LockTable!Next
      <4> QED BY <3>7, <4>1, <4>2, <4>3, <4>4, <4>5 DEF LockStep
    <3> QED BY <3>1, <3>2, <3>3, <3>4, <3>5, <3>6, <3>7
  <2> QED BY <2>1, <2>2
<1> QED BY <1>1, <1>2, InvHolds, PTL DEF Spec, ImplementsLocks, LockTable!Spec

=============================================================================
