-------------------------- MODULE ShmemAllocProofs --------------------------
(***************************************************************************)
(* Proofs about the shared-memory allocator, for every length of the table *)
(* and of the memory and every set of request sizes.                       *)
(***************************************************************************)
EXTENDS ShmemAlloc, FiniteSetTheorems, TLAPS

-----------------------------------------------------------------------------
(* The inductive invariant.                                                *)

Descriptor == [offset : -1..Memory, size : 0..Memory, feb : BOOLEAN,
               available : BOOLEAN,
               next : Slot \union {None}, prev : Slot \union {None}]

\* The slots that are in use in a table, and where one of them ends.
Used(T) == {i \in Slot : T[i].available}
End(T, i) == T[i].offset + T[i].size

\* The block of control variables comes first, and descriptor 1 after it.
Headed(T) ==
  /\ 0 \in Used(T) /\ T[0].offset = 0 /\ T[0].size = Icv /\ T[0].feb
  /\ T[0].next = 1 /\ T[0].prev = None

\* A slot is where its links say, and its neighbours link back to it.
Linked(T, i) ==
  /\ 0 <= T[i].offset /\ 0 < T[i].size /\ End(T, i) <= Memory
  /\ T[i].next = None => End(T, i) = Memory
  /\ T[i].next # None =>
       T[i].next \in Used(T) /\ T[T[i].next].offset = End(T, i) /\ T[T[i].next].prev = i
  /\ i # 0 => T[i].prev \in Used(T) /\ T[T[i].prev].next = i

Apart(T, i, j) == End(T, i) <= T[j].offset \/ End(T, j) <= T[i].offset

TableOk(T) ==
  /\ T \in [Slot -> Descriptor]
  /\ \A i \in Slot : ~T[i].available => T[i] = Unused
  /\ Headed(T)
  /\ \A i \in Used(T) : Linked(T, i)
  /\ \A i, j \in Used(T) : i # j => Apart(T, i, j)

\* No two neighbours are free.
Packed(T) ==
  \A i \in Used(T) : T[i].next # None => T[i].feb \/ T[T[i].next].feb

\* Only the last slot can be free.
LastFree(T) == \A i \in Used(T) : T[i].feb \/ T[i].next = None

\* The full slots are the blocks that are held, one for one.
Backed(i, k) ==
  slot[i].feb /\ slot[i].offset = grants[k].offset /\ grants[k].size <= slot[i].size

GrantInv ==
  /\ grants \in Seq([offset : Nat, size : Sizes])
  /\ \A k \in DOMAIN grants : \E i \in Slot \ {0} : Backed(i, k)
  /\ \A i \in Slot \ {0} : slot[i].feb => \E k \in DOMAIN grants : Backed(i, k)
  /\ \A j, k \in DOMAIN grants : grants[j].offset = grants[k].offset => j = k

\* Until the end only the last slot can be free, and blocks are held in the
\* order of their addresses.
StackInv ==
  ~closing =>
    /\ LastFree(slot)
    /\ \A j, k \in DOMAIN grants : j < k => grants[j].offset < grants[k].offset

Inv ==
  closing \in BOOLEAN /\ TableOk(slot) /\ Packed(slot) /\ GrantInv /\ StackInv

-----------------------------------------------------------------------------
(* Numbers, and the walk along the list.                                   *)

\* A set of natural numbers that is not empty has a least element.
LEMMA Least ==
  ASSUME NEW S \in SUBSET Nat, S # {}
  PROVE  Min(S) \in S /\ \A y \in S : Min(S) <= y
<1> DEFINE R == {ss \in Nat \X Nat : ss[1] < ss[2]}
<1>1. IsWellFoundedOn(R, Nat)
  BY NatLessThanWellFounded DEF OpToRel
<1>2. PICK x \in S : \A y \in S : ~ (<<y, x>> \in R)
  BY <1>1, WFMin
<1>3. ASSUME NEW y \in S PROVE x <= y
  <2>1. ~ (<<y, x>> \in R)
    BY <1>2
  <2>2. <<y, x>> \in Nat \X Nat /\ <<y, x>>[1] = y /\ <<y, x>>[2] = x
    OBVIOUS
  <2>3. ~ (y < x)
    BY <2>1, <2>2
  <2> QED BY <2>3
<1> QED BY <1>3 DEF Min

\* The facts about the constants that every proof needs.
LEMMA Constants ==
  /\ Slots \in Nat /\ Slots > 1 /\ Slot = 0..(Slots-1) /\ Slot \subseteq Nat
  /\ 0 \in Slot /\ 1 \in Slot /\ None \notin Slot
  /\ Memory \in Nat /\ Icv \in Nat /\ 0 < Icv /\ Icv < Memory
  /\ Sizes \subseteq Nat /\ 0 \notin Sizes
BY ShmemAssumption DEF Slot, None

\* One step of the walk, as the definition of Chain unfolds.
Walked(f, k) ==
  IF k = 0 THEN 0 ELSE IF f[k-1] = None THEN None ELSE slot[f[k-1]].next

\* The recursive definition of the walk has the value it describes.
LEMMA ChainStep ==
  \A k \in 0..Slots : Chain[k] = Walked(Chain, k)
<1> DEFINE Fix(f, n) == f = [k \in 0..n |-> Walked(f, k)]
           Bad == {n \in Nat : ~ \E f : Fix(f, n)}
<1>1. ASSUME Bad # {} PROVE FALSE
  <2>1. PICK m \in Bad : \A y \in Bad : m <= y
    BY <1>1, Least
  <2>2. m \in Nat /\ ~ \E f : Fix(f, m)
    OBVIOUS
  <2>3. CASE m = 0
    <3> DEFINE f == [k \in 0..0 |-> 0]
    <3>1. Fix(f, 0)
      BY DEF Walked
    <3> QED BY <2>2, <2>3, <3>1
  <2>4. CASE m > 0
    <3>1. m - 1 \in Nat /\ m - 1 \notin Bad
      BY <2>1, <2>2, <2>4
    <3>2. PICK g : Fix(g, m - 1)
      BY <3>1
    <3>3. \A k \in 0..(m-1) : g[k] = Walked(g, k)
      <4> DEFINE h == [k \in 0..(m-1) |-> Walked(g, k)]
      <4>1. g = h
        BY <3>2
      <4>2. \A k \in 0..(m-1) : h[k] = Walked(g, k)
        OBVIOUS
      <4> HIDE DEF h
      <4> QED BY <4>1, <4>2
    <3> DEFINE f == [k \in 0..m |-> IF k < m THEN g[k] ELSE Walked(g, m)]
    <3>4. \A k \in 0..m : f[k] = IF k < m THEN g[k] ELSE Walked(g, m)
      OBVIOUS
    <3>5. f = [k \in 0..m |-> f[k]]
      OBVIOUS
    <3> HIDE DEF f
    <3>6. \A k \in 0..m : f[k] = Walked(f, k)
      <4> SUFFICES ASSUME NEW k \in 0..m PROVE f[k] = Walked(f, k)
        OBVIOUS
      <4>1. k # 0 => k - 1 \in 0..m /\ k - 1 < m
        BY <2>2
      <4>2. k # 0 => f[k-1] = g[k-1]
        BY <3>4, <4>1
      <4>3. Walked(f, k) = Walked(g, k)
        BY <4>2 DEF Walked
      <4>4. k < m => g[k] = Walked(g, k)
        BY <2>2, <3>3
      <4>5. k >= m => k = m
        BY <2>2
      <4> QED BY <2>2, <3>4, <4>3, <4>4, <4>5
    <3>7. Fix(f, m)
      BY <3>5, <3>6
    <3> QED BY <2>2, <3>7
  <2> QED BY <2>2, <2>3, <2>4
<1>2. \E f : Fix(f, Slots)
  BY <1>1, Constants
<1>3. Fix(Chain, Slots)
  <2>1. Chain = CHOOSE f : f = [k \in 0..Slots |->
          IF k = 0 THEN 0 ELSE IF f[k-1] = None THEN None ELSE slot[f[k-1]].next]
    BY DEF Chain
  <2> QED BY <1>2, <2>1 DEF Walked
<1>4. ASSUME NEW k \in 0..Slots PROVE Chain[k] = Walked(Chain, k)
  <2> DEFINE h == [j \in 0..Slots |-> Walked(Chain, j)]
  <2>1. Chain = h
    BY <1>3
  <2>2. h[k] = Walked(Chain, k)
    OBVIOUS
  <2> HIDE DEF h
  <2> QED BY <2>1, <2>2
<1> QED BY <1>4

\* What the table says about one slot in use.
LEMMA SlotFact ==
  ASSUME NEW T, TableOk(T), NEW i \in Used(T)
  PROVE  /\ i \in Slot /\ T[i] \in Descriptor /\ T[i].offset \in 0..Memory /\ T[i].size \in 1..Memory
         /\ End(T, i) = T[i].offset + T[i].size /\ End(T, i) \in 1..Memory
         /\ T[i].next \in Used(T) \union {None}
         /\ T[i].next = None => End(T, i) = Memory
         /\ T[i].next # None =>
              /\ T[T[i].next].offset = End(T, i) /\ T[T[i].next].prev = i
              /\ T[i].next # 0 /\ T[i].next # i
         /\ i # 0 => T[i].prev \in Used(T) /\ T[T[i].prev].next = i /\ T[i].prev # i
<1>1. /\ i \in Slot /\ T[i] \in Descriptor /\ Linked(T, i) /\ Headed(T)
  BY DEF TableOk, Used
<1>2. /\ T[i].offset \in -1..Memory /\ T[i].size \in 0..Memory
      /\ T[i].next \in Slot \union {None} /\ T[i].prev \in Slot \union {None}
  BY <1>1 DEF Descriptor
<1>3. T[i].offset \in 0..Memory /\ T[i].size \in 1..Memory /\ End(T, i) \in 1..Memory
  BY <1>1, <1>2, Constants DEF Linked, End
<1>4. T[i].next # None => T[i].next # i /\ T[i].next # 0
  <2>1. CASE T[i].next = i
    <3>1. T[i].offset = End(T, i)
      BY <1>1, <2>1, Constants DEF Linked
    <3> QED BY <1>3, <3>1 DEF End
  <2>2. CASE T[i].next = 0
    BY <1>1, <1>3, <2>2, Constants DEF Linked, Headed
  <2> QED BY <2>1, <2>2
<1>5. i # 0 => T[i].prev # i
  <2> SUFFICES ASSUME i # 0, T[i].prev = i PROVE FALSE
    OBVIOUS
  <2>1. T[i].next = i /\ i # None
    BY <1>1, Constants DEF Linked
  <2> QED BY <1>4, <2>1
<1> QED BY <1>1, <1>2, <1>3, <1>4, <1>5 DEF Linked, End

\* The numbers in a slot in use.
LEMMA SlotNat ==
  ASSUME NEW T, TableOk(T), NEW i \in Used(T)
  PROVE  /\ T[i].offset \in Nat /\ T[i].size \in Nat \ {0} /\ End(T, i) \in Nat
         /\ End(T, i) = T[i].offset + T[i].size /\ End(T, i) <= Memory
         /\ T[i].next = None => End(T, i) = Memory
<1>1. /\ T[i].offset \in 0..Memory /\ T[i].size \in 1..Memory /\ End(T, i) \in 1..Memory
      /\ End(T, i) = T[i].offset + T[i].size
      /\ T[i].next = None => End(T, i) = Memory
  BY SlotFact
<1> QED BY <1>1, Constants

\* The walk stays in the slots in use.
LEMMA ChainUsed ==
  ASSUME TableOk(slot)
  PROVE  \A k \in 0..Slots : Chain[k] \in Used(slot) \union {None}
<1> DEFINE Bad == {k \in 0..Slots : Chain[k] \notin Used(slot) \union {None}}
<1>1. ASSUME Bad # {} PROVE FALSE
  <2>1. Bad \in SUBSET Nat
    BY Constants
  <2>2. PICK m \in Bad : \A y \in Bad : m <= y
    BY <1>1, <2>1, Least
  <2>3. m \in 0..Slots /\ Chain[m] = Walked(Chain, m)
    BY ChainStep
  <2>4. CASE m = 0
    BY <2>2, <2>3, <2>4 DEF Walked, TableOk, Headed
  <2>5. CASE m > 0
    <3>1. m - 1 \in 0..Slots /\ m - 1 \notin Bad
      BY <2>2, <2>3, <2>5, Constants
    <3>2. Chain[m-1] \in Used(slot) \union {None}
      BY <3>1
    <3>3. Chain[m] = IF Chain[m-1] = None THEN None ELSE slot[Chain[m-1]].next
      BY <2>3, <2>5 DEF Walked
    <3>4. Chain[m-1] # None => slot[Chain[m-1]].next \in Used(slot) \union {None}
      BY <3>2, SlotFact
    <3> QED BY <2>2, <3>3, <3>4
  <2> QED BY <2>3, <2>4, <2>5, Constants
<1> QED BY <1>1

\* The walk goes through the memory in the order of the addresses.
LEMMA ChainGrows ==
  ASSUME TableOk(slot), NEW j \in 0..Slots, NEW k \in 0..Slots, j < k, Chain[k] # None
  PROVE  Chain[j] # None /\ slot[Chain[j]].offset < slot[Chain[k]].offset
<1> DEFINE Good(x) == Chain[j] # None /\ slot[Chain[j]].offset < slot[Chain[x]].offset
           Bad == {x \in 0..Slots : j < x /\ Chain[x] # None /\ ~Good(x)}
<1>1. ASSUME Bad # {} PROVE FALSE
  <2>1. Bad \in SUBSET Nat
    BY Constants
  <2>2. PICK m \in Bad : \A y \in Bad : m <= y
    BY <1>1, <2>1, Least
  <2>3. /\ m \in 0..Slots /\ m - 1 \in 0..Slots /\ m # 0 /\ j <= m - 1
        /\ j < m /\ Chain[m] # None /\ ~Good(m)
    BY Constants
  <2>4. Chain[m-1] # None /\ Chain[m] = slot[Chain[m-1]].next
    BY <2>3, ChainStep DEF Walked
  <2>5. Chain[m-1] \in Used(slot)
    BY <2>3, <2>4, ChainUsed
  <2>6. /\ slot[Chain[m]].offset = End(slot, Chain[m-1])
        /\ End(slot, Chain[m-1]) = slot[Chain[m-1]].offset + slot[Chain[m-1]].size
        /\ slot[Chain[m-1]].offset \in Nat /\ slot[Chain[m-1]].size \in Nat \ {0}
    <3>1. slot[Chain[m]].offset = End(slot, Chain[m-1])
      BY <2>3, <2>4, <2>5, SlotFact
    <3>2. /\ End(slot, Chain[m-1]) = slot[Chain[m-1]].offset + slot[Chain[m-1]].size
          /\ slot[Chain[m-1]].offset \in Nat /\ slot[Chain[m-1]].size \in Nat \ {0}
      BY <2>5, SlotNat
    <3> QED BY <3>1, <3>2
  <2>7. slot[Chain[m-1]].offset < slot[Chain[m]].offset
    BY <2>6
  <2>8. CASE j = m - 1
    BY <2>3, <2>4, <2>7, <2>8
  <2>9. CASE j # m - 1
    <3>1. j < m - 1 /\ m - 1 < m
      BY <2>3, <2>9, Constants
    <3>2. Good(m-1)
      BY <2>2, <2>3, <2>4, <3>1, Constants
    <3>3. Chain[j] # None /\ Chain[j] \in Used(slot)
      BY <3>2, ChainUsed
    <3>4. slot[Chain[j]].offset \in Nat
      BY <3>3, SlotNat
    <3> QED BY <2>3, <2>6, <2>7, <3>2, <3>4
  <2> QED BY <2>8, <2>9
<1> QED BY <1>1

\* The walk has left the list after as many steps as there are descriptors.
LEMMA ChainEnds ==
  ASSUME TableOk(slot)
  PROVE  Chain[Slots] = None
<1> SUFFICES ASSUME Chain[Slots] # None PROVE FALSE
  OBVIOUS
<1>1. \A k \in 0..Slots : Chain[k] # None /\ Chain[k] \in Slot
  <2> SUFFICES ASSUME NEW k \in 0..Slots PROVE Chain[k] # None /\ Chain[k] \in Slot
    OBVIOUS
  <2>1. Slots \in 0..Slots /\ (k < Slots \/ k = Slots)
    BY Constants
  <2>2. Chain[k] # None
    BY <2>1, ChainGrows
  <2> QED BY <2>2, ChainUsed DEF Used
<1>2. \A j, k \in 0..Slots : j < k => Chain[j] # Chain[k]
  <2> SUFFICES ASSUME NEW j \in 0..Slots, NEW k \in 0..Slots, j < k, Chain[j] = Chain[k] PROVE FALSE
    OBVIOUS
  <2>1. Chain[k] # None /\ Chain[k] \in Used(slot)
    BY <1>1, ChainUsed
  <2>2. slot[Chain[j]].offset < slot[Chain[k]].offset
    BY <2>1, ChainGrows
  <2>3. slot[Chain[k]].offset \in Nat
    BY <2>1, SlotNat
  <2> QED BY <2>2, <2>3
<1> DEFINE f == [k \in 0..Slots |-> Chain[k]]
<1>3. f \in [0..Slots -> Slot] /\ \A k \in 0..Slots : f[k] = Chain[k]
  BY <1>1
<1>4. /\ IsFiniteSet(Slot) /\ Cardinality(Slot) = Slots
      /\ IsFiniteSet(0..Slots) /\ Cardinality(0..Slots) = Slots + 1
  <2>1. 0 \in Int /\ Slots \in Int /\ Slots - 1 \in Int /\ Slots > 1
    BY Constants
  <2>2. IsFiniteSet(0..Slots) /\ Cardinality(0..Slots) = IF 0 > Slots THEN 0 ELSE Slots - 0 + 1
    BY <2>1, FS_Interval
  <2>3. IsFiniteSet(0..(Slots-1)) /\ Cardinality(0..(Slots-1)) = IF 0 > Slots - 1 THEN 0 ELSE Slots - 1 - 0 + 1
    <3> DEFINE k == Slots - 1
    <3>1. k \in Int
      BY <2>1
    <3> HIDE DEF k
    <3>2. IsFiniteSet(0..k) /\ Cardinality(0..k) = IF 0 > k THEN 0 ELSE k - 0 + 1
      BY <3>1, FS_Interval
    <3> QED BY <3>2 DEF k
  <2> QED BY <2>1, <2>2, <2>3 DEF Slot
<1>5. Cardinality(Slot) < Cardinality(0..Slots)
  BY <1>4, Constants
<1>6. \E x, y \in 0..Slots : x # y /\ f[x] = f[y]
  <2> DEFINE Steps == 0..Slots
  <2>1. IsFiniteSet(Steps) /\ Cardinality(Slot) < Cardinality(Steps) /\ f \in [Steps -> Slot]
    BY <1>3, <1>4, <1>5
  <2> HIDE DEF f, Steps
  <2>2. \E x, y \in Steps : x # y /\ f[x] = f[y]
    BY <1>4, <2>1, FS_PigeonHole
  <2> QED BY <2>2 DEF Steps
<1> HIDE DEF f
<1>7. PICK x, y \in 0..Slots : x # y /\ f[x] = f[y]
  BY <1>6
<1>8. x < y \/ y < x
  BY <1>7, Constants
<1> QED BY <1>2, <1>3, <1>7, <1>8

\* The list goes through the slots in use, and through no other.
LEMMA ListedUsed ==
  ASSUME TableOk(slot)
  PROVE  Listed = Used(slot)
<1> DEFINE Lost == {i \in Used(slot) : i \notin Listed}
           At == {slot[i].offset : i \in Lost}
<1>1. ASSUME Lost # {} PROVE FALSE
  <2>1. At \in SUBSET Nat /\ At # {}
    BY <1>1, SlotNat
  <2>2. PICK a \in At : \A y \in At : a <= y
    BY <2>1, Least
  <2>3. PICK i \in Lost : slot[i].offset = a
    BY <2>2
  <2>4. i # 0
    <3>1. 0 \in 0..Slots /\ 0 # None
      BY Constants
    <3>2. Chain[0] = 0
      BY <3>1, ChainStep DEF Walked
    <3> QED BY <3>1, <3>2 DEF Listed
  <2> DEFINE p == slot[i].prev
  <2>5. i \in Used(slot) /\ p \in Used(slot) /\ slot[p].next = i /\ i # None
    <3>1. i # None
      BY Constants DEF Used
    <3> QED BY <2>4, <3>1, SlotFact
  <2> HIDE DEF p
  <2>6. /\ slot[i].offset = slot[p].offset + slot[p].size /\ slot[p].offset \in Nat
        /\ slot[p].size \in Nat \ {0}
    <3>1. slot[i].offset = End(slot, p)
      BY <2>5, SlotFact
    <3> QED BY <2>5, <3>1, SlotNat
  <2>7. p \in Listed
    <3> SUFFICES ASSUME p \notin Listed PROVE FALSE
      OBVIOUS
    <3>1. slot[p].offset \in At
      BY <2>5
    <3>2. a <= slot[p].offset
      BY <2>2, <3>1
    <3> QED BY <2>3, <2>6, <3>2
  <2>8. PICK k \in 0..Slots : Chain[k] = p
    BY <2>7 DEF Listed
  <2>9. k # Slots /\ p # None
    BY <2>5, <2>8, ChainEnds, Constants DEF Used
  <2>10. k + 1 \in 0..Slots /\ k + 1 # 0 /\ (k + 1) - 1 = k
    BY <2>8, <2>9, Constants
  <2>11. Chain[k+1] = slot[p].next
    BY <2>8, <2>9, <2>10, ChainStep DEF Walked
  <2> QED BY <2>5, <2>10, <2>11 DEF Listed
<1>2. Listed \subseteq Used(slot)
  BY ChainUsed DEF Listed
<1> QED BY <1>1, <1>2

\* The first fit is a free slot that is large enough; there is none when the
\* search fails.
LEMMA FirstFitFact ==
  ASSUME TableOk(slot), NEW size
  PROVE  LET s == FirstFit(size)
         IN  \/ /\ s = None
                /\ \A i \in Used(slot) : slot[i].feb \/ ~(slot[i].size >= size)
             \/ s \in Used(slot) /\ ~slot[s].feb /\ slot[s].size >= size
<1> DEFINE hits == {k \in 0..Slots : Chain[k] # None /\ (~slot[Chain[k]].feb /\ slot[Chain[k]].size >= size)}
<1>1. FirstFit(size) = IF hits = {} THEN None ELSE Chain[Min(hits)]
  BY DEF FirstFit, First
<1>2. CASE hits = {}
  <2>1. ASSUME NEW i \in Used(slot) PROVE slot[i].feb \/ ~(slot[i].size >= size)
    <3>1. PICK k \in 0..Slots : Chain[k] = i /\ i # None
      BY ListedUsed DEF Listed
    <3> QED BY <1>2, <3>1
  <2> QED BY <1>1, <1>2, <2>1
<1>3. CASE hits # {}
  <2>1. hits \in SUBSET Nat
    BY Constants
  <2> HIDE DEF hits
  <2>2. Min(hits) \in hits
    BY <1>3, <2>1, Least
  <2>3. Chain[Min(hits)] \in Used(slot)
    BY <2>2, ChainUsed DEF hits
  <2> QED BY <1>1, <1>3, <2>2, <2>3 DEF hits
<1> QED BY <1>2, <1>3

\* The search for a full slot at an address finds it when there is one.
LEMMA FullAtFact ==
  ASSUME TableOk(slot), NEW a
  PROVE  LET s == FullAt(a)
         IN  \/ s = None /\ \A i \in Used(slot) : ~(slot[i].feb /\ slot[i].offset = a)
             \/ s \in Used(slot) /\ slot[s].feb /\ slot[s].offset = a
<1> DEFINE hits == {k \in 0..Slots : Chain[k] # None /\ (slot[Chain[k]].feb /\ slot[Chain[k]].offset = a)}
<1>1. FullAt(a) = IF hits = {} THEN None ELSE Chain[Min(hits)]
  BY DEF FullAt, First
<1>2. CASE hits = {}
  <2>1. ASSUME NEW i \in Used(slot) PROVE ~(slot[i].feb /\ slot[i].offset = a)
    <3>1. PICK k \in 0..Slots : Chain[k] = i /\ i # None
      BY ListedUsed DEF Listed
    <3> QED BY <1>2, <3>1
  <2> QED BY <1>1, <1>2, <2>1
<1>3. CASE hits # {}
  <2>1. hits \in SUBSET Nat
    BY Constants
  <2> HIDE DEF hits
  <2>2. Min(hits) \in hits
    BY <1>3, <2>1, Least
  <2>3. Chain[Min(hits)] \in Used(slot)
    BY <2>2, ChainUsed DEF hits
  <2> QED BY <1>1, <1>3, <2>2, <2>3 DEF hits
<1> QED BY <1>2, <1>3

-----------------------------------------------------------------------------
(* What deallocation does to the table.                                    *)

\* The table after a slot has taken over the free slot that follows it.
LEMMA AbsorbOk ==
  ASSUME NEW T, TableOk(T), NEW a \in Used(T), NEW b, b = T[a].next, b # None, ~T[a].feb, ~T[b].feb,
         NEW R, R = AbsorbNext(T, a)
  PROVE  /\ TableOk(R)
         /\ Used(R) = Used(T) \ {b}
         /\ \A i \in Slot : R[i].feb = T[i].feb
         /\ \A i \in Used(R) : /\ R[i].offset = T[i].offset
                               /\ i # a => R[i].size = T[i].size /\ R[i].next = T[i].next
         /\ R[a].next = T[b].next
<1> DEFINE c == T[b].next
<1>0. /\ b \in Used(T) /\ a # b /\ a # 0 /\ b # 0 /\ b # 1 /\ c # a /\ c # b
      /\ T[b].prev = a /\ T[b].offset = End(T, a) /\ c \in Used(T) \union {None} /\ c # 0
      /\ c # None => T[c].prev = b /\ T[c].offset = End(T, b)
  <2>1. b \in Used(T) /\ a # b /\ b # 0 /\ T[b].prev = a /\ T[b].offset = End(T, a)
    BY SlotFact
  <2>2. /\ c \in Used(T) \union {None}
        /\ c # None => T[c].prev = b /\ T[c].offset = End(T, b) /\ c # b /\ c # 0
    BY <2>1, SlotFact
  <2>3. a # 0
    BY DEF TableOk, Headed
  <2>4. T[1].prev = 0
    <3>1. 0 \in Used(T) /\ T[0].next = 1 /\ 1 # None
      BY Constants DEF TableOk, Headed
    <3> QED BY <3>1, SlotFact
  <2>5. T[a].offset \in Nat /\ T[a].size \in Nat \ {0} /\ End(T, a) = T[a].offset + T[a].size
    BY SlotNat
  <2>6. T[b].offset \in Nat /\ T[b].size \in Nat \ {0} /\ End(T, b) = T[b].offset + T[b].size
    BY <2>1, SlotNat
  <2>7. c # a
    <3> SUFFICES ASSUME c = a PROVE FALSE
      OBVIOUS
    <3>1. a # None
      BY Constants DEF Used
    <3>2. T[a].offset = End(T, b)
      BY <2>2, <3>1
    <3> QED BY <2>1, <2>5, <2>6, <3>2
  <2>8. 0 # None /\ a # None
    BY Constants DEF Used
  <2> QED BY <2>1, <2>2, <2>3, <2>4, <2>7, <2>8 DEF None
<1>1. /\ a \in Slot /\ b \in Slot /\ 0 \in Slot /\ T \in [Slot -> Descriptor]
      /\ Used(T) \subseteq Slot /\ None \notin Used(T)
  BY <1>0, Constants DEF Used, TableOk
<1>2. /\ T[a].offset \in Nat /\ T[a].size \in Nat \ {0} /\ End(T, a) = T[a].offset + T[a].size
      /\ T[b].offset \in Nat /\ T[b].size \in Nat \ {0} /\ End(T, b) = T[b].offset + T[b].size
      /\ End(T, b) <= Memory /\ Memory \in Nat
      /\ T[a] \in Descriptor /\ T[b] \in Descriptor
  <2>1. /\ T[a].offset \in Nat /\ T[a].size \in Nat \ {0} /\ End(T, a) = T[a].offset + T[a].size
    BY SlotNat
  <2>2. /\ T[b].offset \in Nat /\ T[b].size \in Nat \ {0} /\ End(T, b) = T[b].offset + T[b].size
        /\ End(T, b) <= Memory
    BY <1>0, SlotNat
  <2>3. T[a] \in Descriptor /\ T[b] \in Descriptor
    BY <1>0, SlotFact
  <2> QED BY <2>1, <2>2, <2>3, Constants
<1>3. /\ R = [i \in Slot |-> R[i]]
      /\ R[a] = [T[a] EXCEPT !.size = @ + T[b].size, !.next = c]
      /\ R[b] = Unused
      /\ c # None => R[c] = [T[c] EXCEPT !.prev = a]
      /\ \A i \in Slot \ {a, b, c} : R[i] = T[i]
  <2> DEFINE S == [i \in Slot |->
         CASE i = a -> [T[a] EXCEPT !.size = @ + T[b].size, !.next = c]
           [] i = b -> Unused
           [] i = c -> [T[c] EXCEPT !.prev = a]
           [] OTHER -> T[i]]
  <2>1. R = S
    BY DEF AbsorbNext
  <2>2. S = [i \in Slot |-> S[i]]
    OBVIOUS
  <2>3. S[a] = [T[a] EXCEPT !.size = @ + T[b].size, !.next = c]
    BY <1>0, <1>1
  <2>4. S[b] = Unused
    BY <1>0, <1>1
  <2>5. c # None => S[c] = [T[c] EXCEPT !.prev = a]
    BY <1>0, <1>1
  <2>6. \A i \in Slot \ {a, b, c} : S[i] = T[i]
    BY <1>0, <1>1
  <2> HIDE DEF S
  <2> QED BY <2>1, <2>2, <2>3, <2>4, <2>5, <2>6
<1>4. /\ R[a] \in Descriptor /\ R[a].offset = T[a].offset /\ R[a].size = T[a].size + T[b].size
      /\ R[a].feb = T[a].feb /\ R[a].available /\ R[a].next = c /\ R[a].prev = T[a].prev
  <2>1. T[a].size + T[b].size \in 0..Memory /\ c \in Slot \union {None} /\ T[a].available
    BY <1>0, <1>1, <1>2 DEF Used
  <2> QED BY <1>2, <1>3, <2>1 DEF Descriptor
<1>5. /\ R[b] \in Descriptor /\ R[b] = Unused /\ ~R[b].available /\ ~R[b].feb
  <2>1. Unused \in Descriptor
    <3>1. -1 \in -1..Memory /\ 0 \in 0..Memory
      BY Constants
    <3> QED BY <3>1 DEF Descriptor, Unused
  <2>2. ~Unused.available /\ ~Unused.feb
    BY DEF Unused
  <2> QED BY <1>3, <2>1, <2>2
<1>6. c # None => /\ R[c] \in Descriptor /\ R[c].offset = T[c].offset /\ R[c].size = T[c].size
                  /\ R[c].feb = T[c].feb /\ R[c].available /\ R[c].next = T[c].next
                  /\ R[c].prev = a
  <2>1. c # None => T[c] \in Descriptor /\ a \in Slot /\ T[c].available
    BY <1>0, <1>1 DEF Used
  <2> QED BY <1>3, <2>1 DEF Descriptor
<1> HIDE DEF c
<1>7. \A i \in Slot \ {a, b} :
        /\ R[i] \in Descriptor /\ R[i].offset = T[i].offset /\ R[i].size = T[i].size
        /\ R[i].feb = T[i].feb /\ R[i].available = T[i].available /\ R[i].next = T[i].next
        /\ R[i].prev = IF i = c THEN a ELSE T[i].prev
        /\ i # c => R[i] = T[i]
  <2> SUFFICES ASSUME NEW i \in Slot \ {a, b}
               PROVE  /\ R[i] \in Descriptor /\ R[i].offset = T[i].offset /\ R[i].size = T[i].size
                      /\ R[i].feb = T[i].feb /\ R[i].available = T[i].available
                      /\ R[i].next = T[i].next /\ R[i].prev = IF i = c THEN a ELSE T[i].prev
                      /\ i # c => R[i] = T[i]
    OBVIOUS
  <2>1. CASE i = c
    <3>1. c # None /\ T[i].available
      BY <1>0, <2>1, Constants DEF Used
    <3>2. T[i].available = TRUE
      <4>1. T[i] \in Descriptor
        BY <1>1
      <4> QED BY <3>1, <4>1 DEF Descriptor
    <3>3. R[i].available = TRUE
      <4>1. R[i] \in Descriptor /\ R[i].available
        BY <1>6, <2>1, <3>1
      <4> QED BY <4>1 DEF Descriptor
    <3> QED BY <1>6, <2>1, <3>1, <3>2, <3>3
  <2>2. CASE i # c
    <3>1. R[i] = T[i] /\ T[i] \in Descriptor
      BY <1>1, <1>3, <2>2
    <3> QED BY <2>2, <3>1
  <2> QED BY <2>1, <2>2
<1>8. R \in [Slot -> Descriptor]
  <2>1. \A i \in Slot : R[i] \in Descriptor
    BY <1>4, <1>5, <1>7
  <2> QED BY <1>3, <2>1
<1>9. Used(R) = Used(T) \ {b}
  BY <1>1, <1>4, <1>5, <1>7 DEF Used
<1>10. \A i \in Slot : R[i].feb = T[i].feb
  <2>1. R[b].feb = T[b].feb
    <3>1. T[b].feb \in BOOLEAN
      BY <1>2 DEF Descriptor
    <3>2. R[b].feb = FALSE
      BY <1>5 DEF Unused
    <3> QED BY <3>1, <3>2
  <2> QED BY <1>4, <1>7, <2>1
<1>11. Headed(R)
  <2>1. Headed(T)
    BY DEF TableOk
  <2>2. 0 \in Slot \ {a, b} /\ 0 # c
    BY <1>0, <1>1
  <2> QED BY <1>7, <1>9, <2>1, <2>2 DEF Headed
<1>12. ASSUME NEW i \in Used(R) PROVE Linked(R, i)
  <2>1. i \in Used(T) /\ i # b /\ i \in Slot /\ i # None
    BY <1>1, <1>9
  <2>2. /\ T[i].offset \in 0..Memory /\ T[i].size \in 1..Memory
        /\ End(T, i) = T[i].offset + T[i].size /\ End(T, i) \in 1..Memory
        /\ T[i].next \in Used(T) \union {None}
        /\ T[i].next = None => End(T, i) = Memory
        /\ T[i].next # None =>
              /\ T[T[i].next].offset = End(T, i) /\ T[T[i].next].prev = i
              /\ T[i].next # 0 /\ T[i].next # i
        /\ i # 0 => T[i].prev \in Used(T) /\ T[T[i].prev].next = i /\ T[i].prev # i
    BY <2>1, SlotFact
  <2>3. CASE i = a
    <3>1. /\ 0 <= R[i].offset /\ 0 < R[i].size /\ End(R, i) = End(T, b) /\ End(R, i) <= Memory
      BY <1>0, <1>2, <1>4, <2>3 DEF End
    <3>2. R[i].next = None => End(R, i) = Memory
      <4>1. T[b].next = None => End(T, b) = Memory
        BY <1>0, SlotFact
      <4> QED BY <1>4, <2>3, <3>1, <4>1 DEF c
    <3>3. c # None => c \in Used(R) /\ R[c].offset = End(R, i) /\ R[c].prev = i
      BY <1>0, <1>1, <1>7, <1>9, <2>3, <3>1
    <3> DEFINE q == T[a].prev
    <3>4. q \in Used(T) /\ T[q].next = a /\ q # a /\ q # b
      BY <1>0, <2>2, <2>3 DEF c
    <3>5. q \in Used(R) /\ R[q].next = i
      BY <1>1, <1>7, <1>9, <2>3, <3>4
    <3> QED BY <1>4, <2>3, <3>1, <3>2, <3>3, <3>5 DEF Linked
  <2>4. CASE i # a
    <3>1. /\ R[i].offset = T[i].offset /\ R[i].size = T[i].size /\ End(R, i) = End(T, i)
          /\ R[i].next = T[i].next /\ R[i].prev = IF i = c THEN a ELSE T[i].prev
      BY <1>7, <2>1, <2>4 DEF End
    <3> DEFINE d == T[i].next
               q == T[i].prev
    <3>2. d # None => d # b /\ d # c
      BY <1>0, <2>1, <2>2, <2>4
    <3>3. d # None => d \in Used(R) /\ R[d].offset = End(R, i) /\ R[d].prev = i
      <4>1. d # None => d \in Used(T) /\ T[d].offset = End(T, i) /\ T[d].prev = i
        BY <2>2
      <4>2. d = a => R[d].offset = T[d].offset /\ R[d].prev = T[d].prev
        BY <1>4
      <4>3. d \in Slot \ {a, b, c} => R[d].offset = T[d].offset /\ R[d].prev = T[d].prev
        BY <1>7
      <4> HIDE DEF d
      <4> QED BY <1>1, <1>9, <3>1, <3>2, <4>1, <4>2, <4>3
    <3>4. i # 0 => R[i].prev \in Used(R) /\ R[R[i].prev].next = i
      <4>1. CASE i = c
        <5>1. R[i].prev = a /\ a \in Used(R) /\ R[a].next = c
          BY <1>0, <1>4, <1>9, <3>1, <4>1
        <5> QED BY <4>1, <5>1
      <4>2. CASE i # c /\ i # 0
        <5>1. q \in Used(T) /\ T[q].next = i /\ q # a /\ q # b
          BY <1>0, <2>1, <2>2, <4>2 DEF c
        <5>2. R[i].prev = q /\ q \in Used(R) /\ R[q].next = i
          BY <1>1, <1>7, <1>9, <3>1, <4>2, <5>1
        <5> QED BY <5>2
      <4> QED BY <4>1, <4>2
    <3>5. 0 <= R[i].offset /\ 0 < R[i].size /\ End(R, i) <= Memory
          /\ (R[i].next = None => End(R, i) = Memory)
      BY <2>2, <3>1, Constants
    <3> QED BY <3>1, <3>3, <3>4, <3>5 DEF Linked
  <2> QED BY <2>3, <2>4
<1>13. ASSUME NEW j \in Used(R), j # a PROVE End(T, b) <= T[j].offset \/ End(T, j) <= T[a].offset
  <2>1. j \in Used(T) /\ j # b
    BY <1>9
  <2>2. Apart(T, a, j) /\ Apart(T, b, j)
    BY <1>0, <1>13, <2>1 DEF TableOk
  <2>3. /\ T[j].offset \in Nat /\ T[j].size \in Nat \ {0} /\ End(T, j) = T[j].offset + T[j].size
    BY <2>1, SlotNat
  <2> QED BY <1>0, <1>2, <2>2, <2>3 DEF Apart
<1>14. ASSUME NEW i \in Used(R), NEW j \in Used(R), i # j PROVE Apart(R, i, j)
  <2>1. /\ R[a].offset = T[a].offset /\ End(R, a) = End(T, b)
        /\ \A k \in Used(R) \ {a} : R[k].offset = T[k].offset /\ End(R, k) = End(T, k)
    <3>1. End(R, a) = End(T, b)
      BY <1>0, <1>2, <1>4 DEF End
    <3> QED BY <1>1, <1>4, <1>7, <1>9, <3>1 DEF End
  <2>2. CASE i = a
    BY <1>13, <1>14, <2>1, <2>2 DEF Apart
  <2>3. CASE j = a
    BY <1>13, <1>14, <2>1, <2>3 DEF Apart
  <2>4. CASE i # a /\ j # a
    <3>1. Apart(T, i, j)
      BY <1>9, <1>14 DEF TableOk
    <3> QED BY <2>1, <2>4, <3>1 DEF Apart
  <2> QED BY <2>2, <2>3, <2>4
<1>15. \A i \in Slot : ~R[i].available => R[i] = Unused
  <2> SUFFICES ASSUME NEW i \in Slot, ~R[i].available PROVE R[i] = Unused
    OBVIOUS
  <2>1. i # a
    BY <1>4
  <2>2. CASE i # b
    <3>1. ~T[i].available
      BY <1>7, <2>1, <2>2
    <3>2. i # c
      BY <1>0, <3>1, Constants DEF Used
    <3> QED BY <1>7, <2>1, <2>2, <3>1, <3>2 DEF TableOk
  <2> QED BY <1>5, <2>2
<1>16. TableOk(R)
  BY <1>8, <1>11, <1>12, <1>14, <1>15 DEF TableOk
<1> QED BY <1>1, <1>4, <1>7, <1>9, <1>10, <1>16 DEF c

\* The full/empty bit of one slot set.
Marked(T, s, v) == [T EXCEPT ![s].feb = v]

\* A table in which the full slots are those of the current one but s.
KeepsFull(T, s) ==
  \A i \in Slot : /\ T[i].feb <=> slot[i].feb /\ i # s
                  /\ T[i].feb => T[i].offset = slot[i].offset /\ T[i].size = slot[i].size

\* Setting the bit of a slot other than the first leaves the table in order.
LEMMA MarkOk ==
  ASSUME NEW T, TableOk(T), NEW s \in Used(T), s # 0, NEW v \in BOOLEAN,
         NEW R, R = Marked(T, s, v)
  PROVE  /\ TableOk(R)
         /\ Used(R) = Used(T)
         /\ \A i \in Slot : /\ R[i].offset = T[i].offset /\ R[i].size = T[i].size
                            /\ R[i].next = T[i].next /\ R[i].prev = T[i].prev
                            /\ R[i].feb = IF i = s THEN v ELSE T[i].feb
<1>1. s \in Slot /\ T[s].available /\ T \in [Slot -> Descriptor] /\ 0 \in Slot
  BY Constants DEF Used, TableOk
<1>2. \A i \in Slot : /\ R[i] \in Descriptor
                      /\ R[i].offset = T[i].offset /\ R[i].size = T[i].size
                      /\ R[i].next = T[i].next /\ R[i].prev = T[i].prev
                      /\ R[i].available = T[i].available
                      /\ R[i].feb = IF i = s THEN v ELSE T[i].feb
                      /\ i # s => R[i] = T[i]
  <2> SUFFICES ASSUME NEW i \in Slot
               PROVE  /\ R[i] \in Descriptor
                      /\ R[i].offset = T[i].offset /\ R[i].size = T[i].size
                      /\ R[i].next = T[i].next /\ R[i].prev = T[i].prev
                      /\ R[i].available = T[i].available
                      /\ R[i].feb = IF i = s THEN v ELSE T[i].feb
                      /\ i # s => R[i] = T[i]
    OBVIOUS
  <2>1. T[i] \in Descriptor
    BY <1>1
  <2>2. CASE i = s
    <3>1. R[i] = [T[i] EXCEPT !.feb = v]
      BY <1>1, <2>2 DEF Marked
    <3> QED BY <2>1, <2>2, <3>1 DEF Descriptor
  <2>3. CASE i # s
    <3>1. R[i] = T[i]
      BY <1>1, <2>3 DEF Marked
    <3> QED BY <2>1, <2>3, <3>1
  <2> QED BY <2>2, <2>3
<1>3. R \in [Slot -> Descriptor]
  <2>1. R = [i \in Slot |-> R[i]]
    BY <1>1 DEF Marked
  <2> QED BY <1>2, <2>1
<1>4. Used(R) = Used(T)
  BY <1>2 DEF Used
<1>5. Headed(R)
  <2>1. Headed(T) /\ R[0] = T[0]
    BY <1>1, <1>2 DEF TableOk
  <2> QED BY <1>4, <2>1 DEF Headed
<1>6. \A i \in Used(R) : Linked(R, i)
  <2> SUFFICES ASSUME NEW i \in Used(R) PROVE Linked(R, i)
    OBVIOUS
  <2>1. i \in Slot /\ Linked(T, i) /\ End(R, i) = End(T, i) /\ Used(T) \subseteq Slot
    BY <1>2, <1>4 DEF Used, TableOk, End
  <2> QED BY <1>2, <1>4, <2>1 DEF Linked
<1>7. ASSUME NEW i \in Used(R), NEW j \in Used(R), i # j PROVE Apart(R, i, j)
  <2>1. i \in Slot /\ j \in Slot /\ Apart(T, i, j)
    BY <1>4, <1>7 DEF Used, TableOk
  <2> QED BY <1>2, <2>1 DEF Apart, End
<1>8. \A i \in Slot : ~R[i].available => R[i] = Unused
  BY <1>1, <1>2 DEF TableOk
<1> QED BY <1>2, <1>3, <1>4, <1>5, <1>6, <1>7, <1>8 DEF TableOk

\* The table after a deallocation: one full slot is gone, no other full slot
\* has changed, and no two free slots are neighbours.
LEMMA MergedOk ==
  ASSUME TableOk(slot), Packed(slot), NEW s \in Used(slot), s # 0, slot[s].feb,
         NEW R, R = Merged(s)
  PROVE  /\ TableOk(R) /\ Packed(R)
         /\ KeepsFull(R, s)
         /\ (LastFree(slot) /\ (slot[s].next = None \/ ~slot[slot[s].next].feb)) => LastFree(R)
<1> DEFINE p == slot[s].prev
           n == slot[s].next
           F == Marked(slot, s, FALSE)
<1>1. /\ TableOk(F) /\ Used(F) = Used(slot)
      /\ \A i \in Slot : /\ F[i].offset = slot[i].offset /\ F[i].size = slot[i].size
                         /\ F[i].next = slot[i].next /\ F[i].prev = slot[i].prev
                         /\ F[i].feb = IF i = s THEN FALSE ELSE slot[i].feb
  <2> HIDE DEF F
  <2> DEFINE v == FALSE
  <2>1. v \in BOOLEAN /\ F = Marked(slot, s, v)
    BY DEF F
  <2> HIDE DEF v
  <2>2. /\ TableOk(F) /\ Used(F) = Used(slot)
        /\ \A i \in Slot : /\ F[i].offset = slot[i].offset /\ F[i].size = slot[i].size
                           /\ F[i].next = slot[i].next /\ F[i].prev = slot[i].prev
                           /\ F[i].feb = IF i = s THEN v ELSE slot[i].feb
    BY <2>1, MarkOk
  <2> QED BY <2>2 DEF v
<1>2. /\ p \in Used(slot) /\ slot[p].next = s /\ p # s /\ p # None /\ p \in Slot
      /\ n \in Used(slot) \union {None} /\ n # s /\ n # 0 /\ s \in Slot /\ s # None
      /\ n # None => slot[n].prev = s /\ n # p /\ n \in Slot /\ slot[n].offset = End(slot, s)
      /\ Used(slot) \subseteq Slot /\ None \notin Slot
  <2>1. /\ p \in Used(slot) /\ slot[p].next = s /\ p # s
        /\ n \in Used(slot) \union {None}
        /\ n # None => n # s /\ n # 0 /\ slot[n].prev = s /\ slot[n].offset = End(slot, s)
    BY SlotFact
  <2>2. s # None /\ 0 # None
    BY Constants DEF Used
  <2>3. slot[s].offset = End(slot, p)
    BY <2>1, <2>2, SlotFact
  <2>4. n # None => n # p
    <3> SUFFICES ASSUME n # None, n = p PROVE FALSE
      OBVIOUS
    <3>1. slot[p].offset = End(slot, s)
      BY <2>1
    <3>2. End(slot, p) = slot[p].offset + slot[p].size /\ slot[p].offset \in Nat /\ slot[p].size \in Nat \ {0}
      BY <2>1, SlotNat
    <3>3. End(slot, s) = slot[s].offset + slot[s].size /\ slot[s].offset \in Nat /\ slot[s].size \in Nat \ {0}
      BY SlotNat
    <3> QED BY <2>3, <3>1, <3>2, <3>3
  <2> QED BY <2>1, <2>2, <2>4, Constants DEF Used
<1>3. F[s].next = n /\ F[s].prev = p /\ F[p].next = s /\ ~F[s].feb
  BY <1>1, <1>2
<1>4. Empty(F, p) = ~slot[p].feb /\ Empty(F, n) = (n # None /\ ~slot[n].feb)
  BY <1>1, <1>2 DEF Empty
<1> DEFINE into == AbsorbNext(F, p)
<1>5. R = IF ~slot[p].feb
          THEN IF n # None /\ ~slot[n].feb THEN AbsorbNext(into, p) ELSE into
          ELSE IF n # None /\ ~slot[n].feb THEN AbsorbNext(F, s) ELSE F
  <2> DEFINE freed == [slot EXCEPT ![s].feb = FALSE]
             joined == [i \in Slot |->
                  CASE i = p -> [freed[p] EXCEPT !.size = @ + freed[s].size, !.next = n]
                    [] i = s -> Unused
                    [] i = n -> [freed[n] EXCEPT !.prev = p]
                    [] OTHER -> freed[i]]
  <2>1. R = IF Empty(freed, p)
            THEN IF Empty(freed, n) THEN AbsorbNext(joined, p) ELSE joined
            ELSE IF Empty(freed, n) THEN AbsorbNext(freed, s) ELSE freed
    BY DEF Merged
  <2>2. freed = F
    BY DEF Marked
  <2> HIDE DEF freed, F, p, n
  <2>3. joined = into
    <3> DEFINE b == F[p].next
               c == F[b].next
               other == [i \in Slot |->
                  CASE i = p -> [F[p] EXCEPT !.size = @ + F[b].size, !.next = c]
                    [] i = b -> Unused
                    [] i = c -> [F[c] EXCEPT !.prev = p]
                    [] OTHER -> F[i]]
    <3>1. into = other
      BY DEF AbsorbNext
    <3>2. b = s /\ c = n
      BY <1>3
    <3> HIDE DEF b, c
    <3>3. ASSUME NEW i \in Slot PROVE joined[i] = other[i]
      <4>1. CASE i = p
        BY <1>2, <2>2, <3>2, <4>1
      <4>2. CASE i = s
        BY <1>2, <2>2, <3>2, <4>2
      <4>3. CASE i = n
        BY <1>2, <2>2, <3>2, <4>3
      <4>4. CASE i # p /\ i # s /\ i # n
        BY <1>2, <2>2, <3>2, <4>4
      <4> QED BY <4>1, <4>2, <4>3, <4>4
    <3>4. joined = [i \in Slot |-> joined[i]] /\ other = [i \in Slot |-> other[i]]
      OBVIOUS
    <3> HIDE DEF joined, other, into
    <3> QED BY <3>1, <3>3, <3>4
  <2> HIDE DEF freed, joined, into, F, p, n
  <2> QED BY <1>4, <2>1, <2>2, <2>3
<1> HIDE DEF F
<1>6. ASSUME ~slot[p].feb
      PROVE  /\ TableOk(into) /\ Used(into) = Used(slot) \ {s} /\ p # 0
             /\ \A i \in Slot : into[i].feb = F[i].feb
             /\ \A i \in Used(into) :
                  into[i].offset = slot[i].offset
                  /\ (i # p => into[i].size = slot[i].size /\ into[i].next = slot[i].next)
             /\ into[p].next = n
  <2>1. /\ TableOk(F) /\ p \in Used(F) /\ s = F[p].next /\ s # None /\ ~F[p].feb /\ ~F[s].feb
    BY <1>1, <1>2, <1>3, <1>6
  <2>2. p # 0
    BY <1>6 DEF TableOk, Headed
  <2> HIDE DEF into, p, n
  <2>3. into = AbsorbNext(F, p)
    BY DEF into
  <2>4. /\ TableOk(into) /\ Used(into) = Used(F) \ {s}
        /\ \A i \in Slot : into[i].feb = F[i].feb
        /\ \A i \in Used(into) : /\ into[i].offset = F[i].offset
                                 /\ i # p => into[i].size = F[i].size /\ into[i].next = F[i].next
        /\ into[p].next = F[s].next
    BY <2>1, <2>3, AbsorbOk
  <2>5. Used(into) = Used(slot) \ {s} /\ into[p].next = n
    BY <1>1, <1>3, <2>4
  <2>6. ASSUME NEW i \in Used(into)
        PROVE  into[i].offset = slot[i].offset
               /\ (i # p => into[i].size = slot[i].size /\ into[i].next = slot[i].next)
    <3>1. i \in Slot
      BY <1>2, <2>5
    <3> QED BY <1>1, <2>4, <3>1
  <2> QED BY <2>2, <2>4, <2>5, <2>6
<1> HIDE DEF into
<1>7. ASSUME NEW T, TableOk(T), Used(T) \subseteq Used(slot),
             \A i \in Slot : T[i].feb = F[i].feb,
             \A i \in Used(T) \ {s} : T[i].feb => T[i].offset = slot[i].offset /\ T[i].size = slot[i].size
      PROVE  KeepsFull(T, s)
  <2> SUFFICES ASSUME NEW i \in Slot
               PROVE  /\ T[i].feb <=> slot[i].feb /\ i # s
                      /\ T[i].feb => T[i].offset = slot[i].offset /\ T[i].size = slot[i].size
    BY DEF KeepsFull
  <2>1. T[i].feb <=> slot[i].feb /\ i # s
    <3>1. T[i].feb = (IF i = s THEN FALSE ELSE slot[i].feb)
      BY <1>1, <1>7
    <3> QED BY <3>1
  <2>2. T[i].feb => i \in Used(T) \ {s}
    <3>1. ~T[i].available => T[i] = Unused
      BY <1>7 DEF TableOk
    <3>2. T[i].feb => T[i].available
      BY <3>1 DEF Unused
    <3> QED BY <2>1, <3>2 DEF Used
  <2> QED BY <1>7, <2>1, <2>2
<1>8. CASE ~slot[p].feb /\ n # None /\ ~slot[n].feb
  <2> DEFINE m == slot[n].next
  <2>1. /\ TableOk(into) /\ p \in Used(into) /\ n = into[p].next /\ n # None
        /\ ~into[p].feb /\ ~into[n].feb /\ n \in Used(slot) \ {s} /\ R = AbsorbNext(into, p)
    <3>1. TableOk(into) /\ p \in Used(into) /\ n = into[p].next
      BY <1>2, <1>6, <1>8
    <3>2. ~into[p].feb /\ ~into[n].feb
      <4>1. into[p].feb = F[p].feb /\ into[n].feb = F[n].feb
        BY <1>2, <1>6, <1>8
      <4> QED BY <1>1, <1>2, <1>8, <4>1
    <3>3. n \in Used(slot) \ {s} /\ R = AbsorbNext(into, p)
      BY <1>2, <1>5, <1>8
    <3> QED BY <1>8, <3>1, <3>2, <3>3
  <2>2. into[n].next = m /\ (m # None => slot[m].feb) /\ m \in Used(slot) \union {None}
        /\ (m # None => m # s)
    <3>1. m \in Used(slot) \union {None} /\ (m # None => slot[m].prev = n)
      BY <1>2, <1>8, SlotFact
    <3> QED BY <1>2, <1>6, <1>8, <2>1, <3>1 DEF Packed
  <2> HIDE DEF p, n, m
  <2>3. /\ TableOk(R) /\ Used(R) = Used(into) \ {n}
        /\ \A i \in Slot : R[i].feb = into[i].feb
        /\ \A i \in Used(R) : /\ R[i].offset = into[i].offset
                              /\ i # p => R[i].size = into[i].size /\ R[i].next = into[i].next
        /\ R[p].next = into[n].next
    BY <2>1, AbsorbOk
  <2>4. Used(R) = Used(slot) \ {s, n}
    BY <1>6, <1>8, <2>3
  <2>5. \A i \in Slot : R[i].feb = F[i].feb
    BY <1>6, <1>8, <2>3
  <2>6. \A i \in Used(R) \ {p} : R[i].offset = slot[i].offset /\ R[i].size = slot[i].size /\ R[i].next = slot[i].next
    BY <1>6, <1>8, <2>3
  <2>7. ~F[p].feb
    BY <1>1, <1>2, <1>8
  <2>8. KeepsFull(R, s)
    <3>1. \A i \in Used(R) \ {s} : R[i].feb => R[i].offset = slot[i].offset /\ R[i].size = slot[i].size
      BY <1>2, <2>4, <2>5, <2>6, <2>7
    <3> QED BY <1>7, <2>3, <2>4, <2>5, <3>1
  <2>9. Packed(R)
    <3> SUFFICES ASSUME NEW i \in Used(R), R[i].next # None, ~R[i].feb PROVE R[R[i].next].feb
      BY DEF Packed
    <3>1. CASE i = p
      <4>1. R[i].next = m /\ m # None /\ m \in Slot /\ F[m].feb = slot[m].feb
        BY <1>1, <1>2, <2>2, <2>3, <3>1
      <4> QED BY <2>2, <2>5, <4>1
    <3>2. CASE i # p
      <4>1. i \in Used(slot) /\ i # s /\ R[i].next = slot[i].next
        BY <2>4, <2>6, <3>2
      <4> DEFINE d == slot[i].next
      <4>2. d \in Used(slot) /\ slot[d].prev = i
        BY <4>1, SlotFact
      <4>3. d # s
        BY <3>2, <4>2 DEF p
      <4>4. ~slot[i].feb
        BY <1>1, <1>2, <2>5, <4>1
      <4>5. slot[d].feb
        BY <4>1, <4>4 DEF Packed
      <4> HIDE DEF d
      <4>6. R[d].feb = slot[d].feb
        BY <1>1, <1>2, <2>5, <4>2, <4>3
      <4> QED BY <4>1, <4>5, <4>6 DEF d
    <3> QED BY <3>1, <3>2
  <2>10. ~LastFree(slot)
    BY <1>2, <1>8 DEF LastFree
  <2> QED BY <2>3, <2>8, <2>9, <2>10
<1>9. CASE ~slot[p].feb /\ ~(n # None /\ ~slot[n].feb)
  <2>1. R = into
    BY <1>5, <1>9
  <2>2. ~F[p].feb
    BY <1>1, <1>2, <1>9
  <2> HIDE DEF p, n
  <2>3. KeepsFull(R, s)
    <3>1. \A i \in Used(R) \ {s} : R[i].feb => R[i].offset = slot[i].offset /\ R[i].size = slot[i].size
      <4>1. ~R[p].feb
        BY <1>2, <1>6, <1>9, <2>1, <2>2
      <4> QED BY <1>6, <1>9, <2>1, <4>1
    <3>2. TableOk(R) /\ Used(R) \subseteq Used(slot) /\ \A i \in Slot : R[i].feb = F[i].feb
      BY <1>6, <1>9, <2>1
    <3> QED BY <1>7, <3>1, <3>2
  <2>4. Packed(R)
    <3> SUFFICES ASSUME NEW i \in Used(R), R[i].next # None, ~R[i].feb PROVE R[R[i].next].feb
      BY DEF Packed
    <3>1. CASE i = p
      <4>1. R[i].next = n /\ n \in Slot /\ n # s /\ slot[n].feb
        BY <1>2, <1>6, <1>9, <2>1, <3>1
      <4> QED BY <2>3, <4>1 DEF KeepsFull
    <3>2. CASE i # p
      <4>1. i \in Used(slot) /\ i # s /\ R[i].next = slot[i].next
        BY <1>6, <1>9, <2>1, <3>2
      <4> DEFINE d == slot[i].next
      <4>2. d \in Used(slot) /\ slot[d].prev = i
        BY <4>1, SlotFact
      <4>3. d # s
        BY <3>2, <4>2 DEF p
      <4>4. ~slot[i].feb
        BY <1>2, <2>3, <4>1 DEF KeepsFull
      <4>5. slot[d].feb
        BY <4>1, <4>4 DEF Packed
      <4> HIDE DEF d
      <4>6. R[d].feb
        BY <1>2, <2>3, <4>2, <4>3, <4>5 DEF KeepsFull
      <4> QED BY <4>1, <4>6 DEF d
    <3> QED BY <3>1, <3>2
  <2>5. ~LastFree(slot)
    BY <1>2, <1>9 DEF p, LastFree
  <2> QED BY <1>6, <1>9, <2>1, <2>3, <2>4, <2>5
<1>10. CASE slot[p].feb /\ n # None /\ ~slot[n].feb
  <2> DEFINE m == slot[n].next
  <2>1. /\ TableOk(F) /\ s \in Used(F) /\ n = F[s].next /\ n # None
        /\ ~F[s].feb /\ ~F[n].feb /\ R = AbsorbNext(F, s)
    BY <1>1, <1>2, <1>3, <1>5, <1>10
  <2>2. F[n].next = m /\ (m # None => slot[m].feb) /\ m \in Used(slot) \union {None}
        /\ (m # None => m # s)
    <3>1. m \in Used(slot) \union {None} /\ (m # None => slot[m].prev = n)
      BY <1>2, <1>10, SlotFact
    <3>2. m = s => p = n
      BY <1>2, <3>1
    <3> QED BY <1>1, <1>2, <1>10, <2>1, <3>1, <3>2 DEF Packed
  <2> HIDE DEF p, n, m
  <2>3. /\ TableOk(R) /\ Used(R) = Used(F) \ {n}
        /\ \A i \in Slot : R[i].feb = F[i].feb
        /\ \A i \in Used(R) : /\ R[i].offset = F[i].offset
                              /\ i # s => R[i].size = F[i].size /\ R[i].next = F[i].next
        /\ R[s].next = F[n].next
    BY <2>1, AbsorbOk
  <2>4. Used(R) = Used(slot) \ {n}
    BY <1>1, <2>3
  <2>5. \A i \in Used(R) \ {s} : R[i].offset = slot[i].offset /\ R[i].size = slot[i].size /\ R[i].next = slot[i].next
    <3> SUFFICES ASSUME NEW i \in Used(R) \ {s}
                 PROVE  /\ R[i].offset = slot[i].offset /\ R[i].size = slot[i].size
                        /\ R[i].next = slot[i].next
      OBVIOUS
    <3>1. i \in Slot /\ i # s
      BY <1>2, <2>4
    <3>2. R[i].offset = F[i].offset /\ R[i].size = F[i].size /\ R[i].next = F[i].next
      BY <2>3, <3>1
    <3> QED BY <1>1, <3>1, <3>2
  <2>6. KeepsFull(R, s)
    BY <1>7, <2>3, <2>4, <2>5
  <2>7. Packed(R)
    <3> SUFFICES ASSUME NEW i \in Used(R), R[i].next # None, ~R[i].feb PROVE R[R[i].next].feb
      BY DEF Packed
    <3>1. CASE i = s
      <4>1. R[i].next = m /\ m # None /\ m \in Slot /\ m # s /\ slot[m].feb
        BY <1>2, <2>2, <2>3, <3>1
      <4> QED BY <2>6, <4>1 DEF KeepsFull
    <3>2. CASE i # s
      <4>1. i \in Used(slot) /\ R[i].next = slot[i].next
        BY <2>4, <2>5, <3>2
      <4> DEFINE d == slot[i].next
      <4>2. d \in Used(slot) /\ slot[d].prev = i
        BY <4>1, SlotFact
      <4>3. ~slot[i].feb
        BY <1>2, <2>6, <3>2, <4>1 DEF KeepsFull
      <4>4. d # s
        BY <1>10, <4>2, <4>3 DEF p
      <4>5. slot[d].feb
        BY <4>1, <4>3 DEF Packed
      <4> HIDE DEF d
      <4>6. R[d].feb
        BY <1>2, <2>6, <4>2, <4>4, <4>5 DEF KeepsFull
      <4> QED BY <4>1, <4>6 DEF d
    <3> QED BY <3>1, <3>2
  <2>8. LastFree(slot) => LastFree(R)
    <3> SUFFICES ASSUME LastFree(slot), NEW i \in Used(R), ~R[i].feb PROVE R[i].next = None
      BY DEF LastFree
    <3>1. m = None
      BY <1>2, <1>10 DEF m, LastFree
    <3>2. CASE i = s
      BY <2>2, <2>3, <3>1, <3>2
    <3>3. CASE i # s
      <4>1. i \in Used(slot) /\ R[i].next = slot[i].next /\ ~slot[i].feb
        BY <1>2, <2>4, <2>5, <2>6, <3>3 DEF KeepsFull
      <4> QED BY <4>1 DEF LastFree
    <3> QED BY <3>2, <3>3
  <2> QED BY <2>3, <2>6, <2>7, <2>8
<1>11. CASE slot[p].feb /\ ~(n # None /\ ~slot[n].feb)
  <2>1. R = F
    BY <1>5, <1>11
  <2> HIDE DEF p, n
  <2>2. KeepsFull(R, s)
    <3>1. TableOk(R) /\ Used(R) = Used(slot) /\ \A i \in Slot : R[i].feb = F[i].feb
      BY <1>1, <2>1
    <3>2. ASSUME NEW i \in Used(R) \ {s}
          PROVE  R[i].feb => R[i].offset = slot[i].offset /\ R[i].size = slot[i].size
      <4>1. i \in Slot
        BY <1>2, <3>1
      <4> QED BY <1>1, <2>1, <4>1
    <3> QED BY <1>7, <3>1, <3>2
  <2>3. Packed(R)
    <3> SUFFICES ASSUME NEW i \in Used(R), R[i].next # None, ~R[i].feb PROVE R[R[i].next].feb
      BY DEF Packed
    <3>1. i \in Used(slot) /\ R[i].next = slot[i].next
      BY <1>1, <1>2, <2>1
    <3>2. CASE i = s
      BY <1>2, <1>11, <2>2, <3>1, <3>2 DEF n, KeepsFull
    <3>3. CASE i # s
      <4> DEFINE d == slot[i].next
      <4>1. d \in Used(slot) /\ slot[d].prev = i
        BY <3>1, SlotFact
      <4>2. ~slot[i].feb
        BY <1>2, <2>2, <3>1, <3>3 DEF KeepsFull
      <4>3. d # s
        BY <1>11, <4>1, <4>2 DEF p
      <4>4. slot[d].feb
        BY <3>1, <4>2 DEF Packed
      <4> HIDE DEF d
      <4>5. R[d].feb
        BY <1>2, <2>2, <4>1, <4>3, <4>4 DEF KeepsFull
      <4> QED BY <3>1, <4>5 DEF d
    <3> QED BY <3>2, <3>3
  <2>4. LastFree(slot) /\ (n = None \/ ~slot[n].feb) => LastFree(R)
    <3> SUFFICES ASSUME LastFree(slot), n = None, NEW i \in Used(R), ~R[i].feb PROVE R[i].next = None
      BY <1>11 DEF LastFree
    <3>1. i \in Used(slot) /\ R[i].next = slot[i].next
      BY <1>1, <1>2, <2>1
    <3>2. CASE i = s
      BY <3>1, <3>2 DEF n
    <3>3. CASE i # s
      <4>1. ~slot[i].feb
        BY <1>2, <2>2, <3>1, <3>3 DEF KeepsFull
      <4> QED BY <3>1, <4>1 DEF LastFree
    <3> QED BY <3>2, <3>3
  <2> QED BY <1>1, <2>1, <2>2, <2>3, <2>4 DEF n
<1> QED BY <1>8, <1>9, <1>10, <1>11

-----------------------------------------------------------------------------
(* What allocation does to the table.                                      *)

\* The table after the last slot has been split.
LEMMA SplitOk ==
  ASSUME TableOk(slot), UnusedSlots # {}, NEW s \in Used(slot), s # 0, slot[s].next = None,
         NEW size \in Nat, 0 < size, size < slot[s].size,
         NEW R, R = Split(s, size), NEW new, new = Min(UnusedSlots)
  PROVE  /\ TableOk(R)
         /\ new \in Slot /\ new \notin Used(slot) /\ Used(R) = Used(slot) \union {new}
         /\ ~R[new].feb /\ R[new].next = None
         /\ R[s].feb /\ R[s].offset = slot[s].offset /\ R[s].size = size /\ R[s].next = new
         /\ \A i \in Slot \ {s, new} : R[i] = slot[i]
<1>1. /\ new \in Slot /\ ~slot[new].available /\ new \notin Used(slot) /\ new # s /\ new # 0
      /\ s \in Slot /\ Used(slot) \subseteq Slot /\ 0 \in Slot /\ None \notin Slot
      /\ slot \in [Slot -> Descriptor] /\ slot[s].available
  <2>1. UnusedSlots \in SUBSET Nat
    BY Constants DEF UnusedSlots
  <2>2. new \in UnusedSlots
    BY <2>1, Least
  <2>3. 0 \in Used(slot)
    BY DEF TableOk, Headed
  <2> QED BY <2>2, <2>3, Constants DEF UnusedSlots, Used, TableOk
<1>2. /\ slot[s].offset \in Nat /\ slot[s].size \in Nat /\ End(slot, s) = slot[s].offset + slot[s].size
      /\ slot[s] \in Descriptor /\ End(slot, s) = Memory /\ Memory \in Nat
      /\ slot[s].prev \in Used(slot) /\ slot[slot[s].prev].next = s /\ slot[s].prev # s
  <2>1. /\ slot[s].offset \in Nat /\ slot[s].size \in Nat /\ End(slot, s) = slot[s].offset + slot[s].size
        /\ End(slot, s) = Memory
    BY SlotNat
  <2>2. /\ slot[s] \in Descriptor
        /\ slot[s].prev \in Used(slot) /\ slot[slot[s].prev].next = s /\ slot[s].prev # s
    BY SlotFact
  <2> QED BY <2>1, <2>2, Constants
<1> DEFINE rest == [offset |-> slot[s].offset + size, size |-> slot[s].size - size,
                    feb |-> FALSE, available |-> TRUE, next |-> slot[s].next, prev |-> s]
<1>3. /\ R = [i \in Slot |-> R[i]] /\ R[new] = rest
      /\ R[s] = [slot[s] EXCEPT !.size = size, !.feb = TRUE, !.next = new]
      /\ \A i \in Slot \ {s, new} : R[i] = slot[i]
  <2>1. R = [slot EXCEPT ![new] = rest, ![s].size = size, ![s].feb = TRUE, ![s].next = new]
    BY DEF Split
  <2> HIDE DEF rest
  <2>2. R[s] = [slot[s] EXCEPT !.size = size, !.feb = TRUE, !.next = new]
    BY <1>1, <2>1
  <2>3. R[new] = rest
    BY <1>1, <2>1
  <2>4. \A i \in Slot \ {s, new} : R[i] = slot[i]
    BY <1>1, <2>1
  <2>5. R = [i \in Slot |-> R[i]]
    BY <1>1, <2>1
  <2> QED BY <2>2, <2>3, <2>4, <2>5
<1>4. /\ rest \in Descriptor /\ rest.offset = slot[s].offset + size
      /\ rest.size = slot[s].size - size /\ rest.feb = FALSE /\ rest.available
      /\ rest.next = None /\ rest.prev = s
  <2>1. slot[s].offset + size \in -1..Memory /\ slot[s].size - size \in 0..Memory
    BY <1>2
  <2> QED BY <1>1, <2>1 DEF Descriptor
<1> HIDE DEF rest
<1>5. /\ R[s] \in Descriptor /\ R[s].offset = slot[s].offset /\ R[s].size = size /\ R[s].feb
      /\ R[s].available /\ R[s].next = new /\ R[s].prev = slot[s].prev
  <2>1. size \in 0..Memory
    BY <1>2
  <2> DEFINE d == slot[s]
  <2>2. d \in Descriptor /\ d.available /\ R[s] = [d EXCEPT !.size = size, !.feb = TRUE, !.next = new]
    BY <1>1, <1>2, <1>3
  <2> HIDE DEF d
  <2>3. /\ R[s] \in Descriptor /\ R[s].offset = d.offset /\ R[s].size = size /\ R[s].feb
        /\ R[s].available = d.available /\ R[s].next = new /\ R[s].prev = d.prev
    BY <1>1, <2>1, <2>2 DEF Descriptor
  <2>4. R[s].available
    BY <2>2, <2>3
  <2> QED BY <2>3, <2>4 DEF d
<1>6. R \in [Slot -> Descriptor]
  <2>1. \A i \in Slot : R[i] \in Descriptor
    BY <1>1, <1>3, <1>4, <1>5
  <2> QED BY <1>3, <2>1
<1>7. Used(R) = Used(slot) \union {new}
  BY <1>1, <1>3, <1>4, <1>5 DEF Used
<1>8. \A i \in Slot : ~R[i].available => R[i] = Unused
  BY <1>3, <1>4, <1>5 DEF TableOk
<1>9. Headed(R)
  <2>1. 0 \in Slot \ {s, new} /\ Headed(slot)
    BY <1>1 DEF TableOk
  <2> QED BY <1>3, <1>7, <2>1 DEF Headed
<1>10. /\ End(R, new) = Memory /\ End(R, s) = slot[s].offset + size
       /\ R[new].offset = slot[s].offset + size
       /\ \A i \in Slot \ {s, new} : End(R, i) = End(slot, i)
  BY <1>2, <1>3, <1>4, <1>5 DEF End
<1>11. ASSUME NEW i \in Used(R) PROVE Linked(R, i)
  <2>1. CASE i = new
    BY <1>1, <1>2, <1>3, <1>4, <1>5, <1>7, <1>10, <2>1 DEF Linked
  <2>2. CASE i = s
    <3> DEFINE q == slot[s].prev
    <3>1. q \in Used(slot) /\ q \in Slot \ {s, new} /\ slot[q].next = s
      BY <1>1, <1>2
    <3>2. R[q].next = s
      BY <1>3, <3>1
    <3>3. R[s].prev \in Used(R) /\ R[R[s].prev].next = s
      BY <1>5, <1>7, <3>1, <3>2
    <3>4. R[s].next = new /\ new \in Used(R) /\ R[new].offset = End(R, s) /\ R[new].prev = s
      BY <1>3, <1>4, <1>5, <1>7, <1>10
    <3>5. 0 <= R[s].offset /\ 0 < R[s].size /\ End(R, s) <= Memory
      BY <1>2, <1>5, <1>10
    <3> QED BY <1>1, <2>2, <3>3, <3>4, <3>5 DEF Linked
  <2>3. CASE i # new /\ i # s
    <3>1. /\ i \in Used(slot) /\ i \in Slot \ {s, new} /\ R[i] = slot[i] /\ Linked(slot, i)
          /\ End(R, i) = End(slot, i)
      BY <1>1, <1>3, <1>7, <1>10, <2>3 DEF TableOk
    <3> DEFINE d == slot[i].next
               q == slot[i].prev
    <3>2. d # None => d \in Used(slot) /\ slot[d].offset = End(slot, i) /\ slot[d].prev = i
      BY <3>1, SlotFact
    <3>3. i # 0 => q \in Used(slot) /\ slot[q].next = i
      BY <3>1, SlotFact
    <3> HIDE DEF d, q
    <3>4. d # None => d \in Used(R) /\ R[d].offset = End(R, i) /\ R[d].prev = i
      <4>1. d # None => d \in Slot /\ d # new
        BY <1>1, <3>2
      <4>2. CASE d = s
        BY <1>5, <1>7, <3>1, <3>2, <4>2
      <4>3. CASE d # s
        BY <1>3, <1>7, <3>1, <3>2, <4>1, <4>3
      <4> QED BY <4>2, <4>3
    <3>5. i # 0 => q \in Used(R) /\ R[q].next = i
      <4>1. i # 0 => q # s
        <5>1. i # None
          BY <1>1, <3>1
        <5> QED BY <3>3, <5>1
      <4>2. i # 0 => q \in Slot \ {s, new}
        BY <1>1, <3>3, <4>1
      <4> QED BY <1>3, <1>7, <3>3, <4>2
    <3> QED BY <3>1, <3>4, <3>5 DEF Linked, d, q
  <2> QED BY <2>1, <2>2, <2>3
<1>12. ASSUME NEW j \in Used(slot), j # s PROVE End(slot, j) <= slot[s].offset
  <2>1. Apart(slot, s, j)
    BY <1>12 DEF TableOk
  <2>2. /\ slot[j].offset \in Nat /\ slot[j].size \in Nat \ {0} /\ End(slot, j) = slot[j].offset + slot[j].size
        /\ End(slot, j) <= Memory
    BY SlotNat
  <2> QED BY <1>2, <2>1, <2>2 DEF Apart
<1>13. ASSUME NEW i \in Used(R), NEW j \in Used(R), i # j PROVE Apart(R, i, j)
  <2>1. \A k \in Used(slot) : k # s => End(R, k) = End(slot, k) /\ End(R, k) \in Nat
                                       /\ R[k].offset = slot[k].offset
    <3> SUFFICES ASSUME NEW k \in Used(slot), k # s
                 PROVE  End(R, k) = End(slot, k) /\ End(R, k) \in Nat /\ R[k].offset = slot[k].offset
      OBVIOUS
    <3>1. k \in Slot \ {s, new}
      BY <1>1
    <3> QED BY <1>3, <1>10, <3>1, SlotNat
  <2>2. CASE {i, j} \subseteq Used(slot) \ {s}
    <3>1. Apart(slot, i, j)
      BY <1>13, <2>2 DEF TableOk
    <3> QED BY <2>1, <2>2, <3>1 DEF Apart
  <2>3. ASSUME NEW k \in Used(slot), k # s
        PROVE  /\ Apart(R, k, s) /\ Apart(R, s, k) /\ Apart(R, k, new) /\ Apart(R, new, k)
    <3>1. End(R, k) <= R[s].offset
      BY <1>5, <1>12, <2>1, <2>3
    <3>2. End(R, k) <= R[new].offset
      BY <1>2, <1>5, <1>10, <2>1, <2>3, <3>1
    <3> QED BY <3>1, <3>2 DEF Apart
  <2>4. Apart(R, s, new) /\ Apart(R, new, s)
    BY <1>2, <1>10 DEF Apart
  <2>5. i \in Used(slot) \union {new} /\ j \in Used(slot) \union {new}
    BY <1>7
  <2> QED BY <1>13, <2>2, <2>3, <2>4, <2>5
<1>14. TableOk(R)
  BY <1>6, <1>8, <1>9, <1>11, <1>13 DEF TableOk
<1> QED BY <1>1, <1>3, <1>4, <1>5, <1>7, <1>14

-----------------------------------------------------------------------------
(* What the callers hold.                                                  *)

\* The slots of a table do not overlap: one is below the other.
LEMMA Ordered ==
  ASSUME NEW T, TableOk(T), NEW i \in Used(T), NEW j \in Used(T)
  PROVE  /\ T[i].offset = T[j].offset => i = j
         /\ T[j].next = None /\ i # j => End(T, i) <= T[j].offset /\ T[i].offset < T[j].offset
         /\ T[i].next = j => T[i].offset < T[j].offset
<1>1. /\ T[i].offset \in Nat /\ T[i].size \in Nat \ {0} /\ End(T, i) = T[i].offset + T[i].size
      /\ T[j].offset \in Nat /\ T[j].size \in Nat \ {0} /\ End(T, j) = T[j].offset + T[j].size
      /\ End(T, i) <= Memory
      /\ T[j].next = None => End(T, j) = Memory
      /\ T[i].next = j => T[j].offset = End(T, i)
  <2>1. j # None
    BY Constants DEF Used
  <2>2. /\ T[i].offset \in Nat /\ T[i].size \in Nat \ {0} /\ End(T, i) = T[i].offset + T[i].size
        /\ End(T, i) <= Memory
    BY SlotNat
  <2>3. /\ T[j].offset \in Nat /\ T[j].size \in Nat \ {0} /\ End(T, j) = T[j].offset + T[j].size
        /\ T[j].next = None => End(T, j) = Memory
    BY SlotNat
  <2>4. T[i].next = j => T[j].offset = End(T, i)
    BY <2>1, SlotFact
  <2> QED BY <2>2, <2>3, <2>4
<1>2. i # j => End(T, i) <= T[j].offset \/ End(T, j) <= T[i].offset
  BY DEF TableOk, Apart
<1>3. Memory \in Nat
  BY Constants
<1> QED BY <1>1, <1>2, <1>3

\* A full slot is in use.
LEMMA FullUsed ==
  ASSUME NEW T, TableOk(T), NEW i \in Slot, T[i].feb
  PROVE  i \in Used(T)
BY DEF TableOk, Used, Unused

\* The table after an allocation in the free part at the end of the memory.
LEMMA TakeOk ==
  ASSUME Inv, ~closing, NEW size \in Sizes, NEW s, s = FirstFit(size), s # None,
         NEW R, R = Take(s, size)
  PROVE  /\ TableOk(R) /\ Packed(R) /\ LastFree(R)
         /\ s \in Used(slot) /\ s # 0 /\ ~slot[s].feb /\ slot[s].next = None
         /\ R[s].feb /\ R[s].offset = slot[s].offset /\ size <= R[s].size
         /\ \A i \in Slot \ {s} : /\ R[i].feb <=> slot[i].feb
                                  /\ R[i].feb => R[i].offset = slot[i].offset /\ R[i].size = slot[i].size
<1>1. /\ TableOk(slot) /\ LastFree(slot) /\ size \in Nat /\ 0 < size
      /\ s \in Used(slot) /\ ~slot[s].feb /\ slot[s].size >= size
  BY FirstFitFact, Constants DEF Inv, StackInv
<1>2. /\ s # 0 /\ slot[s].next = None /\ slot[s].size \in Nat /\ s \in Slot /\ Used(slot) \subseteq Slot
  <2>1. s # 0 /\ s \in Slot /\ Used(slot) \subseteq Slot
    BY <1>1 DEF TableOk, Headed, Used
  <2>2. slot[s].next = None
    BY <1>1 DEF LastFree
  <2>3. slot[s].size \in Nat
    BY <1>1, SlotNat
  <2> QED BY <2>1, <2>2, <2>3
<1>3. CASE slot[s].size = size \/ UnusedSlots = {}
  <2> DEFINE v == TRUE
  <2>1. R = Marked(slot, s, v) /\ v \in BOOLEAN
    BY <1>3 DEF Take, Marked
  <2> HIDE DEF v
  <2>2. /\ TableOk(R) /\ Used(R) = Used(slot)
        /\ \A i \in Slot : /\ R[i].offset = slot[i].offset /\ R[i].size = slot[i].size
                           /\ R[i].next = slot[i].next /\ R[i].prev = slot[i].prev
                           /\ R[i].feb = IF i = s THEN v ELSE slot[i].feb
    BY <1>1, <1>2, <2>1, MarkOk
  <2>3. R[s].feb /\ \A i \in Slot \ {s} : R[i].feb = slot[i].feb
    BY <1>2, <2>2 DEF v
  <2>4. LastFree(R)
    BY <1>1, <1>2, <2>2, <2>3 DEF LastFree
  <2>5. Packed(R)
    BY <2>4 DEF LastFree, Packed
  <2> QED BY <1>1, <1>2, <2>2, <2>3, <2>4, <2>5
<1>4. CASE slot[s].size # size /\ UnusedSlots # {}
  <2> DEFINE new == Min(UnusedSlots)
  <2>1. R = Split(s, size) /\ size < slot[s].size
    BY <1>1, <1>2, <1>4 DEF Take
  <2> HIDE DEF new
  <2>2. new = Min(UnusedSlots)
    BY DEF new
  <2>3. /\ TableOk(R)
        /\ new \in Slot /\ new \notin Used(slot) /\ Used(R) = Used(slot) \union {new}
        /\ ~R[new].feb /\ R[new].next = None
        /\ R[s].feb /\ R[s].offset = slot[s].offset /\ R[s].size = size /\ R[s].next = new
        /\ \A i \in Slot \ {s, new} : R[i] = slot[i]
    BY <1>1, <1>2, <1>4, <2>1, <2>2, SplitOk
  <2>4. LastFree(R)
    BY <1>1, <1>2, <2>3 DEF LastFree
  <2>5. Packed(R)
    BY <2>4 DEF LastFree, Packed
  <2>6. ~slot[new].feb
    BY <1>1, <2>3, FullUsed
  <2>7. \A i \in Slot \ {s} : /\ R[i].feb <=> slot[i].feb
                              /\ R[i].feb => R[i].offset = slot[i].offset /\ R[i].size = slot[i].size
    BY <2>3, <2>6
  <2> QED BY <1>1, <1>2, <2>3, <2>4, <2>5, <2>7
<1> QED BY <1>3, <1>4

\* The elements of a sequence.
LEMMA SeqElements ==
  ASSUME NEW S, NEW q \in Seq(S)
  PROVE  Len(q) \in Nat /\ DOMAIN q = 1..Len(q) /\ \A k \in DOMAIN q : q[k] \in S
OBVIOUS

\* The blocks held but the one at index k.
LEMMA RemoveAtFact ==
  ASSUME NEW S, NEW q \in Seq(S), NEW k \in 1..Len(q)
  PROVE  /\ RemoveAt(q, k) \in Seq(S) /\ Len(RemoveAt(q, k)) = Len(q) - 1
         /\ \A j \in 1..(Len(q) - 1) : RemoveAt(q, k)[j] = IF j < k THEN q[j] ELSE q[j+1]
<1> DEFINE a == SubSeq(q, 1, k - 1)
           b == SubSeq(q, k + 1, Len(q))
<1>1. Len(q) \in Nat /\ k \in Nat
  OBVIOUS
<1>2. a \in Seq(S) /\ Len(a) = k - 1 /\ \A j \in 1..(k-1) : a[j] = q[j]
  BY <1>1
<1>3. b \in Seq(S) /\ Len(b) = Len(q) - k /\ \A j \in 1..(Len(q) - k) : b[j] = q[k + j]
  BY <1>1
<1>4. RemoveAt(q, k) = a \o b
  BY DEF RemoveAt
<1> HIDE DEF a, b
<1>5. a \o b \in Seq(S) /\ Len(a \o b) = Len(q) - 1
  <2>1. a \o b \in Seq(S)
    <3>1. a \in Seq(S) /\ b \in Seq(S)
      BY <1>2, <1>3
    <3> QED BY <3>1
  <2>2. Len(a \o b) = Len(a) + Len(b)
    <3>1. a \in Seq(S) /\ b \in Seq(S)
      BY <1>2, <1>3
    <3> QED BY <3>1
  <2> QED BY <1>1, <1>2, <1>3, <2>1, <2>2
<1>6. ASSUME NEW j \in 1..(Len(q) - 1) PROVE (a \o b)[j] = IF j < k THEN q[j] ELSE q[j+1]
  <2>1. CASE j < k
    BY <1>1, <1>2, <1>3, <2>1
  <2>2. CASE j >= k
    <3>1. (a \o b)[j] = b[j - (k - 1)]
      BY <1>1, <1>2, <1>3, <2>2
    <3>2. j - (k - 1) \in 1..(Len(q) - k) /\ k + (j - (k - 1)) = j + 1
      BY <1>1, <2>2
    <3> QED BY <1>1, <1>3, <2>2, <3>1, <3>2
  <2>3. j < k \/ j >= k
    BY <1>1
  <2>4. ~(j < k /\ j >= k)
    BY <1>1
  <2> QED BY <2>1, <2>2, <2>3, <2>4
<1> QED BY <1>4, <1>5, <1>6

\* The slot that a block that is held is found at.
LEMMA GrantFound ==
  ASSUME Inv, NEW k \in DOMAIN grants, NEW s, s = FullAt(grants[k].offset)
  PROVE  s \in Used(slot) /\ s # 0 /\ s # None /\ slot[s].feb /\ Backed(s, k)
<1>1. PICK i \in Slot \ {0} : Backed(i, k)
  BY DEF Inv, GrantInv
<1>2. TableOk(slot) /\ i \in Used(slot) /\ slot[i].feb /\ slot[i].offset = grants[k].offset
  BY <1>1, FullUsed DEF Inv, Backed
<1>3. s \in Used(slot) /\ slot[s].feb /\ slot[s].offset = grants[k].offset
  BY <1>2, FullAtFact
<1>4. s = i
  BY <1>2, <1>3, Ordered
<1> QED BY <1>1, <1>3, <1>4, Constants

\* The newest block is the last one: what follows its slot is not full.
LEMMA NewestLast ==
  ASSUME Inv, ~closing, NEW s \in Used(slot), s # 0, Len(grants) \in DOMAIN grants,
         slot[s].offset = grants[Len(grants)].offset
  PROVE  slot[s].next = None \/ ~slot[slot[s].next].feb
<1> DEFINE n == slot[s].next
<1> SUFFICES ASSUME n # None, slot[n].feb PROVE FALSE
  OBVIOUS
<1>1. TableOk(slot) /\ n \in Used(slot) /\ n # 0 /\ n \in Slot
  BY SlotFact DEF Inv, Used
<1>2. slot[s].offset < slot[n].offset
  BY <1>1, Ordered
<1>3. PICK k \in DOMAIN grants : slot[n].offset = grants[k].offset
  BY <1>1 DEF Inv, GrantInv, Backed
<1>4. Len(grants) \in Nat /\ DOMAIN grants = 1..Len(grants)
  BY DEF Inv, GrantInv
<1>5. slot[s].offset \in Nat /\ slot[n].offset \in Nat
  BY <1>1, SlotNat
<1>6. k < Len(grants) \/ k = Len(grants)
  BY <1>4
<1>7. k < Len(grants) => grants[k].offset < grants[Len(grants)].offset
  BY DEF Inv, StackInv
<1> QED BY <1>2, <1>3, <1>5, <1>6, <1>7

-----------------------------------------------------------------------------
(* The invariant.                                                          *)

\* The table that setup_shmem builds.
LEMMA InitialOk == Init => Inv
<1> SUFFICES ASSUME Init PROVE Inv
  OBVIOUS
<1> DEFINE icv  == [offset |-> 0, size |-> Icv, feb |-> TRUE, available |-> TRUE,
                    next |-> 1, prev |-> None]
           data == [offset |-> Icv, size |-> Memory - Icv, feb |-> FALSE, available |-> TRUE,
                    next |-> None, prev |-> 0]
<1>1. /\ slot = [i \in Slot |-> slot[i]]
      /\ slot[0] = icv /\ slot[1] = data /\ \A i \in Slot \ {0, 1} : slot[i] = Unused
  <2>1. slot = [i \in Slot |->
                  CASE i = 0 -> icv [] i = 1 -> data [] OTHER -> Unused]
    BY DEF Init, InitialTable
  <2> HIDE DEF icv, data
  <2> QED BY <2>1, Constants
<1>2. icv \in Descriptor /\ data \in Descriptor /\ Unused \in Descriptor
  <2>1. /\ 0 \in -1..Memory /\ Icv \in -1..Memory /\ -1 \in -1..Memory
        /\ 0 \in 0..Memory /\ Icv \in 0..Memory /\ Memory - Icv \in 0..Memory
    BY Constants
  <2> QED BY <2>1, Constants DEF Descriptor, Unused
<1>3. slot \in [Slot -> Descriptor]
  <2>1. \A i \in Slot : slot[i] \in Descriptor
    BY <1>1, <1>2
  <2> QED BY <1>1, <2>1
<1>4. Used(slot) = {0, 1}
  BY <1>1, Constants DEF Used, Unused
<1>5. Headed(slot)
  BY <1>1, <1>4 DEF Headed
<1>6. Linked(slot, 0) /\ Linked(slot, 1)
  BY <1>1, <1>4, Constants DEF Linked, End, None
<1>7. Apart(slot, 0, 1) /\ Apart(slot, 1, 0)
  BY <1>1, Constants DEF Apart, End
<1>8. \A i \in Slot : ~slot[i].available => slot[i] = Unused
  BY <1>1
<1>9. TableOk(slot)
  BY <1>3, <1>4, <1>5, <1>6, <1>7, <1>8 DEF TableOk
<1>10. LastFree(slot) /\ Packed(slot)
  BY <1>1, <1>4 DEF LastFree, Packed
<1>11. GrantInv
  <2>1. grants = <<>> /\ grants \in Seq([offset : Nat, size : Sizes]) /\ DOMAIN grants = {}
    BY DEF Init
  <2>2. \A i \in Slot \ {0} : ~slot[i].feb
    BY <1>1 DEF Unused
  <2> QED BY <2>1, <2>2 DEF GrantInv
<1>12. StackInv /\ closing \in BOOLEAN
  <2>1. closing = FALSE /\ DOMAIN grants = {}
    BY DEF Init
  <2> QED BY <1>10, <2>1 DEF StackInv
<1> QED BY <1>9, <1>10, <1>11, <1>12 DEF Inv

\* An allocation adds the newest block.
LEMMA AllocateInv ==
  ASSUME Inv, NEW size \in Sizes, Allocate(size)
  PROVE  Inv'
<1> SUFFICES ASSUME NEW s, s = FirstFit(size), NEW l, l = Len(grants) + 1 PROVE Inv'
  OBVIOUS
<1> DEFINE g == [offset |-> slot[s].offset, size |-> size]
<1>1. CASE s = None
  BY <1>1 DEF Allocate, vars, Inv, GrantInv, StackInv, Backed
<1>2. CASE s # None
  <2>1. ~closing /\ slot' = Take(s, size) /\ grants' = Append(grants, g) /\ closing' = closing
    BY <1>2 DEF Allocate
  <2>3. /\ TableOk(slot') /\ Packed(slot') /\ LastFree(slot')
        /\ s \in Used(slot) /\ s # 0 /\ ~slot[s].feb /\ slot[s].next = None
        /\ slot'[s].feb /\ slot'[s].offset = slot[s].offset /\ size <= slot'[s].size
        /\ \A i \in Slot \ {s} :
              /\ slot'[i].feb <=> slot[i].feb
              /\ slot'[i].feb => slot'[i].offset = slot[i].offset /\ slot'[i].size = slot[i].size
    BY <1>2, <2>1, TakeOk
  <2>4. s \in Slot /\ slot[s].offset \in Nat /\ TableOk(slot)
    <3>1. TableOk(slot)
      BY DEF Inv
    <3>2. s \in Slot
      BY <2>3 DEF Used
    <3> QED BY <2>3, <3>1, <3>2, SlotNat
  <2>5. /\ Len(grants) \in Nat /\ DOMAIN grants = 1..Len(grants) /\ grants \in Seq([offset : Nat, size : Sizes])
        /\ \A k \in DOMAIN grants : grants[k] \in [offset : Nat, size : Sizes]
    <3>1. grants \in Seq([offset : Nat, size : Sizes])
      BY DEF Inv, GrantInv
    <3> QED BY <3>1, SeqElements
  <2>6. g \in [offset : Nat, size : Sizes] /\ g.offset = slot[s].offset /\ g.size = size
    BY <2>4
  <2> HIDE DEF g
  <2>7. /\ grants' \in Seq([offset : Nat, size : Sizes]) /\ DOMAIN grants' = 1..l
        /\ grants'[l] = g /\ \A k \in DOMAIN grants : grants'[k] = grants[k]
        /\ DOMAIN grants' = DOMAIN grants \union {l} /\ l \notin DOMAIN grants
    BY <2>1, <2>5, <2>6
  <2>8. \A k \in DOMAIN grants : l > k /\ ~(l < k)
    BY <2>5
  <2>9. ASSUME NEW k \in DOMAIN grants, NEW i \in Slot \ {0}, Backed(i, k)
        PROVE  Backed(i, k)' /\ i # s /\ grants[k].offset < slot[s].offset /\ grants[k].offset \in Nat
    <3>1. i # s /\ i \in Used(slot)
      BY <2>3, <2>4, <2>9, FullUsed DEF Backed
    <3>2. slot[i].offset < slot[s].offset /\ slot[i].offset \in Nat
      BY <2>3, <2>4, <3>1, Ordered, SlotNat
    <3>3. Backed(i, k)'
      BY <2>3, <2>7, <2>9, <3>1 DEF Backed
    <3> QED BY <2>9, <3>1, <3>2, <3>3 DEF Backed
  <2>10. Backed(s, l)'
    BY <2>3, <2>6, <2>7 DEF Backed
  <2>11. \A k \in DOMAIN grants' : \E i \in Slot \ {0} : Backed(i, k)'
    <3> SUFFICES ASSUME NEW k \in DOMAIN grants' PROVE \E i \in Slot \ {0} : Backed(i, k)'
      OBVIOUS
    <3>1. CASE k = l
      BY <2>3, <2>4, <2>10, <3>1
    <3>2. CASE k # l
      <4>1. PICK i \in Slot \ {0} : Backed(i, k)
        BY <2>7, <3>2 DEF Inv, GrantInv
      <4> QED BY <2>7, <2>9, <3>2, <4>1
    <3> QED BY <3>1, <3>2
  <2>12. \A i \in Slot \ {0} : slot'[i].feb => \E k \in DOMAIN grants' : Backed(i, k)'
    <3> SUFFICES ASSUME NEW i \in Slot \ {0}, slot'[i].feb
                 PROVE  \E k \in DOMAIN grants' : Backed(i, k)'
      OBVIOUS
    <3>1. CASE i = s
      BY <2>7, <2>10, <3>1
    <3>2. CASE i # s
      <4>1. PICK k \in DOMAIN grants : Backed(i, k)
        BY <2>3, <3>2 DEF Inv, GrantInv
      <4> QED BY <2>7, <2>9, <4>1
    <3> QED BY <3>1, <3>2
  <2>13. \A k \in DOMAIN grants : grants[k].offset < slot[s].offset /\ grants[k].offset \in Nat
    <3> SUFFICES ASSUME NEW k \in DOMAIN grants
                 PROVE  grants[k].offset < slot[s].offset /\ grants[k].offset \in Nat
      OBVIOUS
    <3>1. PICK i \in Slot \ {0} : Backed(i, k)
      BY DEF Inv, GrantInv
    <3> QED BY <2>9, <3>1
  <2>14. \A j, k \in DOMAIN grants' : grants'[j].offset = grants'[k].offset => j = k
    <3> SUFFICES ASSUME NEW j \in DOMAIN grants', NEW k \in DOMAIN grants',
                        grants'[j].offset = grants'[k].offset
                 PROVE  j = k
      OBVIOUS
    <3>1. CASE j \in DOMAIN grants /\ k \in DOMAIN grants
      BY <2>7, <3>1 DEF Inv, GrantInv
    <3>2. CASE j = l /\ k \in DOMAIN grants
      BY <2>4, <2>6, <2>7, <2>13, <3>2
    <3>3. CASE k = l /\ j \in DOMAIN grants
      BY <2>4, <2>6, <2>7, <2>13, <3>3
    <3> QED BY <2>7, <3>1, <3>2, <3>3
  <2>15. \A j, k \in DOMAIN grants' : j < k => grants'[j].offset < grants'[k].offset
    <3> SUFFICES ASSUME NEW j \in DOMAIN grants', NEW k \in DOMAIN grants', j < k
                 PROVE  grants'[j].offset < grants'[k].offset
      OBVIOUS
    <3>1. CASE j \in DOMAIN grants /\ k \in DOMAIN grants
      BY <2>1, <2>7, <3>1 DEF Inv, StackInv
    <3>2. CASE k = l /\ j \in DOMAIN grants
      BY <2>6, <2>7, <2>13, <3>2
    <3>3. ~(j = l /\ k \in DOMAIN grants) /\ ~(j = l /\ k = l)
      <4>1. l \in Nat
        BY <2>5
      <4> QED BY <2>8, <4>1
    <3> QED BY <2>7, <3>1, <3>2, <3>3
  <2>16. GrantInv'
    BY <2>7, <2>11, <2>12, <2>14 DEF GrantInv
  <2>17. StackInv' /\ closing' \in BOOLEAN
    BY <2>1, <2>3, <2>15 DEF StackInv, Inv, LastFree, Used
  <2>18. TableOk(slot)' /\ Packed(slot)'
    BY <2>3 DEF TableOk, Packed, Headed, Linked, Apart, End, Used
  <2> QED BY <2>16, <2>17, <2>18 DEF Inv
<1> QED BY <1>1, <1>2

\* A deallocation takes one block away.
LEMMA FreeInv ==
  ASSUME Inv, NEW k \in DOMAIN grants, FreeGrant(k), closing' \in BOOLEAN,
         closing => closing', ~closing' => k = Len(grants)
  PROVE  Inv'
<1> DEFINE s == FullAt(grants[k].offset)
<1>1. s \in Used(slot) /\ s # 0 /\ s # None /\ slot[s].feb /\ Backed(s, k)
  BY GrantFound
<1>2. slot' = Merged(s) /\ grants' = RemoveAt(grants, k)
  BY <1>1 DEF FreeGrant, Deallocate
<1> HIDE DEF s
<1>3. /\ TableOk(slot') /\ Packed(slot') /\ KeepsFull(slot', s)
      /\ (LastFree(slot) /\ (slot[s].next = None \/ ~slot[slot[s].next].feb)) => LastFree(slot')
  BY <1>1, <1>2, MergedOk DEF Inv
<1>4. \A i \in Slot : /\ slot'[i].feb <=> slot[i].feb /\ i # s
                      /\ slot'[i].feb => slot'[i].offset = slot[i].offset /\ slot'[i].size = slot[i].size
  BY <1>3 DEF KeepsFull
<1>5. /\ Len(grants) \in Nat /\ DOMAIN grants = 1..Len(grants) /\ grants \in Seq([offset : Nat, size : Sizes])
      /\ \A j \in DOMAIN grants : grants[j].offset \in Nat
  <2>1. grants \in Seq([offset : Nat, size : Sizes])
    BY DEF Inv, GrantInv
  <2>2. \A j \in DOMAIN grants : grants[j] \in [offset : Nat, size : Sizes]
    BY <2>1, SeqElements
  <2> QED BY <2>1, <2>2
<1> DEFINE Old(j) == IF j < k THEN j ELSE j + 1
<1>6. /\ grants' \in Seq([offset : Nat, size : Sizes]) /\ DOMAIN grants' = 1..(Len(grants) - 1)
      /\ \A j \in DOMAIN grants' : grants'[j] = grants[Old(j)] /\ Old(j) \in DOMAIN grants /\ Old(j) # k
  <2>1. /\ grants' \in Seq([offset : Nat, size : Sizes]) /\ Len(grants') = Len(grants) - 1
        /\ \A j \in 1..(Len(grants) - 1) : grants'[j] = IF j < k THEN grants[j] ELSE grants[j+1]
    <3> DEFINE S == [offset : Nat, size : Sizes]
    <3>1. grants \in Seq(S) /\ k \in 1..Len(grants)
      BY <1>5
    <3> HIDE DEF S
    <3>2. /\ RemoveAt(grants, k) \in Seq(S) /\ Len(RemoveAt(grants, k)) = Len(grants) - 1
          /\ \A j \in 1..(Len(grants) - 1) :
                RemoveAt(grants, k)[j] = IF j < k THEN grants[j] ELSE grants[j+1]
      BY <3>1, RemoveAtFact
    <3> QED BY <1>2, <3>2 DEF S
  <2>2. \A j \in 1..(Len(grants) - 1) : grants'[j] = grants[Old(j)] /\ Old(j) \in DOMAIN grants /\ Old(j) # k
    <3> SUFFICES ASSUME NEW j \in 1..(Len(grants) - 1)
                 PROVE  grants'[j] = grants[Old(j)] /\ Old(j) \in DOMAIN grants /\ Old(j) # k
      OBVIOUS
    <3>1. grants'[j] = IF j < k THEN grants[j] ELSE grants[j+1]
      BY <2>1
    <3>2. CASE j < k
      BY <1>5, <3>1, <3>2
    <3>3. CASE ~(j < k)
      BY <1>5, <3>1, <3>3
    <3> QED BY <3>2, <3>3
  <2> QED BY <2>1, <2>2
<1>7. /\ \A j, i \in DOMAIN grants' : (j < i => Old(j) < Old(i)) /\ (Old(j) = Old(i) => j = i)
      /\ \A j \in DOMAIN grants \ {k} : \E i \in DOMAIN grants' : Old(i) = j
  <2>1. \A j, i \in DOMAIN grants' : (j < i => Old(j) < Old(i)) /\ (Old(j) = Old(i) => j = i)
    <3>1. k \in Nat /\ \A j \in DOMAIN grants' : j \in Nat
      BY <1>5, <1>6
    <3> SUFFICES ASSUME NEW j \in Nat, NEW i \in Nat
                 PROVE  (j < i => Old(j) < Old(i)) /\ (Old(j) = Old(i) => j = i)
      BY <3>1
    <3> QED BY <3>1
  <2>2. ASSUME NEW j \in DOMAIN grants \ {k} PROVE \E i \in DOMAIN grants' : Old(i) = j
    <3>1. CASE j < k
      <4>1. j \in DOMAIN grants' /\ Old(j) = j
        BY <1>5, <1>6, <3>1
      <4> QED BY <4>1
    <3>2. CASE j > k
      <4>1. j \in 1..Len(grants) /\ k \in 1..Len(grants)
        BY <1>5
      <4>2. j - 1 \in 1..(Len(grants) - 1) /\ ~(j - 1 < k) /\ (j - 1) + 1 = j
        BY <1>5, <3>2, <4>1
      <4>3. j - 1 \in DOMAIN grants'
        BY <1>6, <4>2
      <4> QED BY <4>2, <4>3
    <3> QED BY <1>5, <3>1, <3>2
  <2> QED BY <2>1, <2>2
<1> HIDE DEF Old
<1>8. ASSUME NEW j \in DOMAIN grants', NEW i \in Slot \ {0}, Backed(i, Old(j)) PROVE Backed(i, j)'
  <2>1. i # s
    BY <1>1, <1>6, <1>8 DEF Inv, GrantInv, Backed
  <2> QED BY <1>4, <1>6, <1>8, <2>1 DEF Backed
<1>9. \A j \in DOMAIN grants' : \E i \in Slot \ {0} : Backed(i, j)'
  <2> SUFFICES ASSUME NEW j \in DOMAIN grants' PROVE \E i \in Slot \ {0} : Backed(i, j)'
    OBVIOUS
  <2>1. PICK i \in Slot \ {0} : Backed(i, Old(j))
    BY <1>6 DEF Inv, GrantInv
  <2> QED BY <1>8, <2>1
<1>10. \A i \in Slot \ {0} : slot'[i].feb => \E j \in DOMAIN grants' : Backed(i, j)'
  <2> SUFFICES ASSUME NEW i \in Slot \ {0}, slot'[i].feb PROVE \E j \in DOMAIN grants' : Backed(i, j)'
    OBVIOUS
  <2>1. slot[i].feb /\ i # s
    BY <1>4
  <2>2. PICK m \in DOMAIN grants : Backed(i, m)
    BY <2>1 DEF Inv, GrantInv
  <2>3. m # k
    <3> SUFFICES ASSUME m = k PROVE FALSE
      OBVIOUS
    <3>1. TableOk(slot) /\ i \in Used(slot) /\ slot[i].offset = slot[s].offset
      BY <1>1, <2>1, <2>2, FullUsed DEF Inv, Backed
    <3> QED BY <1>1, <2>1, <3>1, Ordered
  <2>4. PICK j \in DOMAIN grants' : Old(j) = m
    BY <1>7, <2>3
  <2> QED BY <1>8, <2>2, <2>4
<1>11. \A j, i \in DOMAIN grants' : grants'[j].offset = grants'[i].offset => j = i
  <2> SUFFICES ASSUME NEW j \in DOMAIN grants', NEW i \in DOMAIN grants',
                      grants'[j].offset = grants'[i].offset
               PROVE  j = i
    OBVIOUS
  <2>1. Old(j) = Old(i)
    BY <1>6 DEF Inv, GrantInv
  <2> QED BY <1>7, <2>1
<1>12. GrantInv'
  BY <1>6, <1>9, <1>10, <1>11 DEF GrantInv
<1>13. ~closing' => LastFree(slot') /\ \A j, i \in DOMAIN grants' : j < i => grants'[j].offset < grants'[i].offset
  <2> SUFFICES ASSUME ~closing'
               PROVE  LastFree(slot') /\ \A j, i \in DOMAIN grants' : j < i => grants'[j].offset < grants'[i].offset
    OBVIOUS
  <2>1. ~closing /\ StackInv /\ k = Len(grants)
    BY DEF Inv
  <2>2. Len(grants) \in DOMAIN grants /\ slot[s].offset = grants[Len(grants)].offset
    BY <1>1, <2>1 DEF Backed
  <2>3. slot[s].next = None \/ ~slot[slot[s].next].feb
    BY <1>1, <2>1, <2>2, NewestLast
  <2>4. LastFree(slot')
    BY <1>3, <2>1, <2>3 DEF StackInv
  <2>5. ASSUME NEW j \in DOMAIN grants', NEW i \in DOMAIN grants', j < i
        PROVE  grants'[j].offset < grants'[i].offset
    <3>1. Old(j) < Old(i) /\ Old(j) \in DOMAIN grants /\ Old(i) \in DOMAIN grants
      BY <1>6, <1>7, <2>5
    <3> QED BY <1>6, <2>1, <3>1 DEF StackInv
  <2> QED BY <2>4, <2>5
<1>14. StackInv'
  BY <1>13 DEF StackInv, LastFree, Used
<1>15. TableOk(slot)' /\ Packed(slot)'
  BY <1>3 DEF TableOk, Packed, Headed, Linked, Apart, End, Used
<1> QED BY <1>12, <1>14, <1>15 DEF Inv

\* Giving back the offset of an allocation that failed changes nothing.
LEMMA FreeFailedSame ==
  ASSUME Inv, FreeFailed
  PROVE  UNCHANGED vars
<1>1. TableOk(slot)
  BY DEF Inv
<1>2. \A i \in Used(slot) : slot[i].offset # -1
  BY <1>1, SlotNat
<1>3. FullAt(-1) = None
  BY <1>1, <1>2, FullAtFact
<1> QED BY <1>3 DEF FreeFailed, Deallocate, vars

\* Every step keeps the invariant.
LEMMA StepInv ==
  ASSUME ~AnyOrder, Inv, [Next]_vars
  PROVE  Inv'
<1>1. ASSUME NEW size \in Sizes, Allocate(size) PROVE Inv'
  BY <1>1, AllocateInv
<1>2. CASE FreeInRun
  <2>1. ~closing /\ closing' = closing /\ closing \in BOOLEAN
    BY <1>2 DEF FreeInRun, Inv
  <2>2. PICK k \in DOMAIN grants : k = Len(grants) /\ FreeGrant(k)
    BY <1>2 DEF FreeInRun
  <2> QED BY <2>1, <2>2, FreeInv
<1>3. CASE FreeAtExit
  <2>1. closing' = TRUE
    BY <1>3 DEF FreeAtExit
  <2>2. PICK k \in DOMAIN grants : FreeGrant(k)
    BY <1>3 DEF FreeAtExit
  <2> QED BY <2>1, <2>2, FreeInv
<1>4. CASE UNCHANGED vars
  BY <1>4 DEF vars, Inv, GrantInv, StackInv, Backed
<1>5. CASE FreeFailed
  BY <1>4, <1>5, FreeFailedSame
<1> QED BY <1>1, <1>2, <1>3, <1>4, <1>5 DEF Next

\* The inductive invariant holds throughout.
LEMMA Invariance == ASSUME ~AnyOrder PROVE Spec => []Inv
<1>1. Inv /\ [Next]_vars => Inv'
  BY StepInv
<1> QED BY <1>1, InitialOk, PTL DEF Spec

-----------------------------------------------------------------------------
(* The theorems.                                                           *)

\* Every block that is held lies above the block of control variables.
LEMMA AboveIcv ==
  ASSUME NEW T, TableOk(T), NEW i \in Used(T), i # 0
  PROVE  Icv <= T[i].offset
<1>1. 0 \in Used(T) /\ T[0].offset = 0 /\ End(T, 0) = Icv
  BY Constants DEF TableOk, Headed, End
<1>2. Apart(T, 0, i)
  BY <1>1 DEF TableOk
<1>3. T[i].offset \in Nat /\ T[i].size \in Nat \ {0} /\ End(T, i) = T[i].offset + T[i].size
  BY SlotNat
<1> QED BY <1>1, <1>2, <1>3 DEF Apart

\* Every address of the memory lies in a slot.
LEMMA Covered ==
  ASSUME TableOk(slot), NEW p \in 0..(Memory-1)
  PROVE  \E i \in Used(slot) : slot[i].offset <= p /\ p < End(slot, i)
<1> DEFINE In(x) == \E i \in Used(slot) : slot[i].offset <= x /\ x < End(slot, i)
           Bad == {x \in 0..(Memory-1) : ~In(x)}
<1>1. ASSUME Bad # {} PROVE FALSE
  <2>1. Bad \in SUBSET Nat
    BY Constants
  <2>2. PICK m \in Bad : \A y \in Bad : m <= y
    BY <1>1, <2>1, Least
  <2>3. m \in 0..(Memory-1) /\ ~In(m) /\ m \in Nat
    BY Constants
  <2>4. CASE m = 0
    <3>1. 0 \in Used(slot) /\ slot[0].offset = 0 /\ End(slot, 0) = Icv
      BY Constants DEF TableOk, Headed, End
    <3> QED BY <2>3, <2>4, <3>1, Constants
  <2>5. CASE m > 0
    <3>1. m - 1 \in 0..(Memory-1) /\ m - 1 \notin Bad
      BY <2>2, <2>3, <2>5, Constants
    <3>2. PICK i \in Used(slot) : slot[i].offset <= m - 1 /\ m - 1 < End(slot, i)
      BY <3>1
    <3>3. slot[i].offset \in Nat /\ End(slot, i) \in Nat /\ (slot[i].next = None => End(slot, i) = Memory)
      BY SlotNat
    <3>4. m = End(slot, i)
      BY <2>3, <3>2, <3>3
    <3> DEFINE n == slot[i].next
    <3>5. n # None
      BY <2>3, <3>3, <3>4, Constants
    <3>6. n \in Used(slot) /\ slot[n].offset = m
      BY <3>4, <3>5, SlotFact
    <3> HIDE DEF n
    <3>7. slot[n].offset + slot[n].size = End(slot, n) /\ slot[n].size \in Nat \ {0}
      BY <3>6, SlotNat
    <3>8. slot[n].offset <= m /\ m < End(slot, n)
      BY <2>3, <3>6, <3>7
    <3> QED BY <2>3, <3>6, <3>8
  <2> QED BY <2>3, <2>4, <2>5
<1> QED BY <1>1

\* The table and the blocks given out keep their type.
THEOREM TypeCorrect == ASSUME ~AnyOrder PROVE Spec => []TypeOK
<1>1. ASSUME Inv PROVE TypeOK
  <2>1. closing \in BOOLEAN /\ TableOk(slot) /\ slot \in [Slot -> Descriptor]
    BY <1>1 DEF Inv, TableOk
  <2>2. grants \in Seq([offset : Nat, size : Sizes])
    BY <1>1 DEF Inv, GrantInv
  <2>3. ASSUME NEW k \in DOMAIN grants PROVE grants[k] \in [offset : Icv..Memory, size : Sizes]
    <3>1. grants[k] \in [offset : Nat, size : Sizes]
      BY <2>2, SeqElements
    <3>2. PICK i \in Slot \ {0} : Backed(i, k)
      BY <1>1 DEF Inv, GrantInv
    <3>3. i \in Used(slot) /\ slot[i].offset = grants[k].offset
      BY <2>1, <3>2, FullUsed DEF Backed
    <3>4. grants[k].offset \in Icv..Memory
      <4>1. Icv <= slot[i].offset
        BY <2>1, <3>2, <3>3, AboveIcv
      <4>2. slot[i].offset \in 0..Memory
        BY <2>1, <3>3, SlotFact
      <4> QED BY <3>3, <4>1, <4>2, Constants
    <3> QED BY <3>1, <3>4
  <2>4. Held \subseteq [offset : Icv..Memory, size : Sizes]
    BY <2>3 DEF Held, ToSet
  <2> QED BY <2>1, <2>4 DEF TypeOK, Descriptor
<1> QED BY <1>1, Invariance, PTL

\* The table always describes a partition of the memory into a list of slots
\* in address order, linked both ways.
THEOREM Partitioned == ASSUME ~AnyOrder PROVE Spec => []Partition
<1>1. ASSUME Inv PROVE Partition
  <2>1. TableOk(slot)
    BY <1>1 DEF Inv
  <2>2. Chain[Slots] = None /\ Listed = Used(slot)
    BY <2>1, ChainEnds, ListedUsed
  <2>3. \A i \in Slot : slot[i].available <=> i \in Listed
    BY <2>2 DEF Used
  <2>4. \A i \in Used(slot) :
          /\ slot[i].next = None => slot[i].offset + slot[i].size = Memory
          /\ slot[i].next # None => /\ slot[slot[i].next].offset = slot[i].offset + slot[i].size
                                    /\ slot[slot[i].next].prev = i
    BY <2>1, SlotFact
  <2> QED BY <2>2, <2>3, <2>4 DEF Partition
<1> QED BY <1>1, Invariance, PTL

\* An allocation fails only when no free stretch of the memory is long enough.
THEOREM NeverFragmented == ASSUME ~AnyOrder PROVE Spec => []FailsOnlyWhenFull
<1>1. ASSUME Inv PROVE FailsOnlyWhenFull
  <2> SUFFICES ASSUME NEW size \in Sizes, FirstFit(size) = None, NEW p \in 0..(Memory-size)
               PROVE  \E i \in Listed : slot[i].feb /\ slot[i].offset < p + size
                                        /\ p < slot[i].offset + slot[i].size
    BY DEF FailsOnlyWhenFull
  <2>1. TableOk(slot) /\ Packed(slot)
    BY <1>1 DEF Inv
  <2>2. Listed = Used(slot)
    BY <2>1, ListedUsed
  <2>3. size \in Nat \ {0} /\ p \in 0..(Memory-1) /\ p \in Nat /\ p + size <= Memory /\ Memory \in Nat
    BY Constants
  <2>4. PICK i \in Used(slot) : slot[i].offset <= p /\ p < End(slot, i)
    BY <2>1, <2>3, Covered
  <2>5. /\ slot[i].offset \in Nat /\ slot[i].size \in Nat /\ End(slot, i) = slot[i].offset + slot[i].size
        /\ slot[i].next = None => End(slot, i) = Memory
        /\ slot[i].next # None => slot[i].next \in Used(slot) /\ slot[slot[i].next].offset = End(slot, i)
    <3>1. /\ slot[i].offset \in Nat /\ slot[i].size \in Nat /\ End(slot, i) = slot[i].offset + slot[i].size
          /\ slot[i].next = None => End(slot, i) = Memory
      BY <2>1, SlotNat
    <3>2. slot[i].next # None => slot[i].next \in Used(slot) /\ slot[slot[i].next].offset = End(slot, i)
      BY <2>1, SlotFact
    <3> QED BY <3>1, <3>2
  <2>6. CASE slot[i].feb
    BY <2>2, <2>3, <2>4, <2>5, <2>6
  <2>7. CASE ~slot[i].feb
    <3>1. ~(slot[i].size >= size)
      <4>1. None \notin Used(slot)
        BY Constants DEF Used
      <4> QED BY <2>1, <2>7, <4>1, FirstFitFact
    <3>2. End(slot, i) < p + size
      BY <2>3, <2>4, <2>5, <3>1
    <3> DEFINE n == slot[i].next
    <3>3. n # None
      BY <2>3, <2>5, <3>2
    <3>4. n \in Used(slot) /\ slot[n].offset = End(slot, i) /\ slot[n].feb
      BY <2>1, <2>5, <2>7, <3>3 DEF Packed
    <3> HIDE DEF n
    <3>5. slot[n].size \in Nat \ {0}
      BY <2>1, <3>4, SlotNat
    <3>6. slot[n].offset < p + size /\ p < slot[n].offset + slot[n].size
      BY <2>3, <2>4, <2>5, <3>2, <3>4, <3>5
    <3> QED BY <2>2, <3>4, <3>6
  <2> QED BY <2>6, <2>7
<1> QED BY <1>1, Invariance, PTL

\* Blocks that are held never overlap.
THEOREM HeldApart == ASSUME ~AnyOrder PROVE Spec => []GrantsDisjoint
<1>1. ASSUME Inv PROVE GrantsDisjoint
  <2> SUFFICES ASSUME NEW j \in DOMAIN grants, NEW k \in DOMAIN grants, j # k
               PROVE  \/ grants[j].offset + grants[j].size <= grants[k].offset
                      \/ grants[k].offset + grants[k].size <= grants[j].offset
    BY DEF GrantsDisjoint
  <2>1. TableOk(slot) /\ grants \in Seq([offset : Nat, size : Sizes])
    BY <1>1 DEF Inv, GrantInv
  <2>2. PICK a \in Slot \ {0} : Backed(a, j)
    BY <1>1 DEF Inv, GrantInv
  <2>3. PICK b \in Slot \ {0} : Backed(b, k)
    BY <1>1 DEF Inv, GrantInv
  <2>4. a # b
    BY <1>1, <2>2, <2>3 DEF Inv, GrantInv, Backed
  <2>5. a \in Used(slot) /\ b \in Used(slot)
    BY <2>1, <2>2, <2>3, FullUsed DEF Backed
  <2>6. Apart(slot, a, b)
    BY <2>1, <2>4, <2>5 DEF TableOk
  <2>7. /\ slot[a].offset \in Nat /\ slot[a].size \in Nat /\ End(slot, a) = slot[a].offset + slot[a].size
        /\ slot[b].offset \in Nat /\ slot[b].size \in Nat /\ End(slot, b) = slot[b].offset + slot[b].size
    <3>1. \A i \in Used(slot) : slot[i].offset \in Nat /\ slot[i].size \in Nat
                                /\ End(slot, i) = slot[i].offset + slot[i].size
      BY <2>1, SlotNat
    <3> QED BY <2>5, <3>1
  <2>8. grants[j].size \in Nat /\ grants[k].size \in Nat
    <3>1. grants[j] \in [offset : Nat, size : Sizes] /\ grants[k] \in [offset : Nat, size : Sizes]
      BY <2>1, SeqElements
    <3> QED BY <3>1, Constants
  <2>9. /\ slot[a].offset = grants[j].offset /\ grants[j].size <= slot[a].size
        /\ slot[b].offset = grants[k].offset /\ grants[k].size <= slot[b].size
    BY <2>2, <2>3 DEF Backed
  <2> QED BY <2>6, <2>7, <2>8, <2>9 DEF Apart
<1> QED BY <1>1, Invariance, PTL

\* When everything has been given back the table is as it was built.
THEOREM FullyRestored == ASSUME ~AnyOrder PROVE Spec => []Restored
<1>1. ASSUME Inv PROVE Restored
  <2> SUFFICES ASSUME grants = <<>> PROVE slot = InitialTable
    BY DEF Restored
  <2>1. /\ TableOk(slot) /\ Packed(slot) /\ slot \in [Slot -> Descriptor] /\ Headed(slot)
        /\ \A i \in Slot : ~slot[i].available => slot[i] = Unused
    BY <1>1 DEF Inv, TableOk
  <2>2. \A i \in Slot \ {0} : ~slot[i].feb
    BY <1>1 DEF Inv, GrantInv
  <2>3. /\ 0 \in Used(slot) /\ 0 \in Slot /\ 1 \in Slot /\ slot[0].next = 1 /\ 1 # None /\ Used(slot) \subseteq Slot
        /\ slot[0].offset = 0 /\ slot[0].size = Icv
    BY <2>1, Constants DEF Headed, Used
  <2>4. 1 \in Used(slot) /\ slot[1].offset = Icv /\ slot[1].prev = 0
    <3>1. 1 \in Used(slot) /\ slot[1].offset = End(slot, 0) /\ slot[1].prev = 0
      BY <2>1, <2>3, SlotFact
    <3> QED BY <2>3, <3>1, Constants DEF End
  <2>5. slot[1].next = None
    <3>1. slot[1].next # None => slot[1].next \in Slot \ {0}
      BY <2>1, <2>3, <2>4, SlotFact
    <3> QED BY <2>2, <2>3, <2>4, <2>1, <3>1 DEF Packed
  <2>6. slot[1].offset + slot[1].size = Memory /\ slot[1].size \in Nat
    BY <2>1, <2>4, <2>5, SlotNat
  <2>7. Used(slot) = {0, 1}
    <3> SUFFICES ASSUME NEW i \in Used(slot), i # 0, i # 1 PROVE FALSE
      BY <2>3, <2>4
    <3>1. slot[i].offset < slot[1].offset /\ Icv <= slot[i].offset
      BY <2>1, <2>4, <2>5, Ordered, AboveIcv
    <3>2. slot[i].offset \in Nat
      BY <2>1, SlotNat
    <3> QED BY <2>4, <3>1, <3>2, Constants
  <2> DEFINE icv  == [offset |-> 0, size |-> Icv, feb |-> TRUE, available |-> TRUE,
                      next |-> 1, prev |-> None]
             data == [offset |-> Icv, size |-> Memory - Icv, feb |-> FALSE, available |-> TRUE,
                      next |-> None, prev |-> 0]
  <2>8. slot[0] = icv
    <3>1. slot[0] \in Descriptor /\ slot[0].available /\ slot[0].feb
      BY <2>1, <2>3 DEF Headed, Used
    <3> QED BY <2>1, <2>3, <3>1 DEF Headed, Descriptor
  <2>9. slot[1] = data
    <3>1. slot[1] \in Descriptor /\ slot[1].available /\ ~slot[1].feb
      BY <2>1, <2>2, <2>3, <2>4 DEF Used
    <3>2. slot[1].size = Memory - Icv
      BY <2>4, <2>6, Constants
    <3> QED BY <2>4, <2>5, <3>1, <3>2 DEF Descriptor
  <2>10. \A i \in Slot \ {0, 1} : slot[i] = Unused
    BY <2>1, <2>7 DEF Used
  <2> HIDE DEF icv, data
  <2> DEFINE built == [i \in Slot |-> CASE i = 0 -> icv [] i = 1 -> data [] OTHER -> Unused]
  <2>11. InitialTable = built
    BY DEF InitialTable, icv, data
  <2>12. \A i \in Slot : slot[i] = built[i]
    BY <2>8, <2>9, <2>10
  <2>13. slot = [i \in Slot |-> slot[i]] /\ built = [i \in Slot |-> built[i]]
    BY <2>1
  <2> HIDE DEF built
  <2> QED BY <2>11, <2>12, <2>13
<1> QED BY <1>1, Invariance, PTL

-----------------------------------------------------------------------------
(* The allocator implements the heap.                                      *)

\* The blocks of a table, as the heap sees them.
BlockOf(T, i) == [offset |-> T[i].offset, size |-> T[i].size]
Blocks(T) == {BlockOf(T, i) : i \in {j \in Slot \ {0} : T[j].feb}}

\* A full slot is a block of the heap.
LEMMA BlockType ==
  ASSUME NEW T, TableOk(T), NEW i \in Slot \ {0}, T[i].feb
  PROVE  BlockOf(T, i) \in HeapOf!Block
<1>1. i \in Used(T)
  BY FullUsed
<1>2. T[i].offset \in 0..Memory /\ T[i].size \in 1..Memory /\ T[i].offset + T[i].size <= Memory /\ Icv <= T[i].offset
  BY <1>1, SlotFact, AboveIcv, Constants
<1>3. T[i].offset \in Icv..Memory
  BY <1>2, Constants
<1> QED BY <1>2, <1>3 DEF BlockOf, HeapOf!Block

\* An allocation adds a block that no other overlaps.
LEMMA AllocateStep ==
  ASSUME Inv, NEW size \in Sizes, Allocate(size)
  PROVE  [HeapOf!Next]_(Blocks(slot))
<1> SUFFICES ASSUME NEW s, s = FirstFit(size), s # None PROVE HeapOf!Next
  BY DEF Allocate, vars, Blocks, BlockOf
<1>1. ~closing /\ slot' = Take(s, size)
  BY DEF Allocate
<1>2. /\ TableOk(slot') /\ TableOk(slot)
      /\ s \in Used(slot) /\ s # 0 /\ ~slot[s].feb /\ slot[s].next = None
      /\ slot'[s].feb /\ slot'[s].offset = slot[s].offset
      /\ \A i \in Slot \ {s} :
            /\ slot'[i].feb <=> slot[i].feb
            /\ slot'[i].feb => slot'[i].offset = slot[i].offset /\ slot'[i].size = slot[i].size
  BY <1>1, TakeOk DEF Inv
<1> DEFINE b == BlockOf(slot', s)
<1>3. b \in HeapOf!Block
  BY <1>2, BlockType DEF Used
<1>4. \A c \in Blocks(slot) : HeapOf!Disjoint(b, c)
  <2> SUFFICES ASSUME NEW i \in Slot \ {0}, slot[i].feb PROVE HeapOf!Disjoint(b, BlockOf(slot, i))
    BY DEF Blocks
  <2>1. i \in Used(slot) /\ i # s
    BY <1>2, FullUsed
  <2>2. End(slot, i) <= slot[s].offset
    BY <1>2, <2>1, Ordered
  <2> QED BY <1>2, <2>2 DEF HeapOf!Disjoint, BlockOf, End
<1>5. Blocks(slot') = Blocks(slot) \union {b}
  <2>1. \A i \in Slot \ {s} : slot'[i].feb => BlockOf(slot', i) = BlockOf(slot, i)
    BY <1>2 DEF BlockOf
  <2>2. s \in Slot
    BY <1>2 DEF Used
  <2>3. Blocks(slot') \subseteq Blocks(slot) \union {b}
    BY <1>2, <2>1 DEF Blocks
  <2>4. Blocks(slot) \union {b} \subseteq Blocks(slot')
    BY <1>2, <2>1, <2>2 DEF Blocks
  <2> QED BY <2>3, <2>4
<1> QED BY <1>3, <1>4, <1>5 DEF HeapOf!Next, HeapOf!Allocate, Blocks, BlockOf

\* A deallocation takes one block away and leaves the others as they are.
LEMMA FreeStep ==
  ASSUME Inv, NEW k \in DOMAIN grants, FreeGrant(k)
  PROVE  HeapOf!Next
<1> SUFFICES ASSUME NEW s, s = FullAt(grants[k].offset) PROVE HeapOf!Next
  OBVIOUS
<1>1. s \in Used(slot) /\ s # 0 /\ s # None /\ slot[s].feb
  BY GrantFound
<1>2. slot' = Merged(s)
  BY <1>1 DEF FreeGrant, Deallocate
<1>3. KeepsFull(slot', s) /\ TableOk(slot)
  BY <1>1, <1>2, MergedOk DEF Inv
<1>4. \A i \in Slot : /\ slot'[i].feb <=> slot[i].feb /\ i # s
                      /\ slot'[i].feb => BlockOf(slot', i) = BlockOf(slot, i)
  BY <1>3 DEF KeepsFull, BlockOf
<1> DEFINE b == BlockOf(slot, s)
<1>5. s \in Slot /\ b \in Blocks(slot) /\ b \in HeapOf!Block
  BY <1>1, <1>3, BlockType DEF Used, Blocks
<1>6. \A i \in Slot \ {0, s} : slot[i].feb => BlockOf(slot, i) # b
  <2> SUFFICES ASSUME NEW i \in Slot \ {0, s}, slot[i].feb, BlockOf(slot, i) = b PROVE FALSE
    OBVIOUS
  <2>1. slot[i].offset = slot[s].offset
    BY DEF BlockOf
  <2>2. i \in Used(slot)
    BY <1>3, FullUsed
  <2> QED BY <1>1, <1>3, <2>1, <2>2, Ordered
<1>7. Blocks(slot') = Blocks(slot) \ {b}
  <2>1. Blocks(slot') \subseteq Blocks(slot) \ {b}
    BY <1>4, <1>6 DEF Blocks
  <2>2. Blocks(slot) \ {b} \subseteq Blocks(slot')
    BY <1>4 DEF Blocks
  <2> QED BY <2>1, <2>2
<1> QED BY <1>5, <1>7 DEF HeapOf!Next, HeapOf!Free, Blocks, BlockOf

\* The allocator implements the heap of blocks that never overlap.
THEOREM Refinement == ASSUME ~AnyOrder PROVE Spec => ImplementsHeap
<1>1. Init => HeapOf!Init
  <2> SUFFICES ASSUME Init PROVE \A i \in Slot \ {0} : ~slot[i].feb
    BY DEF HeapOf!Init
  <2>1. GrantInv /\ grants = <<>>
    BY InitialOk DEF Init, Inv
  <2> QED BY <2>1 DEF GrantInv
<1>2. Inv /\ [Next]_vars => [HeapOf!Next]_(Blocks(slot))
  <2> SUFFICES ASSUME Inv, [Next]_vars PROVE [HeapOf!Next]_(Blocks(slot))
    OBVIOUS
  <2>1. ASSUME NEW size \in Sizes, Allocate(size) PROVE [HeapOf!Next]_(Blocks(slot))
    BY <2>1, AllocateStep
  <2>2. CASE FreeInRun
    BY <2>2, FreeStep DEF FreeInRun
  <2>3. CASE FreeAtExit
    BY <2>3, FreeStep DEF FreeAtExit
  <2>4. CASE UNCHANGED vars
    BY <2>4 DEF vars, Blocks, BlockOf
  <2>5. CASE FreeFailed
    BY <2>4, <2>5, FreeFailedSame
  <2> QED BY <2>1, <2>2, <2>3, <2>4, <2>5 DEF Next
<1>3. Inv /\ [Next]_vars => [HeapOf!Next]_({[offset |-> slot[i].offset, size |-> slot[i].size] :
               i \in {j \in Slot \ {0} : slot[j].feb}})
  BY <1>2 DEF Blocks, BlockOf
<1> QED BY <1>1, <1>3, Invariance, PTL DEF Spec, ImplementsHeap, HeapOf!Spec
=============================================================================
