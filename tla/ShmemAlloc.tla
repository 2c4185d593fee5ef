----------------------------- MODULE ShmemAlloc -----------------------------
(***************************************************************************)
(* The shared-memory allocator of libopenmp-OpenUH (omp_rtl.c):            *)
(* setup_shmem, __ompc_allocate and __ompc_deallocate.                     *)
(*                                                                         *)
(* The data segment is cut into slots.  Their descriptions stand in a      *)
(* table of fixed length (the meta segment); the slots in use form a list  *)
(* in address order, headed by slot 0, the block of control variables.     *)
(* Allocation is first fit and splits the slot it takes, deallocation      *)
(* merges with free neighbours.  The table has no lock: one thread (the    *)
(* master, outside of regions) calls these operations, each is one step.   *)
(***************************************************************************)
EXTENDS Integers, SequencesExt

CONSTANTS
  Slots,     \* OMP_SHMEM_NODE: the length of the table
  Memory,    \* OMP_SHMEM_SIZE: the length of the data segment
  Icv,       \* sizeof(omp_icv_t)
  Sizes,     \* the sizes that are requested
  AnyOrder   \* whether the program frees blocks of its own in any order

ASSUME ShmemAssumption ==
  /\ Slots \in Nat /\ Slots > 1
  /\ Memory \in Nat /\ Icv \in Nat /\ 0 < Icv /\ Icv < Memory
  /\ Sizes \subseteq Nat \ {0}
  /\ AnyOrder \in BOOLEAN

Slot == 0..(Slots-1)
None == -1

VARIABLES
  slot,      \* addr_meta_root, links as numbers of slots
  grants,    \* what the callers hold, oldest first: [offset, size as asked]
  closing    \* free_node has begun to give the blocks back

vars == <<slot, grants, closing>>

Held == ToSet(grants)

\* The type of the table and of what is given out: every slot lies within the
\* memory and no block within the control block.
TypeOK ==
  /\ slot \in [Slot -> [offset : -1..Memory, size : 0..Memory, feb : BOOLEAN,
                        available : BOOLEAN,
                        next : Slot \union {None}, prev : Slot \union {None}]]
  /\ Held \subseteq [offset : Icv..Memory, size : Sizes]
  /\ closing \in BOOLEAN

\* A descriptor that is not in use (its field "available" is 0).
Unused == [offset |-> -1, size |-> 0, feb |-> FALSE, available |-> FALSE,
           next |-> None, prev |-> None]

\* setup_shmem
InitialTable ==
  [i \in Slot |->
     CASE i = 0 -> [offset |-> 0, size |-> Icv, feb |-> TRUE,
                    available |-> TRUE, next |-> 1, prev |-> None]
       [] i = 1 -> [offset |-> Icv, size |-> Memory - Icv, feb |-> FALSE,
                    available |-> TRUE, next |-> None, prev |-> 0]
       [] OTHER -> Unused]

Init == slot = InitialTable /\ grants = <<>> /\ closing = FALSE

-----------------------------------------------------------------------------
\* The list: chain[k] is the slot k links after slot 0, None past the end.
Chain ==
  LET chain[k \in 0..Slots] ==
        IF k = 0 THEN 0
        ELSE IF chain[k-1] = None THEN None ELSE slot[chain[k-1]].next
  IN  chain

Listed == {Chain[k] : k \in 0..Slots} \ {None}

\* The loop over the list: the first slot that passes the test, or None.
First(Test(_)) ==
  LET hits == {k \in 0..Slots : Chain[k] # None /\ Test(Chain[k])}
  IN  IF hits = {} THEN None ELSE Chain[Min(hits)]

\* Fault: the full/empty bit is not looked at.
FirstFitFull(size) == First(LAMBDA s : slot[s].size >= size /\ s # 0)

FirstFit(size) == First(LAMBDA s : ~slot[s].feb /\ slot[s].size >= size)

FullAt(offset) == First(LAMBDA s : slot[s].feb /\ slot[s].offset = offset)

UnusedSlots == {i \in Slot : ~slot[i].available}

-----------------------------------------------------------------------------
\* __ompc_allocate: the slots it leaves, s being the first that fits.

\* The rest of s becomes a slot of its own, in the first unused descriptor.
\* The slot that followed s is not told: its prev still is s.
Split(s, size) ==
  LET new == Min(UnusedSlots)
  IN  [slot EXCEPT
         ![new] = [offset |-> slot[s].offset + size, size |-> slot[s].size - size,
                   feb |-> FALSE, available |-> TRUE,
                   next |-> slot[s].next, prev |-> s],
         ![s].size = size, ![s].feb = TRUE, ![s].next = new]

\* Out of descriptors, the caller gets the whole slot.
Take(s, size) ==
  IF slot[s].size = size \/ UnusedSlots = {}
  THEN [slot EXCEPT ![s].feb = TRUE]
  ELSE Split(s, size)

\* Returns the offset, or -1 when nothing fits: then nothing changes.
Allocate(size) ==
  LET s == FirstFit(size)
  IN  /\ ~closing
      /\ IF s = None THEN UNCHANGED vars
         ELSE /\ slot' = Take(s, size)
              /\ grants' = Append(grants, [offset |-> slot[s].offset, size |-> size])
              /\ UNCHANGED closing

-----------------------------------------------------------------------------
\* __ompc_deallocate

\* Fault: the descriptor of the slot that was merged is not given back.
AbsorbNextLeak(table, a) ==
  LET b == table[a].next
      c == table[b].next
  IN  [i \in Slot |->
         CASE i = a -> [table[a] EXCEPT !.size = @ + table[b].size, !.next = c]
           [] i = c -> [table[c] EXCEPT !.prev = a]
           [] OTHER -> table[i]]

\* Fault: the slot after the merged one keeps its link to it.
AbsorbNextNoBack(table, a) ==
  LET b == table[a].next
  IN  [table EXCEPT ![a].size = @ + table[b].size, ![a].next = table[b].next,
                    ![b] = Unused]

\* Slot a takes over the slot b that follows it; b's descriptor is given back.
AbsorbNext(table, a) ==
  LET b == table[a].next
      c == table[b].next
  IN  [i \in Slot |->
         CASE i = a -> [table[a] EXCEPT !.size = @ + table[b].size, !.next = c]
           [] i = b -> Unused
           [] i = c -> [table[c] EXCEPT !.prev = a]
           [] OTHER -> table[i]]

Empty(table, i) == i # None /\ ~table[i].feb

\* Fault: the slot is merged with the next one only.
MergedNext(s) ==
  LET freed == [slot EXCEPT ![s].feb = FALSE]
  IN  IF Empty(freed, freed[s].next) THEN AbsorbNext(freed, s) ELSE freed

\* The slot is marked empty.  It is merged with the previous slot (the one its
\* prev names) if that is empty, and the result with the next one likewise.
Merged(s) ==
  LET p     == slot[s].prev
      n     == slot[s].next
      freed == [slot EXCEPT ![s].feb = FALSE]
      into  == [i \in Slot |->
                  CASE i = p -> [freed[p] EXCEPT !.size = @ + freed[s].size, !.next = n]
                    [] i = s -> Unused
                    [] i = n -> [freed[n] EXCEPT !.prev = p]
                    [] OTHER -> freed[i]]
  IN  IF Empty(freed, p)
      THEN IF Empty(freed, n) THEN AbsorbNext(into, p) ELSE into
      ELSE IF Empty(freed, n) THEN AbsorbNext(freed, s) ELSE freed

\* An offset that no full slot has (the -1 of a failed allocation) is ignored.
Deallocate(offset) ==
  LET s == FullAt(offset)
  IN  slot' = IF s = None THEN slot ELSE Merged(s)

-----------------------------------------------------------------------------
\* The callers.

FreeGrant(k) == Deallocate(grants[k].offset) /\ grants' = RemoveAt(grants, k)

\* __ompc_fork frees the parameter index of its region, the newest block; a
\* program that calls omp_deallocate_shmem_offset may free any of its own.
FreeInRun ==
  /\ ~closing
  /\ \E k \in DOMAIN grants : (k = Len(grants) \/ AnyOrder) /\ FreeGrant(k)
  /\ UNCHANGED closing

\* free_node gives back the blocks of setup_nodes, node by node: in an order
\* that is neither the one they were allocated in nor its reverse.
FreeAtExit ==
  /\ closing' = TRUE
  /\ \E k \in DOMAIN grants : FreeGrant(k)

\* The offset of an allocation that failed is given back like any other.
FreeFailed == Deallocate(-1) /\ UNCHANGED <<grants, closing>>

Next ==
  \/ \E size \in Sizes : Allocate(size)
  \/ FreeInRun
  \/ FreeAtExit
  \/ FreeFailed

Spec == Init /\ [][Next]_vars

-----------------------------------------------------------------------------
\* The table describes a partition of the memory: the list runs through it in
\* address order without gap, both ways, and a descriptor is available exactly
\* when it is in the list.
Partition ==
  /\ Chain[Slots] = None
  /\ \A i \in Slot : slot[i].available <=> i \in Listed
  /\ \A i \in Listed :
       LET n == slot[i].next
           end == slot[i].offset + slot[i].size
       IN  IF n = None THEN end = Memory
           ELSE slot[n].offset = end /\ slot[n].prev = i

\* A request fails only when no stretch of that length is free: freed memory
\* is never left in pieces that cannot serve it.
FailsOnlyWhenFull ==
  \A size \in Sizes :
    FirstFit(size) = None =>
      \A p \in 0..(Memory-size) :
        \E i \in Listed :
          slot[i].feb /\ slot[i].offset < p + size /\ p < slot[i].offset + slot[i].size

\* Two blocks that callers hold never overlap.
GrantsDisjoint ==
  \A j, k \in DOMAIN grants :
    j # k => \/ grants[j].offset + grants[j].size <= grants[k].offset
             \/ grants[k].offset + grants[k].size <= grants[j].offset

\* When everything has been freed the table is as setup_shmem left it, however
\* the blocks were cut and in whatever order they came back.
Restored == grants = <<>> => slot = InitialTable

\* The allocator implements the heap of disjoint blocks.
HeapOf == INSTANCE Heap WITH
  Base <- Icv, Limit <- Memory,
  blocks <- {[offset |-> slot[i].offset, size |-> slot[i].size] :
               i \in {j \in Slot \ {0} : slot[j].feb}}

ImplementsHeap == HeapOf!Spec
=============================================================================
