-------------------------------- MODULE Heap --------------------------------
(***************************************************************************)
(* What __ompc_allocate and __ompc_deallocate promise: blocks of a shared  *)
(* memory that never overlap.  An allocation adds one block, a             *)
(* deallocation takes one away, and no other block moves or changes size.  *)
(***************************************************************************)
EXTENDS Integers

CONSTANTS
  Base,      \* the first address that may be given out
  Limit      \* the end of the memory

VARIABLE blocks      \* the blocks given out: records [offset, size]

Block == {b \in [offset : Base..Limit, size : 1..Limit] : b.offset + b.size <= Limit}

Disjoint(b, c) == b.offset + b.size <= c.offset \/ c.offset + c.size <= b.offset

\* The blocks lie in the memory.
TypeOK == blocks \subseteq Block

Init == blocks = {}

Allocate(b) ==
  /\ \A c \in blocks : Disjoint(b, c)
  /\ blocks' = blocks \union {b}

Free(b) ==
  /\ b \in blocks
  /\ blocks' = blocks \ {b}

Next == \E b \in Block : Allocate(b) \/ Free(b)

Spec == Init /\ [][Next]_blocks
=============================================================================
