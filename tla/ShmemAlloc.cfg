CONSTANTS
  Slots = 6
  Memory = 10
  Icv = 1
  Sizes = {1, 2, 3}
  AnyOrder = FALSE
SPECIFICATION Spec
INVARIANTS
  Partition
  FailsOnlyWhenFull
  Restored
PROPERTIES
  ImplementsHeap
