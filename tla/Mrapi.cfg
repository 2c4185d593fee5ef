CONSTANTS
  None = None
  Infinite = Infinite
  Node = {n1, n2}
  MaxSems = 2
  MaxShares = 2
  MaxDepth = 2
  Key = {k1, k2}
  Kinds <- AllKinds
  Builds = {TRUE, FALSE}
  Called <- FirstAsBuilt
  Reuse = FALSE
  Timeouts = {1, Infinite}
SPECIFICATION Spec
INVARIANTS
  TypeOK
  SectionExclusive
  DatabaseExact
PROPERTIES
  ImplementsLocks
  KeptWhileUsed
SYMMETRY Symmetric
CHECK_DEADLOCK FALSE
