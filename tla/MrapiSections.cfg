CONSTANTS
  None = None
  Infinite = Infinite
  Node = {n1, n2, n3}
  MaxSems = 2
  MaxShares = 1
  MaxDepth = 1
  Key = {k1, k2}
  Kinds <- MutexOnly
  Builds = {FALSE}
  Called <- AllCalled
  Reuse = FALSE
  Timeouts = {1, Infinite}
SPECIFICATION Spec
INVARIANTS
  SectionExclusive
CHECK_DEADLOCK FALSE
