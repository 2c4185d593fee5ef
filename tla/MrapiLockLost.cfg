CONSTANTS
  None = None
  Infinite = Infinite
  Node = {n1, n2}
  MaxSems = 1
  MaxShares = 1
  MaxDepth = 1
  Key = {k}
  Kinds <- MutexOnly
  Builds = {FALSE}
  Called <- AllCalled
  Reuse = TRUE
  Timeouts = {1, Infinite}
SPECIFICATION Spec
PROPERTIES
  KeptWhileUsed
CHECK_DEADLOCK FALSE
