CONSTANTS
  a = a
  b = b
  t1 = t1
  t2 = t2
  t3 = t3
  t4 = t4
  j = j
  k = k
  theQueue = theQueue
  theGroup = theGroup
  None = None
  Node <- Nodes
  Worker <- Workers
  Task <- Tasks4
  Job <- Jobs
  Queue <- Queues
  Group <- Groups
  Programs <- RemotePrograms
SPECIFICATION FairSpec
PROPERTY
  RemoteEnds
CHECK_DEADLOCK FALSE
