SPECIFICATION Spec
CONSTANTS
  t1 = t1
  t2 = t2
  t3 = t3
  t4 = t4
  None = None
  Slots = 3
  Thread <- MCThread
  Task <- MCTask
  Programs <- CrossedPrograms
INVARIANT
  TiedUnderAncestors
CHECK_DEADLOCK FALSE
