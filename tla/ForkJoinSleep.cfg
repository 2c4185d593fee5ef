CONSTANTS
  N = 3
  LogMax = 2
  MaxNodes = 4
  Programs <- SecondBarrier
  Faults = {}
SPECIFICATION Spec
INVARIANT
  SleepingNodeIdle
CHECK_DEADLOCK FALSE
