CONSTANTS
  T = 3
  Programs <- SoundPrograms
SPECIFICATION FairSpec
INVARIANTS
  RunOnce
  RegionComplete
  BarrierOrders
PROPERTIES
  ProgramEnds
CHECK_DEADLOCK FALSE
