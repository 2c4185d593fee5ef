CONSTANTS
  N = 3
  LogMax = 2
  MaxNodes = 4
  Programs <- AllPrograms
  Faults = {"init", "create"}
SPECIFICATION FairSpec
INVARIANTS
  TypeOK
  PhasesSeparate
  JoinedWithAll
  ShutdownOrderly
PROPERTIES
  ImplementsRegions
  ProgramEnds
CHECK_DEADLOCK FALSE
