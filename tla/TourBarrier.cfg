CONSTANTS
  N = 6
  LogMax = 3
SPECIFICATION FairSpec
INVARIANTS
  TypeOK
  TournamentInv
  NoRoundOverrun
PROPERTIES
  ImplementsBarrier
  NoSignalLost
  EveryoneReleased
