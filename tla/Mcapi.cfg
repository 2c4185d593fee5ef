CONSTANTS
  None = None
  me = me
  pe = pe
  se = se
  t = t
  u = u
  Thread = {t, u}
  Endpoint = {me, pe, se}
  Kind <- Kinds
  Request = {1, 2, 3}
  MaxQueue = 2
  MaxBuffers = 2
  MaxSent = 3
  Applications <- AllApplications
SPECIFICATION FairSpec
INVARIANTS
  TypeOK
  QueueExact
PROPERTIES
  ImplementsMailbox
  WaitEnds
CHECK_DEADLOCK FALSE
