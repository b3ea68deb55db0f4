SPECIFICATION FairSpec
CONSTANTS
  Procs = {p1, p2}
  Worker = worker
  Ntfs = {n1, n2, n3}
  None = None
  QueueCap = 1
  MaxRetries = 2
INVARIANT OneOwner
INVARIANT AttemptsBounded
PROPERTY FinalStays
PROPERTY EveryNotificationEnds
PROPERTY SyncReturns
CHECK_DEADLOCK FALSE
