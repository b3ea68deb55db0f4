SPECIFICATION MCSpec
CONSTANTS
  Requests = {r1, r2, r3, r4}
  MaxFailures = 2
  HalfOpenRequests = 3
  SuccessThreshold = 2
  Calls = {c1, c2, c3, c4}
  MaxConcurrent = 1
  MaxWaiting = 2
INVARIANT CountersMatchState
INVARIANT ProbesBounded
INVARIANT ProbeAvailable
PROPERTY Recovers
INVARIANT SlotsExact
INVARIANT WaitingBounded
INVARIANT WorkConserving
INVARIANT StatsSettle
PROPERTY CallsEnd
CHECK_DEADLOCK FALSE
