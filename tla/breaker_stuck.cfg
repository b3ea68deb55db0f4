SPECIFICATION Spec
SYMMETRY Symm
CONSTANTS
  Requests = {r1, r2, r3}
  MaxFailures = 2
  HalfOpenRequests = 3
  SuccessThreshold = 2
INVARIANT NeverStuck
