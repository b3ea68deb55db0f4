SPECIFICATION MCSpec
CONSTANTS
  MaxTime = 5
  Limiters = {0, 1}
  Clients = {client}
  Callers = {r1, r2}
  Burst <- MCBurst
  Refill <- MCRefill
  Unit = 2
  MaxCleanups = 2
  NoBucket = NoBucket
  Keys = {k1, k2, k3}
  FirstKeys = {k1}
  Lifetimes = {1, Never}
  Limits = {0, 1}
  RoleSets <- MCRoleSets
  Graces = {0, 1}
  Validators = {r1, r2}
  Operators = {o1, o2}
  Minute = 1
  MaxChanges = 2
  Never = Never
  NoKey = NoKey
  Requests = {r1, r2}
  MaxFailures = 1
  HalfOpenRequests = 1
  SuccessThreshold = 1
  Routes <- MCRoutes
  Incoming <- MCIncoming
  VersionLike = {"vendors"}
  Visitors = {client}
  Arrivals = {r1, r2}
  MaxRequests = 2
  WindowSize = 2
  MaxRounds = 1
  NoWindow = NoWindow
  Runners = {e1, e2}
  Services = {s1}
  Records = {x1, x2}
  MaxCount = 1
  NoRecord = NoRecord
  NewRoles = {"auditor"}
  Drafts <- MCDrafts
  Questions <- MCQuestions
  Edits = {"transaction:refund"}
  Checks = {c1}
  MaxEdits = 2
  NoRole = NoRole
INVARIANTS
  CallersEntitled
  RetiredKeysRefused
  KeyLimitHolds
  RotationHandsOver
  LimiterHolds
  WindowHolds
  StatusFollowsAnswers
  AccessJustified
PROPERTY RunnersFollow
CHECK_DEADLOCK FALSE
