SPECIFICATION Spec
CONSTANTS
  Calls = {c1}
  Admins = {a1}
  Checkers = {h1}
  None = None
  Priority <- MCPriority
  MaxRetries <- MCMaxRetries
  Currencies <- MCCurrencies
  Requests <- MCRequests
INVARIANT PerformedOnce
