SPECIFICATION Spec
CONSTANTS
  Calls = {c1, c2}
  Admins = {a1}
  Checkers = {h1}
  None = None
  Priority <- MCPriority
  MaxRetries <- MCMaxRetries
  Currencies <- MCCurrencies
  Requests <- MCRequests
SYMMETRY CallSymmetry
INVARIANT StripeChargesOnce
INVARIANT RetryPolicy
INVARIANT FailoverInOrder
INVARIANT TokenFetchedOnce
