SPECIFICATION Spec
CONSTANTS
  Procs = {p1, p2, p3}
  Ids = {i1, i2}
  NoId = NoId
  Emails = {e1}
  Amounts = {0, 1, 3}
  MaxInt = 3
SYMMETRY MCSymmetry
INVARIANT OneAccountPerEmail
INVARIANT BalanceExact
INVARIANT BarredMovesNothing
