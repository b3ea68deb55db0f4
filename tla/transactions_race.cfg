SPECIFICATION Spec
CONSTANTS
  Procs = {p1, p2}
  Txs = {t1}
  NoTx = NoTx
  Keys = {k1}
  NoKey = NoKey
  Amounts = {2}
  RefundAmounts = {0, 1}
  MaxInt = 7
INVARIANT NeverGivesBackMore
