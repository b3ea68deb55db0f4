SPECIFICATION SerializedSpec
CONSTANTS
  Procs = {p1}
  Txs = {t1}
  NoTx = NoTx
  Keys = {k1}
  NoKey = NoKey
  Amounts = {2}
  RefundAmounts <- MCRefunds
  MaxInt = 7
INVARIANT NeverGivesBackMore
