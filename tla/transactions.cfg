SPECIFICATION SerializedSpec
CONSTANTS
  Procs = {p1, p2}
  Txs = {t1, t2}
  NoTx = NoTx
  Keys = {k1}
  NoKey = NoKey
  Amounts = {0, 2}
  RefundAmounts <- MCRefunds
  MaxInt = 3
INVARIANT OneChargePerKey
INVARIANT RefundWithinAmount
INVARIANT RefundMatchesStatus
PROPERTY FinalIsFinal
PROPERTY ImplementsLifecycle
