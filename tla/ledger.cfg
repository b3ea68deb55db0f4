SPECIFICATION Spec
CONSTANTS
  Procs = {p1, p2}
  Free = Free
  SystemAccounts <- MCSystem
  NewAccounts = {"acc_new"}
  DebitNormal <- MCDebitNormal
  JournalIds = {"j1", "j2", "j3"}
  NoJournal = "none"
  Requests <- MCRequests
  MaxInt = 7
CHECK_DEADLOCK FALSE
INVARIANT TypeOK
INVARIANT TrialBalance
INVARIANT BalancesFollowEntries
INVARIANT JournalsComplete
INVARIANT AuditTrail
