------------------------------- MODULE Ledger -------------------------------
(***************************************************************************)
(* The ledger service (services/ledger): accounts, journals, the list of   *)
(* ledger entries and the audit log, all under one mutex.  A journal is    *)
(* checked for balance before the mutex is taken; it is then validated and *)
(* written entry by entry with the mutex held.  The steps inside the       *)
(* critical section are kept apart, because GetAccount hands out pointers  *)
(* whose balance is read with no lock.                                     *)
(***************************************************************************)
EXTENDS Integers, Sequences, FiniteSets

CONSTANTS
  Procs,           \* goroutines serving requests
  Free,            \* the mutex is not held
  SystemAccounts,  \* the accounts initializeSystemAccounts creates
  NewAccounts,     \* IDs CreateAccount can draw
  DebitNormal,     \* the accounts whose normal balance is debit
  JournalIds,      \* IDs CreateJournalEntry can draw (bounds the model)
  NoJournal,       \* no journal is being written
  Requests,        \* the entry lists of the journal requests
  MaxInt           \* greatest value of an int64

Accounts == SystemAccounts \cup NewAccounts
EntryTypes == {"debit", "credit", "other"}   \* a request may carry any text
EntryRequest == [account : Accounts, type : EntryTypes, amount : Int]

ASSUME ConstantsAssumption ==
  /\ Free \notin Procs
  /\ NoJournal \notin JournalIds
  /\ SystemAccounts \cap NewAccounts = {}
  /\ JournalIds \cap NewAccounts = {}   \* the prefixes jnl_ and acc_ differ
  /\ IsFiniteSet(SystemAccounts) /\ IsFiniteSet(NewAccounts)
  /\ MaxInt \in Nat
  /\ \A r \in Requests : r # <<>> /\ r \in Seq(EntryRequest)

VARIABLES
  known,      \* IDs in s.accounts
  balance,    \* LedgerAccount.Balance
  entries,    \* s.entries
  journals,   \* s.journals; <<>> for an ID that is not there
  auditLogs,  \* s.auditLogs: the entity each record is about
  req,        \* the journal request of each goroutine, <<>> when it has none
  mutex,      \* the goroutine inside the critical section, or Free
  jid,        \* its journalID
  written     \* its journal.Entries so far

books == <<known, balance, entries, journals, auditLogs>>
vars == <<books, req, mutex, jid, written>>

Wrap(n) == ((n + MaxInt + 1) % (2 * MaxInt + 2)) - MaxInt - 1

Init ==
  /\ known = SystemAccounts
  /\ balance = [a \in Accounts |-> 0]
  /\ entries = <<>>
  /\ journals = [j \in JournalIds |-> <<>>]
  /\ auditLogs = <<>>
  /\ req = [p \in Procs |-> <<>>]
  /\ mutex = Free
  /\ jid = NoJournal
  /\ written = <<>>

-----------------------------------------------------------------------------
(* Definitions whose name ends in _Mutant are plausible bugs: each takes    *)
(* the place of the definition it follows in name, to show that the        *)
(* property it is paired with can fail.                                    *)

(* CreateAccount: the type fixes the normal balance.  Accounts are created *)
(* active and nothing deactivates one.                                     *)
CreateAccount(a) ==
  /\ mutex = Free
  /\ a \in NewAccounts \ known
  /\ known' = known \cup {a}
  /\ auditLogs' = Append(auditLogs, a)
  /\ UNCHANGED <<balance, entries, journals, req, mutex, jid, written>>

(* validateBalance: whatever is not a debit counts as a credit, and the    *)
(* sums are int64 sums.  Totals(r, debits)[n] is the total of the debits,  *)
(* or of the others, when the loop has seen the first n entries.           *)
Totals(r, debits) ==
  LET sum[n \in 0 .. Len(r)] ==
        IF n = 0 THEN 0
        ELSE IF (r[n].type = "debit") = debits THEN Wrap(sum[n - 1] + r[n].amount)
        ELSE sum[n - 1]
  IN  sum

Balanced(r) == Totals(r, TRUE)[Len(r)] = Totals(r, FALSE)[Len(r)]

(* CreateJournalEntry up to the lock; a request that fails here leaves no  *)
(* trace.                                                                  *)
Submit(p, r) ==
  /\ req[p] = <<>>
  /\ Len(r) >= 2
  /\ Balanced(r)
  /\ req' = [req EXCEPT ![p] = r]
  /\ UNCHANGED <<books, mutex, jid, written>>

Valid_Mutant(r) == r[1].account \in known /\ r[1].amount > 0
Valid(r) == \A i \in DOMAIN r : r[i].account \in known /\ r[i].amount > 0

Reject_Mutant(p) ==
  /\ mutex = Free
  /\ req[p] # <<>>
  /\ ~Valid(req[p])
  /\ req' = [req EXCEPT ![p] = <<>>]
  /\ mutex' = p
  /\ UNCHANGED <<books, jid, written>>

(* Under the lock, all entries are validated before any is written.        *)
Reject(p) ==
  /\ mutex = Free
  /\ req[p] # <<>>
  /\ ~Valid(req[p])
  /\ req' = [req EXCEPT ![p] = <<>>]
  /\ UNCHANGED <<books, mutex, jid, written>>

Begin(p, j) ==
  /\ mutex = Free
  /\ req[p] # <<>>
  /\ Valid(req[p])
  /\ journals[j] = <<>>        \* 16 random bytes: an ID nobody else has
  /\ mutex' = p
  /\ jid' = j
  /\ UNCHANGED <<books, req, written>>

(* What an entry adds to the balance of its account.                       *)
Signed_Mutant(e) == IF e.type = "debit" THEN e.amount ELSE -e.amount
Signed(e) == IF (e.type = "debit") <=> (e.account \in DebitNormal)
               THEN e.amount ELSE -e.amount

LedgerEntry_Mutant(e, b) ==
  [journal |-> jid, account |-> e.account, type |-> e.type, amount |-> e.amount,
   balance |-> balance[e.account]]
LedgerEntry(e, b) ==
  [journal |-> jid, account |-> e.account, type |-> e.type, amount |-> e.amount,
   balance |-> b]

(* One turn of the loop over the request: the balance of the account, then *)
(* the entry that records it.                                              *)
WriteEntry(p) ==
  LET e == req[p][Len(written) + 1]
      b == Wrap(balance[e.account] + Signed(e))
  IN
  /\ mutex = p
  /\ Len(written) < Len(req[p])
  /\ balance' = [balance EXCEPT ![e.account] = b]
  /\ entries' = Append(entries, LedgerEntry(e, b))
  /\ written' = Append(written, LedgerEntry(e, b))
  /\ UNCHANGED <<known, journals, auditLogs, req, mutex, jid>>

(* The journal is filed and logged, and the lock given back.               *)
Finish_Mutant(p) ==
  /\ mutex = p
  /\ Len(written) = Len(req[p])
  /\ journals' = [journals EXCEPT ![jid] = written]
  /\ req' = [req EXCEPT ![p] = <<>>]
  /\ mutex' = Free /\ jid' = NoJournal /\ written' = <<>>
  /\ UNCHANGED <<known, balance, entries, auditLogs>>
Finish(p) ==
  /\ mutex = p
  /\ Len(written) = Len(req[p])
  /\ journals' = [journals EXCEPT ![jid] = written]
  /\ auditLogs' = Append(auditLogs, jid)
  /\ req' = [req EXCEPT ![p] = <<>>]
  /\ mutex' = Free /\ jid' = NoJournal /\ written' = <<>>
  /\ UNCHANGED <<known, balance, entries>>

Next ==
  \/ \E a \in NewAccounts : CreateAccount(a)
  \/ \E p \in Procs :
       \/ \E r \in Requests : Submit(p, r)
       \/ Reject(p)
       \/ \E j \in JournalIds : Begin(p, j)
       \/ WriteEntry(p)
       \/ Finish(p)

Spec == Init /\ [][Next]_vars

-----------------------------------------------------------------------------
(* The requests of the convenience endpoints.                              *)

Pair(debited, credited, amount) ==
  <<[account |-> debited, type |-> "debit", amount |-> amount],
    [account |-> credited, type |-> "credit", amount |-> amount]>>

RecordPayment(amount) == Pair("acc_cash", "acc_customer_deposits", amount)
RecordRefund(amount)  == Pair("acc_refunds", "acc_cash", amount)
RecordFee(amount)     == Pair("acc_receivables", "acc_fees", amount)

-----------------------------------------------------------------------------
(* Properties.                                                             *)

Entry == [journal : JournalIds, account : Accounts, type : EntryTypes,
          amount : Int, balance : Int]

TypeOK ==
  /\ SystemAccounts \subseteq known /\ known \subseteq Accounts
  /\ balance \in [Accounts -> Int]
  /\ entries \in Seq(Entry)
  /\ journals \in [JournalIds -> Seq(Entry)]
  /\ auditLogs \in Seq(JournalIds \cup NewAccounts)
  /\ req \in [Procs -> Seq(EntryRequest)]
  /\ mutex \in Procs \cup {Free}
  /\ jid \in JournalIds \cup {NoJournal}
  /\ written \in Seq(Entry)
  /\ mutex = Free <=> jid = NoJournal

SumOf(b, accounts) ==
  LET sum[S \in SUBSET Accounts] ==
        IF S = {} THEN 0
        ELSE LET a == CHOOSE a \in S : TRUE IN Wrap(sum[S \ {a}] + b[a])
  IN  sum[accounts]

(* GetTrialBalance, which takes the lock, always sees debit-normal and     *)
(* credit-normal accounts balance out -- in the int64 arithmetic of the    *)
(* service, even when a sum overflows.                                     *)
TrialBalance ==
  mutex = Free =>
    SumOf(balance, DebitNormal \cap known) = SumOf(balance, known \ DebitNormal)

(* The balance that the first n of the entries es leave account a with.    *)
LastBalance(es, a, n) ==
  LET own == {k \in 1 .. n : es[k].account = a}
  IN  IF own = {} THEN 0
      ELSE es[CHOOSE i \in own : \A k \in own : k <= i].balance

(* The immutable entries alone reproduce the accounts: each carries the    *)
(* balance its account had after it, the last one the balance it has now.  *)
BalancesFollowEntries ==
  /\ \A i \in DOMAIN entries :
       entries[i].balance
         = Wrap(LastBalance(entries, entries[i].account, i - 1) + Signed(entries[i]))
  /\ \A a \in Accounts : balance[a] = LastBalance(entries, a, Len(entries))

(* js are the entries of journal j among es, in one block after the first  *)
(* k.                                                                      *)
Block(es, j, js, k) ==
  /\ {i \in DOMAIN es : es[i].journal = j} = k + 1 .. k + Len(js)
  /\ \A i \in DOMAIN js : es[k + i] = js[i]

(* A journal is written whole or not at all: its entries in the list are   *)
(* those it was filed with, together and in their order; none belongs to a *)
(* rejected request or to an account that does not exist.                  *)
JournalsComplete ==
  /\ \A j \in JournalIds : \E k \in 0 .. Len(entries) :
       Block(entries, j, IF j = jid THEN written ELSE journals[j], k)
  /\ \A i \in DOMAIN entries : entries[i].account \in known /\ entries[i].amount > 0

(* Every journal and every account opened since the start is in the audit  *)
(* log, once, and nothing else is.                                         *)
AuditTrail ==
  /\ {auditLogs[i] : i \in DOMAIN auditLogs}
       = {j \in JournalIds : journals[j] # <<>>} \cup (known \ SystemAccounts)
  /\ \A i, k \in DOMAIN auditLogs : auditLogs[i] = auditLogs[k] => i = k
=============================================================================
