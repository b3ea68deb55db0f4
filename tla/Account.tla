------------------------------- MODULE Account -------------------------------
(***************************************************************************)
(* The account service (services/account): account creation, the account   *)
(* status and the balance, one goroutine per HTTP request.                 *)
(*                                                                         *)
(* As in the transaction service, the repository's mutex covers a single   *)
(* repository call, and GetByID hands out the stored pointer: the service  *)
(* reads and writes the status with no lock held, and only the balance is  *)
(* always changed under the lock (UpdateBalanceAtomic).  The status is     *)
(* written in one step here although a Go string has two words: "active",  *)
(* "frozen" and "closed" have the same length, and the mixtures that       *)
(* "pending" can leave behind are treated like "pending" by every reader.  *)
(*                                                                         *)
(* Profile, metadata, KYC status and payment instruments play no part in   *)
(* these operations and are left out; so are the versions, which nothing   *)
(* reads.                                                                  *)
(***************************************************************************)
EXTENDS Integers

CONSTANTS
  Procs,     \* goroutines serving requests
  Ids,       \* account IDs generateID can return (bounds the model)
  NoId,      \* no account
  Emails,    \* e-mail addresses
  Amounts,   \* amounts of the credit and debit requests
  MaxInt     \* greatest value of the int64 amounts

ASSUME ConstantsAssumption ==
  /\ NoId \notin Ids
  /\ Emails # {}
  /\ Amounts \subseteq Int
  /\ MaxInt \in Nat
  /\ \A n \in Amounts : n <= MaxInt

VARIABLES
  accounts,    \* InMemoryRepository.accounts, by ID
  emailIndex,  \* InMemoryRepository.emailIndex
  pc,          \* the next step of each goroutine
  req,         \* the arguments of the call it is serving
  moved,       \* history: the sum of the changes reported as done, by ID
  barred       \* history: calls whose account has been frozen or closed
               \* ever since they looked it up

vars == <<accounts, emailIndex, pc, req, moved, barred>>

Statuses == {"pending", "active", "frozen", "closed"}

(* The operations that set a status, and the one each sets.                *)
StatusOps == {"activate", "freeze", "unfreeze", "close"}
Target(op) ==
  CASE op = "freeze" -> "frozen"
    [] op = "close"  -> "closed"
    [] OTHER         -> "active"

MoneyOps == {"credit", "debit"}

Wrap(n) == ((n + MaxInt + 1) % (2 * MaxInt + 2)) - MaxInt - 1

AnyEmail == CHOOSE e \in Emails : TRUE
Absent == [email |-> AnyEmail, status |-> "pending", balance |-> 0, stored |-> FALSE]
NoReq == [op |-> "none", id |-> NoId, email |-> AnyEmail, amount |-> 0]

Init ==
  /\ accounts = [i \in Ids |-> Absent]
  /\ emailIndex = [e \in Emails |-> NoId]
  /\ pc = [p \in Procs |-> "idle"]
  /\ req = [p \in Procs |-> NoReq]
  /\ moved = [i \in Ids |-> 0]
  /\ barred = {}

Stored == {i \in Ids : accounts[i].stored}
Blocked(i) == accounts[i].status \in {"frozen", "closed"}

Goto(p, from, to) == pc[p] = from /\ pc' = [pc EXCEPT ![p] = to]

Return(p) ==
  /\ pc' = [pc EXCEPT ![p] = "idle"]
  /\ req' = [req EXCEPT ![p] = NoReq]
  /\ barred' = barred \ {p}

-----------------------------------------------------------------------------
(* CreateAccount, for a request that passes validateCreateRequest.         *)

(* GetByEmail misses; generateID draws an ID nobody else has.  (When it    *)
(* finds the address the call fails and leaves no trace.)                  *)
BeginCreate(p, e, i) ==
  /\ emailIndex[e] = NoId
  /\ i \notin Stored /\ \A q \in Procs : req[q].id # i
  /\ Goto(p, "idle", "create")
  /\ req' = [req EXCEPT ![p] = [op |-> "create", id |-> i, email |-> e, amount |-> 0]]
  /\ UNCHANGED <<accounts, emailIndex, moved, barred>>

RejectEmail(p) ==
  /\ pc[p] = "create"
  /\ emailIndex[req[p].email] # NoId
  /\ Return(p)
  /\ UNCHANGED <<accounts, emailIndex, moved>>

StoreCreated_Mutant(p) ==
  /\ pc[p] = "create"
  /\ accounts' = [accounts EXCEPT ![req[p].id] =
                    [email |-> req[p].email, status |-> "pending", balance |-> 0,
                     stored |-> TRUE]]
  /\ emailIndex' = [emailIndex EXCEPT ![req[p].email] = req[p].id]
  /\ Return(p)
  /\ UNCHANGED moved

(* repo.Create looks the address up again, under the lock.                 *)
StoreCreated(p) ==
  /\ pc[p] = "create"
  /\ emailIndex[req[p].email] = NoId
  /\ accounts' = [accounts EXCEPT ![req[p].id] =
                    [email |-> req[p].email, status |-> "pending", balance |-> 0,
                     stored |-> TRUE]]
  /\ emailIndex' = [emailIndex EXCEPT ![req[p].email] = req[p].id]
  /\ Return(p)
  /\ UNCHANGED moved

-----------------------------------------------------------------------------
(* Operations on an account: GetByID, then the checks.                     *)

BeginOp(p, op, i, n) ==
  /\ i \in Stored
  /\ op \in MoneyOps => n > 0
  /\ Goto(p, "idle", "check")
  /\ req' = [req EXCEPT ![p] = [op |-> op, id |-> i, email |-> AnyEmail, amount |-> n]]
  /\ barred' = IF Blocked(i) THEN barred \cup {p} ELSE barred
  /\ UNCHANGED <<accounts, emailIndex, moved>>

(* What each operation asks of the status: checkAccountActive for the      *)
(* money, a test of its own for activate and unfreeze, nothing for freeze  *)
(* and close.                                                              *)
Permits_Mutant(op, status) ==
  /\ op \in MoneyOps => status # "closed"
  /\ op = "activate" => status # "closed"
  /\ op = "unfreeze" => status = "frozen"
Permits(op, status) ==
  /\ op \in MoneyOps => status \notin {"frozen", "closed"}
  /\ op = "activate" => status # "closed"
  /\ op = "unfreeze" => status = "frozen"

AfterCheck(op) == IF op \in StatusOps THEN "write" ELSE IF op = "debit" THEN "funds" ELSE "apply"

CheckStatus(p) ==
  LET permitted == Permits(req[p].op, accounts[req[p].id].status) IN
  /\ pc[p] = "check"
  /\ \/ /\ permitted
        /\ Goto(p, "check", AfterCheck(req[p].op))
        /\ UNCHANGED <<req, barred>>
     \/ /\ ~permitted
        /\ Return(p)
  /\ UNCHANGED <<accounts, emailIndex, moved>>

(* account.Status = target                                                 *)
WriteStatus(p) ==
  LET target == Target(req[p].op) IN
  /\ Goto(p, "write", "update")
  /\ accounts' = [accounts EXCEPT ![req[p].id].status = target]
  /\ barred' = IF target = "active" THEN {q \in barred : req[q].id # req[p].id} ELSE barred
  /\ UNCHANGED <<emailIndex, req, moved>>

(* repo.Update stores the pointer it was read from and the address it has. *)
Update(p) ==
  /\ pc[p] = "update"
  /\ Return(p)
  /\ UNCHANGED <<accounts, emailIndex, moved>>

(* "Check balance before attempting debit", read without a lock.           *)
CheckFunds(p) ==
  LET enough == accounts[req[p].id].balance >= req[p].amount IN
  /\ pc[p] = "funds"
  /\ \/ /\ enough
        /\ Goto(p, "funds", "apply")
        /\ UNCHANGED <<req, barred>>
     \/ /\ ~enough
        /\ Return(p)
  /\ UNCHANGED <<accounts, emailIndex, moved>>

Delta(p) == IF req[p].op = "credit" THEN req[p].amount ELSE -req[p].amount

Accepts_Mutant(balance) == balance >= -1
Accepts(balance) == balance >= 0

(* UpdateBalanceAtomic, under the lock: a sum below zero, or one that      *)
(* overflowed, is refused.                                                 *)
Apply(p) ==
  LET i == req[p].id
      newBalance == Wrap(accounts[i].balance + Delta(p))
  IN
  /\ pc[p] = "apply"
  /\ \/ /\ Accepts(newBalance)
        /\ accounts' = [accounts EXCEPT ![i].balance = newBalance]
        /\ moved' = [moved EXCEPT ![i] = @ + Delta(p)]
     \/ /\ ~Accepts(newBalance)
        /\ UNCHANGED <<accounts, moved>>
  /\ Return(p)
  /\ UNCHANGED emailIndex

-----------------------------------------------------------------------------

Create(p) ==
  \/ \E e \in Emails, i \in Ids : BeginCreate(p, e, i)
  \/ RejectEmail(p)
  \/ StoreCreated(p)

ChangeStatus(p) ==
  \/ \E op \in StatusOps, i \in Ids : BeginOp(p, op, i, 0)
  \/ WriteStatus(p)
  \/ Update(p)

MoveMoney(p) ==
  \/ \E op \in MoneyOps, i \in Ids, n \in Amounts : BeginOp(p, op, i, n)
  \/ CheckFunds(p)
  \/ Apply(p)

Next == \E p \in Procs : Create(p) \/ ChangeStatus(p) \/ MoveMoney(p) \/ CheckStatus(p)

Spec == Init /\ [][Next]_vars

-----------------------------------------------------------------------------
(* Properties.                                                             *)

PCs == {"idle", "create", "check", "write", "update", "funds", "apply"}
Ops == StatusOps \cup MoneyOps \cup {"none", "create"}

TypeOK ==
  /\ accounts \in [Ids -> [email : Emails, status : Statuses, balance : Int,
                           stored : BOOLEAN]]
  /\ emailIndex \in [Emails -> Ids \cup {NoId}]
  /\ pc \in [Procs -> PCs]
  /\ req \in [Procs -> [op : Ops, id : Ids \cup {NoId}, email : Emails, amount : Int]]
  /\ moved \in [Ids -> Int]
  /\ barred \subseteq Procs

(* Two accounts never share an address, even when they are created at the  *)
(* same time, and the index leads from an address to its account.          *)
OneAccountPerEmail ==
  /\ \A i \in Stored : emailIndex[accounts[i].email] = i
  /\ \A e \in Emails : emailIndex[e] # NoId =>
       emailIndex[e] \in Stored /\ accounts[emailIndex[e]].email = e

(* The balance is exactly the money moved by the calls that succeeded, and *)
(* is never overdrawn nor wrapped around, however the unlocked balance     *)
(* checks of concurrent debits interleave.                                 *)
BalanceExact ==
  \A i \in Ids : accounts[i].balance = moved[i] /\ accounts[i].balance >= 0

(* A credit or debit that looked the account up when it was already frozen *)
(* or closed moves nothing, unless the account is reactivated meanwhile.   *)
BarredMovesNothing ==
  \A p \in barred : pc[p] \notin {"funds", "apply"}

(* "CloseAccount permanently closes an account."                           *)
ClosedForever ==
  [][\A i \in Stored : accounts[i].status = "closed" => accounts'[i].status = "closed"]_vars
=============================================================================
