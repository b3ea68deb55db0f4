---------------------------- MODULE AccountProofs ----------------------------
(***************************************************************************)
(* Proofs about module Account: whatever the number of goroutines, an      *)
(* address has one account, balances are exact, and a call that found the  *)
(* account frozen or closed moves no money.                                *)
(***************************************************************************)
EXTENDS Account, TLAPS

-----------------------------------------------------------------------------
(* The inductive invariant.                                                *)

(* What a goroutine knows about the account it works on: one that is being *)
(* created is nobody else's and not stored yet, any other is stored.  Only *)
(* a credit or debit gets as far as the balance, with a positive amount.   *)
ReqOK(p) ==
  /\ pc[p] = "idle" => req[p] = NoReq /\ p \notin barred
  /\ pc[p] # "idle" => req[p].id \in Ids
  /\ pc[p] = "create" => /\ ~accounts[req[p].id].stored
                         /\ p \notin barred
                         /\ \A q \in Procs : q # p => req[q].id # req[p].id
  /\ pc[p] \notin {"idle", "create"} => accounts[req[p].id].stored
  /\ pc[p] = "check" => req[p].op \in StatusOps \cup MoneyOps
  /\ pc[p] \in {"funds", "apply"} => req[p].op \in MoneyOps
  /\ req[p].op \in MoneyOps => 0 < req[p].amount /\ req[p].amount <= MaxInt

(* No sum that was accepted has wrapped.                                   *)
BalanceOK(i) ==
  /\ accounts[i].balance = moved[i]
  /\ 0 <= accounts[i].balance /\ accounts[i].balance <= MaxInt
  /\ ~accounts[i].stored => accounts[i].balance = 0

(* The account of a barred call is blocked, so that a credit or debit does *)
(* not get past the check.                                                 *)
BarredOK(p) ==
  p \in barred => /\ Blocked(req[p].id)
                  /\ req[p].op \in MoneyOps => pc[p] = "check"

IInv ==
  /\ TypeOK
  /\ \A p \in Procs : ReqOK(p)
  /\ OneAccountPerEmail
  /\ \A i \in Ids : BalanceOK(i)
  /\ \A p \in Procs : BarredOK(p)

(* A barred credit or debit is still at its first check.                   *)
LEMMA IInvBarred == IInv => BarredMovesNothing
<1> SUFFICES ASSUME IInv, NEW p \in barred PROVE pc[p] \notin {"funds", "apply"}
  BY DEF BarredMovesNothing
<1>1. p \in Procs
  BY DEF IInv, TypeOK
<1>2. ReqOK(p) /\ BarredOK(p)
  BY <1>1 DEF IInv
<1> QED
  BY <1>2 DEF ReqOK, BarredOK

-----------------------------------------------------------------------------
(* int64 arithmetic: a sum of two amounts that is not negative after it    *)
(* wrapped has not wrapped.                                                *)

LEMMA ModStep ==
  ASSUME NEW K \in Nat, K > 0, NEW x \in Int, 0 <= x, x < 2 * K
  PROVE  x % K = IF x < K THEN x ELSE x - K
<1>1. CASE x < K
  BY <1>1, Z3
<1>2. CASE x >= K
  BY <1>2, Z3
<1> QED
  BY <1>1, <1>2

LEMMA WrapExact ==
  ASSUME NEW b \in Int, 0 <= b, b <= MaxInt, NEW d \in Int, d <= MaxInt, -MaxInt <= d,
         Wrap(b + d) >= 0
  PROVE  Wrap(b + d) = b + d /\ b + d <= MaxInt /\ 0 <= b + d
<1> DEFINE K == 2 * MaxInt + 2
           x == b + d + MaxInt + 1
<1>1. K \in Nat /\ K > 0 /\ x \in Int /\ 0 <= x /\ x < 2 * K
  BY ConstantsAssumption
<1>2. x % K = IF x < K THEN x ELSE x - K
  <2> HIDE DEF K, x
  <2> QED
    BY <1>1, ModStep
<1>3. Wrap(b + d) = (x % K) - MaxInt - 1
  BY DEF Wrap
<1> HIDE DEF K, x
<1>4. CASE x < K
  <2>1. Wrap(b + d) = x - MaxInt - 1
    BY <1>2, <1>3, <1>4
  <2> QED
    BY <2>1, <1>4, ConstantsAssumption DEF x, K
<1>5. CASE ~(x < K)
  <2>1. Wrap(b + d) = (x - K) - MaxInt - 1
    BY <1>2, <1>3, <1>5
  <2> QED
    BY <2>1, ConstantsAssumption DEF x, K
<1> QED
  BY <1>4, <1>5

LEMMA WrapType == ASSUME NEW n \in Int PROVE Wrap(n) \in Int
BY ConstantsAssumption DEF Wrap

LEMMA EmailType == AnyEmail \in Emails
BY ConstantsAssumption DEF AnyEmail

LEMMA TargetType == ASSUME NEW op PROVE Target(op) \in Statuses
BY DEF Target, Statuses

-----------------------------------------------------------------------------

LEMMA InitIInv == Init => IInv
<1> SUFFICES ASSUME Init PROVE IInv
  OBVIOUS
<1> USE ConstantsAssumption, EmailType DEF Init
<1>1. TypeOK
  BY DEF TypeOK, Absent, NoReq, Statuses, PCs, Ops
<1>2. ASSUME NEW p \in Procs PROVE ReqOK(p)
  <2>1. pc[p] = "idle" /\ req[p] = NoReq /\ p \notin barred
    OBVIOUS
  <2>2. NoReq.op \notin MoneyOps
    BY DEF NoReq, MoneyOps
  <2> QED
    BY <2>1, <2>2 DEF ReqOK
<1>3. OneAccountPerEmail
  BY DEF OneAccountPerEmail, Stored, Absent
<1>4. \A i \in Ids : BalanceOK(i)
  BY DEF BalanceOK, Absent
<1>5. \A p \in Procs : BarredOK(p)
  BY DEF BarredOK
<1> QED
  BY <1>1, <1>2, <1>3, <1>4, <1>5 DEF IInv

(* The end of a call.                                                      *)
LEMMA ReturnTypes ==
  ASSUME TypeOK, NEW p \in Procs, Return(p)
  PROVE  /\ pc' \in [Procs -> PCs]
         /\ req' \in [Procs -> [op : Ops, id : Ids \cup {NoId}, email : Emails, amount : Int]]
         /\ barred' \subseteq Procs
         /\ pc'[p] = "idle" /\ req'[p] = NoReq /\ p \notin barred'
         /\ \A q \in Procs : q # p => /\ pc'[q] = pc[q] /\ req'[q] = req[q]
                                      /\ q \in barred' <=> q \in barred
BY EmailType DEF Return, TypeOK, NoReq, Ops, PCs

(* A step of p that moves no address, and neither stores nor drops an      *)
(* account, keeps what is known of every request.                          *)
Keeps(p) ==
  /\ \A i \in Ids : /\ accounts'[i].stored = accounts[i].stored
                    /\ accounts'[i].email = accounts[i].email
  /\ emailIndex' = emailIndex
  /\ \A q \in Procs : q # p => pc'[q] = pc[q] /\ req'[q] = req[q]
  /\ \A q \in Procs : q # p /\ q \in barred' => q \in barred

LEMMA KeepsReqs ==
  ASSUME IInv, NEW p \in Procs, Keeps(p), ReqOK(p)',
         req'[p].id \in {req[p].id, NoId}
  PROVE  (\A q \in Procs : ReqOK(q)') /\ OneAccountPerEmail'
<1>1. ASSUME NEW q \in Procs, q # p PROVE ReqOK(q)'
  <2>1. /\ ReqOK(q) /\ pc'[q] = pc[q] /\ req'[q] = req[q]
        /\ q \in barred' => q \in barred
    BY <1>1 DEF IInv, Keeps
  <2>2. pc[q] # "idle" => accounts'[req[q].id].stored = accounts[req[q].id].stored
    BY <2>1 DEF ReqOK, Keeps
  <2>3. pc[q] = "create" => \A r \in Procs : r # q => req'[r].id # req[q].id
    BY <2>1, ConstantsAssumption DEF ReqOK, Keeps
  <2> QED
    BY <2>1, <2>2, <2>3 DEF ReqOK
<1>2. OneAccountPerEmail'
  BY DEF IInv, Keeps, OneAccountPerEmail, Stored, TypeOK
<1> QED
  BY <1>1, <1>2

LEMMA BeginCreateIInv ==
  ASSUME IInv, NEW p \in Procs, NEW e \in Emails, NEW i \in Ids, BeginCreate(p, e, i)
  PROVE  IInv'
<1> USE DEF BeginCreate, IInv, Goto
<1>1. /\ pc[p] = "idle" /\ p \notin barred
      /\ pc'[p] = "create" /\ ~accounts[i].stored
      /\ req'[p] = [op |-> "create", id |-> i, email |-> e, amount |-> 0]
      /\ \A q \in Procs : q # p => pc'[q] = pc[q] /\ req'[q] = req[q]
      /\ \A q \in Procs : req[q].id # i
  BY DEF TypeOK, ReqOK, Stored
<1>2. TypeOK'
  <2>1. [op |-> "create", id |-> i, email |-> e, amount |-> 0]
          \in [op : Ops, id : Ids \cup {NoId}, email : Emails, amount : Int]
    BY DEF Ops
  <2>2. pc' \in [Procs -> PCs]
    BY DEF TypeOK, PCs
  <2>3. req' \in [Procs -> [op : Ops, id : Ids \cup {NoId}, email : Emails, amount : Int]]
    BY <2>1 DEF TypeOK
  <2> QED
    BY <2>2, <2>3 DEF TypeOK
<1>3. ASSUME NEW q \in Procs PROVE ReqOK(q)'
  <2>1. CASE q = p
    BY <1>1, <2>1 DEF ReqOK, MoneyOps
  <2>2. CASE q # p
    BY <1>1, <2>2 DEF ReqOK
  <2> QED
    BY <2>1, <2>2
<1>4. OneAccountPerEmail'
  BY DEF OneAccountPerEmail, Stored
<1>5. ASSUME NEW j \in Ids PROVE BalanceOK(j)'
  BY DEF BalanceOK
<1>6. ASSUME NEW q \in Procs PROVE BarredOK(q)'
  BY <1>1 DEF BarredOK, Blocked
<1> QED
  BY <1>2, <1>3, <1>4, <1>5, <1>6

(* A call that ends and leaves the accounts alone.                         *)
LEMMA EndIInv ==
  ASSUME IInv, NEW p \in Procs, pc[p] # "idle", Return(p),
         UNCHANGED <<accounts, emailIndex, moved>>
  PROVE  IInv'
<1> USE DEF IInv
<1>1. /\ pc'[p] = "idle" /\ req'[p] = NoReq /\ p \notin barred'
      /\ \A q \in Procs : q # p => /\ pc'[q] = pc[q] /\ req'[q] = req[q]
                                   /\ q \in barred' <=> q \in barred
  BY ReturnTypes
<1>2. TypeOK'
  BY ReturnTypes DEF TypeOK
<1>3. NoReq.op \notin MoneyOps /\ NoReq.id = NoId
  BY DEF NoReq, MoneyOps
<1>4. Keeps(p) /\ ReqOK(p)'
  BY <1>1, <1>3 DEF Keeps, ReqOK
<1>5. (\A q \in Procs : ReqOK(q)') /\ OneAccountPerEmail'
  BY <1>1, <1>3, <1>4, KeepsReqs
<1>6. \A j \in Ids : BalanceOK(j)'
  BY DEF BalanceOK
<1>7. \A q \in Procs : BarredOK(q)'
  BY <1>1 DEF BarredOK, Blocked
<1> QED
  BY <1>2, <1>5, <1>6, <1>7

LEMMA StoreCreatedIInv ==
  ASSUME IInv, NEW p \in Procs, StoreCreated(p)
  PROVE  IInv'
<1> DEFINE new == [email |-> req[p].email, status |-> "pending", balance |-> 0, stored |-> TRUE]
<1> USE DEF IInv
<1>1. PICK i \in Ids : i = req[p].id /\ \A q \in Procs : q # p => req[q].id # i
  BY DEF StoreCreated, ReqOK
<1>2. PICK e \in Emails : e = req[p].email /\ emailIndex[e] = NoId
  BY DEF StoreCreated, TypeOK
<1>3. /\ ~accounts[i].stored /\ accounts[i].balance = 0 /\ moved' = moved
      /\ accounts' = [accounts EXCEPT ![i] = new]
      /\ emailIndex' = [emailIndex EXCEPT ![e] = i]
  BY <1>1, <1>2 DEF StoreCreated, ReqOK, BalanceOK
<1>4. /\ accounts'[i].email = e /\ accounts'[i].balance = 0 /\ accounts'[i].stored
      /\ \A j \in Ids : j # i => accounts'[j] = accounts[j]
      /\ emailIndex'[e] = i
      /\ \A f \in Emails : f # e => emailIndex'[f] = emailIndex[f]
  BY <1>2, <1>3 DEF TypeOK
<1>5. /\ pc'[p] = "idle" /\ req'[p] = NoReq /\ p \notin barred'
      /\ \A q \in Procs : q # p => /\ pc'[q] = pc[q] /\ req'[q] = req[q]
                                   /\ q \in barred' <=> q \in barred
  BY ReturnTypes DEF StoreCreated
<1>6. TypeOK'
  <2>1. new \in [email : Emails, status : Statuses, balance : Int, stored : BOOLEAN]
    BY <1>2 DEF Statuses
  <2> HIDE DEF new
  <2>2. accounts' \in [Ids -> [email : Emails, status : Statuses, balance : Int,
                               stored : BOOLEAN]]
    BY <1>3, <2>1 DEF TypeOK
  <2>3. emailIndex' \in [Emails -> Ids \cup {NoId}]
    BY <1>3 DEF TypeOK
  <2> QED
    BY <1>3, <2>2, <2>3, ReturnTypes DEF TypeOK, StoreCreated
<1>7. ASSUME NEW q \in Procs PROVE ReqOK(q)'
  <2>1. CASE q = p
    <3>1. NoReq.op \notin MoneyOps
      BY DEF NoReq, MoneyOps
    <3> QED
      BY <1>5, <2>1, <3>1 DEF ReqOK
  <2>2. CASE q # p
    <3>1. ReqOK(q) /\ pc'[q] = pc[q] /\ req'[q] = req[q] /\ (q \in barred' => q \in barred)
      BY <1>5, <2>2
    <3>2. pc[q] # "idle" => accounts'[req[q].id] = accounts[req[q].id]
      BY <1>1, <1>4, <2>2 DEF ReqOK
    <3>3. NoReq.id = NoId
      BY DEF NoReq
    <3>4. pc[q] = "create" => \A r \in Procs : r # q => req'[r].id # req[q].id
      BY <1>5, <3>1, <3>3, ConstantsAssumption DEF ReqOK
    <3> QED
      BY <3>1, <3>2, <3>4 DEF ReqOK
  <2> QED
    BY <2>1, <2>2
<1>8. OneAccountPerEmail'
  <2>1. ASSUME NEW j \in Ids, accounts'[j].stored PROVE emailIndex'[accounts'[j].email] = j
    <3>1. CASE j = i
      BY <1>4, <3>1
    <3>2. CASE j # i
      <4>1. accounts'[j] = accounts[j] /\ accounts[j].email \in Emails
        BY <1>4, <3>2 DEF TypeOK
      <4>2. emailIndex[accounts[j].email] = j
        BY <2>1, <4>1 DEF OneAccountPerEmail, Stored
      <4>3. accounts[j].email # e
        BY <1>2, <4>2, ConstantsAssumption
      <4> QED
        BY <1>4, <4>1, <4>2, <4>3
    <3> QED
      BY <3>1, <3>2
  <2>2. ASSUME NEW f \in Emails, emailIndex'[f] # NoId
        PROVE  /\ emailIndex'[f] \in Ids /\ accounts'[emailIndex'[f]].stored
               /\ accounts'[emailIndex'[f]].email = f
    <3>1. CASE f = e
      BY <1>4, <3>1
    <3>2. CASE f # e
      <4>1. emailIndex'[f] = emailIndex[f]
        BY <1>4, <3>2
      <4>2. emailIndex[f] \in Stored /\ accounts[emailIndex[f]].email = f
        BY <2>2, <4>1 DEF OneAccountPerEmail
      <4> QED
        BY <1>3, <1>4, <4>1, <4>2 DEF Stored
    <3> QED
      BY <3>1, <3>2
  <2> QED
    BY <2>1, <2>2 DEF OneAccountPerEmail, Stored
<1>9. ASSUME NEW j \in Ids PROVE BalanceOK(j)'
  BY <1>3, <1>4, ConstantsAssumption DEF BalanceOK
<1>10. ASSUME NEW q \in Procs PROVE BarredOK(q)'
  <2>1. CASE q = p
    BY <1>5, <2>1 DEF BarredOK
  <2>2. CASE q # p
    <3>1. pc[q] = "idle" => q \notin barred
      BY DEF ReqOK
    <3>2. pc[q] # "idle" => accounts'[req[q].id] = accounts[req[q].id]
      BY <1>1, <1>4, <2>2 DEF ReqOK
    <3> QED
      BY <1>5, <2>2, <3>1, <3>2 DEF BarredOK, Blocked
  <2> QED
    BY <2>1, <2>2
<1> QED
  BY <1>6, <1>7, <1>8, <1>9, <1>10

LEMMA BeginOpIInv ==
  ASSUME IInv, NEW p \in Procs, NEW op \in StatusOps \cup MoneyOps, NEW i \in Ids, NEW n \in Int,
         op \in MoneyOps => n <= MaxInt, BeginOp(p, op, i, n)
  PROVE  IInv'
<1> USE DEF BeginOp, IInv, Goto
<1>1. /\ pc[p] = "idle" /\ p \notin barred
      /\ pc'[p] = "check" /\ accounts[i].stored
      /\ req'[p] = [op |-> op, id |-> i, email |-> AnyEmail, amount |-> n]
      /\ \A q \in Procs : q # p => /\ pc'[q] = pc[q] /\ req'[q] = req[q]
                                   /\ q \in barred' <=> q \in barred
      /\ p \in barred' => Blocked(i)
  BY DEF TypeOK, ReqOK, Stored
<1>2. TypeOK'
  <2>1. [op |-> op, id |-> i, email |-> AnyEmail, amount |-> n]
          \in [op : Ops, id : Ids \cup {NoId}, email : Emails, amount : Int]
    BY EmailType DEF Ops
  <2>2. pc' \in [Procs -> PCs]
    BY DEF TypeOK, PCs
  <2>3. req' \in [Procs -> [op : Ops, id : Ids \cup {NoId}, email : Emails, amount : Int]]
    BY <2>1 DEF TypeOK
  <2> QED
    BY <2>2, <2>3 DEF TypeOK
<1>3. ASSUME NEW q \in Procs PROVE ReqOK(q)'
  <2>1. CASE q = p
    BY <1>1, <2>1 DEF ReqOK
  <2>2. CASE q # p
    <3>1. ReqOK(q) /\ pc'[q] = pc[q] /\ req'[q] = req[q] /\ (q \in barred' => q \in barred)
      BY <1>1, <2>2
    <3>2. pc[q] = "create" => req[q].id # i
      BY <1>1 DEF ReqOK
    <3>3. pc[q] = "create" => \A r \in Procs : r # q => req'[r].id # req[q].id
      BY <1>1, <3>1, <3>2 DEF ReqOK
    <3> QED
      BY <3>1, <3>3 DEF ReqOK
  <2> QED
    BY <2>1, <2>2
<1>4. OneAccountPerEmail'
  BY DEF OneAccountPerEmail, Stored
<1>5. ASSUME NEW j \in Ids PROVE BalanceOK(j)'
  BY DEF BalanceOK
<1>6. ASSUME NEW q \in Procs PROVE BarredOK(q)'
  <2>1. CASE q = p
    BY <1>1, <2>1 DEF BarredOK, Blocked
  <2>2. CASE q # p
    BY <1>1, <2>2 DEF BarredOK, Blocked
  <2> QED
    BY <2>1, <2>2
<1> QED
  BY <1>2, <1>3, <1>4, <1>5, <1>6

(* A check that lets its call go on.                                       *)
LEMMA PassIInv ==
  ASSUME IInv, NEW p \in Procs, NEW from \in {"check", "funds"},
         NEW to \in {"write", "funds", "apply"}, Goto(p, from, to),
         to \in {"funds", "apply"} => req[p].op \in MoneyOps,
         req[p].op \in MoneyOps => p \notin barred,
         UNCHANGED <<accounts, emailIndex, req, moved, barred>>
  PROVE  IInv'
<1> USE DEF IInv
<1>1. /\ pc[p] = from /\ pc'[p] = to
      /\ \A q \in Procs : q # p => pc'[q] = pc[q]
      /\ pc' \in [Procs -> PCs]
  BY DEF Goto, TypeOK, PCs
<1>2. TypeOK'
  BY <1>1 DEF TypeOK
<1>3. Keeps(p) /\ ReqOK(p)'
  BY <1>1 DEF Keeps, ReqOK
<1>4. (\A q \in Procs : ReqOK(q)') /\ OneAccountPerEmail'
  BY <1>3, KeepsReqs
<1>5. \A j \in Ids : BalanceOK(j)'
  BY DEF BalanceOK
<1>6. \A q \in Procs : BarredOK(q)'
  BY <1>1 DEF BarredOK, Blocked
<1> QED
  BY <1>2, <1>4, <1>5, <1>6

LEMMA CheckStatusIInv ==
  ASSUME IInv, NEW p \in Procs, CheckStatus(p)
  PROVE  IInv'
<1>1. pc[p] = "check" /\ ReqOK(p) /\ BarredOK(p)
  BY DEF CheckStatus, IInv
<1>2. CASE Permits(req[p].op, accounts[req[p].id].status)
  <2> DEFINE to == AfterCheck(req[p].op)
  <2>1. to \in {"write", "funds", "apply"}
    BY DEF AfterCheck
  <2>2. Goto(p, "check", to) /\ UNCHANGED <<accounts, emailIndex, req, moved, barred>>
    BY <1>2 DEF CheckStatus
  <2>3. req[p].op \in MoneyOps => p \notin barred
    BY <1>1, <1>2 DEF Permits, BarredOK, Blocked
  <2>4. to \in {"funds", "apply"} => req[p].op \in MoneyOps
    BY <1>1 DEF AfterCheck, ReqOK
  <2> HIDE DEF to
  <2> QED
    BY <2>1, <2>2, <2>3, <2>4, PassIInv
<1>3. CASE ~Permits(req[p].op, accounts[req[p].id].status)
  BY <1>1, <1>3, EndIInv DEF CheckStatus
<1> QED
  BY <1>2, <1>3

LEMMA CheckFundsIInv ==
  ASSUME IInv, NEW p \in Procs, CheckFunds(p)
  PROVE  IInv'
<1>1. pc[p] = "funds" /\ ReqOK(p) /\ BarredOK(p)
  BY DEF CheckFunds, IInv
<1>2. CASE accounts[req[p].id].balance >= req[p].amount
  <2>1. Goto(p, "funds", "apply") /\ UNCHANGED <<accounts, emailIndex, req, moved, barred>>
    BY <1>2 DEF CheckFunds
  <2>2. req[p].op \in MoneyOps /\ p \notin barred
    BY <1>1 DEF ReqOK, BarredOK
  <2> QED
    BY <2>1, <2>2, PassIInv
<1>3. CASE ~(accounts[req[p].id].balance >= req[p].amount)
  BY <1>1, <1>3, EndIInv DEF CheckFunds
<1> QED
  BY <1>2, <1>3

LEMMA WriteStatusIInv ==
  ASSUME IInv, NEW p \in Procs, WriteStatus(p)
  PROVE  IInv'
<1> DEFINE target == Target(req[p].op)
<1> USE DEF IInv
<1>1. /\ pc[p] = "write" /\ pc'[p] = "update" /\ req' = req /\ moved' = moved
      /\ emailIndex' = emailIndex
      /\ \A q \in Procs : q # p => pc'[q] = pc[q]
      /\ pc' \in [Procs -> PCs]
  BY DEF WriteStatus, Goto, TypeOK, PCs
<1>2. PICK i \in Ids : i = req[p].id
  BY <1>1 DEF ReqOK
<1>3. /\ accounts'[i].status = target
      /\ \A j \in Ids : /\ j # i => accounts'[j] = accounts[j]
                        /\ accounts'[j].stored = accounts[j].stored
                        /\ accounts'[j].email = accounts[j].email
                        /\ accounts'[j].balance = accounts[j].balance
  BY <1>2 DEF WriteStatus, TypeOK
<1>4. /\ barred' \subseteq barred
      /\ target = "active" => \A q \in barred' : req[q].id # i
  BY <1>2 DEF WriteStatus
<1>5. TypeOK'
  <2>1. [accounts[i] EXCEPT !.status = target]
          \in [email : Emails, status : Statuses, balance : Int, stored : BOOLEAN]
    BY TargetType DEF TypeOK
  <2>2. accounts' = [accounts EXCEPT ![i] = [accounts[i] EXCEPT !.status = target]]
    BY <1>2 DEF WriteStatus
  <2>3. accounts' \in [Ids -> [email : Emails, status : Statuses, balance : Int,
                               stored : BOOLEAN]]
    BY <2>1, <2>2 DEF TypeOK
  <2> QED
    BY <1>1, <1>4, <2>3 DEF TypeOK
<1>6. Keeps(p) /\ ReqOK(p)'
  BY <1>1, <1>2, <1>3, <1>4 DEF Keeps, ReqOK
<1>7. (\A q \in Procs : ReqOK(q)') /\ OneAccountPerEmail'
  BY <1>1, <1>6, KeepsReqs
<1>8. \A j \in Ids : BalanceOK(j)'
  BY <1>1, <1>3 DEF BalanceOK
<1>9. ASSUME NEW q \in Procs PROVE BarredOK(q)'
  <2> SUFFICES ASSUME q \in barred' PROVE BarredOK(q)'
    BY DEF BarredOK
  <2>1. /\ q \in barred /\ Blocked(req[q].id)
        /\ req[q].op \in MoneyOps => pc[q] = "check"
    BY <1>4 DEF BarredOK
  <2>2. req[q].id \in Ids
    BY <2>1 DEF ReqOK
  <2>3. Blocked(req[q].id)'
    <3>1. CASE req[q].id = i
      BY <1>1, <1>3, <1>4, <3>1 DEF Blocked, Target
    <3>2. CASE req[q].id # i
      BY <1>1, <1>3, <2>1, <2>2, <3>2 DEF Blocked
    <3> QED
      BY <3>1, <3>2
  <2> QED
    BY <1>1, <2>1, <2>3 DEF BarredOK
<1> QED
  BY <1>5, <1>7, <1>8, <1>9

LEMMA ApplyIInv ==
  ASSUME IInv, NEW p \in Procs, Apply(p)
  PROVE  IInv'
<1> USE DEF IInv
<1>1. /\ pc[p] = "apply" /\ Return(p) /\ emailIndex' = emailIndex
  BY DEF Apply
<1>2. PICK i \in Ids : i = req[p].id /\ accounts[i].stored
  BY <1>1 DEF ReqOK
<1> DEFINE b == accounts[i].balance
           sum == Wrap(b + Delta(p))
<1>3. CASE ~Accepts(sum)
  BY <1>1, <1>2, <1>3, EndIInv DEF Apply
<1>4. CASE Accepts(sum)
  <2>1. Delta(p) \in Int /\ Delta(p) <= MaxInt /\ -MaxInt <= Delta(p)
    BY <1>1, ConstantsAssumption DEF ReqOK, Delta, TypeOK
  <2>2. b \in Int /\ 0 <= b /\ b <= MaxInt /\ b = moved[i] /\ moved[i] \in Int
    BY DEF BalanceOK, TypeOK
  <2>3. sum = b + Delta(p) /\ 0 <= sum /\ sum <= MaxInt /\ sum \in Int
    <3>1. sum >= 0
      BY <1>4 DEF Accepts
    <3>2. sum = b + Delta(p) /\ b + Delta(p) <= MaxInt /\ 0 <= b + Delta(p)
      <4> DEFINE d == Delta(p)
      <4> HIDE DEF d, b
      <4> QED
        BY <2>1, <2>2, <3>1, WrapExact DEF d
    <3> QED
      BY <2>1, <2>2, <3>2
  <2> HIDE DEF sum
  <2>4. /\ accounts' = [accounts EXCEPT ![i].balance = sum]
        /\ moved' = [moved EXCEPT ![i] = moved[i] + Delta(p)]
    BY <1>2, <1>4 DEF Apply, sum
  <2>5. /\ accounts'[i].balance = sum /\ accounts'[i].stored
        /\ \A j \in Ids : /\ j # i => accounts'[j] = accounts[j]
                          /\ accounts'[j].stored = accounts[j].stored
                          /\ accounts'[j].email = accounts[j].email
                          /\ accounts'[j].status = accounts[j].status
    BY <1>2, <2>4 DEF TypeOK
  <2>6. /\ pc'[p] = "idle" /\ req'[p] = NoReq /\ p \notin barred'
        /\ \A q \in Procs : q # p => /\ pc'[q] = pc[q] /\ req'[q] = req[q]
                                     /\ q \in barred' <=> q \in barred
    BY <1>1, ReturnTypes
  <2>7. TypeOK'
    <3>1. [accounts[i] EXCEPT !.balance = sum]
            \in [email : Emails, status : Statuses, balance : Int, stored : BOOLEAN]
      BY <2>3 DEF TypeOK
    <3>2. accounts' \in [Ids -> [email : Emails, status : Statuses, balance : Int,
                                 stored : BOOLEAN]]
      BY <2>4, <3>1 DEF TypeOK
    <3>3. moved' \in [Ids -> Int]
      BY <2>1, <2>2, <2>4 DEF TypeOK
    <3> QED
      BY <1>1, <3>2, <3>3, ReturnTypes DEF TypeOK
  <2>8. NoReq.op \notin MoneyOps /\ NoReq.id = NoId
    BY DEF NoReq, MoneyOps
  <2>9. Keeps(p) /\ ReqOK(p)'
    BY <1>1, <2>5, <2>6, <2>8 DEF Keeps, ReqOK
  <2>10. (\A q \in Procs : ReqOK(q)') /\ OneAccountPerEmail'
    BY <2>6, <2>8, <2>9, KeepsReqs
  <2>11. ASSUME NEW j \in Ids PROVE BalanceOK(j)'
    <3>1. CASE j = i
      <4>1. moved'[i] = sum
        BY <2>2, <2>3, <2>4 DEF TypeOK
      <4> QED
        BY <2>3, <2>5, <3>1, <4>1 DEF BalanceOK
    <3>2. CASE j # i
      BY <2>4, <2>5, <3>2 DEF BalanceOK, TypeOK
    <3> QED
      BY <3>1, <3>2
  <2>12. ASSUME NEW q \in Procs PROVE BarredOK(q)'
    <3> SUFFICES ASSUME q \in barred' PROVE BarredOK(q)'
      BY DEF BarredOK
    <3>1. q # p /\ q \in barred /\ req'[q] = req[q] /\ pc'[q] = pc[q]
      BY <2>6
    <3>2. req[q].id \in Ids
      BY <3>1 DEF ReqOK
    <3> QED
      BY <2>5, <3>1, <3>2 DEF BarredOK, Blocked
  <2> QED
    BY <2>7, <2>10, <2>11, <2>12
<1> QED
  BY <1>3, <1>4

LEMMA NextIInv == IInv /\ [Next]_vars => IInv'
<1> SUFFICES ASSUME IInv, [Next]_vars PROVE IInv'
  OBVIOUS
<1>1. ASSUME NEW p \in Procs, Create(p) PROVE IInv'
  <2>1. CASE RejectEmail(p)
    BY <2>1, EndIInv DEF RejectEmail
  <2> QED
    BY <1>1, <2>1, BeginCreateIInv, StoreCreatedIInv DEF Create
<1>2. ASSUME NEW p \in Procs, ChangeStatus(p) PROVE IInv'
  <2>1. ASSUME NEW op \in StatusOps, NEW i \in Ids, BeginOp(p, op, i, 0) PROVE IInv'
    BY <2>1, ConstantsAssumption, BeginOpIInv
  <2>2. CASE Update(p)
    BY <2>2, EndIInv DEF Update
  <2> QED
    BY <1>2, <2>1, <2>2, WriteStatusIInv DEF ChangeStatus
<1>3. ASSUME NEW p \in Procs, MoveMoney(p) PROVE IInv'
  <2>1. ASSUME NEW op \in MoneyOps, NEW i \in Ids, NEW n \in Amounts, BeginOp(p, op, i, n)
        PROVE  IInv'
    BY <2>1, ConstantsAssumption, BeginOpIInv
  <2> QED
    BY <1>3, <2>1, CheckFundsIInv, ApplyIInv DEF MoveMoney
<1>4. CASE UNCHANGED vars
  BY <1>4 DEF vars, IInv, TypeOK, ReqOK, OneAccountPerEmail, Stored, BalanceOK, BarredOK, Blocked
<1> QED
  BY <1>1, <1>2, <1>3, <1>4, CheckStatusIInv DEF Next

-----------------------------------------------------------------------------

(* The inductive invariant holds throughout.                               *)
THEOREM Invariance == Spec => []IInv
BY InitIInv, NextIInv, PTL DEF Spec

(* The service's maps and the calls' locals keep their types.              *)
THEOREM TypeCorrect == Spec => []TypeOK
BY Invariance, PTL DEF IInv

(* However GetByEmail, generateID and repo.Create of concurrent creations  *)
(* interleave, an address has at most one account, found by the index.     *)
THEOREM OnePerEmail == Spec => []OneAccountPerEmail
BY Invariance, PTL DEF IInv

(* For any amounts and any width of int64, a balance is what the calls     *)
(* that succeeded moved, and never negative, although credits and debits   *)
(* check it with no lock held.                                             *)
THEOREM BalancesExact == Spec => []BalanceExact
<1>1. IInv => BalanceExact
  BY DEF IInv, BalanceOK, BalanceExact
<1> QED
  BY <1>1, Invariance, PTL

(* A credit or debit whose account has been frozen or closed ever since it *)
(* looked it up moves nothing.                                             *)
THEOREM BarredStopped == Spec => []BarredMovesNothing
BY IInvBarred, Invariance, PTL
==============================================================================
