-------------------------- MODULE TransactionProofs --------------------------
(***************************************************************************)
(* Proofs about module Transaction: what holds however the goroutines      *)
(* interleave (types, one charge per idempotency key), and what holds when *)
(* the calls on one transaction are serialised: refunds whose sum fits an  *)
(* int64 stay within the amount, status and books agree, final statuses are*)
(* final, and the service implements the atomic life cycle of              *)
(* PaymentLifecycle.                                                       *)
(***************************************************************************)
EXTENDS Transaction, TLAPS

-----------------------------------------------------------------------------
(* The inductive invariant behind both results.                            *)

Creating(p) == pc[p] \in {"create", "relookup"}

(* What a goroutine knows about the transaction it works on: one that is   *)
(* being created is nobody else's and not stored yet, any other is stored. *)
ReqOK(p) ==
  /\ pc[p] = "idle" => req[p] = NoReq
  /\ pc[p] # "idle" => req[p].tx \in Txs
  /\ Creating(p) => /\ ~transactions[req[p].tx].stored
                    /\ req[p].amount > 0
                    /\ \A q \in Procs : q # p => req[q].tx # req[p].tx
  /\ pc[p] = "relookup" => Indexed(req[p].key)
  /\ pc[p] # "idle" /\ ~Creating(p) => transactions[req[p].tx].stored

IInv == TypeOK /\ (\A p \in Procs : ReqOK(p)) /\ OneChargePerKey

(* int64 arithmetic yields integers.                                       *)
LEMMA WrapType == ASSUME NEW n \in Int PROVE Wrap(n) \in Int
  BY ConstantsAssumption DEF Wrap

LEMMA TargetType == ASSUME NEW op PROVE Target(op) \in Statuses
  BY DEF Target, Statuses

LEMMA InitIInv == Init => IInv
<1> SUFFICES ASSUME Init PROVE IInv
  OBVIOUS
<1> USE ConstantsAssumption DEF Init
<1>1. TypeOK
  BY DEF TypeOK, Absent, NoReq, Word, Statuses, PCs, Ops, StatusOps
<1>2. ASSUME NEW p \in Procs PROVE ReqOK(p)
  BY DEF ReqOK, Creating, NoReq
<1>3. OneChargePerKey
  BY DEF OneChargePerKey, Absent
<1> QED
  BY <1>1, <1>2, <1>3 DEF IInv

-----------------------------------------------------------------------------
(* Every step keeps it.  First the steps of CreateTransaction ...          *)

LEMMA ReplayCreateIInv ==
  ASSUME IInv, NEW p \in Procs, NEW k \in Keys \cup {NoKey}, NEW a \in Amounts,
         ReplayCreate(p, k, a)
  PROVE  IInv'
<1> USE DEF ReplayCreate, IInv
<1>1. TypeOK'
  BY DEF TypeOK, Answer, Indexed
<1>2. (\A q \in Procs : ReqOK(q))'
  BY DEF ReqOK, Creating, Indexed
<1>3. OneChargePerKey'
  BY DEF OneChargePerKey, Answer, Indexed, TypeOK
<1> QED
  BY <1>1, <1>2, <1>3

LEMMA BeginCreateIInv ==
  ASSUME IInv, NEW p \in Procs, NEW k \in Keys \cup {NoKey}, NEW a \in Amounts,
         NEW t \in Txs, BeginCreate(p, k, a, t)
  PROVE  IInv'
<1> USE ConstantsAssumption DEF BeginCreate, IInv, Goto
<1>1. TypeOK'
  BY DEF TypeOK, PCs, Ops
<1>2. ASSUME NEW q \in Procs PROVE ReqOK(q)'
  <2>1. CASE q = p
    BY <2>1 DEF ReqOK, Creating, Fresh, Stored, TypeOK, ValidCreateRequest
  <2>2. CASE q # p
    BY <2>2 DEF ReqOK, Creating, Fresh, Indexed, TypeOK
  <2> QED
    BY <2>1, <2>2
<1>3. OneChargePerKey'
  BY DEF OneChargePerKey
<1> QED
  BY <1>1, <1>2, <1>3

LEMMA RejectDuplicateIInv ==
  ASSUME IInv, NEW p \in Procs, RejectDuplicate(p)
  PROVE  IInv'
<1> USE DEF RejectDuplicate, IInv, Goto
<1>1. TypeOK'
  BY DEF TypeOK, PCs
<1>2. (\A q \in Procs : ReqOK(q))'
  BY DEF ReqOK, Creating, Indexed, TypeOK
<1>3. OneChargePerKey'
  BY DEF OneChargePerKey
<1> QED
  BY <1>1, <1>2, <1>3

LEMMA StoreCreatedIInv ==
  ASSUME IInv, NEW p \in Procs, StoreCreated(p)
  PROVE  IInv'
<1> USE ConstantsAssumption DEF StoreCreated, IInv, Return
<1> DEFINE r == req[p]
<1>1. /\ r.tx \in Txs /\ ~transactions[r.tx].stored
      /\ r.key \in Keys \cup {NoKey} /\ r.amount \in Int
  BY DEF ReqOK, Creating, TypeOK
<1>2. TypeOK'
  <2>1. Word("pending") \in [ptr : Statuses, len : Statuses]
    BY DEF Word, Statuses
  <2>2. transactions' \in [Txs -> [key : Keys \cup {NoKey}, amount : Int,
                               status : [ptr : Statuses, len : Statuses],
                               refunded : Int, stored : BOOLEAN]]
    BY <1>1, <2>1 DEF TypeOK
  <2>3. idempotencyKeys' \in [Keys -> Txs \cup {NoTx}]
    BY <1>1 DEF TypeOK
  <2>4. pc' \in [Procs -> PCs]
    BY DEF TypeOK, PCs
  <2>5. req' \in [Procs -> [op : Ops, tx : Txs \cup {NoTx}, key : Keys \cup {NoKey},
                        amount : Int, seen : Int]]
    BY DEF TypeOK, NoReq, Ops
  <2>6. answers' \subseteq (Keys \X Txs) /\ given' \in [Txs -> Int]
    BY <1>1 DEF TypeOK, Answer
  <2> QED
    BY <2>2, <2>3, <2>4, <2>5, <2>6 DEF TypeOK
<1>3. ASSUME NEW q \in Procs PROVE ReqOK(q)'
  <2>1. CASE q = p
    BY <2>1 DEF ReqOK, Creating, TypeOK, NoReq
  <2>2. CASE q # p
    <3>1. req'[q] = req[q] /\ pc'[q] = pc[q] /\ req[q].tx # r.tx
      BY <2>2 DEF TypeOK, ReqOK, Creating
    <3>2. transactions'[req[q].tx] = transactions[req[q].tx] \/ pc[q] = "idle"
      BY <3>1 DEF TypeOK, ReqOK
    <3>3. Creating(q) => \A u \in Procs : u # q => req'[u].tx # req[q].tx
      BY <3>1 DEF TypeOK, ReqOK, NoReq
    <3>4. pc[q] = "relookup" => Indexed(req[q].key)'
      BY <1>1, <3>1 DEF TypeOK, ReqOK, Indexed
    <3> QED
      BY <3>1, <3>2, <3>3, <3>4 DEF ReqOK, Creating
  <2> QED
    BY <2>1, <2>2
<1>4. OneChargePerKey'
  <2>1. \A t \in Txs : t # r.tx => transactions'[t] = transactions[t]
    BY DEF TypeOK
  <2>2. transactions'[r.tx].stored /\ transactions'[r.tx].key = r.key
    BY <1>1 DEF TypeOK
  <2>3. \A k \in Keys : idempotencyKeys'[k] = IF k = r.key THEN r.tx ELSE idempotencyKeys[k]
    OBVIOUS
  <2>4. r.key \in Keys => idempotencyKeys[r.key] = NoTx
    BY DEF Indexed
  <2>5. (\A k \in Keys, t \in Txs :
           transactions[t].stored /\ transactions[t].key = k => idempotencyKeys[k] = t)'
    BY <2>1, <2>2, <2>3, <2>4 DEF OneChargePerKey
  <2>6. (\A k \in Keys : idempotencyKeys[k] # NoTx =>
           transactions[idempotencyKeys[k]].stored /\ transactions[idempotencyKeys[k]].key = k)'
    BY <1>1, <2>1, <2>2, <2>3 DEF OneChargePerKey, TypeOK
  <2>7. (\A x \in answers : idempotencyKeys[x[1]] = x[2])'
    <3>1. \A x \in answers : idempotencyKeys'[x[1]] = x[2]
      BY <2>3, <2>4 DEF OneChargePerKey, TypeOK
    <3>2. answers' = answers \/ (r.key \in Keys /\ answers' = answers \cup {<<r.key, r.tx>>})
      BY <1>1 DEF Answer
    <3> QED
      BY <2>3, <3>1, <3>2
  <2> QED
    BY <2>5, <2>6, <2>7 DEF OneChargePerKey
<1> QED
  BY <1>2, <1>3, <1>4

LEMMA AnswerExistingIInv ==
  ASSUME IInv, NEW p \in Procs, AnswerExisting(p)
  PROVE  IInv'
<1> USE ConstantsAssumption DEF AnswerExisting, IInv, Return
<1> DEFINE k == req[p].key
<1>1. k \in Keys /\ idempotencyKeys[k] \in Txs
  BY DEF ReqOK, Indexed, TypeOK
<1>2. answers' = answers \cup {<<k, idempotencyKeys[k]>>}
  BY <1>1 DEF Answer
<1>3. TypeOK'
  BY <1>1, <1>2 DEF TypeOK, PCs, NoReq, Ops
<1>4. (\A q \in Procs : ReqOK(q))'
  BY DEF ReqOK, Creating, Indexed, TypeOK, NoReq
<1>5. OneChargePerKey'
  BY <1>2 DEF OneChargePerKey
<1> QED
  BY <1>3, <1>4, <1>5

-----------------------------------------------------------------------------
(* ... then the steps of the operations on a stored transaction, none of   *)
(* which touches keys, or stores or drops a transaction.                   *)

LEMMA BeginOpIInv ==
  ASSUME IInv, NEW p \in Procs, NEW op \in Ops, NEW t \in Txs, NEW a \in Int,
         BeginOp(p, op, t, a)
  PROVE  IInv'
<1> USE ConstantsAssumption DEF BeginOp, IInv, Goto
<1>1. TypeOK'
  BY DEF TypeOK, PCs
<1>2. ASSUME NEW q \in Procs PROVE ReqOK(q)'
  <2>1. CASE q = p
    BY <2>1 DEF ReqOK, Creating, Stored, TypeOK
  <2>2. CASE q # p
    BY <2>2 DEF ReqOK, Creating, Stored, Indexed, TypeOK
  <2> QED
    BY <2>1, <2>2
<1>3. OneChargePerKey'
  BY DEF OneChargePerKey
<1> QED
  BY <1>1, <1>2, <1>3

(* Storing a local leaves the requests well typed.                         *)
LEMMA SeenType ==
  ASSUME TypeOK, NEW p \in Procs, NEW n \in Int
  PROVE  [req EXCEPT ![p].seen = n]
           \in [Procs -> [op : Ops, tx : Txs \cup {NoTx}, key : Keys \cup {NoKey},
                          amount : Int, seen : Int]]
<1> DEFINE R == [op : Ops, tx : Txs \cup {NoTx}, key : Keys \cup {NoKey},
                 amount : Int, seen : Int]
<1>1. req \in [Procs -> R]
  BY DEF TypeOK
<1>2. [req[p] EXCEPT !.seen = n] \in R
  BY <1>1
<1> HIDE DEF R
<1>3. [req EXCEPT ![p] = [req[p] EXCEPT !.seen = n]] \in [Procs -> R]
  BY <1>1, <1>2
<1> QED
  BY <1>3 DEF R

(* A step that moves p on inside its operation, or ends it, and changes no *)
(* key and at most the status and the refunded amount of a transaction.    *)
Inner(p) ==
  /\ pc[p] # "idle" /\ ~Creating(p)
  /\ \/ /\ \E s \in PCs \ {"idle", "create", "relookup"} : pc' = [pc EXCEPT ![p] = s]
        /\ \E n \in Int : req' = [req EXCEPT ![p].seen = n]
     \/ Return(p)
  /\ \A t \in Txs : /\ transactions'[t].stored = transactions[t].stored
                    /\ transactions'[t].key = transactions[t].key
                    /\ transactions'[t].amount = transactions[t].amount
  /\ UNCHANGED <<idempotencyKeys, answers>>

LEMMA InnerIInv ==
  ASSUME IInv, NEW p \in Procs, Inner(p),
         transactions' \in [Txs -> [key : Keys \cup {NoKey}, amount : Int,
                                    status : [ptr : Statuses, len : Statuses],
                                    refunded : Int, stored : BOOLEAN]],
         given' \in [Txs -> Int]
  PROVE  IInv'
<1> USE ConstantsAssumption DEF Inner, IInv
<1>1. TypeOK'
  <2>1. pc' \in [Procs -> PCs]
    BY DEF TypeOK, PCs, Return
  <2>2. req' \in [Procs -> [op : Ops, tx : Txs \cup {NoTx}, key : Keys \cup {NoKey},
                        amount : Int, seen : Int]]
    <3>1. CASE Return(p)
      BY <3>1 DEF TypeOK, NoReq, Ops, Return
    <3>2. CASE ~Return(p)
      <4>1. PICK n \in Int : req' = [req EXCEPT ![p].seen = n]
        BY <3>2
      <4> QED
        BY <4>1, SeenType
    <3> QED
      BY <3>1, <3>2
  <2> QED
    BY <2>1, <2>2 DEF TypeOK
<1>2. ASSUME NEW q \in Procs PROVE ReqOK(q)'
  <2>1. CASE Return(p)
    BY <2>1 DEF Return, ReqOK, Creating, Indexed, TypeOK, NoReq
  <2>2. CASE ~Return(p)
    <3>1. PICK s \in PCs \ {"idle", "create", "relookup"} : pc' = [pc EXCEPT ![p] = s]
      BY <2>2
    <3>2. PICK n \in Int : req' = [req EXCEPT ![p].seen = n]
      BY <2>2
    <3>3. \A u \in Procs : /\ req'[u].tx = req[u].tx /\ req'[u].key = req[u].key
                           /\ req'[u].amount = req[u].amount
                           /\ u # p => req'[u] = req[u]
      BY <3>2 DEF TypeOK
    <3>4. CASE q = p
      BY <3>1, <3>3, <3>4 DEF ReqOK, Creating, TypeOK
    <3>5. CASE q # p
      BY <3>1, <3>3, <3>5 DEF ReqOK, Creating, TypeOK, Indexed
    <3> QED
      BY <3>4, <3>5
  <2> QED
    BY <2>1, <2>2
<1>3. OneChargePerKey'
  BY DEF OneChargePerKey, TypeOK
<1> QED
  BY <1>1, <1>2, <1>3

LEMMA CheckStatusInner ==
  ASSUME IInv, NEW p \in Procs, CheckStatus(p)
  PROVE  Inner(p)
<1>1. pc[p] # "idle" /\ ~Creating(p)
  BY DEF CheckStatus, Creating
<1>2. CASE Return(p)
  BY <1>1, <1>2 DEF Inner, CheckStatus
<1>3. CASE ~Return(p)
  <2>1. UNCHANGED req /\ (req' = [req EXCEPT ![p].seen = req[p].seen])
    BY <1>3 DEF CheckStatus, IInv, TypeOK
  <2>2. \E s \in PCs \ {"idle", "create", "relookup"} : pc' = [pc EXCEPT ![p] = s]
    BY <1>3 DEF CheckStatus, Goto, PCs
  <2>3. req[p].seen \in Int
    BY DEF IInv, TypeOK
  <2> QED
    BY <1>1, <2>1, <2>2, <2>3 DEF Inner, CheckStatus
<1> QED
  BY <1>2, <1>3

LEMMA CheckLimitInner ==
  ASSUME IInv, NEW p \in Procs, CheckLimit(p)
  PROVE  Inner(p)
<1>1. pc[p] # "idle" /\ ~Creating(p)
  BY DEF CheckLimit, Creating
<1>2. CASE Return(p)
  BY <1>1, <1>2 DEF Inner, CheckLimit
<1>3. CASE ~Return(p)
  <2>1. UNCHANGED req /\ (req' = [req EXCEPT ![p].seen = req[p].seen])
    BY <1>3 DEF CheckLimit, IInv, TypeOK
  <2>2. \E s \in PCs \ {"idle", "create", "relookup"} : pc' = [pc EXCEPT ![p] = s]
    BY <1>3 DEF CheckLimit, Goto, PCs
  <2>3. req[p].seen \in Int
    BY DEF IInv, TypeOK
  <2> QED
    BY <1>1, <2>1, <2>2, <2>3 DEF Inner, CheckLimit
<1> QED
  BY <1>2, <1>3

(* The step of an operation that neither ends it nor stores a local.       *)
LEMMA GotoInner ==
  ASSUME IInv, NEW p \in Procs, NEW from \in PCs \ {"idle", "create", "relookup"},
         NEW to \in PCs \ {"idle", "create", "relookup"},
         Goto(p, from, to), UNCHANGED <<idempotencyKeys, req, answers>>,
         \A t \in Txs : /\ transactions'[t].stored = transactions[t].stored
                        /\ transactions'[t].key = transactions[t].key
                        /\ transactions'[t].amount = transactions[t].amount
  PROVE  Inner(p)
<1>1. req' = [req EXCEPT ![p].seen = req[p].seen] /\ req[p].seen \in Int
  BY DEF IInv, TypeOK
<1> QED
  BY <1>1 DEF Inner, Goto, Creating, PCs

LEMMA RefundAmountType ==
  ASSUME IInv, NEW p \in Procs, pc[p] # "idle"
  PROVE  RefundAmount(p) \in Int
BY DEF IInv, TypeOK, ReqOK, RefundAmount

(* Storing a refunded amount, or a word of a status, in a transaction.      *)
LEMMA FieldTypes ==
  ASSUME TypeOK, NEW t \in Txs, NEW w \in Int, NEW s \in Statuses,
         \/ transactions' = [transactions EXCEPT ![t].refunded = w]
         \/ transactions' = [transactions EXCEPT ![t].status.ptr = s]
         \/ transactions' = [transactions EXCEPT ![t].status.len = s]
  PROVE  /\ transactions' \in [Txs -> [key : Keys \cup {NoKey}, amount : Int,
                                       status : [ptr : Statuses, len : Statuses],
                                       refunded : Int, stored : BOOLEAN]]
         /\ \A u \in Txs : /\ transactions'[u].stored = transactions[u].stored
                           /\ transactions'[u].key = transactions[u].key
                           /\ transactions'[u].amount = transactions[u].amount
<1> DEFINE W == [ptr : Statuses, len : Statuses]
           R == [key : Keys \cup {NoKey}, amount : Int, status : W,
                 refunded : Int, stored : BOOLEAN]
           tx == transactions[t]
<1>1. transactions \in [Txs -> R] /\ tx \in R
  BY DEF TypeOK
<1>2. PICK new \in R : /\ transactions' = [transactions EXCEPT ![t] = new]
                       /\ new.stored = tx.stored /\ new.key = tx.key /\ new.amount = tx.amount
  <2>1. CASE transactions' = [transactions EXCEPT ![t].refunded = w]
    <3>1. [tx EXCEPT !.refunded = w] \in R
      BY <1>1
    <3> QED
      BY <1>1, <2>1, <3>1
  <2>2. ASSUME NEW word \in W,
               transactions' = [transactions EXCEPT ![t] = [tx EXCEPT !.status = word]]
        PROVE  \E new \in R : /\ transactions' = [transactions EXCEPT ![t] = new]
                              /\ new.stored = tx.stored /\ new.key = tx.key
                              /\ new.amount = tx.amount
    <3>1. [tx EXCEPT !.status = word] \in R
      BY <1>1
    <3> QED
      BY <1>1, <2>2, <3>1
  <2>3. tx.status \in W
    BY <1>1
  <2>4. [tx.status EXCEPT !.ptr = s] \in W /\ [tx.status EXCEPT !.len = s] \in W
    BY <2>3
  <2> QED
    BY <2>1, <2>2, <2>4
<1> QED
  BY <1>1, <1>2

LEMMA ChangeStatusIInv ==
  ASSUME IInv, NEW p \in Procs, ChangeStatus(p)
  PROVE  IInv'
<1> USE ConstantsAssumption DEF IInv
<1> DEFINE T == [Txs -> [key : Keys \cup {NoKey}, amount : Int,
                         status : [ptr : Statuses, len : Statuses],
                         refunded : Int, stored : BOOLEAN]]
           Live == PCs \ {"idle", "create", "relookup"}
           Kept == \A t \in Txs : /\ transactions'[t].stored = transactions[t].stored
                                  /\ transactions'[t].key = transactions[t].key
                                  /\ transactions'[t].amount = transactions[t].amount
<1>1. ASSUME NEW op \in StatusOps, NEW t \in Txs, BeginOp(p, op, t, 0) PROVE IInv'
  BY <1>1, BeginOpIInv DEF Ops
<1>2. ASSUME NEW a \in RefundAmounts, NEW t \in Txs, BeginOp(p, "refund", t, a) PROVE IInv'
  BY <1>2, BeginOpIInv DEF Ops
<1>3. CASE CheckStatus(p)
  BY <1>3, CheckStatusInner, InnerIInv DEF CheckStatus, TypeOK
<1>4. CASE CheckLimit(p)
  BY <1>4, CheckLimitInner, InnerIInv DEF CheckLimit, TypeOK
<1>5. CASE LoadRefunded(p)
  <2>1. pc[p] = "load" /\ pc' = [pc EXCEPT ![p] = "add"] /\ req[p].tx \in Txs
    BY <1>5 DEF LoadRefunded, Goto, ReqOK
  <2>2. transactions[req[p].tx].refunded \in Int
    BY <2>1 DEF TypeOK
  <2>3. Inner(p)
    BY <1>5, <2>1, <2>2 DEF LoadRefunded, Inner, Creating, PCs
  <2> QED
    BY <1>5, <2>3, InnerIInv DEF LoadRefunded, TypeOK
<1>6. CASE StoreRefunded(p)
  <2>1. pc[p] = "add" /\ req[p].seen \in Int
    BY <1>6 DEF StoreRefunded, Goto, TypeOK
  <2>2. Wrap(req[p].seen + RefundAmount(p)) \in Int
    BY <2>1, RefundAmountType, WrapType
  <2>3. transactions' \in T /\ Kept
    <3>1. req[p].tx \in Txs /\ "completed" \in Statuses
      BY <2>1 DEF ReqOK, Statuses
    <3> QED
      BY <1>6, <2>2, <3>1, FieldTypes DEF StoreRefunded
  <2>4. Inner(p)
    BY <1>6, <2>3, GotoInner DEF StoreRefunded, PCs
  <2>5. given' \in [Txs -> Int]
    <3>1. req[p].tx \in Txs /\ RefundAmount(p) \in Int
      BY <2>1, RefundAmountType DEF ReqOK
    <3> QED
      BY <1>6, <3>1 DEF StoreRefunded, TypeOK, Int64
  <2> QED
    BY <2>3, <2>4, <2>5, InnerIInv
<1>7. CASE SettleRefund(p)
  <2>1. Inner(p)
    BY <1>7, GotoInner DEF SettleRefund, PCs
  <2> QED
    BY <1>7, <2>1, InnerIInv DEF SettleRefund, TypeOK
<1>8. CASE WritePtr(p)
  <2>1. transactions' \in T /\ Kept
    <3>1. req[p].tx \in Txs /\ Target(req[p].op) \in Statuses /\ 0 \in Int
      BY <1>8, TargetType DEF WritePtr, Goto, ReqOK
    <3> QED
      BY <1>8, <3>1, FieldTypes DEF WritePtr
  <2>2. Inner(p)
    BY <1>8, <2>1, GotoInner DEF WritePtr, PCs
  <2> QED
    BY <1>8, <2>1, <2>2, InnerIInv DEF WritePtr, TypeOK
<1>9. CASE WriteLen(p)
  <2>1. transactions' \in T /\ Kept
    <3>1. req[p].tx \in Txs /\ Target(req[p].op) \in Statuses /\ 0 \in Int
      BY <1>9, TargetType DEF WriteLen, Goto, ReqOK
    <3> QED
      BY <1>9, <3>1, FieldTypes DEF WriteLen
  <2>2. Inner(p)
    BY <1>9, <2>1, GotoInner DEF WriteLen, PCs
  <2> QED
    BY <1>9, <2>1, <2>2, InnerIInv DEF WriteLen, TypeOK
<1>10. CASE Update(p)
  <2>1. Inner(p)
    BY <1>10 DEF Update, Inner, Creating
  <2> QED
    BY <1>10, <2>1, InnerIInv DEF Update, TypeOK
<1> QED
  BY <1>1, <1>2, <1>3, <1>4, <1>5, <1>6, <1>7, <1>8, <1>9, <1>10 DEF ChangeStatus

LEMMA NextIInv == IInv /\ [Next]_vars => IInv'
<1> SUFFICES ASSUME IInv, [Next]_vars PROVE IInv'
  OBVIOUS
<1>1. ASSUME NEW p \in Procs, Create(p) PROVE IInv'
  BY <1>1, ReplayCreateIInv, BeginCreateIInv, RejectDuplicateIInv, StoreCreatedIInv,
     AnswerExistingIInv DEF Create
<1>2. ASSUME NEW p \in Procs, ChangeStatus(p) PROVE IInv'
  BY <1>2, ChangeStatusIInv
<1>3. CASE UNCHANGED vars
  BY <1>3 DEF vars, IInv, TypeOK, ReqOK, Creating, Indexed, OneChargePerKey
<1> QED
  BY <1>1, <1>2, <1>3 DEF Next

(* The invariant of the idempotent creations holds throughout.             *)
THEOREM Invariance == Spec => []IInv
BY InitIInv, NextIInv, PTL DEF Spec

(* However the requests interleave, the service's maps, statuses and       *)
(* goroutine locals keep their types.                                      *)
THEOREM TypeCorrect == Spec => []TypeOK
BY Invariance, PTL DEF IInv

(* Whatever the number of callers, keys and transactions, and however      *)
(* CreateTransaction's lookup, insertion and second lookup interleave, a   *)
(* key never has a second charge and every caller is told the same one.    *)
THEOREM Idempotency == Spec => []OneChargePerKey
BY Invariance, PTL DEF IInv

-----------------------------------------------------------------------------
(* Refunds, when the calls on one transaction are serialised.  The check   *)
(* and the addition are separate steps, so the invariant carries what the  *)
(* check established up to the store: the sum that was checked is the sum  *)
(* that will be stored.                                                    *)

(* The sum on the books, wrapped or not, is all that the check bounds.     *)
CounterWithin == \A t \in Txs : transactions[t].refunded <= transactions[t].amount

Admitted(p) ==
  LET tx == transactions[req[p].tx] IN
  /\ pc[p] \in {"load", "add"} => FitsIn(tx, RefundAmount(p))
  /\ pc[p] = "add" => req[p].seen = tx.refunded

SInv == IInv /\ Exclusive /\ CounterWithin /\ \A p \in Procs : Admitted(p)

LEMMA InitSInv == Init => SInv
<1> SUFFICES ASSUME Init PROVE SInv
  OBVIOUS
<1>1. IInv
  BY InitIInv
<1>2. Exclusive
  BY DEF Init, Exclusive, NoReq
<1>3. CounterWithin
  BY DEF Init, CounterWithin, Absent
<1>4. \A p \in Procs : Admitted(p)
  BY DEF Init, Admitted
<1> QED
  BY <1>1, <1>2, <1>3, <1>4 DEF SInv

(* Another goroutine's request, and its transaction, are out of p's reach. *)
LEMMA OthersKeep ==
  ASSUME SInv, NEW p \in Procs, NEW q \in Procs, q # p,
         req'[q] = req[q], pc'[q] = pc[q],
         \A t \in Txs : t # req[p].tx => transactions'[t] = transactions[t]
  PROVE  Admitted(q)'
<1>1. CASE pc[q] \in {"load", "add"}
  <2>1. req[q].tx \in Txs /\ req[q].tx # NoTx
    BY <1>1, ConstantsAssumption DEF SInv, IInv, ReqOK
  <2>2. req[q].tx # req[p].tx
    BY <2>1 DEF SInv, Exclusive
  <2> QED
    BY <2>1, <2>2 DEF SInv, Admitted, RefundAmount
<1>2. CASE pc[q] \notin {"load", "add"}
  BY <1>2 DEF Admitted
<1> QED
  BY <1>1, <1>2

LEMMA CreateSInv ==
  ASSUME SInv, NEW p \in Procs, Create(p)
  PROVE  CounterWithin' /\ \A q \in Procs : Admitted(q)'
<1>1. /\ \A q \in Procs : q # p => req'[q] = req[q] /\ pc'[q] = pc[q]
      /\ pc'[p] \notin {"load", "add"}
  <2> USE DEF SInv, IInv, TypeOK
  <2>1. ASSUME NEW k \in Keys \cup {NoKey}, NEW a \in Amounts, ReplayCreate(p, k, a)
        PROVE  <1>1!1 /\ <1>1!2
    BY <2>1 DEF ReplayCreate
  <2>2. ASSUME NEW k \in Keys \cup {NoKey}, NEW a \in Amounts, NEW t \in Txs,
               BeginCreate(p, k, a, t)
        PROVE  <1>1!1 /\ <1>1!2
    BY <2>2 DEF BeginCreate, Goto
  <2>3. CASE RejectDuplicate(p)
    BY <2>3 DEF RejectDuplicate, Goto
  <2>4. CASE StoreCreated(p)
    BY <2>4 DEF StoreCreated, Return
  <2>5. CASE AnswerExisting(p)
    BY <2>5 DEF AnswerExisting, Return
  <2> QED
    BY <2>1, <2>2, <2>3, <2>4, <2>5 DEF Create
<1>2. CASE StoreCreated(p)
  <2>1. req[p].tx \in Txs /\ req[p].amount > 0
    BY <1>2 DEF SInv, IInv, ReqOK, Creating, StoreCreated
  <2>2. \A t \in Txs : t # req[p].tx => transactions'[t] = transactions[t]
    BY <1>2 DEF StoreCreated, SInv, IInv, TypeOK
  <2>3. /\ transactions'[req[p].tx].refunded = 0
        /\ transactions'[req[p].tx].amount = req[p].amount
    BY <1>2, <2>1 DEF StoreCreated, SInv, IInv, TypeOK
  <2>4. req[p].amount \in Int
    BY DEF SInv, IInv, TypeOK
  <2>5. CounterWithin'
    BY <2>1, <2>2, <2>3, <2>4 DEF SInv, CounterWithin
  <2>6. \A q \in Procs : Admitted(q)'
    BY <1>1, <2>2, OthersKeep DEF Admitted
  <2> QED
    BY <2>5, <2>6
<1>3. CASE ~StoreCreated(p)
  <2>1. transactions' = transactions
    BY <1>3 DEF Create, ReplayCreate, BeginCreate, RejectDuplicate, AnswerExisting
  <2> QED
    BY <1>1, <2>1, OthersKeep DEF Admitted, SInv, CounterWithin
<1> QED
  BY <1>2, <1>3

(* A step of an operation that leaves amounts and refunds alone.           *)
LEMMA NoRefundSInv ==
  ASSUME SInv, NEW p \in Procs,
         \A q \in Procs : q # p => req'[q] = req[q] /\ pc'[q] = pc[q],
         \A t \in Txs : t # req[p].tx => transactions'[t] = transactions[t],
         \A t \in Txs : /\ transactions'[t].amount = transactions[t].amount
                        /\ transactions'[t].refunded = transactions[t].refunded,
         Admitted(p)'
  PROVE  CounterWithin' /\ \A q \in Procs : Admitted(q)'
BY OthersKeep DEF SInv, CounterWithin

LEMMA ChangeStatusSInv ==
  ASSUME SInv, NEW p \in Procs, ChangeStatus(p)
  PROVE  CounterWithin' /\ \A q \in Procs : Admitted(q)'
<1> DEFINE Goal == CounterWithin' /\ \A q \in Procs : Admitted(q)'
<1> USE DEF SInv, IInv, TypeOK
<1>1. ASSUME NEW op, NEW t \in Txs, NEW a, BeginOp(p, op, t, a) PROVE Goal
  BY <1>1, NoRefundSInv DEF BeginOp, Goto, Admitted
<1>2. CASE CheckStatus(p)
  BY <1>2, NoRefundSInv DEF CheckStatus, Goto, Return, Admitted
<1>3. CASE CheckLimit(p)
  <2>1. Admitted(p)'
    <3>1. CASE FitsIn(transactions[req[p].tx], RefundAmount(p))
      BY <1>3, <3>1 DEF CheckLimit, Goto, Admitted, RefundAmount
    <3>2. CASE ~FitsIn(transactions[req[p].tx], RefundAmount(p))
      BY <1>3, <3>2 DEF CheckLimit, Return, Admitted
    <3> QED
      BY <3>1, <3>2
  <2>2. \A q \in Procs : q # p => req'[q] = req[q] /\ pc'[q] = pc[q]
    BY <1>3 DEF CheckLimit, Goto, Return
  <2> QED
    BY <1>3, <2>1, <2>2, NoRefundSInv DEF CheckLimit
<1>4. CASE LoadRefunded(p)
  <2>1. Admitted(p)'
    BY <1>4 DEF LoadRefunded, Goto, Admitted, RefundAmount
  <2>2. \A q \in Procs : q # p => req'[q] = req[q] /\ pc'[q] = pc[q]
    BY <1>4 DEF LoadRefunded, Goto
  <2> QED
    BY <1>4, <2>1, <2>2, NoRefundSInv DEF LoadRefunded
<1>5. CASE StoreRefunded(p)
  <2> DEFINE t == req[p].tx
             sum == Wrap(req[p].seen + RefundAmount(p))
  <2>1. pc[p] = "add" /\ t \in Txs
    BY <1>5 DEF StoreRefunded, Goto, ReqOK
  <2>2. sum <= transactions[t].amount
    BY <2>1 DEF Admitted, FitsIn
  <2>3. /\ transactions'[t].refunded = sum
        /\ transactions'[t].amount = transactions[t].amount
        /\ \A u \in Txs : u # t => transactions'[u] = transactions[u]
    BY <1>5, <2>1 DEF StoreRefunded
  <2>4. CounterWithin'
    BY <2>2, <2>3 DEF CounterWithin
  <2>5. /\ \A q \in Procs : q # p => req'[q] = req[q] /\ pc'[q] = pc[q]
        /\ pc'[p] = "settle"
    BY <1>5 DEF StoreRefunded, Goto
  <2>6. \A q \in Procs : Admitted(q)'
    BY <2>3, <2>5, OthersKeep DEF Admitted
  <2> QED
    BY <2>4, <2>6
<1>6. CASE SettleRefund(p)
  BY <1>6, NoRefundSInv DEF SettleRefund, Goto, Admitted
<1>7. CASE WritePtr(p)
  <2>1. /\ \A q \in Procs : q # p => req'[q] = req[q] /\ pc'[q] = pc[q]
        /\ Admitted(p)'
    BY <1>7 DEF WritePtr, Goto, Admitted
  <2>2. \A t \in Txs : /\ t # req[p].tx => transactions'[t] = transactions[t]
                       /\ transactions'[t].amount = transactions[t].amount
                       /\ transactions'[t].refunded = transactions[t].refunded
    BY <1>7 DEF WritePtr
  <2> QED
    BY <2>1, <2>2, NoRefundSInv
<1>8. CASE WriteLen(p)
  <2>1. /\ \A q \in Procs : q # p => req'[q] = req[q] /\ pc'[q] = pc[q]
        /\ Admitted(p)'
    BY <1>8 DEF WriteLen, Goto, Admitted
  <2>2. \A t \in Txs : /\ t # req[p].tx => transactions'[t] = transactions[t]
                       /\ transactions'[t].amount = transactions[t].amount
                       /\ transactions'[t].refunded = transactions[t].refunded
    BY <1>8 DEF WriteLen
  <2> QED
    BY <2>1, <2>2, NoRefundSInv
<1>9. CASE Update(p)
  BY <1>9, NoRefundSInv DEF Update, Return, Admitted
<1> QED
  BY <1>1, <1>2, <1>3, <1>4, <1>5, <1>6, <1>7, <1>8, <1>9 DEF ChangeStatus

LEMMA NextSInv == SInv /\ [Next /\ Exclusive']_vars => SInv'
<1> SUFFICES ASSUME SInv, [Next /\ Exclusive']_vars PROVE SInv'
  OBVIOUS
<1>1. CASE Next /\ Exclusive'
  <2>1. IInv'
    BY <1>1, NextIInv DEF SInv
  <2>2. CounterWithin' /\ \A q \in Procs : Admitted(q)'
    BY <1>1, CreateSInv, ChangeStatusSInv DEF Next
  <2> QED
    BY <1>1, <2>1, <2>2 DEF SInv
<1>2. CASE UNCHANGED vars
  <2>1. IInv'
    BY <1>2, NextIInv DEF SInv
  <2>2. Exclusive' /\ CounterWithin' /\ \A q \in Procs : Admitted(q)'
    BY <1>2 DEF vars, SInv, Exclusive, CounterWithin, Admitted, RefundAmount
  <2> QED
    BY <2>1, <2>2 DEF SInv
<1> QED
  BY <1>1, <1>2

(* Numbers that fit an int64 are not wrapped.                              *)
LEMMA WrapId ==
  ASSUME NEW n \in Int64
  PROVE  Wrap(n) = n
<1> DEFINE K == 2 * MaxInt + 2
           y == n + MaxInt + 1
<1>1. K \in Nat /\ y \in 0 .. K - 1 /\ y - MaxInt - 1 = n
  BY ConstantsAssumption DEF Int64
<1>2. y % K = y
  <2> HIDE DEF K, y
  <2> QED BY <1>1, Z3
<1> QED
  BY <1>1, <1>2 DEF Wrap

(* What the books hold of the money given back.                            *)
Recorded(t) ==
  /\ given[t] \in Int64 => transactions[t].refunded = given[t]
  /\ ~transactions[t].stored => given[t] = 0

RInv == SInv /\ \A t \in Txs : Recorded(t)

LEMMA InitRInv == Init => RInv
<1> SUFFICES ASSUME Init PROVE RInv
  OBVIOUS
<1>1. \A t \in Txs : Recorded(t)
  BY DEF Init, Recorded, Absent
<1> QED
  BY <1>1, InitSInv DEF RInv

(* A refund adds to the books what it gives back.                          *)
LEMMA StoreRefundedRecorded ==
  ASSUME RInv, NEW p \in Procs, StoreRefunded(p)
  PROVE  \A t \in Txs : Recorded(t)'
<1> DEFINE a == RefundAmount(p)
<1>0. pc[p] = "add" /\ req[p].tx \in Txs
  BY DEF RInv, SInv, IInv, ReqOK, StoreRefunded, Goto
<1>  PICK t \in Txs : t = req[p].tx
  BY <1>0
<1>1. /\ pc[p] = "add" /\ transactions[t].stored
      /\ req[p].seen = transactions[t].refunded
  BY <1>0 DEF RInv, SInv, IInv, ReqOK, Creating, Admitted
<1>2. a \in Int /\ given[t] \in Int
  BY <1>1, RefundAmountType DEF RInv, SInv, IInv, TypeOK
<1>3. /\ transactions'[t].refunded = Wrap(transactions[t].refunded + a)
      /\ transactions'[t].stored
      /\ given'[t] = IF given[t] \in Int64 THEN given[t] + a ELSE given[t]
      /\ \A u \in Txs : u # t => transactions'[u] = transactions[u] /\ given'[u] = given[u]
  BY <1>1 DEF StoreRefunded, RInv, SInv, IInv, TypeOK
<1>4. ASSUME given'[t] \in Int64
      PROVE  transactions'[t].refunded = given'[t]
  <2>1. given[t] \in Int64 /\ given'[t] = given[t] + a
    BY <1>3, <1>4 DEF Int64
  <2>2. transactions[t].refunded = given[t]
    BY <1>1, <2>1 DEF RInv, Recorded
  <2> QED
    BY <1>3, <1>4, <2>1, <2>2, WrapId
<1>5. \A u \in Txs : u # t => Recorded(u)'
  BY <1>3 DEF RInv, Recorded
<1>6. Recorded(t)'
  BY <1>3, <1>4 DEF Recorded
<1> QED
  BY <1>1, <1>5, <1>6

LEMMA NextRInv == RInv /\ [Next /\ Exclusive']_vars => RInv'
<1> SUFFICES ASSUME RInv, [Next /\ Exclusive']_vars PROVE RInv'
  OBVIOUS
<1>1. SInv'
  BY NextSInv DEF RInv
<1>2. ASSUME NEW p \in Procs, Create(p)
      PROVE  \A t \in Txs : Recorded(t)'
  <2>1. CASE StoreCreated(p)
    <3>1. req[p].tx \in Txs /\ ~transactions[req[p].tx].stored
      BY <2>1 DEF RInv, SInv, IInv, ReqOK, Creating, StoreCreated
    <3>2. /\ transactions'[req[p].tx].refunded = 0 /\ transactions'[req[p].tx].stored
          /\ given' = given
          /\ \A t \in Txs : t # req[p].tx => transactions'[t] = transactions[t]
      BY <2>1, <3>1 DEF StoreCreated, RInv, SInv, IInv, TypeOK
    <3>3. given[req[p].tx] = 0
      BY <3>1 DEF RInv, Recorded
    <3> QED
      BY <3>2, <3>3 DEF RInv, Recorded
  <2>2. CASE ~StoreCreated(p)
    <3>1. UNCHANGED <<transactions, given>>
      BY <1>2, <2>2 DEF Create, ReplayCreate, BeginCreate, RejectDuplicate, AnswerExisting
    <3> QED
      BY <3>1 DEF RInv, Recorded
  <2> QED
    BY <2>1, <2>2
<1>3. ASSUME NEW p \in Procs, ChangeStatus(p)
      PROVE  \A t \in Txs : Recorded(t)'
  <2>1. CASE WritePtr(p) \/ WriteLen(p)
    <3>1. /\ given' = given
          /\ \A t \in Txs : /\ transactions'[t].refunded = transactions[t].refunded
                            /\ transactions'[t].stored = transactions[t].stored
      BY <2>1 DEF WritePtr, WriteLen, RInv, SInv, IInv, TypeOK
    <3> QED
      BY <3>1 DEF RInv, Recorded
  <2>2. CASE ~StoreRefunded(p) /\ ~WritePtr(p) /\ ~WriteLen(p)
    <3>1. UNCHANGED <<transactions, given>>
      BY <1>3, <2>2 DEF ChangeStatus, BeginOp, CheckStatus, CheckLimit, LoadRefunded, SettleRefund,
                        Update
    <3> QED
      BY <3>1 DEF RInv, Recorded
  <2> QED
    BY <2>1, <2>2, StoreRefundedRecorded
<1>4. ASSUME UNCHANGED vars
      PROVE  \A t \in Txs : Recorded(t)'
  BY <1>4 DEF vars, RInv, Recorded
<1> QED
  BY <1>1, <1>2, <1>3, <1>4 DEF RInv, Next

LEMMA RecordedInvariance == SerializedSpec => []RInv
BY InitRInv, NextRInv, PTL DEF SerializedSpec

(* For any number of transactions, any amounts and any width of integers:  *)
(* when calls on one transaction do not overlap, and as long as the sum of *)
(* the refunds of one fits an int64, RefundTransaction's books hold it, and*)
(* it is no more than was paid.                                            *)
THEOREM RefundsBounded == SerializedSpec => []RefundWithinAmount
<1>1. RInv => RefundWithinAmount
  <2> SUFFICES ASSUME RInv, NEW t \in Txs, given[t] \in Int64
               PROVE  /\ transactions[t].refunded = given[t]
                      /\ given[t] <= transactions[t].amount
    BY DEF RefundWithinAmount
  <2>1. transactions[t].refunded = given[t]
    BY DEF RInv, Recorded
  <2> QED
    BY <2>1 DEF RInv, SInv, CounterWithin
<1> QED
  BY <1>1, RecordedInvariance, PTL

-----------------------------------------------------------------------------
(* Statuses, when the calls on one transaction are serialised.  A status   *)
(* word is only written by the one goroutine that works on the transaction,*)
(* from a status that may transition to its target; so a torn status is    *)
(* one in the middle of such a change, and the books agree with it.        *)

PtrOf(t) == transactions[t].status.ptr
LenOf(t) == transactions[t].status.len

(* p is between the two stores of its status change.                       *)
Writing(p) == pc[p] \in {"ptr", "len"}

Whole(t) == PtrOf(t) = LenOf(t)

(* What the status of p's transaction is at each of its steps.             *)
Underway(p) ==
  LET t == req[p].tx
      target == Target(req[p].op)
      old == IF pc[p] = "len" THEN LenOf(t) ELSE PtrOf(t)
      written == IF pc[p] = "len" THEN PtrOf(t) ELSE LenOf(t)
  IN  /\ pc[p] \in {"limit", "load", "add", "settle"} =>
           req[p].op = "refund" /\ PtrOf(t) = "completed"
      /\ pc[p] \in {"write", "ptr", "len"} =>
           /\ CanTransitionTo(old, target)
           /\ req[p].op \in StatusOps \cup {"refund"}
           /\ req[p].op = "refund" =>
                old = "completed" /\ transactions[t].refunded = transactions[t].amount
      /\ Writing(p) => written = target
      /\ pc[p] = "check" => req[p].op \in StatusOps \cup {"refund"}

(* Each transaction's books.                                               *)
Books(t) ==
  /\ Whole(t) \/ \E p \in Procs : req[p].tx = t /\ Writing(p)
  /\ transactions[t].stored => transactions[t].amount > 0
  /\ transactions[t].refunded # 0 => {PtrOf(t), LenOf(t)} \subseteq {"completed", "refunded"}
  /\ "refunded" \in {PtrOf(t), LenOf(t)} => transactions[t].refunded = transactions[t].amount
  /\ transactions[t].stored /\ transactions[t].refunded = transactions[t].amount /\ Refunding(t) = {}
       => PtrOf(t) = "refunded" /\ LenOf(t) = "refunded"

LInv == SInv /\ (\A p \in Procs : Underway(p)) /\ \A t \in Txs : Books(t)

(* Transitions end in what the table says, and never begin at the end.     *)
LEMMA Transitions ==
  ASSUME NEW old, NEW op, CanTransitionTo(old, Target(op)), op \in StatusOps \cup {"refund"}
  PROVE  /\ op = "refund" <=> old = "completed"
         /\ op # "refund" => old \in {"pending", "authorized"} /\ Target(op) \notin {"pending", "refunded"}
         /\ op = "refund" => Target(op) = "refunded"
         /\ TextLen(old) # TextLen(Target(op))
         /\ old \notin Final
BY DEF CanTransitionTo, ValidTransitions, Target, StatusOps, TextLen, Final

(* An untorn status reads as what it is.                                   *)
LEMMA WholeText ==
  ASSUME NEW t \in Txs, Whole(t)
  PROVE  Status(t) = PtrOf(t)
BY DEF Whole, PtrOf, LenOf, Status, Text

(* Whoever works on a transaction is alone with it.                        *)
LEMMA Works ==
  ASSUME SInv, NEW p \in Procs, pc[p] # "idle"
  PROVE  req[p].tx \in Txs /\ \A q \in Procs : q # p => req[q].tx # req[p].tx
BY ConstantsAssumption DEF SInv, IInv, ReqOK, Exclusive

LEMMA Alone ==
  ASSUME SInv, NEW p \in Procs, pc[p] # "idle", NEW q \in Procs, q # p
  PROVE  req[p].tx \in Txs /\ req[q].tx # req[p].tx
BY ConstantsAssumption DEF SInv, IInv, ReqOK, Exclusive

(* Other goroutines and other transactions are out of a step's reach.      *)
LEMMA OthersLInv ==
  ASSUME LInv, NEW p \in Procs, NEW t \in Txs,
         \A q \in Procs : q # p => req'[q] = req[q] /\ pc'[q] = pc[q] /\ req[q].tx # t,
         \A u \in Txs : u # t => transactions'[u] = transactions[u],
         pc[p] = "idle" \/ req[p].tx = t,
         pc'[p] = "idle" \/ req'[p].tx = t
  PROVE  /\ \A q \in Procs : q # p => Underway(q)'
         /\ \A u \in Txs : u # t => Books(u)'
<1>1. ASSUME NEW q \in Procs, q # p
      PROVE  Underway(q)'
  <2>1. CASE pc[q] = "idle"
    BY <1>1, <2>1 DEF Underway, Writing
  <2>2. CASE pc[q] # "idle"
    <3>1. PICK u \in Txs : u = req[q].tx /\ u # t
      BY <1>1, <2>2, Alone DEF LInv
    <3>2. transactions'[u] = transactions[u] /\ req'[q] = req[q] /\ pc'[q] = pc[q]
      BY <1>1, <3>1
    <3>3. Underway(q)
      BY DEF LInv
    <3> QED
      BY <3>1, <3>2, <3>3 DEF Underway, Writing, PtrOf, LenOf
  <2> QED
    BY <2>1, <2>2
<1>2. ASSUME NEW u \in Txs, u # t
      PROVE  Books(u)'
  <2>1. Books(u) /\ transactions'[u] = transactions[u]
    BY <1>2 DEF LInv
  <2>2. ASSUME NEW q \in Procs, req[q].tx = u, pc[q] # "idle"
        PROVE  req'[q] = req[q] /\ pc'[q] = pc[q]
    BY <1>2, <2>2
  <2>3. Whole(u)' \/ \E q \in Procs : req'[q].tx = u /\ Writing(q)'
    BY <2>1, <2>2 DEF Books, Whole, PtrOf, LenOf, Writing
  <2>4. Refunding(u)' = {} => Refunding(u) = {}
    BY <2>2 DEF Refunding
  <2> QED
    BY <2>1, <2>3, <2>4 DEF Books, PtrOf, LenOf
<1> QED
  BY <1>1, <1>2

(* A step that stores nothing in a transaction.                            *)
LEMMA QuietLInv ==
  ASSUME LInv, SInv', NEW p \in Procs, NEW t \in Txs,
         \A q \in Procs : q # p => req'[q] = req[q] /\ pc'[q] = pc[q] /\ req[q].tx # t,
         transactions' = transactions,
         pc[p] = "idle" \/ req[p].tx = t,
         pc'[p] = "idle" \/ req'[p].tx = t,
         ~Writing(p), Underway(p)',
         p \in Refunding(t) /\ p \notin Refunding(t)' =>
           transactions[t].refunded # transactions[t].amount
  PROVE  LInv'
<1>1. /\ \A q \in Procs : q # p => Underway(q)'
      /\ \A u \in Txs : u # t => Books(u)'
  BY OthersLInv
<1>2. Books(t)'
  <2>1. Books(t)
    BY DEF LInv
  <2>2. Whole(t)'
    <3>1. ASSUME NEW q \in Procs, req[q].tx = t, Writing(q)
          PROVE  FALSE
      BY <3>1
    <3> QED
      BY <2>1, <3>1 DEF Books, Whole, PtrOf, LenOf
  <2>3. Refunding(t)' = {} => Refunding(t) = {} \/ transactions[t].refunded # transactions[t].amount
    BY DEF Refunding
  <2> QED
    BY <2>1, <2>2, <2>3 DEF Books, PtrOf, LenOf
<1> QED
  BY <1>1, <1>2 DEF LInv

LEMMA InitLInv == Init => LInv
<1> SUFFICES ASSUME Init PROVE LInv
  OBVIOUS
<1>1. SInv
  BY InitSInv
<1>2. \A p \in Procs : Underway(p)
  BY DEF Init, Underway, Writing
<1>3. \A t \in Txs : Books(t)
  BY DEF Init, Books, Whole, PtrOf, LenOf, Absent, Word
<1> QED
  BY <1>1, <1>2, <1>3 DEF LInv

LEMMA CreateLInv ==
  ASSUME LInv, SInv', NEW p \in Procs, Create(p)
  PROVE  LInv'
<1>1. SInv /\ TypeOK
  BY DEF LInv, SInv, IInv
<1>2. ASSUME NEW k \in Keys \cup {NoKey}, NEW a \in Amounts, ReplayCreate(p, k, a)
      PROVE  LInv'
  <2>1. UNCHANGED <<transactions, pc, req>>
    BY <1>2 DEF ReplayCreate
  <2> QED
    BY <2>1 DEF LInv, Underway, Writing, Books, Whole, PtrOf, LenOf, Refunding
<1>3. ASSUME NEW k \in Keys \cup {NoKey}, NEW a \in Amounts, NEW t \in Txs,
             BeginCreate(p, k, a, t)
      PROVE  LInv'
  <2>1. /\ transactions' = transactions
        /\ pc[p] = "idle" /\ pc'[p] = "create" /\ req'[p].tx = t
        /\ \A q \in Procs : q # p => req'[q] = req[q] /\ pc'[q] = pc[q] /\ req[q].tx # t
    BY <1>1, <1>3 DEF BeginCreate, Goto, Fresh, TypeOK
  <2>2. ~Writing(p) /\ Underway(p)' /\ p \notin Refunding(t)
    BY <2>1 DEF Writing, Underway, Refunding
  <2> QED
    BY <2>1, <2>2, QuietLInv
<1>4. CASE RejectDuplicate(p) \/ AnswerExisting(p)
  <2>1. /\ transactions' = transactions
        /\ pc[p] \in {"create", "relookup"} /\ pc'[p] \in {"idle", "relookup"}
        /\ pc'[p] = "idle" \/ req' = req
        /\ \A q \in Procs : q # p => req'[q] = req[q] /\ pc'[q] = pc[q]
    BY <1>1, <1>4 DEF RejectDuplicate, AnswerExisting, Goto, Return, TypeOK
  <2>2. pc[p] # "idle"
    BY <2>1
  <2>3. req[p].tx \in Txs /\ \A q \in Procs : q # p => req[q].tx # req[p].tx
    BY <1>1, <2>2, Works
  <2>4. PICK t \in Txs : t = req[p].tx
    BY <2>3
  <2>5. \A q \in Procs : q # p => req'[q] = req[q] /\ pc'[q] = pc[q] /\ req[q].tx # t
    BY <2>1, <2>3, <2>4
  <2>6. ~Writing(p) /\ Underway(p)' /\ p \notin Refunding(t)
    BY <2>1 DEF Writing, Underway, Refunding
  <2>7. pc'[p] = "idle" \/ req'[p].tx = t
    BY <2>1, <2>4
  <2> QED
    BY <2>1, <2>4, <2>5, <2>6, <2>7, QuietLInv
<1>5. CASE StoreCreated(p)
  <2>1. PICK t \in Txs : t = req[p].tx /\ \A q \in Procs : q # p => req[q].tx # t
    BY <1>1, <1>5, Works DEF StoreCreated
  <2>2. req[p].amount > 0 /\ req[p].amount \in Int
    BY <1>1, <1>5 DEF StoreCreated, SInv, IInv, ReqOK, Creating, TypeOK
  <2>3. /\ transactions'[t].amount = req[p].amount /\ transactions'[t].refunded = 0
        /\ transactions'[t].status.ptr = "pending" /\ transactions'[t].status.len = "pending"
        /\ \A u \in Txs : u # t => transactions'[u] = transactions[u]
    BY <1>1, <1>5, <2>1 DEF StoreCreated, TypeOK, Word
  <2>4. /\ pc'[p] = "idle" /\ pc[p] = "create"
        /\ \A q \in Procs : q # p => req'[q] = req[q] /\ pc'[q] = pc[q]
    BY <1>1, <1>5 DEF StoreCreated, Return, TypeOK
  <2>5. Books(t)'
    BY <2>2, <2>3 DEF Books, Whole, PtrOf, LenOf
  <2>6. Underway(p)'
    BY <2>4 DEF Underway, Writing
  <2>7. /\ \A q \in Procs : q # p => Underway(q)'
        /\ \A u \in Txs : u # t => Books(u)'
    BY <2>1, <2>3, <2>4, OthersLInv
  <2> QED
    BY <2>5, <2>6, <2>7 DEF LInv
<1> QED
  BY <1>2, <1>3, <1>4, <1>5 DEF Create

(* Steps of an operation that is under way.                                *)
LEMMA InnerQuiet ==
  ASSUME LInv, SInv', NEW p \in Procs, pc[p] \notin {"idle", "ptr", "len"},
         \A q \in Procs : q # p => req'[q] = req[q] /\ pc'[q] = pc[q],
         transactions' = transactions,
         pc'[p] = "idle" \/ req'[p].tx = req[p].tx,
         Underway(p)',
         NEW t, t = req[p].tx,
         p \in Refunding(t) /\ p \notin Refunding(t)' =>
           transactions[t].refunded # transactions[t].amount
  PROVE  LInv'
<1>1. t \in Txs /\ \A q \in Procs : q # p => req[q].tx # t
  BY Works DEF LInv
<1>2. ~Writing(p)
  BY DEF Writing
<1> QED
  BY <1>1, <1>2, QuietLInv

LEMMA InnerStore ==
  ASSUME LInv, SInv', NEW p \in Procs, pc[p] # "idle",
         \A q \in Procs : q # p => req'[q] = req[q] /\ pc'[q] = pc[q],
         req'[p].tx = req[p].tx,
         NEW t, t = req[p].tx,
         \A u \in Txs : u # t => transactions'[u] = transactions[u],
         Underway(p)', Books(t)'
  PROVE  LInv'
<1>1. t \in Txs /\ \A q \in Procs : q # p => req[q].tx # t
  BY Works DEF LInv
<1>2. /\ \A q \in Procs : q # p => Underway(q)'
      /\ \A u \in Txs : u # t => Books(u)'
  BY <1>1, OthersLInv
<1> QED
  BY <1>2 DEF LInv

(* Between its operations' stores, a transaction's status is whole.        *)
LEMMA WholeUnlessWriting ==
  ASSUME LInv, NEW p \in Procs, pc[p] \notin {"idle", "ptr", "len"}
  PROVE  req[p].tx \in Txs /\ Whole(req[p].tx)
<1>1. req[p].tx \in Txs /\ \A q \in Procs : q # p => req[q].tx # req[p].tx
  BY Works DEF LInv
<1>2. ~Writing(p) /\ Books(req[p].tx)
  BY <1>1 DEF Writing, LInv
<1> QED
  BY <1>1, <1>2 DEF Books

(* The two stores of a status change keep the transaction's books.         *)
LEMMA WriteBooks ==
  ASSUME LInv, NEW p \in Procs, pc[p] \in {"write", "ptr", "len"},
         NEW t, t = req[p].tx, req' = req,
         \A q \in Procs : q # p => pc'[q] = pc[q],
         transactions'[t].stored = transactions[t].stored,
         transactions'[t].amount = transactions[t].amount,
         transactions'[t].refunded = transactions[t].refunded,
         NEW old \in {PtrOf(t), LenOf(t)},
         CanTransitionTo(old, Target(req[p].op)),
         req[p].op \in StatusOps \cup {"refund"},
         req[p].op = "refund" => transactions[t].refunded = transactions[t].amount,
         PtrOf(t)' \in {old, Target(req[p].op)}, LenOf(t)' \in {old, Target(req[p].op)},
         \/ Writing(p)'
         \/ PtrOf(t)' = Target(req[p].op) /\ LenOf(t)' = Target(req[p].op)
  PROVE  Books(t)'
<1> DEFINE target == Target(req[p].op)
<1>1. t \in Txs /\ \A q \in Procs : q # p => req[q].tx # t
  BY Works DEF LInv
<1>2. Books(t)
  BY <1>1 DEF LInv
<1>3. /\ req[p].op = "refund" => target = "refunded" /\ old = "completed"
      /\ req[p].op # "refund" => target # "refunded" /\ old \in {"pending", "authorized"}
      /\ old \notin Final
  BY Transitions
<1> HIDE DEF target
<1>4. Whole(t)' \/ \E q \in Procs : req'[q].tx = t /\ Writing(q)'
  BY DEF Whole, target
<1>5. transactions'[t].stored => transactions'[t].amount > 0
  BY <1>2 DEF Books
<1>6. transactions'[t].refunded # 0 => {PtrOf(t)', LenOf(t)'} \subseteq {"completed", "refunded"}
  <2>1. transactions[t].refunded # 0 => old \in {"completed", "refunded"}
    BY <1>2 DEF Books
  <2>2. transactions[t].refunded # 0 => target = "refunded"
    BY <2>1, <1>3
  <2> QED
    BY <2>1, <2>2 DEF target
<1>7. "refunded" \in {PtrOf(t)', LenOf(t)'} => transactions'[t].refunded = transactions'[t].amount
  <2>1. old # "refunded"
    BY <1>3 DEF Final
  <2>2. "refunded" \in {PtrOf(t)', LenOf(t)'} => target = "refunded"
    BY <2>1 DEF target
  <2> QED
    BY <2>2, <1>3
<1>8. ASSUME transactions'[t].stored, transactions'[t].refunded = transactions'[t].amount,
             Refunding(t)' = {}
      PROVE  PtrOf(t)' = "refunded" /\ LenOf(t)' = "refunded"
  <2>1. CASE req[p].op = "refund"
    <3>1. ~Writing(p)'
      BY <1>8, <2>1 DEF Refunding, Writing
    <3> QED
      BY <3>1, <2>1, <1>3 DEF target
  <2>2. CASE req[p].op # "refund"
    <3>1. Refunding(t) = {}
      BY <1>1, <2>2 DEF Refunding
    <3>2. PtrOf(t) = "refunded" /\ LenOf(t) = "refunded"
      BY <1>2, <1>8, <3>1 DEF Books
    <3> QED
      BY <3>2, <2>2, <1>3
  <2> QED
    BY <2>1, <2>2
<1> QED
  BY <1>4, <1>5, <1>6, <1>7, <1>8 DEF Books

LEMMA ChangeStatusLInv ==
  ASSUME LInv, SInv', NEW p \in Procs, ChangeStatus(p)
  PROVE  LInv'
<1>1. SInv /\ TypeOK /\ Underway(p)
  BY DEF LInv, SInv, IInv
<1>2. ASSUME NEW op \in StatusOps \cup {"refund"}, NEW t \in Txs, NEW a, BeginOp(p, op, t, a)
      PROVE  LInv'
  <2>1. /\ transactions' = transactions
        /\ pc[p] = "idle" /\ pc'[p] = "check" /\ req'[p].tx = t /\ req'[p].op = op
        /\ \A q \in Procs : q # p => req'[q] = req[q] /\ pc'[q] = pc[q]
    BY <1>1, <1>2 DEF BeginOp, Goto, TypeOK
  <2>2. t # NoTx
    BY ConstantsAssumption
  <2>3. \A q \in Procs : q # p => req[q].tx # t
    BY <2>1, <2>2 DEF SInv, Exclusive
  <2>4. ~Writing(p) /\ Underway(p)' /\ p \notin Refunding(t)
    BY <2>1 DEF Writing, Underway, Refunding
  <2> QED
    BY <2>1, <2>3, <2>4, QuietLInv
<1>3. CASE CheckStatus(p)
  <2> DEFINE t == req[p].tx
  <2>1. /\ transactions' = transactions
        /\ pc[p] = "check" /\ p \notin Refunding(t)
        /\ \A q \in Procs : q # p => req'[q] = req[q] /\ pc'[q] = pc[q]
    BY <1>1, <1>3 DEF CheckStatus, Goto, Return, Refunding, TypeOK
  <2>2. t \in Txs /\ Whole(t)
    BY <2>1, WholeUnlessWriting
  <2>3. Text(transactions[t].status) = PtrOf(t)
    BY <2>2, WholeText DEF Status
  <2>4. req[p].op \in StatusOps \cup {"refund"}
    BY <1>1, <2>1 DEF Underway
  <2>5. CASE pc'[p] = "idle"
    <3>1. Underway(p)'
      BY <2>5 DEF Underway, Writing
    <3> QED
      BY <2>1, <2>5, <3>1, InnerQuiet
  <2>6. CASE pc'[p] # "idle"
    <3>1. /\ CanTransitionTo(PtrOf(t), Target(req[p].op))
          /\ pc'[p] = IF req[p].op = "refund" THEN "limit" ELSE "write"
          /\ req' = req
      BY <1>1, <1>3, <2>3, <2>6 DEF CheckStatus, Goto, Return, TypeOK
    <3>2. req[p].op = "refund" => PtrOf(t) = "completed"
      BY <2>4, <3>1, Transitions
    <3>3. PtrOf(t)' = PtrOf(t)
      BY <2>1, <3>1 DEF PtrOf
    <3>4. Underway(p)'
      BY <2>4, <3>1, <3>2, <3>3 DEF Underway, Writing
    <3> QED
      BY <2>1, <3>1, <3>4, InnerQuiet
  <2> QED
    BY <2>5, <2>6
<1>4. CASE CheckLimit(p) \/ LoadRefunded(p)
  <2> DEFINE t == req[p].tx
  <2>1. /\ transactions' = transactions
        /\ pc[p] \in {"limit", "load"} /\ pc'[p] \in {"idle", "load", "add"}
        /\ p \notin Refunding(t)
        /\ \A q \in Procs : q # p => req'[q] = req[q] /\ pc'[q] = pc[q]
    BY <1>1, <1>4 DEF CheckLimit, LoadRefunded, Goto, Return, Refunding, TypeOK
  <2>2. pc'[p] = "idle" \/ (req'[p].tx = req[p].tx /\ req'[p].op = req[p].op)
    <3>1. CASE CheckLimit(p)
      BY <1>1, <3>1 DEF CheckLimit, Goto, Return, TypeOK
    <3>2. CASE LoadRefunded(p)
      <4>1. req'[p] = [req[p] EXCEPT !.seen = transactions[t].refunded]
        BY <1>1, <3>2 DEF LoadRefunded, TypeOK
      <4> QED
        BY <1>1, <4>1 DEF TypeOK
    <3> QED
      BY <1>4, <3>1, <3>2
  <2>3. Underway(p)'
    BY <1>1, <2>1, <2>2 DEF Underway, Writing, PtrOf
  <2> QED
    BY <2>1, <2>2, <2>3, InnerQuiet
<1>5. CASE StoreRefunded(p)
  <2> DEFINE t == req[p].tx
  <2>1. /\ pc[p] = "add" /\ pc'[p] = "settle" /\ req' = req
        /\ \A q \in Procs : q # p => req'[q] = req[q] /\ pc'[q] = pc[q]
    BY <1>1, <1>5 DEF StoreRefunded, Goto, TypeOK
  <2>2. t \in Txs /\ Whole(t)
    BY <2>1, WholeUnlessWriting
  <2>3. /\ \A u \in Txs : u # t => transactions'[u] = transactions[u]
        /\ transactions'[t].status = transactions[t].status
        /\ transactions'[t].stored = transactions[t].stored
        /\ transactions'[t].amount = transactions[t].amount
    BY <1>1, <1>5, <2>2 DEF StoreRefunded, TypeOK
  <2>4. req[p].op = "refund" /\ PtrOf(t) = "completed" /\ LenOf(t) = "completed"
    BY <1>1, <2>1, <2>2 DEF Underway, Whole
  <2>5. PtrOf(t)' = "completed" /\ LenOf(t)' = "completed"
    BY <2>1, <2>3, <2>4 DEF PtrOf, LenOf
  <2>6. Underway(p)'
    BY <2>1, <2>4, <2>5 DEF Underway, Writing
  <2>7. p \in Refunding(t)'
    BY <2>1, <2>4 DEF Refunding
  <2>8. Books(t)
    BY <2>2 DEF LInv
  <2>9. Books(t)'
    BY <2>1, <2>3, <2>5, <2>7, <2>8 DEF Books, Whole
  <2> QED
    BY <2>1, <2>3, <2>6, <2>9, InnerStore
<1>6. CASE SettleRefund(p)
  <2> DEFINE t == req[p].tx
  <2>1. /\ transactions' = transactions /\ req' = req
        /\ pc[p] = "settle"
        /\ pc'[p] = IF FullyRefunded(transactions[t]) THEN "write" ELSE "update"
        /\ \A q \in Procs : q # p => req'[q] = req[q] /\ pc'[q] = pc[q]
    BY <1>1, <1>6 DEF SettleRefund, Goto, TypeOK
  <2>2. req[p].op = "refund" /\ PtrOf(t) = "completed" /\ t \in Txs
    BY <1>1, <2>1, Works DEF Underway
  <2>3. /\ transactions[t].refunded \in Int /\ transactions[t].amount \in Int
        /\ transactions[t].refunded <= transactions[t].amount
    BY <1>1, <2>2 DEF SInv, CounterWithin, TypeOK
  <2>4. CASE FullyRefunded(transactions[t])
    <3>1. transactions[t].refunded = transactions[t].amount
      BY <2>3, <2>4 DEF FullyRefunded
    <3>2. CanTransitionTo("completed", Target("refund"))
      BY DEF CanTransitionTo, ValidTransitions, Target
    <3>3. PtrOf(t)' = "completed"
      BY <2>1, <2>2 DEF PtrOf
    <3>4. Underway(p)'
      BY <2>1, <2>2, <2>4, <3>1, <3>2, <3>3 DEF Underway, Writing
    <3>5. p \in Refunding(t)'
      BY <2>1, <2>2, <2>4 DEF Refunding
    <3> QED
      BY <2>1, <3>4, <3>5, InnerQuiet
  <2>5. CASE ~FullyRefunded(transactions[t])
    <3>1. transactions[t].refunded # transactions[t].amount
      BY <2>3, <2>5 DEF FullyRefunded
    <3>2. Underway(p)'
      BY <2>1, <2>5 DEF Underway, Writing
    <3> QED
      BY <2>1, <3>1, <3>2, InnerQuiet
  <2> QED
    BY <2>4, <2>5
<1>7. CASE WritePtr(p)
  <2> DEFINE t == req[p].tx
             target == Target(req[p].op)
  <2>1. /\ \/ pc[p] = "write" /\ pc'[p] = "len"
           \/ pc[p] = "ptr" /\ pc'[p] = "update"
        /\ req' = req
        /\ \A q \in Procs : q # p => req'[q] = req[q] /\ pc'[q] = pc[q]
    BY <1>1, <1>7 DEF WritePtr, Goto, TypeOK
  <2>2. t \in Txs
    BY <1>1, <2>1, Works
  <2>3. /\ \A u \in Txs : u # t => transactions'[u] = transactions[u]
        /\ transactions'[t].stored = transactions[t].stored
        /\ transactions'[t].amount = transactions[t].amount
        /\ transactions'[t].refunded = transactions[t].refunded
        /\ PtrOf(t)' = target /\ LenOf(t)' = LenOf(t)
    BY <1>1, <1>7, <2>1, <2>2 DEF WritePtr, TypeOK, PtrOf, LenOf
  <2>4. /\ CanTransitionTo(PtrOf(t), target)
        /\ req[p].op \in StatusOps \cup {"refund"}
        /\ req[p].op = "refund" =>
             PtrOf(t) = "completed" /\ transactions[t].refunded = transactions[t].amount
    BY <1>1, <2>1 DEF Underway
  <2>5. CASE pc[p] = "write"
    <3>1. LenOf(t) = PtrOf(t) /\ pc'[p] = "len"
      BY <2>1, <2>5, WholeUnlessWriting DEF Whole
    <3>2. Books(t)'
      BY <2>1, <2>3, <2>4, <3>1, <2>5, WriteBooks DEF Writing
    <3>3. Underway(p)'
      BY <2>1, <2>3, <2>4, <3>1 DEF Underway, Writing
    <3> QED
      BY <2>1, <2>3, <2>5, <3>2, <3>3, InnerStore
  <2>6. CASE pc[p] = "ptr"
    <3>1. LenOf(t) = target /\ pc'[p] = "update"
      BY <1>1, <2>1, <2>6 DEF Underway, Writing
    <3>2. Books(t)'
      BY <2>1, <2>3, <2>4, <3>1, <2>6, WriteBooks
    <3>3. Underway(p)'
      BY <3>1 DEF Underway, Writing
    <3> QED
      BY <2>1, <2>3, <2>6, <3>2, <3>3, InnerStore
  <2> QED
    BY <2>1, <2>5, <2>6
<1>8. CASE WriteLen(p)
  <2> DEFINE t == req[p].tx
             target == Target(req[p].op)
  <2>1. /\ \/ pc[p] = "write" /\ pc'[p] = "ptr"
           \/ pc[p] = "len" /\ pc'[p] = "update"
        /\ req' = req
        /\ \A q \in Procs : q # p => req'[q] = req[q] /\ pc'[q] = pc[q]
    BY <1>1, <1>8 DEF WriteLen, Goto, TypeOK
  <2>2. t \in Txs
    BY <1>1, <2>1, Works
  <2>3. /\ \A u \in Txs : u # t => transactions'[u] = transactions[u]
        /\ transactions'[t].stored = transactions[t].stored
        /\ transactions'[t].amount = transactions[t].amount
        /\ transactions'[t].refunded = transactions[t].refunded
        /\ LenOf(t)' = target /\ PtrOf(t)' = PtrOf(t)
    BY <1>1, <1>8, <2>1, <2>2 DEF WriteLen, TypeOK, PtrOf, LenOf
  <2>4. CASE pc[p] = "write"
    <3>1. LenOf(t) = PtrOf(t) /\ pc'[p] = "ptr"
      BY <2>1, <2>4, WholeUnlessWriting DEF Whole
    <3>2. /\ CanTransitionTo(PtrOf(t), target)
          /\ req[p].op \in StatusOps \cup {"refund"}
          /\ req[p].op = "refund" =>
               PtrOf(t) = "completed" /\ transactions[t].refunded = transactions[t].amount
      BY <1>1, <2>4 DEF Underway
    <3>3. Books(t)'
      BY <2>1, <2>3, <2>4, <3>1, <3>2, WriteBooks DEF Writing
    <3>4. Underway(p)'
      BY <2>1, <2>3, <3>1, <3>2 DEF Underway, Writing
    <3> QED
      BY <2>1, <2>3, <2>4, <3>3, <3>4, InnerStore
  <2>5. CASE pc[p] = "len"
    <3>1. PtrOf(t) = target /\ pc'[p] = "update"
      BY <1>1, <2>1, <2>5 DEF Underway, Writing
    <3>2. /\ CanTransitionTo(LenOf(t), target)
          /\ req[p].op \in StatusOps \cup {"refund"}
          /\ req[p].op = "refund" =>
               LenOf(t) = "completed" /\ transactions[t].refunded = transactions[t].amount
      BY <1>1, <2>5 DEF Underway
    <3>3. Books(t)'
      BY <2>1, <2>3, <2>5, <3>1, <3>2, WriteBooks
    <3>4. Underway(p)'
      BY <3>1 DEF Underway, Writing
    <3> QED
      BY <2>1, <2>3, <2>5, <3>3, <3>4, InnerStore
  <2> QED
    BY <2>1, <2>4, <2>5
<1>9. CASE Update(p)
  <2>1. /\ transactions' = transactions
        /\ pc[p] = "update" /\ pc'[p] = "idle"
        /\ \A q \in Procs : q # p => req'[q] = req[q] /\ pc'[q] = pc[q]
    BY <1>1, <1>9 DEF Update, Return, TypeOK
  <2>2. Underway(p)' /\ p \notin Refunding(req[p].tx)
    BY <2>1 DEF Underway, Writing, Refunding
  <2> QED
    BY <2>1, <2>2, InnerQuiet
<1> QED
  BY <1>2, <1>3, <1>4, <1>5, <1>6, <1>7, <1>8, <1>9 DEF ChangeStatus

LEMMA NextLInv == LInv /\ [Next /\ Exclusive']_vars => LInv'
<1> SUFFICES ASSUME LInv, [Next /\ Exclusive']_vars PROVE LInv'
  OBVIOUS
<1>1. SInv'
  BY NextSInv DEF LInv
<1>2. CASE Next
  BY <1>1, <1>2, CreateLInv, ChangeStatusLInv DEF Next
<1>3. CASE UNCHANGED vars
  BY <1>1, <1>3 DEF vars, LInv, Underway, Writing, Books, Whole, PtrOf, LenOf, Refunding
<1> QED
  BY <1>2, <1>3

(* And that of refunds, while the calls on one transaction are serialised. *)
THEOREM SerializedInvariance == SerializedSpec => []LInv
BY InitLInv, NextLInv, PTL DEF SerializedSpec

(* A status is torn while a goroutine is between the stores of its change. *)
LEMMA Torn ==
  ASSUME LInv, NEW p \in Procs, Writing(p)
  PROVE  /\ ~Whole(req[p].tx) /\ Status(req[p].tx) = "torn"
         /\ req[p].op # "refund" =>
              ~({PtrOf(req[p].tx), LenOf(req[p].tx)} \subseteq {"completed", "refunded"})
<1> DEFINE t == req[p].tx
           old == IF pc[p] = "len" THEN LenOf(t) ELSE PtrOf(t)
           target == Target(req[p].op)
<1>1. /\ CanTransitionTo(old, target) /\ req[p].op \in StatusOps \cup {"refund"}
      /\ {PtrOf(t), LenOf(t)} = {old, target}
  BY DEF LInv, Underway, Writing
<1>2. /\ TextLen(old) # TextLen(target)
      /\ req[p].op # "refund" => old \in {"pending", "authorized"} /\ target # "refunded"
  BY <1>1, Transitions
<1> HIDE DEF old, target
<1>3. TextLen(PtrOf(t)) # TextLen(LenOf(t))
  BY <1>1, <1>2
<1> QED
  BY <1>1, <1>2, <1>3 DEF target, Whole, Status, Text, PtrOf, LenOf

(* When the calls on one transaction do not overlap, its status says       *)
(* "refunded" exactly when its books say that all was given back, whatever *)
(* the order of RefundTransaction's stores.                                *)
LEMMA LInvMatches == LInv => RefundMatchesStatus
<1> SUFFICES ASSUME LInv, NEW t \in Stored, Refunding(t) = {}
             PROVE  /\ Status(t) = "refunded" <=> transactions[t].refunded = transactions[t].amount
                    /\ transactions[t].refunded # 0 => Status(t) \in {"completed", "refunded"}
  BY DEF RefundMatchesStatus
<1>1. t \in Txs /\ transactions[t].stored /\ Books(t)
  BY DEF LInv, Stored
<1>2. CASE Whole(t)
  BY <1>1, <1>2, WholeText DEF Books, Whole
<1>3. CASE ~Whole(t)
  <2>1. PICK p \in Procs : req[p].tx = t /\ Writing(p)
    BY <1>1, <1>3 DEF Books
  <2>2. req[p].op # "refund"
    BY <2>1 DEF Refunding, Writing
  <2>3. /\ Status(t) = "torn"
        /\ ~({PtrOf(t), LenOf(t)} \subseteq {"completed", "refunded"})
    BY <1>3, <2>1, <2>2, Torn DEF Whole
  <2>4. transactions[t].refunded = 0
    BY <1>1, <2>3 DEF Books
  <2>5. transactions[t].refunded # transactions[t].amount
    BY <1>1, <1>3 DEF Books, Whole
  <2> QED
    BY <2>3, <2>4, <2>5
<1> QED
  BY <1>2, <1>3

(* A status reads refunded exactly when the books say that all of the money*)
(* was given back, whenever no refund is between its two stores.           *)
THEOREM StatusMatchesBooks == SerializedSpec => []RefundMatchesStatus
BY SerializedInvariance, LInvMatches, PTL

(* No step of any goroutine touches the status of a finished transaction.  *)
LEMMA FinalKept ==
  ASSUME LInv, Next, NEW t \in Stored, Status(t) \in Final
  PROVE  Status(t)' = Status(t)
<1>1. PICK p \in Procs : Create(p) \/ ChangeStatus(p)
  BY DEF Next
<1>2. t \in Txs /\ transactions[t].stored /\ SInv /\ TypeOK
  BY DEF Stored, LInv, SInv, IInv
<1>3. CASE Create(p)
  <2>1. StoreCreated(p) => t # req[p].tx
    BY <1>2 DEF StoreCreated, SInv, IInv, ReqOK, Creating
  <2>2. transactions'[t] = transactions[t]
    BY <1>2, <1>3, <2>1 DEF Create, ReplayCreate, BeginCreate, RejectDuplicate, StoreCreated,
                             AnswerExisting, TypeOK
  <2> QED
    BY <2>2 DEF Status
<1>4. CASE ChangeStatus(p) /\ (WritePtr(p) \/ WriteLen(p))
  <2>1. t # req[p].tx
    <3> SUFFICES ASSUME t = req[p].tx PROVE FALSE
      OBVIOUS
    <3>1. ~Writing(p)
      BY Torn DEF Final
    <3>2. pc[p] = "write"
      BY <1>4, <3>1 DEF WritePtr, WriteLen, Goto, Writing
    <3>3. Status(t) = PtrOf(t)
      BY <3>2, WholeUnlessWriting, WholeText
    <3>4. CanTransitionTo(PtrOf(t), Target(req[p].op)) /\ req[p].op \in StatusOps \cup {"refund"}
      BY <3>2 DEF LInv, Underway
    <3> QED
      BY <3>3, <3>4, Transitions
  <2>2. transactions'[t] = transactions[t]
    BY <1>2, <1>4, <2>1 DEF WritePtr, WriteLen, TypeOK
  <2> QED
    BY <2>2 DEF Status
<1>5. CASE ChangeStatus(p) /\ StoreRefunded(p)
  <2>1. transactions'[t].status = transactions[t].status
    BY <1>2, <1>5 DEF StoreRefunded, TypeOK
  <2> QED
    BY <2>1 DEF Status
<1>6. CASE ChangeStatus(p) /\ ~WritePtr(p) /\ ~WriteLen(p) /\ ~StoreRefunded(p)
  <2>1. transactions' = transactions
    BY <1>6 DEF ChangeStatus, BeginOp, CheckStatus, CheckLimit, LoadRefunded, SettleRefund, Update
  <2> QED
    BY <2>1 DEF Status
<1> QED
  BY <1>1, <1>3, <1>4, <1>5, <1>6

(* When the calls on one transaction do not overlap, "failed", "cancelled" *)
(* and "refunded" are for ever.                                            *)
THEOREM FinalStays == SerializedSpec => FinalIsFinal
<1>1. LInv /\ [Next /\ Exclusive']_vars
        => [\A t \in Stored : Status(t) \in Final => Status(t)' = Status(t)]_vars
  BY FinalKept
<1> QED
  BY <1>1, SerializedInvariance, PTL DEF SerializedSpec, FinalIsFinal

-----------------------------------------------------------------------------
(* The abstract payment takes effect at the first store of an operation    *)
(* whose outcome is then decided, and every other step leaves it alone.    *)

Lands(p) ==
  \/ Writing(p)
  \/ req[p].op = "refund" /\ pc[p] = "write"
  \/ pc[p] = "settle" /\ FullyRefunded(transactions[req[p].tx])

LEMMA LandingLands ==
  ASSUME NEW t
  PROVE  Landing(t) = {p \in Procs : req[p].tx = t /\ Lands(p)}
BY DEF Landing, Lands, Writing

(* A transaction nobody is landing on is what it reads as, and one that p  *)
(* is landing on has p's target.                                           *)
LEMMA PaymentFree ==
  ASSUME NEW t \in Txs, transactions[t].stored, Landing(t) = {}
  PROVE  Payment(t) = [status |-> Status(t), amount |-> transactions[t].amount,
                       refunded |-> transactions[t].refunded, given |-> given[t]]
BY DEF Payment, Landing, Status, Stored

LEMMA PaymentLanding ==
  ASSUME NEW t \in Txs, transactions[t].stored, NEW p, Landing(t) = {p}
  PROVE  Payment(t) = [status |-> Target(req[p].op), amount |-> transactions[t].amount,
                       refunded |-> transactions[t].refunded, given |-> given[t]]
<1>1. (CHOOSE q \in Landing(t) : TRUE) = p
  OBVIOUS
<1> QED
  BY <1>1 DEF Payment, Landing, Status, Stored

LEMMA PaymentFreeNext ==
  ASSUME NEW t \in Txs, transactions'[t].stored, Landing(t)' = {}
  PROVE  Payment(t)' = [status |-> Status(t)', amount |-> transactions'[t].amount,
                        refunded |-> transactions'[t].refunded, given |-> given'[t]]
BY DEF Payment, Landing, Status, Stored

LEMMA PaymentLandingNext ==
  ASSUME NEW t \in Txs, transactions'[t].stored, NEW p, Landing(t)' = {p}
  PROVE  Payment(t)' = [status |-> Target(req'[p].op), amount |-> transactions'[t].amount,
                        refunded |-> transactions'[t].refunded, given |-> given'[t]]
<1>1. (CHOOSE q \in Landing(t)' : TRUE) = p
  OBVIOUS
<1> QED
  BY <1>1 DEF Payment, Landing, Status, Stored

(* The payments of the transactions p does not work on.                    *)
LEMMA OthersPayment ==
  ASSUME NEW p \in Procs, NEW u \in Txs, transactions'[u] = transactions[u], given'[u] = given[u],
         \A q \in Procs : q # p => req'[q] = req[q] /\ pc'[q] = pc[q],
         req[p].tx # u, req'[p].tx # u
  PROVE  Payment(u)' = Payment(u)
<1>1. ASSUME NEW q \in Procs
      PROVE  (req[q].tx = u /\ Lands(q))' <=> (req[q].tx = u /\ Lands(q))
  BY DEF Lands, Writing
<1>2. Landing(u)' = Landing(u)
  BY <1>1, LandingLands DEF Landing, Lands, Writing
<1>3. \A q \in Landing(u) : req'[q] = req[q]
  BY DEF Landing
<1>4. Landing(u) # {} => (CHOOSE q \in Landing(u) : TRUE) \in Landing(u)
  OBVIOUS
<1> QED
  BY <1>2, <1>3, <1>4 DEF Payment, Landing, Status, Stored

(* A step that stores nothing, and neither starts nor stops p's landing.   *)
LEMMA QuietPayment ==
  ASSUME NEW p \in Procs, UNCHANGED <<transactions, given>>,
         \A q \in Procs : q # p => req'[q] = req[q] /\ pc'[q] = pc[q],
         Lands(p)' <=> Lands(p),
         Lands(p) => req'[p] = req[p]
  PROVE  \A u \in Txs : Payment(u)' = Payment(u)
<1> TAKE u \in Txs
<1>1. ASSUME NEW q \in Procs
      PROVE  (req[q].tx = u /\ Lands(q))' <=> (req[q].tx = u /\ Lands(q))
  <2>1. CASE q = p
    BY <2>1
  <2>2. CASE q # p
    BY <2>2 DEF Lands, Writing
  <2> QED
    BY <2>1, <2>2
<1>2. Landing(u)' = Landing(u)
  BY <1>1, LandingLands DEF Landing, Lands, Writing
<1>3. \A q \in Landing(u) : req'[q] = req[q]
  BY LandingLands
<1>4. Landing(u) # {} => (CHOOSE q \in Landing(u) : TRUE) \in Landing(u)
  OBVIOUS
<1> QED
  BY <1>2, <1>3, <1>4 DEF Payment, Landing, Status, Stored

(* The three steps of the life cycle that the service takes.               *)
Payments == [t \in Txs |-> Payment(t)]

LEMMA OpenStep ==
  ASSUME NEW t \in Txs, Payment(t) = Lifecycle!NoPayment, NEW a, a > 0,
         Payment(t)' = [status |-> "pending", amount |-> a, refunded |-> 0, given |-> 0],
         \A u \in Txs : u # t => Payment(u)' = Payment(u)
  PROVE  Lifecycle!Next
<1>1. Lifecycle!Open(t, a)
  BY DEF Lifecycle!Open
<1> QED
  BY <1>1 DEF Lifecycle!Next

LEMMA MoveStep ==
  ASSUME NEW t \in Txs, NEW op \in StatusOps, NEW amount, NEW refunded, NEW back, NEW old,
         CanTransitionTo(old, Target(op)),
         Payment(t) = [status |-> old, amount |-> amount, refunded |-> refunded, given |-> back],
         Payment(t)' = [status |-> Target(op), amount |-> amount, refunded |-> refunded,
                        given |-> back],
         \A u \in Txs : u # t => Payment(u)' = Payment(u)
  PROVE  Lifecycle!Next
<1>1. ASSUME NEW from, old \in from PROVE Lifecycle!Move(t, from, Target(op))
  <2>1. [Payment(t) EXCEPT !.status = Target(op)] = Payment(t)'
    OBVIOUS
  <2>2. Payments[t].status \in from
    BY <1>1 DEF Payments
  <2>3. Payments' = [Payments EXCEPT ![t] = [Payments[t] EXCEPT !.status = Target(op)]]
    BY <2>1 DEF Payments
  <2> QED
    BY <2>2, <2>3 DEF Lifecycle!Move, Payments
<1>2. \/ op = "authorize" /\ old \in {"pending"}
      \/ op = "complete" /\ old \in {"authorized"}
      \/ op \in {"fail", "cancel"} /\ old \in {"pending", "authorized"}
  BY DEF CanTransitionTo, ValidTransitions, Target, StatusOps
<1> QED
  BY <1>1, <1>2 DEF Lifecycle!Next, Lifecycle!Authorize, Lifecycle!Complete, Lifecycle!Fail,
                    Lifecycle!Cancel, Target

LEMMA RefundStep ==
  ASSUME NEW t \in Txs, NEW amount, NEW before, NEW total, total <= amount,
         NEW was, NEW back, back \in Int64 => total = back,
         Payment(t) = [status |-> "completed", amount |-> amount, refunded |-> before,
                       given |-> was],
         Payment(t)' = [status |-> IF total = amount THEN "refunded" ELSE "completed",
                        amount |-> amount, refunded |-> total, given |-> back],
         \A u \in Txs : u # t => Payment(u)' = Payment(u)
  PROVE  Lifecycle!Next
<1> DEFINE status == IF total = amount THEN "refunded" ELSE "completed"
           counted == [status |-> "completed", amount |-> amount, refunded |-> total,
                       given |-> was]
           paid == [status |-> "completed", amount |-> amount, refunded |-> total,
                    given |-> back]
<1>1. /\ [Payment(t) EXCEPT !.refunded = total] = counted
      /\ [counted EXCEPT !.given = back] = paid
  OBVIOUS
<1>2. [paid EXCEPT !.status = status] = Payment(t)'
  <2> HIDE DEF status
  <2>1. [paid EXCEPT !.status = status]
          = [status |-> status, amount |-> amount, refunded |-> total, given |-> back]
    OBVIOUS
  <2> QED
    BY <2>1 DEF status
<1>3. [[[Payment(t) EXCEPT !.refunded = total] EXCEPT !.given = back] EXCEPT !.status = status]
        = Payment(t)'
  <2> HIDE DEF counted, paid, status
  <2> QED
    BY <1>1, <1>2
<1>4. Payments[t].status = "completed" /\ Payments[t].amount = amount
  BY DEF Payments
<1>5. Payments' = [Payments EXCEPT ![t] =
                     [[[Payments[t] EXCEPT !.refunded = total] EXCEPT !.given = back]
                        EXCEPT !.status = status]]
  BY <1>3 DEF Payments
<1>6. Payments' = [Payments EXCEPT ![t].refunded = total, ![t].given = back, ![t].status = status]
  BY <1>5 DEF Payments
<1>7. Lifecycle!Refund(t, total, back)
  BY <1>4, <1>6 DEF Lifecycle!Refund, Payments, Int64
<1>8. Payments'[t].refunded = total /\ Payments'[t].given = back
  BY DEF Payments
<1> QED
  BY <1>7, <1>8 DEF Lifecycle!Next, Payments

Stutters == \A u \in Txs : Payment(u)' = Payment(u)

LEMMA CreateRefines ==
  ASSUME LInv, RInv, NEW p \in Procs, Create(p)
  PROVE  Lifecycle!Next \/ Stutters
<1>1. SInv /\ TypeOK
  BY DEF LInv, SInv, IInv
<1>2. CASE StoreCreated(p)
  <2>1. /\ pc[p] = "create" /\ pc'[p] = "idle" /\ req'[p].tx = NoTx
        /\ \A q \in Procs : q # p => req'[q] = req[q] /\ pc'[q] = pc[q]
    BY <1>1, <1>2 DEF StoreCreated, Return, NoReq, TypeOK
  <2>2. PICK t \in Txs : t = req[p].tx /\ \A q \in Procs : q # p => req[q].tx # t
    BY <1>1, <2>1, Works
  <2>3. ~transactions[t].stored /\ req[p].amount > 0
    BY <1>1, <2>1, <2>2 DEF SInv, IInv, ReqOK, Creating
  <2>4. /\ \A u \in Txs : u # t => transactions'[u] = transactions[u]
        /\ transactions'[t] = [key |-> req[p].key, amount |-> req[p].amount,
                               status |-> Word("pending"), refunded |-> 0, stored |-> TRUE]
        /\ given' = given /\ given[t] = 0
    BY <1>1, <1>2, <2>2, <2>3 DEF StoreCreated, TypeOK, RInv, Recorded
  <2>5. \A u \in Txs : u # t => Payment(u)' = Payment(u)
    <3> TAKE u \in Txs
    <3>1. NoTx # u
      BY ConstantsAssumption
    <3> QED
      BY <2>1, <2>2, <2>4, <3>1, OthersPayment
  <2>6. Payment(t) = Lifecycle!NoPayment
    BY <2>3 DEF Payment, Landing, Status, Stored, Lifecycle!NoPayment
  <2>7. Payment(t)' = [status |-> "pending", amount |-> req[p].amount, refunded |-> 0,
                     given |-> 0]
    <3>1. Landing(t)' = {}
      BY <2>1, <2>2, ConstantsAssumption DEF Landing
    <3>2. /\ transactions'[t].stored /\ transactions'[t].amount = req[p].amount
          /\ transactions'[t].refunded = 0 /\ transactions'[t].status = Word("pending")
          /\ given'[t] = 0
      BY <2>4
    <3>3. Status(t)' = "pending"
      BY <3>2 DEF Status, Text, Word
    <3> QED
      BY <2>2, <3>1, <3>2, <3>3, PaymentFreeNext
  <2> QED
    BY <2>2, <2>3, <2>5, <2>6, <2>7, OpenStep
<1>3. CASE ~StoreCreated(p)
  <2>1. /\ UNCHANGED <<transactions, given>>
        /\ pc[p] \in {"idle", "create", "relookup"}
        /\ pc'[p] \in {"idle", "create", "relookup"}
        /\ \A q \in Procs : q # p => req'[q] = req[q] /\ pc'[q] = pc[q]
    <3>1. ASSUME NEW k \in Keys \cup {NoKey}, NEW a \in Amounts, ReplayCreate(p, k, a)
          PROVE  <2>1
      BY <1>1, <3>1 DEF ReplayCreate
    <3>2. ASSUME NEW k \in Keys \cup {NoKey}, NEW a \in Amounts, NEW t \in Txs,
                 BeginCreate(p, k, a, t)
          PROVE  <2>1
      BY <1>1, <3>2 DEF BeginCreate, Goto, TypeOK
    <3>3. CASE RejectDuplicate(p) \/ AnswerExisting(p)
      BY <1>1, <3>3 DEF RejectDuplicate, AnswerExisting, Goto, Return, TypeOK
    <3> QED
      BY <1>3, <3>1, <3>2, <3>3 DEF Create
  <2>2. ~Lands(p) /\ ~Lands(p)'
    BY <2>1 DEF Lands, Writing
  <2> QED
    BY <2>1, <2>2, QuietPayment DEF Stutters
<1> QED
  BY <1>2, <1>3

(* The steps of an operation that store nothing.                           *)
LEMMA QuietRefines ==
  ASSUME LInv, NEW p \in Procs, ChangeStatus(p),
         ~StoreRefunded(p), ~WritePtr(p), ~WriteLen(p)
  PROVE  Stutters
<1>1. SInv /\ TypeOK /\ Underway(p)
  BY DEF LInv, SInv, IInv
<1>2. CASE SettleRefund(p)
  <2>1. /\ UNCHANGED <<transactions, given>> /\ req' = req
        /\ pc[p] = "settle"
        /\ pc'[p] = IF FullyRefunded(transactions[req[p].tx]) THEN "write" ELSE "update"
        /\ \A q \in Procs : q # p => req'[q] = req[q] /\ pc'[q] = pc[q]
    BY <1>1, <1>2 DEF SettleRefund, Goto, TypeOK
  <2>2. req[p].op = "refund"
    BY <1>1, <2>1 DEF Underway
  <2>3. Lands(p)' <=> Lands(p)
    BY <2>1, <2>2 DEF Lands, Writing
  <2> QED
    BY <2>1, <2>3, QuietPayment DEF Stutters
<1>3. CASE ~SettleRefund(p)
  <2>1. /\ UNCHANGED <<transactions, given>>
        /\ ~Lands(p) /\ ~Lands(p)'
        /\ \A q \in Procs : q # p => req'[q] = req[q] /\ pc'[q] = pc[q]
    <3>1. ASSUME NEW op, NEW t \in Txs, NEW a, BeginOp(p, op, t, a)
          PROVE  <2>1
      BY <1>1, <3>1 DEF BeginOp, Goto, TypeOK, Lands, Writing
    <3>2. CASE CheckStatus(p)
      <4>1. /\ UNCHANGED <<transactions, given>>
            /\ pc[p] = "check"
            /\ pc'[p] \in {"idle", "limit"} \/ (pc'[p] = "write" /\ req'[p].op # "refund")
            /\ \A q \in Procs : q # p => req'[q] = req[q] /\ pc'[q] = pc[q]
        BY <1>1, <3>2 DEF CheckStatus, Goto, Return, TypeOK
      <4> QED
        BY <4>1 DEF Lands, Writing
    <3>3. CASE CheckLimit(p) \/ LoadRefunded(p)
      BY <1>1, <3>3 DEF CheckLimit, LoadRefunded, Goto, Return, TypeOK, Lands, Writing
    <3>4. CASE Update(p)
      BY <1>1, <3>4 DEF Update, Return, TypeOK, Lands, Writing
    <3> QED
      BY <1>3, <3>1, <3>2, <3>3, <3>4 DEF ChangeStatus
  <2> QED
    BY <2>1, QuietPayment DEF Stutters
<1> QED
  BY <1>2, <1>3

LEMMA StoreRefundedRefines ==
  ASSUME LInv, LInv', RInv', NEW p \in Procs, StoreRefunded(p)
  PROVE  Lifecycle!Next
<1>1. SInv /\ TypeOK /\ Underway(p)
  BY DEF LInv, SInv, IInv
<1>2. /\ pc[p] = "add" /\ pc'[p] = "settle" /\ req' = req
      /\ \A q \in Procs : q # p => req'[q] = req[q] /\ pc'[q] = pc[q]
  BY <1>1 DEF StoreRefunded, Goto, TypeOK
<1>3. PICK t \in Txs : t = req[p].tx /\ \A q \in Procs : q # p => req[q].tx # t
  BY <1>1, <1>2, Works
<1> DEFINE total == transactions'[t].refunded
<1>4. /\ \A u \in Txs : u # t => transactions'[u] = transactions[u]
      /\ transactions'[t].status = transactions[t].status
      /\ transactions'[t].stored = transactions[t].stored
      /\ transactions'[t].amount = transactions[t].amount
      /\ \A u \in Txs : u # t => given'[u] = given[u]
  BY <1>1, <1>3 DEF StoreRefunded, TypeOK
<1>5. req[p].op = "refund" /\ Status(t) = "completed" /\ Status(t)' = "completed"
  <2>1. req[p].op = "refund" /\ PtrOf(t) = "completed"
    BY <1>1, <1>2, <1>3 DEF Underway
  <2>2. Status(t) = "completed"
    BY <1>2, <1>3, <2>1, WholeUnlessWriting, WholeText
  <2> QED
    BY <1>4, <2>1, <2>2 DEF Status
<1>6. transactions[t].stored
  BY <1>1, <1>2, <1>3 DEF SInv, IInv, ReqOK, Creating
<1>7. /\ total \in Int /\ transactions'[t].amount \in Int
      /\ total <= transactions'[t].amount
      /\ given'[t] \in Int64 => total = given'[t]
  BY <1>3 DEF LInv, SInv, IInv, CounterWithin, TypeOK, RInv, Recorded, Int64
<1>8. \A u \in Txs : u # t => Payment(u)' = Payment(u)
  BY <1>2, <1>3, <1>4, OthersPayment
<1>9. Payment(t) = [status |-> "completed", amount |-> transactions[t].amount,
                    refunded |-> transactions[t].refunded, given |-> given[t]]
  <2>1. Landing(t) = {}
    BY <1>2, <1>3 DEF Landing
  <2> QED
    BY <1>3, <1>5, <1>6, <2>1, PaymentFree
<1>10. Payment(t)' = [status |-> IF total = transactions[t].amount THEN "refunded" ELSE "completed",
                      amount |-> transactions[t].amount, refunded |-> total,
                      given |-> given'[t]]
  <2>1. CASE total = transactions[t].amount
    <3>1. FullyRefunded(transactions'[t])
      BY <1>4, <1>7, <2>1 DEF FullyRefunded
    <3>2. Landing(t)' = {p}
      BY <1>2, <1>3, <3>1 DEF Landing
    <3>3. Payment(t)' = [status |-> Target(req'[p].op), amount |-> transactions'[t].amount,
                         refunded |-> total, given |-> given'[t]]
      BY <1>3, <1>4, <1>6, <3>2, PaymentLandingNext
    <3>4. Target(req'[p].op) = "refunded"
      BY <1>2, <1>5 DEF Target
    <3> QED
      BY <1>4, <2>1, <3>3, <3>4
  <2>2. CASE total # transactions[t].amount
    <3>1. ~FullyRefunded(transactions'[t])
      BY <1>4, <1>7, <2>2 DEF FullyRefunded
    <3>2. Landing(t)' = {}
      BY <1>2, <1>3, <3>1 DEF Landing
    <3>3. Payment(t)' = [status |-> Status(t)', amount |-> transactions'[t].amount,
                         refunded |-> total, given |-> given'[t]]
      BY <1>3, <1>4, <1>6, <3>2, PaymentFreeNext
    <3> QED
      BY <1>4, <1>5, <2>2, <3>3
  <2> QED
    BY <2>1, <2>2
<1> HIDE DEF total
<1> QED
  BY <1>3, <1>4, <1>7, <1>8, <1>9, <1>10, RefundStep

(* The first store of a status change is the change, unless it is a        *)
(* refund's, whose change came with its money; the second store is no step.*)
LEMMA WriteRefines ==
  ASSUME LInv, LInv', NEW p \in Procs, WritePtr(p) \/ WriteLen(p)
  PROVE  Lifecycle!Next \/ Stutters
<1>1. SInv /\ TypeOK /\ Underway(p) /\ Underway(p)'
  BY DEF LInv, SInv, IInv
<1>2. /\ pc[p] \in {"write", "ptr", "len"} /\ pc'[p] \in {"ptr", "len", "update"}
      /\ pc[p] = "write" <=> pc'[p] # "update"
      /\ req' = req
      /\ \A q \in Procs : q # p => req'[q] = req[q] /\ pc'[q] = pc[q]
  BY <1>1 DEF WritePtr, WriteLen, Goto, TypeOK
<1>3. PICK t \in Txs : t = req[p].tx /\ \A q \in Procs : q # p => req[q].tx # t
  BY <1>1, <1>2, Works
<1>4. /\ \A u \in Txs : u # t => transactions'[u] = transactions[u]
      /\ transactions'[t].stored = transactions[t].stored
      /\ transactions'[t].amount = transactions[t].amount
      /\ transactions'[t].refunded = transactions[t].refunded
      /\ given' = given
  BY <1>1, <1>3 DEF WritePtr, WriteLen, TypeOK
<1>5. transactions[t].stored
  BY <1>1, <1>2, <1>3 DEF SInv, IInv, ReqOK, Creating
<1>6. \A u \in Txs : u # t => Payment(u)' = Payment(u)
  BY <1>2, <1>3, <1>4, OthersPayment
<1> DEFINE was(s) == [status |-> s, amount |-> transactions[t].amount,
                      refunded |-> transactions[t].refunded, given |-> given[t]]
           target == Target(req[p].op)
<1>7. CASE pc[p] = "write"
  <2>1. Writing(p)'
    BY <1>2, <1>7 DEF Writing
  <2>2. Landing(t)' = {p}
    BY <1>2, <1>3, <2>1 DEF Landing, Writing
  <2>3. Payment(t)' = was(target)
    <3>1. Payment(t)' = [status |-> Target(req'[p].op), amount |-> transactions'[t].amount,
                         refunded |-> transactions'[t].refunded, given |-> given'[t]]
      BY <1>4, <1>5, <2>2, PaymentLandingNext
    <3>2. Target(req'[p].op) = target
      BY <1>2
    <3> QED
      BY <1>4, <3>1, <3>2
  <2>4. CASE req[p].op = "refund"
    <3>1. Landing(t) = {p}
      BY <1>3, <1>7, <2>4 DEF Landing
    <3>2. Payment(t) = was(target)
      BY <1>3, <1>5, <3>1, PaymentLanding
    <3> QED
      BY <1>6, <2>3, <3>2 DEF Stutters
  <2>5. CASE req[p].op # "refund"
    <3>1. Landing(t) = {}
      BY <1>3, <1>7, <2>5 DEF Landing
    <3>2. Status(t) = PtrOf(t)
      BY <1>3, <1>7, WholeUnlessWriting, WholeText
    <3>3. Payment(t) = was(PtrOf(t))
      BY <1>3, <1>5, <3>1, <3>2, PaymentFree
    <3>4. CanTransitionTo(PtrOf(t), target) /\ req[p].op \in StatusOps
      BY <1>1, <1>3, <1>7, <2>5 DEF Underway
    <3> QED
      BY <1>6, <2>3, <3>3, <3>4, MoveStep
  <2> QED
    BY <2>4, <2>5
<1>8. CASE pc[p] # "write"
  <2>1. Landing(t) = {p} /\ Landing(t)' = {}
    BY <1>2, <1>3, <1>8 DEF Landing
  <2>2. Payment(t) = was(target)
    BY <1>3, <1>5, <2>1, PaymentLanding
  <2>3. PtrOf(t)' = target /\ LenOf(t)' = target
    <3>1. CASE pc[p] = "ptr"
      <4>1. LenOf(t) = target
        BY <1>1, <1>3, <3>1 DEF Underway, Writing
      <4>2. WritePtr(p)
        BY <3>1 DEF WriteLen, Goto
      <4> QED
        BY <1>1, <1>3, <4>1, <4>2 DEF WritePtr, TypeOK, PtrOf, LenOf
    <3>2. CASE pc[p] = "len"
      <4>1. PtrOf(t) = target
        BY <1>1, <1>3, <3>2 DEF Underway, Writing
      <4>2. WriteLen(p)
        BY <3>2 DEF WritePtr, Goto
      <4> QED
        BY <1>1, <1>3, <4>1, <4>2 DEF WriteLen, TypeOK, PtrOf, LenOf
    <3> QED
      BY <1>2, <1>8, <3>1, <3>2
  <2>4. Status(t)' = target
    BY <2>3 DEF Status, Text, PtrOf, LenOf
  <2>5. Payment(t)' = was(target)
    BY <1>3, <1>4, <1>5, <2>1, <2>4, PaymentFreeNext
  <2> QED
    BY <1>6, <2>2, <2>5 DEF Stutters
<1> QED
  BY <1>7, <1>8

LEMMA InitRefines == Init => Lifecycle!Init
<1> SUFFICES ASSUME Init PROVE \A t \in Txs : Payment(t) = Lifecycle!NoPayment
  BY DEF Lifecycle!Init
<1> QED
  BY DEF Init, Absent, Payment, Landing, Status, Stored, Lifecycle!NoPayment

LEMMA NextRefines ==
  LInv /\ LInv' /\ RInv /\ RInv' /\ [Next /\ Exclusive']_vars => [Lifecycle!Next]_Payments
<1> SUFFICES ASSUME LInv, LInv', RInv, RInv', [Next /\ Exclusive']_vars
             PROVE  Lifecycle!Next \/ Stutters
  BY DEF Stutters, Payments
<1>1. ASSUME NEW p \in Procs, ChangeStatus(p) PROVE Lifecycle!Next \/ Stutters
  BY <1>1, QuietRefines, StoreRefundedRefines, WriteRefines
<1>2. CASE UNCHANGED vars
  BY <1>2 DEF vars, Stutters, Payment, Landing, Status, Stored
<1> QED
  BY <1>1, <1>2, CreateRefines DEF Next

(* When the calls on one transaction do not overlap, the service, with its *)
(* shared pointers, split reads and two-word statuses, implements the      *)
(* atomic payment life cycle.                                              *)
THEOREM Implements == SerializedSpec => ImplementsLifecycle
<1>1. LInv /\ LInv' /\ RInv /\ RInv' /\ [Next /\ Exclusive']_vars
        => [Lifecycle!Next]_[t \in Txs |-> Payment(t)]
  BY NextRefines DEF Payments
<1> QED
  BY <1>1, InitRefines, SerializedInvariance, RecordedInvariance, PTL
     DEF SerializedSpec, ImplementsLifecycle, Lifecycle!Spec

=============================================================================
