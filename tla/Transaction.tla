---------------------------- MODULE Transaction ----------------------------
(***************************************************************************)
(* The transaction service (services/transaction): the in-memory           *)
(* repository and the operations of TransactionService, one goroutine per  *)
(* HTTP request.                                                           *)
(*                                                                         *)
(* The repository's mutex covers a single repository call.  GetByID hands  *)
(* out the stored pointer, so an operation reads and writes the shared     *)
(* transaction between its repository calls with no lock held; each such   *)
(* load and store is a step here.  A TransactionStatus is a Go string, two *)
(* machine words (pointer and length) that an assignment stores one after  *)
(* the other, so a racing reader or writer can leave the words of two      *)
(* different statuses together.                                            *)
(***************************************************************************)
EXTENDS Integers

CONSTANTS
  Procs,          \* goroutines serving requests
  Txs,            \* transaction IDs generateID can return (bounds the model)
  NoTx,           \* absence of a transaction
  Keys,           \* idempotency keys
  NoKey,          \* the empty idempotency key
  Amounts,        \* amounts of the create requests
  RefundAmounts,  \* amounts of the refund requests
  MaxInt          \* greatest value of the int64 amounts

ASSUME ConstantsAssumption ==
  /\ NoTx \notin Txs
  /\ NoKey \notin Keys
  /\ MaxInt \in Nat
  /\ Amounts \subseteq Int
  /\ RefundAmounts \subseteq Int

VARIABLES
  transactions,     \* InMemoryRepository.transactions, by ID
  idempotencyKeys,  \* InMemoryRepository.idempotencyKeys, key to ID
  pc,               \* the next step of each goroutine
  req,              \* the arguments and locals of the call it is serving
  answers,          \* history: the <<key, ID>> pairs CreateTransaction returned
  given             \* history: the sum of the refunds made of each transaction,
                    \* kept until it fits no int64

vars == <<transactions, idempotencyKeys, pc, req, answers, given>>

-----------------------------------------------------------------------------
(* The statuses and the table of legal transitions (models/transaction.go). *)

Statuses == {"pending", "authorized", "completed", "failed", "cancelled", "refunded"}

(* Definitions whose name ends in _Mutant are plausible bugs: each takes    *)
(* the place of the definition it follows in name, to show that the        *)
(* property it is paired with can fail.                                    *)
ValidTransitions_RevivingMutant(s) ==
  CASE s = "pending"    -> {"authorized", "failed", "cancelled"}
    [] s = "authorized" -> {"completed", "failed", "cancelled"}
    [] s = "completed"  -> {"refunded"}
    [] s = "failed"     -> {"authorized"}
    [] OTHER            -> {}

ValidTransitions_SkippingMutant(s) ==
  CASE s = "pending"    -> {"authorized", "completed", "failed", "cancelled"}
    [] s = "authorized" -> {"completed", "failed", "cancelled"}
    [] s = "completed"  -> {"refunded"}
    [] OTHER            -> {}

ValidTransitions(s) ==
  CASE s = "pending"    -> {"authorized", "failed", "cancelled"}
    [] s = "authorized" -> {"completed", "failed", "cancelled"}
    [] s = "completed"  -> {"refunded"}
    [] OTHER            -> {}

(* A status that is no key of the table transitions nowhere. *)
CanTransitionTo(s, target) == target \in ValidTransitions(s)

TextLen(s) ==
  CASE s = "pending" -> 7
    [] s = "authorized" -> 10
    [] s \in {"completed", "cancelled"} -> 9
    [] s = "failed" -> 6
    [] OTHER -> 8

(* A Go string: whose bytes ptr points at, and whose length len holds.  No *)
(* status is a prefix of another, so words of different lengths that do    *)
(* not belong together read as a text that is no status at all.            *)
Word(s) == [ptr |-> s, len |-> s]
Text(w) == IF TextLen(w.ptr) = TextLen(w.len) THEN w.ptr ELSE "torn"

(* int64 arithmetic. *)
Int64 == -MaxInt - 1 .. MaxInt
Wrap(n) == ((n + MaxInt + 1) % (2 * MaxInt + 2)) - MaxInt - 1

-----------------------------------------------------------------------------

StatusOps == {"authorize", "complete", "fail", "cancel"}
Target(op) ==
  CASE op = "authorize" -> "authorized"
    [] op = "complete"  -> "completed"
    [] op = "fail"      -> "failed"
    [] op = "cancel"    -> "cancelled"
    [] OTHER            -> "refunded"

Absent == [key |-> NoKey, amount |-> 0, status |-> Word("pending"),
           refunded |-> 0, stored |-> FALSE]

NoReq == [op |-> "none", tx |-> NoTx, key |-> NoKey, amount |-> 0, seen |-> 0]

Init ==
  /\ transactions = [t \in Txs |-> Absent]
  /\ idempotencyKeys = [k \in Keys |-> NoTx]
  /\ pc = [p \in Procs |-> "idle"]
  /\ req = [p \in Procs |-> NoReq]
  /\ answers = {}
  /\ given = [t \in Txs |-> 0]

Stored == {t \in Txs : transactions[t].stored}
Indexed(k) == k # NoKey /\ idempotencyKeys[k] # NoTx

(* generateID draws 16 random bytes: an ID nobody else holds. *)
Fresh(t) == t \notin Stored /\ \A p \in Procs : req[p].tx # t

Goto(p, from, to) == pc[p] = from /\ pc' = [pc EXCEPT ![p] = to]

Return(p) ==
  /\ pc' = [pc EXCEPT ![p] = "idle"]
  /\ req' = [req EXCEPT ![p] = NoReq]

-----------------------------------------------------------------------------
(* CreateTransaction.  Requests with an unsupported currency or payment    *)
(* method are turned away before they touch any state and are left out.    *)

ValidCreateRequest(a) == a > 0

Answer(k, t) == answers' = IF k = NoKey THEN answers ELSE answers \cup {<<k, t>>}

(* The lookup finds the key: the existing transaction is the answer.       *)
ReplayCreate(p, k, a) ==
  /\ pc[p] = "idle"
  /\ ValidCreateRequest(a)
  /\ Indexed(k)
  /\ Answer(k, idempotencyKeys[k])
  /\ UNCHANGED <<transactions, idempotencyKeys, pc, req, given>>

(* The lookup misses (or there is no key): an ID is drawn and the          *)
(* transaction built, the repository lock being free in between.           *)
BeginCreate(p, k, a, t) ==
  /\ ValidCreateRequest(a)
  /\ ~Indexed(k)
  /\ Fresh(t)
  /\ Goto(p, "idle", "create")
  /\ req' = [req EXCEPT ![p] = [op |-> "create", tx |-> t, key |-> k, amount |-> a, seen |-> 0]]
  /\ UNCHANGED <<transactions, idempotencyKeys, answers, given>>

(* repo.Create, under the lock: the key is taken, nothing is stored.       *)
RejectDuplicate(p) ==
  /\ Indexed(req[p].key)
  /\ Goto(p, "create", "relookup")
  /\ UNCHANGED <<transactions, idempotencyKeys, req, answers, given>>

StoreCreated_Mutant(p) ==
  LET r == req[p] IN
  /\ pc[p] = "create"
  /\ transactions' = [transactions EXCEPT ![r.tx] =
                        [key |-> r.key, amount |-> r.amount, status |-> Word("pending"),
                         refunded |-> 0, stored |-> TRUE]]
  /\ idempotencyKeys' = [k \in Keys |-> IF k = r.key THEN r.tx ELSE idempotencyKeys[k]]
  /\ Answer(r.key, r.tx)
  /\ Return(p)
  /\ UNCHANGED given

(* repo.Create, under the lock: the key and the transaction are stored.    *)
StoreCreated(p) ==
  LET r == req[p] IN
  /\ pc[p] = "create"
  /\ ~Indexed(r.key)
  /\ transactions' = [transactions EXCEPT ![r.tx] =
                        [key |-> r.key, amount |-> r.amount, status |-> Word("pending"),
                         refunded |-> 0, stored |-> TRUE]]
  /\ idempotencyKeys' = [k \in Keys |-> IF k = r.key THEN r.tx ELSE idempotencyKeys[k]]
  /\ Answer(r.key, r.tx)
  /\ Return(p)
  /\ UNCHANGED given

(* The losing creator looks the key up again and returns the winner.       *)
AnswerExisting(p) ==
  /\ pc[p] = "relookup"
  /\ Answer(req[p].key, idempotencyKeys[req[p].key])
  /\ Return(p)
  /\ UNCHANGED <<transactions, idempotencyKeys, given>>

-----------------------------------------------------------------------------
(* Authorize, Complete, Fail, Cancel and Refund.                           *)

(* GetByID: the caller now holds a pointer to the stored transaction.      *)
BeginOp(p, op, t, a) ==
  /\ t \in Stored
  /\ Goto(p, "idle", "check")
  /\ req' = [req EXCEPT ![p] = [op |-> op, tx |-> t, key |-> NoKey, amount |-> a, seen |-> 0]]
  /\ UNCHANGED <<transactions, idempotencyKeys, answers, given>>

(* tx.Status.CanTransitionTo(target), read without a lock.                 *)
CheckStatus(p) ==
  LET allowed == CanTransitionTo(Text(transactions[req[p].tx].status), Target(req[p].op)) IN
  /\ pc[p] = "check"
  /\ \/ /\ allowed
        /\ Goto(p, "check", IF req[p].op = "refund" THEN "limit" ELSE "write")
        /\ UNCHANGED req
     \/ /\ ~allowed
        /\ Return(p)
  /\ UNCHANGED <<transactions, idempotencyKeys, answers, given>>

RefundAmount(p) == IF req[p].amount = 0 THEN transactions[req[p].tx].amount
                                        ELSE req[p].amount

FitsIn_Mutant(tx, r) == r <= tx.amount
FitsIn(tx, r) == Wrap(tx.refunded + r) <= tx.amount

(* "Check refund doesn't exceed original amount", read without a lock.     *)
CheckLimit(p) ==
  LET fits == FitsIn(transactions[req[p].tx], RefundAmount(p)) IN
  /\ pc[p] = "limit"
  /\ \/ /\ fits
        /\ Goto(p, "limit", "load")
        /\ UNCHANGED req
     \/ /\ ~fits
        /\ Return(p)
  /\ UNCHANGED <<transactions, idempotencyKeys, answers, given>>

(* tx.RefundedAmount += refundAmount is a load ...                         *)
LoadRefunded(p) ==
  /\ Goto(p, "load", "add")
  /\ req' = [req EXCEPT ![p].seen = transactions[req[p].tx].refunded]
  /\ UNCHANGED <<transactions, idempotencyKeys, answers, given>>

(* ... and a store.                                                        *)
StoreRefunded(p) ==
  /\ Goto(p, "add", "settle")
  /\ transactions' = [transactions EXCEPT ![req[p].tx].refunded =
                        Wrap(req[p].seen + RefundAmount(p))]
  /\ given' = [given EXCEPT ![req[p].tx] = IF @ \in Int64 THEN @ + RefundAmount(p) ELSE @]
  /\ UNCHANGED <<idempotencyKeys, req, answers>>

FullyRefunded_Mutant(tx) == tx.refunded > tx.amount
FullyRefunded(tx) == tx.refunded >= tx.amount

(* A fully refunded transaction changes status, a partly refunded one not. *)
SettleRefund(p) ==
  /\ Goto(p, "settle", IF FullyRefunded(transactions[req[p].tx]) THEN "write" ELSE "update")
  /\ UNCHANGED <<transactions, idempotencyKeys, req, answers, given>>

(* tx.Status = target: one word, then the other, in the order the compiler *)
(* chose.                                                                  *)
WritePtr(p) ==
  /\ \/ Goto(p, "write", "len")
     \/ Goto(p, "ptr", "update")
  /\ transactions' = [transactions EXCEPT ![req[p].tx].status.ptr = Target(req[p].op)]
  /\ UNCHANGED <<idempotencyKeys, req, answers, given>>

WriteLen(p) ==
  /\ \/ Goto(p, "write", "ptr")
     \/ Goto(p, "len", "update")
  /\ transactions' = [transactions EXCEPT ![req[p].tx].status.len = Target(req[p].op)]
  /\ UNCHANGED <<idempotencyKeys, req, answers, given>>

(* repo.Update stores the pointer it was read from: only UpdatedAt moves.  *)
Update(p) ==
  /\ pc[p] = "update"
  /\ req[p].tx \in Stored
  /\ Return(p)
  /\ UNCHANGED <<transactions, idempotencyKeys, answers, given>>

-----------------------------------------------------------------------------

Create(p) ==
  \/ \E k \in Keys \cup {NoKey}, a \in Amounts :
       \/ ReplayCreate(p, k, a)
       \/ \E t \in Txs : BeginCreate(p, k, a, t)
  \/ RejectDuplicate(p)
  \/ StoreCreated(p)
  \/ AnswerExisting(p)

ChangeStatus(p) ==
  \/ \E op \in StatusOps, t \in Txs : BeginOp(p, op, t, 0)
  \/ \E a \in RefundAmounts, t \in Txs : BeginOp(p, "refund", t, a)
  \/ CheckStatus(p)
  \/ CheckLimit(p)
  \/ LoadRefunded(p)
  \/ StoreRefunded(p)
  \/ SettleRefund(p)
  \/ WritePtr(p)
  \/ WriteLen(p)
  \/ Update(p)

Next == \E p \in Procs : Create(p) \/ ChangeStatus(p)

Spec == Init /\ [][Next]_vars

(* At most one call at a time works on any one transaction.  Nothing in    *)
(* the code enforces it: it is what a per-transaction lock would give, and *)
(* what a client that waits for its answer before its next call gives.     *)
Exclusive == \A p, q \in Procs : p # q /\ req[p].tx # NoTx => req[p].tx # req[q].tx

SerializedSpec == Init /\ [][Next /\ Exclusive']_vars

-----------------------------------------------------------------------------
(* Properties.                                                             *)

Status(t) == Text(transactions[t].status)

PCs == {"idle", "create", "relookup", "check", "limit", "load", "add", "settle",
        "write", "ptr", "len", "update"}
Ops == StatusOps \cup {"none", "create", "refund"}

TypeOK ==
  /\ transactions \in [Txs -> [key : Keys \cup {NoKey}, amount : Int,
                               status : [ptr : Statuses, len : Statuses],
                               refunded : Int, stored : BOOLEAN]]
  /\ idempotencyKeys \in [Keys -> Txs \cup {NoTx}]
  /\ pc \in [Procs -> PCs]
  /\ req \in [Procs -> [op : Ops, tx : Txs \cup {NoTx}, key : Keys \cup {NoKey},
                        amount : Int, seen : Int]]
  /\ answers \subseteq (Keys \X Txs)
  /\ given \in [Txs -> Int]

(* Retrying a create with the same key never makes a second charge, even   *)
(* when the retries overlap: a key has one stored transaction, the index   *)
(* names it, and every call with that key was answered with it.            *)
OneChargePerKey ==
  /\ \A k \in Keys, t \in Txs :
       transactions[t].stored /\ transactions[t].key = k => idempotencyKeys[k] = t
  /\ \A k \in Keys : idempotencyKeys[k] # NoTx =>
       /\ transactions[idempotencyKeys[k]].stored
       /\ transactions[idempotencyKeys[k]].key = k
  /\ \A a \in answers : idempotencyKeys[a[1]] = a[2]

(* The goroutine that is past the checks of a refund of t and has not yet  *)
(* finished writing its effects.                                           *)
Refunding(t) == {p \in Procs : req[p].tx = t /\ req[p].op = "refund"
                               /\ pc[p] \in {"settle", "write", "ptr", "len"}}

(* RefundTransaction checks the wrapped sum on its books and nothing else: *)
(* as long as the sum of the refunds made of a transaction fits an int64,  *)
(* the books hold it, and it is no more than was paid.                     *)
RefundWithinAmount ==
  \A t \in Txs : given[t] \in Int64 =>
    /\ transactions[t].refunded = given[t]
    /\ given[t] <= transactions[t].amount

(* "Check refund doesn't exceed original amount" (transaction_service.go): *)
(* no more is given back of a transaction than was paid.  The code does not*)
(* keep this promise: two overlapping refunds break it, and so does a sum  *)
(* that wraps.                                                             *)
NeverGivesBackMore == \A t \in Txs : given[t] <= transactions[t].amount

(* Books and status agree whenever no refund is between its two writes: a  *)
(* transaction is "refunded" exactly when its books say that all of it was *)
(* given back, and only one that was completed has a refund on its books.  *)
RefundMatchesStatus ==
  \A t \in Stored : Refunding(t) = {} =>
    /\ Status(t) = "refunded" <=> transactions[t].refunded = transactions[t].amount
    /\ transactions[t].refunded # 0 => Status(t) \in {"completed", "refunded"}

(* "failed", "cancelled" and "refunded" have no entry in ValidTransitions  *)
(* ("defines allowed state transitions"): a transaction never leaves them. *)
Final == {"failed", "cancelled", "refunded"}
FinalIsFinal ==
  [][\A t \in Stored : Status(t) \in Final => Status(t)' = Status(t)]_vars

-----------------------------------------------------------------------------
(* The abstract payment, with the effects of an operation that has begun   *)
(* its last writes already in place.                                       *)

Landing(t) == {p \in Procs : /\ req[p].tx = t
                             /\ \/ pc[p] \in {"ptr", "len"}
                                \/ req[p].op = "refund" /\ pc[p] = "write"
                                \/ pc[p] = "settle" /\ FullyRefunded(transactions[t])}

Payment(t) ==
  IF t \notin Stored THEN [status |-> "none", amount |-> 0, refunded |-> 0, given |-> 0]
  ELSE [status |-> IF Landing(t) = {} THEN Status(t)
                   ELSE Target(req[CHOOSE p \in Landing(t) : TRUE].op),
        amount |-> transactions[t].amount,
        refunded |-> transactions[t].refunded,
        given |-> given[t]]

Lifecycle == INSTANCE PaymentLifecycle WITH payment <- [t \in Txs |-> Payment(t)]

(* With calls on one transaction serialised, the service implements the    *)
(* payment life cycle.                                                     *)
ImplementsLifecycle == Lifecycle!Spec
=============================================================================
