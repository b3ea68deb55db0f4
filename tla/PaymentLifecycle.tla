-------------------------- MODULE PaymentLifecycle --------------------------
(***************************************************************************)
(* What the transaction service promises of one payment, whatever the      *)
(* number of handlers working on it: a payment is opened once, moves along *)
(* the life cycle of the API documentation, and its books follow the money *)
(* given back, at most what it took, as long as that sum fits an int64.    *)
(* (Once it does not, a refund that the books allow may give back any      *)
(* amount: this is the promise of the code, not that of its comments.)     *)
(* Every step here is atomic; module Transaction refines it with the loads,*)
(* stores and locks of the Go code.                                        *)
(***************************************************************************)
EXTENDS Integers

CONSTANTS
  Txs,     \* identities a payment can have
  NoTx,    \* no payment
  MaxInt   \* greatest value of the int64 amounts

VARIABLE payment   \* what each identity stands for: NoPayment until it is opened

NoPayment == [status |-> "none", amount |-> 0, refunded |-> 0, given |-> 0]

Init == payment = [t \in Txs |-> NoPayment]

Open(t, a) ==
  /\ payment[t] = NoPayment
  /\ a > 0
  /\ payment' = [payment EXCEPT ![t] =
                   [status |-> "pending", amount |-> a, refunded |-> 0, given |-> 0]]

(* The steps that do not give money back. *)
Move(t, from, to) ==
  /\ payment[t].status \in from
  /\ payment' = [payment EXCEPT ![t].status = to]

Authorize(t) == Move(t, {"pending"}, "authorized")
Complete(t)  == Move(t, {"authorized"}, "completed")
Fail(t)      == Move(t, {"pending", "authorized"}, "failed")
Cancel(t)    == Move(t, {"pending", "authorized"}, "cancelled")

(* Only a completed payment is refunded.  Its books never exceed its amount*)
(* and say what has been given back, if an int64 can; it becomes "refunded"*)
(* exactly when they say everything.                                       *)
Refund(t, total, back) ==
  /\ payment[t].status = "completed"
  /\ total <= payment[t].amount
  /\ back \in -MaxInt - 1 .. MaxInt => total = back
  /\ payment' = [payment EXCEPT
                   ![t].refunded = total,
                   ![t].given = back,
                   ![t].status = IF total = payment[t].amount
                                   THEN "refunded" ELSE "completed"]

(* The inputs range over Int: the step fixes them, so they are read off    *)
(* the next state instead of being enumerated.                             *)
Next == \E t \in Txs :
          \/ Open(t, payment'[t].amount)
          \/ Authorize(t) \/ Complete(t) \/ Fail(t) \/ Cancel(t)
          \/ Refund(t, payment'[t].refunded, payment'[t].given)

Spec == Init /\ [][Next]_payment
=============================================================================
