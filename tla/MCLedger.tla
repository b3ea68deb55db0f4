------------------------------ MODULE MCLedger ------------------------------
(***************************************************************************)
(* An instance of Ledger for TLC.  Integers have 4 bits, so that a journal *)
(* of three large debits overflows; the requests include those the service *)
(* turns away at each of its checks, one that uses an account which may    *)
(* not exist yet, one that names an account twice, and one with an unknown *)
(* entry type.                                                             *)
(***************************************************************************)
EXTENDS Ledger

MCSystem == {"acc_cash", "acc_customer_deposits", "acc_refunds", "acc_receivables",
             "acc_fees"}
MCDebitNormal == {"acc_cash", "acc_refunds", "acc_receivables"}

MCRequests == {
  RecordPayment(2),
  RecordFee(1),
  RecordPayment(-1),
  SubSeq(RecordPayment(2), 1, 1),
  RecordPayment(2) \o RecordRefund(1),
  Pair("acc_cash", "acc_new", 1),
  Pair("acc_cash", "acc_cash", 1),
  <<[account |-> "acc_cash", type |-> "debit", amount |-> 1],
    [account |-> "acc_new", type |-> "other", amount |-> 1]>>,
  <<[account |-> "acc_cash", type |-> "debit", amount |-> 2],
    [account |-> "acc_customer_deposits", type |-> "credit", amount |-> 1]>>,
  <<[account |-> "acc_cash", type |-> "debit", amount |-> MaxInt],
    [account |-> "acc_cash", type |-> "debit", amount |-> MaxInt],
    [account |-> "acc_refunds", type |-> "debit", amount |-> 3],
    [account |-> "acc_customer_deposits", type |-> "credit", amount |-> 1]>>
}
=============================================================================
