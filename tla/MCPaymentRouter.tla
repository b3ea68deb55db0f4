-------------------------- MODULE MCPaymentRouter --------------------------
(***************************************************************************)
(* The instances of PaymentRouter for TLC: Stripe is preferred by priority *)
(* and tried twice, PayPal takes one currency.                             *)
(***************************************************************************)
EXTENDS PaymentRouter

MCPriority == [p \in Providers |-> IF p = "stripe" THEN 1 ELSE 2]
MCMaxRetries == [p \in Providers |-> IF p = "stripe" THEN 2 ELSE 0]
MCCurrencies == [p \in Providers |-> IF p = "stripe" THEN {} ELSE {"USD"}]

Payment(key, preferred, currency, amount) ==
  [kind |-> "payment", key |-> key, preferred |-> preferred, currency |-> currency, amount |-> amount]
Refund(provider, currency, amount) ==
  [kind |-> "refund", key |-> None, preferred |-> provider, currency |-> currency, amount |-> amount]

(* Payments with a key, without, by the provider that is not first, of an  *)
(* amount Stripe's client rejects, in a currency only Stripe takes; and a  *)
(* partial refund that lacks its currency.                                 *)
MCRequests ==
  {Payment("key", None, "USD", 5), Payment("key", "paypal", "USD", 5),
   Payment(None, None, "EUR", 0), Refund("paypal", None, 5)}

(* Calls are interchangeable, and no liveness is checked.                  *)
CallSymmetry == Permutations(Calls)
=============================================================================
