--------------------------- MODULE PaymentRouter ---------------------------
(***************************************************************************)
(* The payment router (integrations/router) with its Stripe and PayPal     *)
(* clients: choice of providers, retries, failover, refunds, changes of    *)
(* the configuration, health checks and PayPal's cached access token.      *)
(*                                                                         *)
(* ProcessPayment holds the router's read lock only while it copies the    *)
(* configuration; Healthcheck holds it while it talks to the providers.    *)
(* A request to a provider is one step: what the provider did, and what    *)
(* the client made of the answer, which may say something else or be lost. *)
(***************************************************************************)
EXTENDS Integers, FiniteSetsExt, SequencesExt

CONSTANTS
  Calls,       \* goroutines in ProcessPayment or ProcessRefund, one call each
  Admins,      \* goroutines that register, enable and disable providers
  Checkers,    \* goroutines in Healthcheck
  Requests,    \* the payment and refund requests considered
  Priority,    \* ProviderConfig.Priority, by provider
  MaxRetries,  \* ProviderConfig.MaxRetries
  Currencies,  \* ProviderConfig.Currencies
  None         \* no preferred provider, no idempotency key, no currency, nobody

Providers == {"stripe", "paypal"}

(* A refund names its provider as the preferred one; amount 0 is a full    *)
(* refund.                                                                 *)
RequestOK(r) ==
  /\ r.kind \in {"payment", "refund"}
  /\ r.preferred \in Providers \cup {None}
  /\ r.kind = "refund" => r.preferred \in Providers /\ r.key = None
  /\ r.amount \in Int

ASSUME ConstantsAssumption ==
  /\ IsFiniteSet(Calls)
  /\ None \notin Providers \cup Calls \cup Checkers
  /\ Calls \cap Checkers = {} /\ Admins \cap (Calls \cup Checkers) = {}
  /\ Priority \in [Providers -> Int] /\ MaxRetries \in [Providers -> Int]
  /\ DOMAIN Currencies = Providers
  /\ \A r \in Requests : RequestOK(r)

VARIABLES
  registered,  \* the keys of Router.providers, for which a client exists
  enabled,     \* those with ProviderConfig.Enabled
  order,       \* Router.order
  reading,     \* the goroutines that hold Router.mu for reading
  token,       \* PayPal's client holds an accessToken before its tokenExpiry
  tokenLock,   \* who holds the PayPal client's mu for writing
  pc,          \* the next step of each goroutine
  req,         \* the request of each call
  route,       \* its providers that are left, the current one first
  attempt,     \* attempt in processWithProvider
  result,      \* what it returned: a provider, "no providers", "failed", or "none"
  made,        \* at the providers: operations carried out for a call (see Perform)
  seen,        \* at Stripe: idempotency keys that have been used
  tries,       \* history: the attempts of a call and how each ended
  eligible     \* history: the providers it might use when it started

routerVars == <<registered, enabled, order>>
tokenVars == <<token, tokenLock>>
callVars == <<req, route, attempt, result, tries, eligible>>
providerVars == <<made, seen>>
vars == <<routerVars, reading, tokenVars, pc, callVars, providerVars>>

Goroutines == Calls \cup Admins \cup Checkers

Init ==
  /\ registered = {} /\ enabled = {} /\ order = <<>>
  /\ reading = {}
  /\ token = FALSE /\ tokenLock = None
  /\ pc = [g \in Goroutines |-> "idle"]
  /\ req \in [Calls -> Requests]
  /\ route = [c \in Calls |-> <<>>]
  /\ attempt = [c \in Calls |-> 0]
  /\ result = [c \in Calls |-> "none"]
  /\ made = [p \in Providers |-> [c \in Calls |-> 0]]
  /\ seen = {}
  /\ tries = [c \in Calls |-> <<>>]
  /\ eligible = [c \in Calls |-> {}]

Goto(g, from, to) == pc[g] = from /\ pc' = [pc EXCEPT ![g] = to]

-----------------------------------------------------------------------------
(* Configuration, under Router.mu.                                         *)

(* The exchange sort starts from the random order of a map, so providers   *)
(* of equal priority may end up either way.                                *)
RebuildOrder_Mutant == order' \in SetToSeqs(enabled')
RebuildOrder ==
  order' \in {s \in SetToSeqs(enabled') :
                \A i, j \in DOMAIN s : i < j => Priority[s[i]] <= Priority[s[j]]}

(* Lock announces the writer, which keeps new readers out.                 *)
AskToConfigure(a) ==
  /\ Goto(a, "idle", "configure")
  /\ UNCHANGED <<routerVars, reading, tokenVars, callVars, providerVars>>

CanRead == \A a \in Admins : pc[a] # "configure"

(* Registering a provider again, which replaces its client, is left out.   *)
Register(p) ==
  /\ p \notin registered
  /\ registered' = registered \cup {p}
  /\ enabled' \in {enabled, enabled \cup {p}}
  /\ RebuildOrder

EnableProvider(p) ==
  /\ p \in registered
  /\ enabled' = enabled \cup {p}
  /\ RebuildOrder
  /\ UNCHANGED registered

DisableProvider(p) ==
  /\ p \in registered
  /\ enabled' = enabled \ {p}
  /\ RebuildOrder
  /\ UNCHANGED registered

ErrUnknownProvider(p) == p \notin registered /\ UNCHANGED routerVars

Configure(a) ==
  /\ Goto(a, "configure", "idle")
  /\ reading = {}
  /\ \E p \in Providers :
       Register(p) \/ EnableProvider(p) \/ DisableProvider(p) \/ ErrUnknownProvider(p)
  /\ UNCHANGED <<reading, tokenVars, callVars, providerVars>>

-----------------------------------------------------------------------------
(* ProcessPayment and ProcessRefund: the providers to try.                 *)

SupportsCurrency(p, currency) == Currencies[p] = {} \/ currency \in Currencies[p]

(* The preferred provider first, if it can be had; the loop over the       *)
(* router's order adds the others.                                         *)
Preferred(r) ==
  IF r.preferred \in enabled /\ SupportsCurrency(r.preferred, r.currency)
    THEN <<r.preferred>> ELSE <<>>

WithOthers(r, first) ==
  LET list[i \in 0 .. Len(order)] ==
        IF i = 0 THEN first
        ELSE IF order[i] # r.preferred /\ SupportsCurrency(order[i], r.currency)
          THEN Append(list[i - 1], order[i])
        ELSE list[i - 1]
  IN  list[Len(order)]

GetProvidersForRequest_Mutant(r) ==
  IF Preferred(r) # <<>> THEN Preferred(r) ELSE WithOthers(r, <<>>)
GetProvidersForRequest(r) == WithOthers(r, Preferred(r))

ProcessPayment(c) ==
  /\ req[c].kind = "payment"
  /\ Goto(c, "idle", "start")
  /\ UNCHANGED <<routerVars, reading, tokenVars, callVars, providerVars>>

ProcessRefund(c) ==
  /\ req[c].kind = "refund"
  /\ Goto(c, "idle", "try")
  /\ route' = [route EXCEPT ![c] = <<req[c].preferred>>]
  /\ UNCHANGED <<routerVars, reading, tokenVars, req, attempt, result, tries, eligible, providerVars>>

(* The part of ProcessPayment under RLock.                                 *)
CopyConfig(c) ==
  LET providers == GetProvidersForRequest(req[c]) IN
  /\ CanRead
  /\ \/ /\ providers = <<>>
        /\ Goto(c, "start", "done")
        /\ result' = [result EXCEPT ![c] = "no providers"]
     \/ /\ providers # <<>>
        /\ Goto(c, "start", "try")
        /\ UNCHANGED result
  /\ route' = [route EXCEPT ![c] = providers]
  /\ eligible' = [eligible EXCEPT ![c] = {p \in enabled : SupportsCurrency(p, req[c].currency)}]
  /\ UNCHANGED <<routerVars, reading, tokenVars, req, attempt, tries, providerVars>>

-----------------------------------------------------------------------------
(* processWithProvider: what follows an attempt.                           *)

(* Errors by what isClientError finds in their text.  A decline carries    *)
(* the provider's words; "garbled" is a successful answer whose body does  *)
(* not parse, which Go reports as an "invalid character".                  *)
ClientErrors == {"not found", "invalid amount", "declined: invalid", "garbled"}
OtherErrors == {"no currency", "network error", "declined", "authentication failed", "truncated"}
IsClientError(err) == err \in ClientErrors

Provider(c) == Head(route[c])
Limit(p) == IF MaxRetries[p] <= 0 THEN 1 ELSE MaxRetries[p]

MayRetry_Mutant(c, err) ==
  /\ req[c].kind = "payment"
  /\ ~IsClientError(err)
  /\ attempt[c] < Limit(Provider(c))
MayRetry(c, err) ==
  /\ req[c].kind = "payment"
  /\ ~IsClientError(err)
  /\ attempt[c] + 1 < Limit(Provider(c))

Ended(c, how) == tries' = [tries EXCEPT ![c] = Append(@, [provider |-> Provider(c), how |-> how])]

Succeed(c, at) ==
  /\ Goto(c, at, "done")
  /\ result' = [result EXCEPT ![c] = Provider(c)]
  /\ Ended(c, "ok")
  /\ UNCHANGED <<req, route, attempt, eligible>>

(* Another attempt, the next provider, or the error is returned.           *)
Fail(c, at, err) ==
  /\ Ended(c, IF IsClientError(err) THEN "client" ELSE "retry")
  /\ \/ /\ MayRetry(c, err)
        /\ Goto(c, at, "try")
        /\ attempt' = [attempt EXCEPT ![c] = @ + 1]
        /\ UNCHANGED <<route, result>>
     \/ /\ ~MayRetry(c, err) /\ Len(route[c]) > 1
        /\ Goto(c, at, "try")
        /\ route' = [route EXCEPT ![c] = Tail(@)]
        /\ attempt' = [attempt EXCEPT ![c] = 0]
        /\ UNCHANGED result
     \/ /\ ~MayRetry(c, err) /\ Len(route[c]) = 1
        /\ Goto(c, at, "done")
        /\ result' = [result EXCEPT ![c] = "failed"]
        /\ UNCHANGED <<route, attempt>>
  /\ UNCHANGED <<req, eligible>>

-----------------------------------------------------------------------------
(* executePayment and the refunds, up to the request.                      *)

LocalError(c) ==
  LET r == req[c] IN
  IF Provider(c) \notin registered THEN "not found"
  ELSE IF Provider(c) = "stripe" /\ r.kind = "payment" /\ r.amount <= 0 THEN "invalid amount"
  ELSE IF Provider(c) = "paypal" /\ r.kind = "refund" /\ r.amount > 0 /\ r.currency = None
    THEN "no currency"
  ELSE None

Prepare(c) ==
  /\ pc[c] = "try"
  /\ \/ /\ LocalError(c) # None
        /\ Fail(c, "try", LocalError(c))
     \/ /\ LocalError(c) = None
        /\ Goto(c, "try", IF Provider(c) = "paypal" THEN "token" ELSE "send")
        /\ UNCHANGED callVars
  /\ UNCHANGED <<routerVars, reading, tokenVars, providerVars>>

(* The provider did what was asked, or not, and whether the client learns  *)
(* of it is another matter.  What counts is the operation, not the money:  *)
(* a charge created at Stripe, whatever its "paid" and "status" say; an    *)
(* order opened at PayPal, which CaptureOrder, never called by the router, *)
(* would have to capture; a refund.  Stripe does nothing new for a key it  *)
(* has seen and returns the first answer; PayPal's request ID is the time, *)
(* so that every attempt is a new request.                                 *)
IdempotencyKey_Mutant(c) == IF attempt[c] = 0 THEN req[c].key ELSE None
IdempotencyKey(c) == req[c].key

Perform(c) ==
  LET p == Provider(c)
      key == IF p = "stripe" THEN IdempotencyKey(c) ELSE None
  IN
  /\ made' = IF key \in seen THEN made ELSE [made EXCEPT ![p][c] = @ + 1]
  /\ seen' = IF key = None THEN seen ELSE seen \cup {key}

Request(c) ==
  /\ pc[c] = "send"
  /\ \/ Perform(c) /\ Succeed(c, "send")
     \/ Perform(c) /\ \E err \in {"network error", "truncated", "garbled"} : Fail(c, "send", err)
     \/ /\ \E err \in {"network error", "declined", "declined: invalid"} : Fail(c, "send", err)
        /\ UNCHANGED providerVars
  /\ UNCHANGED <<routerVars, reading, tokenVars>>

-----------------------------------------------------------------------------
(* getAccessToken of the PayPal client.                                    *)

AfterToken(g) == IF g \in Calls THEN "send" ELSE "release"

(* The read lock: the token is used if it has not expired.                 *)
ReadToken(g) ==
  /\ tokenLock = None
  /\ Goto(g, "token", IF token THEN AfterToken(g) ELSE "lock")
  /\ UNCHANGED <<routerVars, reading, tokenVars, callVars, providerVars>>

(* The write lock, and the second look at the token.                       *)
LockToken_Mutant(g) ==
  /\ tokenLock = None
  /\ Goto(g, "lock", "fetch")
  /\ tokenLock' = g
  /\ UNCHANGED <<routerVars, reading, token, callVars, providerVars>>
LockToken(g) ==
  /\ tokenLock = None
  /\ \/ /\ token
        /\ Goto(g, "lock", AfterToken(g))
        /\ UNCHANGED tokenLock
     \/ /\ ~token
        /\ Goto(g, "lock", "fetch")
        /\ tokenLock' = g
  /\ UNCHANGED <<routerVars, reading, token, callVars, providerVars>>

(* A lifetime of a minute or less has expired at once.                     *)
FetchToken(g) ==
  /\ Goto(g, "fetch", AfterToken(g))
  /\ token' \in BOOLEAN
  /\ tokenLock' = None
  /\ UNCHANGED <<routerVars, reading, callVars, providerVars>>

NoToken(g) ==
  /\ pc[g] = "fetch"
  /\ \/ /\ g \in Calls
        /\ \E err \in {"network error", "authentication failed", "garbled"} : Fail(g, "fetch", err)
     \/ /\ g \in Checkers
        /\ Goto(g, "fetch", "release")
        /\ UNCHANGED callVars
  /\ tokenLock' = None
  /\ UNCHANGED <<routerVars, reading, token, providerVars>>

Expire ==
  /\ token
  /\ token' = FALSE
  /\ UNCHANGED <<routerVars, reading, tokenLock, pc, callVars, providerVars>>

-----------------------------------------------------------------------------
(* Healthcheck: what it asks of Stripe changes nothing.                    *)

Healthcheck(h) ==
  /\ CanRead
  /\ Goto(h, "idle", IF "paypal" \in registered THEN "token" ELSE "release")
  /\ reading' = reading \cup {h}
  /\ UNCHANGED <<routerVars, tokenVars, callVars, providerVars>>

Release(h) ==
  /\ Goto(h, "release", "idle")
  /\ reading' = reading \ {h}
  /\ UNCHANGED <<routerVars, tokenVars, callVars, providerVars>>

-----------------------------------------------------------------------------

Next ==
  \/ \E a \in Admins : AskToConfigure(a) \/ Configure(a)
  \/ \E c \in Calls : ProcessPayment(c) \/ ProcessRefund(c) \/ CopyConfig(c) \/ Prepare(c) \/ Request(c)
  \/ \E h \in Checkers : Healthcheck(h) \/ Release(h)
  \/ \E g \in Calls \cup Checkers :
       ReadToken(g) \/ LockToken(g) \/ FetchToken(g) \/ NoToken(g)
  \/ Expire

Spec == Init /\ [][Next]_vars

-----------------------------------------------------------------------------
(* Properties.                                                             *)

PCs == {"idle", "configure", "start", "try", "token", "lock", "fetch", "send", "release", "done"}

(* The variables have their types: the router's order lists each enabled   *)
(* provider once, by priority, and the lock of the token is held by the    *)
(* goroutine that is fetching one.                                         *)
TypeOK ==
  /\ enabled \subseteq registered /\ registered \subseteq Providers
  /\ order \in SetToSeqs(enabled)
  /\ \A i, j \in DOMAIN order : i < j => Priority[order[i]] <= Priority[order[j]]
  /\ reading = {h \in Checkers : pc[h] # "idle"}
  /\ token \in BOOLEAN /\ tokenLock \in Calls \cup Checkers \cup {None}
  /\ pc \in [Goroutines -> PCs]
  /\ req \in [Calls -> Requests]
  /\ route \in [Calls -> Seq(Providers)]
  /\ attempt \in [Calls -> Nat]
  /\ result \in [Calls -> Providers \cup {"none", "no providers", "failed"}]
  /\ made \in [Providers -> [Calls -> Nat]]
  /\ tries \in [Calls -> Seq([provider : Providers, how : {"ok", "retry", "client"}])]
  /\ eligible \in [Calls -> SUBSET Providers]

WithKey(k) == {c \in Calls : req[c].kind = "payment" /\ req[c].key = k}
Keys == {r.key : r \in Requests} \ {None}

(* At most one charge is created at Stripe for an idempotency key,         *)
(* whatever answers are lost and retried, and whichever calls carry it.    *)
StripeChargesOnce ==
  \A k \in Keys : \A c, d \in WithKey(k) :
    /\ made["stripe"][c] <= 1
    /\ made["stripe"][c] > 0 /\ made["stripe"][d] > 0 => c = d

(* The operations carried out at p for the calls cs.                       *)
MadeFor(p, cs) == MapThenSumSet(LAMBDA c : made[p][c], cs)

(* One operation for an idempotency key, over all providers: "each         *)
(* operation on external providers is performed only once" (Idea.md:27).   *)
(* A charge created at Stripe and an order opened at PayPal are two.       *)
PerformedOnce ==
  \A k \in Keys : MapThenSumSet(LAMBDA p : MadeFor(p, WithKey(k)), Providers) <= 1

(* A payment goes to providers that were enabled and took the currency     *)
(* when it started, to one after the other; it stays with one as long as   *)
(* errors are worth a retry and its limit allows, and leaves it after an   *)
(* error of the client's or at the limit.  A refund is tried once.         *)
TriesAt(c, p) == {i \in DOMAIN tries[c] : tries[c][i].provider = p}
RetryPolicy ==
  \A c \in Calls :
    /\ req[c].kind = "refund" => Len(tries[c]) <= 1
    /\ req[c].kind = "payment" =>
       /\ \A p \in Providers :
            /\ Cardinality(TriesAt(c, p)) <= (IF p \in eligible[c] THEN Limit(p) ELSE 0)
            /\ \A i, j \in TriesAt(c, p) : i < j => i .. j \subseteq TriesAt(c, p)
       /\ \A i \in 1 .. Len(tries[c]) - 1 :
            LET p == tries[c][i].provider IN
            IF tries[c][i + 1].provider = p
              THEN tries[c][i].how = "retry"
              ELSE tries[c][i].how = "client" \/ Cardinality(TriesAt(c, p)) = Limit(p)

(* Request r goes to p before it goes to q: the preferred provider before  *)
(* the others, and those by their priorities.                              *)
Ranks(r, p, q) ==
  /\ q # r.preferred
  /\ p = r.preferred \/ Priority[p] < Priority[q]

(* Failover follows the configuration the payment started with, however it *)
(* is changed meanwhile and whatever fails: a provider is turned to only   *)
(* after all those that rank before it, and the payment fails only after   *)
(* all of them have been tried.  When it is said that there is no          *)
(* provider, there was none.                                               *)
FailoverInOrder ==
  \A c \in Calls :
    LET tried(n) == {tries[c][i].provider : i \in 1 .. n} IN
    /\ \A i \in DOMAIN tries[c], p \in eligible[c] :
         Ranks(req[c], p, tries[c][i].provider) => p \in tried(i - 1)
    /\ result[c] = "failed" => tries[c] # <<>> /\ eligible[c] \subseteq tried(Len(tries[c]))
    /\ result[c] = "no providers" => eligible[c] = {} /\ tries[c] = <<>>

(* One goroutine at a time asks PayPal for a token, and none does while a  *)
(* token that has not expired is cached; a request that failed leaves no   *)
(* lock behind, which would stop every payment and, through the router's   *)
(* lock, every change of the configuration.                                *)
TokenFetchedOnce ==
  /\ token => tokenLock = None
  /\ {g \in Calls \cup Checkers : pc[g] = "fetch"} = {tokenLock} \ {None}
=============================================================================
