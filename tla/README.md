# Formal models of Amanah

TLA+ models of the Amanah payment services, the TLC runs that check them on
small instances, and TLAPS proofs of the properties that matter most. Every
definition is translated from the Go source; `PROJECT.json` gives the lines each
one stands for.

## 1. The system

Amanah is a set of Go services (`services/`), each an HTTP server whose handlers
run in a goroutine of their own and share in-memory state, and a set of libraries
(`libs/`, `integrations/`) they are built from. Nothing is persisted: every
service starts empty. `libs/gateway` is a library for a gateway that routes requests to
services and guards each of them with a circuit breaker; no binary of the repository uses it
yet. The gateway that is deployed (`services/api-gateway`, `main.go` and `routes.go`) is a
bare reverse proxy for `/transactions/`, with a TODO for authentication and rate limiting; it
keeps no state and is not modelled. Likewise the limiters, API keys, roles, bulkhead and
payment router are libraries: their models say what a service that installs them gets. The
services do not call one another; a client (or an orchestrator that is not in the
repository) does.

| Component | State it keeps | Operations | Interacts with | What is hard | What makes it correct |
|---|---|---|---|---|---|
| Transaction service | transactions by ID, idempotency-key index | create, authorize, complete, fail, cancel, refund, reads | its repository (one mutex per call), shared transaction pointers | races between lookup and insert, unlocked read-check-write of status and refunded amount, int64 wrap | one charge per key, the books hold what was given back and bound it, the status follows the table |
| Account service | accounts by ID, e-mail index | create, activate, freeze, unfreeze, close, credit, debit, KYC, profile, instruments | its repository (mutex per call, atomic balance update), shared account pointers | check-then-act races, overflow, slices and maps written without a lock | unique addresses, exact non-negative balance, frozen means no money moves, closed is for ever |
| Ledger service | accounts, journals, entries, audit log under one mutex | create account, post journal, record payment/refund/fee, reads | - | multi-entry journals that fail half way, wrapping sums, checks before the lock | trial balance, journals whole or absent, balances reproducible from the entries |
| Circuit breaker | state, three counters, time of last failure | Allow, RecordSuccess, RecordFailure, Reset | gateway calls it before and after proxying, with no lock held in between | results that arrive in a later state, lost results, exchanges that stall, recovery | counters belong to their state, probes limited, never refuses a healthy backend for ever |
| Gateway (the library) | routes, services | ServeHTTP | rate limiters, API keys, roles, breaker, reverse proxy | keys and roles that change between the checks, panics in the proxy | who reaches a service was entitled to it, the limits and promises of its parts hold of the whole |
| Health checker | status per service, runner goroutines | add, remove, Start, Stop, CheckAll | backends | Stop/Start leaving two runners, overlapping checks applied out of order | after Stop the runners end, the status is a latest answer |
| Bulkhead | semaphore channel, waiting, counters | Execute, TryExecute, Stats | callers' functions | slot vs. counter order, timeout racing a free slot, panics | at most MaxConcurrent at a time, no slot lost, bounded waiting |
| Retry, timeout | none between calls | Retry, WithTimeout, TimeoutMiddleware | callers' functions | late results after a timeout | bounded attempts, one answer |
| Payment router, Stripe and PayPal clients | provider configurations and order, PayPal token | process payment/refund, enable, disable | external providers | lost answers, retries and failover that repeat an operation | at most one charge created per key where the provider honours it, retries and failover as configured |
| Notification service | notifications, webhooks, queue of 1000 | send, send synchronously, trigger event, webhooks | worker and retry goroutines, senders | queue full, retries, unlocked fields | every notification ends delivered or failed, at most MaxRetries attempts |
| Rate limiters | buckets/windows per client | Allow, cleanup | middleware | cleanup dropping a bucket in use | burst bounded |
| API keys | keys by hash, prefixes, per-key limits | generate, validate, rotate, revoke, delete | gateway, auth middleware | validation racing revocation, rotation | a revoked key stops working, limit per minute |
| JWT, RBAC, security middleware | roles | sign, validate, permission checks | gateway | inheritance cycles | permission closure |
| Cache, database, migrations | items with expiry; schema version | get/set; migrate, rollback | - | expiry; two migrators at once | no expired value; each migration once |
| Configuration, logging, metrics, test support | - | - | - | - | - |

## 2. The modules

| Module | Models |
|---|---|
| `PaymentLifecycle` | what the transaction service promises of one payment: atomic steps, no goroutines |
| `Transaction` | the transaction service, goroutine by goroutine; refines `PaymentLifecycle` |
| `TransactionProofs` | proofs about `Transaction` |
| `CircuitBreaker` | the breaker and the gateway's use of it |
| `Ledger` | the ledger service |
| `LedgerProofs` | proofs about `Ledger` |
| `Account` | creation, status and balance of the account service |
| `AccountProofs` | proofs about `Account` |
| `Bulkhead` | the semaphore bulkhead with its waiters, time limits and statistics |
| `BulkheadProofs` | proofs about `Bulkhead` |
| `Notification` | sending notifications: queue, worker, overflow, retries |
| `NotificationProofs` | proofs about `Notification` |
| `PaymentRouter` | the payment router with the Stripe and PayPal clients |
| `PaymentRouterProofs` | proofs about `PaymentRouter` |
| `Clock` | the clock of the modules below that compare times, and their counts of events |
| `RateLimiter` | the token bucket limiters and their cleanup |
| `SlidingWindow` | the sliding window limiter and its cleanup |
| `APIKeys` | the API key manager |
| `HealthChecker` | the gateway's health checker |
| `Roles` | the role table of the RBAC manager and its access checks |
| `AdmissionProofs` | proofs about `RateLimiter`, `SlidingWindow`, `APIKeys` and `Roles` |
| `Gateway` | `ServeHTTP`, composed of `RateLimiter`, `APIKeys` and `CircuitBreaker` |
| `GatewayProofs` | proofs about `CircuitBreaker`, `HealthChecker` and `Gateway`, which implements the three it is composed of |
| `MCTransaction`, `MCCircuitBreaker`, `MCLedger`, `MCAccount`, `MCResilience`, `MCNotification`, `MCPaymentRouter`, `MCGateway` | the instances TLC checks |

Definitions named `..._Mutant` are plausible bugs. Each can take the place of
the definition it is named after; the property it is paired with in
`PROJECT.json` then fails, which shows that the property depends on the code.

### Transaction

*State.* `transactions` and `idempotencyKeys` are the two maps of
`InMemoryRepository`; `pc` and `req` are the position and the locals of each
goroutine; `answers` is a history of what `CreateTransaction` returned, and `given` one of
what the refunds of a transaction add up to, in integers that do not wrap. (Once that sum
fits no int64 it is no longer added to.)

*Steps.* A repository call is one step, since it runs under the repository's
mutex. Between repository calls the service reads and writes the transaction
through the pointer `GetByID` returned, with no lock, so every load and store is a
step: the status check (`CheckStatus`), the limit check (`CheckLimit`), the load
and the store of `RefundedAmount += ...` (`LoadRefunded`, `StoreRefunded`), the
test for a full refund (`SettleRefund`), and the two words of the string
assignment `tx.Status = ...` (`WritePtr`, `WriteLen`, in either order; a reader
that meets words of two statuses reads a text no table knows). The fields no
property depends on (reason, provider reference, timestamps, metadata) are left
out, and so are requests with an unsupported currency or method, which touch
nothing.

*Two specifications.* `Spec` lets any goroutines overlap. `SerializedSpec` lets
at most one call at a time work on any one transaction (while calls on different
transactions, and creations with the same key, overlap freely). The code does not
enforce that; it is what a client gets that waits for each answer. The life cycle and
`RefundWithinAmount` hold under `SerializedSpec`.

*Money and books.* `NeverGivesBackMore` is the promise of the comment "Check refund doesn't
exceed original amount": `given` is at most the amount. The code breaks it in two ways, each
shown by a run: two refunds that overlap (`transactions_race`, under `Spec`), and a sum that
wraps, for which one caller is enough (`transactions_wrap`, under `SerializedSpec`).
`RefundWithinAmount` is what remains: with calls on one transaction serialised, as long as the sum of
the refunds fits an int64, `RefundedAmount` is that sum and at most the amount. Beyond that
the books say nothing of the money, and neither do `RefundMatchesStatus` and the abstract
life cycle, which speak of the books.

*Refinement.* `Payment(t)` maps a transaction to the abstract payment. While a
status is half written, or a refund's amount is stored and its status not yet,
the payment already has the status that is about to be written (`Landing`).

### CircuitBreaker

Each breaker method is one step, since it runs under the breaker's mutex.
`inFlight` are the requests the gateway has admitted and not finished, which is
where results become stale: a request admitted while closed may report in
half-open. `Abort` is a proxied request that panics out of `ServeHTTP`, which
skips the report. `Stall` is an exchange with the backend that stops for as long as it
likes: before the headers, in connecting or sending the request (its outcome is still open), or
after them, in the body (its status is decided). It may go on later and then reports like any
other. Time is one bit, `cooled`: whether the timeout has passed since
the last failure. `probing` and `lost` are history: the requests admitted since the
breaker last became half-open that are still in flight, and the number that
aborted. `backend` says how requests end that end now: with a status below 500, or
not, which includes the 502 that the proxy itself answers when the backend cannot be
reached or the client has gone. Callbacks on state changes are left out; nothing in
the repository installs one.

*Fairness.* `FairSpec` assumes that time passes (`CoolDown`), that clients keep
sending requests (`Allow`), and that a request being proxied comes back (`Report`) unless it
is stalled. What the code bounds is only the time from the last byte of the request to the headers of
the answer (`ResponseHeaderTimeout`); connecting, sending and the body have no time limit in
the gateway's transport, so nothing is assumed of a stalled request, not even that it
aborts. Nor of `Reset`, which needs an operator, nor of the backend (`Turn`).
`Recovers` therefore has its own premise: the backend is up for good, some client is not
stalled, and the probes lost or stalled leave enough of `HalfOpenRequests` for the
successes needed (`Spare`).

### Ledger

`Submit` is `CreateJournalEntry` up to the lock (length and balance check),
`Reject` and `Begin` the validation under the lock, `WriteEntry` one turn of the
writing loop, `Finish` filing and auditing. The steps inside the critical section
are separate because `GetAccount` hands out pointers that are read without the
lock. Accounts are never deactivated, so `IsActive` is left out, as are currencies
and metadata. Amounts are int64: `Wrap`. `Totals` are the running totals of
`validateBalance`, one for each turn of its loop. IDs of accounts and journals carry
different prefixes, so no entry of the audit log stands for one of each.

### Account

Like `Transaction`: a repository call is a step, and so is each unlocked check
(`CheckStatus`, `CheckFunds`) and the status assignment (`WriteStatus`).
`UpdateBalanceAtomic` (`Apply`) checks and writes under the lock. The status is
written in one step: "active", "frozen" and "closed" have the same length, and a
mixture with "pending" is treated by every reader as "pending" is. `moved` sums the
changes that were reported as done; `barred` are the calls whose account has been
frozen or closed ever since they looked it up.

### Bulkhead

`slots` is the number of tokens in the semaphore channel and `sendq` the goroutines
blocked in the channel's send. Go's channel hands a token that is received straight
on to the first blocked sender, so `Release` gives the slot to the head of `sendq`
and never leaves a slot free while somebody waits; `WorkConserving` states it, and
`GiveUp` (the timer of `select` fires) takes a waiter out of the middle of that
queue. The slot, the counters `waiting` and `active` (plain fields under the mutex `b.mu`, which is
taken after the channel operation and never around it) and the totals are changed in
steps of their own, in the code's order. A call's function may return,
fail or panic. Time is left out: a waiter with a time limit may give up at any moment.

*Fairness.* `BulkheadFairSpec`: goroutines are scheduled and functions end. `EveryCallEnds`
needs no more than that, since a slot is handed over in the order of arrival.

### Notification

A delivery (`deliver`) runs in the worker, in the caller when the queue is full, or
in a goroutine started by a failed attempt; `Threads` has them all, with `job` as
the notification each one works on. `updateStatus` is a step under the lock;
counting a failure and comparing the count with `MaxRetries` are steps without it.
`SendSync` is `Send` followed by `Poll`, which reads the status with no lock. Senders
accept or refuse as they please.

*Fairness.* Goroutines are scheduled, timers fire, and senders answer (the webhook
client has a timeout).

### PaymentRouter

`registered`, `enabled` and `order` are the router's configuration, which
`Configure` changes under the write lock; `reading` are the health checks that hold
the read lock while they talk to the providers. `CopyConfig` is the part of
`ProcessPayment` under the read lock; all that follows works from the copy (`route`,
`attempt`). `Prepare` is everything before a request, `Request` the request: the
provider performs it or not, and the client learns the truth, nothing, or something
it cannot parse. `Fail` is what the loops in `processWithProvider` and
`ProcessPayment` do with an error. Errors are named by what `isClientError` finds in
their text, which includes Go's "invalid character" for a successful answer that is not JSON.
`ReadToken`, `LockToken`, `FetchToken` and `NoToken` are `getAccessToken`: the fetch
happens with the client's lock held. What the providers do with an idempotency key
is external: Stripe performs nothing new for a key it has seen, and PayPal's
request ID is the time of the attempt, so nothing is ever a repetition there.
`GetProvidersForRequest` is the provider a request prefers followed by what the loop
over the order adds to it. `made`, `tries` and `eligible` are history.

What `made` counts is operations, not money: a charge created at Stripe, whatever `paid` and
`status` of the answer say (the router takes every 200 as a success, `router.go:312-323`); an order
opened at PayPal (`router.go:326-360`), which only `CaptureOrder` would turn into a payment, and the
router never calls it; a refund. No property says that a success means that money has moved.

### Clock

`now` is the time of the modules that compare times. The histories of
events that their promises count are kept as the number of events before each tick
(`Noted` adds one now), so that the number in any stretch of time is a difference
(`During`) and not a sum.

### RateLimiter

`listed` is the limiters' map of buckets and `bucket` the bucket objects, which a
caller goes on using when cleanup has dropped them from the map. `FindBucket` and
`NewTokenBucket` are the part of `Allow` under `rl.mu`, `TakeToken` and `Refused` the part under the
bucket's own lock, `Tokens` the second look the middleware takes for its headers, and
`Cleanup` one round of the cleanup goroutine. Tokens are counted in parts (`Unit` to a
token), since a refill need not be a whole number of them. A bucket is named by its client
and by the number of cleanups its limiter had done when it was made. `timely` and
`late` count the tokens taken since each tick from buckets that were listed or not,
and `caught` the callers that cleanup overtook between finding and using a bucket.
`LimiterHolds` is the promise that is left: a burst and what has flowed in since, plus one token
for each caller so caught.

### SlidingWindow

The same for the limiter that remembers the times of requests: `FindWindow` is the part under
`sw.mu`, `Pass` and `TurnAway` the part under the window's lock; `After` is the loop that
keeps the times within the window. Cleanup (`Sweep`) drops empty windows, so
also one that was just made and is about to be used; the requests noted there are
`astray`.

### APIKeys

`FindKey` finds the key under the read lock; each check that follows is a step of its
own that reads the object as it is by then (`CheckActive`, `CheckExpiry`, the two reads
of `RateLimit`). Counting the use and noting it are under the lock again. A key stands
for its raw text, hash, prefix and ID alike. `RotateAPIKey` is four operations of the manager, each
locked on its own, and unlocked reads of the old key's fields in between, one by one, so that rotations of one key overlap with each other and with
revocation, deletion and validations. The counter's minute starts with the first request after
the last one ended. `retired`, `doomed`, `promised` and `heirs` are history: which keys have
been revoked, deleted or rotated away, which validations began after that, what grace periods were
promised, which keys replaced which; `used` and `top` are the uses of the counted
minute and the largest limit a key has had.

### HealthChecker

A runner is one call of `Start` with the goroutine it leaves behind; stop channels are
numbered. A turn of the loop reads `hc.stop` anew, which another `Start` may have
replaced: the old goroutine then waits for the new channel, and both go on until that one is
closed. Each check of a service is a goroutine that answers when it likes and writes the
result into the record it was given, which may have been removed. `latest` is the last answer
a record's service gave, `crossed` says that two runners were asking at a time.

*Fairness.* `HealthFairness`: goroutines run and requests end (the client has a
timeout), so a runner that can proceed does; and Go's `select` chooses at random among the
cases that are ready, so a runner whose stop channel is closed takes that case in
the end, whatever its ticker does.

### Roles

`Collect` is the recursive walk of `getAllPermissionsRecursive`: its state is what the loops
over `Inherits` have left to do and the set of visited roles that its calls share, which is
how circles end. `Entitled` is what it should find, by reachability. An access check
(`CheckAccess` begins one) goes through its roles and permissions in two loops; each `Look` at
one of them is under a read lock of its own, while administrators edit the table. `ever` and
`always` collect which of the pairs asked about held at some time, and all the time,
during the check.

### Gateway

A request goes through the places of `ServeHTTP` (`at`): route and method, limiter,
authentication by key or token, roles, breaker, proxy. Every place is a step, and the
steps in a limiter, in `ValidateAPIKey` and in the breaker are those of the modules above:
a request is at once a caller of `RateLimiter`, a validator of `APIKeys` and a request of
`CircuitBreaker`, stalls included (`StallProxy`). `findRoute` is a function of the request: the first route that serves
its path, method and version, or else the first without a version. `RouteBurst` is the
division by six by which `addRoute` turns a rate per minute into a burst. `eligible` is
history: whether the caller carried one of the route's roles at some time since it
arrived.

## 3. The runs

| Run | Instance | Shows |
|---|---|---|
| `transactions` | 2 goroutines, 2 transaction IDs, 1 key and no key, amounts 0 and 2, refunds -1, 0 ("full"), 1 and MaxInt = 3 | `OneChargePerKey`, `RefundWithinAmount`, `RefundMatchesStatus`, `FinalIsFinal`, `ImplementsLifecycle` under `SerializedSpec` |
| `transactions_race` | 2 goroutines, 1 transaction | violation of `NeverGivesBackMore` under `Spec` |
| `transactions_wrap` | 1 goroutine, 1 transaction, MaxInt = 7 | violation of `NeverGivesBackMore` under `SerializedSpec` |
| `resilience` | breaker: 4 requests, MaxFailures 2, 3 probes, 2 successes; bulkhead: 4 calls, 1 slot, 2 may wait | `CountersMatchState`, `ProbesBounded`, `ProbeAvailable`, `Recovers`; `SlotsExact`, `WaitingBounded`, `WorkConserving`, `StatsSettle`, `CallsEnd` |
| `breaker_stuck` | 3 requests | violation of `NeverStuck` |
| `ledger` | 2 goroutines, 3 journals, 1 new account, 10 requests, 4-bit integers | `TypeOK`, `TrialBalance`, `BalancesFollowEntries`, `JournalsComplete`, `AuditTrail` |
| `account` | 3 goroutines, 2 IDs for one address, amounts 0, 1, 3, 3-bit integers | `OneAccountPerEmail`, `BalanceExact`, `BarredMovesNothing` |
| `account_closed` | 1 goroutine, 1 account | violation of `ClosedForever` |
| `notification` | 2 callers, 3 notifications, a queue of 1, 2 attempts | `OneOwner`, `AttemptsBounded`, `FinalStays`, `EveryNotificationEnds`, `SyncReturns` |
| `payments` | 2 calls out of 4 requests, 1 reconfiguring and 1 checking goroutine, 2 attempts at Stripe, 1 at PayPal | `StripeChargesOnce`, `RetryPolicy`, `FailoverInOrder`, `TokenFetchedOnce` |
| `payments_once` | 1 call | violation of `PerformedOnce` |
| `gateway` | seven parts, see below | `CallersEntitled`, `RetiredKeysRefused`, `KeyLimitHolds`, `RotationHandsOver`, `LimiterHolds`, `WindowHolds`, `StatusFollowsAnswers`, `AccessJustified`, `RunnersFollow` |

Each module states its type invariant, and section 4 proves it; that of `Ledger` is also
checked in its run. In `resilience` the breaker and the bulkhead share nothing, so each
behaviour is one of either (`part`); `CallsEnd` is `EveryCallEnds` for those of the bulkhead.

*Why the bounds are enough.* Two goroutines are what a race between two calls
needs; the account run has three, so that two debits and a freeze can meet. Two
IDs and one key let two creations collide on a key; transactions do not influence
one another except through keys and IDs. Integers of 3 or 4 bits make a sum wrap
with two or three additions. A transaction of amount 2 can be refunded in parts of
1, in full, and beyond, and 1 and then MaxInt wraps. Four requests against a limit of three probes leave one
that was admitted earlier, or one to be refused. `Txs`, `Ids` and `JournalIds` bound
how many objects are ever created; when the journal IDs are used up the ledger
instance may stop, so that run does not check for deadlock. The breaker needs
no bound: its counters are bounded by the configuration. Four calls at a bulkhead
of one slot and two waiters are the fewest with one running, two queueing (one of which
gives up while the other is handed the slot) and one turned away. A queue of one
overflows as soon as the worker is busy and a second notification waits; the third
meets the full queue, and two attempts give one retry and one exhaustion. Two
payments can carry the same key (a client that retries), and one retry at Stripe
before PayPal is tried is enough for every kind of step between attempts; each call
and each registration happens once, which bounds that instance. The calls of
`payments` are interchangeable and it checks no liveness, so it uses symmetry.
The bulkhead and `notification` end when every call is made, so `resilience` and `notification` do
not check for deadlock. (The breaker does not stop: `backend` can always turn.)

The requests of `payments` are a payment with a key, the same payment preferring
PayPal, one without key in a currency PayPal does not take and of an amount Stripe's
client rejects, and a partial refund that lacks its currency.

`MCGateway` holds the gateway with all it is built from. Its variable `part`, chosen once,
says which of them moves while the others stay as they began, since they share
nothing except where `Gateway` composes them:

- `requests`: two requests out of six (a key, tokens good and expired, wrong version, no
  caller, no route) against two routes, one of them with a limit, roles and a breaker; one change to a
  key, round of cleanup or tick meanwhile. With a limiter for the whole gateway, none.
- `keys`: two validations of a key that is revoked, deleted or given another limit, over two ticks.
- `rotation`: two rotations of one key, overlapping with each other and with one
  validation, with grace periods of 0 and 1 ticks.
- `limiter`: two callers of one client, a burst of two tokens, refills of half a token, two
  ticks and two cleanups.
- `window`: two arrivals at a time, two requests in two ticks, one cleanup, up to tick 5.
- `health`: two starts, one service with two registrations.
- `roles`: the default roles and a new one that may inherit in a circle, two edits, one check.

Two callers and one cleanup are what it takes for a caller to hold a bucket that is no
longer listed while the next makes a new one; two overlapping rotations are the fewest in which each can
undo the other's expiry; a second start is what replaces the stop channel
under a runner; two records of one service let a late result meet the wrong
registration. `MaxTime` 5 is long enough for two windows of two ticks and one more. The bounds on ticks, changes, cleanups and starts end every behaviour, so this run does not check for
deadlock.

### What the violations say

- `transactions_race`: "Check refund doesn't exceed original amount"
  (`transaction_service.go:206`) reads `RefundedAmount` with no lock; two
  overlapping refunds give back more than was paid.
- `transactions_wrap`: the same check compares an int64 sum that can wrap. After a refund of
  1, one of the greatest int64 makes the sum negative and passes.
- `breaker_stuck`: a probe whose response body breaks off panics through
  `Gateway.ServeHTTP` before the result is recorded. After `HalfOpenRequests` of
  these the breaker is half-open, refuses everything and never times out, although
  the system "can recover to full capacity without manual intervention" (`Idea.md:53`).
  `ProbeAvailable` and `Recovers` state what remains true: it cannot happen as long
  as no more probes are lost or stalled than there are to spare.
- `account_closed`: `FreezeAccount` ignores the status, so a closed account can be
  frozen and then unfrozen, although `CloseAccount` "permanently closes an account"
  (`account_service.go:181`).
- `payments_once`: Stripe creates a charge, the answer does not arrive or does not
  parse, and the router opens an order for the same payment at PayPal, although "each operation on
  external providers is performed only once" (`Idea.md:27`). (The order is not captured, by
  this code: two operations, not yet two payments.) What remains true is
  `StripeChargesOnce`: at most one charge is created at Stripe for a key.

## 4. The proofs

Everything in this section holds for all values of the constants that satisfy the
modules' assumptions, and is checked by TLAPS. All safety properties of the passing
runs are among it.

`TransactionProofs` (1737 obligations)

- `TypeCorrect`, `Idempotency`: `Spec => []TypeOK`, `Spec => []OneChargePerKey`.
  Neither is inductive. `IInv` adds what a goroutine knows of the transaction it
  works on (`ReqOK`): one being created is not stored yet and nobody else's, one
  whose key was taken finds the key in the index, any other is stored. Each action
  has a lemma; the unlocked steps of the operations share one (`InnerIInv`), since
  they change no key and add or drop no transaction.
- `RefundsBounded`: `SerializedSpec => []RefundWithinAmount`: the books hold what was given
  back, and no more than was paid, as long as the sum fits an int64. The check and the
  store are three steps apart, so `SInv` carries what was checked (`Admitted`): in
  between, the sum that was checked is the sum that will be stored. `Exclusive` is
  what keeps other goroutines from falsifying it (`OthersKeep`). That bounds the books
  (`CounterWithin`); `RInv` ties them to the money (`Recorded`): a sum that fits an int64 has not been
  wrapped (`WrapId`), and one that did not fit never fits again.
- `StatusMatchesBooks` (`RefundMatchesStatus`), `FinalStays` (`FinalIsFinal`) and `Implements`
  (`SerializedSpec => ImplementsLifecycle`, the refinement of `PaymentLifecycle`). `LInv` adds
  to `SInv` what the status of a goroutine's transaction is at each of its steps
  (`Underway`) and what status and money say of each other (`Books`): a status word is
  written only by the one goroutine that works on the transaction, from a status that may
  transition to its target, so a torn status is one in the middle of such a change. The
  abstract payment takes effect at the first store of an operation whose outcome is
  then decided (a refund's at the store of its amount, a creation at the insertion);
  every other step stutters.

`AccountProofs` (544 obligations)

- `TypeCorrect`, `OnePerEmail` (`OneAccountPerEmail`), `BalancesExact` (`BalanceExact`) and
  `BarredStopped` (`BarredMovesNothing`). The exact balance rests on a fact about
  wrapping arithmetic of any width (`WrapExact`): a sum of two amounts that is not negative
  after wrapping has not wrapped, and the repository accepts no other. The invariant
  also says what each goroutine knows of its account (`ReqOK`), and that a
  barred credit or debit has not got past its check.

`LedgerProofs` (1731 obligations)

- `TypeCorrect`, `BooksBalance` (`TrialBalance`), `EntriesExplainBalances`
  (`BalancesFollowEntries`), `JournalsWhole` (`JournalsComplete`) and `AuditComplete`
  (`AuditTrail`). The books are out of balance while a journal is written, so the invariant
  says by how much (`GapInv`): by what the journal has posted on one side and not yet on the
  other. When the journal is finished that is the difference of its totals, which the check
  before the lock found equal (`ReqInv`), and which nobody can change, as a request is a copy. Since
  the totals wrap, the difference is one of wrapped sums; the lemmas about `Wrap` are arithmetic
  modulo 2(MaxInt + 1). That a sum over a set of accounts changes with one of them by as much
  (`SumOf`), although it adds in an order nobody knows, is proved by induction over the
  number of accounts. `BlockInv` says that the entries of the journal being written are the last ones, so that a
  journal's are never mixed with another's.

`BulkheadProofs` (770 obligations)

- `TypeCorrect`, `ConcurrencyLimited` (`SlotsExact`: the tokens in the channel are
  exactly the calls that hold a slot, at most `MaxConcurrent`), `WaitingLimited`,
  `NoIdleSlot` (`WorkConserving`) and `StatsCorrect` (`StatsSettle`). The counters are
  cardinalities of sets of calls, so the lemma `CountersFollow` says once how a step of
  one call moves them. `IInv` joins the exact counters with the discipline of the queue
  of senders (no call twice, each one blocked, none while a slot is free);
  `CInv` adds that the totals are what the calls that ended account for.
  `RemoveAtProperties` says what taking a waiter out of the middle of the queue leaves.

`NotificationProofs` (1240 obligations)

- `TypeCorrect`, `OwnedOnce` (`OneOwner`), `AttemptsCounted` (`AttemptsBounded`) and
  `FinalIsFinal` (`FinalStays`). The fields of a notification are written with no common lock; what
  protects them is ownership. A notification that has not ended is either in
  the queue, once, or in the hands of one goroutine (`OwnInv`), and the step that goroutine is at says
  what status, retry count and attempts are (`PhaseOK`). The goroutine that the k-th
  failure starts finds the count at k, so each retry is another goroutine, and the count of attempts is exact. A
  final notification has no owner who could write to it, which is why no step
  changes a final status.

`PaymentRouterProofs` (1769 obligations)

- `OneFetch` (`TokenFetchedOnce`): the lock of the PayPal client is held exactly by the
  goroutine that fetches a token, which no error path forgets (`LockInv`).
- `TypeCorrect`, `ChargedOnce` (`StripeChargesOnce`), `RetriesAsConfigured` (`RetryPolicy`)
  and `FailsOverInOrder` (`FailoverInOrder`), from `RouterInv`. A call works from the copy of the
  configuration it made (`route`, `eligible`), and the invariant says how far it has got
  (`CallOK`): every provider that was eligible has been tried or is still in the route, where each
  is listed once; those tried before were asked as often as their retries allow or gave an error that
  ends the attempts there; the first of the route was asked once per attempt so far.
  Lists are described by what they list (`Lists`) and by what comes first in them (`ByPriority` for the
  order, `Ranked` for a route), which insertion by priority, removal and the choice of the route
  preserve; so what was tried was tried in that order (`InOrder`), and what is left of the route comes
  after it. A key that Stripe has seen belongs to a charge made, and no charge
  is made for a key it has seen (`ChargeInv`), however often it is sent.

`AdmissionProofs` (5713 obligations)

- `LimiterTypes`, `RateLimited` (`LimiterHolds`): for any burst and rate and any number of
  callers and cleanups. The argument is a potential. A client's credit is the level of its
  listed bucket, or a full one if it has none; credit and the tokens taken since tick s
  together never exceed a full bucket and what has flowed in since s. Taking a token moves it from the
  credit to what was taken; cleanup drops only buckets whose credit is full, so a new full
  bucket changes nothing. Tokens from unlisted buckets are bounded by the callers that hold one.
- `WindowTypes`, `WindowLimited` (`WindowHolds`): the window in the map explains what was let
  through (`Explains`): from any tick within the last `WindowSize` on, no more requests were let through
  than its sequence of times still holds. Filtering takes away only what is older, a window
  that cleanup drops explains nothing recent, and a request that is let through adds to a sequence
  shorter than the limit. What was let through in any `WindowSize` ticks was so at the last of them, when
  the sequence was within the limit.
- `KeysTypes`, `RetiredRefused` (`RetiredKeysRefused`) and `RotationSafe`
  (`RotationHandsOver`). A key that was ever made stays made, and no generated key is like
  it; so what is known of a made key (dead once retired, expiring when its last grace
  period ends, complete with its scopes) is undone by nobody, and a validation that has passed a check
  keeps what it passed it for.
- `KeyLimited` (`KeyLimitHolds`): a minute is counted from the first use after the one before
  has ended. So nothing was let in after the end of the counted minute, and the minute before its
  opening met only the one counted before (`MinuteSound`); no minute meets more than two
  of those that are counted, each within the largest limit the key has had.
- `RolesTypes`, `AccessSound` (`AccessJustified`). What a walk from a list of roles finds, past
  those it has visited, is the permissions of the roles that can be reached (`Reach`, the least
  set that is closed under inheritance). That the walk's equation has one solution,
  circles or not (`OnlyWalk`), is by descent: each step visits another role, or leaves a shorter
  list. `Ancestors` counts generations and stops at the number of roles; as every generation
  that is not closed adds a role, it is the same set (`AncestorsReached`). As for the check, what held
  throughout loses the pair of each look that fails (`ChecksSound`), so that nothing is left
  of it when the loops end; editing the table cannot put it back.

`GatewayProofs` (920 obligations)

- The breaker: `TypeCorrect`, `CountersCorrect`, `ProbesLimited`, `NotStuck`. The inductive
  invariant adds `Accounted`: in half-open, every admission counted in
  `halfOpenRequests` is still in flight, became a success, or was lost. If all those in flight
  are stalled, and they and the lost ones leave enough for the successes needed, too few successes to
  close leave the count below the limit, so the next request is admitted.
- The health checker: `HealthTypes`, `StatusHonest` (`StatusFollowsAnswers`). A record about which no two
  runners have asked at a time is settled (`Settled`): at most one answer is on its way, the
  latest one, and when none is, the latest is its status.
- `ImplementsLimiter`, `ImplementsKeys`, `ImplementsBreaker`: every behaviour of the gateway
  is one of `LimiterSpec`, of `KeysSpec` and of the breaker's `Spec`. The theorems
  above therefore hold of the composed system; `GatewayRateLimited`, `GatewayRetiredRefused`,
  `GatewayKeyLimited` and `GatewayProbesLimited` say so.
- `RouteServes`: the route a request gets serves its path and method, and its version unless the
  route has none.
- `GatewayTypes`, `OnlyEntitled` (`CallersEntitled`): who reaches the service behind a
  protected route was entitled to it, for any routes, keys, roles and changes to them. The
  invariant says what a request has passed by the time it is at each place (`Passed`,
  `Qualified`).

*Induction.* What a loop or a walk computes is a recursive function in the models. The theorems of the
library that say such a function exists, or that something holds by induction, take an
operator as a parameter, which the provers here cannot instantiate. The modules therefore state
induction for sets, which needs none: a set of naturals that has 0 and the successor of each of its elements
is all of them (`NatSetInduction`, `UpTo`), a non-empty one has a least element (`LeastNat`).
That the function exists is shown by giving it, or by settling it for ever larger
arguments (`SumExists`).

The assumptions are those the modules name. `ConstantsAssumption`: the markers for
"none" are no elements of the sets they complete, amounts are integers, MaxInt is a natural number,
IDs of different kinds differ. `ConfigAssumption`: finitely many requests or calls, natural
limits; `BulkheadAssumption`: the same. `ThreadsAssumption`: a retry goroutine is neither a caller nor the worker. `ClockAssumption`,
`LimiterAssumption`, `WindowAssumption`, `KeysAssumption`, `HealthAssumption`, `RolesAssumption` and
`GatewayAssumption`: the same for the gateway's parts (bursts, rates, lifetimes and limits are
numbers, a request, route or role has its fields, and there are finitely many roles).

*Only model-checked:* the liveness properties `Recovers`, `CallsEnd`,
`EveryNotificationEnds`, `SyncReturns` and `RunnersFollow`. Liveness under fairness and ENABLED
are out of the prover's reach.

## 5. Not modelled

- Accounts: payment instruments, profile, metadata and KYC status (slices and maps shared
  with no lock: what they then hold is decided by Go's memory model, and the code promises nothing of it).
- Refinements of data that no property tells apart, left out of the models: the slice of a key's roles is
  read whole after its validation (a reader that meets one being replaced could
  combine the two slices; in the runs both have one element, where that is one or the
  other); and `AddRole` is called with lists that name each permission once, so that a role's
  permissions are a set.
- The deployed gateway binary, a bare reverse proxy with no state.
- Gateway: the middleware chain, CORS, the rewriting of paths and headers, a `*` inside a
  path segment, and the handlers that only report.
- `EndpointRateLimiter` (a map of limiters filled before it serves), `SemaphoreBulkhead` (a
  bare channel), `Retry`, `WithTimeout` and `TimeoutMiddleware`, which no service uses.
- JWT signing and parsing (a token is good until it expires) and the authentication
  middleware, which no service installs; the security middleware, which shares nothing
  between requests.
- Notifications: webhooks and `TriggerEvent`, whose requests are sent once by goroutines
  nobody waits for.
- Payment router: registering a provider a second time, and the client calls it never
  makes (`CaptureOrder`, `GetOrder`, `GetCharge`).
- Cache, database and migrations, which no service uses; the authentication service (one lookup in a
  map); HTTP encoding, mains, configuration, logging, metrics, test support.
- Reads and listings, which change nothing, except where their handlers' answers are
  a property's subject (health and readiness).

`PROJECT.json` gives the reason for each component. Memory effects weaker than
sequential consistency, beyond the torn strings above, are not modelled.

## 6. Plan

Done: the transaction service with its refinement proved, breaker, ledger, account,
bulkhead, notifications, payment router, rate limiters, API keys, health checker, roles,
and the gateway that composes them; every safety property that a passing run checks is
also proved. What is left, in this order:

1. `AccountInstruments` (Go slices: header and backing array), so that the account
   service is complete.
2. Webhooks in `Notification`, registration again in `PaymentRouter`.
3. `Retry` and `TimeoutMiddleware`, `Migrator`, and the cache, as soon as a service uses them.
