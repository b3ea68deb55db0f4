--------------------------- MODULE CircuitBreaker ---------------------------
(***************************************************************************)
(* The circuit breaker of the API gateway (libs/gateway/circuit_breaker.go)*)
(* together with its only caller, Gateway.ServeHTTP: a request asks Allow, *)
(* is proxied to the backend with no lock held, and reports back once      *)
(* the response is complete -- by which time the breaker may have changed  *)
(* state several times.  Every breaker operation runs under its mutex and  *)
(* is one step.                                                            *)
(***************************************************************************)
EXTENDS Integers, FiniteSets

CONSTANTS
  Requests,          \* request slots: a request that ends frees its slot
  MaxFailures,       \* failures before opening
  HalfOpenRequests,  \* requests to test in half-open
  SuccessThreshold   \* successes needed to close

ASSUME ConfigAssumption ==
  /\ IsFiniteSet(Requests)
  /\ MaxFailures \in Nat
  /\ HalfOpenRequests \in Nat
  /\ SuccessThreshold \in Nat

VARIABLES
  state,       \* cb.state
  failures,    \* cb.failures
  successes,   \* cb.successes
  probes,      \* cb.halfOpenRequests
  cooled,      \* time.Since(cb.lastFailure) > cb.config.Timeout
  inFlight,    \* requests admitted and not yet reported
  probing,     \* history: those admitted since the breaker went half-open
  lost,        \* history: how many of those ended in a panic of the proxy
  stalled,     \* each request: whether its exchange with the backend is stalled
  backend      \* how requests end that are being answered now: "up", below 500,
               \* or "down", with a 5xx or no answer

breaker == <<state, failures, successes, probes>>
period == <<probing, lost>>
vars == <<breaker, cooled, inFlight, period, stalled, backend>>

Init ==
  /\ state = "closed"
  /\ failures = 0 /\ successes = 0 /\ probes = 0
  /\ cooled = TRUE          \* lastFailure is the zero time
  /\ inFlight = {} /\ probing = {} /\ lost = 0
  /\ stalled = [r \in Requests |-> "no"]
  /\ backend \in {"up", "down"}

(* transitionTo: every counter starts again.  (It returns early when the   *)
(* state does not change; no caller asks for that.)                        *)
TransitionTo_Mutant(newState, firstProbes) ==
  /\ state' = newState
  /\ failures' = 0 /\ probes' = firstProbes
  /\ UNCHANGED successes
TransitionTo(newState, firstProbes) ==
  /\ state' = newState
  /\ failures' = 0 /\ successes' = 0
  /\ probes' = firstProbes

-----------------------------------------------------------------------------
(* Allow.  A refused request is answered 503 and leaves no trace.          *)

AllowClosed(r) ==
  /\ state = "closed"
  /\ UNCHANGED <<breaker, period>>

(* The first request after the timeout opens the test period.              *)
AllowOpen_Mutant(r) ==
  /\ state = "open"
  /\ cooled
  /\ TransitionTo("half-open", 0)
  /\ probing' = {r} /\ UNCHANGED lost
AllowOpen(r) ==
  /\ state = "open"
  /\ cooled
  /\ TransitionTo("half-open", 1)
  /\ probing' = {r} /\ UNCHANGED lost

AllowHalfOpen(r) ==
  /\ state = "half-open"
  /\ probes < HalfOpenRequests
  /\ probes' = probes + 1
  /\ probing' = probing \cup {r}
  /\ UNCHANGED <<state, failures, successes, lost>>

Allow(r) ==
  /\ r \notin inFlight
  /\ AllowClosed(r) \/ AllowOpen(r) \/ AllowHalfOpen(r)
  /\ inFlight' = inFlight \cup {r}
  /\ UNCHANGED <<cooled, stalled, backend>>

-----------------------------------------------------------------------------
(* A proxied request, and its end.                                         *)

(* The exchange stops for as long as it likes: ResponseHeaderTimeout only  *)
(* runs from the last byte of the request to the headers of the answer.    *)
(* Before it, connecting and sending have no timeout ("unsent"); after it, *)
(* the status is known and the body has none.                              *)
Stall(r) ==
  /\ r \in inFlight
  /\ stalled[r] = "no"
  /\ stalled' \in {[stalled EXCEPT ![r] = "unsent"], [stalled EXCEPT ![r] = backend]}
  /\ UNCHANGED <<breaker, cooled, inFlight, period, backend>>

(* What the request's status says of the backend.                          *)
Outcome(r) == IF stalled[r] \in {"no", "unsent"} THEN backend ELSE stalled[r]

Leaves(r) ==
  /\ r \in inFlight
  /\ inFlight' = inFlight \ {r}
  /\ stalled' = [stalled EXCEPT ![r] = "no"]
  /\ UNCHANGED backend

(* The history of a half-open period ends with it.                         *)
Reported(r) ==
  /\ probing' = IF state' = state THEN probing \ {r} ELSE {}
  /\ lost' = IF state' = state THEN lost ELSE 0

CountSuccess_Mutant ==
  \/ /\ state = "closed"
     /\ failures' = 0
     /\ UNCHANGED <<state, successes, probes>>
  \/ /\ state = "half-open"
     /\ successes' = successes + 1
     /\ UNCHANGED <<state, failures, probes>>
  \/ /\ state = "open"
     /\ UNCHANGED breaker

(* RecordSuccess: the answer was below 500.  It counts whatever the state  *)
(* the request was admitted in.                                            *)
CountSuccess ==
  \/ /\ state = "closed"
     /\ failures' = 0
     /\ UNCHANGED <<state, successes, probes>>
  \/ /\ state = "half-open"
     /\ successes + 1 < SuccessThreshold
     /\ successes' = successes + 1
     /\ UNCHANGED <<state, failures, probes>>
  \/ /\ state = "half-open"
     /\ successes + 1 >= SuccessThreshold
     /\ TransitionTo("closed", 0)
  \/ /\ state = "open"
     /\ UNCHANGED breaker

RecordSuccess(r) ==
  /\ Leaves(r)
  /\ Outcome(r) = "up"
  /\ CountSuccess
  /\ Reported(r)
  /\ UNCHANGED cooled

(* RecordFailure: a 5xx, the proxy's own 502 when there was no answer among*)
(* them.  lastFailure moves even while the circuit is open.                *)
CountFailure ==
  \/ /\ state = "closed"
     /\ failures + 1 < MaxFailures
     /\ failures' = failures + 1
     /\ UNCHANGED <<state, successes, probes>>
  \/ /\ state = "closed"
     /\ failures + 1 >= MaxFailures
     /\ TransitionTo("open", 0)
  \/ /\ state = "half-open"
     /\ TransitionTo("open", 0)
  \/ /\ state = "open"
     /\ UNCHANGED breaker

RecordFailure(r) ==
  /\ Leaves(r)
  /\ Outcome(r) = "down"
  /\ CountFailure
  /\ Reported(r)
  /\ cooled' = FALSE

(* ReverseProxy.ServeHTTP panics with http.ErrAbortHandler when the        *)
(* response body breaks off: the statements after it, which report the     *)
(* result, never run.                                                      *)
Abort(r) ==
  /\ Leaves(r)
  /\ probing' = probing \ {r}
  /\ lost' = IF r \in probing THEN lost + 1 ELSE lost
  /\ UNCHANGED <<breaker, cooled>>

-----------------------------------------------------------------------------

(* Reset and CircuitBreakerRegistry.ResetAll, which are there for an       *)
(* operator: no code in the repository calls them.                         *)
Reset ==
  /\ TransitionTo("closed", 0)
  /\ probing' = {} /\ lost' = 0
  /\ UNCHANGED <<cooled, inFlight, stalled, backend>>

(* Timeout passes since the last failure.                                  *)
CoolDown ==
  /\ ~cooled
  /\ cooled' = TRUE
  /\ UNCHANGED <<breaker, inFlight, period, stalled, backend>>

(* The backend fails or recovers.                                          *)
Turn ==
  /\ backend' = IF backend = "up" THEN "down" ELSE "up"
  /\ UNCHANGED <<breaker, cooled, inFlight, period, stalled>>

Report(r) == RecordSuccess(r) \/ RecordFailure(r)

Next ==
  \/ \E r \in Requests : Allow(r) \/ Stall(r) \/ Report(r) \/ Abort(r)
  \/ Reset
  \/ CoolDown
  \/ Turn

Spec == Init /\ [][Next]_vars

(* Time passes, clients keep sending requests, and a request that is being *)
(* proxied comes back (ResponseHeaderTimeout) -- unless its exchange is    *)
(* stalled, which may be for ever.  Nothing obliges an operator to call    *)
(* Reset, nor the backend to recover.                                      *)
Fairness ==
  /\ WF_vars(CoolDown)
  /\ \A r \in Requests : WF_vars(Allow(r)) /\ WF_vars(stalled[r] = "no" /\ Report(r))

FairSpec == Spec /\ Fairness

-----------------------------------------------------------------------------
(* Properties.                                                             *)

TypeOK ==
  /\ state \in {"closed", "open", "half-open"}
  /\ failures \in Nat /\ successes \in Nat /\ probes \in Nat
  /\ cooled \in BOOLEAN
  /\ inFlight \subseteq Requests
  /\ probing \subseteq inFlight
  /\ lost \in Nat
  /\ stalled \in [Requests -> {"no", "unsent", "up", "down"}]
  /\ \A r \in Requests : stalled[r] # "no" => r \in inFlight
  /\ backend \in {"up", "down"}

(* A counter only holds what was counted in the state it belongs to, and   *)
(* never a value at which the state should already have changed: results   *)
(* of requests admitted in an earlier state cannot leave a stale count.    *)
CountersMatchState ==
  /\ failures # 0 => state = "closed" /\ failures < MaxFailures
  /\ successes # 0 => state = "half-open" /\ successes < SuccessThreshold
  /\ probes # 0 <=> state = "half-open"

(* A recovering backend is tested by at most HalfOpenRequests requests at a*)
(* time ("Allow limited requests in half-open state"); the request that    *)
(* ends the open period is let through whatever the configuration.         *)
ProbeLimit == IF HalfOpenRequests > 1 THEN HalfOpenRequests ELSE 1
ProbesBounded == Cardinality(probing) <= ProbeLimit

(* The number of successes that does close the circuit.                    *)
Needed == IF SuccessThreshold > 1 THEN SuccessThreshold ELSE 1

(* The probes of this period that reported nothing, and those that need    *)
(* never report, leave enough of HalfOpenRequests for those successes.     *)
StalledProbes == {r \in probing : stalled[r] # "no"}
Spare == lost + Cardinality(StalledProbes) <= HalfOpenRequests - Needed

(* A half-open breaker has no timeout: only the report of a request closes *)
(* or reopens it.  As long as there are probes to spare, it lets another   *)
(* one through or is waiting for one that is not stalled.                  *)
ProbeAvailable ==
  Spare /\ state = "half-open" /\ probes >= HalfOpenRequests =>
    probing \ StalledProbes # {}

(* The gateway needs no operator to serve a backend again: "recover to full*)
(* capacity without manual intervention" (Idea.md).                        *)
Stuck == state = "half-open" /\ inFlight = {} /\ probes >= HalfOpenRequests
NeverStuck == ~Stuck

(* Once the backend answers again for good, and there are probes to spare  *)
(* and a client that is not stalled, the circuit closes and stays closed   *)
(* with no Reset needed.                                                   *)
Recovers ==
  <>[](backend = "up" /\ Spare /\ \E r \in Requests : stalled[r] = "no") => <>[](state = "closed")
=============================================================================
