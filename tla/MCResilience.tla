---------------------------- MODULE MCResilience ----------------------------
(***************************************************************************)
(* The instance of CircuitBreaker and Bulkhead for TLC.  They share        *)
(* nothing, so a behaviour is one of the breaker or one of the bulkhead,   *)
(* and the other one stays as it began.  Four requests against a limit of  *)
(* three probes: stale requests and probes are in flight together and a    *)
(* probe can be refused.  Four calls of a bulkhead with one slot and room  *)
(* for two fill the queue, overflow it and hand the slot over in turn.     *)
(***************************************************************************)
EXTENDS CircuitBreaker, Bulkhead

VARIABLE part  \* the one that acts

mcVars == <<vars, bulkheadVars, part>>

MCInit ==
  /\ Init /\ BulkheadInit
  /\ part \in {"breaker", "bulkhead"}
  /\ part = "bulkhead" => backend = "up"

MCNext ==
  /\ UNCHANGED part
  /\ \/ part = "breaker" /\ Next /\ UNCHANGED bulkheadVars
     \/ part = "bulkhead" /\ BulkheadNext /\ UNCHANGED vars

(* Fairness of CircuitBreaker and BulkheadFairSpec, for the one that acts. *)
MCFairness ==
  /\ WF_vars(part = "breaker" /\ CoolDown)
  /\ \A r \in Requests :
       /\ WF_vars(part = "breaker" /\ Allow(r))
       /\ WF_vars(part = "breaker" /\ stalled[r] = "no" /\ Report(r))
  /\ \A c \in Calls : WF_bulkheadVars(part = "bulkhead" /\ Execute(c))

MCSpec == MCInit /\ [][MCNext]_mcVars /\ MCFairness

(* EveryCallEnds of Bulkhead, in the behaviours that are the bulkhead's.   *)
CallsEnd == part = "bulkhead" => EveryCallEnds
=============================================================================
