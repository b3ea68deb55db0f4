------------------------------ MODULE MCGateway ------------------------------
(***************************************************************************)
(* The instances of the gateway and of its parts for TLC, all in one run.  *)
(* The parts share no state worth exploring together except where Gateway  *)
(* composes them, so that `part`, which is chosen once and for all, says   *)
(* which of them moves; the others stay as they began.                     *)
(***************************************************************************)
EXTENDS Gateway, SlidingWindow, HealthChecker, Roles

VARIABLE part

(* Two routes under one path: /api/accounts for administrators, limited,   *)
(* behind a breaker, and the rest of /api/ for everybody, to be read only. *)
MCRoutes == <<
  [path |-> <<"api", "accounts">>, below |-> FALSE, methods |-> {}, version |-> "v1",
   auth |-> TRUE, roles |-> {"admin"}, rateLimit |-> 12, guarded |-> TRUE],
  [path |-> <<"api">>, below |-> TRUE, methods |-> {"GET"}, version |-> "",
   auth |-> FALSE, roles |-> {}, rateLimit |-> 0, guarded |-> FALSE]>>

MCIncoming ==
  LET q == [NoRequest EXCEPT !.path = <<"api", "accounts">>]
      k == CHOOSE k \in FirstKeys : TRUE
  IN  {[q EXCEPT !.method = "POST", !.by = "key", !.key = k],
       [q EXCEPT !.version = "v1", !.by = "token", !.roles = {"admin"}],
       [q EXCEPT !.by = "token", !.roles = {"admin"}, !.until = -1],
       q,
       [q EXCEPT !.version = "v2"],
       [q EXCEPT !.path = <<"vendors">>]}

MCBurst == [l \in Limiters |-> IF l = 0 THEN 2 ELSE RouteBurst(l)]
MCRefill == [l \in Limiters |-> 1]
MCRoleSets == {{"user"}, {"admin"}}

MCDrafts == {Role({"transaction:refund"}, <<"auditor">>),
             Role({}, <<"user", "auditor", "admin">>)}
MCQuestions ==
  {<< <<"operator", "auditor">>, <<"transaction:refund">> >>,
   << <<"user", "admin">>, <<"api:write", "transaction:refund">> >>,
   << <<>>, <<"api:write">> >>}

MCInit ==
  /\ part \in {"requests", "keys", "rotation", "limiter", "window", "health", "roles"}
  /\ now = 0
  /\ LimiterInit /\ KeysInit /\ Init /\ GatewayInit /\ WindowInit /\ HealthInit /\ RolesInit
  /\ part # "requests" => global = {} /\ backend = "up"
  /\ part \notin {"keys", "rotation"} => expires = [k \in Keys |-> Never]
  /\ part # "keys" => limit = [k \in Keys |-> 0]
  /\ \A k \in FirstKeys : roles[k] = {"admin"}

-----------------------------------------------------------------------------
(* What moves in each part, and within which bounds.                       *)

OneOf(S) == CHOOSE x \in S : TRUE
ClockUpTo(t) == now' <= t

(* One change to a key, round of cleanup or tick while requests are on     *)
(* their way; none where the gateway has a limiter of its own, which only  *)
(* serves the route without authentication.                                *)
RequestsInGateway ==
  /\ GatewayNext
  /\ changes' + cleanups'[1] + now' <= IF global = {} THEN 1 ELSE 0
  /\ stored' \subseteq stored          \* no new keys
  /\ rotation' = rotation
  /\ limit' = limit
  /\ cleanups'[0] = 0
  /\ backend' = backend

(* Two validations of one key that is revoked, deleted or given another    *)
(* limit.                                                                  *)
KeysAlone ==
  /\ KeysNext
  /\ ClockUpTo(2)
  /\ changes' <= 1
  /\ stored' \subseteq stored
  /\ rotation' = rotation
  /\ roles' = roles
  /\ UNCHANGED <<limiterVars, vars, requestVars>>

(* Two rotations, and one validation, of a key without limit.              *)
RotationsAlone ==
  /\ KeysNext
  /\ ClockUpTo(2)
  /\ \A v \in Validators \ {OneOf(Validators)} : vpc'[v] = "idle" /\ verdict'[v] = "none"
  /\ \A k \in Keys : limit'[k] = 0 /\ roles'[k] \subseteq {"admin"}
  /\ UNCHANGED <<limiterVars, vars, requestVars>>

LimiterAlone ==
  /\ LimiterNext
  /\ ClockUpTo(2)
  /\ \A k \in Sources : k[1] # 0 => listed'[k] = NoBucket
  /\ \A l \in Limiters \ {0} : cleanups'[l] = 0
  /\ UNCHANGED <<keyVars, vars, requestVars>>

MCNext ==
  /\ \/ /\ \/ part = "requests" /\ RequestsInGateway
           \/ part = "keys" /\ KeysAlone
           \/ part = "rotation" /\ RotationsAlone
           \/ part = "limiter" /\ LimiterAlone
        /\ UNCHANGED <<windowVars, healthVars, roleVars>>
     \/ /\ part = "window" /\ WindowNext
        /\ UNCHANGED <<gatewayVars, healthVars, roleVars>>
     \/ /\ part = "health" /\ HealthNext
        /\ UNCHANGED <<now, gatewayVars, windowVars, roleVars>>
     \/ /\ part = "roles" /\ RolesNext
        /\ UNCHANGED <<now, gatewayVars, windowVars, healthVars>>
  /\ UNCHANGED part

MCSpec ==
  /\ MCInit
  /\ [][MCNext]_<<part, now, gatewayVars, windowVars, healthVars, roleVars>>
  /\ HealthFairness
=============================================================================
