------------------------------- MODULE Gateway -------------------------------
(***************************************************************************)
(* Gateway.ServeHTTP (libs/gateway/gateway.go): the way of a request       *)
(* through the gateway, composed of the token bucket limiters              *)
(* (RateLimiter), the API keys (APIKeys) and a service's circuit breaker   *)
(* (CircuitBreaker).  Every request is a goroutine; between any two of its *)
(* steps the keys, the buckets and the breaker may change.                 *)
(*                                                                         *)
(* Requests are the callers of the limiters, the validators of keys and    *)
(* the requests of the breaker.  A path is the sequence of its segments.   *)
(* One of the services has a breaker, the others have none.                *)
(***************************************************************************)
EXTENDS RateLimiter, APIKeys, CircuitBreaker, Sequences

CONSTANTS
  Routes,      \* config.Routes, in order
  Incoming,    \* the requests clients send
  VersionLike  \* path segments that begin with "v"

(* Limiter 0 is the gateway's own, limiter i that of route i, if it has a  *)
(* rate limit (in requests per minute): addRoute gives it a burst of ten   *)
(* seconds' worth, rounded down.  Everything comes from one client.        *)
RouteBurst(i) == Routes[i].rateLimit \div 6

ASSUME GatewayAssumption ==
  /\ Callers = Requests
  /\ Validators = Requests
  /\ Len(Routes) \in Nat /\ DOMAIN Routes = 1 .. Len(Routes)
  /\ \A q \in Incoming : q.by = "key" => q.key \in Keys
  /\ Limiters \subseteq 0 .. Len(Routes)
  /\ \A i \in DOMAIN Routes :
       /\ Routes[i].rateLimit \in Nat
       /\ i \in Limiters <=> Routes[i].rateLimit > 0
       /\ i \in Limiters => Burst[i] = RouteBurst(i)

VARIABLES
  global,    \* g.rateLimiter: {0}, or {} if none is configured
  at,       \* each request: where ServeHTTP is
  req,      \* its method, path, version header and credentials
  route,    \* the number of the route found
  eligible  \* history: its caller carried a role of the route at some time

requestVars == <<global, at, req, route, eligible>>
gatewayVars == <<limiterVars, keyVars, vars, requestVars>>

NoRequest == [path |-> <<>>, method |-> "GET", version |-> "", by |-> "nobody",
              key |-> NoKey, roles |-> {}, until |-> Never]

GatewayInit ==
  /\ global \in {{}, {0} \cap Limiters}
  /\ at = [r \in Requests |-> "idle"]
  /\ req = [r \in Requests |-> NoRequest]
  /\ route = [r \in Requests |-> 0]
  /\ eligible = [r \in Requests |-> FALSE]

-----------------------------------------------------------------------------
(* findRoute                                                               *)

(* matchPath: a pattern that ends in "/" or "/*" matches what is below it, *)
(* any other itself as well.  (A "*" within a segment is not modelled.)    *)
MatchPath(rt, path) ==
  /\ Len(rt.path) <= Len(path)
  /\ SubSeq(path, 1, Len(rt.path)) = rt.path
  /\ rt.below => Len(rt.path) < Len(path)

(* containsString, for a route that names its methods.                     *)
MatchMethod(rt, method) == rt.methods = {} \/ method \in rt.methods

(* The header, or else the first segment if it looks like a version, which *)
(* every segment does that begins with "v".                                *)
Version(q) ==
  IF q.version # "" THEN q.version
  ELSE IF q.path # <<>> /\ q.path[1] \in VersionLike THEN q.path[1]
  ELSE ""

Serves(rt, q) == MatchPath(rt, q.path) /\ MatchMethod(rt, q.method)
VersionAgrees(rt, q) == rt.version = "" \/ rt.version = Version(q) \/ Version(q) = ""

First(S) == CHOOSE i \in S : \A j \in S : i <= j

(* The first route that serves the request in its version, or else the     *)
(* first without a version; 0 if there is none.                            *)
FindRoute(q) ==
  LET fit == {i \in DOMAIN Routes : Serves(Routes[i], q) /\ VersionAgrees(Routes[i], q)}
      plain == {i \in DOMAIN Routes : Serves(Routes[i], q) /\ Routes[i].version = ""}
  IN  IF fit # {} THEN First(fit) ELSE IF plain # {} THEN First(plain) ELSE 0

-----------------------------------------------------------------------------
(* ServeHTTP                                                               *)

Rt(r) == Routes[route[r]]

(* hasAnyRole                                                              *)
HasAnyRole(has, needed) == has \cap needed # {}

(* The roles a caller has now.                                             *)
RolesOf(q) == IF q.by = "key" THEN roles[q.key] ELSE q.roles

Moves(r, from, to) ==
  /\ at[r] = from
  /\ at' = [at EXCEPT ![r] = to]
  /\ UNCHANGED <<global, req, route, eligible>>

(* An answer (writeError with a status, or the end of a proxied request):  *)
(* the slot is free again.                                                 *)
Answer(r, from) ==
  /\ at[r] = from
  /\ at' = [at EXCEPT ![r] = "idle"]
  /\ req' = [req EXCEPT ![r] = NoRequest]
  /\ route' = [route EXCEPT ![r] = 0]
  /\ eligible' = [eligible EXCEPT ![r] = FALSE]
  /\ UNCHANGED global

Arrive(r, q) ==
  LET i == FindRoute(q)
  IN  /\ at[r] = "idle"
      /\ IF i = 0
         THEN Answer(r, "idle")  \* 404
         ELSE /\ UNCHANGED global
              /\ at' = [at EXCEPT ![r] = "limiter"]
              /\ req' = [req EXCEPT ![r] = q]
              /\ route' = [route EXCEPT ![r] = i]
              /\ eligible' = [eligible EXCEPT ![r] = HasAnyRole(RolesOf(q), Routes[i].roles)]
      /\ UNCHANGED <<now, limiterVars, keyVars, vars>>

(* The route's limiter, or else the gateway's, if there is one.            *)
LimiterOf(r) ==
  IF route[r] \in Limiters THEN {route[r]} ELSE global

PassLimiter(r) ==
  /\ LimiterOf(r) = {}
  /\ Moves(r, "limiter", "auth")
  /\ UNCHANGED <<now, limiterVars, keyVars, vars>>

AskLimiter(r) ==
  /\ at[r] = "limiter"
  /\ \E l \in LimiterOf(r), c \in Clients : Ask(r, <<l, c>>)
  /\ Moves(r, "limiter", "bucket")
  /\ UNCHANGED <<now, keyVars, vars>>

LimiterDecides(r) ==
  /\ at[r] = "bucket"
  /\ \/ Allowed(r) /\ Moves(r, "bucket", "auth")
     \/ Limited(r) /\ Answer(r, "bucket")  \* 429
  /\ UNCHANGED <<now, keyVars, vars>>

(* authenticate: the API key first, if there is one; a token is good until *)
(* it expires (one with a bad signature is no different from an old one).  *)
Authenticate(r) ==
  /\ at[r] = "auth"
  /\ \/ /\ ~Rt(r).auth
        /\ Moves(r, "auth", "breaker")
     \/ /\ Rt(r).auth /\ req[r].by = "token"
        /\ IF req[r].until = Never \/ now <= req[r].until
           THEN Moves(r, "auth", "roles") ELSE Answer(r, "auth")
     \/ /\ Rt(r).auth /\ req[r].by = "nobody"
        /\ Answer(r, "auth")
  /\ UNCHANGED <<now, limiterVars, keyVars, vars>>

PresentKey(r) ==
  /\ at[r] = "auth"
  /\ Rt(r).auth /\ req[r].by = "key"
  /\ \/ FindKey(r, req[r].key) /\ Moves(r, "auth", "key")
     \/ KeyNotFound(r, req[r].key) /\ Answer(r, "auth")
  /\ UNCHANGED <<now, limiterVars, rotation, changes, history, vars>>

ValidateKey(r) ==
  /\ at[r] = "key"
  /\ Validate(r)
  /\ CASE verdict'[r] = "ok" -> Moves(r, "key", "roles")
       [] verdict'[r] = "refused" -> Answer(r, "key")
       [] OTHER -> UNCHANGED requestVars
  /\ UNCHANGED <<now, limiterVars, vars>>

(* The key's roles are read when its validation has returned.  (They are   *)
(* replaced under a lock that the reader does not take; the role lists of  *)
(* the instances have one element, so that a torn read is a stale one.)    *)
CheckRoles_Mutant(r) ==
  /\ at[r] = "roles"
  /\ \/ /\ Rt(r).roles = {} \/ RolesOf(req[r]) # {}
        /\ Moves(r, "roles", "breaker")
     \/ /\ Rt(r).roles # {} /\ RolesOf(req[r]) = {}
        /\ Answer(r, "roles")
  /\ UNCHANGED <<now, limiterVars, keyVars, vars>>
CheckRoles(r) ==
  /\ at[r] = "roles"
  /\ \/ /\ Rt(r).roles = {} \/ HasAnyRole(RolesOf(req[r]), Rt(r).roles)
        /\ Moves(r, "roles", "breaker")
     \/ /\ Rt(r).roles # {} /\ ~HasAnyRole(RolesOf(req[r]), Rt(r).roles)
        /\ Answer(r, "roles")
  /\ UNCHANGED <<now, limiterVars, keyVars, vars>>

(* The breaker of the route's service, if it has one.                      *)
BreakerOpen ==
  \/ state = "open" /\ ~cooled
  \/ state = "half-open" /\ probes >= HalfOpenRequests

AskBreaker(r) ==
  /\ at[r] = "breaker"
  /\ IF ~Rt(r).guarded
     THEN Moves(r, "breaker", "proxied") /\ UNCHANGED vars
     ELSE \/ Allow(r) /\ Moves(r, "breaker", "proxied")
          \/ BreakerOpen /\ Answer(r, "breaker") /\ UNCHANGED vars
  /\ UNCHANGED <<now, limiterVars, keyVars>>

(* The exchange with the backend stalls.                                   *)
StallProxy(r) ==
  /\ at[r] = "proxied"
  /\ Rt(r).guarded
  /\ Stall(r)
  /\ UNCHANGED <<now, limiterVars, keyVars, requestVars>>

(* The backend's answer, of the kind the breaker distinguishes; or a body  *)
(* that breaks off.                                                        *)
EndProxy(r) ==
  /\ at[r] = "proxied"
  /\ IF Rt(r).guarded
     THEN \/ RecordSuccess(r) /\ Answer(r, "proxied")
          \/ RecordFailure(r) /\ Answer(r, "proxied")
          \/ Abort(r) /\ Answer(r, "proxied")
     ELSE Answer(r, "proxied") /\ UNCHANGED vars
  /\ UNCHANGED <<now, limiterVars, keyVars>>

ServeHTTP(r) ==
  \/ \E q \in Incoming : Arrive(r, q)
  \/ PassLimiter(r) \/ AskLimiter(r) \/ LimiterDecides(r)
  \/ Authenticate(r) \/ PresentKey(r) \/ ValidateKey(r) \/ CheckRoles(r)
  \/ AskBreaker(r) \/ StallProxy(r) \/ EndProxy(r)

(* Keys are managed, buckets cleaned up and breakers cool down meanwhile.  *)
KeysChange ==
  /\ Manage
  /\ eligible' = [r \in Requests |->
       \/ eligible[r]
       \/ at[r] # "idle" /\ req[r].by = "key" /\ HasAnyRole(roles'[req[r].key], Rt(r).roles)]
  /\ UNCHANGED <<now, limiterVars, vars, global, at, req, route>>

LimitersChange ==
  /\ \E l \in Limiters : Cleanup(l)
  /\ UNCHANGED <<now, keyVars, vars, requestVars>>

BreakerChanges ==
  /\ CoolDown \/ Turn
  /\ UNCHANGED <<now, limiterVars, keyVars, requestVars>>

GatewayTick ==
  /\ LimiterTick
  /\ UNCHANGED <<keyVars, vars, requestVars>>

GatewayNext ==
  \/ \E r \in Requests : ServeHTTP(r)
  \/ KeysChange \/ LimitersChange \/ BreakerChanges \/ GatewayTick

GatewaySpec ==
  /\ now = 0 /\ LimiterInit /\ KeysInit /\ Init /\ GatewayInit
  /\ [][GatewayNext]_<<now, gatewayVars>>

-----------------------------------------------------------------------------

GatewayTypeOK ==
  /\ global \subseteq {0} \cap Limiters
  /\ at \in [Requests -> {"idle", "limiter", "bucket", "auth", "key", "roles", "breaker",
                          "proxied"}]
  /\ req \in [Requests -> Incoming \cup {NoRequest}]
  /\ route \in [Requests -> 0 .. Len(Routes)]
  /\ eligible \in [Requests -> BOOLEAN]

(* A request that reaches the service behind a protected route was entitled*)
(* to it while it was in the gateway: its key had not been retired when it *)
(* was looked up, and at some time since the request arrived its caller    *)
(* carried one of the route's roles -- though keys are revoked and given   *)
(* other roles between the steps.                                          *)
CallersEntitled ==
  \A r \in Requests : at[r] \in {"breaker", "proxied"} /\ Rt(r).auth =>
    /\ \/ req[r].by = "token"
       \/ req[r].by = "key" /\ vkey[r] = req[r].key /\ verdict[r] = "ok" /\ ~doomed[r]
    /\ Rt(r).roles # {} => eligible[r]
=============================================================================
