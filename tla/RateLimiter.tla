----------------------------- MODULE RateLimiter -----------------------------
(***************************************************************************)
(* The token bucket limiters (libs/middleware/ratelimit.go).  A caller of  *)
(* RateLimiter.Allow finds or makes its client's bucket under rl.mu, lets  *)
(* the lock go, and only then takes a token under the bucket's own lock.   *)
(* Meanwhile the cleanup goroutine may drop the bucket from the map: the   *)
(* caller then spends a token of a bucket nobody will find again, and the  *)
(* next caller makes a full one.                                           *)
(*                                                                         *)
(* Tokens are counted in parts, Unit parts to a token, so that a bucket    *)
(* can hold a fraction of one; Refill is the number of parts a tick adds.  *)
(* A bucket is named by its client and by the number of cleanups its       *)
(* limiter had done when it was made: between two cleanups a client's      *)
(* bucket is made at most once.                                            *)
(***************************************************************************)
EXTENDS Clock, FiniteSets

CONSTANTS
  Limiters,    \* the RateLimiter objects: one per limited route, one global
  Clients,     \* the values of KeyFunc
  Callers,     \* the requests that ask Allow
  Burst,       \* config.BurstSize of each limiter, in tokens
  Refill,      \* config.RequestsPerSecond of each limiter, in parts per tick
  Unit,        \* parts of a token
  MaxCleanups, \* bound on the rounds of a cleanup goroutine
  NoBucket     \* no pointer

Sources == Limiters \X Clients

ASSUME LimiterAssumption ==
  /\ IsFiniteSet(Callers)
  /\ Burst \in [Limiters -> Nat]
  /\ Refill \in [Limiters -> Nat]
  /\ Unit \in Nat
  /\ MaxCleanups \in Nat
  /\ NoBucket \notin Nat
  /\ NoBucket \notin Sources \X Nat

VARIABLES
  listed,    \* rl.buckets: for each source the number of its bucket
  bucket,    \* tokens and lastRefill of every bucket
  cleanups,  \* rounds done by the limiter's cleanup goroutine
  held,      \* the bucket a caller found and has not yet asked
  timely,    \* history: tokens taken from buckets while they are in the map
  late,      \* history: tokens taken from buckets cleanup has dropped
  caught,    \* history: callers that held a bucket when cleanup dropped it
  mark       \* history: timely at the beginning of each tick

limiterVars ==
  <<listed, bucket, cleanups, held, timely, late, caught, mark>>

Full(k) == Burst[k[1]] * Unit

LimiterInit ==
  /\ listed = [k \in Sources |-> NoBucket]
  /\ bucket = [k \in Sources |->
                 [n \in 0 .. MaxCleanups |-> [tokens |-> 0, last |-> 0]]]
  /\ cleanups = [l \in Limiters |-> 0]
  /\ held = [r \in Callers |-> NoBucket]
  /\ timely = [k \in Sources |-> 0]
  /\ late = [k \in Sources |-> 0]
  /\ caught = [k \in Sources |-> 0]
  /\ mark = [k \in Sources |-> [t \in 0 .. MaxTime |-> 0]]

-----------------------------------------------------------------------------
(* refill: what has flowed in since the last look, up to maxTokens.        *)
Level_Mutant(k, n) ==
  bucket[k][n].tokens + Refill[k[1]] * (now - bucket[k][n].last)
Level(k, n) ==
  LET sum == bucket[k][n].tokens + Refill[k[1]] * (now - bucket[k][n].last)
  IN  IF sum > Full(k) THEN Full(k) ELSE sum

(* RateLimiter.Allow, under rl.mu: the bucket in the map ...               *)
FindBucket(r, k) ==
  /\ held[r] = NoBucket
  /\ listed[k] # NoBucket
  /\ held' = [held EXCEPT ![r] = <<k, listed[k]>>]
  /\ UNCHANGED <<listed, bucket, cleanups, timely, late, caught, mark>>

(* ... or a new one, full.                                                 *)
NewTokenBucket(r, k) ==
  LET n == cleanups[k[1]]
  IN  /\ held[r] = NoBucket
      /\ listed[k] = NoBucket
      /\ listed' = [listed EXCEPT ![k] = n]
      /\ bucket' = [bucket EXCEPT ![k][n] = [tokens |-> Full(k), last |-> now]]
      /\ held' = [held EXCEPT ![r] = <<k, n>>]
      /\ UNCHANGED <<cleanups, timely, late, caught, mark>>

(* TokenBucket.Allow, under the bucket's lock: a token is taken ...        *)
TakeToken(r, k, n) ==
  /\ held[r] = <<k, n>>
  /\ Level(k, n) >= Unit
  /\ bucket' = [bucket EXCEPT ![k][n] = [tokens |-> Level(k, n) - Unit, last |-> now]]
  /\ held' = [held EXCEPT ![r] = NoBucket]
  /\ IF listed[k] = n
     THEN timely' = [timely EXCEPT ![k] = @ + 1] /\ UNCHANGED late
     ELSE late' = [late EXCEPT ![k] = @ + 1] /\ UNCHANGED timely
  /\ UNCHANGED <<listed, cleanups, caught, mark>>

(* ... or there is less than one.                                          *)
Refused(r, k, n) ==
  /\ held[r] = <<k, n>>
  /\ Level(k, n) < Unit
  /\ bucket' = [bucket EXCEPT ![k][n] = [tokens |-> Level(k, n), last |-> now]]
  /\ held' = [held EXCEPT ![r] = NoBucket]
  /\ UNCHANGED <<listed, cleanups, timely, late, caught, mark>>

(* The middleware looks the bucket up again for its headers: Tokens        *)
(* refills it.                                                             *)
Tokens(k) ==
  LET n == listed[k]
  IN  /\ n # NoBucket
      /\ bucket' = [bucket EXCEPT ![k][n] = [tokens |-> Level(k, n), last |-> now]]
      /\ UNCHANGED <<listed, cleanups, held, timely, late, caught, mark>>

(* One round of cleanup, under rl.mu: every bucket of the map is refilled  *)
(* by Tokens, and dropped if that leaves it full.  A token that a caller   *)
(* takes between the two is taken after the round here: nobody can tell,   *)
(* since nobody can look at the map in between.                            *)
Idle_Mutant(k) == listed[k] # NoBucket
Idle(k) == listed[k] # NoBucket /\ Level(k, listed[k]) >= Full(k)

Holding(k, n) == {r \in Callers : held[r] = <<k, n>>}

Cleanup(l) ==
  /\ cleanups[l] < MaxCleanups
  /\ bucket' = [k \in Sources |->
       IF k[1] = l /\ listed[k] # NoBucket
       THEN [bucket[k] EXCEPT ![listed[k]] =
               [tokens |-> Level(k, listed[k]), last |-> now]]
       ELSE bucket[k]]
  /\ listed' = [k \in Sources |->
                  IF k[1] = l /\ Idle(k) THEN NoBucket ELSE listed[k]]
  /\ caught' = [k \in Sources |->
                  IF k[1] = l /\ Idle(k)
                  THEN caught[k] + Cardinality(Holding(k, listed[k]))
                  ELSE caught[k]]
  /\ cleanups' = [cleanups EXCEPT ![l] = @ + 1]
  /\ UNCHANGED <<held, timely, late, mark>>

LimiterTick ==
  /\ Tick
  /\ mark' = [k \in Sources |-> [mark[k] EXCEPT ![now + 1] = timely[k]]]
  /\ UNCHANGED <<listed, bucket, cleanups, held, timely, late, caught>>

Ask(r, k) == FindBucket(r, k) \/ NewTokenBucket(r, k)
Allowed(r) == \E k \in Sources, n \in 0 .. MaxCleanups : TakeToken(r, k, n)
Limited(r) == \E k \in Sources, n \in 0 .. MaxCleanups : Refused(r, k, n)

LimiterNext ==
  \/ /\ \/ \E r \in Callers : Allowed(r) \/ Limited(r) \/ \E k \in Sources : Ask(r, k)
        \/ \E k \in Sources : Tokens(k)
        \/ \E l \in Limiters : Cleanup(l)
     /\ UNCHANGED now
  \/ LimiterTick

LimiterSpec == now = 0 /\ LimiterInit /\ [][LimiterNext]_<<now, limiterVars>>

-----------------------------------------------------------------------------

LimiterTypeOK ==
  /\ now \in 0 .. MaxTime
  /\ listed \in [Sources -> 0 .. MaxCleanups \cup {NoBucket}]
  /\ bucket \in [Sources -> [0 .. MaxCleanups -> [tokens : Nat, last : Nat]]]
  /\ cleanups \in [Limiters -> 0 .. MaxCleanups]
  /\ held \in [Callers -> (Sources \X (0 .. MaxCleanups)) \cup {NoBucket}]
  /\ timely \in [Sources -> Nat]
  /\ late \in [Sources -> Nat]
  /\ caught \in [Sources -> Nat]
  /\ mark \in [Sources -> [0 .. MaxTime -> Nat]]

(* The rate a limiter promises, whatever callers and cleanup interleave:   *)
(* from the beginning of any tick until now a client gets at most a burst  *)
(* and what has flowed in since -- dropping its bucket and making a new    *)
(* one never refills it -- and on top of that at most one token for each   *)
(* request that cleanup caught between finding its bucket and using it.    *)
LimiterHolds ==
  \A k \in Sources :
    /\ \A s \in 0 .. now :
         (timely[k] - mark[k][s]) * Unit <= Full(k) + Refill[k[1]] * (now - s)
    /\ late[k] <= caught[k]
=============================================================================
