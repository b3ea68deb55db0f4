------------------------------- MODULE APIKeys -------------------------------
(***************************************************************************)
(* APIKeyManager (libs/auth/apikey.go): keys that requests validate while  *)
(* operators revoke, delete, rotate and change them.  ValidateAPIKey finds *)
(* the key object under the lock and reads its fields with no lock held;   *)
(* the object outlives its deletion from the map.  RotateAPIKey calls four *)
(* operations of the manager, each locked on its own.  The rate limit is a *)
(* counter of the current minute, started by the first request after the   *)
(* last one ended.                                                         *)
(*                                                                         *)
(* A key stands for its raw text, its hash, its prefix and its ID alike    *)
(* (all of them random, and assumed distinct).  A tick is a fraction of    *)
(* the minute, which is Minute ticks long.                                 *)
(***************************************************************************)
EXTENDS Clock, FiniteSets

CONSTANTS
  Keys,        \* the keys there are and will be
  FirstKeys,   \* the keys generated before the run begins
  Lifetimes,   \* when those expire: a tick, or Never
  Limits,      \* values of RateLimit; 0 is unlimited
  RoleSets,    \* values of Roles
  Graces,      \* values of gracePeriod; 0 stands for nil too
  Validators,  \* requests that present a key
  Operators,   \* requests that manage keys
  Minute,      \* ticks in the minute of the rate limit
  MaxChanges,  \* bound on the operators' operations
  Never,       \* ExpiresAt is nil
  NoKey        \* no pointer

ASSUME KeysAssumption ==
  /\ FirstKeys \subseteq Keys
  /\ IsFiniteSet(Keys)
  /\ Limits \subseteq Nat
  /\ Graces \subseteq Nat
  /\ Minute \in Nat \ {0}
  /\ MaxChanges \in Nat
  /\ Never \notin Int
  /\ Lifetimes \subseteq Int \cup {Never}
  /\ NoKey \notin Keys

VARIABLES
  stored,    \* m.keys (and m.prefixMap): the keys that can be found
  active,    \* IsActive
  expires,   \* ExpiresAt
  limit,     \* RateLimit
  roles,     \* Roles
  scoped,    \* Scopes and Metadata are what they should be
  minute,    \* m.rateLimits: count and resetTime
  vpc, vkey, vlimit, verdict,  \* each validation: where it is, its key, the
                               \* limit it read, what it returned
  rotation,  \* each operator's call of RotateAPIKey
  changes,   \* operations done
  retired,   \* history: keys that have been revoked or deleted
  doomed,    \* history: validations whose key was retired when they began
  started,   \* history: the tick each validation began in
  promised,  \* history: when the last grace period granted to a key ends
  heirs,     \* history: old and new key of every rotation that has returned
  used,      \* history: uses counted before each tick while the key was stored
  top        \* history: the largest RateLimit a key has had

keyRecord == <<stored, active, expires, limit, roles, scoped>>
calls == <<vpc, vkey, vlimit, verdict, doomed, started>>
history == <<retired, promised, heirs, top>>
keyVars == <<keyRecord, minute, calls, rotation, changes, history, used>>

NoMinute == [count |-> 0, reset |-> -1]
NoRotation == [at |-> "idle", old |-> NoKey, new |-> NoKey, roles |-> {}, limit |-> 0,
               left |-> Never]

KeysInit ==
  /\ stored = FirstKeys
  /\ active = [k \in Keys |-> k \in FirstKeys]
  /\ \E exp \in Lifetimes, n \in Limits, rs \in RoleSets :
       /\ expires = [k \in Keys |-> IF k \in FirstKeys THEN exp ELSE Never]
       /\ limit = [k \in Keys |-> IF k \in FirstKeys THEN n ELSE 0]
       /\ roles = [k \in Keys |-> IF k \in FirstKeys THEN rs ELSE {}]
  /\ scoped = [k \in Keys |-> k \in FirstKeys]
  /\ minute = [k \in Keys |-> NoMinute]
  /\ vpc = [v \in Validators |-> "idle"]
  /\ vkey = [v \in Validators |-> NoKey]
  /\ vlimit = [v \in Validators |-> 0]
  /\ verdict = [v \in Validators |-> "none"]
  /\ rotation = [o \in Operators |-> NoRotation]
  /\ changes = 0
  /\ retired = {}
  /\ doomed = [v \in Validators |-> FALSE]
  /\ started = [v \in Validators |-> 0]
  /\ promised = [k \in Keys |-> Never]
  /\ heirs = {}
  /\ used = [k \in Keys |-> NoneYet]
  /\ top = limit

-----------------------------------------------------------------------------
(* ValidateAPIKey                                                          *)

(* A raw key is known to nobody before RotateAPIKey returns it.            *)
Known(k) == \A o \in Operators : rotation[o].new # k

Expired(k) == expires[k] # Never /\ now > expires[k]

Step(v, from, to) ==
  /\ vpc[v] = from
  /\ vpc' = [vpc EXCEPT ![v] = to]
  /\ UNCHANGED <<vkey, verdict, doomed, started>>

(* An error (not found, disabled, expired, rate limit): nothing is         *)
(* returned, and the locals of the call are gone.                          *)
Refuse(v, from) ==
  /\ vpc[v] = from
  /\ vpc' = [vpc EXCEPT ![v] = "idle"]
  /\ vkey' = [vkey EXCEPT ![v] = NoKey]
  /\ vlimit' = [vlimit EXCEPT ![v] = 0]
  /\ verdict' = [verdict EXCEPT ![v] = "refused"]
  /\ doomed' = [doomed EXCEPT ![v] = FALSE]
  /\ started' = [started EXCEPT ![v] = 0]

(* The lookup, under the read lock.                                        *)
FindKey(v, k) ==
  /\ vpc[v] = "idle"
  /\ Known(k)
  /\ k \in stored
  /\ vpc' = [vpc EXCEPT ![v] = "active"]
  /\ vkey' = [vkey EXCEPT ![v] = k]
  /\ verdict' = [verdict EXCEPT ![v] = "none"]
  /\ doomed' = [doomed EXCEPT ![v] = k \in retired]
  /\ started' = [started EXCEPT ![v] = now]
  /\ UNCHANGED <<vlimit, keyRecord, minute, used>>

KeyNotFound(v, k) ==
  /\ k \notin stored \/ ~Known(k)
  /\ Refuse(v, "idle")
  /\ UNCHANGED <<keyRecord, minute, used>>

(* The checks, with no lock held: each reads the object as it is by then.  *)
CheckActive_Mutant(v) ==
  /\ Step(v, "active", "expiry") /\ UNCHANGED vlimit
  /\ UNCHANGED <<keyRecord, minute, used>>
CheckActive(v) ==
  /\ \/ Step(v, "active", "expiry") /\ active[vkey[v]] /\ UNCHANGED vlimit
     \/ Refuse(v, "active") /\ ~active[vkey[v]]
  /\ UNCHANGED <<keyRecord, minute, used>>

CheckExpiry(v) ==
  /\ \/ Step(v, "expiry", "limit") /\ ~Expired(vkey[v]) /\ UNCHANGED vlimit
     \/ Refuse(v, "expiry") /\ Expired(vkey[v])
  /\ UNCHANGED <<keyRecord, minute, used>>

(* RateLimit is read twice: for the condition and for the argument.        *)
CheckLimited(v) ==
  /\ vpc[v] = "limit"
  /\ Step(v, "limit", IF limit[vkey[v]] > 0 THEN "argument" ELSE "touch")
  /\ UNCHANGED <<vlimit, keyRecord, minute, used>>

ReadLimit(v) ==
  /\ Step(v, "argument", "count")
  /\ vlimit' = [vlimit EXCEPT ![v] = limit[vkey[v]]]
  /\ UNCHANGED <<keyRecord, minute, used>>

(* checkRateLimit, under the lock: the first use starts a minute, ...      *)
Counted(k) ==
  used' = IF k \in stored THEN [used EXCEPT ![k] = Noted(@)] ELSE used

OpenMinute_Mutant(v) ==
  LET k == vkey[v]
  IN  /\ Step(v, "count", "touch")
      /\ now >= minute[k].reset
      /\ minute' = [minute EXCEPT ![k] = [count |-> 0, reset |-> now + Minute]]
      /\ Counted(k)
      /\ UNCHANGED <<vlimit, keyRecord>>
OpenMinute(v) ==
  LET k == vkey[v]
  IN  /\ Step(v, "count", "touch")
      /\ now > minute[k].reset
      /\ minute' = [minute EXCEPT ![k] = [count |-> 1, reset |-> now + Minute]]
      /\ Counted(k)
      /\ UNCHANGED <<vlimit, keyRecord>>

(* ... later ones are counted up to the limit the request has read, ...    *)
CountUse(v) ==
  LET k == vkey[v]
  IN  /\ Step(v, "count", "touch")
      /\ now <= minute[k].reset
      /\ minute[k].count < vlimit[v]
      /\ minute' = [minute EXCEPT ![k].count = @ + 1]
      /\ Counted(k)
      /\ UNCHANGED <<vlimit, keyRecord>>

(* ... and the rest are refused.                                           *)
LimitReached(v) ==
  /\ Refuse(v, "count")
  /\ now <= minute[vkey[v]].reset
  /\ minute[vkey[v]].count >= vlimit[v]
  /\ UNCHANGED <<keyRecord, minute, used>>

(* LastUsedAt is set, under the lock, and the key returned.                *)
Touch(v) ==
  /\ vpc[v] = "touch"
  /\ vpc' = [vpc EXCEPT ![v] = "idle"]
  /\ vlimit' = [vlimit EXCEPT ![v] = 0]
  /\ verdict' = [verdict EXCEPT ![v] = "ok"]
  /\ UNCHANGED <<vkey, doomed, started, keyRecord, minute, used>>

Validate(v) ==
  /\ \/ CheckActive(v) \/ CheckExpiry(v) \/ CheckLimited(v) \/ ReadLimit(v)
     \/ OpenMinute(v) \/ CountUse(v) \/ LimitReached(v) \/ Touch(v)
  /\ UNCHANGED <<rotation, changes, history>>

ValidateAPIKey(v) ==
  \/ Validate(v)
  \/ /\ \E k \in Keys : FindKey(v, k) \/ KeyNotFound(v, k)
     /\ UNCHANGED <<rotation, changes, history>>

-----------------------------------------------------------------------------
(* The operators' requests.                                                *)

Made == stored \cup retired

(* A random key, like no other.                                            *)
Fresh == CHOOSE k \in Keys : k \notin Made

Change ==
  /\ changes < MaxChanges
  /\ changes' = changes + 1

(* GenerateAPIKey: everything but Scopes and Metadata, which the caller    *)
(* sets on the object it gets back.                                        *)
Generate(k, exp, n, rs, done) ==
  /\ Made # Keys
  /\ stored' = stored \cup {k}
  /\ active' = [active EXCEPT ![k] = TRUE]
  /\ expires' = [expires EXCEPT ![k] = exp]
  /\ limit' = [limit EXCEPT ![k] = n]
  /\ roles' = [roles EXCEPT ![k] = rs]
  /\ scoped' = [scoped EXCEPT ![k] = done]
  /\ top' = [top EXCEPT ![k] = n]

GenerateAPIKey ==
  /\ Change
  /\ \E exp \in Lifetimes, n \in Limits, rs \in RoleSets :
       Generate(Fresh, exp, n, rs, TRUE)
  /\ UNCHANGED <<minute, calls, rotation, retired, promised, heirs, used>>

(* An unknown ID changes nothing, here and in the other operations.        *)
Revoke(k) ==
  /\ active' = [active EXCEPT ![k] = IF k \in stored THEN FALSE ELSE @]
  /\ retired' = IF k \in stored THEN retired \cup {k} ELSE retired

RevokeAPIKey(k) ==
  /\ Change
  /\ k \in stored
  /\ Revoke(k)
  /\ UNCHANGED <<stored, expires, limit, roles, scoped, minute, calls, rotation,
                 promised, heirs, top, used>>

DeleteAPIKey(k) ==
  /\ Change
  /\ k \in stored
  /\ stored' = stored \ {k}
  /\ minute' = [minute EXCEPT ![k] = NoMinute]
  /\ retired' = retired \cup {k}
  /\ UNCHANGED <<active, expires, limit, roles, scoped, calls, rotation, promised,
                 heirs, top, used>>

UpdateAPIKeyRoles(k, rs) ==
  /\ Change
  /\ k \in stored
  /\ roles' = [roles EXCEPT ![k] = rs]
  /\ UNCHANGED <<stored, active, expires, limit, scoped, minute, calls, rotation,
                 history, used>>

UpdateAPIKeyRateLimit(k, n) ==
  /\ Change
  /\ k \in stored
  /\ limit' = [limit EXCEPT ![k] = n]
  /\ top' = [top EXCEPT ![k] = IF n > @ THEN n ELSE @]
  /\ UNCHANGED <<stored, active, expires, roles, scoped, minute, calls, rotation,
                 retired, promised, heirs, used>>

(* RotateAPIKey finds the old key, ...                                      *)
RotateFind(o, k) ==
  /\ rotation[o].at = "idle"
  /\ Change
  /\ k \in stored
  /\ rotation' = [rotation EXCEPT ![o].at = "expiry", ![o].old = k]
  /\ UNCHANGED <<keyRecord, minute, calls, history, used>>

(* ... reads its fields one by one with no lock held, ...                  *)
RotateRead(o) ==
  LET r == rotation[o]
      k == r.old
  IN  /\ \/ /\ r.at = "expiry"
            /\ rotation' = [rotation EXCEPT ![o].at = "roles",
                 ![o].left = IF expires[k] = Never THEN Never ELSE expires[k] - now]
         \/ /\ r.at = "roles"
            /\ rotation' = [rotation EXCEPT ![o].at = "limit", ![o].roles = roles[k]]
         \/ /\ r.at = "limit"
            /\ rotation' = [rotation EXCEPT ![o].at = "publish", ![o].limit = limit[k]]
      /\ UNCHANGED <<keyRecord, minute, calls, changes, history, used>>

(* ... generates the new one with what it read, ...                        *)
RotatePublish(o) ==
  LET r == rotation[o]
      k == Fresh
  IN  /\ r.at = "publish"
      /\ Generate(k, IF r.left = Never THEN Never ELSE now + r.left, r.limit, r.roles, FALSE)
      /\ rotation' = [rotation EXCEPT ![o].at = "copy", ![o].new = k]
      /\ UNCHANGED <<minute, calls, changes, retired, promised, heirs, used>>

(* ... copies the scopes and the metadata, ...                             *)
RotateCopy(o) ==
  /\ rotation[o].at = "copy"
  /\ scoped' = [scoped EXCEPT ![rotation[o].new] = TRUE]
  /\ rotation' = [rotation EXCEPT ![o].at = "retire"]
  /\ UNCHANGED <<stored, active, expires, limit, roles, minute, calls, changes, history, used>>

(* ... and gives the old key its grace period, or revokes it.              *)
RotateRetire_Mutant(o, grace) ==
  LET k == rotation[o].old
  IN  /\ rotation[o].at = "retire"
      /\ IF grace > 0
         THEN /\ expires' = [expires EXCEPT ![k] =
                   IF @ # Never THEN @ ELSE now + grace]
              /\ promised' = [promised EXCEPT ![k] = now + grace]
              /\ UNCHANGED <<active, retired>>
         ELSE /\ Revoke(k)
              /\ UNCHANGED <<expires, promised>>
      /\ heirs' = heirs \cup {<<k, rotation[o].new>>}
      /\ rotation' = [rotation EXCEPT ![o] = NoRotation]
      /\ UNCHANGED <<stored, limit, roles, scoped, minute, calls, changes, top, used>>
RotateRetire(o, grace) ==
  LET k == rotation[o].old
  IN  /\ rotation[o].at = "retire"
      /\ IF grace > 0
         THEN /\ expires' = [expires EXCEPT ![k] = now + grace]
              /\ promised' = [promised EXCEPT ![k] = now + grace]
              /\ UNCHANGED <<active, retired>>
         ELSE /\ Revoke(k)
              /\ UNCHANGED <<expires, promised>>
      /\ heirs' = heirs \cup {<<k, rotation[o].new>>}
      /\ rotation' = [rotation EXCEPT ![o] = NoRotation]
      /\ UNCHANGED <<stored, limit, roles, scoped, minute, calls, changes, top, used>>

RotateAPIKey(o) ==
  \/ \E k \in Keys : RotateFind(o, k)
  \/ RotateRead(o)
  \/ RotatePublish(o)
  \/ RotateCopy(o)
  \/ \E grace \in Graces : RotateRetire(o, grace)

Manage ==
  \/ GenerateAPIKey
  \/ \E k \in Keys :
       \/ RevokeAPIKey(k) \/ DeleteAPIKey(k)
       \/ \E rs \in RoleSets : UpdateAPIKeyRoles(k, rs)
       \/ \E n \in Limits : UpdateAPIKeyRateLimit(k, n)
  \/ \E o \in Operators : RotateAPIKey(o)

KeysNext ==
  \/ /\ Manage \/ \E v \in Validators : ValidateAPIKey(v)
     /\ UNCHANGED now
  \/ Tick /\ UNCHANGED keyVars

KeysSpec == now = 0 /\ KeysInit /\ [][KeysNext]_<<now, keyVars>>

-----------------------------------------------------------------------------

RotationRecords ==
  [at : {"idle", "expiry", "roles", "limit", "publish", "copy", "retire"},
   old : Keys \cup {NoKey}, new : Keys \cup {NoKey}, roles : RoleSets \cup {{}}, limit : Nat,
   left : Int \cup {Never}]

KeysTypeOK ==
  /\ now \in 0 .. MaxTime
  /\ stored \subseteq Keys
  /\ active \in [Keys -> BOOLEAN]
  /\ expires \in [Keys -> Int \cup {Never}]
  /\ limit \in [Keys -> Nat]
  /\ roles \in [Keys -> RoleSets \cup {{}}]
  /\ scoped \in [Keys -> BOOLEAN]
  /\ minute \in [Keys -> [count : Nat, reset : Int]]
  /\ vpc \in [Validators -> {"idle", "active", "expiry", "limit", "argument", "count", "touch"}]
  /\ vkey \in [Validators -> Keys \cup {NoKey}]
  /\ vlimit \in [Validators -> Nat]
  /\ verdict \in [Validators -> {"none", "ok", "refused"}]
  /\ rotation \in [Operators -> RotationRecords]
  /\ changes \in 0 .. MaxChanges
  /\ retired \subseteq Keys
  /\ doomed \in [Validators -> BOOLEAN]
  /\ started \in [Validators -> 0 .. MaxTime]
  /\ promised \in [Keys -> Int \cup {Never}]
  /\ heirs \subseteq Keys \X Keys
  /\ used \in [Keys -> [0 .. MaxTime + 1 -> Nat]]
  /\ top \in [Keys -> Nat]

(* No request that presents a key after its revocation, its deletion or    *)
(* the immediate rotation of it has returned is let in, and none that      *)
(* comes after the end of the last grace period the key was given --       *)
(* though every check reads the key with no lock held, deletion only hides *)
(* it, and rotations of the key overlap each other and the request.        *)
RetiredKeysRefused ==
  \A v \in Validators : verdict[v] = "ok" =>
    /\ ~doomed[v]
    /\ promised[vkey[v]] # Never => started[v] <= promised[vkey[v]]

(* A stored key is used at most as often as the largest limit it has had   *)
(* within one counted minute, and so at most twice as often in any minute, *)
(* also while its limit is changed under requests that have read it.       *)
KeyLimitHolds ==
  \A k \in Keys :
    /\ minute[k].count <= top[k] \/ k \notin stored
    /\ \A s \in 0 .. now : During(used[k], s, s + Minute) <= 2 * top[k]

(* When RotateAPIKey has returned, its old key is dead or dies at the end  *)
(* of the last grace period promised for it, whatever other operators did  *)
(* to both keys meanwhile; and nobody is ever let in with a key whose      *)
(* scopes have not been copied yet.                                        *)
RotationHandsOver ==
  /\ \A h \in heirs :
       LET old == h[1]
           new == h[2]
       IN  /\ old \in retired \/ (promised[old] # Never /\ expires[old] = promised[old])
           /\ old \notin stored \/ ~active[old] \/ expires[old] # Never
           /\ scoped[new]
  /\ \A v \in Validators : verdict[v] = "ok" => scoped[vkey[v]]
=============================================================================
