--------------------------- MODULE AdmissionProofs ---------------------------
(***************************************************************************)
(* What the components promise that decide whether and how often a caller  *)
(* gets in: RateLimiter, SlidingWindow, APIKeys and Roles, for any number  *)
(* of clients, keys, requests, operators and roles, any rates, limits and  *)
(* windows.                                                                *)
(*                                                                         *)
(* RateLimiter.  The argument for the rate is a potential: what a client   *)
(* may still take at once (Credit) -- the level of its bucket, or a full   *)
(* bucket if it has none -- plus what it took since tick s never exceeds a *)
(* full bucket and what has flowed in since s.  Taking a token moves it    *)
(* from the one to the other, and cleanup only drops buckets whose credit  *)
(* is full.                                                                *)
(*                                                                         *)
(* SlidingWindow.  The window in the map explains what was let through in  *)
(* the last WindowSize ticks: from any tick on, no more than its sequence  *)
(* still holds.  Filtering takes away only what is older, a new window     *)
(* explains what a dropped one did, and a request is let through when what *)
(* it adds to is still short of the limit.                                 *)
(*                                                                         *)
(* APIKeys.  A key that was ever made stays made: it is stored or retired, *)
(* and no generated key is ever the same (Fresh).  So what is known of a   *)
(* made key -- that it is dead once it is retired and still stored, that   *)
(* it expires when its last grace period ends, that its scopes are there   *)
(* -- is only undone by the operations that say so, and a validation that  *)
(* has passed a check keeps what it passed it for.  As for the limit, the  *)
(* minute that is being counted began after the one before it had ended,   *)
(* so that no minute meets more than two of those that are counted.        *)
(*                                                                         *)
(* Roles.  What the walk over inherited roles finds is what can be reached *)
(* from the roles it has to do without those it has visited (Reach), and   *)
(* no walk goes on for ever, as each step visits a role or shortens the    *)
(* list.  A check notes what held at some time and what held throughout,   *)
(* so that each look that fails takes its pair out of the latter.          *)
(***************************************************************************)
EXTENDS RateLimiter, APIKeys, SlidingWindow, Roles, FiniteSetTheorems, SequenceTheorems,
        NaturalsInduction, WellFoundedInduction, TLAPS

-----------------------------------------------------------------------------
(* RateLimiter: token buckets.                                             *)

Credit(k) == IF listed[k] = NoBucket THEN Full(k) ELSE Level(k, listed[k])

(* The callers that hold a bucket of k that is not in the map.             *)
Unlisted(k) ==
  {r \in Callers : \E n \in 0 .. MaxCleanups : held[r] = <<k, n>> /\ listed[k] # n}

(* No bucket was last looked at in the future.                             *)
InThePast ==
  \A k \in Sources, n \in 0 .. MaxCleanups : bucket[k][n].last <= now

RateInv ==
  \A k \in Sources, s \in 0 .. now :
    (timely[k] - mark[k][s]) * Unit + Credit(k) <= Full(k) + Refill[k[1]] * (now - s)

LateInv == \A k \in Sources : late[k] + Cardinality(Unlisted(k)) <= caught[k]

LimiterInv == LimiterTypeOK /\ InThePast /\ RateInv /\ LateInv

-----------------------------------------------------------------------------
(* Arithmetic that the provers need in small pieces.                       *)

(* A product of numbers is a number, so that it can be given a name.       *)
LEMMA ProductNat ==
  ASSUME NEW a \in Nat, NEW b \in Nat
  PROVE  a * b \in Nat
  BY SMT

LEMMA OneMore ==
  ASSUME NEW a \in Int, NEW b \in Int
  PROVE  /\ a * b \in Int
         /\ (a + 1) * b = a * b + b
         /\ b * (a + 1) = b * a + b
  BY SMT

LEMMA NothingTaken ==
  ASSUME NEW a \in Int
  PROVE  0 * a = 0 /\ a * 0 = 0
  BY SMT

(* A bucket's level is between nothing and full.                           *)
LEMMA LevelBounds ==
  ASSUME LimiterTypeOK, InThePast, NEW k \in Sources, NEW n \in 0 .. MaxCleanups
  PROVE  /\ Full(k) \in Nat
         /\ Level(k, n) \in Nat
         /\ Level(k, n) <= Full(k)
  <1>1. Full(k) \in Nat
    BY ProductNat, LimiterAssumption DEF Full, Sources
  <1>2. bucket[k] \in [0 .. MaxCleanups -> [tokens : Nat, last : Nat]]
    BY DEF LimiterTypeOK
  <1>3. bucket[k][n].tokens \in Nat /\ bucket[k][n].last \in Nat
    BY <1>2
  <1>4. Refill[k[1]] * (now - bucket[k][n].last) \in Nat
    <2>1. bucket[k][n].last <= now /\ now \in Int
      BY ClockAssumption DEF InThePast, LimiterTypeOK
    <2>2. now - bucket[k][n].last \in Nat
      BY <1>3, <2>1
    <2>3. Refill[k[1]] \in Nat
      BY LimiterAssumption DEF Sources
    <2> QED BY <2>2, <2>3, ProductNat
  <1>5. PICK f, g, t : /\ f = Full(k) /\ t = bucket[k][n].tokens
                       /\ g = Refill[k[1]] * (now - bucket[k][n].last)
    OBVIOUS
  <1>6. Level(k, n) = IF t + g > f THEN f ELSE t + g
    BY <1>5 DEF Level
  <1> QED BY <1>1, <1>3, <1>4, <1>5, <1>6

(* A bucket that has just been looked at holds what it was left with.      *)
LEMMA LevelAfter ==
  ASSUME NEW k \in Sources, NEW n \in 0 .. MaxCleanups, NEW x \in Nat,
         LimiterTypeOK, now' = now,
         bucket'[k][n] = [tokens |-> x, last |-> now], Full(k) \in Nat, x <= Full(k)
  PROVE  Level(k, n)' = x
  <1>1. now \in Nat /\ now - now = 0 /\ Refill[k[1]] \in Int
    BY LimiterAssumption, ClockAssumption DEF LimiterTypeOK, Sources
  <1>2. Refill[k[1]] * (now' - bucket'[k][n].last) = 0
    BY <1>1, NothingTaken
  <1> QED BY <1>2, <1>1 DEF Level, Full

LEMMA CreditBoundsNext ==
  ASSUME LimiterTypeOK', InThePast', NEW k \in Sources
  PROVE  Credit(k)' \in Nat /\ Credit(k)' <= Full(k)
  <1>1. Full(k) \in Nat
    BY ProductNat, LimiterAssumption DEF Full, Sources
  <1>2. CASE listed'[k] = NoBucket
    BY <1>1, <1>2 DEF Credit, Full
  <1>3. CASE listed'[k] # NoBucket
    <2> DEFINE n == listed'[k]
    <2>1. n \in 0 .. MaxCleanups
      BY <1>3 DEF LimiterTypeOK
    <2>2. Refill[k[1]] \in Nat /\ now' - bucket'[k][n].last \in Nat
      <3>1. Refill[k[1]] \in Nat
        BY LimiterAssumption DEF Sources
      <3>2. bucket'[k] \in [0 .. MaxCleanups -> [tokens : Nat, last : Nat]] /\ now' \in Nat
        BY ClockAssumption DEF LimiterTypeOK
      <3>3. bucket'[k][n].last <= now'
        BY <2>1 DEF InThePast
      <3>4. bucket'[k][n].last \in Nat
        BY <2>1, <3>2
      <3> HIDE DEF n
      <3> QED BY <3>1, <3>2, <3>3, <3>4
    <2>3. Refill[k[1]] * (now' - bucket'[k][n].last) \in Nat
      BY <2>2, ProductNat
    <2>4. bucket'[k][n].tokens \in Nat
      <3>1. bucket'[k] \in [0 .. MaxCleanups -> [tokens : Nat, last : Nat]]
        BY DEF LimiterTypeOK
      <3> QED BY <2>1, <3>1
    <2> HIDE DEF n
    <2>5. /\ Level(k, listed[k])' \in Nat
          /\ Level(k, listed[k])' <= Full(k)
      BY <1>1, <2>3, <2>4 DEF Level, Full, n
    <2> QED BY <1>3, <2>5 DEF Credit
  <1> QED BY <1>2, <1>3

LEMMA CreditBounds ==
  ASSUME LimiterTypeOK, InThePast, NEW k \in Sources
  PROVE  Credit(k) \in Nat /\ Credit(k) <= Full(k) /\ Full(k) \in Nat
  <1>1. Full(k) \in Nat
    BY ProductNat, LimiterAssumption DEF Full, Sources
  <1>2. CASE listed[k] = NoBucket
    BY <1>1, <1>2 DEF Credit
  <1>3. CASE listed[k] # NoBucket
    BY <1>3, LevelBounds DEF Credit, LimiterTypeOK
  <1> QED BY <1>2, <1>3

-----------------------------------------------------------------------------
(* Every step keeps the types and looks at no bucket in the future.        *)

(* The initial buckets are of the right type, and none is used yet.        *)
LEMMA LimiterTypeInit ==
  ASSUME now = 0, LimiterInit
  PROVE  LimiterTypeOK /\ InThePast
  BY LimiterAssumption, ClockAssumption DEF LimiterInit, LimiterTypeOK, InThePast

(* Writing one bucket: the types, and what every other bucket is then.     *)
LEMMA WriteBucket ==
  ASSUME LimiterTypeOK, InThePast, now' = now,
         NEW k \in Sources, NEW n \in 0 .. MaxCleanups, NEW x \in Nat,
         bucket' = [bucket EXCEPT ![k][n] = [tokens |-> x, last |-> now]]
  PROVE  /\ bucket' \in [Sources -> [0 .. MaxCleanups -> [tokens : Nat, last : Nat]]]
         /\ bucket'[k][n] = [tokens |-> x, last |-> now]
         /\ \A j \in Sources, m \in 0 .. MaxCleanups :
              j # k \/ m # n => bucket'[j][m] = bucket[j][m]
         /\ InThePast'
  <1> DEFINE B == [tokens |-> x, last |-> now]
  <1>1. now \in Nat /\ B \in [tokens : Nat, last : Nat] /\ B.last = now
    BY ClockAssumption DEF LimiterTypeOK
  <1>2. bucket \in [Sources -> [0 .. MaxCleanups -> [tokens : Nat, last : Nat]]]
    BY DEF LimiterTypeOK
  <1>3. bucket' = [bucket EXCEPT ![k] = [bucket[k] EXCEPT ![n] = B]]
    OBVIOUS
  <1> HIDE DEF B
  <1>4. [bucket[k] EXCEPT ![n] = B] \in [0 .. MaxCleanups -> [tokens : Nat, last : Nat]]
    BY <1>1, <1>2
  <1>5. bucket' \in [Sources -> [0 .. MaxCleanups -> [tokens : Nat, last : Nat]]]
    BY <1>2, <1>3, <1>4
  <1>6. /\ bucket'[k] = [bucket[k] EXCEPT ![n] = B]
        /\ \A j \in Sources : j # k => bucket'[j] = bucket[j]
    BY <1>2, <1>3
  <1>7. /\ bucket'[k][n] = B
        /\ \A m \in 0 .. MaxCleanups : m # n => bucket'[k][m] = bucket[k][m]
    BY <1>2, <1>6
  <1>8. InThePast'
    <2> SUFFICES ASSUME NEW j \in Sources, NEW m \in 0 .. MaxCleanups
                 PROVE  bucket'[j][m].last <= now
      BY DEF InThePast
    <2>1. CASE j = k /\ m = n
      BY <1>1, <1>7, <2>1
    <2>2. CASE j # k \/ m # n
      BY <1>6, <1>7, <2>2 DEF InThePast
    <2> QED BY <2>1, <2>2
  <1> QED BY <1>5, <1>6, <1>7, <1>8 DEF B

LEMMA LimiterTypeStep ==
  ASSUME LimiterTypeOK, InThePast, [LimiterNext]_<<now, limiterVars>>
  PROVE  LimiterTypeOK' /\ InThePast'
  <1> USE LimiterAssumption, ClockAssumption
  <1>1. \A k \in Sources, n \in 0 .. MaxCleanups :
          Level(k, n) \in Nat /\ Full(k) \in Nat
    BY LevelBounds
  <1>2. ASSUME NEW r \in Callers, NEW k \in Sources, FindBucket(r, k), UNCHANGED now
        PROVE  LimiterTypeOK' /\ InThePast'
    BY <1>2 DEF FindBucket, LimiterTypeOK, InThePast
  <1>3. ASSUME NEW r \in Callers, NEW k \in Sources, NewTokenBucket(r, k), UNCHANGED now
        PROVE  LimiterTypeOK' /\ InThePast'
    <2>1. cleanups[k[1]] \in 0 .. MaxCleanups
      BY DEF LimiterTypeOK, Sources
    <2>2. /\ bucket' = [bucket EXCEPT ![k][cleanups[k[1]]] =
                          [tokens |-> Full(k), last |-> now]]
          /\ listed' = [listed EXCEPT ![k] = cleanups[k[1]]]
          /\ held' = [held EXCEPT ![r] = <<k, cleanups[k[1]]>>]
          /\ UNCHANGED <<cleanups, timely, late, caught, mark, now>>
      BY <1>3 DEF NewTokenBucket
    <2>3. Full(k) \in Nat
      BY <1>1, <2>1
    <2> HIDE DEF Full
    <2>4. bucket' \in [Sources -> [0 .. MaxCleanups -> [tokens : Nat, last : Nat]]] /\ InThePast'
      BY <2>1, <2>2, <2>3, WriteBucket
    <2> QED BY <2>1, <2>2, <2>4 DEF LimiterTypeOK
  <1>4. ASSUME NEW r \in Callers, NEW k \in Sources, NEW n \in 0 .. MaxCleanups,
               TakeToken(r, k, n), UNCHANGED now
        PROVE  LimiterTypeOK' /\ InThePast'
    <2>1. Level(k, n) - Unit \in Nat
      BY <1>1, <1>4 DEF TakeToken
    <2>2. /\ bucket' = [bucket EXCEPT ![k][n] = [tokens |-> Level(k, n) - Unit, last |-> now]]
          /\ held' = [held EXCEPT ![r] = NoBucket]
          /\ UNCHANGED <<listed, cleanups, caught, mark, now>>
      BY <1>4 DEF TakeToken
    <2>3. timely' \in [Sources -> Nat] /\ late' \in [Sources -> Nat]
      <3>1. timely \in [Sources -> Nat] /\ late \in [Sources -> Nat]
        BY DEF LimiterTypeOK
      <3>2. \/ timely' = [timely EXCEPT ![k] = @ + 1] /\ late' = late
            \/ late' = [late EXCEPT ![k] = @ + 1] /\ timely' = timely
        BY <1>4 DEF TakeToken
      <3> QED BY <3>1, <3>2
    <2>4. bucket' \in [Sources -> [0 .. MaxCleanups -> [tokens : Nat, last : Nat]]] /\ InThePast'
      BY <2>1, <2>2, WriteBucket
    <2> QED BY <2>2, <2>3, <2>4 DEF LimiterTypeOK
  <1>5. ASSUME NEW r \in Callers, NEW k \in Sources, NEW n \in 0 .. MaxCleanups,
               Refused(r, k, n), UNCHANGED now
        PROVE  LimiterTypeOK' /\ InThePast'
    <2>1. /\ bucket' = [bucket EXCEPT ![k][n] = [tokens |-> Level(k, n), last |-> now]]
          /\ held' = [held EXCEPT ![r] = NoBucket]
          /\ UNCHANGED <<listed, cleanups, timely, late, caught, mark, now>>
      BY <1>5 DEF Refused
    <2>2. bucket' \in [Sources -> [0 .. MaxCleanups -> [tokens : Nat, last : Nat]]] /\ InThePast'
      BY <1>1, <2>1, WriteBucket
    <2> QED BY <2>1, <2>2 DEF LimiterTypeOK
  <1>6. ASSUME NEW k \in Sources, Tokens(k), UNCHANGED now
        PROVE  LimiterTypeOK' /\ InThePast'
    <2>1. listed[k] \in 0 .. MaxCleanups
      BY <1>6 DEF Tokens, LimiterTypeOK
    <2>2. /\ bucket' = [bucket EXCEPT ![k][listed[k]] =
                          [tokens |-> Level(k, listed[k]), last |-> now]]
          /\ UNCHANGED <<listed, cleanups, held, timely, late, caught, mark, now>>
      BY <1>6 DEF Tokens
    <2>3. bucket' \in [Sources -> [0 .. MaxCleanups -> [tokens : Nat, last : Nat]]] /\ InThePast'
      BY <1>1, <2>1, <2>2, WriteBucket
    <2> QED BY <2>2, <2>3 DEF LimiterTypeOK
  <1>7. ASSUME NEW l \in Limiters, Cleanup(l), UNCHANGED now
        PROVE  LimiterTypeOK' /\ InThePast'
    <2> DEFINE swept(k) == [bucket[k] EXCEPT ![listed[k]] =
                              [tokens |-> Level(k, listed[k]), last |-> now]]
    <2>1. ASSUME NEW k \in Sources, listed[k] # NoBucket
          PROVE  /\ swept(k) \in [0 .. MaxCleanups -> [tokens : Nat, last : Nat]]
                 /\ \A m \in 0 .. MaxCleanups : swept(k)[m].last <= now
      <3>0. now \in Nat /\ listed[k] \in 0 .. MaxCleanups
        BY <2>1 DEF LimiterTypeOK
      <3>1. listed[k] \in 0 .. MaxCleanups /\ Level(k, listed[k]) \in Nat /\ now \in Nat
        BY <1>1, <3>0
      <3>2. bucket[k] \in [0 .. MaxCleanups -> [tokens : Nat, last : Nat]]
        BY DEF LimiterTypeOK
      <3>3. PICK n \in 0 .. MaxCleanups, x \in Nat : n = listed[k] /\ x = Level(k, listed[k])
        BY <3>1
      <3>4. PICK b : b = [tokens |-> x, last |-> now]
        OBVIOUS
      <3>5. b \in [tokens : Nat, last : Nat] /\ b.last = now
        BY <3>1, <3>4
      <3>6. PICK f \in [0 .. MaxCleanups -> [tokens : Nat, last : Nat]] : f = bucket[k]
        BY <3>2
      <3>7. swept(k) = [f EXCEPT ![n] = b]
        BY <3>3, <3>4, <3>6
      <3> HIDE DEF swept
      <3>8. swept(k) \in [0 .. MaxCleanups -> [tokens : Nat, last : Nat]]
        BY <3>5, <3>7
      <3>9. \A m \in 0 .. MaxCleanups : swept(k)[m] = IF m = n THEN b ELSE f[m]
        BY <3>7
      <3>10. \A m \in 0 .. MaxCleanups : f[m].last <= now
        BY <3>6 DEF InThePast
      <3>11. ASSUME NEW m \in 0 .. MaxCleanups PROVE swept(k)[m].last <= now
        <4>1. CASE m = n
          BY <3>1, <3>5, <3>9, <4>1
        <4>2. CASE m # n
          BY <3>9, <3>10, <4>2
        <4> QED BY <4>1, <4>2
      <3> QED BY <3>8, <3>11
    <2>2. \A k \in Sources : Cardinality(Holding(k, listed[k])) \in Nat
      <3> TAKE k \in Sources
      <3>1. IsFiniteSet(Holding(k, listed[k]))
        BY FS_Subset DEF Holding
      <3> QED BY <3>1, FS_CardinalityType
    <2>3. bucket' = [k \in Sources |->
                       IF k[1] = l /\ listed[k] # NoBucket THEN swept(k) ELSE bucket[k]]
      BY <1>7 DEF Cleanup
    <2> HIDE DEF swept
    <2>4. bucket' \in [Sources -> [0 .. MaxCleanups -> [tokens : Nat, last : Nat]]]
      <3>1. \A k \in Sources : bucket[k] \in [0 .. MaxCleanups -> [tokens : Nat, last : Nat]]
        BY DEF LimiterTypeOK
      <3> QED BY <2>1, <2>3, <3>1
    <2>5. InThePast'
      BY <1>7, <2>1, <2>3 DEF InThePast
    <2>6. caught' \in [Sources -> Nat]
      <3>1. caught' = [k \in Sources |->
                         IF k[1] = l /\ Idle(k)
                         THEN caught[k] + Cardinality(Holding(k, listed[k]))
                         ELSE caught[k]]
        BY <1>7 DEF Cleanup
      <3>2. \A k \in Sources : caught[k] \in Nat
        BY DEF LimiterTypeOK
      <3> QED BY <2>2, <3>1, <3>2
    <2>7. cleanups' \in [Limiters -> 0 .. MaxCleanups]
      BY <1>7 DEF Cleanup, LimiterTypeOK
    <2>8. listed' \in [Sources -> 0 .. MaxCleanups \cup {NoBucket}]
      BY <1>7 DEF Cleanup, LimiterTypeOK
    <2> QED BY <1>7, <2>4, <2>5, <2>6, <2>7, <2>8 DEF Cleanup, LimiterTypeOK
  <1>8. CASE LimiterTick
    <2>1. now + 1 \in 0 .. MaxTime /\ now' = now + 1 /\ now \in Nat
      BY <1>8 DEF LimiterTick, Tick, LimiterTypeOK
    <2>2. \A k \in Sources :
            [mark[k] EXCEPT ![now + 1] = timely[k]] \in [0 .. MaxTime -> Nat]
      BY DEF LimiterTypeOK
    <2>3. mark' \in [Sources -> [0 .. MaxTime -> Nat]]
      BY <1>8, <2>2 DEF LimiterTick
    <2>4. InThePast'
      <3>1. \A k \in Sources, n \in 0 .. MaxCleanups : bucket[k][n].last \in Nat
        BY DEF LimiterTypeOK
      <3> QED BY <1>8, <2>1, <3>1 DEF LimiterTick, InThePast
    <2> QED BY <1>8, <2>1, <2>3, <2>4 DEF LimiterTick, LimiterTypeOK
  <1>9. CASE UNCHANGED <<now, limiterVars>>
    BY <1>9 DEF limiterVars, LimiterTypeOK, InThePast
  <1> QED BY <1>2, <1>3, <1>4, <1>5, <1>6, <1>7, <1>8, <1>9
      DEF LimiterNext, Ask, Allowed, Limited

-----------------------------------------------------------------------------
(* The rate.                                                               *)

(* While the clock stands still it is enough that what is taken comes out  *)
(* of the credit.                                                          *)
LEMMA RateKept ==
  ASSUME LimiterTypeOK, InThePast, LimiterTypeOK', InThePast', RateInv,
         now' = now, mark' = mark,
         \A k \in Sources :
           \/ timely'[k] = timely[k] /\ Credit(k)' <= Credit(k)
           \/ timely'[k] = timely[k] + 1 /\ Credit(k)' + Unit <= Credit(k)
  PROVE  RateInv'
  <1> SUFFICES ASSUME NEW k \in Sources, NEW s \in 0 .. now
               PROVE  (timely'[k] - mark[k][s]) * Unit + Credit(k)'
                        <= Full(k) + Refill[k[1]] * (now - s)
    BY DEF RateInv, Full
  <1> DEFINE t == timely[k] - mark[k][s]
             bound == Full(k) + Refill[k[1]] * (now - s)
  <1>1. s \in 0 .. MaxTime /\ now - s \in Int /\ Unit \in Int /\ Refill[k[1]] \in Int
    BY LimiterAssumption, ClockAssumption DEF LimiterTypeOK, Sources
  <1>2. t \in Int /\ timely[k] \in Nat /\ mark[k][s] \in Nat
    <2>1. timely[k] \in Nat /\ mark[k] \in [0 .. MaxTime -> Nat]
      BY DEF LimiterTypeOK
    <2>2. mark[k][s] \in Nat
      BY <1>1, <2>1
    <2> QED BY <2>1, <2>2
  <1>3. Credit(k) \in Nat /\ Full(k) \in Nat
    BY CreditBounds
  <1>4. Credit(k)' \in Nat
    BY CreditBoundsNext
  <1>5. t * Unit + Credit(k) <= bound
    BY DEF RateInv
  <1>6. t * Unit \in Int /\ (t + 1) * Unit = t * Unit + Unit
    BY <1>1, <1>2, OneMore
  <1>7. bound \in Int
    BY <1>1, <1>3, OneMore
  <1>8. CASE timely'[k] = timely[k] /\ Credit(k)' <= Credit(k)
    <2>1. timely'[k] - mark[k][s] = t
      BY <1>8
    <2> HIDE DEF t, bound
    <2>2. t * Unit + Credit(k)' <= bound
      BY <1>3, <1>4, <1>5, <1>6, <1>7, <1>8
    <2> QED BY <2>1, <2>2 DEF bound
  <1>9. CASE timely'[k] = timely[k] + 1 /\ Credit(k)' + Unit <= Credit(k)
    <2>1. timely'[k] - mark[k][s] = t + 1
      BY <1>2, <1>9
    <2> HIDE DEF t, bound
    <2>2. (t + 1) * Unit + Credit(k)' <= bound
      BY <1>1, <1>3, <1>4, <1>5, <1>6, <1>7, <1>9
    <2> QED BY <2>1, <2>2 DEF bound
  <1> QED BY <1>8, <1>9

LEMMA RateInit ==
  ASSUME now = 0, LimiterInit
  PROVE  RateInv
  <1>1. LimiterTypeOK /\ InThePast
    BY LimiterTypeInit
  <1> SUFFICES ASSUME NEW k \in Sources, NEW s \in 0 .. 0
               PROVE  (timely[k] - mark[k][s]) * Unit + Credit(k)
                        <= Full(k) + Refill[k[1]] * (0 - s)
    BY DEF RateInv
  <1>2. s = 0 /\ timely[k] - mark[k][s] = 0 /\ 0 - s = 0
    <2>1. s = 0 /\ 0 \in 0 .. MaxTime
      BY ClockAssumption
    <2>2. timely[k] = 0 /\ mark[k] = [t \in 0 .. MaxTime |-> 0]
      BY DEF LimiterInit
    <2> QED BY <2>1, <2>2
  <1>3. Credit(k) <= Full(k) /\ Credit(k) \in Nat /\ Full(k) \in Nat
    BY <1>1, CreditBounds
  <1>4. (timely[k] - mark[k][s]) * Unit = 0 /\ Refill[k[1]] * (0 - s) = 0
    <2>1. Unit \in Int /\ Refill[k[1]] \in Int
      BY LimiterAssumption DEF Sources
    <2> QED BY <1>2, <2>1, NothingTaken
  <1> QED BY <1>3, <1>4

(* A tick adds at most Refill to the credit, and to every bound; the new   *)
(* tick begins with the credit alone.                                      *)
LEMMA RateTick ==
  ASSUME LimiterTypeOK, InThePast, LimiterTypeOK', InThePast', RateInv, LimiterTick
  PROVE  RateInv'
  <1> SUFFICES ASSUME NEW k \in Sources, NEW s \in 0 .. now'
               PROVE  (timely'[k] - mark'[k][s]) * Unit + Credit(k)'
                        <= Full(k) + Refill[k[1]] * (now' - s)
    BY DEF RateInv, Full
  <1> DEFINE c == Refill[k[1]]
  <1>1. /\ now \in Nat /\ now' = now + 1 /\ now + 1 \in 0 .. MaxTime
        /\ Unit \in Int /\ c \in Nat
        /\ UNCHANGED <<listed, bucket, timely>>
    BY LimiterAssumption, ClockAssumption DEF LimiterTick, Tick, LimiterTypeOK, Sources
  <1>2. mark'[k] = [mark[k] EXCEPT ![now + 1] = timely[k]] /\ timely[k] \in Nat
    BY DEF LimiterTick, LimiterTypeOK
  <1>3. Credit(k) \in Nat /\ Full(k) \in Nat
    BY CreditBounds
  <1>4. Credit(k)' \in Nat /\ Credit(k)' <= Full(k) /\ Credit(k)' <= Credit(k) + c
    <2>1. CASE listed[k] = NoBucket
      BY <1>1, <1>3, <2>1 DEF Credit, Full
    <2>2. CASE listed[k] # NoBucket
      <3> DEFINE n == listed[k]
                 age == now - bucket[k][n].last
                 old == c * age
      <3>1. n \in 0 .. MaxCleanups
        BY <2>2 DEF LimiterTypeOK
      <3>2. bucket[k][n].last \in Nat /\ bucket[k][n].tokens \in Nat
        BY <3>1 DEF LimiterTypeOK
      <3>3. age \in Nat /\ now + 1 - bucket[k][n].last = age + 1
        BY <1>1, <3>1, <3>2 DEF InThePast
      <3>4. old \in Nat /\ c * (now + 1 - bucket[k][n].last) = old + c
        <4> HIDE DEF age, c
        <4>1. c * (age + 1) = c * age + c
          BY <1>1, <3>3, OneMore
        <4> QED BY <1>1, <3>3, <4>1, ProductNat
      <3>5. Credit(k) = IF bucket[k][n].tokens + old > Full(k) THEN Full(k)
                        ELSE bucket[k][n].tokens + old
        BY <2>2 DEF Credit, Level
      <3>6. Credit(k)' = IF bucket[k][n].tokens + c * (now + 1 - bucket[k][n].last) > Full(k)
                         THEN Full(k)
                         ELSE bucket[k][n].tokens + c * (now + 1 - bucket[k][n].last)
        <4>1. Credit(k)' = Level(k, listed[k])'
          BY <1>1, <2>2 DEF Credit
        <4> DEFINE flow == c * (now + 1 - bucket[k][n].last)
        <4>2. Refill[k[1]] * (now' - bucket'[k][listed'[k]].last) = flow
          <5>1. now' - bucket'[k][listed'[k]].last = now + 1 - bucket[k][n].last
            <6>1. listed'[k] = n /\ bucket' = bucket /\ now' = now + 1
              BY <1>1
            <6>2. bucket'[k][listed'[k]].last = bucket[k][n].last
              BY <6>1
            <6> HIDE DEF n
            <6> QED BY <1>1, <3>2, <6>1, <6>2
          <5> QED BY <5>1
        <4> HIDE DEF flow
        <4>3. Level(k, listed[k])' = IF bucket[k][n].tokens + flow > Full(k) THEN Full(k)
                                     ELSE bucket[k][n].tokens + flow
          BY <1>1, <4>2 DEF Level, Full
        <4> QED BY <4>1, <4>3 DEF flow
      <3>7. Credit(k)' = IF bucket[k][n].tokens + (old + c) > Full(k) THEN Full(k)
                         ELSE bucket[k][n].tokens + (old + c)
        BY <3>4, <3>6
      <3> HIDE DEF old, c, n
      <3> QED BY <1>1, <1>3, <3>2, <3>4, <3>5, <3>7
    <2> QED BY <2>1, <2>2
  <1>5. CASE s = now + 1
    <2>1. mark'[k][s] = timely[k] /\ now + 1 - s = 0
      <3>1. mark[k] \in [0 .. MaxTime -> Nat]
        BY DEF LimiterTypeOK
      <3>2. mark'[k][now + 1] = timely[k]
        BY <1>1, <1>2, <3>1
      <3>3. now + 1 - s = 0
        BY <1>1, <1>5
      <3> QED BY <1>5, <3>2, <3>3
    <2>2. timely'[k] - mark'[k][s] = 0 /\ now' - s = 0
      BY <1>1, <1>2, <2>1
    <2>3. (timely'[k] - mark'[k][s]) * Unit = 0 /\ c * (now' - s) = 0
      BY <1>1, <2>2, NothingTaken
    <2> QED BY <1>3, <1>4, <2>3
  <1>6. CASE s # now + 1
    <2> DEFINE t == timely[k] - mark[k][s]
               d == now - s
    <2>1. s \in 0 .. now /\ s \in 0 .. MaxTime /\ d \in Nat
      BY <1>1, <1>6, ClockAssumption
    <2>2. mark'[k][s] = mark[k][s] /\ t \in Int
      <3>1. mark[k] \in [0 .. MaxTime -> Nat]
        BY DEF LimiterTypeOK
      <3>2. mark[k][s] \in Nat
        BY <2>1, <3>1
      <3>3. mark'[k][s] = mark[k][s]
        BY <1>2, <1>6, <2>1, <3>1
      <3> QED BY <1>2, <3>2, <3>3
    <2>3. t * Unit + Credit(k) <= Full(k) + c * d
      BY <2>1 DEF RateInv
    <2>4. now' - s = d + 1 /\ timely'[k] - mark'[k][s] = t
      BY <1>1, <2>1, <2>2
    <2>5. c * (d + 1) = c * d + c /\ c * d \in Int /\ t * Unit \in Int
      <3> HIDE DEF t, d, c
      <3> QED BY <1>1, <2>1, <2>2, OneMore
    <2>6. t * Unit + Credit(k)' <= Full(k) + c * (now' - s)
      <3> HIDE DEF t, d, c
      <3> QED BY <1>1, <1>3, <1>4, <2>3, <2>4, <2>5
    <2> HIDE DEF t
    <2> QED BY <2>4, <2>6
  <1> QED BY <1>5, <1>6

-----------------------------------------------------------------------------
(* Tokens taken late.                                                      *)

LEMMA NoBucketIsNone ==
  /\ NoBucket \notin 0 .. MaxCleanups
  /\ \A k \in Sources, n \in 0 .. MaxCleanups : NoBucket # <<k, n>>
  <1>1. \A k \in Sources, n \in 0 .. MaxCleanups : <<k, n>> \in Sources \X Nat
    BY LimiterAssumption
  <1> QED BY <1>1, LimiterAssumption

LEMMA UnlistedFinite ==
  ASSUME NEW k \in Sources
  PROVE  IsFiniteSet(Unlisted(k)) /\ Cardinality(Unlisted(k)) \in Nat
  BY LimiterAssumption, FS_Subset, FS_CardinalityType DEF Unlisted

(* Nobody's bucket has become unlisted, and no late token was taken.       *)
LEMMA LateKept ==
  ASSUME LimiterTypeOK, LateInv, UNCHANGED <<late, caught>>,
         \A k \in Sources : Unlisted(k)' \subseteq Unlisted(k)
  PROVE  LateInv'
  <1> SUFFICES ASSUME NEW k \in Sources
               PROVE  late[k] + Cardinality(Unlisted(k)') <= caught[k]
    BY DEF LateInv
  <1>1. Cardinality(Unlisted(k)') \in Nat /\ Cardinality(Unlisted(k)') <= Cardinality(Unlisted(k))
    BY UnlistedFinite, FS_Subset, FS_CardinalityType
  <1>2. Cardinality(Unlisted(k)) \in Nat
    BY UnlistedFinite
  <1>3. late[k] + Cardinality(Unlisted(k)) <= caught[k]
    BY DEF LateInv
  <1>4. late[k] \in Nat /\ caught[k] \in Nat
    BY DEF LimiterTypeOK
  <1> QED BY <1>1, <1>2, <1>3, <1>4

LEMMA LateInit ==
  ASSUME LimiterInit
  PROVE  LateInv
  <1> SUFFICES ASSUME NEW k \in Sources
               PROVE  late[k] + Cardinality(Unlisted(k)) <= caught[k]
    BY DEF LateInv
  <1>1. Unlisted(k) = {}
    BY NoBucketIsNone DEF LimiterInit, Unlisted
  <1>2. late[k] = 0 /\ caught[k] = 0 /\ Cardinality({}) = 0
    BY FS_EmptySet DEF LimiterInit
  <1> QED BY <1>1, <1>2

-----------------------------------------------------------------------------
(* The actions.                                                            *)

LEMMA LimiterInvStep ==
  ASSUME LimiterInv, [LimiterNext]_<<now, limiterVars>>
  PROVE  LimiterInv'
  <1> USE LimiterAssumption
  <1>1. LimiterTypeOK /\ InThePast /\ RateInv /\ LateInv
    BY DEF LimiterInv
  <1>2. LimiterTypeOK' /\ InThePast'
    BY <1>1, LimiterTypeStep
  <1>3. \A k \in Sources, n \in 0 .. MaxCleanups :
          Level(k, n) \in Nat /\ Full(k) \in Nat /\ Level(k, n) <= Full(k)
    BY <1>1, LevelBounds
  <1>4. \A k \in Sources : Credit(k) \in Nat /\ Credit(k) <= Full(k)
    BY <1>1, CreditBounds
  <1>5. NoBucket \notin 0 .. MaxCleanups /\ \A k \in Sources, n \in 0 .. MaxCleanups : NoBucket # <<k, n>>
    BY NoBucketIsNone
  <1>6. ASSUME NEW r \in Callers, NEW k \in Sources, FindBucket(r, k), UNCHANGED now
        PROVE  RateInv' /\ LateInv'
    <2>1. \A j \in Sources : timely'[j] = timely[j] /\ Credit(j)' <= Credit(j)
      BY <1>4, <1>6 DEF FindBucket, Credit, Level, Full
    <2>2. RateInv'
      BY <1>1, <1>2, <1>6, <2>1, RateKept DEF FindBucket
    <2>3. \A j \in Sources : Unlisted(j)' \subseteq Unlisted(j)
      BY <1>1, <1>6 DEF FindBucket, Unlisted, LimiterTypeOK
    <2>4. UNCHANGED <<late, caught>>
      BY <1>6 DEF FindBucket
    <2> QED BY <1>1, <2>2, <2>3, <2>4, LateKept
  <1>7. ASSUME NEW r \in Callers, NEW k \in Sources, NewTokenBucket(r, k), UNCHANGED now
        PROVE  RateInv' /\ LateInv'
    <2>0. cleanups[k[1]] \in 0 .. MaxCleanups
      BY <1>1 DEF LimiterTypeOK, Sources
    <2>1. PICK n \in 0 .. MaxCleanups : n = cleanups[k[1]]
      BY <2>0
    <2>2. /\ listed[k] = NoBucket /\ held[r] = NoBucket
          /\ listed' = [listed EXCEPT ![k] = n]
          /\ bucket' = [bucket EXCEPT ![k][n] = [tokens |-> Full(k), last |-> now]]
          /\ held' = [held EXCEPT ![r] = <<k, n>>]
          /\ UNCHANGED <<cleanups, timely, late, caught, mark, now>>
      BY <1>7, <2>1 DEF NewTokenBucket
    <2>3. listed'[k] = n /\ \A j \in Sources : j # k => listed'[j] = listed[j]
      BY <1>1, <2>2 DEF LimiterTypeOK
    <2>4. /\ bucket'[k][n] = [tokens |-> Full(k), last |-> now]
          /\ \A j \in Sources, m \in 0 .. MaxCleanups :
               j # k \/ m # n => bucket'[j][m] = bucket[j][m]
      <3>1. now' = now /\ Full(k) \in Nat
        BY <1>3, <2>2
      <3>2. bucket' = [bucket EXCEPT ![k][n] = [tokens |-> Full(k), last |-> now]]
        BY <2>2
      <3>4. bucket'[k][n] = [tokens |-> Full(k), last |-> now]
        BY <1>1, <3>1, <3>2, WriteBucket
      <3>5. ASSUME NEW j \in Sources, NEW m \in 0 .. MaxCleanups, j # k \/ m # n
            PROVE  bucket'[j][m] = bucket[j][m]
        BY <1>1, <3>1, <3>2, <3>5, WriteBucket
      <3> QED BY <3>4, <3>5
    <2>5. Credit(k)' <= Credit(k)
      <3>1. Level(k, n)' = Full(k)
        BY <1>1, <1>3, <2>2, <2>4, LevelAfter
      <3>2. Credit(k)' = Level(k, n)'
        BY <1>5, <2>3 DEF Credit, Level, Full
      <3> QED BY <1>3, <2>1, <2>2, <3>1, <3>2 DEF Credit
    <2>6. \A j \in Sources : j # k => Credit(j)' = Credit(j)
      BY <1>1, <2>2, <2>3, <2>4 DEF Credit, Level, Full, LimiterTypeOK
    <2>7. \A j \in Sources : timely'[j] = timely[j] /\ Credit(j)' <= Credit(j)
      BY <1>4, <2>2, <2>5, <2>6
    <2>8. RateInv'
      BY <1>1, <1>2, <2>2, <2>7, RateKept
    <2>9. \A j \in Sources : Unlisted(j)' \subseteq Unlisted(j)
      <3> SUFFICES ASSUME NEW j \in Sources, NEW q \in Callers, NEW m \in 0 .. MaxCleanups,
                          held'[q] = <<j, m>>, listed'[j] # m
                   PROVE  q \in Unlisted(j)
        BY DEF Unlisted
      <3>1. q # r /\ held[q] = <<j, m>>
        BY <1>1, <2>1, <2>2, <2>3 DEF LimiterTypeOK
      <3>2. listed[j] # m
        BY <1>5, <2>2, <2>3
      <3> QED BY <3>1, <3>2 DEF Unlisted
    <2> QED BY <1>1, <2>2, <2>8, <2>9, LateKept
  <1>8. ASSUME NEW r \in Callers, NEW k \in Sources, NEW n \in 0 .. MaxCleanups, NEW x \in Nat,
               x <= Full(k), held[r] = <<k, n>>, UNCHANGED <<now, listed>>,
               held' = [held EXCEPT ![r] = NoBucket],
               bucket' = [bucket EXCEPT ![k][n] = [tokens |-> x, last |-> now]]
        PROVE  /\ \A j \in Sources : j # k \/ listed[j] # n => Credit(j)' = Credit(j)
               /\ listed[k] = n => Credit(k)' = x /\ Credit(k) = Level(k, n)
               /\ \A j \in Sources : Unlisted(j)' = Unlisted(j) \ {r}
    <2>1. /\ bucket'[k][n] = [tokens |-> x, last |-> now]
          /\ \A j \in Sources, m \in 0 .. MaxCleanups :
               j # k \/ m # n => bucket'[j][m] = bucket[j][m]
      <3>1. now' = now
        BY <1>8
      <3>2. bucket' = [bucket EXCEPT ![k][n] = [tokens |-> x, last |-> now]]
        BY <1>8
      <3>3. bucket'[k][n] = [tokens |-> x, last |-> now]
        BY <1>1, <3>1, <3>2, WriteBucket
      <3>4. ASSUME NEW j \in Sources, NEW m \in 0 .. MaxCleanups, j # k \/ m # n
            PROVE  bucket'[j][m] = bucket[j][m]
        BY <1>1, <3>1, <3>2, <3>4, WriteBucket
      <3> QED BY <3>3, <3>4
    <2>2. ASSUME NEW j \in Sources, j # k \/ listed[j] # n
          PROVE  Credit(j)' = Credit(j)
      <3>1. listed'[j] = listed[j] /\ now' = now
        BY <1>8
      <3>2. CASE listed[j] = NoBucket
        BY <3>1, <3>2 DEF Credit, Full
      <3>3. CASE listed[j] # NoBucket
        <4>1. listed[j] \in 0 .. MaxCleanups
          BY <1>1, <3>3 DEF LimiterTypeOK
        <4>2. bucket'[j][listed[j]] = bucket[j][listed[j]]
          BY <2>1, <2>2, <4>1
        <4> QED BY <3>1, <3>3, <4>2 DEF Credit, Level, Full
      <3> QED BY <3>2, <3>3
    <2>3. ASSUME listed[k] = n PROVE Credit(k)' = x /\ Credit(k) = Level(k, n)
      <3>1. Level(k, n)' = x
        BY <1>1, <1>3, <1>8, <2>1, LevelAfter
      <3>2. Credit(k)' = Level(k, n)'
        BY <1>5, <1>8, <2>3 DEF Credit, Level, Full
      <3>3. Credit(k) = Level(k, n)
        BY <1>5, <2>3 DEF Credit
      <3> QED BY <3>1, <3>2, <3>3
    <2>4. \A j \in Sources : Unlisted(j)' = Unlisted(j) \ {r}
      BY <1>1, <1>5, <1>8 DEF Unlisted, LimiterTypeOK
    <2> QED BY <2>2, <2>3, <2>4
  <1>9. ASSUME NEW r \in Callers, NEW k \in Sources, NEW n \in 0 .. MaxCleanups,
               TakeToken(r, k, n), UNCHANGED now
        PROVE  RateInv' /\ LateInv'
    <2> DEFINE x == Level(k, n) - Unit
    <2>1. x \in Nat /\ x <= Full(k) /\ x + Unit = Level(k, n)
      BY <1>3, <1>9 DEF TakeToken
    <2>2. /\ held[r] = <<k, n>> /\ UNCHANGED <<now, listed, caught, mark>>
          /\ held' = [held EXCEPT ![r] = NoBucket]
          /\ bucket' = [bucket EXCEPT ![k][n] = [tokens |-> x, last |-> now]]
      BY <1>9 DEF TakeToken
    <2> HIDE DEF x
    <2>3. /\ \A j \in Sources : j # k \/ listed[j] # n => Credit(j)' = Credit(j)
          /\ listed[k] = n => Credit(k)' = x /\ Credit(k) = Level(k, n)
          /\ \A j \in Sources : Unlisted(j)' = Unlisted(j) \ {r}
      BY <1>8, <2>1, <2>2
    <2>4. CASE listed[k] = n
      <3>1. timely' = [timely EXCEPT ![k] = @ + 1] /\ late' = late
        BY <1>9, <2>4 DEF TakeToken
      <3>2. \A j \in Sources : \/ timely'[j] = timely[j] /\ Credit(j)' <= Credit(j)
                               \/ timely'[j] = timely[j] + 1 /\ Credit(j)' + Unit <= Credit(j)
        <4> TAKE j \in Sources
        <4>1. CASE j = k
          BY <1>1, <1>3, <2>1, <2>3, <2>4, <3>1, <4>1 DEF LimiterTypeOK
        <4>2. CASE j # k
          BY <1>1, <1>4, <2>3, <3>1, <4>2 DEF LimiterTypeOK
        <4> QED BY <4>1, <4>2
      <3>3. RateInv'
        BY <1>1, <1>2, <2>2, <3>2, RateKept
      <3> QED BY <1>1, <2>2, <2>3, <3>1, <3>3, LateKept
    <2>5. CASE listed[k] # n
      <3>1. late' = [late EXCEPT ![k] = @ + 1] /\ timely' = timely
        BY <1>9, <2>5 DEF TakeToken
      <3>2. \A j \in Sources : timely'[j] = timely[j] /\ Credit(j)' <= Credit(j)
        BY <1>4, <2>3, <2>5, <3>1
      <3>3. RateInv'
        BY <1>1, <1>2, <2>2, <3>2, RateKept
      <3>4. ASSUME NEW j \in Sources PROVE late'[j] + Cardinality(Unlisted(j)') <= caught'[j]
        <4>1. IsFiniteSet(Unlisted(j)) /\ Cardinality(Unlisted(j)) \in Nat
          BY UnlistedFinite
        <4>2. late[j] \in Nat /\ caught'[j] = caught[j] /\ caught[j] \in Nat
          BY <1>1, <2>2 DEF LimiterTypeOK
        <4>3. late[j] + Cardinality(Unlisted(j)) <= caught[j]
          BY <1>1 DEF LateInv
        <4>4. CASE j = k
          <5>1. r \in Unlisted(k)
            BY <2>2, <2>5 DEF Unlisted
          <5>2. Cardinality(Unlisted(j)') = Cardinality(Unlisted(j)) - 1
            BY <2>3, <4>1, <4>4, <5>1, FS_RemoveElement
          <5>3. late'[j] = late[j] + 1
            BY <1>1, <3>1, <4>4 DEF LimiterTypeOK
          <5> QED BY <4>1, <4>2, <4>3, <5>2, <5>3
        <4>5. CASE j # k
          <5>1. Cardinality(Unlisted(j)') <= Cardinality(Unlisted(j)) /\ Cardinality(Unlisted(j)') \in Nat
            BY <2>3, <4>1, FS_Subset, FS_CardinalityType
          <5>2. late'[j] = late[j]
            BY <1>1, <3>1, <4>5 DEF LimiterTypeOK
          <5> QED BY <4>1, <4>2, <4>3, <5>1, <5>2
        <4> QED BY <4>4, <4>5
      <3> QED BY <3>3, <3>4 DEF LateInv
    <2> QED BY <2>4, <2>5
  <1>10. ASSUME NEW r \in Callers, NEW k \in Sources, NEW n \in 0 .. MaxCleanups,
                Refused(r, k, n), UNCHANGED now
         PROVE  RateInv' /\ LateInv'
    <2> DEFINE x == Level(k, n)
    <2>1. x \in Nat /\ x <= Full(k)
      BY <1>3
    <2>2. /\ held[r] = <<k, n>> /\ UNCHANGED <<now, listed, timely, late, caught, mark>>
          /\ held' = [held EXCEPT ![r] = NoBucket]
          /\ bucket' = [bucket EXCEPT ![k][n] = [tokens |-> x, last |-> now]]
      BY <1>10 DEF Refused
    <2>3. /\ \A j \in Sources : j # k \/ listed[j] # n => Credit(j)' = Credit(j)
          /\ listed[k] = n => Credit(k)' = x /\ Credit(k) = Level(k, n)
          /\ \A j \in Sources : Unlisted(j)' = Unlisted(j) \ {r}
      <3> HIDE DEF x
      <3> QED BY <1>8, <2>1, <2>2
    <2>4. \A j \in Sources : timely'[j] = timely[j] /\ Credit(j)' <= Credit(j)
      <3> TAKE j \in Sources
      <3>1. Credit(j)' = Credit(j)
        BY <2>3
      <3> QED BY <1>4, <2>2, <3>1
    <2>5. RateInv'
      BY <1>1, <1>2, <2>2, <2>4, RateKept
    <2> QED BY <1>1, <2>2, <2>3, <2>5, LateKept
  <1>11. ASSUME NEW k \in Sources, Tokens(k), UNCHANGED now
         PROVE  RateInv' /\ LateInv'
    <2>0. listed[k] \in 0 .. MaxCleanups
      BY <1>1, <1>11 DEF Tokens, LimiterTypeOK
    <2>1. PICK n \in 0 .. MaxCleanups : n = listed[k]
      BY <2>0
    <2>2. /\ bucket' = [bucket EXCEPT ![k][n] = [tokens |-> Level(k, n), last |-> now]]
          /\ UNCHANGED <<now, listed, cleanups, held, timely, late, caught, mark>>
      BY <1>11, <2>1 DEF Tokens
    <2>3. /\ bucket'[k][n] = [tokens |-> Level(k, n), last |-> now]
          /\ \A j \in Sources, m \in 0 .. MaxCleanups :
               j # k \/ m # n => bucket'[j][m] = bucket[j][m]
      <3>1. now' = now /\ Level(k, n) \in Nat
        BY <1>3, <2>2
      <3>2. bucket' = [bucket EXCEPT ![k][n] = [tokens |-> Level(k, n), last |-> now]]
        BY <2>2
      <3>3. bucket'[k][n] = [tokens |-> Level(k, n), last |-> now]
        BY <1>1, <3>1, <3>2, WriteBucket
      <3>4. ASSUME NEW j \in Sources, NEW m \in 0 .. MaxCleanups, j # k \/ m # n
            PROVE  bucket'[j][m] = bucket[j][m]
        BY <1>1, <3>1, <3>2, <3>4, WriteBucket
      <3> QED BY <3>3, <3>4
    <2>4. Credit(k)' = Credit(k)
      <3>1. Level(k, n)' = Level(k, n)
        BY <1>1, <1>3, <2>2, <2>3, LevelAfter
      <3> QED BY <1>5, <2>1, <2>2, <3>1 DEF Credit
    <2>5. \A j \in Sources : j # k => Credit(j)' = Credit(j)
      BY <1>1, <2>1, <2>2, <2>3 DEF Credit, Level, Full, LimiterTypeOK
    <2>6. \A j \in Sources : timely'[j] = timely[j] /\ Credit(j)' <= Credit(j)
      BY <1>4, <2>2, <2>4, <2>5
    <2>7. RateInv'
      BY <1>1, <1>2, <2>2, <2>6, RateKept
    <2>8. \A j \in Sources : Unlisted(j)' \subseteq Unlisted(j)
      BY <2>2 DEF Unlisted
    <2> QED BY <1>1, <2>2, <2>7, <2>8, LateKept
  <1>12. ASSUME NEW l \in Limiters, Cleanup(l), UNCHANGED now
         PROVE  RateInv' /\ LateInv'
    <2>1. UNCHANGED <<held, timely, late, mark, now>>
      BY <1>12 DEF Cleanup
    <2>2. ASSUME NEW j \in Sources
          PROVE  timely'[j] = timely[j] /\ Credit(j)' <= Credit(j)
      <3>1. CASE j[1] = l /\ Idle(j)
        <4>1. listed'[j] = NoBucket /\ Credit(j) = Full(j)
          BY <1>1, <1>3, <1>12, <3>1, SMTT(30) DEF Cleanup, Idle, Credit, LimiterTypeOK
        <4> QED BY <1>3, <1>4, <2>1, <4>1 DEF Credit, Full
      <3>2. CASE j[1] = l /\ ~Idle(j) /\ listed[j] # NoBucket
        <4> DEFINE n == listed[j]
        <4>1. n \in 0 .. MaxCleanups /\ n' = n
          BY <1>1, <1>12, <3>2 DEF Cleanup, LimiterTypeOK
        <4>2. bucket'[j][n] = [tokens |-> Level(j, n), last |-> now]
          <5>1. bucket'[j] = [bucket[j] EXCEPT ![n] = [tokens |-> Level(j, n), last |-> now]]
            BY <1>12, <3>2 DEF Cleanup
          <5>2. bucket[j] \in [0 .. MaxCleanups -> [tokens : Nat, last : Nat]]
            BY <1>1 DEF LimiterTypeOK
          <5> QED BY <4>1, <5>1, <5>2
        <4>3. Credit(j)' = Level(j, n)' /\ Credit(j) = Level(j, n)
          BY <3>2, <4>1 DEF Credit
        <4>4. Level(j, n)' = Level(j, n)
          <5> HIDE DEF n
          <5> QED BY <1>1, <1>3, <2>1, <4>1, <4>2, LevelAfter
        <4> QED BY <1>4, <2>1, <4>3, <4>4
      <3>3. CASE j[1] # l \/ listed[j] = NoBucket
        <4>1. listed'[j] = listed[j] /\ bucket'[j] = bucket[j]
          BY <1>12, <3>3 DEF Cleanup, Idle
        <4> QED BY <1>4, <2>1, <4>1 DEF Credit, Level, Full
      <3> QED BY <3>1, <3>2, <3>3
    <2>3. RateInv'
      BY <1>1, <1>2, <2>1, <2>2, RateKept
    <2>4. ASSUME NEW j \in Sources
          PROVE  late'[j] + Cardinality(Unlisted(j)') <= caught'[j]
      <3>1. IsFiniteSet(Unlisted(j)) /\ Cardinality(Unlisted(j)) \in Nat
        BY UnlistedFinite
      <3>2. late[j] + Cardinality(Unlisted(j)) <= caught[j] /\ late[j] \in Nat /\ caught[j] \in Nat
        BY <1>1 DEF LateInv, LimiterTypeOK
      <3>3. CASE j[1] = l /\ Idle(j)
        <4> DEFINE H == Holding(j, listed[j])
        <4>1. IsFiniteSet(H) /\ Cardinality(H) \in Nat
          BY FS_Subset, FS_CardinalityType DEF Holding
        <4>2. caught'[j] = caught[j] + Cardinality(H)
          BY <1>12, <3>3 DEF Cleanup
        <4>3. Unlisted(j)' \subseteq Unlisted(j) \cup H
          BY <1>12, <3>3 DEF Cleanup, Unlisted, Holding
        <4> HIDE DEF H
        <4>4. /\ IsFiniteSet(Unlisted(j) \cup H)
              /\ Cardinality(Unlisted(j) \cup H) <= Cardinality(Unlisted(j)) + Cardinality(H)
              /\ Cardinality(Unlisted(j) \cup H) \in Nat
          <5>1. /\ IsFiniteSet(Unlisted(j) \cup H) /\ IsFiniteSet(Unlisted(j) \cap H)
                /\ Cardinality(Unlisted(j) \cup H) =
                     Cardinality(Unlisted(j)) + Cardinality(H) - Cardinality(Unlisted(j) \cap H)
            BY <3>1, <4>1, FS_Union, FS_Intersection
          <5>2. Cardinality(Unlisted(j) \cap H) \in Nat /\ Cardinality(Unlisted(j) \cup H) \in Nat
            BY <5>1, FS_CardinalityType
          <5> QED BY <3>1, <4>1, <5>1, <5>2
        <4>5. Cardinality(Unlisted(j)') \in Nat /\ Cardinality(Unlisted(j)') <= Cardinality(Unlisted(j) \cup H)
          BY <4>3, <4>4, FS_Subset, FS_CardinalityType
        <4>6. late'[j] = late[j]
          BY <2>1
        <4> QED BY <3>1, <3>2, <4>1, <4>2, <4>4, <4>5, <4>6
      <3>4. CASE ~(j[1] = l /\ Idle(j))
        <4>1. listed'[j] = listed[j] /\ caught'[j] = caught[j]
          BY <1>12, <3>4 DEF Cleanup
        <4>2. Unlisted(j)' = Unlisted(j)
          BY <2>1, <4>1 DEF Unlisted
        <4> QED BY <2>1, <3>2, <4>1, <4>2
      <3> QED BY <3>3, <3>4
    <2> QED BY <2>3, <2>4 DEF LateInv
  <1>13. CASE LimiterTick
    <2>1. \A j \in Sources : Unlisted(j)' \subseteq Unlisted(j)
      BY <1>13 DEF LimiterTick, Unlisted
    <2>2. UNCHANGED <<late, caught>>
      BY <1>13 DEF LimiterTick
    <2>3. LateInv'
      BY <1>1, <2>1, <2>2, LateKept
    <2> QED BY <1>1, <1>2, <1>13, <2>3, RateTick DEF LimiterInv
  <1>14. CASE UNCHANGED <<now, limiterVars>>
    <2>1. UNCHANGED <<now, listed, bucket, held, timely, late, caught, mark>>
      BY <1>14 DEF limiterVars
    <2>2. \A j \in Sources : timely'[j] = timely[j] /\ Credit(j)' <= Credit(j)
      BY <1>4, <2>1 DEF Credit, Level, Full
    <2>3. RateInv'
      BY <1>1, <1>2, <2>1, <2>2, RateKept
    <2>4. \A j \in Sources : Unlisted(j)' \subseteq Unlisted(j)
      BY <2>1 DEF Unlisted
    <2> QED BY <1>1, <1>2, <2>1, <2>3, <2>4, LateKept DEF LimiterInv
  <1> QED BY <1>2, <1>6, <1>7, <1>9, <1>10, <1>11, <1>12, <1>13, <1>14
      DEF LimiterNext, Ask, Allowed, Limited, LimiterInv

-----------------------------------------------------------------------------

(* The invariant behind both theorems below: the credit of every client    *)
(* and what it took since any tick stay within what the limiter promises.  *)
THEOREM LimiterInvHolds == LimiterSpec => []LimiterInv
  <1>1. now = 0 /\ LimiterInit => LimiterInv
    BY LimiterTypeInit, RateInit, LateInit DEF LimiterInv
  <1> QED BY <1>1, LimiterInvStep, PTL DEF LimiterSpec

(* The limiters' state keeps its types, for any number of clients.         *)
THEOREM LimiterTypes == LimiterSpec => []LimiterTypeOK
  <1>1. LimiterInv => LimiterTypeOK
    BY DEF LimiterInv
  <1> QED BY <1>1, LimiterInvHolds, PTL

(* The promised rate holds for any burst and rate, any number of callers   *)
(* and any interleaving of them with cleanup.                              *)
THEOREM RateLimited == LimiterSpec => []LimiterHolds
  <1>1. ASSUME LimiterInv PROVE LimiterHolds
    <2>1. LimiterTypeOK /\ InThePast /\ RateInv /\ LateInv
      BY <1>1 DEF LimiterInv
    <2> SUFFICES ASSUME NEW k \in Sources
                 PROVE  /\ \A s \in 0 .. now :
                             (timely[k] - mark[k][s]) * Unit
                               <= Full(k) + Refill[k[1]] * (now - s)
                        /\ late[k] <= caught[k]
      BY DEF LimiterHolds
    <2>2. Credit(k) \in Nat /\ Full(k) \in Nat
      BY <2>1, CreditBounds
    <2>3. ASSUME NEW s \in 0 .. now
          PROVE  (timely[k] - mark[k][s]) * Unit <= Full(k) + Refill[k[1]] * (now - s)
      <3> DEFINE t == timely[k] - mark[k][s]
                 d == now - s
      <3>1. s \in 0 .. MaxTime /\ d \in Int /\ Unit \in Int /\ Refill[k[1]] \in Int
        BY <2>1, LimiterAssumption, ClockAssumption DEF LimiterTypeOK, Sources
      <3>2. t \in Int
        <4>1. timely[k] \in Nat /\ mark[k] \in [0 .. MaxTime -> Nat]
          BY <2>1 DEF LimiterTypeOK
        <4>2. mark[k][s] \in Nat
          BY <3>1, <4>1
        <4> QED BY <4>1, <4>2
      <3>3. t * Unit + Credit(k) <= Full(k) + Refill[k[1]] * d
        BY <2>1 DEF RateInv
      <3> HIDE DEF t, d
      <3>4. t * Unit \in Int /\ Refill[k[1]] * d \in Int
        BY <3>1, <3>2, OneMore
      <3>5. t * Unit <= Full(k) + Refill[k[1]] * d
        BY <2>2, <3>3, <3>4
      <3> QED BY <3>5 DEF t, d
    <2>4. late[k] <= caught[k]
      <3>1. Cardinality(Unlisted(k)) \in Nat
        BY UnlistedFinite
      <3> QED BY <2>1, <3>1 DEF LateInv, LimiterTypeOK
    <2> QED BY <2>3, <2>4
  <1>2. LimiterInv => LimiterHolds
    BY <1>1
  <1> QED BY <1>2, LimiterInvHolds, PTL

-----------------------------------------------------------------------------
(* Induction.                                                              *)

LEMMA LeastNat ==
  ASSUME NEW S, S \subseteq Nat, S # {}
  PROVE  \E n \in S : \A m \in S : n <= m
<1> DEFINE R == {ss \in Nat \X Nat : ss[1] < ss[2]}
<1>1. IsWellFoundedOn(R, Nat)
  BY NatLessThanWellFounded DEF OpToRel
<1>2. \E n \in S : \A m \in S : ~(<<m, n>> \in R)
  <2> HIDE DEF R
  <2> QED BY <1>1, WFMin
<1>3. PICK n \in S : \A m \in S : ~(<<m, n>> \in R)
  BY <1>2
<1>4. ASSUME NEW m \in S PROVE n <= m
  <2>1. m \in Nat /\ n \in Nat /\ <<m, n>> \notin R
    BY <1>3
  <2> QED BY <2>1
<1> QED BY <1>4

LEMMA UpTo ==
  ASSUME NEW N \in Nat, NEW S, 0 \in S, \A n \in 0 .. N - 1 : n \in S => n + 1 \in S
  PROVE  \A n \in 0 .. N : n \in S
<1> SUFFICES ASSUME (0 .. N) \ S # {} PROVE FALSE
  OBVIOUS
<1>1. PICK n \in (0 .. N) \ S : \A m \in (0 .. N) \ S : n <= m
  <2>1. (0 .. N) \ S \subseteq Nat
    OBVIOUS
  <2> QED BY <2>1, LeastNat
<1>2. n - 1 \in 0 .. N - 1 /\ n - 1 \in 0 .. N /\ (n - 1) + 1 = n /\ ~(n <= n - 1)
  BY <1>1
<1>3. n - 1 \in S
  BY <1>1, <1>2
<1> QED BY <1>1, <1>2, <1>3

-----------------------------------------------------------------------------
(* Counts of events, before each tick.                                     *)

Since(count, s) == count[MaxTime + 1] - count[s]

(* The counts grow with time, and nothing is counted for the future.       *)
Counting(count) ==
  /\ count \in [0 .. MaxTime + 1 -> Nat]
  /\ \A s, t \in 0 .. MaxTime + 1 : s <= t => count[s] <= count[t]
  /\ \A t \in now + 1 .. MaxTime + 1 : count[t] = count[MaxTime + 1]

LEMMA NothingCounted == now = 0 => Counting(NoneYet)
BY ClockAssumption DEF Counting, NoneYet

LEMMA DuringSince ==
  ASSUME NEW count, Counting(count), now \in 0 .. MaxTime, NEW s \in 0 .. now, NEW t \in Nat, t >= now
  PROVE  During(count, s, t) = Since(count, s)
<1>1. PICK u : u = IF t < MaxTime THEN t + 1 ELSE MaxTime + 1
  OBVIOUS
<1>2. u \in now + 1 .. MaxTime + 1
  BY <1>1, ClockAssumption
<1>3. count[u] = count[MaxTime + 1]
  BY <1>2 DEF Counting
<1> QED BY <1>1, <1>3 DEF During, Since

LEMMA SinceNat ==
  ASSUME NEW count, Counting(count), NEW s \in 0 .. MaxTime + 1
  PROVE  Since(count, s) \in Nat
<1>1. count[s] <= count[MaxTime + 1] /\ count[s] \in Nat /\ count[MaxTime + 1] \in Nat
  BY ClockAssumption DEF Counting
<1> QED BY <1>1 DEF Since

LEMMA SinceLess ==
  ASSUME NEW count, Counting(count), NEW s \in 0 .. MaxTime + 1, NEW t \in 0 .. MaxTime + 1, s <= t
  PROVE  Since(count, t) <= Since(count, s)
<1>1. count[s] <= count[t] /\ count[s] \in Nat /\ count[t] \in Nat /\ count[MaxTime + 1] \in Nat
  BY ClockAssumption DEF Counting
<1> QED BY <1>1 DEF Since

(* What one more event changes.                                            *)
LEMMA NotedCounts ==
  ASSUME NEW count, Counting(count), now \in 0 .. MaxTime
  PROVE  /\ Counting(Noted(count))
         /\ \A s \in 0 .. now : Since(Noted(count), s) = Since(count, s) + 1
         /\ \A s \in 0 .. now, t \in Nat :
              During(Noted(count), s, t) = IF t < now THEN During(count, s, t) ELSE Since(count, s) + 1
<1> PICK more : more = Noted(count)
  OBVIOUS
<1>1. /\ more = [t \in 0 .. MaxTime + 1 |-> IF t > now THEN count[t] + 1 ELSE count[t]]
      /\ count \in [0 .. MaxTime + 1 -> Nat]
      /\ \A s, t \in 0 .. MaxTime + 1 : s <= t => count[s] <= count[t]
      /\ \A t \in now + 1 .. MaxTime + 1 : count[t] = count[MaxTime + 1]
  BY DEF Noted, Counting
<1>2. /\ \A t \in 0 .. MaxTime + 1 : count[t] \in Nat
      /\ \A t \in 0 .. MaxTime + 1 : t <= now => more[t] = count[t]
      /\ \A t \in 0 .. MaxTime + 1 : t > now => more[t] = count[t] + 1
  BY <1>1
<1>3. Counting(more)
  <2>1. more \in [0 .. MaxTime + 1 -> Nat]
    BY <1>1
  <2>2. ASSUME NEW s \in 0 .. MaxTime + 1, NEW t \in 0 .. MaxTime + 1, s <= t PROVE more[s] <= more[t]
    <3>1. count[s] <= count[t] /\ count[s] \in Nat /\ count[t] \in Nat
      BY <1>1, <1>2, <2>2
    <3>2. CASE t <= now
      BY <1>2, <2>2, <3>1, <3>2
    <3>3. CASE t > now
      <4>1. more[t] = count[t] + 1 /\ (more[s] = count[s] \/ more[s] = count[s] + 1)
        BY <1>2, <3>3
      <4> QED BY <3>1, <4>1
    <3> QED BY <3>2, <3>3
  <2>3. ASSUME NEW t \in now + 1 .. MaxTime + 1 PROVE more[t] = more[MaxTime + 1]
    <3>1. t \in 0 .. MaxTime + 1 /\ t > now /\ MaxTime + 1 \in 0 .. MaxTime + 1 /\ MaxTime + 1 > now
      BY <2>3, ClockAssumption
    <3> QED BY <1>1, <1>2, <2>3, <3>1
  <2> QED BY <2>1, <2>2, <2>3 DEF Counting
<1>4. ASSUME NEW s \in 0 .. now PROVE Since(more, s) = Since(count, s) + 1
  <2>1. MaxTime + 1 \in 0 .. MaxTime + 1 /\ MaxTime + 1 > now /\ s \in 0 .. MaxTime + 1
    BY ClockAssumption
  <2>2. more[MaxTime + 1] = count[MaxTime + 1] + 1 /\ more[s] = count[s]
        /\ count[MaxTime + 1] \in Nat /\ count[s] \in Nat
    BY <1>2, <2>1
  <2> QED BY <2>2 DEF Since
<1>5. ASSUME NEW s \in 0 .. now, NEW t \in Nat, t < now PROVE During(more, s, t) = During(count, s, t)
  <2>1. t < MaxTime /\ t + 1 \in 0 .. MaxTime + 1 /\ t + 1 <= now /\ s \in 0 .. MaxTime + 1
    BY <1>5, ClockAssumption
  <2>2. more[t + 1] = count[t + 1] /\ more[s] = count[s]
    BY <1>2, <2>1
  <2> QED BY <2>1, <2>2 DEF During
<1>6. ASSUME NEW s \in 0 .. now, NEW t \in Nat, ~(t < now) PROVE During(more, s, t) = Since(count, s) + 1
  BY <1>3, <1>4, <1>6, DuringSince
<1> QED BY <1>3, <1>4, <1>5, <1>6

(* When the clock goes on, nothing has been counted in the new tick.       *)
LEMMA CountingTick ==
  ASSUME NEW count, Counting(count), now \in 0 .. MaxTime, Tick
  PROVE  /\ Counting(count)' /\ now' \in 0 .. MaxTime
         /\ Since(count, now + 1) = 0
         /\ \A t \in Nat : t > now => During(count, now + 1, t) = 0
<1>1. now' = now + 1 /\ now + 1 \in 0 .. MaxTime
  BY ClockAssumption DEF Tick
<1>2. \A t \in now + 1 .. MaxTime + 1 : count[t] = count[MaxTime + 1] /\ count[t] \in Nat
  BY <1>1 DEF Counting
<1>3. now + 1 \in now + 1 .. MaxTime + 1 /\ MaxTime + 1 \in now + 1 .. MaxTime + 1
  BY <1>1, ClockAssumption
<1>4. Since(count, now + 1) = 0
  BY <1>2, <1>3 DEF Since
<1>5. Counting(count)'
  <2>1. \A t \in now' + 1 .. MaxTime + 1 : t \in now + 1 .. MaxTime + 1
    BY <1>1
  <2> QED BY <1>2, <2>1 DEF Counting
<1>6. ASSUME NEW t \in Nat, t > now PROVE During(count, now + 1, t) = 0
  <2> PICK u : u = IF t < MaxTime THEN t + 1 ELSE MaxTime + 1
    OBVIOUS
  <2>1. u \in now + 1 .. MaxTime + 1
    BY <1>1, <1>6, ClockAssumption
  <2>2. count[u] = count[now + 1] /\ count[u] \in Nat
    BY <1>2, <1>3, <2>1
  <2>3. During(count, now + 1, t) = count[u] - count[now + 1]
    BY DEF During
  <2> QED BY <2>2, <2>3
<1> QED BY <1>1, <1>4, <1>5, <1>6

-----------------------------------------------------------------------------
(* The times of a window.                                                  *)

Ordered(q) ==
  /\ q \in Seq(0 .. MaxTime)
  /\ \A i, j \in 1 .. Len(q) : i <= j => q[i] <= q[j]
  /\ \A i \in 1 .. Len(q) : q[i] <= now

LEMMA SeqOf ==
  ASSUME NEW S, NEW n \in Nat, NEW f \in [1 .. n -> S]
  PROVE  f \in Seq(S) /\ Len(f) = n
OBVIOUS

LEMMA AppendFcn ==
  ASSUME NEW S, NEW j \in Nat, NEW s \in [1 .. j -> S], NEW e \in S
  PROVE  Append(s, e) = [m \in 1 .. j + 1 |-> IF m = j + 1 THEN e ELSE s[m]]
<1> PICK t : t = [m \in 1 .. j + 1 |-> IF m = j + 1 THEN e ELSE s[m]]
  OBVIOUS
<1>1. s \in Seq(S) /\ Len(s) = j
  BY SeqOf
<1>2. t \in [1 .. j + 1 -> S] /\ j + 1 \in Nat
  OBVIOUS
<1>3. t \in Seq(S) /\ Len(t) = j + 1
  BY <1>2, SeqOf
<1>4. /\ Append(s, e) \in Seq(S) /\ Len(Append(s, e)) = j + 1
      /\ \A i \in 1 .. j + 1 : Append(s, e)[i] = IF i = j + 1 THEN e ELSE s[i]
  BY <1>1, AppendProperties
<1>5. \A i \in 1 .. Len(Append(s, e)) : Append(s, e)[i] = t[i]
  BY <1>4
<1> QED BY <1>3, <1>4, <1>5, SeqEqual

(* Filtering leaves the end of the sequence.                               *)
Rest(q, d) == [i \in 1 .. Len(q) - d |-> q[i + d]]

LEMMA RestOrdered ==
  ASSUME NEW q, Ordered(q), NEW d \in 0 .. Len(q)
  PROVE  /\ Ordered(Rest(q, d)) /\ Len(Rest(q, d)) = Len(q) - d
         /\ \A i \in 1 .. Len(q) - d : Rest(q, d)[i] = q[i + d]
<1> PICK n : n = Len(q)
  OBVIOUS
<1>1. n \in Nat /\ d \in 0 .. n /\ q \in [1 .. n -> 0 .. MaxTime]
  <2>1. q \in Seq(0 .. MaxTime)
    BY DEF Ordered
  <2> QED BY <2>1, LenProperties
<1> PICK r : r = Rest(q, d)
  OBVIOUS
<1>2. r = [i \in 1 .. n - d |-> q[i + d]] /\ n - d \in Nat
  BY <1>1 DEF Rest
<1>3. \A i \in 1 .. n - d : i + d \in 1 .. n /\ r[i] = q[i + d] /\ q[i + d] \in 0 .. MaxTime
  BY <1>1, <1>2
<1>4. r \in Seq(0 .. MaxTime) /\ Len(r) = n - d
  <2> PICK m : m = n - d
    OBVIOUS
  <2>1. m \in Nat /\ r \in [1 .. m -> 0 .. MaxTime]
    BY <1>2, <1>3
  <2>2. r \in Seq(0 .. MaxTime) /\ Len(r) = m
    BY <2>1, SeqOf
  <2> QED BY <2>2
<1>5. \A i, j \in 1 .. n - d : i <= j => r[i] <= r[j]
  <2> TAKE i \in 1 .. n - d, j \in 1 .. n - d
  <2>1. i <= j => i + d <= j + d
    BY <1>1
  <2> QED BY <1>1, <1>3, <2>1 DEF Ordered
<1>6. \A i \in 1 .. n - d : r[i] <= now
  BY <1>1, <1>3 DEF Ordered
<1> QED BY <1>3, <1>4, <1>5, <1>6 DEF Ordered

LEMMA AfterRest ==
  ASSUME NEW q, Ordered(q), NEW cutoff \in Int
  PROVE  \E d \in 0 .. Len(q) :
           /\ After(q, cutoff) = Rest(q, d)
           /\ \A i \in 1 .. d : q[i] <= cutoff
           /\ \A i \in d + 1 .. Len(q) : q[i] > cutoff
<1> PICK n : n = Len(q)
  OBVIOUS
<1>1. n \in Nat /\ q \in [1 .. n -> 0 .. MaxTime] /\ \A i \in 1 .. n : q[i] \in Int
  <2>1. q \in Seq(0 .. MaxTime)
    BY DEF Ordered
  <2>2. n \in Nat /\ q \in [1 .. n -> 0 .. MaxTime]
    BY <2>1, LenProperties
  <2> QED BY <2>2
<1>2. \A i, j \in 1 .. n : i <= j => q[i] <= q[j]
  BY DEF Ordered
<1> DEFINE Late == {i \in 1 .. n : q[i] > cutoff} \cup {n + 1}
<1>3. PICK f \in Late : \A m \in Late : f <= m
  <2>1. Late \subseteq Nat /\ Late # {}
    BY <1>1
  <2> HIDE DEF Late
  <2> QED BY <2>1, LeastNat
<1> PICK d : d = f - 1
  OBVIOUS
<1>4. d \in 0 .. n
  BY <1>1, <1>3
<1>5. \A i \in 1 .. d : q[i] <= cutoff
  <2> TAKE i \in 1 .. d
  <2>1. i \in 1 .. n /\ ~(f <= i)
    BY <1>1, <1>3, <1>4
  <2>2. ~(q[i] > cutoff)
    BY <1>3, <2>1
  <2> QED BY <1>1, <2>1, <2>2
<1>6. \A i \in d + 1 .. n : q[i] > cutoff
  <2> TAKE i \in d + 1 .. n
  <2>1. f \in 1 .. n /\ i \in 1 .. n /\ f <= i
    BY <1>1, <1>3, <1>4
  <2>2. q[f] > cutoff /\ q[f] <= q[i]
    BY <1>2, <1>3, <2>1
  <2> QED BY <1>1, <2>1, <2>2
<1> DEFINE Closed(i) == IF i <= d THEN <<>> ELSE [m \in 1 .. i - d |-> q[m + d]]
           Grown(i, l) == IF q[i] > cutoff THEN Append(l, q[i]) ELSE l
           Loop(k) == k = [i \in 0 .. n |-> IF i = 0 THEN <<>> ELSE Grown(i, k[i - 1])]
           kept == CHOOSE k : Loop(k)
<1>7. \A i \in 1 .. n : Closed(i) = Grown(i, Closed(i - 1))
  <2> TAKE i \in 1 .. n
  <2>1. i - 1 \in 0 .. n - 1
    BY <1>1
  <2>2. CASE i <= d
    <3>1. ~(q[i] > cutoff) /\ i - 1 <= d
      BY <1>1, <1>4, <1>5, <2>2
    <3> QED BY <2>2, <3>1
  <2>3. CASE i > d
    <3>1. q[i] > cutoff /\ ~(i <= d)
      BY <1>1, <1>4, <1>6, <2>3
    <3>2. Append(Closed(i - 1), q[i]) = [m \in 1 .. i - d |-> q[m + d]]
      <4>1. CASE i - 1 <= d
        <5>1. i - d = 1 /\ 1 + d = i
          BY <1>1, <1>4, <2>3, <4>1
        <5>2. Append(<<>>, q[i]) = [m \in 1 .. 1 |-> q[m + d]]
          BY <5>1
        <5> QED BY <4>1, <5>1, <5>2
      <4>2. CASE ~(i - 1 <= d)
        <5> PICK j : j = i - 1 - d
          OBVIOUS
        <5>1. j \in Nat /\ j + 1 = i - d /\ i = j + 1 + d /\ i - 1 - d = j
          BY <1>1, <1>4, <4>2
        <5>2. \A m \in 1 .. j + 1 : m + d \in 1 .. n /\ q[m + d] \in Int
          BY <1>1, <1>4, <5>1
        <5> PICK s : s = [m \in 1 .. j |-> q[m + d]]
          OBVIOUS
        <5>3. s \in [1 .. j -> Int] /\ q[i] \in Int
          BY <1>1, <5>1, <5>2
        <5>4. Append(s, q[i]) = [m \in 1 .. j + 1 |-> IF m = j + 1 THEN q[i] ELSE s[m]]
          <6>1. j \in Nat
            BY <5>1
          <6> HIDE DEF Closed, Grown
          <6> QED BY <5>3, <6>1, AppendFcn
        <5>5. Append(s, q[i]) = [m \in 1 .. j + 1 |-> q[m + d]]
          BY <5>1, <5>4
        <5>6. Closed(i - 1) = s
          BY <4>2, <5>1
        <5> QED BY <5>1, <5>5, <5>6
      <4> QED BY <4>1, <4>2
    <3> QED BY <3>1, <3>2
  <2> QED BY <1>1, <1>4, <2>2, <2>3
<1>8. Closed(0) = <<>>
  BY <1>4
<1>9. Loop(kept)
  <2> HIDE DEF Grown
  <2> DEFINE l == [i \in 0 .. n |-> Closed(i)]
  <2>1. \A i \in 0 .. n : i # 0 => l[i] = Grown(i, l[i - 1])
    <3> TAKE i \in 0 .. n
    <3>1. i # 0 => i \in 1 .. n /\ i - 1 \in 0 .. n
      BY <1>1
    <3> HIDE DEF Closed
    <3> QED BY <1>7, <3>1
  <2>2. l[0] = <<>>
    BY <1>1, <1>8
  <2>3. Loop(l)
    <3> HIDE DEF Closed
    <3> QED BY <2>1, <2>2
  <2> HIDE DEF Loop
  <2> QED BY <2>3
<1>10. After(q, cutoff) = kept[n]
  BY DEF After
<1> HIDE DEF Grown, kept
<1>11. \A i \in 0 .. n : i \in {m \in 0 .. n : kept[m] = Closed(m)}
  <2>1. kept[0] = <<>> /\ \A i \in 0 .. n : i # 0 => kept[i] = Grown(i, kept[i - 1])
    BY <1>1, <1>9
  <2> HIDE DEF Closed, Loop
  <2> DEFINE S == {m \in 0 .. n : kept[m] = Closed(m)}
  <2>2. 0 \in S
    BY <1>1, <1>8, <2>1
  <2>3. ASSUME NEW i \in 0 .. n - 1, i \in S PROVE i + 1 \in S
    <3>1. i + 1 \in 0 .. n /\ i + 1 # 0 /\ i + 1 \in 1 .. n /\ (i + 1) - 1 = i
      BY <1>1
    <3>2. kept[i] = Closed(i)
      BY <2>3
    <3>3. kept[i + 1] = Grown(i + 1, kept[i])
      BY <2>1, <3>1
    <3>4. Closed(i + 1) = Grown(i + 1, Closed(i))
      BY <1>7, <3>1
    <3> QED BY <3>1, <3>2, <3>3, <3>4
  <2> HIDE DEF S
  <2>4. \A i \in 0 .. n : i \in S
    BY <1>1, <2>2, <2>3, UpTo
  <2> QED BY <2>4 DEF S
<1>12. kept[n] = Closed(n)
  <2> HIDE DEF Closed
  <2> QED BY <1>1, <1>11
<1>13. Closed(n) = Rest(q, d)
  <2>1. CASE n <= d
    <3>1. n - d = 0
      BY <1>1, <1>4, <2>1
    <3>2. Rest(q, d) = [i \in 1 .. 0 |-> q[i + d]]
      BY <3>1 DEF Rest
    <3> QED BY <2>1, <3>2
  <2>2. CASE ~(n <= d)
    BY <2>2 DEF Rest
  <2> QED BY <2>1, <2>2
<1> HIDE DEF Closed
<1> QED BY <1>4, <1>5, <1>6, <1>10, <1>12, <1>13

-----------------------------------------------------------------------------
(* The inductive invariant.                                                *)

(* A window explains a count of requests let through: of those in the last *)
(* WindowSize ticks none is forgotten, so that from any tick s on there    *)
(* are at most as many as its sequence has entries from s on.              *)
Explains(q, count) ==
  \A s \in 0 .. now, j \in 0 .. Len(q) :
    s > now - WindowSize /\ (\A i \in 1 .. j : q[i] < s) => Since(count, s) <= Len(q) - j

(* The numbers from here on have been given to no window of the client.    *)
FirstFree(c) == IF windows[c] = NoWindow THEN rounds ELSE windows[c] + 1

(* The callers that hold a window of c that is not in the map.             *)
Adrift(c) ==
  {a \in Arrivals : \E n \in 0 .. MaxRounds : using[a] = <<c, n>> /\ windows[c] # n}

VisitorInv(c) ==
  /\ Counting(served[c])
  /\ \A n \in 0 .. MaxRounds : Ordered(requests[c][n])
  /\ windows[c] # NoWindow => windows[c] <= rounds
  /\ \A n \in 0 .. MaxRounds : n >= FirstFree(c) =>
       requests[c][n] = <<>> /\ \A a \in Arrivals : using[a] # <<c, n>>
  /\ Explains(IF windows[c] = NoWindow THEN <<>> ELSE requests[c][windows[c]], served[c])
  /\ \A s \in 0 .. now : During(served[c], s, s + WindowSize - 1) <= MaxRequests
  /\ astray[c] + Cardinality(Adrift(c)) <= stranded[c]

WindowInv == WindowTypeOK /\ \A c \in Visitors : VisitorInv(c)

LEMMA NoWindowIsNone ==
  /\ NoWindow \notin 0 .. MaxRounds
  /\ \A c \in Visitors, n \in 0 .. MaxRounds : NoWindow # <<c, n>>
<1>1. \A c \in Visitors, n \in 0 .. MaxRounds : <<c, n>> \in Visitors \X Nat
  BY WindowAssumption
<1> QED BY <1>1, WindowAssumption

LEMMA AdriftFinite ==
  ASSUME NEW c
  PROVE  IsFiniteSet(Adrift(c)) /\ Cardinality(Adrift(c)) \in Nat
BY WindowAssumption, FS_Subset, FS_CardinalityType DEF Adrift

-----------------------------------------------------------------------------
(* What explains a count, as requests are forgotten and noted.             *)

LEMMA ExplainsRest ==
  ASSUME NEW q, Ordered(q), NEW count, Explains(q, count), now \in 0 .. MaxTime,
         NEW d \in 0 .. Len(q), \A i \in 1 .. d : q[i] <= now - WindowSize
  PROVE  /\ Explains(Rest(q, d), count)
         /\ \A s \in 0 .. now : s > now - WindowSize => Since(count, s) <= Len(q) - d
<1> PICK n : n = Len(q)
  OBVIOUS
<1> PICK r : r = Rest(q, d)
  OBVIOUS
<1>1. /\ n \in Nat /\ d \in 0 .. n /\ WindowSize \in Nat
      /\ \A i \in 1 .. n : q[i] \in Int
      /\ \A i \in 1 .. n - d : r[i] = q[i + d]
      /\ Len(r) = n - d
  <2>1. q \in Seq(0 .. MaxTime)
    BY DEF Ordered
  <2>2. n \in Nat /\ \A i \in 1 .. n : q[i] \in 0 .. MaxTime
    BY <2>1, LenProperties, ElementOfSeq
  <2>3. 0 .. MaxTime \subseteq Int
    OBVIOUS
  <2>4. Len(r) = n - d /\ \A i \in 1 .. n - d : r[i] = q[i + d]
    BY RestOrdered
  <2> QED BY <2>2, <2>3, <2>4, WindowAssumption
<1>2. ASSUME NEW s \in 0 .. now, NEW j \in 0 .. n - d, s > now - WindowSize,
             \A i \in 1 .. j : r[i] < s
      PROVE  Since(count, s) <= n - d - j
  <2>1. d + j \in 0 .. n
    BY <1>1
  <2>2. \A i \in 1 .. d + j : q[i] < s
    <3> TAKE i \in 1 .. d + j
    <3>1. CASE i <= d
      <4>1. q[i] <= now - WindowSize /\ q[i] \in Int
        BY <1>1, <3>1
      <4> QED BY <1>1, <1>2, <4>1
    <3>2. CASE i > d
      <4>1. i - d \in 1 .. j /\ i - d \in 1 .. n - d /\ (i - d) + d = i
        BY <1>1, <1>2, <3>2
      <4>2. r[i - d] = q[i] /\ r[i - d] < s
        BY <1>1, <1>2, <4>1
      <4> QED BY <4>2
    <3> QED BY <1>1, <3>1, <3>2
  <2>3. Since(count, s) <= n - (d + j)
    BY <1>2, <2>1, <2>2 DEF Explains
  <2>4. n - (d + j) = n - d - j
    BY <1>1, <1>2
  <2> QED BY <2>3, <2>4
<1>3. Explains(r, count)
  BY <1>1, <1>2 DEF Explains
<1>4. ASSUME NEW s \in 0 .. now, s > now - WindowSize PROVE Since(count, s) <= n - d
  <2>1. \A i \in 1 .. d : q[i] < s
    <3> TAKE i \in 1 .. d
    <3>1. q[i] <= now - WindowSize /\ q[i] \in Int
      BY <1>1
    <3> QED BY <1>1, <1>4, <3>1
  <2> QED BY <1>1, <1>4, <2>1 DEF Explains
<1> QED BY <1>3, <1>4

LEMMA OrderedMore ==
  ASSUME NEW q, Ordered(q), now \in 0 .. MaxTime
  PROVE  Ordered(Append(q, now))
<1> PICK n : n = Len(q)
  OBVIOUS
<1> PICK r : r = Append(q, now)
  OBVIOUS
<1>1. /\ n \in Nat /\ Len(r) = n + 1 /\ r \in Seq(0 .. MaxTime)
      /\ \A i \in 1 .. n : r[i] = q[i]
      /\ r[n + 1] = now
  <2>1. q \in Seq(0 .. MaxTime)
    BY DEF Ordered
  <2> QED BY <2>1, LenProperties, AppendProperties
<1>2. \A i \in 1 .. n : q[i] <= now /\ q[i] \in Int
  <2>1. q \in Seq(0 .. MaxTime) /\ 0 .. MaxTime \subseteq Int
    BY DEF Ordered
  <2>2. \A i \in 1 .. n : q[i] \in 0 .. MaxTime
    BY <2>1, ElementOfSeq
  <2> QED BY <2>1, <2>2 DEF Ordered
<1>3. \A i \in 1 .. n + 1 : r[i] <= now
  <2> TAKE i \in 1 .. n + 1
  <2>1. i \in 1 .. n \/ i = n + 1
    BY <1>1
  <2> QED BY <1>1, <1>2, <2>1
<1>4. \A i, j \in 1 .. n + 1 : i <= j => r[i] <= r[j]
  <2> TAKE i \in 1 .. n + 1, j \in 1 .. n + 1
  <2>1. j \in 1 .. n \/ j = n + 1
    BY <1>1
  <2>2. CASE j = n + 1
    BY <1>1, <1>3, <2>2
  <2>3. CASE j \in 1 .. n
    <3>1. i <= j => i \in 1 .. n /\ q[i] <= q[j]
      BY <1>1, <2>3 DEF Ordered
    <3> QED BY <1>1, <2>3, <3>1
  <2> QED BY <2>1, <2>2, <2>3
<1> QED BY <1>1, <1>3, <1>4 DEF Ordered

LEMMA ExplainsMore ==
  ASSUME NEW q, Ordered(q), NEW count, Counting(count), Explains(q, count), now \in 0 .. MaxTime
  PROVE  Explains(Append(q, now), Noted(count)) /\ Ordered(Append(q, now))
<1> PICK n : n = Len(q)
  OBVIOUS
<1> PICK r : r = Append(q, now)
  OBVIOUS
<1>1. /\ n \in Nat /\ Len(r) = n + 1 /\ r \in Seq(0 .. MaxTime)
      /\ \A i \in 1 .. n : r[i] = q[i]
      /\ r[n + 1] = now
  <2>1. q \in Seq(0 .. MaxTime)
    BY DEF Ordered
  <2> QED BY <2>1, LenProperties, AppendProperties
<1>2. Explains(r, Noted(count))
  <2> SUFFICES ASSUME NEW s \in 0 .. now, NEW j \in 0 .. n + 1, s > now - WindowSize,
                      \A i \in 1 .. j : r[i] < s
               PROVE  Since(Noted(count), s) <= n + 1 - j
    BY <1>1 DEF Explains
  <2>1. j \in 0 .. n
    <3>1. CASE j = n + 1
      <4>1. r[n + 1] < s
        BY <1>1, <3>1
      <4> QED BY <1>1, <4>1
    <3> QED BY <1>1, <3>1
  <2>2. \A i \in 1 .. j : q[i] < s
    BY <1>1, <2>1
  <2>3. Since(count, s) <= n - j
    BY <2>1, <2>2 DEF Explains
  <2>4. Since(Noted(count), s) = Since(count, s) + 1
    BY NotedCounts
  <2>5. Since(count, s) \in Nat
    BY SinceNat, ClockAssumption
  <2> QED BY <1>1, <2>1, <2>3, <2>4, <2>5
<1>3. Ordered(r)
  BY OrderedMore
<1> QED BY <1>2, <1>3

LEMMA ExplainsTick ==
  ASSUME NEW q, NEW count, Ordered(q), Counting(count), Explains(q, count), now \in 0 .. MaxTime, Tick
  PROVE  Explains(q, count)' /\ Ordered(q)'
<1> PICK n : n = Len(q)
  OBVIOUS
<1>1. n \in Nat /\ q \in Seq(0 .. MaxTime) /\ \A i \in 1 .. n : q[i] \in Int
  <2>1. q \in Seq(0 .. MaxTime) /\ 0 .. MaxTime \subseteq Int
    BY DEF Ordered
  <2> QED BY <2>1, LenProperties, ElementOfSeq
<1>2. now' = now + 1
  BY DEF Tick
<1>3. ASSUME NEW s \in 0 .. now', NEW j \in 0 .. n, s > now' - WindowSize, \A i \in 1 .. j : q[i] < s
      PROVE  Since(count, s) <= n - j
  <2>1. CASE s = now + 1
    BY <1>1, <2>1, CountingTick
  <2>2. CASE s # now + 1
    <3>1. s \in 0 .. now /\ s > now - WindowSize
      BY <1>2, <1>3, <2>2, WindowAssumption
    <3> QED BY <1>3, <3>1 DEF Explains
  <2> QED BY <2>1, <2>2
<1>4. \A i \in 1 .. n : q[i] <= now'
  <2>1. \A i \in 1 .. n : q[i] <= now
    BY DEF Ordered
  <2> QED BY <1>1, <1>2, <2>1
<1> QED BY <1>3, <1>4 DEF Explains, Since, Ordered

(* What a window explains that cleanup may drop, an empty one does too.    *)
LEMMA ExplainsDropped ==
  ASSUME NEW q, Ordered(q), NEW count, Explains(q, count), now \in 0 .. MaxTime,
         q = <<>> \/ q[Len(q)] < now - 2 * WindowSize
  PROVE  Explains(<<>>, count)
<1> PICK n : n = Len(q)
  OBVIOUS
<1>1. n \in Nat /\ q \in Seq(0 .. MaxTime) /\ \A i \in 1 .. n : q[i] \in Int
  <2>1. q \in Seq(0 .. MaxTime) /\ 0 .. MaxTime \subseteq Int
    BY DEF Ordered
  <2> QED BY <2>1, LenProperties, ElementOfSeq
<1>2. ASSUME NEW s \in 0 .. now, s > now - WindowSize PROVE Since(count, s) <= 0
  <2>1. \A i \in 1 .. n : q[i] < s
    <3> TAKE i \in 1 .. n
    <3>1. n \in 1 .. n /\ i <= n
      BY <1>1
    <3>2. q[n] < now - 2 * WindowSize
      <4>1. q # <<>>
        BY <1>1, <3>1, EmptySeq
      <4> QED BY <4>1
    <3>3. q[i] <= q[n] /\ q[i] \in Int /\ q[n] \in Int
      BY <1>1, <3>1 DEF Ordered
    <3> QED BY <1>2, <3>2, <3>3, WindowAssumption
  <2>2. Since(count, s) <= n - n
    BY <1>1, <1>2, <2>1 DEF Explains
  <2> QED BY <1>1, <2>2
<1>3. Len(<<>>) = 0
  OBVIOUS
<1>4. ASSUME NEW s \in 0 .. now, NEW j \in 0 .. Len(<<>>), s > now - WindowSize
      PROVE  Since(count, s) <= Len(<<>>) - j
  BY <1>2, <1>3, <1>4
<1> QED BY <1>4 DEF Explains

-----------------------------------------------------------------------------
(* The steps of the limiter, for one client at a time.                     *)

(* A client whose window a step leaves alone.                              *)
LEMMA VisitorKept ==
  ASSUME NEW c \in Visitors, VisitorInv(c),
         now' = now, rounds' = rounds, windows'[c] = windows[c], requests'[c] = requests[c],
         served'[c] = served[c], astray'[c] = astray[c], stranded'[c] = stranded[c],
         astray[c] \in Nat, stranded[c] \in Nat,
         \A a \in Arrivals, n \in 0 .. MaxRounds : using'[a] = <<c, n>> =>
           using[a] = <<c, n>> \/ (windows[c] = n /\ n # NoWindow)
  PROVE  VisitorInv(c)'
<1>1. Adrift(c)' \subseteq Adrift(c)
  BY DEF Adrift
<1>2. IsFiniteSet(Adrift(c)) /\ Cardinality(Adrift(c)) \in Nat
  BY AdriftFinite
<1>3. Cardinality(Adrift(c)') \in Nat /\ Cardinality(Adrift(c)') <= Cardinality(Adrift(c))
  BY <1>1, <1>2, FS_Subset, FS_CardinalityType
<1>4. astray[c] + Cardinality(Adrift(c)) <= stranded[c]
  BY DEF VisitorInv
<1>5. astray'[c] + Cardinality(Adrift(c)') <= stranded'[c]
  BY <1>2, <1>3, <1>4
<1>6. FirstFree(c)' = FirstFree(c)
  BY DEF FirstFree
<1>7. ASSUME NEW n \in 0 .. MaxRounds, n >= FirstFree(c), NEW a \in Arrivals PROVE using'[a] # <<c, n>>
  <2>1. ~(windows[c] = n /\ n # NoWindow)
    BY <1>7 DEF FirstFree
  <2>2. using[a] # <<c, n>>
    BY <1>7 DEF VisitorInv
  <2> QED BY <2>1, <2>2
<1>8. /\ \A n \in 0 .. MaxRounds : Ordered(requests[c][n])'
      /\ Counting(served[c])'
      /\ Explains(IF windows[c] = NoWindow THEN <<>> ELSE requests[c][windows[c]], served[c])'
      /\ \A s \in 0 .. now' : During(served[c], s, s + WindowSize - 1)' <= MaxRequests
  <2>1. \A n \in 0 .. MaxRounds : Ordered(requests[c][n])'
    BY DEF VisitorInv, Ordered
  <2>2. Counting(served[c])'
    BY DEF VisitorInv, Counting
  <2>3. Explains(IF windows[c] = NoWindow THEN <<>> ELSE requests[c][windows[c]], served[c])'
    BY DEF VisitorInv, Explains, Since
  <2>4. \A s \in 0 .. now' : During(served[c], s, s + WindowSize - 1)' <= MaxRequests
    BY DEF VisitorInv, During
  <2> QED BY <2>1, <2>2, <2>3, <2>4
<1> QED BY <1>5, <1>6, <1>7, <1>8 DEF VisitorInv

LEMMA FindWindowKeeps ==
  ASSUME WindowInv, NEW a \in Arrivals, NEW d \in Visitors, FindWindow(a, d), UNCHANGED now,
         NEW c \in Visitors
  PROVE  VisitorInv(c)'
<1>1. /\ windows \in [Visitors -> 0 .. MaxRounds \cup {NoWindow}] /\ rounds \in 0 .. MaxRounds
      /\ using \in [Arrivals -> (Visitors \X (0 .. MaxRounds)) \cup {NoWindow}]
      /\ astray[c] \in Nat /\ stranded[c] \in Nat /\ now \in 0 .. MaxTime
  BY DEF WindowInv, WindowTypeOK
<1>2. VisitorInv(c)
  BY DEF WindowInv
<1>3. /\ windows' = IF windows[d] = NoWindow THEN [windows EXCEPT ![d] = rounds] ELSE windows
      /\ using' = [using EXCEPT ![a] = <<d, windows'[d]>>]
      /\ UNCHANGED <<requests, rounds, served, astray, stranded, now>>
  BY DEF FindWindow
<1>4. NoWindow \notin 0 .. MaxRounds
  BY NoWindowIsNone
<1>5. \A b \in Arrivals : using'[b] = IF b = a THEN <<d, windows'[d]>> ELSE using[b]
  BY <1>1, <1>3
<1>6. CASE d # c \/ windows[c] # NoWindow
  <2>1. windows'[c] = windows[c] /\ (d = c => windows'[d] = windows[c])
    BY <1>1, <1>3, <1>6
  <2>2. \A b \in Arrivals, n \in 0 .. MaxRounds : using'[b] = <<c, n>> =>
           using[b] = <<c, n>> \/ (windows[c] = n /\ n # NoWindow)
    BY <1>4, <1>5, <2>1
  <2> QED BY <1>1, <1>2, <1>3, <2>1, <2>2, VisitorKept
<1>7. CASE d = c /\ windows[c] = NoWindow
  <2>1. windows'[c] = rounds /\ windows'[c] # NoWindow
    BY <1>1, <1>3, <1>4, <1>7
  <2>2. FirstFree(c) = rounds /\ FirstFree(c)' = rounds + 1
    BY <1>3, <1>7, <2>1 DEF FirstFree
  <2>3. requests[c][rounds] = <<>>
    BY <1>1, <1>2, <2>2 DEF VisitorInv
  <2>4. Explains(<<>>, served[c])
    BY <1>2, <1>7 DEF VisitorInv
  <2>5. Explains(IF windows[c] = NoWindow THEN <<>> ELSE requests[c][windows[c]], served[c])'
    <3>1. Explains(<<>>, served[c])'
      BY <1>3, <2>4 DEF Explains, Since
    <3>2. requests'[c][windows'[c]] = <<>>
      BY <1>3, <2>1, <2>3
    <3> QED BY <2>1, <3>1, <3>2
  <2>6. \A n \in 0 .. MaxRounds : n >= rounds + 1 =>
          requests'[c][n] = <<>> /\ \A b \in Arrivals : using'[b] # <<c, n>>
    <3> TAKE n \in 0 .. MaxRounds
    <3> HAVE n >= rounds + 1
    <3>1. n >= rounds /\ n # rounds
      BY <1>1
    <3>2. requests[c][n] = <<>> /\ \A b \in Arrivals : using[b] # <<c, n>>
      BY <1>2, <2>2, <3>1 DEF VisitorInv
    <3>3. <<d, windows'[d]>> # <<c, n>>
      BY <1>7, <2>1, <3>1
    <3> QED BY <1>3, <1>5, <3>2, <3>3
  <2>7. Adrift(c)' \subseteq Adrift(c)
    <3> SUFFICES ASSUME NEW b \in Arrivals, NEW n \in 0 .. MaxRounds, using'[b] = <<c, n>>, windows'[c] # n
                 PROVE  b \in Adrift(c)
      BY DEF Adrift
    <3>1. b # a
      BY <1>5, <1>7
    <3>2. using[b] = <<c, n>> /\ windows[c] # n
      BY <1>4, <1>5, <1>7, <3>1
    <3> QED BY <3>2 DEF Adrift
  <2>8. astray'[c] + Cardinality(Adrift(c)') <= stranded'[c]
    <3>1. IsFiniteSet(Adrift(c)) /\ Cardinality(Adrift(c)) \in Nat
      BY AdriftFinite
    <3>2. Cardinality(Adrift(c)') \in Nat /\ Cardinality(Adrift(c)') <= Cardinality(Adrift(c))
      BY <2>7, <3>1, FS_Subset, FS_CardinalityType
    <3>3. astray[c] + Cardinality(Adrift(c)) <= stranded[c]
      BY <1>2 DEF VisitorInv
    <3> QED BY <1>1, <1>3, <3>1, <3>2, <3>3
  <2>9. Counting(served[c])' /\ \A n \in 0 .. MaxRounds : Ordered(requests[c][n])'
    BY <1>2, <1>3 DEF VisitorInv, Counting, Ordered
  <2>10. \A s \in 0 .. now' : During(served[c], s, s + WindowSize - 1)' <= MaxRequests
    BY <1>2, <1>3 DEF VisitorInv, During
  <2>11. windows'[c] <= rounds'
    BY <1>1, <1>3, <2>1
  <2> QED BY <2>2, <2>5, <2>6, <2>8, <2>9, <2>10, <2>11 DEF VisitorInv
<1> QED BY <1>6, <1>7

(* A caller that used a window is not adrift any more.                     *)
LEMMA NotAdrift ==
  ASSUME WindowTypeOK, NEW a \in Arrivals, NEW c \in Visitors, NEW n \in 0 .. MaxRounds,
         using[a] = <<c, n>>, using' = [using EXCEPT ![a] = NoWindow], windows' = windows
  PROVE  /\ \A d \in Visitors : Adrift(d)' = Adrift(d) \ {a}
         /\ windows[c] # n => a \in Adrift(c)
         /\ \A b \in Arrivals, d \in Visitors, m \in 0 .. MaxRounds :
              using'[b] = <<d, m>> => using[b] = <<d, m>>
<1>1. \A b \in Arrivals : using'[b] = IF b = a THEN NoWindow ELSE using[b]
  BY DEF WindowTypeOK
<1>2. \A d \in Visitors, m \in 0 .. MaxRounds : NoWindow # <<d, m>>
  BY NoWindowIsNone
<1> QED BY <1>1, <1>2 DEF Adrift

(* What becomes of the window a caller uses.                               *)
LEMMA UseKeeps ==
  ASSUME WindowInv, NEW a \in Arrivals, NEW c \in Visitors, NEW n \in 0 .. MaxRounds, UNCHANGED now,
         Pass(a, c, n) \/ TurnAway(a, c, n)
  PROVE  VisitorInv(c)'
<1> PICK q : q = requests[c][n]
  OBVIOUS
<1> PICK f : f = served[c]
  OBVIOUS
<1> PICK r : r = Recent(c, n)
  OBVIOUS
<1>1. /\ windows \in [Visitors -> 0 .. MaxRounds \cup {NoWindow}] /\ rounds \in 0 .. MaxRounds
      /\ requests \in [Visitors -> [0 .. MaxRounds -> Seq(0 .. MaxTime)]]
      /\ served \in [Visitors -> [0 .. MaxTime + 1 -> Nat]]
      /\ astray \in [Visitors -> Nat] /\ stranded \in [Visitors -> Nat] /\ now \in 0 .. MaxTime
  BY DEF WindowInv, WindowTypeOK
<1>2. VisitorInv(c)
  BY DEF WindowInv
<1>3. /\ using[a] = <<c, n>> /\ using' = [using EXCEPT ![a] = NoWindow]
      /\ UNCHANGED <<windows, rounds, stranded, now>>
  BY DEF Pass, TurnAway
<1>4. Adrift(c)' = Adrift(c) \ {a} /\ (windows[c] # n => a \in Adrift(c))
      /\ \A b \in Arrivals, m \in 0 .. MaxRounds : using'[b] = <<c, m>> => using[b] = <<c, m>>
  BY <1>3, NotAdrift DEF WindowInv
<1>5. Ordered(q) /\ Counting(f)
  BY <1>2 DEF VisitorInv
<1>6. PICK d \in 0 .. Len(q) : r = Rest(q, d) /\ \A i \in 1 .. d : q[i] <= now - WindowSize
  <2> PICK cut : cut = now - WindowSize
    OBVIOUS
  <2>1. cut \in Int /\ r = After(q, cut)
    BY <1>1, WindowAssumption DEF Recent
  <2>2. PICK d \in 0 .. Len(q) : /\ After(q, cut) = Rest(q, d)
                                 /\ \A i \in 1 .. d : q[i] <= cut
                                 /\ \A i \in d + 1 .. Len(q) : q[i] > cut
    BY <1>5, <2>1, AfterRest
  <2> QED BY <2>1, <2>2
<1>7. Ordered(r) /\ Len(r) = Len(q) - d
  BY <1>5, <1>6, RestOrdered
<1>8. n < FirstFree(c)
  <2>1. FirstFree(c) \in Int
    BY <1>1 DEF FirstFree
  <2> QED BY <1>2, <1>3, <2>1 DEF VisitorInv
<1>9. PICK u : /\ u = r \/ u = Append(r, now)
               /\ requests' = [requests EXCEPT ![c][n] = u]
               /\ \/ /\ u = Append(r, now) /\ Len(r) < MaxRequests
                     /\ \/ /\ windows[c] = n /\ astray' = astray
                           /\ served' = [served EXCEPT ![c] = Noted(@)]
                        \/ /\ windows[c] # n /\ served' = served
                           /\ astray' = [astray EXCEPT ![c] = @ + 1]
                  \/ u = r /\ served' = served /\ astray' = astray
  BY DEF Pass, TurnAway
<1>10. /\ requests'[c][n] = u
       /\ \A m \in 0 .. MaxRounds : m # n => requests'[c][m] = requests[c][m]
  BY <1>1, <1>9
<1>11. FirstFree(c)' = FirstFree(c)
  BY <1>3 DEF FirstFree
<1>12. \A m \in 0 .. MaxRounds : m >= FirstFree(c) =>
         requests'[c][m] = <<>> /\ \A b \in Arrivals : using'[b] # <<c, m>>
  <2> TAKE m \in 0 .. MaxRounds
  <2> HAVE m >= FirstFree(c)
  <2>1. m # n
    <3>1. FirstFree(c) \in Int
      BY <1>1 DEF FirstFree
    <3> QED BY <1>8, <3>1
  <2>2. requests[c][m] = <<>> /\ \A b \in Arrivals : using[b] # <<c, m>>
    BY <1>2 DEF VisitorInv
  <2> QED BY <1>4, <1>10, <2>1, <2>2
<1>13. Ordered(u)
  <2>1. CASE u = r
    BY <1>7, <2>1
  <2>2. CASE u = Append(r, now)
    BY <1>1, <1>7, <2>2, OrderedMore
  <2> QED BY <1>9, <2>1, <2>2
<1>14. \A m \in 0 .. MaxRounds : Ordered(requests[c][m])'
  <2> TAKE m \in 0 .. MaxRounds
  <2> PICK x : x = requests'[c][m]
    OBVIOUS
  <2>1. Ordered(x)
    <3>1. m # n => Ordered(requests[c][m])
      BY <1>2 DEF VisitorInv
    <3> QED BY <1>10, <1>13, <3>1
  <2> QED BY <1>3, <2>1 DEF Ordered
<1>15. astray'[c] + Cardinality(Adrift(c)') <= stranded'[c]
  <2>1. IsFiniteSet(Adrift(c)) /\ Cardinality(Adrift(c)) \in Nat
        /\ astray[c] + Cardinality(Adrift(c)) <= stranded[c] /\ astray[c] \in Nat /\ stranded[c] \in Nat
    BY <1>1, <1>2, AdriftFinite DEF VisitorInv
  <2>2. CASE astray' = astray
    <3>1. Cardinality(Adrift(c)') \in Nat /\ Cardinality(Adrift(c)') <= Cardinality(Adrift(c))
      BY <1>4, <2>1, FS_Subset, FS_CardinalityType
    <3> QED BY <1>3, <2>1, <2>2, <3>1
  <2>3. CASE windows[c] # n /\ astray' = [astray EXCEPT ![c] = @ + 1]
    <3>1. Cardinality(Adrift(c)') = Cardinality(Adrift(c)) - 1
      BY <1>4, <2>1, <2>3, FS_RemoveElement
    <3>2. astray'[c] = astray[c] + 1
      BY <1>1, <2>3
    <3> QED BY <1>3, <2>1, <3>1, <3>2
  <2> QED BY <1>9, <2>2, <2>3
<1>16. CASE windows[c] = n
  <2>1. windows[c] # NoWindow /\ Explains(q, f)
    BY <1>2, <1>16, NoWindowIsNone DEF VisitorInv
  <2>2. Explains(r, f) /\ \A s \in 0 .. now : s > now - WindowSize => Since(f, s) <= Len(r)
    BY <1>1, <1>5, <1>6, <1>7, <2>1, ExplainsRest
  <2> PICK g : g = served'[c]
    OBVIOUS
  <2>3. \A s \in 0 .. now : During(f, s, s + WindowSize - 1) <= MaxRequests
    BY <1>2 DEF VisitorInv
  <2>4. /\ Counting(g) /\ Explains(u, g)
        /\ \A s \in 0 .. now : During(g, s, s + WindowSize - 1) <= MaxRequests
    <3>1. CASE u = r /\ served' = served
      BY <1>5, <2>2, <2>3, <3>1
    <3>2. CASE u = Append(r, now) /\ Len(r) < MaxRequests /\ served' = [served EXCEPT ![c] = Noted(@)]
      <4>1. g = Noted(f)
        BY <1>1, <3>2
      <4>2. Counting(g) /\ Explains(u, g)
        BY <1>1, <1>5, <1>7, <2>2, <3>2, <4>1, NotedCounts, ExplainsMore
      <4>3. ASSUME NEW s \in 0 .. now PROVE During(g, s, s + WindowSize - 1) <= MaxRequests
        <5> PICK t : t = s + WindowSize - 1
          OBVIOUS
        <5>1. t \in Nat
          BY <1>1, WindowAssumption
        <5>2. During(g, s, t) = IF t < now THEN During(f, s, t) ELSE Since(f, s) + 1
          BY <1>1, <1>5, <4>1, <5>1, NotedCounts
        <5>3. CASE t < now
          BY <2>3, <5>2, <5>3
        <5>4. CASE ~(t < now)
          <6>1. s > now - WindowSize
            BY <1>1, <5>1, <5>4, WindowAssumption
          <6>2. Since(f, s) <= Len(r) /\ Since(f, s) \in Nat
            <7>1. s \in 0 .. MaxTime + 1
              BY <1>1, ClockAssumption
            <7> QED BY <1>5, <2>2, <6>1, <7>1, SinceNat
          <6>3. Len(r) \in Nat
            BY <1>7, LenProperties DEF Ordered
          <6> QED BY <3>2, <5>2, <5>4, <6>2, <6>3, WindowAssumption
        <5> QED BY <5>3, <5>4
      <4> QED BY <4>2, <4>3
    <3> QED BY <1>9, <1>16, <3>1, <3>2
  <2>5. Explains(IF windows[c] = NoWindow THEN <<>> ELSE requests[c][windows[c]], served[c])'
    <3>1. (IF windows[c] = NoWindow THEN <<>> ELSE requests[c][windows[c]])' = u
      BY <1>3, <1>10, <1>16, <2>1
    <3> QED BY <1>3, <2>4, <3>1 DEF Explains, Since
  <2>6. Counting(served[c])' /\ \A s \in 0 .. now' : During(served[c], s, s + WindowSize - 1)' <= MaxRequests
    BY <1>3, <2>4 DEF Counting, During
  <2> QED BY <1>2, <1>3, <1>11, <1>12, <1>14, <1>15, <2>5, <2>6 DEF VisitorInv
<1>17. CASE windows[c] # n
  <2>1. served' = served
    BY <1>9, <1>17
  <2>2. Explains(IF windows[c] = NoWindow THEN <<>> ELSE requests[c][windows[c]], served[c])'
    <3>1. (IF windows[c] = NoWindow THEN <<>> ELSE requests[c][windows[c]])'
            = IF windows[c] = NoWindow THEN <<>> ELSE requests[c][windows[c]]
      BY <1>1, <1>3, <1>10, <1>17
    <3> QED BY <1>2, <1>3, <2>1, <3>1 DEF VisitorInv, Explains, Since
  <2>3. Counting(served[c])' /\ \A s \in 0 .. now' : During(served[c], s, s + WindowSize - 1)' <= MaxRequests
    BY <1>2, <1>3, <2>1 DEF VisitorInv, Counting, During
  <2> QED BY <1>2, <1>3, <1>11, <1>12, <1>14, <1>15, <2>2, <2>3 DEF VisitorInv
<1> QED BY <1>16, <1>17

LEMMA UseKeepsAll ==
  ASSUME WindowInv, NEW a \in Arrivals, NEW c \in Visitors, NEW n \in 0 .. MaxRounds, UNCHANGED now,
         Pass(a, c, n) \/ TurnAway(a, c, n)
  PROVE  \A d \in Visitors : VisitorInv(d)'
<1> TAKE d \in Visitors
<1>1. CASE d = c
  BY <1>1, UseKeeps
<1>2. CASE d # c
  <2>1. /\ requests \in [Visitors -> [0 .. MaxRounds -> Seq(0 .. MaxTime)]]
        /\ served \in [Visitors -> [0 .. MaxTime + 1 -> Nat]]
        /\ astray \in [Visitors -> Nat] /\ stranded \in [Visitors -> Nat]
        /\ WindowTypeOK /\ VisitorInv(d)
    BY DEF WindowInv, WindowTypeOK
  <2>2. /\ using[a] = <<c, n>> /\ using' = [using EXCEPT ![a] = NoWindow]
        /\ UNCHANGED <<windows, rounds, stranded, now>>
    BY DEF Pass, TurnAway
  <2>3. requests'[d] = requests[d] /\ served'[d] = served[d] /\ astray'[d] = astray[d]
    BY <1>2, <2>1 DEF Pass, TurnAway
  <2>4. \A b \in Arrivals, m \in 0 .. MaxRounds : using'[b] = <<d, m>> => using[b] = <<d, m>>
    BY <2>1, <2>2, NotAdrift
  <2> QED BY <2>1, <2>2, <2>3, <2>4, VisitorKept
<1> QED BY <1>1, <1>2

(* Cleanup: a window it drops has nothing left to forget, and its callers  *)
(* are counted.                                                            *)
LEMMA SweepKeeps ==
  ASSUME WindowInv, Sweep, UNCHANGED now, NEW c \in Visitors
  PROVE  VisitorInv(c)'
<1>1. /\ windows \in [Visitors -> 0 .. MaxRounds \cup {NoWindow}] /\ rounds \in 0 .. MaxRounds
      /\ astray[c] \in Nat /\ stranded[c] \in Nat /\ now \in 0 .. MaxTime
      /\ VisitorInv(c)
  BY DEF WindowInv, WindowTypeOK
<1>2. rounds' = rounds + 1 /\ UNCHANGED <<requests, using, served, astray, now>>
  BY DEF Sweep
<1>3. Counting(served[c])' /\ \A n \in 0 .. MaxRounds : Ordered(requests[c][n])'
  BY <1>1, <1>2 DEF VisitorInv, Counting, Ordered
<1>4. \A s \in 0 .. now' : During(served[c], s, s + WindowSize - 1)' <= MaxRequests
  BY <1>1, <1>2 DEF VisitorInv, During
<1>5. IsFiniteSet(Adrift(c)) /\ Cardinality(Adrift(c)) \in Nat
      /\ astray[c] + Cardinality(Adrift(c)) <= stranded[c]
  BY <1>1, AdriftFinite DEF VisitorInv
<1>6. NoWindow \notin 0 .. MaxRounds
  BY NoWindowIsNone
<1>7. CASE Stale(c)
  <2> PICK w : w = windows[c]
    OBVIOUS
  <2>1. w = windows[c] /\ w \in 0 .. MaxRounds /\ w <= rounds /\ windows'[c] = NoWindow
    BY <1>1, <1>6, <1>7 DEF Stale, Sweep, VisitorInv
  <2> PICK q : q = requests[c][w]
    OBVIOUS
  <2>2. Explains(<<>>, served[c])
    <3>1. Ordered(q) /\ Explains(q, served[c])
      BY <1>1, <1>6, <2>1 DEF VisitorInv
    <3>2. q = <<>> \/ q[Len(q)] < now - 2 * WindowSize
      BY <1>7, <2>1 DEF Stale
    <3> QED BY <1>1, <3>1, <3>2, ExplainsDropped
  <2>3. Explains(IF windows[c] = NoWindow THEN <<>> ELSE requests[c][windows[c]], served[c])'
    <3>1. Explains(<<>>, served[c])'
      BY <1>2, <2>2 DEF Explains, Since
    <3> QED BY <2>1, <3>1
  <2>4. FirstFree(c)' = rounds + 1 /\ FirstFree(c) = w + 1
    BY <1>2, <1>6, <2>1 DEF FirstFree
  <2>5. \A n \in 0 .. MaxRounds : n >= FirstFree(c)' =>
          requests'[c][n] = <<>> /\ \A a \in Arrivals : using'[a] # <<c, n>>
    <3> TAKE n \in 0 .. MaxRounds
    <3>1. n >= FirstFree(c)' => n >= FirstFree(c)
      BY <1>1, <2>1, <2>4
    <3> QED BY <1>1, <1>2, <3>1 DEF VisitorInv
  <2> PICK H : H = {a \in Arrivals : using[a] = <<c, w>>}
    OBVIOUS
  <2>6. IsFiniteSet(H) /\ Cardinality(H) \in Nat
    <3>1. H \subseteq Arrivals
      OBVIOUS
    <3> QED BY <3>1, WindowAssumption, FS_Subset, FS_CardinalityType
  <2>7. stranded'[c] = stranded[c] + Cardinality(H)
    BY <1>7, <2>1 DEF Sweep
  <2>8. Adrift(c)' \subseteq Adrift(c) \cup H
    BY <1>2, <2>1 DEF Adrift
  <2>9. /\ IsFiniteSet(Adrift(c) \cup H)
        /\ Cardinality(Adrift(c) \cup H) <= Cardinality(Adrift(c)) + Cardinality(H)
        /\ Cardinality(Adrift(c) \cup H) \in Nat
    <3>1. /\ IsFiniteSet(Adrift(c) \cup H) /\ IsFiniteSet(Adrift(c) \cap H)
          /\ Cardinality(Adrift(c) \cup H) =
               Cardinality(Adrift(c)) + Cardinality(H) - Cardinality(Adrift(c) \cap H)
      BY <1>5, <2>6, FS_Union, FS_Intersection
    <3>2. Cardinality(Adrift(c) \cap H) \in Nat /\ Cardinality(Adrift(c) \cup H) \in Nat
      BY <3>1, FS_CardinalityType
    <3> QED BY <1>5, <2>6, <3>1, <3>2
  <2>10. Cardinality(Adrift(c)') \in Nat /\ Cardinality(Adrift(c)') <= Cardinality(Adrift(c) \cup H)
    BY <2>8, <2>9, FS_Subset, FS_CardinalityType
  <2>11. astray'[c] + Cardinality(Adrift(c)') <= stranded'[c]
    BY <1>1, <1>2, <1>5, <2>6, <2>7, <2>9, <2>10
  <2> QED BY <1>3, <1>4, <2>1, <2>3, <2>5, <2>11 DEF VisitorInv
<1>8. CASE ~Stale(c)
  <2>1. windows'[c] = windows[c] /\ stranded'[c] = stranded[c]
    BY <1>8 DEF Sweep
  <2>2. Adrift(c)' = Adrift(c)
    BY <1>2, <2>1 DEF Adrift
  <2>3. \A n \in 0 .. MaxRounds : n >= FirstFree(c)' =>
          requests'[c][n] = <<>> /\ \A a \in Arrivals : using'[a] # <<c, n>>
    <3> TAKE n \in 0 .. MaxRounds
    <3>1. n >= FirstFree(c)' => n >= FirstFree(c)
      BY <1>1, <1>2, <2>1 DEF FirstFree
    <3> QED BY <1>1, <1>2, <3>1 DEF VisitorInv
  <2>4. windows'[c] # NoWindow => windows'[c] <= rounds'
    BY <1>1, <1>2, <2>1 DEF VisitorInv
  <2>5. Explains(IF windows[c] = NoWindow THEN <<>> ELSE requests[c][windows[c]], served[c])'
    BY <1>1, <1>2, <2>1 DEF VisitorInv, Explains, Since
  <2> QED BY <1>2, <1>3, <1>4, <1>5, <2>1, <2>2, <2>3, <2>4, <2>5 DEF VisitorInv
<1> QED BY <1>7, <1>8

(* Nothing is let through by the passing of time.                          *)
LEMMA TickKeeps ==
  ASSUME WindowInv, Tick, UNCHANGED windowVars, NEW c \in Visitors
  PROVE  VisitorInv(c)'
<1>1. now \in 0 .. MaxTime /\ VisitorInv(c)
  BY DEF WindowInv, WindowTypeOK
<1>2. now' = now + 1 /\ UNCHANGED <<windows, requests, rounds, using, served, astray, stranded>>
  BY DEF Tick, windowVars
<1> PICK f : f = served[c]
  OBVIOUS
<1> PICK v : v = IF windows[c] = NoWindow THEN <<>> ELSE requests[c][windows[c]]
  OBVIOUS
<1>3. /\ Counting(f)' /\ now' \in 0 .. MaxTime
      /\ \A t \in Nat : t > now => During(f, now + 1, t) = 0
  BY <1>1, CountingTick DEF VisitorInv
<1>4. \A n \in 0 .. MaxRounds : Ordered(requests[c][n])'
  <2> TAKE n \in 0 .. MaxRounds
  <2> PICK q : q = requests[c][n]
    OBVIOUS
  <2>1. q \in Seq(0 .. MaxTime) /\ Ordered(q)
    BY <1>1 DEF VisitorInv, Ordered
  <2>2. \A i \in 1 .. Len(q) : q[i] <= now'
    <3> TAKE i \in 1 .. Len(q)
    <3>1. q[i] \in 0 .. MaxTime /\ q[i] <= now
      BY <2>1, ElementOfSeq DEF Ordered
    <3> QED BY <1>1, <1>2, <3>1
  <2> QED BY <1>2, <2>1, <2>2 DEF Ordered
<1>5. Explains(v, f)'
  <2>1. Explains(v, f) /\ Counting(f)
    BY <1>1 DEF VisitorInv
  <2>2. Ordered(v)
    <3>1. CASE windows[c] = NoWindow
      BY <3>1 DEF Ordered
    <3>2. CASE windows[c] # NoWindow
      BY <1>1, <3>2 DEF VisitorInv, WindowInv, WindowTypeOK
    <3> QED BY <3>1, <3>2
  <2> QED BY <1>1, <2>1, <2>2, ExplainsTick
<1>6. ASSUME NEW s \in 0 .. now' PROVE During(f, s, s + WindowSize - 1) <= MaxRequests
  <2>1. CASE s = now + 1
    <3> PICK t : t = s + WindowSize - 1
      OBVIOUS
    <3>1. t \in Nat /\ t > now
      BY <1>1, <2>1, WindowAssumption
    <3> QED BY <1>3, <2>1, <3>1, WindowAssumption
  <2>2. CASE s # now + 1
    <3>1. s \in 0 .. now
      BY <1>1, <1>2, <2>2
    <3> QED BY <1>1, <3>1 DEF VisitorInv
  <2> QED BY <2>1, <2>2
<1>7. /\ Counting(served[c])'
      /\ Explains(IF windows[c] = NoWindow THEN <<>> ELSE requests[c][windows[c]], served[c])'
      /\ \A s \in 0 .. now' : During(served[c], s, s + WindowSize - 1)' <= MaxRequests
  <2>1. Counting(served[c])'
    BY <1>2, <1>3 DEF Counting
  <2>2. Explains(IF windows[c] = NoWindow THEN <<>> ELSE requests[c][windows[c]], served[c])'
    BY <1>2, <1>5 DEF Explains, Since
  <2>3. \A s \in 0 .. now' : During(served[c], s, s + WindowSize - 1)' <= MaxRequests
    BY <1>2, <1>6 DEF During
  <2> QED BY <2>1, <2>2, <2>3
<1>8. Adrift(c)' = Adrift(c) /\ FirstFree(c)' = FirstFree(c)
  BY <1>2 DEF Adrift, FirstFree
<1>9. astray[c] + Cardinality(Adrift(c)) <= stranded[c]
  BY <1>1 DEF VisitorInv
<1>10. /\ windows[c] # NoWindow => windows[c] <= rounds
       /\ \A n \in 0 .. MaxRounds : n >= FirstFree(c) =>
            requests[c][n] = <<>> /\ \A a \in Arrivals : using[a] # <<c, n>>
  BY <1>1 DEF VisitorInv
<1> QED BY <1>2, <1>4, <1>7, <1>8, <1>9, <1>10 DEF VisitorInv

-----------------------------------------------------------------------------

LEMMA WindowStart ==
  ASSUME now = 0, WindowInit
  PROVE  WindowInv
<1> USE DEF WindowInit
<1>1. Counting(NoneYet)
  BY NothingCounted
<1>2. WindowTypeOK
  BY <1>1, ClockAssumption, WindowAssumption DEF WindowTypeOK, Counting
<1>3. ASSUME NEW c \in Visitors PROVE VisitorInv(c)
  <2>1. Ordered(<<>>)
    BY DEF Ordered
  <2>2. \A n \in 0 .. MaxRounds : Ordered(requests[c][n])
    BY <2>1
  <2>3. Explains(<<>>, NoneYet)
    BY ClockAssumption DEF Explains, Since, NoneYet
  <2>4. \A s \in 0 .. now : During(NoneYet, s, s + WindowSize - 1) <= MaxRequests
    <3> TAKE s \in 0 .. now
    <3>1. s = 0 /\ s + WindowSize - 1 \in Nat
      BY WindowAssumption
    <3> PICK u : u = IF s + WindowSize - 1 < MaxTime THEN s + WindowSize - 1 + 1 ELSE MaxTime + 1
      OBVIOUS
    <3>2. u \in 0 .. MaxTime + 1
      BY <3>1, ClockAssumption
    <3>3. NoneYet[u] = 0 /\ NoneYet[s] = 0
      BY <3>1, <3>2, ClockAssumption DEF NoneYet
    <3> QED BY <3>3, WindowAssumption DEF During
  <2>5. Adrift(c) = {}
    BY NoWindowIsNone DEF Adrift
  <2>6. \A a \in Arrivals, n \in 0 .. MaxRounds : using[a] # <<c, n>>
    BY NoWindowIsNone
  <2> QED BY <1>1, <2>2, <2>3, <2>4, <2>5, <2>6, FS_EmptySet DEF VisitorInv
<1> QED BY <1>2, <1>3 DEF WindowInv

LEMMA WindowTypesKept ==
  ASSUME WindowInv, [WindowNext]_<<now, windowVars>>
  PROVE  WindowTypeOK'
<1>1. /\ now \in 0 .. MaxTime
      /\ windows \in [Visitors -> 0 .. MaxRounds \cup {NoWindow}]
      /\ requests \in [Visitors -> [0 .. MaxRounds -> Seq(0 .. MaxTime)]]
      /\ rounds \in 0 .. MaxRounds
      /\ using \in [Arrivals -> (Visitors \X (0 .. MaxRounds)) \cup {NoWindow}]
      /\ served \in [Visitors -> [0 .. MaxTime + 1 -> Nat]]
      /\ astray \in [Visitors -> Nat]
      /\ stranded \in [Visitors -> Nat]
  BY DEF WindowInv, WindowTypeOK
<1>2. ASSUME NEW a \in Arrivals, NEW c \in Visitors, FindWindow(a, c), UNCHANGED now
      PROVE  WindowTypeOK'
  <2>1. windows' \in [Visitors -> 0 .. MaxRounds \cup {NoWindow}] /\ windows'[c] # NoWindow
    BY <1>1, <1>2, NoWindowIsNone DEF FindWindow
  <2>2. <<c, windows'[c]>> \in Visitors \X (0 .. MaxRounds)
    BY <2>1
  <2> QED BY <1>1, <1>2, <2>1, <2>2 DEF FindWindow, WindowTypeOK
<1>3. ASSUME NEW a \in Arrivals, NEW c \in Visitors, NEW n \in 0 .. MaxRounds,
             Pass(a, c, n) \/ TurnAway(a, c, n), UNCHANGED now
      PROVE  WindowTypeOK'
  <2> PICK r : r = Recent(c, n)
    OBVIOUS
  <2>1. r \in Seq(0 .. MaxTime)
    <3> PICK q : q = requests[c][n]
      OBVIOUS
    <3> PICK cut : cut = now - WindowSize
      OBVIOUS
    <3>1. Ordered(q) /\ cut \in Int /\ r = After(q, cut)
      BY <1>1, WindowAssumption DEF WindowInv, VisitorInv, Recent
    <3>2. PICK d \in 0 .. Len(q) : r = Rest(q, d)
      BY <3>1, AfterRest
    <3> QED BY <3>1, <3>2, RestOrdered DEF Ordered
  <2>2. PICK u \in {r, Append(r, now)} :
          requests' = [requests EXCEPT ![c][n] = u]
    BY <1>3 DEF Pass, TurnAway
  <2>3. u \in Seq(0 .. MaxTime)
    <3> PICK S : S = 0 .. MaxTime
      OBVIOUS
    <3>1. r \in Seq(S) /\ now \in S
      BY <1>1, <2>1
    <3>2. Append(r, now) \in Seq(S)
      BY <3>1, AppendProperties
    <3> QED BY <2>2, <3>1, <3>2
  <2>4. requests' \in [Visitors -> [0 .. MaxRounds -> Seq(0 .. MaxTime)]]
    <3> PICK S : S = Seq(0 .. MaxTime)
      OBVIOUS
    <3>1. requests \in [Visitors -> [0 .. MaxRounds -> S]] /\ u \in S
      BY <1>1, <2>3
    <3>2. requests' \in [Visitors -> [0 .. MaxRounds -> S]]
      BY <2>2, <3>1
    <3> QED BY <3>2
  <2>5. served' \in [Visitors -> [0 .. MaxTime + 1 -> Nat]]
    <3>1. Noted(served[c]) \in [0 .. MaxTime + 1 -> Nat]
      BY <1>1, NotedCounts DEF WindowInv, VisitorInv, Counting
    <3>2. served' = served \/ served' = [served EXCEPT ![c] = Noted(served[c])]
      BY <1>3 DEF Pass, TurnAway
    <3> QED BY <1>1, <3>1, <3>2
  <2>6. astray' \in [Visitors -> Nat]
    <3>1. astray' = astray \/ astray' = [astray EXCEPT ![c] = astray[c] + 1]
      BY <1>3 DEF Pass, TurnAway
    <3>2. astray \in [Visitors -> Nat] /\ astray[c] + 1 \in Nat
      BY <1>1
    <3> QED BY <3>1, <3>2
  <2>7. /\ using' = [using EXCEPT ![a] = NoWindow]
        /\ UNCHANGED <<windows, rounds, stranded, now>>
    BY <1>3 DEF Pass, TurnAway
  <2> QED BY <1>1, <2>4, <2>5, <2>6, <2>7 DEF WindowTypeOK
<1>4. ASSUME Sweep, UNCHANGED now PROVE WindowTypeOK'
  <2>1. \A c \in Visitors : Cardinality({a \in Arrivals : using[a] = <<c, windows[c]>>}) \in Nat
    <3> TAKE c \in Visitors
    <3> PICK H : H = {a \in Arrivals : using[a] = <<c, windows[c]>>}
      OBVIOUS
    <3>1. H \subseteq Arrivals
      OBVIOUS
    <3>2. Cardinality(H) \in Nat
      BY <3>1, WindowAssumption, FS_Subset, FS_CardinalityType
    <3> QED BY <3>2
  <2>2. stranded' \in [Visitors -> Nat]
    <3> DEFINE more(c) == Cardinality({a \in Arrivals : using[a] = <<c, windows[c]>>})
    <3>1. stranded' = [c \in Visitors |-> IF Stale(c) THEN stranded[c] + more(c) ELSE stranded[c]]
      BY <1>4 DEF Sweep
    <3>2. \A c \in Visitors : more(c) \in Nat
      BY <2>1
    <3> HIDE DEF more
    <3>3. \A c \in Visitors : (IF Stale(c) THEN stranded[c] + more(c) ELSE stranded[c]) \in Nat
      BY <1>1, <3>2
    <3> QED BY <3>1, <3>3
  <2>3. rounds' \in 0 .. MaxRounds /\ windows' \in [Visitors -> 0 .. MaxRounds \cup {NoWindow}]
    BY <1>1, <1>4, WindowAssumption DEF Sweep
  <2> QED BY <1>1, <1>4, <2>2, <2>3 DEF Sweep, WindowTypeOK
<1>5. CASE Tick /\ UNCHANGED windowVars
  <2>1. now' \in 0 .. MaxTime
    BY <1>1, <1>5, ClockAssumption DEF Tick
  <2> QED BY <1>1, <1>5, <2>1 DEF windowVars, WindowTypeOK
<1>6. CASE UNCHANGED <<now, windowVars>>
  BY <1>1, <1>6 DEF windowVars, WindowTypeOK
<1> QED BY <1>2, <1>3, <1>4, <1>5, <1>6 DEF WindowNext

LEMMA WindowStep ==
  ASSUME WindowInv, [WindowNext]_<<now, windowVars>>
  PROVE  WindowInv'
<1>1. WindowTypeOK'
  BY WindowTypesKept
<1>2. ASSUME UNCHANGED <<now, windowVars>>, NEW c \in Visitors PROVE VisitorInv(c)'
  <2>1. UNCHANGED <<now, windows, requests, rounds, using, served, astray, stranded>>
    BY <1>2 DEF windowVars
  <2>2. VisitorInv(c) /\ astray[c] \in Nat /\ stranded[c] \in Nat
    BY DEF WindowInv, WindowTypeOK
  <2> QED BY <2>1, <2>2, VisitorKept
<1>3. ASSUME NEW c \in Visitors PROVE VisitorInv(c)'
  BY <1>2, FindWindowKeeps, UseKeepsAll, SweepKeeps, TickKeeps DEF WindowNext
<1> QED BY <1>1, <1>3 DEF WindowInv

-----------------------------------------------------------------------------

(* The invariant behind the two theorems below: every client's window in   *)
(* the map still holds the times of what was let through in the last       *)
(* WindowSize ticks, and every caller adrift of it has been counted.       *)
THEOREM WindowInvHolds == WindowSpec => []WindowInv
<1>1. now = 0 /\ WindowInit => WindowInv
  BY WindowStart
<1> QED BY <1>1, WindowStep, PTL DEF WindowSpec

(* The limiter's state keeps its types, for any number of clients.         *)
THEOREM WindowTypes == WindowSpec => []WindowTypeOK
<1>1. WindowInv => WindowTypeOK
  BY DEF WindowInv
<1> QED BY <1>1, WindowInvHolds, PTL

(* In no WindowSize does a client get more than MaxRequests requests       *)
(* through, for any limit, window size and interleaving with cleanup, but  *)
(* for those cleanup caught between the two locks.                         *)
THEOREM WindowLimited == WindowSpec => []WindowHolds
<1>1. ASSUME WindowInv PROVE WindowHolds
  <2>1. WindowTypeOK /\ \A c \in Visitors : VisitorInv(c)
    BY <1>1 DEF WindowInv
  <2>2. ASSUME NEW c \in Visitors PROVE astray[c] <= stranded[c]
    <3>1. Cardinality(Adrift(c)) \in Nat /\ astray[c] \in Nat /\ stranded[c] \in Nat
      BY <2>1, AdriftFinite DEF WindowTypeOK
    <3>2. astray[c] + Cardinality(Adrift(c)) <= stranded[c]
      BY <2>1 DEF VisitorInv
    <3> QED BY <3>1, <3>2
  <2>3. \A c \in Visitors : \A s \in 0 .. now : During(served[c], s, s + WindowSize - 1) <= MaxRequests
    BY <2>1 DEF VisitorInv
  <2> QED BY <2>2, <2>3 DEF WindowHolds
<1>2. WindowInv => WindowHolds
  BY <1>1
<1> QED BY <1>2, WindowInvHolds, PTL

-----------------------------------------------------------------------------
(* APIKeys: what is known of a key.                                        *)

(* A revoked key that can still be found is no longer active.              *)
RevokedInactive == \A k \in retired : k \in stored => ~active[k]

(* A key that was promised a grace period expires at its end.              *)
GraceKept ==
  \A k \in Keys : promised[k] # Never => k \in Made /\ expires[k] = promised[k]

(* A key without scopes is known only to the rotation that made it.        *)
UnscopedHidden ==
  \A k \in Made : scoped[k] \/ ~Known(k)

(* A rotation has an old key, then a new one, then one with its scopes.    *)
RotationsSound ==
  \A o \in Operators :
    /\ rotation[o].at # "idle" => rotation[o].old \in Made
    /\ rotation[o].at \notin {"copy", "retire"} => rotation[o].new = NoKey
    /\ rotation[o].at \in {"copy", "retire"} => rotation[o].new \in Made
    /\ rotation[o].at = "retire" => scoped[rotation[o].new]

(* A rotation that returned has retired its old key, or limited its life.  *)
HeirsSound ==
  \A h \in heirs :
    /\ h[1] \in Made /\ h[2] \in Made
    /\ scoped[h[2]]
    /\ h[1] \in retired \/ promised[h[1]] # Never

(* A validation under way, or one that let its key in.                     *)
InUse(v) == vpc[v] # "idle" \/ verdict[v] = "ok"

(* What a validation has checked stays true of the key it uses.            *)
ValidationSound(v) ==
  /\ verdict[v] = "ok" => vpc[v] = "idle"
  /\ InUse(v) =>
       /\ vkey[v] \in Made
       /\ scoped[vkey[v]]
       /\ started[v] <= now
       /\ doomed[v] => vpc[v] = "active" /\ vkey[v] \in retired /\ ~active[vkey[v]]
       /\ vpc[v] \notin {"active", "expiry"} /\ promised[vkey[v]] # Never
            => started[v] <= promised[vkey[v]]

KeysInv ==
  /\ KeysTypeOK
  /\ RevokedInactive
  /\ GraceKept
  /\ UnscopedHidden
  /\ RotationsSound
  /\ HeirsSound
  /\ \A v \in Validators : ValidationSound(v)

USE KeysAssumption, ClockAssumption

-----------------------------------------------------------------------------

LEMMA FreshIsNew ==
  ASSUME stored \subseteq Keys, retired \subseteq Keys, Made # Keys
  PROVE  Fresh \in Keys /\ Fresh \notin Made
  <1>1. \E k \in Keys : k \notin Made
    BY DEF Made
  <1> QED BY <1>1 DEF Fresh

-----------------------------------------------------------------------------
(* Types.                                                                  *)

LEMMA KeysTypeInit ==
  ASSUME now = 0, KeysInit
  PROVE  KeysTypeOK
  <1>1. PICK exp \in Lifetimes, n \in Limits, rs \in RoleSets :
          /\ expires = [k \in Keys |-> IF k \in FirstKeys THEN exp ELSE Never]
          /\ limit = [k \in Keys |-> IF k \in FirstKeys THEN n ELSE 0]
          /\ roles = [k \in Keys |-> IF k \in FirstKeys THEN rs ELSE {}]
    BY DEF KeysInit
  <1>2. /\ expires \in [Keys -> Int \cup {Never}]
        /\ limit \in [Keys -> Nat]
        /\ roles \in [Keys -> RoleSets \cup {{}}]
        /\ top \in [Keys -> Nat]
    BY <1>1 DEF KeysInit
  <1>3. NoMinute \in [count : Nat, reset : Int]
    BY DEF NoMinute
  <1>4. NoRotation \in RotationRecords
    BY DEF NoRotation, RotationRecords
  <1>5. /\ minute \in [Keys -> [count : Nat, reset : Int]]
        /\ rotation \in [Operators -> RotationRecords]
    BY <1>3, <1>4 DEF KeysInit
  <1>6. used \in [Keys -> [0 .. MaxTime + 1 -> Nat]]
    BY DEF KeysInit, NoneYet
  <1> QED BY <1>2, <1>5, <1>6 DEF KeysInit, KeysTypeOK

(* The values of the actions that change a few fields.                     *)
LEMMA CallTypes ==
  ASSUME KeysTypeOK, NEW v \in Validators, NEW from, NEW to, Step(v, from, to),
         to \in {"idle", "active", "expiry", "limit", "argument", "count", "touch"}
  PROVE  /\ vpc' \in [Validators -> {"idle", "active", "expiry", "limit", "argument", "count", "touch"}]
         /\ vkey' \in [Validators -> Keys \cup {NoKey}]
         /\ verdict' \in [Validators -> {"none", "ok", "refused"}]
         /\ doomed' \in [Validators -> BOOLEAN]
         /\ started' \in [Validators -> 0 .. MaxTime]
  <1>1. /\ vpc' = [vpc EXCEPT ![v] = to]
        /\ vkey' = vkey /\ verdict' = verdict /\ doomed' = doomed /\ started' = started
    BY DEF Step
  <1> QED BY <1>1 DEF KeysTypeOK

LEMMA RefuseTypes ==
  ASSUME KeysTypeOK, NEW v \in Validators, NEW from, Refuse(v, from)
  PROVE  /\ vpc' \in [Validators -> {"idle", "active", "expiry", "limit", "argument", "count", "touch"}]
         /\ vkey' \in [Validators -> Keys \cup {NoKey}]
         /\ vlimit' \in [Validators -> Nat]
         /\ verdict' \in [Validators -> {"none", "ok", "refused"}]
         /\ doomed' \in [Validators -> BOOLEAN]
         /\ started' \in [Validators -> 0 .. MaxTime]
  BY DEF Refuse, KeysTypeOK

LEMMA CountedTypes ==
  ASSUME KeysTypeOK, NEW k \in Keys, Counted(k)
  PROVE  used' \in [Keys -> [0 .. MaxTime + 1 -> Nat]]
  <1>1. CASE k \notin stored
    BY <1>1 DEF Counted, KeysTypeOK
  <1>2. CASE k \in stored
    <2>1. used[k] \in [0 .. MaxTime + 1 -> Nat]
      BY DEF KeysTypeOK
    <2>2. Noted(used[k]) \in [0 .. MaxTime + 1 -> Nat]
      BY <2>1 DEF Noted
    <2>3. used' = [used EXCEPT ![k] = Noted(used[k])]
      BY <1>2 DEF Counted
    <2> QED BY <2>2, <2>3 DEF KeysTypeOK
  <1> QED BY <1>1, <1>2

LEMMA ValidateTypes ==
  ASSUME KeysTypeOK, NEW v \in Validators, UNCHANGED now, ValidateAPIKey(v),
         InUse(v) => vkey[v] \in Keys
  PROVE  KeysTypeOK'
  <1> USE DEF keyRecord, history
  <1>0. UNCHANGED <<rotation, changes, history>> /\ UNCHANGED keyRecord
    BY DEF ValidateAPIKey, Validate, FindKey, KeyNotFound, CheckActive, CheckExpiry, CheckLimited,
           ReadLimit, OpenMinute, CountUse, LimitReached, Touch
  <1>1. ASSUME NEW k \in Keys, FindKey(v, k)
        PROVE  KeysTypeOK'
    <2>1. /\ vpc' = [vpc EXCEPT ![v] = "active"]
          /\ vkey' = [vkey EXCEPT ![v] = k]
          /\ verdict' = [verdict EXCEPT ![v] = "none"]
          /\ doomed' = [doomed EXCEPT ![v] = k \in retired]
          /\ started' = [started EXCEPT ![v] = now]
          /\ UNCHANGED <<vlimit, minute, used>>
      BY <1>1 DEF FindKey
    <2>2. now \in 0 .. MaxTime /\ (k \in retired) \in BOOLEAN
      BY DEF KeysTypeOK
    <2>3. /\ vpc' \in [Validators -> {"idle", "active", "expiry", "limit", "argument", "count", "touch"}]
          /\ vkey' \in [Validators -> Keys \cup {NoKey}]
          /\ verdict' \in [Validators -> {"none", "ok", "refused"}]
      BY <2>1 DEF KeysTypeOK
    <2>4. started' \in [Validators -> 0 .. MaxTime]
      BY <2>1, <2>2 DEF KeysTypeOK
    <2>5. doomed' \in [Validators -> BOOLEAN]
      BY <2>1, <2>2, Zenon DEF KeysTypeOK
    <2> QED BY <1>0, <2>1, <2>3, <2>4, <2>5 DEF KeysTypeOK
  <1>2. ASSUME NEW k \in Keys, KeyNotFound(v, k)
        PROVE  KeysTypeOK'
    <2>1. Refuse(v, "idle") /\ UNCHANGED <<minute, used>>
      BY <1>2 DEF KeyNotFound
    <2> QED BY <1>0, <2>1, RefuseTypes DEF KeysTypeOK
  <1>3. ASSUME CheckActive(v)
        PROVE  KeysTypeOK'
    <2>1. UNCHANGED <<minute, used>>
      BY <1>3 DEF CheckActive
    <2>2. CASE Step(v, "active", "expiry") /\ UNCHANGED vlimit
      BY <1>0, <2>1, <2>2, CallTypes DEF KeysTypeOK
    <2>3. CASE Refuse(v, "active")
      BY <1>0, <2>1, <2>3, RefuseTypes DEF KeysTypeOK
    <2> QED BY <1>3, <2>2, <2>3 DEF CheckActive
  <1>4. ASSUME CheckExpiry(v)
        PROVE  KeysTypeOK'
    <2>1. UNCHANGED <<minute, used>>
      BY <1>4 DEF CheckExpiry
    <2>2. CASE Step(v, "expiry", "limit") /\ UNCHANGED vlimit
      BY <1>0, <2>1, <2>2, CallTypes DEF KeysTypeOK
    <2>3. CASE Refuse(v, "expiry")
      BY <1>0, <2>1, <2>3, RefuseTypes DEF KeysTypeOK
    <2> QED BY <1>4, <2>2, <2>3 DEF CheckExpiry
  <1>5. ASSUME CheckLimited(v)
        PROVE  KeysTypeOK'
    <2>1. UNCHANGED <<vlimit, minute, used>>
      BY <1>5 DEF CheckLimited
    <2>2. PICK to \in {"argument", "touch"} : Step(v, "limit", to)
      BY <1>5 DEF CheckLimited
    <2> QED BY <1>0, <2>1, <2>2, CallTypes DEF KeysTypeOK
  <1>6. ASSUME ReadLimit(v)
        PROVE  KeysTypeOK'
    <2>1. /\ Step(v, "argument", "count") /\ UNCHANGED <<minute, used>>
          /\ vlimit' = [vlimit EXCEPT ![v] = limit[vkey[v]]]
      BY <1>6 DEF ReadLimit
    <2>2. vkey[v] \in Keys
      BY <2>1 DEF Step, InUse
    <2>3. vlimit' \in [Validators -> Nat]
      BY <2>1, <2>2 DEF KeysTypeOK
    <2> QED BY <1>0, <2>1, <2>3, CallTypes DEF KeysTypeOK
  <1>7. ASSUME OpenMinute(v) \/ CountUse(v)
        PROVE  KeysTypeOK'
    <2>1. Step(v, "count", "touch") /\ Counted(vkey[v]) /\ UNCHANGED vlimit
      BY <1>7 DEF OpenMinute, CountUse
    <2>2. PICK k \in Keys : k = vkey[v]
      BY <2>1 DEF Step, InUse
    <2>3. minute[k] \in [count : Nat, reset : Int] /\ now \in Int
      BY DEF KeysTypeOK
    <2>4. PICK m \in [count : Nat, reset : Int] : minute' = [minute EXCEPT ![k] = m]
      <3>1. CASE OpenMinute(v)
        <4>1. [count |-> 1, reset |-> now + Minute] \in [count : Nat, reset : Int]
          BY <2>3
        <4> QED BY <3>1, <4>1, <2>2 DEF OpenMinute
      <3>2. CASE CountUse(v)
        <4>1. [minute[k] EXCEPT !.count = @ + 1] \in [count : Nat, reset : Int]
          BY <2>3
        <4> QED BY <3>2, <4>1, <2>2 DEF CountUse
      <3> QED BY <3>1, <3>2, <1>7
    <2>5. minute' \in [Keys -> [count : Nat, reset : Int]]
      BY <2>4 DEF KeysTypeOK
    <2>6. used' \in [Keys -> [0 .. MaxTime + 1 -> Nat]]
      BY <2>1, <2>2, CountedTypes
    <2> QED BY <1>0, <2>1, <2>5, <2>6, CallTypes DEF KeysTypeOK
  <1>8. ASSUME LimitReached(v)
        PROVE  KeysTypeOK'
    <2>1. Refuse(v, "count") /\ UNCHANGED <<minute, used>>
      BY <1>8 DEF LimitReached
    <2> QED BY <1>0, <2>1, RefuseTypes DEF KeysTypeOK
  <1>9. ASSUME Touch(v)
        PROVE  KeysTypeOK'
    <2>1. /\ vpc' = [vpc EXCEPT ![v] = "idle"]
          /\ vlimit' = [vlimit EXCEPT ![v] = 0]
          /\ verdict' = [verdict EXCEPT ![v] = "ok"]
          /\ UNCHANGED <<vkey, doomed, started, minute, used>>
      BY <1>9 DEF Touch
    <2>2. /\ vpc' \in [Validators -> {"idle", "active", "expiry", "limit", "argument", "count", "touch"}]
          /\ vlimit' \in [Validators -> Nat]
          /\ verdict' \in [Validators -> {"none", "ok", "refused"}]
      BY <2>1 DEF KeysTypeOK
    <2> QED BY <1>0, <2>1, <2>2 DEF KeysTypeOK
  <1> QED BY <1>1, <1>2, <1>3, <1>4, <1>5, <1>6, <1>7, <1>8, <1>9 DEF ValidateAPIKey, Validate

(* What the generation of a key does to the fields.                        *)
LEMMA GenerateTypes ==
  ASSUME KeysTypeOK, NEW exp \in Int \cup {Never}, NEW n \in Nat,
         NEW rs \in RoleSets \cup {{}}, NEW done \in BOOLEAN,
         Generate(Fresh, exp, n, rs, done)
  PROVE  /\ Fresh \in Keys /\ Fresh \notin Made
         /\ stored' \subseteq Keys
         /\ active' \in [Keys -> BOOLEAN]
         /\ expires' \in [Keys -> Int \cup {Never}]
         /\ limit' \in [Keys -> Nat]
         /\ roles' \in [Keys -> RoleSets \cup {{}}]
         /\ scoped' \in [Keys -> BOOLEAN]
         /\ top' \in [Keys -> Nat]
  <1>1. Made # Keys
    BY DEF Generate
  <1>2. Fresh \in Keys /\ Fresh \notin Made
    BY <1>1, FreshIsNew DEF KeysTypeOK
  <1>3. PICK k \in Keys : k = Fresh
    BY <1>2
  <1>4. Generate(k, exp, n, rs, done)
    BY <1>3
  <1>5. /\ stored' \subseteq Keys
        /\ active' \in [Keys -> BOOLEAN]
        /\ expires' \in [Keys -> Int \cup {Never}]
        /\ limit' \in [Keys -> Nat]
        /\ roles' \in [Keys -> RoleSets \cup {{}}]
        /\ scoped' \in [Keys -> BOOLEAN]
        /\ top' \in [Keys -> Nat]
    BY <1>4 DEF Generate, KeysTypeOK
  <1> QED BY <1>2, <1>5

LEMMA RevokeTypes ==
  ASSUME KeysTypeOK, NEW k \in Keys, Revoke(k)
  PROVE  active' \in [Keys -> BOOLEAN] /\ retired' \subseteq Keys
  BY DEF Revoke, KeysTypeOK

LEMMA ManageTypes ==
  ASSUME KeysTypeOK, RotationsSound, UNCHANGED now, Manage
  PROVE  KeysTypeOK'
  <1> USE DEF keyRecord, calls, history, RotationRecords
  <1>1. ASSUME Change
        PROVE  changes' \in 0 .. MaxChanges
    BY <1>1 DEF Change, KeysTypeOK
  <1>2. ASSUME GenerateAPIKey
        PROVE  KeysTypeOK'
    <2>1. PICK exp \in Lifetimes, n \in Limits, rs \in RoleSets :
            Generate(Fresh, exp, n, rs, TRUE)
      BY <1>2 DEF GenerateAPIKey
    <2>2. /\ Change
          /\ UNCHANGED <<minute, calls, rotation, retired, promised, heirs, used>>
      BY <1>2 DEF GenerateAPIKey
    <2>3. /\ exp \in Int \cup {Never} /\ n \in Nat /\ rs \in RoleSets \cup {{}}
          /\ TRUE \in BOOLEAN
      OBVIOUS
    <2> QED BY <1>1, <2>1, <2>2, <2>3, GenerateTypes DEF KeysTypeOK
  <1>3. ASSUME NEW k \in Keys, RevokeAPIKey(k)
        PROVE  KeysTypeOK'
    BY <1>1, <1>3, RevokeTypes DEF RevokeAPIKey, KeysTypeOK
  <1>4. ASSUME NEW k \in Keys, DeleteAPIKey(k)
        PROVE  KeysTypeOK'
    <2>1. NoMinute \in [count : Nat, reset : Int]
      BY DEF NoMinute
    <2>2. minute' = [minute EXCEPT ![k] = NoMinute]
      BY <1>4 DEF DeleteAPIKey
    <2>3. minute' \in [Keys -> [count : Nat, reset : Int]]
      BY <2>1, <2>2 DEF KeysTypeOK
    <2> QED BY <1>1, <1>4, <2>3 DEF DeleteAPIKey, KeysTypeOK
  <1>5. ASSUME NEW k \in Keys, NEW rs \in RoleSets, UpdateAPIKeyRoles(k, rs)
        PROVE  KeysTypeOK'
    BY <1>1, <1>5 DEF UpdateAPIKeyRoles, KeysTypeOK
  <1>6. ASSUME NEW k \in Keys, NEW n \in Limits, UpdateAPIKeyRateLimit(k, n)
        PROVE  KeysTypeOK'
    BY <1>1, <1>6 DEF UpdateAPIKeyRateLimit, KeysTypeOK
  <1>7. ASSUME NEW o \in Operators,
               \/ \E k \in Keys : RotateFind(o, k)
               \/ RotateRead(o)
        PROVE  KeysTypeOK'
    <2>1. PICK r : r = rotation[o]
      OBVIOUS
    <2>2. r \in RotationRecords
      BY <2>1 DEF KeysTypeOK
    <2>3. ASSUME NEW k \in Keys, RotateFind(o, k)
          PROVE  KeysTypeOK'
      <3>1. PICK q : q = [r EXCEPT !.at = "expiry", !.old = k]
        OBVIOUS
      <3>2. rotation' = [rotation EXCEPT ![o] = q]
        BY <2>1, <2>3, <3>1 DEF RotateFind, KeysTypeOK
      <3>3. q \in RotationRecords
        BY <2>2, <3>1
      <3>4. Change /\ UNCHANGED <<keyRecord, minute, calls, history, used>>
        BY <2>3 DEF RotateFind
      <3> HIDE DEF RotationRecords
      <3> QED BY <1>1, <3>2, <3>3, <3>4 DEF KeysTypeOK
    <2>4. ASSUME RotateRead(o)
          PROVE  KeysTypeOK'
      <3>1. r.old \in Keys
        BY <2>1, <2>2, <2>4 DEF RotateRead, RotationsSound, Made, KeysTypeOK
      <3>2. PICK left, rs, n :
              /\ left = IF expires[r.old] = Never THEN Never ELSE expires[r.old] - now
              /\ rs = roles[r.old] /\ n = limit[r.old]
        OBVIOUS
      <3>3. /\ left \in Int \cup {Never} /\ rs \in RoleSets \cup {{}} /\ n \in Nat
        BY <3>1, <3>2 DEF KeysTypeOK
      <3>4. PICK q :
              /\ q \in {[r EXCEPT !.at = "roles", !.left = left],
                        [r EXCEPT !.at = "limit", !.roles = rs],
                        [r EXCEPT !.at = "publish", !.limit = n]}
              /\ rotation' = [rotation EXCEPT ![o] = q]
        BY <2>1, <2>4, <3>2 DEF RotateRead, KeysTypeOK
      <3>5. q \in RotationRecords
        BY <2>2, <3>3, <3>4
      <3> QED BY <2>4, <3>4, <3>5 DEF RotateRead, KeysTypeOK
    <2> QED BY <1>7, <2>3, <2>4
  <1>8. ASSUME NEW o \in Operators, RotatePublish(o)
        PROVE  KeysTypeOK'
    <2>1. PICK exp : exp = IF rotation[o].left = Never THEN Never ELSE now + rotation[o].left
      OBVIOUS
    <2>2. PICK r : r = rotation[o]
      OBVIOUS
    <2>3. PICK k : k = Fresh
      OBVIOUS
    <2>4. r \in RotationRecords
      BY <2>2 DEF KeysTypeOK
    <2>5. exp \in Int \cup {Never}
      BY <2>1, <2>2, <2>4 DEF KeysTypeOK
    <2>6. Generate(Fresh, exp, r.limit, r.roles, FALSE)
      BY <1>8, <2>1, <2>2 DEF RotatePublish
    <2>7. /\ rotation' = [rotation EXCEPT ![o] = [r EXCEPT !.at = "copy", !.new = k]]
          /\ UNCHANGED <<minute, calls, changes, retired, promised, heirs, used>>
      BY <1>8, <2>2, <2>3 DEF RotatePublish, KeysTypeOK
    <2>8. k \in Keys
      BY <2>3, <2>4, <2>5, <2>6, GenerateTypes
    <2>9. [r EXCEPT !.at = "copy", !.new = k]
            \in RotationRecords
      BY <2>4, <2>8
    <2> QED BY <2>4, <2>5, <2>6, <2>7, <2>9, GenerateTypes DEF KeysTypeOK
  <1>9. ASSUME NEW o \in Operators, RotateCopy(o)
        PROVE  KeysTypeOK'
    <2>1. rotation[o].new \in Keys
      BY <1>9 DEF RotateCopy, RotationsSound, Made, KeysTypeOK
    <2>2. scoped' = [scoped EXCEPT ![rotation[o].new] = TRUE]
      BY <1>9 DEF RotateCopy
    <2>3. scoped' \in [Keys -> BOOLEAN]
      BY <2>1, <2>2 DEF KeysTypeOK
    <2>4. PICK r : r = rotation[o]
      OBVIOUS
    <2>5. r \in RotationRecords
      BY <2>4 DEF KeysTypeOK
    <2>6. [r EXCEPT !.at = "retire"]
             \in RotationRecords
      BY <2>5
    <2>7. rotation' = [rotation EXCEPT ![o] = [r EXCEPT !.at = "retire"]]
      BY <1>9, <2>4 DEF RotateCopy, KeysTypeOK
    <2>8. rotation' \in [Operators -> RotationRecords]
      BY <2>6, <2>7 DEF KeysTypeOK
    <2> QED BY <1>9, <2>3, <2>8 DEF RotateCopy, KeysTypeOK
  <1>10. ASSUME NEW o \in Operators, NEW grace \in Graces, RotateRetire(o, grace)
         PROVE  KeysTypeOK'
    <2>1. PICK k, new : k = rotation[o].old /\ new = rotation[o].new
      OBVIOUS
    <2>2. k \in Keys /\ new \in Keys
      BY <1>10, <2>1 DEF RotateRetire, RotationsSound, Made, KeysTypeOK
    <2>3. /\ heirs' = heirs \cup {<<k, new>>}
          /\ rotation' = [rotation EXCEPT ![o] = NoRotation]
          /\ UNCHANGED <<stored, limit, roles, scoped, minute, calls, changes, top, used>>
      BY <1>10, <2>1 DEF RotateRetire
    <2>4. NoRotation \in RotationRecords
      BY DEF NoRotation
    <2>5. rotation' \in [Operators -> RotationRecords]
      BY <2>3, <2>4 DEF KeysTypeOK
    <2>6. heirs' \subseteq Keys \X Keys
      BY <2>2, <2>3 DEF KeysTypeOK
    <2>7. /\ active' \in [Keys -> BOOLEAN]
          /\ retired' \subseteq Keys
          /\ expires' \in [Keys -> Int \cup {Never}]
          /\ promised' \in [Keys -> Int \cup {Never}]
      <3>1. CASE grace > 0
        <4>1. /\ expires' = [expires EXCEPT ![k] = now + grace]
              /\ promised' = [promised EXCEPT ![k] = now + grace]
              /\ UNCHANGED <<active, retired>>
          BY <1>10, <2>1, <3>1 DEF RotateRetire
        <4> QED BY <2>2, <4>1 DEF KeysTypeOK
      <3>2. CASE ~(grace > 0)
        <4>1. Revoke(k) /\ UNCHANGED <<expires, promised>>
          BY <1>10, <2>1, <3>2 DEF RotateRetire
        <4> QED BY <2>2, <4>1, RevokeTypes DEF KeysTypeOK
      <3> QED BY <3>1, <3>2
    <2> QED BY <2>3, <2>5, <2>6, <2>7 DEF KeysTypeOK
  <1> QED BY <1>2, <1>3, <1>4, <1>5, <1>6, <1>7, <1>8, <1>9, <1>10 DEF Manage, RotateAPIKey

LEMMA KeysTypeStep ==
  ASSUME KeysInv, [KeysNext]_<<now, keyVars>>
  PROVE  KeysTypeOK'
  <1>1. CASE Manage /\ UNCHANGED now
    BY <1>1, ManageTypes DEF KeysInv
  <1>2. ASSUME NEW v \in Validators, ValidateAPIKey(v), UNCHANGED now
        PROVE  KeysTypeOK'
    BY <1>2, ValidateTypes DEF KeysInv, KeysTypeOK, ValidationSound, Made
  <1>3. CASE Tick /\ UNCHANGED keyVars
    <2>1. now' \in 0 .. MaxTime
      BY <1>3 DEF Tick, KeysInv, KeysTypeOK
    <2> QED BY <1>3, <2>1 DEF KeysInv, KeysTypeOK, keyVars, keyRecord, calls, history
  <1>4. CASE UNCHANGED <<now, keyVars>>
    BY <1>4 DEF KeysInv, KeysTypeOK, keyVars, keyRecord, calls, history
  <1> QED BY <1>1, <1>2, <1>3, <1>4 DEF KeysNext

-----------------------------------------------------------------------------
(* What an operator's step leaves true of a key that is made.              *)

KeyKept(k) ==
  /\ k \in Made'
  /\ scoped[k] => scoped'[k]
  /\ k \in retired => k \in retired'
  /\ ~active[k] => ~active'[k]
  /\ \/ promised' = promised
     \/ promised'[k] = promised[k]
     \/ promised'[k] \in Int /\ promised'[k] >= now

(* The keys after a step that generates no key and promises nothing.       *)
LEMMA GenerateKept ==
  ASSUME KeysTypeOK, NEW exp \in Int \cup {Never}, NEW n \in Nat,
         NEW rs \in RoleSets \cup {{}}, NEW done \in BOOLEAN,
         Generate(Fresh, exp, n, rs, done), UNCHANGED <<retired, promised>>,
         NEW k \in Made
  PROVE  /\ KeyKept(k)
         /\ k \in Keys /\ k # Fresh
         /\ active'[k] = active[k] /\ expires'[k] = expires[k] /\ scoped'[k] = scoped[k]
         /\ k \in stored' <=> k \in stored
  <1>0. Made # Keys
    BY DEF Generate
  <1>1. Fresh \in Keys /\ Fresh \notin Made
    BY <1>0, FreshIsNew DEF KeysTypeOK
  <1>2. PICK f \in Keys : f = Fresh
    BY <1>1
  <1>3. k \in Keys /\ k # f
    BY <1>1, <1>2 DEF KeysTypeOK, Made
  <1>4. Generate(f, exp, n, rs, done)
    BY <1>2
  <1>5. /\ active'[k] = active[k] /\ expires'[k] = expires[k] /\ scoped'[k] = scoped[k]
        /\ k \in stored' <=> k \in stored
    <2>1. expires'[k] = expires[k]
      BY <1>3, <1>4 DEF Generate, KeysTypeOK
    <2>2. active'[k] = active[k] /\ scoped'[k] = scoped[k]
      <3>1. active' = [active EXCEPT ![f] = TRUE] /\ scoped' = [scoped EXCEPT ![f] = done]
        BY <1>4 DEF Generate
      <3>2. k \in DOMAIN active /\ k \in DOMAIN scoped
        BY <1>3 DEF KeysTypeOK
      <3> QED BY <1>3, <3>1, <3>2, Zenon
    <2>3. k \in stored' <=> k \in stored
      BY <1>3, <1>4 DEF Generate
    <2> QED BY <2>1, <2>2, <2>3
  <1>6. KeyKept(k)
    BY <1>5 DEF KeyKept, Made
  <1> QED BY <1>2, <1>3, <1>5, <1>6

-----------------------------------------------------------------------------
(* The keys' invariants, over an operator's step.                          *)

LEMMA GenerateKeeps ==
  ASSUME KeysInv, GenerateAPIKey
  PROVE  /\ RevokedInactive' /\ GraceKept' /\ UnscopedHidden' /\ RotationsSound' /\ HeirsSound'
         /\ \A k \in Made : KeyKept(k)
  <1> USE DEF history
  <1>1. PICK exp \in Lifetimes, n \in Limits, rs \in RoleSets :
          Generate(Fresh, exp, n, rs, TRUE)
    BY DEF GenerateAPIKey
  <1>2. /\ exp \in Int \cup {Never} /\ n \in Nat /\ rs \in RoleSets \cup {{}}
        /\ TRUE \in BOOLEAN
    OBVIOUS
  <1>3. UNCHANGED <<rotation, retired, promised, heirs>>
    BY DEF GenerateAPIKey
  <1>4. KeysTypeOK
    BY DEF KeysInv
  <1>5. \A k \in Made :
          /\ KeyKept(k)
          /\ k \in Keys /\ k # Fresh
          /\ active'[k] = active[k] /\ expires'[k] = expires[k] /\ scoped'[k] = scoped[k]
          /\ k \in stored' <=> k \in stored
    BY <1>1, <1>2, <1>3, <1>4, GenerateKept
  <1>6. Fresh \in Keys /\ Fresh \notin Made
    BY <1>1, <1>2, <1>4, GenerateTypes
  <1>7. PICK f \in Keys : f = Fresh
    BY <1>6
  <1>8. Made' = Made \cup {f} /\ scoped'[f]
    BY <1>1, <1>3, <1>4, <1>7 DEF Generate, Made, KeysTypeOK
  <1>9. RevokedInactive'
    BY <1>3, <1>5 DEF RevokedInactive, KeysInv, Made
  <1>10. GraceKept'
    BY <1>3, <1>5, <1>8 DEF GraceKept, KeysInv
  <1>11. UnscopedHidden'
    BY <1>3, <1>5, <1>8 DEF UnscopedHidden, KeysInv, Known
  <1>12. RotationsSound'
    BY <1>3, <1>5, <1>8 DEF RotationsSound, KeysInv
  <1>13. HeirsSound'
    BY <1>3, <1>5, <1>8 DEF HeirsSound, KeysInv
  <1> QED BY <1>5, <1>9, <1>10, <1>11, <1>12, <1>13

LEMMA ChangesKeep ==
  ASSUME KeysInv, NEW k \in Keys,
         \/ RevokeAPIKey(k)
         \/ DeleteAPIKey(k)
         \/ \E rs \in RoleSets : UpdateAPIKeyRoles(k, rs)
         \/ \E n \in Limits : UpdateAPIKeyRateLimit(k, n)
  PROVE  /\ RevokedInactive' /\ GraceKept' /\ UnscopedHidden' /\ RotationsSound' /\ HeirsSound'
         /\ \A j \in Made : KeyKept(j)
  <1>1. UNCHANGED <<expires, scoped, rotation, promised, heirs>>
    BY DEF RevokeAPIKey, DeleteAPIKey, UpdateAPIKeyRoles, UpdateAPIKeyRateLimit, history, keyRecord
  <1>2. Made' = Made
    BY DEF RevokeAPIKey, DeleteAPIKey, UpdateAPIKeyRoles, UpdateAPIKeyRateLimit, history, Made, Revoke
  <1>3. /\ retired \subseteq retired' /\ stored' \subseteq stored
        /\ \A j \in Keys : ~active[j] => ~active'[j]
        /\ \A j \in retired' \ retired : j \notin stored' \/ ~active'[j]
    BY DEF RevokeAPIKey, DeleteAPIKey, UpdateAPIKeyRoles, UpdateAPIKeyRateLimit, history, Revoke,
           KeysInv, KeysTypeOK
  <1>4. retired \subseteq Keys /\ Made \subseteq Keys
    BY DEF KeysInv, KeysTypeOK, Made
  <1>5. RevokedInactive'
    BY <1>3, <1>4 DEF RevokedInactive, KeysInv
  <1>6. GraceKept'
    BY <1>1, <1>2 DEF GraceKept, KeysInv
  <1>7. UnscopedHidden'
    BY <1>1, <1>2 DEF UnscopedHidden, KeysInv, Known
  <1>8. RotationsSound'
    BY <1>1, <1>2 DEF RotationsSound, KeysInv
  <1>9. HeirsSound'
    BY <1>1, <1>2, <1>3 DEF HeirsSound, KeysInv
  <1>10. \A j \in Made : KeyKept(j)
    BY <1>1, <1>2, <1>3, <1>4 DEF KeyKept
  <1> QED BY <1>5, <1>6, <1>7, <1>8, <1>9, <1>10

(* The steps of a rotation that neither make nor retire a key.             *)
LEMMA ReadKeeps ==
  ASSUME KeysInv, NEW o \in Operators, (\E k \in Keys : RotateFind(o, k)) \/ RotateRead(o)
  PROVE  /\ RevokedInactive' /\ GraceKept' /\ UnscopedHidden' /\ RotationsSound' /\ HeirsSound'
         /\ \A j \in Made : KeyKept(j)
  <1>1. PICK r : r = rotation[o]
    OBVIOUS
  <1>2. PICK q :
          /\ rotation' = [rotation EXCEPT ![o] = q]
          /\ q.at \in {"expiry", "roles", "limit", "publish"} /\ q.old \in Made /\ q.new = r.new
          /\ r.at \notin {"copy", "retire"}
    <2>1. ASSUME NEW k \in Keys, RotateFind(o, k)
          PROVE  \E q :
                   /\ rotation' = [rotation EXCEPT ![o] = q]
                   /\ q.at = "expiry" /\ q.old \in Made /\ q.new = r.new
                   /\ r.at \notin {"copy", "retire"}
      <3>1. PICK q : q = [r EXCEPT !.at = "expiry", !.old = k]
        OBVIOUS
      <3>2. rotation' = [rotation EXCEPT ![o] = q] /\ k \in stored /\ r.at = "idle"
        BY <1>1, <2>1, <3>1 DEF RotateFind, KeysInv, KeysTypeOK
      <3>3. q.at = "expiry" /\ q.old = k /\ q.new = r.new
        BY <1>1, <3>1 DEF KeysInv, KeysTypeOK, RotationRecords
      <3> QED BY <3>2, <3>3 DEF Made
    <2>2. ASSUME RotateRead(o)
          PROVE  \E q :
                   /\ rotation' = [rotation EXCEPT ![o] = q]
                   /\ q.at \in {"roles", "limit", "publish"} /\ q.old \in Made /\ q.new = r.new
                   /\ r.at \notin {"copy", "retire"}
      <3>1. PICK left, rs, n :
              /\ left = IF expires[r.old] = Never THEN Never ELSE expires[r.old] - now
              /\ rs = roles[r.old] /\ n = limit[r.old]
        OBVIOUS
      <3>2. PICK q :
              /\ q \in {[r EXCEPT !.at = "roles", !.left = left],
                        [r EXCEPT !.at = "limit", !.roles = rs],
                        [r EXCEPT !.at = "publish", !.limit = n]}
              /\ rotation' = [rotation EXCEPT ![o] = q]
              /\ r.at \in {"expiry", "roles", "limit"}
        BY <1>1, <2>2, <3>1 DEF RotateRead, KeysInv, KeysTypeOK
      <3>3. q.at \in {"roles", "limit", "publish"} /\ q.old = r.old /\ q.new = r.new
        BY <1>1, <3>2 DEF KeysInv, KeysTypeOK, RotationRecords
      <3>4. r.old \in Made
        BY <1>1, <3>2 DEF KeysInv, RotationsSound
      <3> QED BY <3>2, <3>3, <3>4
    <2> QED BY <2>1, <2>2
  <1>3. UNCHANGED <<stored, active, expires, scoped, retired, promised, heirs>>
    BY DEF RotateFind, RotateRead, keyRecord, history
  <1>4. r.new = NoKey
    BY <1>1, <1>2 DEF KeysInv, RotationsSound
  <1>5. \A p \in Operators : rotation'[p].new = rotation[p].new
    BY <1>1, <1>2, <1>4 DEF KeysInv, KeysTypeOK
  <1>6. UnscopedHidden'
    BY <1>3, <1>5 DEF UnscopedHidden, KeysInv, Known, Made
  <1>7. RotationsSound'
    BY <1>2, <1>3, <1>4 DEF RotationsSound, KeysInv, KeysTypeOK, Made
  <1>8. RevokedInactive' /\ GraceKept' /\ HeirsSound'
    BY <1>3 DEF RevokedInactive, GraceKept, HeirsSound, KeysInv, Made
  <1>9. \A j \in Made : KeyKept(j)
    BY <1>3 DEF KeyKept, Made
  <1> QED BY <1>6, <1>7, <1>8, <1>9

LEMMA CopyKeeps ==
  ASSUME KeysInv, NEW o \in Operators, RotateCopy(o)
  PROVE  /\ RevokedInactive' /\ GraceKept' /\ UnscopedHidden' /\ RotationsSound' /\ HeirsSound'
         /\ \A j \in Made : KeyKept(j)
  <1>1. PICK r : r = rotation[o]
    OBVIOUS
  <1>2. /\ r.at = "copy" /\ r.new \in Made /\ r.old \in Made /\ r.new \in Keys
    BY <1>1 DEF RotateCopy, KeysInv, RotationsSound, KeysTypeOK, Made
  <1>3. PICK q : q = [r EXCEPT !.at = "retire"]
    OBVIOUS
  <1>4. /\ rotation' = [rotation EXCEPT ![o] = q]
        /\ scoped' = [scoped EXCEPT ![r.new] = TRUE]
        /\ UNCHANGED <<stored, active, expires, retired, promised, heirs>>
    BY <1>1, <1>3 DEF RotateCopy, history, KeysInv, KeysTypeOK
  <1>5. q.at = "retire" /\ q.old = r.old /\ q.new = r.new
    BY <1>1, <1>3 DEF KeysInv, KeysTypeOK
  <1>6. scoped'[r.new] /\ \A j \in Keys : scoped[j] => scoped'[j]
    BY <1>2, <1>4 DEF KeysInv, KeysTypeOK
  <1>7. Made' = Made /\ Made \subseteq Keys
    BY <1>4 DEF Made, KeysInv, KeysTypeOK
  <1>8. \A p \in Operators : rotation'[p].new = rotation[p].new
    BY <1>1, <1>4, <1>5 DEF KeysInv, KeysTypeOK
  <1>9. UnscopedHidden'
    BY <1>6, <1>7, <1>8 DEF UnscopedHidden, KeysInv, Known
  <1>10. RotationsSound'
    BY <1>2, <1>4, <1>5, <1>6, <1>7 DEF RotationsSound, KeysInv, KeysTypeOK
  <1>11. RevokedInactive' /\ GraceKept'
    BY <1>4, <1>7 DEF RevokedInactive, GraceKept, KeysInv
  <1>12. HeirsSound'
    BY <1>4, <1>6, <1>7 DEF HeirsSound, KeysInv
  <1>13. \A j \in Made : KeyKept(j)
    BY <1>4, <1>6, <1>7 DEF KeyKept
  <1> QED BY <1>9, <1>10, <1>11, <1>12, <1>13

(* The step of a rotation that publishes its new key.                      *)
LEMMA PublishKeeps ==
  ASSUME KeysInv, NEW o \in Operators, RotatePublish(o)
  PROVE  /\ RevokedInactive' /\ GraceKept' /\ UnscopedHidden' /\ RotationsSound' /\ HeirsSound'
         /\ \A j \in Made : KeyKept(j)
  <1>0. KeysTypeOK
    BY DEF KeysInv
  <1>1. PICK r : r = rotation[o]
    OBVIOUS
  <1>2. r \in RotationRecords
    BY <1>0, <1>1 DEF KeysTypeOK
  <1>3. PICK exp : exp = IF r.left = Never THEN Never ELSE now + r.left
    OBVIOUS
  <1>4. /\ exp \in Int \cup {Never} /\ r.limit \in Nat /\ r.roles \in RoleSets \cup {{}}
        /\ FALSE \in BOOLEAN
    BY <1>0, <1>2, <1>3 DEF KeysTypeOK, RotationRecords
  <1>5. Generate(Fresh, exp, r.limit, r.roles, FALSE)
    BY <1>1, <1>3 DEF RotatePublish
  <1>6. UNCHANGED <<retired, promised, heirs>>
    BY DEF RotatePublish
  <1>7. Made # Keys
    BY <1>5 DEF Generate
  <1>8. PICK f \in Keys : f = Fresh /\ f \notin Made
    BY <1>0, <1>7, FreshIsNew DEF KeysTypeOK
  <1>9. \A j \in Made :
          /\ KeyKept(j)
          /\ j \in Keys /\ j # Fresh
          /\ active'[j] = active[j] /\ expires'[j] = expires[j] /\ scoped'[j] = scoped[j]
          /\ j \in stored' <=> j \in stored
    BY <1>0, <1>2, <1>4, <1>5, <1>6, GenerateKept
  <1>10. Made' = Made \cup {f}
    BY <1>5, <1>6, <1>8 DEF Generate, Made
  <1>11. PICK q : q = [r EXCEPT !.at = "copy", !.new = f]
    OBVIOUS
  <1>12. q.at = "copy" /\ q.old = r.old /\ q.new = f
    BY <1>2, <1>11 DEF RotationRecords
  <1>13. rotation' = [rotation EXCEPT ![o] = q]
    BY <1>0, <1>1, <1>8, <1>11 DEF RotatePublish, KeysTypeOK
  <1>14. r.at = "publish" /\ r.new = NoKey /\ r.old \in Made
    BY <1>1 DEF RotatePublish, KeysInv, RotationsSound
  <1>15. rotation'[o].new = f
    BY <1>0, <1>12, <1>13 DEF KeysTypeOK
  <1>16. \A p \in Operators : rotation[p].new \in Keys => rotation'[p].new = rotation[p].new
    BY <1>0, <1>1, <1>13, <1>14 DEF KeysTypeOK
  <1>17. UnscopedHidden'
    <2>1. ASSUME NEW j \in Made
          PROVE  scoped'[j] \/ \E p \in Operators : rotation'[p].new = j
      BY <1>9, <1>16, <2>1 DEF KeysInv, UnscopedHidden, Known
    <2> QED BY <2>1, <1>10, <1>15 DEF UnscopedHidden, Known
  <1>18. RotationsSound'
    <2>1. ASSUME NEW p \in Operators, p # o
          PROVE  rotation'[p] = rotation[p]
      BY <2>1, <1>0, <1>13 DEF KeysTypeOK
    <2>2. rotation'[o] = q
      BY <1>0, <1>13 DEF KeysTypeOK
    <2> QED BY <2>1, <2>2, <1>9, <1>10, <1>12, <1>14 DEF RotationsSound, KeysInv
  <1>19. RevokedInactive'
    BY <1>6, <1>9 DEF RevokedInactive, KeysInv, Made
  <1>20. GraceKept'
    BY <1>6, <1>9, <1>10 DEF GraceKept, KeysInv
  <1>21. HeirsSound'
    BY <1>6, <1>9, <1>10 DEF HeirsSound, KeysInv
  <1> QED BY <1>9, <1>17, <1>18, <1>19, <1>20, <1>21

(* The last step of a rotation.                                            *)
LEMMA RetireKeeps ==
  ASSUME KeysInv, NEW o \in Operators, NEW grace \in Graces, RotateRetire(o, grace)
  PROVE  /\ RevokedInactive' /\ GraceKept' /\ UnscopedHidden' /\ RotationsSound' /\ HeirsSound'
         /\ \A j \in Made : KeyKept(j)
  <1>0. KeysTypeOK
    BY DEF KeysInv
  <1>1. PICK k \in Made, new \in Made : k = rotation[o].old /\ new = rotation[o].new
    BY DEF RotateRetire, KeysInv, RotationsSound
  <1>2. k \in Keys /\ new \in Keys /\ Made \subseteq Keys /\ scoped[new]
    BY <1>0, <1>1 DEF Made, KeysTypeOK, RotateRetire, KeysInv, RotationsSound
  <1>3. /\ heirs' = heirs \cup {<<k, new>>}
        /\ rotation' = [rotation EXCEPT ![o] = NoRotation]
        /\ UNCHANGED <<stored, scoped>>
    BY <1>1 DEF RotateRetire
  <1>4. /\ Made' = Made /\ retired \subseteq retired'
        /\ \A j \in Keys : ~active[j] => ~active'[j]
        /\ \A j \in retired' \ retired : j \in stored => ~active'[j]
        /\ GraceKept'
        /\ \A j \in Keys : promised[j] # Never => promised'[j] # Never
        /\ \A j \in Keys : \/ promised'[j] = promised[j]
                           \/ promised'[j] \in Int /\ promised'[j] >= now
        /\ k \in retired' \/ promised'[k] # Never
    <2>1. CASE grace > 0
      <3>1. /\ expires' = [expires EXCEPT ![k] = now + grace]
            /\ promised' = [promised EXCEPT ![k] = now + grace]
            /\ UNCHANGED <<active, retired>>
        BY <1>1, <2>1 DEF RotateRetire
      <3>2. now + grace \in Int /\ now + grace >= now
        BY <1>0, <2>1 DEF KeysTypeOK
      <3>3. now + grace # Never
        BY <3>2
      <3>4. /\ promised'[k] = now + grace /\ expires'[k] = now + grace
            /\ \A j \in Keys : j # k => promised'[j] = promised[j] /\ expires'[j] = expires[j]
        BY <1>0, <1>2, <3>1 DEF KeysTypeOK
      <3>5. Made' = Made
        BY <1>3, <3>1 DEF Made
      <3>6. GraceKept'
        BY <1>1, <3>4, <3>5 DEF GraceKept, KeysInv
      <3>7. \A j \in Keys : promised[j] # Never => promised'[j] # Never
        BY <3>3, <3>4
      <3>8. \A j \in Keys : \/ promised'[j] = promised[j]
                            \/ promised'[j] \in Int /\ promised'[j] >= now
        BY <3>2, <3>4
      <3>9. promised'[k] # Never
        BY <3>3, <3>4
      <3> QED BY ONLY <3>1, <3>5, <3>6, <3>7, <3>8, <3>9
    <2>2. CASE ~(grace > 0)
      <3>1. Revoke(k) /\ UNCHANGED <<expires, promised>>
        BY <1>1, <2>2 DEF RotateRetire
      <3>2. Made' = Made /\ retired \subseteq retired' /\ k \in retired'
        BY <1>1, <1>3, <3>1 DEF Revoke, Made
      <3>3. GraceKept'
        BY <3>1, <3>2 DEF GraceKept, KeysInv
      <3>4. \A j \in Keys : ~active[j] => ~active'[j]
        BY <1>0, <1>2, <3>1 DEF Revoke, KeysTypeOK
      <3>5. \A j \in retired' \ retired : j \in stored => ~active'[j]
        BY <1>0, <1>2, <3>1 DEF Revoke, KeysTypeOK
      <3>6. promised' = promised
        BY <3>1
      <3>7. \A j \in Keys : promised[j] # Never => promised'[j] # Never
        BY <3>6
      <3>8. \A j \in Keys : \/ promised'[j] = promised[j]
                            \/ promised'[j] \in Int /\ promised'[j] >= now
        BY <3>6
      <3> QED BY ONLY <3>2, <3>3, <3>4, <3>5, <3>7, <3>8
    <2> QED BY <2>1, <2>2
  <1>5. RevokedInactive'
    <2>1. ASSUME NEW j \in retired', j \in stored'
          PROVE  ~active'[j]
      <3>1. j \in Keys
        BY <1>2, <1>3, <2>1 DEF Made
      <3> QED BY <1>3, <1>4, <2>1, <3>1 DEF RevokedInactive, KeysInv
    <2> QED BY <2>1 DEF RevokedInactive
  <1>6. UnscopedHidden'
    <2>1. ASSUME NEW j \in Made, ~scoped[j]
          PROVE  \E p \in Operators : rotation'[p].new = j
      <3>1. PICK p \in Operators : rotation[p].new = j
        BY <2>1 DEF KeysInv, UnscopedHidden, Known
      <3>2. p # o
        BY <1>1, <1>2, <2>1, <3>1
      <3>3. rotation'[p] = rotation[p]
        BY <1>0, <1>3, <3>2 DEF KeysTypeOK
      <3> QED BY <3>1, <3>3
    <2> QED BY <1>3, <1>4, <2>1 DEF UnscopedHidden, Known
  <1>7. RotationsSound'
    <2>1. rotation'[o].at = "idle" /\ rotation'[o].new = NoKey
      BY <1>0, <1>3 DEF KeysTypeOK, NoRotation
    <2>2. \A p \in Operators : p # o => rotation'[p] = rotation[p]
      BY <1>0, <1>3 DEF KeysTypeOK
    <2> QED BY <1>3, <1>4, <2>1, <2>2 DEF RotationsSound, KeysInv
  <1>8. HeirsSound'
    <2>1. ASSUME NEW h \in heirs
          PROVE  /\ h[1] \in Made' /\ h[2] \in Made' /\ scoped'[h[2]]
                 /\ h[1] \in retired' \/ promised'[h[1]] # Never
      BY <1>2, <1>3, <1>4 DEF HeirsSound, KeysInv
    <2> QED BY <1>1, <1>2, <1>3, <1>4, <2>1 DEF HeirsSound
  <1>9. \A j \in Made : KeyKept(j)
    BY <1>2, <1>3, <1>4 DEF KeyKept
  <1> QED BY <1>4, <1>5, <1>6, <1>7, <1>8, <1>9

-----------------------------------------------------------------------------
(* The validations.                                                        *)

(* A validation that is not taking a step: its key stays what it was.      *)
LEMMA ValidationKept ==
  ASSUME KeysInv, UNCHANGED <<calls, now>>, \A k \in Made : KeyKept(k),
         NEW v \in Validators
  PROVE  ValidationSound(v)'
  <1>0. ValidationSound(v) /\ KeysTypeOK
    BY DEF KeysInv
  <1>1. /\ vpc'[v] = vpc[v] /\ vkey'[v] = vkey[v] /\ verdict'[v] = verdict[v]
        /\ doomed'[v] = doomed[v] /\ started'[v] = started[v] /\ now' = now
    BY DEF calls
  <1>2. CASE ~InUse(v)
    BY <1>0, <1>1, <1>2 DEF ValidationSound, InUse
  <1>3. CASE InUse(v)
    <2>1. PICK k \in Made : k = vkey[v]
      BY <1>0, <1>3 DEF ValidationSound
    <2>2. KeyKept(k)
      BY <2>1
    <2>3. /\ scoped[k] /\ started[v] <= now
          /\ doomed[v] => vpc[v] = "active" /\ k \in retired /\ ~active[k]
          /\ vpc[v] \notin {"active", "expiry"} /\ promised[k] # Never
               => started[v] <= promised[k]
      BY <1>0, <1>3, <2>1 DEF ValidationSound
    <2>4. started[v] \in Int /\ now \in Int
      BY <1>0 DEF KeysTypeOK
    <2>5. vpc[v] \notin {"active", "expiry"} /\ promised'[k] # Never
            => started[v] <= promised'[k]
      <3>1. CASE promised'[k] = promised[k]
        BY <2>3, <3>1
      <3>2. CASE promised'[k] \in Int /\ promised'[k] >= now
        BY <2>3, <2>4, <3>2
      <3> QED BY <2>2, <3>1, <3>2 DEF KeyKept
    <2> QED BY <1>0, <1>1, <2>1, <2>2, <2>3, <2>5 DEF ValidationSound, InUse, KeyKept
  <1> QED BY <1>2, <1>3

(* A step of a validation changes no key and no other validation.          *)
LEMMA ValidateFrame ==
  ASSUME NEW v \in Validators, ValidateAPIKey(v)
  PROVE  UNCHANGED <<stored, active, expires, limit, roles, scoped, rotation, retired,
                     promised, heirs>>
  BY DEF ValidateAPIKey, Validate, FindKey, KeyNotFound, CheckActive, CheckExpiry, CheckLimited,
         ReadLimit, OpenMinute, CountUse, LimitReached, Touch, keyRecord, history

(* A refused validation has nothing to answer for.                         *)
LEMMA RefusedSound ==
  ASSUME KeysTypeOK, NEW v \in Validators, NEW from, Refuse(v, from)
  PROVE  ValidationSound(v)'
  <1>1. vpc'[v] = "idle" /\ verdict'[v] = "refused"
    BY DEF Refuse, KeysTypeOK
  <1> QED BY <1>1 DEF ValidationSound, InUse

(* A validation that moves on keeps its key, and what it passed.           *)
LEMMA StepSound ==
  ASSUME KeysInv, NEW v \in Validators, NEW from, NEW to, Step(v, from, to), UNCHANGED now,
         UNCHANGED <<stored, active, scoped, retired, promised>>,
         from # "idle", to # "idle", to # "active",
         from = "active" => active[vkey[v]],
         from = "expiry" => ~Expired(vkey[v]),
         to = "expiry" <=> from = "active"
  PROVE  ValidationSound(v)'
  <1>1. /\ vpc[v] = from /\ vpc'[v] = to /\ vkey'[v] = vkey[v] /\ verdict'[v] = verdict[v]
        /\ doomed'[v] = doomed[v] /\ started'[v] = started[v]
    BY DEF Step, KeysInv, KeysTypeOK
  <1>2. ValidationSound(v) /\ InUse(v)
    BY <1>1 DEF KeysInv, InUse
  <1>3. PICK k \in Made : k = vkey[v]
    BY <1>2 DEF ValidationSound
  <1>4. /\ scoped[k] /\ started[v] <= now /\ verdict[v] # "ok"
        /\ doomed[v] => vpc[v] = "active" /\ k \in retired /\ ~active[k]
        /\ vpc[v] \notin {"active", "expiry"} /\ promised[k] # Never
             => started[v] <= promised[k]
    BY <1>1, <1>2, <1>3 DEF ValidationSound
  <1>5. ~doomed[v]
    BY <1>1, <1>3, <1>4
  <1>6. to # "expiry" /\ promised[k] # Never => started[v] <= promised[k]
    <2>1. CASE from = "expiry" /\ promised[k] # Never
      <3>1. expires[k] = promised[k] /\ k \in Keys
        BY <2>1, <1>3 DEF KeysInv, GraceKept, KeysTypeOK, Made
      <3>2. promised[k] \in Int /\ started[v] \in Int /\ now \in Int
        BY <2>1, <3>1 DEF KeysInv, KeysTypeOK
      <3>3. ~(now > promised[k])
        BY <1>3, <2>1, <3>1 DEF Expired
      <3> QED BY <1>4, <3>2, <3>3
    <2>2. CASE from # "expiry" /\ from # "active"
      BY <1>1, <1>4, <2>2
    <2> QED BY <2>1, <2>2
  <1>7. k \in Made'
    BY <1>3 DEF Made
  <1>8. started'[v] <= now'
    BY <1>1, <1>4
  <1> QED BY <1>1, <1>3, <1>4, <1>5, <1>6, <1>7, <1>8 DEF ValidationSound, InUse

LEMMA ValidateSound ==
  ASSUME KeysInv, UNCHANGED now, NEW v \in Validators, ValidateAPIKey(v)
  PROVE  ValidationSound(v)'
  <1>0. /\ KeysTypeOK
        /\ UNCHANGED <<stored, active, expires, scoped, retired, promised>>
    BY ValidateFrame DEF KeysInv
  <1>1. ASSUME NEW k \in Keys, FindKey(v, k)
        PROVE  ValidationSound(v)'
    <2>1. /\ vpc'[v] = "active" /\ vkey'[v] = k /\ verdict'[v] = "none"
          /\ doomed'[v] = (k \in retired) /\ started'[v] = now
      BY <1>0, <1>1 DEF FindKey, KeysTypeOK
    <2>2. k \in Made /\ Known(k) /\ k \in stored
      BY <1>1 DEF FindKey, Made
    <2>3. scoped[k]
      BY <2>2 DEF KeysInv, UnscopedHidden
    <2>4. k \in retired => ~active[k]
      BY <2>2 DEF KeysInv, RevokedInactive
    <2>5. started'[v] <= now'
      BY <1>0, <2>1 DEF KeysTypeOK
    <2>6. k \in Made'
      BY <1>0, <2>2 DEF Made
    <2> QED BY <1>0, <2>1, <2>3, <2>4, <2>5, <2>6 DEF ValidationSound, InUse
  <1>2. ASSUME NEW k \in Keys, KeyNotFound(v, k)
        PROVE  ValidationSound(v)'
    BY <1>0, <1>2, RefusedSound DEF KeyNotFound
  <1>3. ASSUME CheckActive(v)
        PROVE  ValidationSound(v)'
    <2>1. CASE Step(v, "active", "expiry") /\ active[vkey[v]]
      BY <1>0, <2>1, StepSound
    <2>2. CASE Refuse(v, "active")
      BY <1>0, <2>2, RefusedSound
    <2> QED BY <1>3, <2>1, <2>2 DEF CheckActive
  <1>4. ASSUME CheckExpiry(v)
        PROVE  ValidationSound(v)'
    <2>1. CASE Step(v, "expiry", "limit") /\ ~Expired(vkey[v])
      BY <1>0, <2>1, StepSound
    <2>2. CASE Refuse(v, "expiry")
      BY <1>0, <2>2, RefusedSound
    <2> QED BY <1>4, <2>1, <2>2 DEF CheckExpiry
  <1>5. ASSUME CheckLimited(v)
        PROVE  ValidationSound(v)'
    <2>1. PICK to \in {"argument", "touch"} : Step(v, "limit", to)
      BY <1>5 DEF CheckLimited
    <2> QED BY <1>0, <2>1, StepSound
  <1>6. ASSUME ReadLimit(v)
        PROVE  ValidationSound(v)'
    <2>1. Step(v, "argument", "count")
      BY <1>6 DEF ReadLimit
    <2> QED BY <1>0, <2>1, StepSound
  <1>7. ASSUME OpenMinute(v) \/ CountUse(v)
        PROVE  ValidationSound(v)'
    <2>1. Step(v, "count", "touch")
      BY <1>7 DEF OpenMinute, CountUse
    <2> QED BY <1>0, <2>1, StepSound
  <1>8. ASSUME LimitReached(v)
        PROVE  ValidationSound(v)'
    BY <1>0, <1>8, RefusedSound DEF LimitReached
  <1>9. ASSUME Touch(v)
        PROVE  ValidationSound(v)'
    <2>1. /\ vpc[v] = "touch" /\ vpc'[v] = "idle" /\ vkey'[v] = vkey[v] /\ verdict'[v] = "ok"
          /\ doomed'[v] = doomed[v] /\ started'[v] = started[v]
      BY <1>0, <1>9 DEF Touch, KeysTypeOK
    <2>2. ValidationSound(v) /\ InUse(v)
      BY <2>1 DEF KeysInv, InUse
    <2>3. Made' = Made
      BY <1>0 DEF Made
    <2> QED BY <1>0, <2>1, <2>2, <2>3 DEF ValidationSound, InUse
  <1> QED BY <1>1, <1>2, <1>3, <1>4, <1>5, <1>6, <1>7, <1>8, <1>9 DEF ValidateAPIKey, Validate

(* The other validations do not move.                                      *)
LEMMA OthersSound ==
  ASSUME KeysInv, UNCHANGED now, NEW v \in Validators, ValidateAPIKey(v),
         NEW w \in Validators, w # v
  PROVE  ValidationSound(w)'
  <1>0. /\ KeysTypeOK /\ ValidationSound(w)
        /\ UNCHANGED <<stored, active, expires, scoped, retired, promised>>
    BY ValidateFrame DEF KeysInv
  <1>1. /\ vpc'[w] = vpc[w] /\ vkey'[w] = vkey[w] /\ verdict'[w] = verdict[w]
        /\ doomed'[w] = doomed[w] /\ started'[w] = started[w]
    BY <1>0 DEF ValidateAPIKey, Validate, FindKey, KeyNotFound, CheckActive, CheckExpiry,
           CheckLimited, ReadLimit, OpenMinute, CountUse, LimitReached, Touch, Step, Refuse,
           KeysTypeOK
  <1>2. Made' = Made
    BY <1>0 DEF Made
  <1> QED BY <1>0, <1>1, <1>2 DEF ValidationSound, InUse

-----------------------------------------------------------------------------
(* The invariant, and what it is for.                                      *)

LEMMA KeysInvInit ==
  ASSUME now = 0, KeysInit
  PROVE  KeysInv
  <1>1. KeysTypeOK
    BY KeysTypeInit
  <1>2. Made = FirstKeys
    BY DEF KeysInit, Made
  <1>3. RevokedInactive /\ GraceKept /\ HeirsSound
    BY DEF KeysInit, RevokedInactive, GraceKept, HeirsSound
  <1>4. UnscopedHidden
    BY <1>2 DEF UnscopedHidden, KeysInit
  <1>5. RotationsSound
    BY DEF RotationsSound, KeysInit, NoRotation
  <1>6. \A v \in Validators : ValidationSound(v)
    BY DEF ValidationSound, InUse, KeysInit
  <1> QED BY <1>1, <1>3, <1>4, <1>5, <1>6 DEF KeysInv

LEMMA ManageKeeps ==
  ASSUME KeysInv, Manage
  PROVE  /\ RevokedInactive' /\ GraceKept' /\ UnscopedHidden' /\ RotationsSound' /\ HeirsSound'
         /\ \A j \in Made : KeyKept(j)
         /\ UNCHANGED calls
  <1>1. UNCHANGED calls
    BY DEF Manage, GenerateAPIKey, RevokeAPIKey, DeleteAPIKey, UpdateAPIKeyRoles,
           UpdateAPIKeyRateLimit, RotateAPIKey, RotateFind, RotateRead, RotatePublish, RotateCopy,
           RotateRetire
  <1>2. CASE GenerateAPIKey
    BY <1>1, <1>2, GenerateKeeps
  <1>3. ASSUME NEW k \in Keys,
               \/ RevokeAPIKey(k)
               \/ DeleteAPIKey(k)
               \/ \E rs \in RoleSets : UpdateAPIKeyRoles(k, rs)
               \/ \E n \in Limits : UpdateAPIKeyRateLimit(k, n)
        PROVE  /\ RevokedInactive' /\ GraceKept' /\ UnscopedHidden' /\ RotationsSound' /\ HeirsSound'
               /\ \A j \in Made : KeyKept(j)
    BY <1>3, ChangesKeep
  <1>4. ASSUME NEW o \in Operators, RotateAPIKey(o)
        PROVE  /\ RevokedInactive' /\ GraceKept' /\ UnscopedHidden' /\ RotationsSound' /\ HeirsSound'
               /\ \A j \in Made : KeyKept(j)
    BY <1>4, ReadKeeps, PublishKeeps, CopyKeeps, RetireKeeps DEF RotateAPIKey
  <1> QED BY <1>1, <1>2, <1>3, <1>4 DEF Manage

LEMMA KeysInvStep ==
  ASSUME KeysInv, [KeysNext]_<<now, keyVars>>
  PROVE  KeysInv'
  <1>0. KeysTypeOK'
    BY KeysTypeStep
  <1>1. CASE Manage /\ UNCHANGED now
    <2>1. UNCHANGED <<calls, now>> /\ \A k \in Made : KeyKept(k)
      BY <1>1, ManageKeeps
    <2>2. \A v \in Validators : ValidationSound(v)'
      BY <2>1, ValidationKept
    <2>3. RevokedInactive' /\ GraceKept' /\ UnscopedHidden' /\ RotationsSound' /\ HeirsSound'
      BY <1>1, ManageKeeps
    <2> QED BY <1>0, <2>2, <2>3 DEF KeysInv
  <1>2. ASSUME NEW v \in Validators, ValidateAPIKey(v), UNCHANGED now
        PROVE  KeysInv'
    <2>1. UNCHANGED <<stored, active, expires, scoped, rotation, retired, promised, heirs>>
      BY <1>2, ValidateFrame
    <2>2. RevokedInactive' /\ GraceKept' /\ UnscopedHidden' /\ RotationsSound' /\ HeirsSound'
      BY <2>1 DEF KeysInv, RevokedInactive, GraceKept, UnscopedHidden, RotationsSound, HeirsSound,
                  Made, Known
    <2>3. \A w \in Validators : ValidationSound(w)'
      BY <1>2, ValidateSound, OthersSound
    <2> QED BY <1>0, <2>2, <2>3 DEF KeysInv
  <1>3. CASE UNCHANGED keyVars /\ (Tick \/ UNCHANGED now)
    <2>1. now' >= now
      BY <1>3 DEF Tick, KeysInv, KeysTypeOK
    <2>2. /\ UNCHANGED <<stored, active, expires, scoped, rotation, retired, promised, heirs>>
          /\ UNCHANGED <<vpc, vkey, verdict, doomed, started>>
      BY <1>3 DEF keyVars, keyRecord, calls, history
    <2>3. RevokedInactive' /\ GraceKept' /\ UnscopedHidden' /\ RotationsSound' /\ HeirsSound'
      BY <2>2 DEF KeysInv, RevokedInactive, GraceKept, UnscopedHidden, RotationsSound, HeirsSound,
                  Made, Known
    <2>4. ASSUME NEW v \in Validators
          PROVE  ValidationSound(v)'
      <3>1. ValidationSound(v) /\ started[v] \in Int /\ now \in Int /\ now' \in Int
        BY <1>0 DEF KeysInv, KeysTypeOK
      <3>2. started[v] <= now => started'[v] <= now'
        BY <2>1, <2>2, <3>1
      <3> QED BY <2>2, <3>1, <3>2 DEF ValidationSound, InUse, Made
    <2> QED BY <1>0, <2>3, <2>4 DEF KeysInv
  <1> QED BY <1>1, <1>2, <1>3 DEF KeysNext

(* The invariant behind the others: what is known of every key that was    *)
(* made, and of every validation, in every state.                          *)
THEOREM KeysInvHolds == KeysSpec => []KeysInv
  <1>1. now = 0 /\ KeysInit => KeysInv
    BY KeysInvInit
  <1>2. KeysInv /\ [KeysNext]_<<now, keyVars>> => KeysInv'
    BY KeysInvStep
  <1> QED BY <1>1, <1>2, PTL DEF KeysSpec

(* Every variable of the API keys keeps its type.                          *)
THEOREM KeysTypes == KeysSpec => []KeysTypeOK
  <1>1. KeysInv => KeysTypeOK
    BY DEF KeysInv
  <1> QED BY <1>1, KeysInvHolds, PTL

(* No validation that begins after the revocation, the deletion or the     *)
(* last grace period of its key lets it in, whatever validations, changes  *)
(* and rotations do between its checks.                                    *)
THEOREM RetiredRefused == KeysSpec => []RetiredKeysRefused
  <1>1. ASSUME KeysInv
        PROVE  RetiredKeysRefused
    <2>1. ASSUME NEW v \in Validators, verdict[v] = "ok"
          PROVE  /\ ~doomed[v]
                 /\ promised[vkey[v]] # Never => started[v] <= promised[vkey[v]]
      BY <1>1, <2>1 DEF KeysInv, ValidationSound, InUse
    <2> QED BY <2>1 DEF RetiredKeysRefused
  <1> QED BY <1>1, KeysInvHolds, PTL

(* Every rotation that has returned has handed over to a key with scopes   *)
(* and left its old key dead or dying, with any number of rotations of the *)
(* same key overlapping; and no key without its scopes is ever let in.     *)
THEOREM RotationSafe == KeysSpec => []RotationHandsOver
  <1>1. ASSUME KeysInv
        PROVE  RotationHandsOver
    <2>1. ASSUME NEW h \in heirs
          PROVE  /\ h[1] \in retired \/ (promised[h[1]] # Never /\ expires[h[1]] = promised[h[1]])
                 /\ h[1] \notin stored \/ ~active[h[1]] \/ expires[h[1]] # Never
                 /\ scoped[h[2]]
      <3>1. PICK k \in Keys : k = h[1]
        BY <1>1, <2>1 DEF KeysInv, KeysTypeOK
      <3>2. scoped[h[2]] /\ (k \in retired \/ promised[k] # Never)
        BY <1>1, <2>1, <3>1 DEF KeysInv, HeirsSound
      <3>3. promised[k] # Never => expires[k] = promised[k]
        BY <1>1 DEF KeysInv, GraceKept
      <3>4. k \in retired => k \notin stored \/ ~active[k]
        BY <1>1 DEF KeysInv, RevokedInactive
      <3> QED BY <3>1, <3>2, <3>3, <3>4
    <2>2. \A v \in Validators : verdict[v] = "ok" => scoped[vkey[v]]
      BY <1>1 DEF KeysInv, ValidationSound, InUse
    <2> QED BY <2>1, <2>2 DEF RotationHandsOver
  <1> QED BY <1>1, KeysInvHolds, PTL

-----------------------------------------------------------------------------
(* APIKeys: the rate limit of a key.                                       *)

(* The minute being counted: it counts what was let in since it was        *)
(* opened, nothing was let in after its end, and the minute before its     *)
(* opening met only the one that was counted before.                       *)
MinuteSound(k) ==
  \/ minute[k] = NoMinute /\ Since(used[k], 0) = 0
  \/ \E open \in 0 .. now :
       /\ minute[k].reset = open + Minute
       /\ Since(used[k], open) <= minute[k].count
       /\ minute[k].count <= top[k]
       /\ \A s \in 0 .. open : s >= open - Minute => used[k][open] - used[k][s] <= top[k]
       /\ \A s \in 0 .. now : s > open + Minute => Since(used[k], s) = 0

UseBounded(k) == \A s \in 0 .. now : During(used[k], s, s + Minute) <= 2 * top[k]

LimitSound(k) ==
  /\ Counting(used[k])
  /\ limit[k] <= top[k]
  /\ k \notin Made => used[k] = NoneYet /\ minute[k] = NoMinute
  /\ k \in stored => MinuteSound(k)
  /\ UseBounded(k)

(* A validation that will count its use knows of a limit the key has had.  *)
LimitRead(v) ==
  /\ vpc[v] \in {"argument", "count"} => top[vkey[v]] >= 1
  /\ vpc[v] = "count" => vlimit[v] <= top[vkey[v]]

LimitInv ==
  /\ KeysInv
  /\ \A k \in Keys : LimitSound(k)
  /\ \A v \in Validators : LimitRead(v)

LEMMA NothingUsed ==
  ASSUME NEW s \in 0 .. MaxTime + 1, NEW t \in Nat
  PROVE  During(NoneYet, s, t) = 0 /\ Since(NoneYet, s) = 0
  <1> PICK u : u = IF t < MaxTime THEN t + 1 ELSE MaxTime + 1
    OBVIOUS
  <1>1. u \in 0 .. MaxTime + 1 /\ MaxTime + 1 \in 0 .. MaxTime + 1
    OBVIOUS
  <1>2. NoneYet[u] = 0 /\ NoneYet[s] = 0 /\ NoneYet[MaxTime + 1] = 0
    BY <1>1 DEF NoneYet
  <1> QED BY <1>2 DEF During, Since

(* One more use meets, in the minute before it, no more than the two       *)
(* counted minutes let in.                                                 *)
LEMMA UseFits ==
  ASSUME NEW count, Counting(count), now \in 0 .. MaxTime, NEW open \in 0 .. now, NEW most \in Nat,
         now <= open + Minute,
         Since(count, open) + 1 <= most,
         \A s \in 0 .. open : s >= open - Minute => count[open] - count[s] <= most,
         \A s \in 0 .. now : During(count, s, s + Minute) <= 2 * most
  PROVE  \A s \in 0 .. now : During(Noted(count), s, s + Minute) <= 2 * most
  <1> TAKE s \in 0 .. now
  <1> PICK t : t = s + Minute
    OBVIOUS
  <1>1. t \in Nat /\ s \in 0 .. MaxTime + 1 /\ open \in 0 .. MaxTime + 1
    OBVIOUS
  <1>2. During(Noted(count), s, t) = IF t < now THEN During(count, s, t) ELSE Since(count, s) + 1
    BY <1>1, NotedCounts
  <1>3. CASE t < now
    BY <1>2, <1>3
  <1>4. CASE ~(t < now)
    <2>1. Since(count, s) \in Nat /\ Since(count, open) \in Nat
      BY <1>1, SinceNat
    <2>2. CASE s >= open
      <3>1. Since(count, s) <= Since(count, open)
        BY <1>1, <2>2, SinceLess
      <3> QED BY <1>2, <1>4, <2>1, <3>1
    <2>3. CASE ~(s >= open)
      <3>1. s \in 0 .. open /\ s >= open - Minute
        BY <1>4, <2>3
      <3>2. count[open] - count[s] <= most
        BY <3>1
      <3>3. count[open] \in Nat /\ count[s] \in Nat /\ count[MaxTime + 1] \in Nat
        BY <1>1 DEF Counting
      <3>4. Since(count, s) = Since(count, open) + (count[open] - count[s])
        BY <3>3 DEF Since
      <3> QED BY <1>2, <1>4, <2>1, <3>2, <3>3, <3>4
    <2> QED BY <2>2, <2>3
  <1> QED BY <1>3, <1>4

-----------------------------------------------------------------------------
(* What a step leaves true of the limit of a key.                          *)

(* A key that is not used, and was not just made.                          *)
LEMMA LimitKept ==
  ASSUME KeysTypeOK, now' = now, NEW k \in Keys, LimitSound(k),
         used'[k] = used[k],
         limit'[k] <= top'[k],
         top'[k] \in Nat, top'[k] >= top[k],
         k \in stored' => k \in stored /\ minute'[k] = minute[k],
         k \notin Made' => k \notin Made /\ minute'[k] = minute[k]
  PROVE  LimitSound(k)'
  <1>1. top[k] \in Nat /\ now \in 0 .. MaxTime
    BY DEF KeysTypeOK
  <1>2. Counting(used[k]) /\ UseBounded(k) /\ (k \in stored => MinuteSound(k))
        /\ (k \notin Made => used[k] = NoneYet /\ minute[k] = NoMinute)
    BY DEF LimitSound
  <1> PICK f : f = used[k]
    OBVIOUS
  <1>3. Counting(used[k])'
    BY <1>2 DEF Counting
  <1>4. \A s, t \in Nat : s \in 0 .. now => During(f, s, t) \in Int
    <2> TAKE s, t \in Nat
    <2> HAVE s \in 0 .. now
    <2> PICK u : u = IF t < MaxTime THEN t + 1 ELSE MaxTime + 1
      OBVIOUS
    <2>1. u \in 0 .. MaxTime + 1 /\ s \in 0 .. MaxTime + 1
      BY <1>1
    <2>2. f[u] \in Nat /\ f[s] \in Nat
      BY <1>2, <2>1 DEF Counting
    <2> QED BY <2>2 DEF During
  <1>5. UseBounded(k)'
    <2> SUFFICES ASSUME NEW s \in 0 .. now PROVE During(f, s, s + Minute) <= 2 * top'[k]
      BY DEF UseBounded, During
    <2> PICK d : d = During(f, s, s + Minute)
      OBVIOUS
    <2>1. d <= 2 * top[k] /\ d \in Int
      <3>1. s \in Nat /\ s + Minute \in Nat
        BY <1>1
      <3> QED BY <1>2, <1>4, <3>1 DEF UseBounded
    <2> QED BY <1>1, <2>1
  <1>6. k \in stored' => MinuteSound(k)'
    <2> HAVE k \in stored'
    <2>1. MinuteSound(k) /\ minute'[k] = minute[k]
      BY <1>2
    <2>2. CASE minute[k] = NoMinute /\ Since(used[k], 0) = 0
      BY <2>1, <2>2 DEF MinuteSound, Since
    <2>3. ASSUME NEW open \in 0 .. now,
                 /\ minute[k].reset = open + Minute
                 /\ Since(used[k], open) <= minute[k].count
                 /\ minute[k].count <= top[k]
                 /\ \A s \in 0 .. open : s >= open - Minute => used[k][open] - used[k][s] <= top[k]
                 /\ \A s \in 0 .. now : s > open + Minute => Since(used[k], s) = 0
          PROVE  MinuteSound(k)'
      <3>1. minute[k].count <= top'[k]
        <4>1. minute[k].count \in Nat
          BY DEF KeysTypeOK
        <4> QED BY <1>1, <2>3, <4>1
      <3>2. ASSUME NEW s \in 0 .. open, s >= open - Minute PROVE f[open] - f[s] <= top'[k]
        <4>1. f[open] \in Nat /\ f[s] \in Nat
          <5>1. open \in 0 .. MaxTime + 1 /\ s \in 0 .. MaxTime + 1
            BY <1>1
          <5> QED BY <1>2, <5>1 DEF Counting
        <4> QED BY <1>1, <2>3, <3>2, <4>1
      <3> QED BY <2>1, <2>3, <3>1, <3>2 DEF MinuteSound, Since
    <2> QED BY <2>1, <2>2, <2>3 DEF MinuteSound
  <1> QED BY <1>2, <1>3, <1>5, <1>6 DEF LimitSound

(* A key that was just made.                                               *)
LEMMA LimitMade ==
  ASSUME KeysTypeOK, now' = now, NEW k \in Keys, LimitSound(k), k \notin Made, k \in stored',
         used'[k] = used[k], minute'[k] = minute[k], limit'[k] = top'[k], top'[k] \in Nat
  PROVE  LimitSound(k)'
  <1>1. now \in 0 .. MaxTime /\ used[k] = NoneYet /\ minute[k] = NoMinute /\ Counting(used[k])
    BY DEF LimitSound, KeysTypeOK
  <1>2. Counting(used[k])'
    BY <1>1 DEF Counting
  <1>3. MinuteSound(k)'
    <2>1. Since(NoneYet, 0) = 0
      BY NothingUsed
    <2> QED BY <1>1, <2>1 DEF MinuteSound, Since
  <1>4. UseBounded(k)'
    <2> SUFFICES ASSUME NEW s \in 0 .. now PROVE During(NoneYet, s, s + Minute) <= 2 * top'[k]
      BY <1>1 DEF UseBounded, During
    <2>1. s \in 0 .. MaxTime + 1 /\ s + Minute \in Nat
      BY <1>1
    <2>2. During(NoneYet, s, s + Minute) = 0
      BY <2>1, NothingUsed
    <2> QED BY <2>2
  <1>5. k \in Made'
    BY DEF Made
  <1> QED BY <1>2, <1>3, <1>4, <1>5 DEF LimitSound

(* The first use of a minute: the one before has ended, so that nothing    *)
(* has been let in in this tick.                                           *)
LEMMA LimitOpened ==
  ASSUME KeysTypeOK, now' = now, NEW k \in Keys, LimitSound(k), k \in stored, stored' = stored,
         now > minute[k].reset, top[k] >= 1, UNCHANGED <<limit, top>>,
         minute'[k] = [count |-> 1, reset |-> now + Minute],
         used'[k] = Noted(used[k])
  PROVE  LimitSound(k)'
  <1> PICK f : f = used[k]
    OBVIOUS
  <1>1. now \in 0 .. MaxTime /\ top[k] \in Nat /\ limit[k] <= top[k] /\ Counting(f)
    BY DEF LimitSound, KeysTypeOK
  <1>2. /\ Counting(Noted(f))
        /\ \A s \in 0 .. now : Since(Noted(f), s) = Since(f, s) + 1
    BY <1>1, NotedCounts
  <1>3. \A s \in 0 .. now : Since(f, s) \in Nat
    <2> TAKE s \in 0 .. now
    <2>1. s \in 0 .. MaxTime + 1
      BY <1>1
    <2> QED BY <1>1, <2>1, SinceNat
  <1>4. Since(f, now) = 0 /\ \A s \in 0 .. now : s >= now - Minute => f[now] - f[s] <= top[k]
    <2>1. MinuteSound(k)
      BY DEF LimitSound
    <2>2. ASSUME NEW s \in 0 .. now PROVE f[now] - f[s] = Since(f, s) - Since(f, now)
      <3>1. now \in 0 .. MaxTime + 1 /\ s \in 0 .. MaxTime + 1 /\ MaxTime + 1 \in 0 .. MaxTime + 1
        BY <1>1
      <3>2. f[now] \in Nat /\ f[s] \in Nat /\ f[MaxTime + 1] \in Nat
        BY <1>1, <3>1 DEF Counting
      <3> QED BY <3>2 DEF Since
    <2>3. \A s, t \in 0 .. now : s <= t => Since(f, t) <= Since(f, s)
      <3> TAKE s, t \in 0 .. now
      <3>1. s \in 0 .. MaxTime + 1 /\ t \in 0 .. MaxTime + 1
        BY <1>1
      <3> QED BY <1>1, <3>1, SinceLess
    <2>4. CASE Since(f, 0) = 0
      <3>1. \A s \in 0 .. now : Since(f, s) = 0
        BY <1>1, <1>3, <2>3, <2>4
      <3> QED BY <1>1, <2>2, <3>1
    <2>5. ASSUME NEW open \in 0 .. now,
                 /\ minute[k].reset = open + Minute
                 /\ Since(f, open) <= minute[k].count
                 /\ minute[k].count <= top[k]
                 /\ \A s \in 0 .. now : s > open + Minute => Since(f, s) = 0
          PROVE  Since(f, now) = 0 /\ \A s \in 0 .. now : s >= now - Minute => f[now] - f[s] <= top[k]
      <3>1. Since(f, now) = 0
        BY <1>1, <2>5
      <3>2. ASSUME NEW s \in 0 .. now, s >= now - Minute PROVE f[now] - f[s] <= top[k]
        <4>1. open <= s
          BY <1>1, <2>5, <3>2
        <4>2. Since(f, s) <= Since(f, open) /\ Since(f, s) \in Nat /\ Since(f, open) \in Nat
          BY <1>3, <2>3, <4>1
        <4>3. minute[k].count \in Nat
          BY DEF KeysTypeOK
        <4> QED BY <1>1, <2>2, <2>5, <3>1, <4>2, <4>3
      <3> QED BY <3>1, <3>2
    <2> QED BY <2>1, <2>4, <2>5 DEF MinuteSound
  <1>5. MinuteSound(k)'
    <2>1. minute'[k].reset = now + Minute /\ minute'[k].count = 1
      OBVIOUS
    <2>2. Since(Noted(f), now) <= 1
      BY <1>1, <1>2, <1>4
    <2>3. \A s \in 0 .. now : s >= now - Minute => Noted(f)[now] - Noted(f)[s] <= top[k]
      <3> TAKE s \in 0 .. now
      <3>1. now \in 0 .. MaxTime + 1 /\ s \in 0 .. MaxTime + 1 /\ ~(now > now) /\ ~(s > now)
        BY <1>1
      <3>2. Noted(f)[now] = f[now] /\ Noted(f)[s] = f[s]
        BY <3>1 DEF Noted
      <3> QED BY <1>4, <3>2
    <2>4. \A s \in 0 .. now : ~(s > now + Minute)
      BY <1>1
    <2>5. now \in 0 .. now
      BY <1>1
    <2> PICK g : g = used'[k]
      OBVIOUS
    <2>6. /\ Since(g, now) <= 1
          /\ \A s \in 0 .. now : s >= now - Minute => g[now] - g[s] <= top[k]
      BY <2>2, <2>3
    <2> QED BY <2>1, <2>4, <2>5, <2>6 DEF MinuteSound, Since
  <1>6. UseBounded(k)'
    <2>1. \A s \in 0 .. now : During(f, s, s + Minute) <= 2 * top[k]
      BY DEF LimitSound, UseBounded
    <2>2. now \in 0 .. now /\ now <= now + Minute /\ Since(f, now) + 1 <= top[k]
      BY <1>1, <1>4
    <2>3. \A s \in 0 .. now : During(Noted(f), s, s + Minute) <= 2 * top[k]
      <3> PICK most : most = top[k]
        OBVIOUS
      <3>1. /\ most \in Nat /\ Since(f, now) + 1 <= most
            /\ \A s \in 0 .. now : s >= now - Minute => f[now] - f[s] <= most
            /\ \A s \in 0 .. now : During(f, s, s + Minute) <= 2 * most
        BY <1>1, <1>4, <2>1, <2>2
      <3>2. \A s \in 0 .. now : During(Noted(f), s, s + Minute) <= 2 * most
        BY <1>1, <2>2, <3>1, UseFits
      <3> QED BY <3>2
    <2> QED BY <2>3 DEF UseBounded, During
  <1>7. Counting(used[k])'
    BY <1>2 DEF Counting
  <1>8. k \in Made'
    BY DEF Made
  <1> QED BY <1>1, <1>5, <1>6, <1>7, <1>8 DEF LimitSound

(* A later use, counted up to a limit the key has had.                     *)
LEMMA LimitCounted ==
  ASSUME KeysTypeOK, now' = now, NEW k \in Keys, LimitSound(k), k \in stored, stored' = stored,
         now <= minute[k].reset, minute[k].count + 1 <= top[k], UNCHANGED <<limit, top>>,
         minute'[k] = [minute[k] EXCEPT !.count = @ + 1],
         used'[k] = Noted(used[k])
  PROVE  LimitSound(k)'
  <1> PICK f : f = used[k]
    OBVIOUS
  <1>1. /\ now \in 0 .. MaxTime /\ top[k] \in Nat /\ limit[k] <= top[k] /\ Counting(f)
        /\ minute[k] \in [count : Nat, reset : Int]
    BY DEF LimitSound, KeysTypeOK
  <1>2. /\ Counting(Noted(f))
        /\ \A s \in 0 .. now : Since(Noted(f), s) = Since(f, s) + 1
    BY <1>1, NotedCounts
  <1>3. minute'[k].count = minute[k].count + 1 /\ minute'[k].reset = minute[k].reset
    BY <1>1
  <1>4. minute[k] # NoMinute
    BY <1>1 DEF NoMinute
  <1>5. PICK open \in 0 .. now :
          /\ minute[k].reset = open + Minute
          /\ Since(f, open) <= minute[k].count
          /\ \A s \in 0 .. open : s >= open - Minute => f[open] - f[s] <= top[k]
    BY <1>4 DEF LimitSound, MinuteSound
  <1>6. Since(f, open) \in Nat /\ open \in 0 .. MaxTime + 1
    <2>1. open \in 0 .. MaxTime + 1
      BY <1>1
    <2> QED BY <1>1, <2>1, SinceNat
  <1>7. MinuteSound(k)'
    <2> PICK g : g = used'[k]
      OBVIOUS
    <2>1. Since(g, open) <= minute'[k].count
      BY <1>1, <1>2, <1>3, <1>5, <1>6
    <2>2. \A s \in 0 .. open : s >= open - Minute => g[open] - g[s] <= top[k]
      <3> TAKE s \in 0 .. open
      <3>1. s \in 0 .. MaxTime + 1 /\ ~(open > now) /\ ~(s > now)
        BY <1>1, <1>6
      <3>2. g[open] = f[open] /\ g[s] = f[s]
        BY <1>6, <3>1 DEF Noted
      <3> QED BY <1>5, <3>2
    <2>3. \A s \in 0 .. now : ~(s > open + Minute)
      BY <1>1, <1>5
    <2>4. minute'[k].count <= top[k] /\ minute'[k].reset = open + Minute
      BY <1>3, <1>5
    <2> QED BY <2>1, <2>2, <2>3, <2>4 DEF MinuteSound, Since
  <1>8. UseBounded(k)'
    <2>1. \A s \in 0 .. now : During(f, s, s + Minute) <= 2 * top[k]
      BY DEF LimitSound, UseBounded
    <2>2. now <= open + Minute /\ Since(f, open) + 1 <= top[k]
      BY <1>1, <1>5, <1>6
    <2>3. \A s \in 0 .. now : During(Noted(f), s, s + Minute) <= 2 * top[k]
      <3> PICK most : most = top[k]
        OBVIOUS
      <3>1. /\ most \in Nat /\ Since(f, open) + 1 <= most
            /\ \A s \in 0 .. open : s >= open - Minute => f[open] - f[s] <= most
            /\ \A s \in 0 .. now : During(f, s, s + Minute) <= 2 * most
        BY <1>1, <1>5, <2>1, <2>2
      <3>2. \A s \in 0 .. now : During(Noted(f), s, s + Minute) <= 2 * most
        BY <1>1, <2>2, <3>1, UseFits
      <3> QED BY <3>2
    <2> QED BY <2>3 DEF UseBounded, During
  <1>9. Counting(used[k])'
    BY <1>2 DEF Counting
  <1>10. k \in Made'
    BY DEF Made
  <1> QED BY <1>1, <1>7, <1>8, <1>9, <1>10 DEF LimitSound

(* The clock.                                                              *)
LEMMA LimitTick ==
  ASSUME KeysTypeOK, Tick, UNCHANGED keyVars, NEW k \in Keys, LimitSound(k)
  PROVE  LimitSound(k)'
  <1> PICK f : f = used[k]
    OBVIOUS
  <1>1. /\ now \in 0 .. MaxTime /\ top[k] \in Nat /\ limit[k] <= top[k] /\ Counting(f)
        /\ now' = now + 1
        /\ UNCHANGED <<used, limit, top, minute, stored, retired>>
    BY DEF LimitSound, KeysTypeOK, Tick, keyVars, keyRecord, history
  <1>2. /\ Counting(f)'
        /\ Since(f, now + 1) = 0
        /\ \A t \in Nat : t > now => During(f, now + 1, t) = 0
    BY <1>1, CountingTick
  <1>3. \A s \in 0 .. now' : s \in 0 .. now \/ s = now + 1
    BY <1>1
  <1>4. UseBounded(k)'
    <2>1. ASSUME NEW s \in 0 .. now' PROVE During(f, s, s + Minute) <= 2 * top[k]
      <3>1. CASE s \in 0 .. now
        BY <3>1 DEF LimitSound, UseBounded
      <3>2. CASE s = now + 1
        <4>1. s + Minute \in Nat /\ s + Minute > now
          BY <1>1, <3>2
        <4>2. During(f, s, s + Minute) = 0
          BY <1>2, <3>2, <4>1
        <4> QED BY <1>1, <4>2
      <3> QED BY <1>3, <3>1, <3>2
    <2> QED BY <1>1, <2>1 DEF UseBounded, During
  <1>5. k \in stored => MinuteSound(k)'
    <2> HAVE k \in stored
    <2>1. MinuteSound(k)
      BY DEF LimitSound
    <2>2. CASE minute[k] = NoMinute /\ Since(f, 0) = 0
      BY <1>1, <2>2 DEF MinuteSound, Since
    <2>3. ASSUME NEW open \in 0 .. now,
                 /\ minute[k].reset = open + Minute
                 /\ Since(f, open) <= minute[k].count
                 /\ minute[k].count <= top[k]
                 /\ \A s \in 0 .. open : s >= open - Minute => f[open] - f[s] <= top[k]
                 /\ \A s \in 0 .. now : s > open + Minute => Since(f, s) = 0
          PROVE  MinuteSound(k)'
      <3>1. \A s \in 0 .. now' : s > open + Minute => Since(f, s) = 0
        BY <1>2, <1>3, <2>3
      <3>2. open \in 0 .. now'
        BY <1>1
      <3> QED BY <1>1, <2>3, <3>1, <3>2 DEF MinuteSound, Since
    <2> QED BY <2>1, <2>2, <2>3 DEF MinuteSound
  <1>6. Counting(used[k])'
    BY <1>1, <1>2 DEF Counting
  <1>7. k \notin Made => used[k] = NoneYet /\ minute[k] = NoMinute
    BY DEF LimitSound
  <1>8. Made' = Made
    BY <1>1 DEF Made
  <1> QED BY <1>1, <1>4, <1>5, <1>6, <1>7, <1>8 DEF LimitSound

-----------------------------------------------------------------------------
(* The steps.                                                              *)

LEMMA GenerateLimits ==
  ASSUME LimitInv, UNCHANGED <<minute, used, retired, now>>,
         NEW exp \in Int \cup {Never}, NEW n \in Nat, NEW rs \in RoleSets \cup {{}}, NEW done \in BOOLEAN,
         Generate(Fresh, exp, n, rs, done),
         NEW k \in Keys
  PROVE  LimitSound(k)' /\ (k \in Made => top'[k] >= top[k])
  <1>1. KeysTypeOK /\ LimitSound(k) /\ top[k] \in Nat
    BY DEF LimitInv, KeysInv, KeysTypeOK
  <1>2. Fresh \in Keys /\ Fresh \notin Made
    BY <1>1, GenerateTypes
  <1>3. PICK f \in Keys : f = Fresh /\ f \notin Made
    BY <1>2
  <1>4. Generate(f, exp, n, rs, done)
    BY <1>3
  <1>5. CASE k = f
    <2>1. k \in stored' /\ limit'[k] = n /\ top'[k] = n
      BY <1>1, <1>4, <1>5 DEF Generate, KeysTypeOK
    <2>2. k \notin Made /\ now' = now /\ used'[k] = used[k] /\ minute'[k] = minute[k]
      BY <1>3, <1>5
    <2>3. limit'[k] = top'[k] /\ top'[k] \in Nat
      BY <2>1
    <2>4. LimitSound(k)'
      BY <1>1, <2>1, <2>2, <2>3, LimitMade
    <2> QED BY <2>2, <2>4
  <1>6. CASE k # f
    <2>1. limit'[k] = limit[k] /\ top'[k] = top[k] /\ (k \in stored' <=> k \in stored)
      <3>1. /\ stored' = stored \cup {f}
            /\ limit' = [limit EXCEPT ![f] = n] /\ top' = [top EXCEPT ![f] = n]
        BY <1>4 DEF Generate
      <3>2. limit \in [Keys -> Nat] /\ top \in [Keys -> Nat]
        BY <1>1 DEF KeysTypeOK
      <3> QED BY <1>6, <3>1, <3>2
    <2>2. limit[k] <= top[k] /\ (k \notin Made' => k \notin Made)
      BY <1>1, <2>1 DEF LimitSound, Made
    <2> QED BY <1>1, <2>1, <2>2, LimitKept
  <1> QED BY <1>5, <1>6

LEMMA ManageLimits ==
  ASSUME LimitInv, Manage, UNCHANGED now, NEW k \in Keys
  PROVE  LimitSound(k)' /\ (k \in Made => top'[k] >= top[k])
  <1>1. /\ KeysTypeOK /\ RotationsSound /\ LimitSound(k)
        /\ top[k] \in Nat /\ limit[k] \in Nat /\ limit[k] <= top[k]
    BY DEF LimitInv, KeysInv, KeysTypeOK, LimitSound
  <1>2. CASE GenerateAPIKey
    <2>1. PICK exp \in Lifetimes, n \in Limits, rs \in RoleSets :
            Generate(Fresh, exp, n, rs, TRUE)
      BY <1>2 DEF GenerateAPIKey
    <2>2. exp \in Int \cup {Never} /\ n \in Nat /\ rs \in RoleSets \cup {{}} /\ TRUE \in BOOLEAN
      OBVIOUS
    <2>3. UNCHANGED <<minute, used, retired, now>>
      BY <1>2 DEF GenerateAPIKey
    <2> QED BY <2>1, <2>2, <2>3, GenerateLimits
  <1>3. ASSUME NEW o \in Operators, RotatePublish(o)
        PROVE  LimitSound(k)' /\ (k \in Made => top'[k] >= top[k])
    <2>1. PICK r : r = rotation[o]
      OBVIOUS
    <2>2. r.roles \in RoleSets \cup {{}} /\ r.limit \in Nat /\ r.left \in Int \cup {Never} /\ now \in Int
      BY <1>1, <2>1 DEF KeysTypeOK, RotationRecords
    <2>3. PICK exp : exp = IF r.left = Never THEN Never ELSE now + r.left
      OBVIOUS
    <2>4. exp \in Int \cup {Never} /\ FALSE \in BOOLEAN
      BY <2>2, <2>3
    <2>5. /\ Generate(Fresh, exp, r.limit, r.roles, FALSE)
          /\ UNCHANGED <<minute, used, retired, now>>
      BY <1>3, <2>1, <2>3 DEF RotatePublish
    <2> QED BY <2>2, <2>4, <2>5, GenerateLimits
  <1>4. ASSUME UNCHANGED used, limit'[k] <= top'[k], top'[k] \in Nat, top'[k] >= top[k],
               k \in stored' => k \in stored /\ minute'[k] = minute[k],
               k \notin Made' => k \notin Made /\ minute'[k] = minute[k]
        PROVE  LimitSound(k)' /\ (k \in Made => top'[k] >= top[k])
    BY <1>1, <1>4, LimitKept
  <1>5. ASSUME UNCHANGED <<used, limit, top, minute>>, stored' = stored, retired \subseteq retired'
        PROVE  LimitSound(k)' /\ (k \in Made => top'[k] >= top[k])
    <2>1. k \notin Made' => k \notin Made
      BY <1>5 DEF Made
    <2> QED BY <1>1, <1>4, <1>5, <2>1
  <1>6. ASSUME NEW j \in Keys, RevokeAPIKey(j)
        PROVE  LimitSound(k)' /\ (k \in Made => top'[k] >= top[k])
    BY <1>5, <1>6 DEF RevokeAPIKey, Revoke
  <1>7. ASSUME NEW j \in Keys, DeleteAPIKey(j)
        PROVE  LimitSound(k)' /\ (k \in Made => top'[k] >= top[k])
    <2>1. /\ stored' = stored \ {j} /\ retired' = retired \cup {j} /\ j \in stored
          /\ minute' = [minute EXCEPT ![j] = NoMinute]
          /\ UNCHANGED <<limit, top, used>>
      BY <1>7 DEF DeleteAPIKey
    <2>2. k # j => minute'[k] = minute[k]
      BY <1>1, <2>1 DEF KeysTypeOK
    <2>3. k \notin Made' => k \notin Made /\ k # j
      BY <2>1 DEF Made
    <2> QED BY <1>1, <1>4, <2>1, <2>2, <2>3
  <1>8. ASSUME NEW j \in Keys, NEW rs \in RoleSets, UpdateAPIKeyRoles(j, rs)
        PROVE  LimitSound(k)' /\ (k \in Made => top'[k] >= top[k])
    BY <1>5, <1>8 DEF UpdateAPIKeyRoles, history
  <1>9. ASSUME NEW j \in Keys, NEW n \in Limits, UpdateAPIKeyRateLimit(j, n)
        PROVE  LimitSound(k)' /\ (k \in Made => top'[k] >= top[k])
    <2>1. /\ limit' = [limit EXCEPT ![j] = n]
          /\ top' = [top EXCEPT ![j] = IF n > top[j] THEN n ELSE top[j]]
          /\ UNCHANGED <<stored, retired, minute, used>>
      BY <1>9 DEF UpdateAPIKeyRateLimit
    <2>2. n \in Nat
      OBVIOUS
    <2>3. limit'[k] <= top'[k] /\ top'[k] \in Nat /\ top'[k] >= top[k]
      <3>1. CASE k = j
        <4>1. limit'[k] = n /\ top'[k] = IF n > top[k] THEN n ELSE top[k]
          BY <1>1, <2>1, <3>1 DEF KeysTypeOK
        <4> QED BY <1>1, <2>2, <4>1
      <3>2. CASE k # j
        <4>1. limit'[k] = limit[k] /\ top'[k] = top[k]
          BY <1>1, <2>1, <3>2 DEF KeysTypeOK
        <4> QED BY <1>1, <4>1
      <3> QED BY <3>1, <3>2
    <2>4. Made' = Made
      BY <2>1 DEF Made
    <2> QED BY <1>4, <2>1, <2>3, <2>4
  <1>10. ASSUME NEW o \in Operators, (\E j \in Keys : RotateFind(o, j)) \/ RotateRead(o)
         PROVE  LimitSound(k)' /\ (k \in Made => top'[k] >= top[k])
    BY <1>5, <1>10 DEF RotateFind, RotateRead, keyRecord, history
  <1>11. ASSUME NEW o \in Operators, RotateCopy(o)
         PROVE  LimitSound(k)' /\ (k \in Made => top'[k] >= top[k])
    BY <1>5, <1>11 DEF RotateCopy, history
  <1>12. ASSUME NEW o \in Operators, NEW grace \in Graces, RotateRetire(o, grace)
         PROVE  LimitSound(k)' /\ (k \in Made => top'[k] >= top[k])
    <2>1. UNCHANGED <<used, limit, top, minute>> /\ stored' = stored
      BY <1>12 DEF RotateRetire
    <2>2. retired \subseteq retired'
      BY <1>12 DEF RotateRetire, Revoke
    <2> QED BY <1>5, <2>1, <2>2
  <1> QED BY <1>2, <1>3, <1>6, <1>7, <1>8, <1>9, <1>10, <1>11, <1>12 DEF Manage, RotateAPIKey

(* A use of a key, if it is still stored.                                  *)
LEMMA CountedLimits ==
  ASSUME LimitInv, UNCHANGED <<now, stored, retired, limit, top>>, NEW v \in Validators,
         OpenMinute(v) \/ CountUse(v), NEW k \in Keys
  PROVE  LimitSound(k)'
  <1>1. KeysTypeOK /\ LimitSound(k) /\ LimitRead(v) /\ ValidationSound(v)
    BY DEF LimitInv, KeysInv
  <1>2. vpc[v] = "count" /\ Counted(vkey[v])
    BY DEF OpenMinute, CountUse, Step
  <1>3. PICK j \in Made : j = vkey[v]
    BY <1>1, <1>2 DEF ValidationSound, InUse
  <1>4. j \in Keys /\ top[j] \in Nat /\ vlimit[v] \in Nat /\ top[j] >= 1 /\ vlimit[v] <= top[j]
    BY <1>1, <1>2, <1>3 DEF LimitRead, KeysTypeOK, Made
  <1>5. used' = IF j \in stored THEN [used EXCEPT ![j] = Noted(used[j])] ELSE used
    BY <1>2, <1>3 DEF Counted
  <1>6. top[k] \in Nat /\ limit[k] <= top[k] /\ Made' = Made
    BY <1>1 DEF KeysTypeOK, LimitSound, Made
  <1>7. CASE k # j
    <2>1. used'[k] = used[k]
      BY <1>1, <1>5, <1>7 DEF KeysTypeOK
    <2>2. minute'[k] = minute[k]
      BY <1>1, <1>3, <1>7 DEF OpenMinute, CountUse, KeysTypeOK
    <2> QED BY <1>1, <1>6, <2>1, <2>2, LimitKept
  <1>8. CASE k = j /\ k \notin stored
    BY <1>1, <1>3, <1>5, <1>6, <1>8, LimitKept
  <1>9. CASE k = j /\ k \in stored /\ OpenMinute(v)
    <2>1. /\ now > minute[k].reset
          /\ minute' = [minute EXCEPT ![k] = [count |-> 1, reset |-> now + Minute]]
      BY <1>3, <1>9 DEF OpenMinute
    <2>2. /\ minute'[k] = [count |-> 1, reset |-> now + Minute]
          /\ used'[k] = Noted(used[k])
      BY <1>1, <1>5, <1>9, <2>1 DEF KeysTypeOK
    <2> QED BY <1>1, <1>4, <1>9, <2>1, <2>2, LimitOpened
  <1>10. CASE k = j /\ k \in stored /\ CountUse(v)
    <2>1. /\ now <= minute[k].reset /\ minute[k].count < vlimit[v]
          /\ minute' = [minute EXCEPT ![k] = [minute[k] EXCEPT !.count = @ + 1]]
      BY <1>1, <1>3, <1>10 DEF CountUse, KeysTypeOK
    <2>2. /\ minute'[k] = [minute[k] EXCEPT !.count = @ + 1]
          /\ used'[k] = Noted(used[k])
      BY <1>1, <1>5, <1>10, <2>1 DEF KeysTypeOK
    <2>3. minute[k].count + 1 <= top[k]
      <3>1. minute[k].count \in Nat
        BY <1>1 DEF KeysTypeOK
      <3> QED BY <1>4, <1>10, <2>1, <3>1
    <2> QED BY <1>1, <1>10, <2>1, <2>2, <2>3, LimitCounted
  <1> QED BY <1>7, <1>8, <1>9, <1>10

LEMMA ValidateLimits ==
  ASSUME LimitInv, UNCHANGED now, NEW v \in Validators, ValidateAPIKey(v)
  PROVE  /\ \A k \in Keys : LimitSound(k)'
         /\ \A w \in Validators : LimitRead(w)'
  <1>1. /\ KeysTypeOK /\ ValidationSound(v)
        /\ UNCHANGED <<stored, retired, limit, top>>
    BY ValidateFrame DEF LimitInv, KeysInv, ValidateAPIKey, Validate, history
  <1>2. ASSUME NEW k \in Keys PROVE LimitSound(k)'
    <2>1. LimitSound(k) /\ limit[k] <= top[k] /\ top[k] \in Nat /\ Made' = Made
      BY <1>1 DEF LimitInv, LimitSound, KeysTypeOK, Made
    <2>2. CASE UNCHANGED <<minute, used>>
      BY <1>1, <2>1, <2>2, LimitKept
    <2>3. CASE OpenMinute(v) \/ CountUse(v)
      BY <1>1, <2>3, CountedLimits
    <2> QED BY <2>2, <2>3 DEF ValidateAPIKey, Validate, FindKey, KeyNotFound, CheckActive,
               CheckExpiry, CheckLimited, ReadLimit, LimitReached, Touch
  <1>3. ASSUME NEW w \in Validators, w # v PROVE LimitRead(w)'
    <2>1. vpc'[w] = vpc[w] /\ vkey'[w] = vkey[w] /\ vlimit'[w] = vlimit[w]
      BY <1>1, <1>3 DEF ValidateAPIKey, Validate, FindKey, KeyNotFound, CheckActive, CheckExpiry,
             CheckLimited, ReadLimit, OpenMinute, CountUse, LimitReached, Touch, Step, Refuse,
             KeysTypeOK
    <2> QED BY <1>1, <2>1 DEF LimitInv, LimitRead
  <1>4. LimitRead(v)'
    <2>1. ASSUME vpc'[v] \notin {"argument", "count"} PROVE LimitRead(v)'
      BY <2>1 DEF LimitRead
    <2>2. ASSUME NEW k \in Keys, FindKey(v, k) PROVE LimitRead(v)'
      <3>1. vpc'[v] = "active"
        BY <1>1, <2>2 DEF FindKey, KeysTypeOK
      <3> QED BY <2>1, <3>1
    <2>3. ASSUME NEW from, Refuse(v, from) PROVE LimitRead(v)'
      <3>1. vpc'[v] = "idle"
        BY <1>1, <2>3 DEF Refuse, KeysTypeOK
      <3> QED BY <2>1, <3>1
    <2>4. ASSUME NEW from, NEW to, Step(v, from, to)
          PROVE  vpc[v] = from /\ vpc'[v] = to /\ vkey'[v] = vkey[v]
      BY <1>1, <2>4 DEF Step, KeysTypeOK
    <2>5. ASSUME CheckLimited(v) PROVE LimitRead(v)'
      <3>1. CASE limit[vkey[v]] > 0
        <4>1. vpc[v] = "limit" /\ vpc'[v] = "argument" /\ vkey'[v] = vkey[v]
          BY <2>4, <2>5, <3>1 DEF CheckLimited
        <4>2. PICK k \in Made : k = vkey[v]
          BY <1>1, <4>1 DEF ValidationSound, InUse
        <4>3. k \in Keys /\ limit[k] \in Nat /\ top[k] \in Nat /\ limit[k] <= top[k]
          BY <1>1, <4>2 DEF LimitInv, LimitSound, KeysTypeOK, Made
        <4> QED BY <1>1, <3>1, <4>1, <4>2, <4>3 DEF LimitRead
      <3>2. CASE ~(limit[vkey[v]] > 0)
        <4>1. vpc'[v] = "touch"
          BY <2>4, <2>5, <3>2 DEF CheckLimited
        <4> QED BY <2>1, <4>1
      <3> QED BY <3>1, <3>2
    <2>6. ASSUME ReadLimit(v) PROVE LimitRead(v)'
      <3>1. vpc[v] = "argument" /\ vpc'[v] = "count" /\ vkey'[v] = vkey[v]
        BY <2>4, <2>6 DEF ReadLimit
      <3>2. PICK k \in Made : k = vkey[v]
        BY <1>1, <3>1 DEF ValidationSound, InUse
      <3>3. k \in Keys /\ limit[k] <= top[k] /\ top[k] >= 1
        BY <1>1, <3>1, <3>2 DEF LimitInv, LimitSound, LimitRead, KeysTypeOK, Made
      <3>4. vlimit'[v] = limit[k]
        BY <1>1, <2>6, <3>2 DEF ReadLimit, KeysTypeOK
      <3> QED BY <1>1, <3>1, <3>2, <3>3, <3>4 DEF LimitRead
    <2>7. ASSUME NEW from, NEW to \in {"expiry", "limit", "touch"}, Step(v, from, to) PROVE LimitRead(v)'
      BY <2>1, <2>4, <2>7
    <2>8. ASSUME Touch(v) PROVE LimitRead(v)'
      <3>1. vpc'[v] = "idle"
        BY <1>1, <2>8 DEF Touch, KeysTypeOK
      <3> QED BY <2>1, <3>1
    <2>9. ASSUME CheckActive(v) \/ CheckExpiry(v) \/ OpenMinute(v) \/ CountUse(v) \/ LimitReached(v)
          PROVE  LimitRead(v)'
      BY <2>3, <2>7, <2>9 DEF CheckActive, CheckExpiry, OpenMinute, CountUse, LimitReached
    <2>10. ASSUME NEW k \in Keys, KeyNotFound(v, k) PROVE LimitRead(v)'
      BY <2>3, <2>10 DEF KeyNotFound
    <2> QED BY <2>2, <2>5, <2>6, <2>8, <2>9, <2>10 DEF ValidateAPIKey, Validate
  <1> QED BY <1>2, <1>3, <1>4

LEMMA LimitStart ==
  ASSUME now = 0, KeysInit
  PROVE  LimitInv
  <1>1. KeysInv
    BY KeysInvInit
  <1>2. ASSUME NEW k \in Keys PROVE LimitSound(k)
    <2>1. /\ used[k] = NoneYet /\ minute[k] = NoMinute /\ top[k] = limit[k]
          /\ top[k] \in Nat /\ limit[k] \in Nat
      BY <1>1 DEF KeysInit, KeysInv, KeysTypeOK
    <2>2. Counting(used[k])
      BY <2>1, NothingCounted
    <2>3. MinuteSound(k)
      <3>1. 0 \in 0 .. MaxTime + 1 /\ 0 \in Nat
        OBVIOUS
      <3> QED BY <2>1, <3>1, NothingUsed DEF MinuteSound
    <2>4. UseBounded(k)
      <3> SUFFICES ASSUME NEW s \in 0 .. now PROVE During(used[k], s, s + Minute) <= 2 * top[k]
        BY DEF UseBounded
      <3>1. s \in 0 .. MaxTime + 1 /\ s + Minute \in Nat
        OBVIOUS
      <3>2. During(used[k], s, s + Minute) = 0
        BY <2>1, <3>1, NothingUsed
      <3> QED BY <2>1, <3>2
    <2> QED BY <2>1, <2>2, <2>3, <2>4 DEF LimitSound
  <1>3. \A v \in Validators : LimitRead(v)
    BY DEF KeysInit, LimitRead
  <1> QED BY <1>1, <1>2, <1>3 DEF LimitInv

LEMMA LimitStep ==
  ASSUME LimitInv, [KeysNext]_<<now, keyVars>>
  PROVE  LimitInv'
  <1>1. KeysInv /\ KeysInv' /\ KeysTypeOK
    BY KeysInvStep DEF LimitInv, KeysInv
  <1>2. CASE Manage /\ UNCHANGED now
    <2>1. UNCHANGED <<vpc, vkey, vlimit>>
      BY <1>1, <1>2, ManageKeeps DEF calls
    <2>2. \A v \in Validators : LimitRead(v)'
      <3> TAKE v \in Validators
      <3>1. CASE vpc[v] = "idle"
        BY <2>1, <3>1 DEF LimitRead
      <3>2. CASE vpc[v] # "idle"
        <4>1. PICK k \in Made : k = vkey[v]
          BY <1>1, <3>2 DEF KeysInv, ValidationSound, InUse
        <4>2. k \in Keys
          BY <1>1, <4>1 DEF Made, KeysTypeOK
        <4>3. top'[k] >= top[k]
          BY <1>2, <4>2, ManageLimits
        <4>4. top[k] \in Nat /\ top'[k] \in Nat /\ vlimit[v] \in Nat /\ LimitRead(v)
          BY <1>1, <4>2 DEF LimitInv, KeysInv, KeysTypeOK
        <4> QED BY <2>1, <4>1, <4>3, <4>4 DEF LimitRead
      <3> QED BY <3>1, <3>2
    <2>3. \A k \in Keys : LimitSound(k)'
      BY <1>2, ManageLimits
    <2> QED BY <1>1, <2>2, <2>3 DEF LimitInv
  <1>3. ASSUME NEW v \in Validators, ValidateAPIKey(v), UNCHANGED now
        PROVE  LimitInv'
    BY <1>1, <1>3, ValidateLimits DEF LimitInv
  <1>4. CASE UNCHANGED keyVars /\ (Tick \/ UNCHANGED now)
    <2>1. UNCHANGED <<vpc, vkey, vlimit, limit, top, used, minute, stored, retired>>
      BY <1>4 DEF keyVars, keyRecord, calls, history
    <2>2. \A v \in Validators : LimitRead(v)'
      BY <2>1 DEF LimitInv, LimitRead
    <2>3. ASSUME NEW k \in Keys PROVE LimitSound(k)'
      <3>1. LimitSound(k) /\ limit[k] <= top[k] /\ top[k] \in Nat /\ Made' = Made
        BY <1>1, <2>1 DEF LimitInv, LimitSound, KeysTypeOK, Made
      <3> QED BY <1>1, <1>4, <2>1, <3>1, LimitTick, LimitKept
    <2> QED BY <1>1, <2>2, <2>3 DEF LimitInv
  <1> QED BY <1>2, <1>3, <1>4 DEF KeysNext

(* A stored key is used at most as often as the largest limit it has had   *)
(* within a counted minute, and at most twice as often in any minute, for  *)
(* any number of requests that read its limit while it is changed.         *)
THEOREM KeyLimited == KeysSpec => []KeyLimitHolds
  <1>1. now = 0 /\ KeysInit => LimitInv
    BY LimitStart
  <1>2. LimitInv /\ [KeysNext]_<<now, keyVars>> => LimitInv'
    BY LimitStep
  <1>3. ASSUME LimitInv PROVE KeyLimitHolds
    <2>1. ASSUME NEW k \in Keys PROVE minute[k].count <= top[k] \/ k \notin stored
      <3>1. LimitSound(k) /\ top[k] \in Nat
        BY <1>3 DEF LimitInv, KeysInv, KeysTypeOK
      <3>2. NoMinute.count <= top[k]
        BY <3>1 DEF NoMinute
      <3> QED BY <3>1, <3>2 DEF LimitSound, MinuteSound
    <2>2. \A k \in Keys : \A s \in 0 .. now : During(used[k], s, s + Minute) <= 2 * top[k]
      BY <1>3 DEF LimitInv, LimitSound, UseBounded
    <2> QED BY <2>1, <2>2 DEF KeyLimitHolds
  <1>4. LimitInv => KeyLimitHolds
    BY <1>3
  <1> QED BY <1>1, <1>2, <1>4, PTL DEF KeysSpec

-----------------------------------------------------------------------------
(* Roles: what a walk through the roles finds.                             *)

IsTable(t) ==
  \A x \in Names : t[x] # NoRole => t[x] \in RoleRecords

(* The roles that can be reached from those in S past those in V, which    *)
(* are looked at no more: every set that has S and is closed has them.     *)
Closed(t, V, Z) == \A x \in Z : Parents(t, x) \ V \subseteq Z
Reach(t, S, V) ==
  {x \in Names : \A Z \in SUBSET Names : S \ V \subseteq Z /\ Closed(t, V, Z) => x \in Z}

Permitted(t, S) == UNION {t[x].permissions : x \in {y \in S : t[y] # NoRole}}

LEMMA ParentsAreNames ==
  ASSUME NEW t, IsTable(t), NEW x \in Names
  PROVE  Parents(t, x) \subseteq Names
<1>1. CASE t[x] = NoRole
  BY <1>1 DEF Parents
<1>2. CASE t[x] # NoRole
  <2>1. PICK s : s = t[x].inherits
    OBVIOUS
  <2>2. s \in Seq(Names)
    BY <1>2, <2>1 DEF IsTable, RoleRecords
  <2>3. \A i \in DOMAIN s : s[i] \in Names
    BY <2>2
  <2> QED BY <1>2, <2>1, <2>3 DEF Parents, Range
<1> QED BY <1>1, <1>2

LEMMA ReachClosed ==
  ASSUME NEW t, IsTable(t), NEW S \in SUBSET Names, NEW V
  PROVE  S \ V \subseteq Reach(t, S, V) /\ Closed(t, V, Reach(t, S, V))
<1>1. S \ V \subseteq Reach(t, S, V)
  BY DEF Reach
<1>2. ASSUME NEW x \in Reach(t, S, V), NEW y \in Parents(t, x) \ V
      PROVE  y \in Reach(t, S, V)
  <2>1. x \in Names /\ y \in Names
    BY <1>2, ParentsAreNames DEF Reach
  <2>2. ASSUME NEW Z \in SUBSET Names, S \ V \subseteq Z, Closed(t, V, Z) PROVE y \in Z
    <3>1. x \in Z
      BY <1>2, <2>2 DEF Reach
    <3> QED BY <1>2, <2>2, <3>1 DEF Closed
  <2> QED BY <2>1, <2>2 DEF Reach
<1> QED BY <1>1, <1>2 DEF Closed

LEMMA ReachLeast ==
  ASSUME NEW t, NEW S, NEW V, NEW Z \in SUBSET Names, S \ V \subseteq Z, Closed(t, V, Z)
  PROVE  Reach(t, S, V) \subseteq Z
BY DEF Reach

(* A role that is looked at first leads to its parents.                    *)
With(S, h) == S \cup {h}
Through(t, S, h) == S \cup Parents(t, h)

LEMMA ReachStep ==
  ASSUME NEW t, IsTable(t), NEW S \in SUBSET Names, NEW V \in SUBSET Names, NEW h \in Names,
         h \notin V
  PROVE  \A x : x \in Reach(t, With(S, h), V)
                 <=> x = h \/ x \in Reach(t, Through(t, S, h), With(V, h))
<1>0. /\ \E T : T = With(S, h) /\ T = S \cup {h}
      /\ \E U : U = Through(t, S, h) /\ U = S \cup Parents(t, h)
      /\ \E W : W = With(V, h) /\ W = V \cup {h}
  BY DEF With, Through
<1> PICK T : T = With(S, h) /\ T = S \cup {h}
  BY <1>0
<1> PICK U : U = Through(t, S, h) /\ U = S \cup Parents(t, h)
  BY <1>0
<1> PICK W : W = With(V, h) /\ W = V \cup {h}
  BY <1>0
<1>1. T \in SUBSET Names /\ U \in SUBSET Names
  BY ParentsAreNames
<1>2. PICK A : A = Reach(t, T, V)
  OBVIOUS
<1>3. PICK B : B = Reach(t, U, W)
  OBVIOUS
<1>4. T \ V \subseteq A /\ Closed(t, V, A)
  BY <1>1, <1>2, ReachClosed
<1>5. U \ W \subseteq B /\ Closed(t, W, B)
  BY <1>1, <1>3, ReachClosed
<1>6. A \in SUBSET Names /\ B \in SUBSET Names
  BY <1>2, <1>3 DEF Reach
<1>7. PICK C \in SUBSET Names : C = {h} \cup B
  BY <1>6
<1>8. A \subseteq C
  <2>1. ASSUME NEW x \in C, NEW y \in Parents(t, x) \ V PROVE y \in C
    <3>1. CASE x = h
      BY <1>5, <1>7, <2>1, <3>1
    <3>2. CASE x \in B
      BY <1>5, <1>7, <2>1, <3>2 DEF Closed
    <3> QED BY <1>7, <2>1, <3>1, <3>2
  <2>2. Closed(t, V, C)
    BY <2>1 DEF Closed
  <2>3. T \ V \subseteq C
    BY <1>5, <1>7
  <2> QED BY <1>2, <2>2, <2>3, ReachLeast
<1>9. h \in A
  BY <1>4
<1>10. B \subseteq A
  <2>1. U \ W \subseteq A
    BY <1>4, <1>9 DEF Closed
  <2>2. Closed(t, W, A)
    BY <1>4 DEF Closed
  <2> QED BY <1>3, <1>6, <2>1, <2>2, ReachLeast
<1> QED BY <1>2, <1>3, <1>7, <1>8, <1>9, <1>10

(* What Collect should find from where it is.                              *)
ToFind(t, w) == Permitted(t, Reach(t, Range(w[1]), w[2]))

LEMMA RangeOf ==
  /\ \A s \in Seq(Names) : Range(s) \in SUBSET Names
  /\ \A s \in Seq(Names) : s # <<>> => /\ Range(s) = {Head(s)} \cup Range(Tail(s))
                                        /\ Tail(s) \in Seq(Names) /\ Head(s) \in Names
                                        /\ Len(Tail(s)) < Len(s)
  /\ \A r, s \in Seq(Names) : r \o s \in Seq(Names) /\ Range(r \o s) = Range(r) \cup Range(s)
<1>1. ASSUME NEW s \in Seq(Names) PROVE Range(s) \in SUBSET Names
  BY DEF Range
<1>2. ASSUME NEW s \in Seq(Names), s # <<>>
      PROVE  /\ Range(s) = {Head(s)} \cup Range(Tail(s))
             /\ Tail(s) \in Seq(Names) /\ Head(s) \in Names
             /\ Len(Tail(s)) < Len(s)
  <2>1. /\ Len(s) \in Nat \ {0} /\ Tail(s) \in Seq(Names) /\ Len(Tail(s)) = Len(s) - 1
        /\ Head(s) = s[1] /\ s[1] \in Names
        /\ \A i \in 1 .. Len(s) - 1 : Tail(s)[i] = s[i + 1]
    BY <1>2
  <2>2. \A i \in DOMAIN s : i = 1 \/ (i - 1 \in DOMAIN Tail(s) /\ Tail(s)[i - 1] = s[i])
    BY <2>1
  <2>3. \A i \in DOMAIN Tail(s) : i + 1 \in DOMAIN s /\ Tail(s)[i] = s[i + 1]
    BY <2>1
  <2>4. 1 \in DOMAIN s
    BY <2>1
  <2>5. Range(s) \subseteq {Head(s)} \cup Range(Tail(s))
    <3>1. ASSUME NEW i \in DOMAIN s PROVE s[i] \in {Head(s)} \cup Range(Tail(s))
      <4>1. CASE i = 1
        BY <2>1, <4>1
      <4>2. CASE i - 1 \in DOMAIN Tail(s) /\ Tail(s)[i - 1] = s[i]
        BY <4>2 DEF Range
      <4> QED BY <2>2, <4>1, <4>2
    <3> QED BY <3>1 DEF Range
  <2>6. {Head(s)} \cup Range(Tail(s)) \subseteq Range(s)
    BY <2>1, <2>3, <2>4 DEF Range
  <2> QED BY <2>1, <2>5, <2>6
<1>3. ASSUME NEW r \in Seq(Names), NEW s \in Seq(Names)
      PROVE  r \o s \in Seq(Names) /\ Range(r \o s) = Range(r) \cup Range(s)
  <2>1. PICK q : q = r \o s
    OBVIOUS
  <2>2. /\ q \in Seq(Names) /\ Len(q) = Len(r) + Len(s) /\ Len(r) \in Nat /\ Len(s) \in Nat
        /\ DOMAIN q = 1 .. Len(r) + Len(s) /\ DOMAIN r = 1 .. Len(r) /\ DOMAIN s = 1 .. Len(s)
        /\ \A i \in 1 .. Len(r) : q[i] = r[i]
        /\ \A i \in 1 .. Len(s) : q[Len(r) + i] = s[i]
    BY <2>1
  <2>3. \A i \in DOMAIN q : (i \in DOMAIN r /\ q[i] = r[i])
                             \/ (i - Len(r) \in DOMAIN s /\ q[i] = s[i - Len(r)])
    <3> SUFFICES ASSUME NEW i \in DOMAIN q, i \notin DOMAIN r
                 PROVE  i - Len(r) \in DOMAIN s /\ q[i] = s[i - Len(r)]
      BY <2>2
    <3>1. i - Len(r) \in 1 .. Len(s) /\ i = Len(r) + (i - Len(r))
      BY <2>2
    <3> QED BY <2>2, <3>1
  <2>4. \A i \in DOMAIN r : i \in DOMAIN q
    BY <2>2
  <2>5. \A i \in DOMAIN s : Len(r) + i \in DOMAIN q
    BY <2>2
  <2>6. Range(q) \subseteq Range(r) \cup Range(s)
    BY <2>3 DEF Range
  <2>7. Range(r) \subseteq Range(q)
    BY <2>2, <2>4 DEF Range
  <2>8. Range(s) \subseteq Range(q)
    BY <2>2, <2>5 DEF Range
  <2> QED BY <2>1, <2>2, <2>6, <2>7, <2>8
<1> QED BY <1>1, <1>2, <1>3

(* What is permitted by the roles reached from a role and others.          *)
LEMMA PermittedPast ==
  ASSUME NEW t, IsTable(t), NEW S \in SUBSET Names, NEW V \in SUBSET Names, NEW h \in Names,
         h \in V \/ t[h] = NoRole
  PROVE  Permitted(t, Reach(t, With(S, h), V)) = Permitted(t, Reach(t, S, With(V, h)))
<1>1. CASE h \in V
  <2>1. With(S, h) \ V = S \ V /\ With(V, h) = V
    BY <1>1 DEF With
  <2>2. Reach(t, With(S, h), V) = Reach(t, S, With(V, h))
    BY <2>1 DEF Reach
  <2> QED BY <2>2
<1>2. CASE h \notin V
  <2>1. t[h] = NoRole
    BY <1>2
  <2>2. Through(t, S, h) = S
    BY <2>1 DEF Parents, Through
  <2>3. \A x : x \in Reach(t, With(S, h), V) <=> x = h \/ x \in Reach(t, S, With(V, h))
    BY <1>2, <2>2, ReachStep
  <2> QED BY <2>1, <2>3 DEF Permitted
<1> QED BY <1>1, <1>2

LEMMA PermittedThrough ==
  ASSUME NEW t, IsTable(t), NEW S \in SUBSET Names, NEW V \in SUBSET Names, NEW h \in Names,
         h \notin V, t[h] # NoRole
  PROVE  Permitted(t, Reach(t, With(S, h), V))
           = t[h].permissions \cup Permitted(t, Reach(t, Through(t, S, h), With(V, h)))
<1>1. \A x : x \in Reach(t, With(S, h), V)
              <=> x = h \/ x \in Reach(t, Through(t, S, h), With(V, h))
  BY ReachStep
<1> QED BY <1>1 DEF Permitted

(* One step of the walk finds what it should, if the rest does.            *)
FoundFrom(t, s, V, h) ==
  IF h \in V \/ t[h] = NoRole THEN ToFind(t, <<Tail(s), V \cup {h}>>)
  ELSE t[h].permissions \cup ToFind(t, <<t[h].inherits \o Tail(s), V \cup {h}>>)

LEMMA ToFindStep ==
  ASSUME NEW t, IsTable(t)
  PROVE  \A s \in Seq(Names), V \in SUBSET Names :
           s # <<>> => ToFind(t, <<s, V>>) = FoundFrom(t, s, V, Head(s))
<1>0. SUFFICES ASSUME NEW s \in Seq(Names), NEW V \in SUBSET Names, s # <<>>
               PROVE  ToFind(t, <<s, V>>) = FoundFrom(t, s, V, Head(s))
  OBVIOUS
<1>1. PICK h \in Names : h = Head(s)
  BY <1>0, RangeOf
<1>2. PICK r : r = Tail(s) /\ r \in Seq(Names)
  BY <1>0, RangeOf
<1>3. PICK S \in SUBSET Names : S = Range(r)
  BY <1>2, RangeOf
<1>4. Range(s) = With(S, h)
  BY <1>0, <1>1, <1>2, <1>3, RangeOf DEF With
<1>5. V \cup {h} = With(V, h)
  BY DEF With
<1>6. CASE h \in V \/ t[h] = NoRole
  <2>1. Permitted(t, Reach(t, With(S, h), V)) = Permitted(t, Reach(t, S, With(V, h)))
    BY <1>6, PermittedPast
  <2>2. ToFind(t, <<s, V>>) = ToFind(t, <<r, With(V, h)>>)
    BY <1>3, <1>4, <2>1 DEF ToFind
  <2> QED BY <1>1, <1>2, <1>5, <1>6, <2>2 DEF FoundFrom
<1>7. CASE ~(h \in V \/ t[h] = NoRole)
  <2>1. Permitted(t, Reach(t, With(S, h), V))
          = t[h].permissions \cup Permitted(t, Reach(t, Through(t, S, h), With(V, h)))
    BY <1>7, PermittedThrough
  <2>2. PICK i : i = t[h].inherits
    OBVIOUS
  <2>3. i \in Seq(Names) /\ Parents(t, h) = Range(i)
    BY <1>7, <2>2 DEF IsTable, RoleRecords, Parents
  <2>4. Range(i \o r) = Through(t, S, h)
    <3>1. Range(i \o r) = Range(i) \cup Range(r)
      BY <1>2, <2>3, RangeOf
    <3> QED BY <1>3, <2>3, <3>1 DEF Through
  <2>5. ToFind(t, <<s, V>>) = t[h].permissions \cup ToFind(t, <<i \o r, With(V, h)>>)
    BY <1>4, <2>1, <2>4 DEF ToFind
  <2> QED BY <1>1, <1>2, <1>5, <1>7, <2>2, <2>5 DEF FoundFrom
<1> QED BY <1>6, <1>7

LEMMA NothingToFind == \A t, V : ToFind(t, <<<<>>, V>>) = {}
<1> SUFFICES ASSUME NEW t, NEW V PROVE ToFind(t, <<<<>>, V>>) = {}
  OBVIOUS
<1>1. Range(<<>>) = {}
  BY DEF Range
<1>2. Reach(t, {}, V) \subseteq {}
  BY ReachLeast DEF Closed
<1> QED BY <1>1, <1>2 DEF ToFind, Permitted

(* The walk, as the function it is: there is one, namely what it should    *)
(* find, and no other, as every step leaves fewer roles unvisited or the   *)
(* same and a shorter list.                                                *)
Walks == Seq(Names) \X SUBSET Names
Walked(t, walk, w) ==
  LET todo == w[1]
      visited == w[2] \cup {Head(todo)}
  IN  IF todo = <<>> THEN {}
      ELSE IF Head(todo) \in w[2] \/ t[Head(todo)] = NoRole
        THEN walk[<<Tail(todo), visited>>]
      ELSE t[Head(todo)].permissions
             \cup walk[<<t[Head(todo)].inherits \o Tail(todo), visited>>]

LEMMA WalkSteps ==
  ASSUME NEW t, IsTable(t), NEW s \in Seq(Names), NEW V \in SUBSET Names, s # <<>>
  PROVE  LET h == Head(s) IN
         /\ <<Tail(s), V \cup {h}>> \in Walks
         /\ t[h] # NoRole => <<t[h].inherits \o Tail(s), V \cup {h}>> \in Walks
         /\ h \in Names
<1>1. Head(s) \in Names /\ Tail(s) \in Seq(Names)
  BY RangeOf
<1>2. V \cup {Head(s)} \in SUBSET Names
  BY <1>1
<1>3. ASSUME t[Head(s)] # NoRole PROVE t[Head(s)].inherits \o Tail(s) \in Seq(Names)
  <2>1. t[Head(s)].inherits \in Seq(Names)
    BY <1>1, <1>3 DEF IsTable, RoleRecords
  <2> QED BY <1>1, <2>1, RangeOf
<1> QED BY <1>1, <1>2, <1>3 DEF Walks

LEMMA WalkFinds ==
  ASSUME NEW t, IsTable(t), NEW w \in Walks
  PROVE  Walked(t, [v \in Walks |-> ToFind(t, v)], w) = ToFind(t, w)
<1> PICK f : f = [v \in Walks |-> ToFind(t, v)]
  OBVIOUS
<1>1. PICK s \in Seq(Names), V \in SUBSET Names : w = <<s, V>>
  BY DEF Walks
<1>2. CASE s = <<>>
  BY <1>1, <1>2, NothingToFind DEF Walked
<1>3. CASE s # <<>>
  <2> PICK h : h = Head(s)
    OBVIOUS
  <2>1. /\ <<Tail(s), V \cup {h}>> \in Walks
        /\ t[h] # NoRole => <<t[h].inherits \o Tail(s), V \cup {h}>> \in Walks
    BY <1>3, WalkSteps
  <2>2. Walked(t, f, w) = IF h \in V \/ t[h] = NoRole THEN f[<<Tail(s), V \cup {h}>>]
                          ELSE t[h].permissions \cup f[<<t[h].inherits \o Tail(s), V \cup {h}>>]
    BY <1>1, <1>3 DEF Walked
  <2>3. ToFind(t, w) = IF h \in V \/ t[h] = NoRole THEN ToFind(t, <<Tail(s), V \cup {h}>>)
                       ELSE t[h].permissions \cup ToFind(t, <<t[h].inherits \o Tail(s), V \cup {h}>>)
    <3>1. ToFind(t, <<s, V>>) = FoundFrom(t, s, V, Head(s))
      BY <1>3, ToFindStep
    <3> QED BY <1>1, <3>1, Zenon DEF FoundFrom
  <2> QED BY <2>1, <2>2, <2>3
<1> QED BY <1>2, <1>3

LEMMA NamesFinite == IsFiniteSet(Names)
<1>1. IsFiniteSet(DefaultNames)
  <2>1. \A x : IsFiniteSet({x})
    BY FS_Singleton
  <2>2. IsFiniteSet({"user"} \cup {"merchant"}) /\ IsFiniteSet({"operator"} \cup {"admin"})
        /\ IsFiniteSet({"service"} \cup {"superadmin"})
    BY <2>1, FS_Union
  <2>3. IsFiniteSet({"user", "merchant"} \cup {"operator", "admin"})
    <3>1. IsFiniteSet({"user", "merchant"}) /\ IsFiniteSet({"operator", "admin"})
      BY <2>2
    <3> QED BY <3>1, FS_Union
  <2>4. IsFiniteSet({"user", "merchant", "operator", "admin"} \cup {"service", "superadmin"})
    <3>1. IsFiniteSet({"user", "merchant", "operator", "admin"}) /\ IsFiniteSet({"service", "superadmin"})
      BY <2>2, <2>3
    <3> QED BY <3>1, FS_Union
  <2>5. DefaultNames = {"user", "merchant", "operator", "admin"} \cup {"service", "superadmin"}
    BY DEF DefaultNames
  <2> QED BY <2>4, <2>5
<1> QED BY <1>1, RolesAssumption, FS_Union DEF Names

LEMMA OnlyWalk ==
  ASSUME NEW t, IsTable(t), NEW f, f = [w \in Walks |-> Walked(t, f, w)]
  PROVE  \A w \in Walks : f[w] = ToFind(t, w)
<1> SUFFICES ASSUME \E w \in Walks : f[w] # ToFind(t, w) PROVE FALSE
  OBVIOUS
<1> DEFINE Wrong == {w \in Walks : f[w] # ToFind(t, w)}
           Left(w) == Cardinality(Names \ w[2])
           Lefts == {Left(w) : w \in Wrong}
<1>1. \A w \in Walks : Left(w) \in Nat /\ Len(w[1]) \in Nat
  <2> SUFFICES ASSUME NEW w \in Walks PROVE Left(w) \in Nat /\ Len(w[1]) \in Nat
    OBVIOUS
  <2>1. w[1] \in Seq(Names)
    BY DEF Walks
  <2>2. IsFiniteSet(Names \ w[2])
    BY NamesFinite, FS_Subset
  <2> QED BY <2>1, <2>2, FS_CardinalityType
<1>2. PICK m \in Lefts : \A n \in Lefts : m <= n
  <2>1. Lefts \subseteq Nat /\ Lefts # {}
    BY <1>1
  <2> HIDE DEF Lefts
  <2> QED BY <2>1, LeastNat
<1> DEFINE Shorts == {Len(w[1]) : w \in {v \in Wrong : Left(v) = m}}
<1>3. PICK l \in Shorts : \A n \in Shorts : l <= n
  <2>1. Shorts \subseteq Nat
    BY <1>1
  <2>2. Shorts # {}
    <3>1. PICK v \in Wrong : m = Left(v)
      BY <1>2
    <3>2. Len(v[1]) \in Shorts
      BY <3>1
    <3> QED BY <3>2
  <2> HIDE DEF Shorts
  <2> QED BY <2>1, <2>2, LeastNat
<1>4. PICK w \in Wrong : Left(w) = m /\ Len(w[1]) = l
  BY <1>3
<1>5. \A v \in Walks : Left(v) < Left(w) => f[v] = ToFind(t, v)
  <2> SUFFICES ASSUME NEW v \in Walks, Left(v) < Left(w), f[v] # ToFind(t, v) PROVE FALSE
    OBVIOUS
  <2>1. Left(v) \in Lefts
    OBVIOUS
  <2>2. m <= Left(v) /\ Left(v) \in Nat /\ Left(w) \in Nat
    BY <1>1, <1>2, <2>1
  <2> HIDE DEF Left
  <2> QED BY <1>4, <2>2
<1>6. \A v \in Walks : Left(v) = Left(w) /\ Len(v[1]) < Len(w[1]) => f[v] = ToFind(t, v)
  <2> SUFFICES ASSUME NEW v \in Walks, Left(v) = Left(w), Len(v[1]) < Len(w[1]), f[v] # ToFind(t, v)
               PROVE FALSE
    OBVIOUS
  <2>1. Len(v[1]) \in Shorts
    BY <1>4
  <2>2. l <= Len(v[1]) /\ Len(v[1]) \in Nat /\ Len(w[1]) \in Nat
    BY <1>1, <1>3, <2>1
  <2> QED BY <1>4, <2>2
<1>7. PICK s \in Seq(Names), V \in SUBSET Names : w = <<s, V>>
  BY <1>4 DEF Walks
<1>8. f[w] = Walked(t, f, w)
  BY <1>4
<1>9. CASE s = <<>>
  BY <1>4, <1>7, <1>8, <1>9, NothingToFind DEF Walked
<1>10. CASE s # <<>>
  <2> PICK h : h = Head(s)
    OBVIOUS
  <2> DEFINE a == <<Tail(s), V \cup {h}>>
             b == <<t[h].inherits \o Tail(s), V \cup {h}>>
  <2>1. a \in Walks /\ (t[h] # NoRole => b \in Walks) /\ h \in Names
    BY <1>10, WalkSteps
  <2>2. f[w] = IF h \in V \/ t[h] = NoRole THEN f[a] ELSE t[h].permissions \cup f[b]
    BY <1>7, <1>8, <1>10 DEF Walked
  <2>3. ToFind(t, w) = IF h \in V \/ t[h] = NoRole THEN ToFind(t, a)
                       ELSE t[h].permissions \cup ToFind(t, b)
    <3>1. ToFind(t, <<s, V>>) = FoundFrom(t, s, V, Head(s))
      BY <1>10, ToFindStep
    <3> QED BY <1>7, <3>1, Zenon DEF FoundFrom
  <2>4. h \in V => Left(a) = Left(w) /\ Len(a[1]) < Len(w[1])
    <3>1. h \in V => V \cup {h} = V
      OBVIOUS
    <3> QED BY <1>7, <1>10, <3>1, RangeOf
  <2>5. h \notin V => Left(a) < Left(w) /\ Left(b) < Left(w)
    <3> SUFFICES ASSUME h \notin V PROVE Cardinality(Names \ (V \cup {h})) < Cardinality(Names \ V)
      BY <1>7
    <3>1. IsFiniteSet(Names \ V) /\ h \in Names \ V /\ Names \ (V \cup {h}) = (Names \ V) \ {h}
      BY <2>1, NamesFinite, FS_Subset
    <3>2. PICK N : N = Names \ V
      OBVIOUS
    <3>3. Cardinality(N \ {h}) = Cardinality(N) - 1 /\ Cardinality(N) \in Nat
      <4>1. IsFiniteSet(N) /\ h \in N
        BY <3>1, <3>2
      <4>2. Cardinality(N \ {h}) = Cardinality(N) - 1
        BY <4>1, FS_RemoveElement
      <4> QED BY <4>1, <4>2, FS_CardinalityType
    <3>4. Cardinality(N \ {h}) < Cardinality(N)
      BY <3>3
    <3>5. Names \ (V \cup {h}) = N \ {h}
      BY <3>1, <3>2
    <3> QED BY <3>2, <3>4, <3>5
  <2> HIDE DEF a, b, Left
  <2>6. h \in V \/ t[h] = NoRole => f[a] = ToFind(t, a)
    BY <1>5, <1>6, <2>1, <2>4, <2>5
  <2>7. ~(h \in V \/ t[h] = NoRole) => f[b] = ToFind(t, b)
    BY <1>5, <2>1, <2>5
  <2> QED BY <1>4, <2>2, <2>3, <2>6, <2>7
<1> QED BY <1>9, <1>10

(* getAllPermissionsRecursive finds the permissions of the roles that can  *)
(* be reached, each once, through any circles.                             *)
LEMMA Collects ==
  ASSUME NEW t, IsTable(t), NEW name \in Names, NEW V \in SUBSET Names
  PROVE  Collect(t, name, V) = Permitted(t, Reach(t, {name}, V))
<1> PICK f : f = [w \in Walks |-> ToFind(t, w)]
  OBVIOUS
<1>1. f = [w \in Walks |-> Walked(t, f, w)]
  BY WalkFinds
<1> DEFINE walk == CHOOSE g : g = [w \in Walks |-> Walked(t, g, w)]
<1>2. walk = [w \in Walks |-> Walked(t, walk, w)]
  BY <1>1
<1>3. Collect(t, name, V) = walk[<<<<name>>, V>>]
  BY DEF Collect, Walks, Walked
<1> HIDE DEF walk
<1>4. \A w \in Walks : walk[w] = ToFind(t, w)
  BY <1>2, OnlyWalk
<1>5. <<name>> \in Seq(Names) /\ <<<<name>>, V>> \in Walks /\ Range(<<name>>) = {name}
  <2>1. PICK s : s = <<name>>
    OBVIOUS
  <2>2. s \in Seq(Names) /\ DOMAIN s = {1} /\ s[1] = name
    BY <2>1
  <2>3. Range(s) = {name}
    BY <2>2 DEF Range
  <2> QED BY <2>1, <2>2, <2>3 DEF Walks
<1> QED BY <1>3, <1>4, <1>5 DEF ToFind

-----------------------------------------------------------------------------
(* Roles: inheritance, as Ancestors counts it out.                         *)

(* One generation more.                                                    *)
Older(t, X) == X \cup UNION {Parents(t, x) : x \in X}

(* Ways up from a role, which may stay where they are.                     *)
Ways(t, name) ==
  {p \in [Nat -> Names] : p[0] = name /\ \A i \in Nat : p[i + 1] \in Older(t, {p[i]})}

LEMMA OlderOnes == \A t, X, x : x \in Older(t, X) <=> \E y \in X : x \in Older(t, {y})
BY DEF Older

(* The generations are a function: what the ways lead to.                  *)
LEMMA Generations ==
  ASSUME NEW t, IsTable(t), NEW name \in Names
  PROVE  \E f : f = [n \in Nat |-> IF n = 0 THEN {name} ELSE Older(t, f[n - 1])]
<1> PICK P : P = Ways(t, name)
  OBVIOUS
<1> PICK f : f = [n \in Nat |-> {p[n] : p \in P}]
  OBVIOUS
<1>1. f[0] = {name}
  <2>1. ASSUME NEW p \in P PROVE p[0] = name
    BY DEF Ways
  <2>2. \E p \in P : TRUE
    <3>1. PICK p : p = [i \in Nat |-> name]
      OBVIOUS
    <3>2. p \in P
      BY <3>1 DEF Ways, Older
    <3> QED BY <3>2
  <2> QED BY <2>1, <2>2
<1>2. ASSUME NEW n \in Nat PROVE f[n + 1] = Older(t, f[n])
  <2>1. ASSUME NEW x \in f[n + 1] PROVE x \in Older(t, f[n])
    <3>1. PICK p \in P : x = p[n + 1]
      BY <2>1
    <3>2. x \in Older(t, {p[n]}) /\ p[n] \in f[n]
      BY <3>1 DEF Ways
    <3> QED BY <3>2, OlderOnes
  <2>2. ASSUME NEW x \in Older(t, f[n]) PROVE x \in f[n + 1]
    <3>1. PICK p \in P : x \in Older(t, {p[n]})
      <4>1. PICK y \in f[n] : x \in Older(t, {y})
        BY <2>2, OlderOnes
      <4> QED BY <4>1
    <3>2. /\ p \in [Nat -> Names] /\ p[0] = name
          /\ \A i \in Nat : p[i + 1] \in Older(t, {p[i]})
      BY DEF Ways
    <3>3. x \in Names
      BY <3>1, <3>2, ParentsAreNames DEF Older
    <3>4. PICK q : q = [i \in Nat |-> IF i <= n THEN p[i] ELSE x]
      OBVIOUS
    <3>5. q \in [Nat -> Names] /\ q[0] = name /\ q[n + 1] = x
      BY <3>2, <3>3, <3>4
    <3>6. ASSUME NEW i \in Nat PROVE q[i + 1] \in Older(t, {q[i]})
      <4>1. CASE i < n
        <5>1. i + 1 <= n /\ i <= n /\ i + 1 \in Nat
          BY <4>1
        <5>2. q[i + 1] = p[i + 1] /\ q[i] = p[i]
          BY <3>4, <5>1
        <5> QED BY <3>2, <5>2
      <4>2. CASE i = n
        <5>1. q[i + 1] = x /\ q[i] = p[n]
          BY <3>4, <4>2
        <5> QED BY <3>1, <5>1
      <4>3. CASE i > n
        <5>1. q[i + 1] = x /\ q[i] = x
          BY <3>4, <4>3
        <5> QED BY <5>1 DEF Older
      <4> QED BY <4>1, <4>2, <4>3
    <3>7. q \in P
      BY <3>5, <3>6 DEF Ways
    <3> QED BY <3>5, <3>7
  <2> QED BY <2>1, <2>2
<1>3. ASSUME NEW n \in Nat PROVE f[n] = IF n = 0 THEN {name} ELSE Older(t, f[n - 1])
  <2>1. CASE n = 0
    BY <1>1, <2>1
  <2>2. CASE n # 0
    <3>1. n - 1 \in Nat /\ (n - 1) + 1 = n
      BY <2>2
    <3>2. f[(n - 1) + 1] = Older(t, f[n - 1])
      BY <1>2, <3>1
    <3> QED BY <2>2, <3>1, <3>2
  <2> QED BY <2>1, <2>2
<1>4. f = [n \in Nat |-> IF n = 0 THEN {name} ELSE Older(t, f[n - 1])]
  <2> PICK g : g = [n \in Nat |-> IF n = 0 THEN {name} ELSE Older(t, f[n - 1])]
    OBVIOUS
  <2>1. \A n \in Nat : f[n] = g[n]
    BY <1>3
  <2>2. DOMAIN f = Nat /\ DOMAIN g = Nat /\ f = [n \in DOMAIN f |-> f[n]] /\ g = [n \in DOMAIN g |-> g[n]]
    OBVIOUS
  <2> QED BY <2>1, <2>2
<1> QED BY <1>4

(* As many generations as there are roles are enough: every one that is    *)
(* not closed adds a role.                                                 *)
LEMMA AncestorsReached ==
  ASSUME NEW t, IsTable(t), NEW name \in Names
  PROVE  Ancestors(t, name) = Reach(t, {name}, {})
<1> DEFINE within == CHOOSE f : f = [n \in Nat |-> IF n = 0 THEN {name} ELSE Older(t, f[n - 1])]
           N == Cardinality(Names)
           R == Reach(t, {name}, {})
<1>1. within = [n \in Nat |-> IF n = 0 THEN {name} ELSE Older(t, within[n - 1])]
  <2>1. \E f : f = [n \in Nat |-> IF n = 0 THEN {name} ELSE Older(t, f[n - 1])]
    BY Generations
  <2> QED BY <2>1, Zenon
<1>2. Ancestors(t, name) = within[N]
  BY DEF Ancestors, Older
<1>3. N \in Nat
  BY NamesFinite, FS_CardinalityType
<1> HIDE DEF within
<1>4. within[0] = {name} /\ \A n \in Nat : within[n + 1] = Older(t, within[n])
  <2>1. within[0] = {name}
    BY <1>1
  <2>2. ASSUME NEW n \in Nat PROVE within[n + 1] = Older(t, within[n])
    <3>1. n + 1 \in Nat /\ n + 1 # 0 /\ (n + 1) - 1 = n
      OBVIOUS
    <3> QED BY <1>1, <3>1
  <2> QED BY <2>1, <2>2
<1>5. {name} \subseteq R /\ Closed(t, {}, R) /\ R \in SUBSET Names
  <2>1. \A S, V \in SUBSET Names : S \ V \subseteq Reach(t, S, V) /\ Closed(t, V, Reach(t, S, V))
    BY ReachClosed
  <2>2. {name} \in SUBSET Names /\ {name} \ {} = {name}
    OBVIOUS
  <2>3. {name} \subseteq R /\ Closed(t, {}, R)
    BY <2>1, <2>2
  <2> QED BY <2>3 DEF Reach
<1> HIDE DEF N, R
<1>6. \A n \in 0 .. N : within[n] \subseteq R
  <2> DEFINE S == {n \in Nat : within[n] \subseteq R}
  <2>1. 0 \in S
    BY <1>4, <1>5
  <2>2. ASSUME NEW n \in 0 .. N - 1, n \in S PROVE n + 1 \in S
    <3>1. within[n + 1] = Older(t, within[n]) /\ within[n] \subseteq R /\ n + 1 \in Nat
      BY <1>3, <1>4, <2>2
    <3>2. Older(t, within[n]) \subseteq R
      BY <1>5, <3>1 DEF Closed, Older
    <3> QED BY <3>1, <3>2
  <2> HIDE DEF S
  <2>3. \A n \in 0 .. N : n \in S
    BY <1>3, <2>1, <2>2, UpTo
  <2> QED BY <2>3 DEF S
<1>7. \A n \in 0 .. N : {name} \subseteq within[n] /\ (Closed(t, {}, within[n]) \/ Cardinality(within[n]) > n)
  <2> DEFINE S == {n \in Nat : {name} \subseteq within[n]
                                /\ (Closed(t, {}, within[n]) \/ Cardinality(within[n]) > n)}
  <2>1. 0 \in S
    <3>1. Cardinality({name}) = 1
      BY FS_Singleton
    <3>2. Cardinality(within[0]) > 0 /\ {name} \subseteq within[0]
      BY <1>4, <3>1
    <3> QED BY <3>2
  <2>2. ASSUME NEW n \in 0 .. N - 1, n \in S PROVE n + 1 \in S
    <3>0. PICK X : X = within[n]
      OBVIOUS
    <3>1. PICK Y : Y = Older(t, X)
      OBVIOUS
    <3>2. within[n + 1] = Y /\ n \in Nat /\ n + 1 \in Nat
      BY <1>3, <1>4, <2>2, <3>0, <3>1
    <3>3. X \subseteq Y /\ {name} \subseteq Y
      BY <2>2, <3>0, <3>1 DEF Older
    <3>4. CASE Closed(t, {}, X)
      <4>1. Y = X
        BY <3>1, <3>4 DEF Closed, Older
      <4> QED BY <3>2, <3>3, <3>4, <4>1
    <3>5. CASE ~Closed(t, {}, X) /\ Cardinality(X) > n
      <4>1. X # Y
        BY <3>1, <3>5 DEF Closed, Older
      <4>2. Y \in SUBSET Names
        <5>1. n + 1 \in 0 .. N
          BY <1>3, <2>2
        <5> QED BY <1>5, <1>6, <3>2, <5>1
      <4>3. IsFiniteSet(Y) /\ X \in SUBSET Y
        BY <3>3, <4>2, NamesFinite, FS_Subset
      <4>4. /\ Cardinality(X) <= Cardinality(Y) /\ (Cardinality(Y) = Cardinality(X) => Y = X)
            /\ IsFiniteSet(X)
        BY <4>3, FS_Subset
      <4>5. Cardinality(X) \in Nat /\ Cardinality(Y) \in Nat
        BY <4>3, <4>4, FS_CardinalityType
      <4>6. Cardinality(Y) > n + 1
        BY <3>2, <3>5, <4>1, <4>4, <4>5
      <4> QED BY <3>2, <3>3, <4>6
    <3> QED BY <2>2, <3>0, <3>4, <3>5
  <2> HIDE DEF S
  <2>3. \A n \in 0 .. N : n \in S
    BY <1>3, <2>1, <2>2, UpTo
  <2> QED BY <2>3 DEF S
<1>8. N \in 0 .. N
  BY <1>3
<1>9. within[N] \in SUBSET Names
  BY <1>5, <1>6, <1>8
<1>10. Closed(t, {}, within[N])
  <2>1. Cardinality(within[N]) <= N /\ Cardinality(within[N]) \in Nat
    BY <1>9, NamesFinite, FS_Subset, FS_CardinalityType DEF N
  <2> QED BY <1>3, <1>7, <1>8, <2>1
<1>11. R \subseteq within[N]
  <2>1. {name} \ {} \subseteq within[N]
    BY <1>7, <1>8
  <2> QED BY <1>9, <1>10, <2>1, ReachLeast DEF R
<1> QED BY <1>2, <1>6, <1>8, <1>11 DEF N, R

(* A look at a role finds what the role inherits.                          *)
LEMMA LooksRight ==
  ASSUME NEW t, IsTable(t), NEW name \in Names, NEW permission
  PROVE  HasPermission(t, name, permission) <=> Entitled(t, name, permission)
<1>1. Collect(t, name, {}) = Permitted(t, Ancestors(t, name))
  <2>1. \A V \in SUBSET Names : Collect(t, name, V) = Permitted(t, Reach(t, {name}, V))
    BY Collects
  <2>2. Collect(t, name, {}) = Permitted(t, Reach(t, {name}, {}))
    BY <2>1
  <2> QED BY <2>2, AncestorsReached
<1> QED BY <1>1 DEF HasPermission, Entitled, Permitted

-----------------------------------------------------------------------------
(* Roles: checks, while the table is edited.                               *)

Looked(k) ==
  {pair \in Asked(k) : \E i \in DOMAIN k.names, j \in DOMAIN k.permissions :
     pair = <<k.names[i], k.permissions[j]>> /\ (i < k.role \/ (i = k.role /\ j < k.permission))}

(* What a check has found wanting was wanting at some time, and what held  *)
(* or still holds is noted.                                                *)
ChecksSound ==
  \A c \in Checks :
    LET k == check[c]
    IN  /\ k.at = "checking" =>
             /\ Carried(table, Asked(k)) \subseteq ever[c]
             /\ always[c] \subseteq Carried(table, Asked(k))
             /\ always[c] \cap Looked(k) = {}
             /\ k.permission <= Len(k.permissions) \/ k.permissions = <<>>
        /\ k.at = "granted" => ever[c] # {}
        /\ k.at = "denied" => always[c] = {}

RolesInv == RolesTypeOK /\ ChecksSound

CallRecords ==
  [at : {"idle", "checking", "granted", "denied"}, names : Seq(Names), permissions : Seq(Permissions),
   role : Nat \ {0}, permission : Nat \ {0}]

LEMMA AskedTypes ==
  ASSUME NEW k \in CallRecords
  PROVE  Asked(k) \subseteq Names \X Permissions
<1>1. k.names \in Seq(Names) /\ k.permissions \in Seq(Permissions)
  BY DEF CallRecords
<1>2. \A i \in DOMAIN k.names, j \in DOMAIN k.permissions :
        k.names[i] \in Names /\ k.permissions[j] \in Permissions
  BY <1>1
<1> QED BY <1>2 DEF Asked

LEMMA TableTypes == RolesTypeOK => IsTable(table)
BY DEF RolesTypeOK, IsTable

(* The pair a check looks at next, and what is left when it has.           *)
LEMMA LookAt ==
  ASSUME NEW k \in CallRecords, k.permission <= Len(k.permissions) \/ k.permissions = <<>>
  PROVE  /\ Ended(k) => Asked(k) \subseteq Looked(k)
         /\ ~Ended(k) =>
              /\ <<k.names[k.role], k.permissions[k.permission]>> \in Asked(k)
              /\ Further(k) \in CallRecords /\ Further(k).at = k.at
              /\ Asked(Further(k)) = Asked(k)
              /\ Looked(Further(k))
                   \subseteq Looked(k) \cup {<<k.names[k.role], k.permissions[k.permission]>>}
              /\ Further(k).permission <= Len(Further(k).permissions)
<1> PICK at, ns, ps, r, p :
      /\ k = [at |-> at, names |-> ns, permissions |-> ps, role |-> r, permission |-> p]
      /\ at \in {"idle", "checking", "granted", "denied"} /\ ns \in Seq(Names) /\ ps \in Seq(Permissions)
      /\ r \in Nat \ {0} /\ p \in Nat \ {0}
  BY DEF CallRecords
<1>1. /\ DOMAIN ns = 1 .. Len(ns) /\ DOMAIN ps = 1 .. Len(ps) /\ Len(ns) \in Nat /\ Len(ps) \in Nat
      /\ ps = <<>> <=> Len(ps) = 0
  OBVIOUS
<1>2. ASSUME Ended(k) PROVE Asked(k) \subseteq Looked(k)
  <2>1. ASSUME NEW i \in DOMAIN ns, NEW j \in DOMAIN ps PROVE <<ns[i], ps[j]>> \in Looked(k)
    <3>1. i < r
      BY <1>1, <1>2, <2>1 DEF Ended
    <3> QED BY <2>1, <3>1 DEF Looked, Asked
  <2> QED BY <2>1 DEF Asked
<1>3. ASSUME ~Ended(k)
      PROVE  /\ <<ns[r], ps[p]>> \in Asked(k)
             /\ Further(k) \in CallRecords /\ Further(k).at = k.at
             /\ Asked(Further(k)) = Asked(k)
             /\ Looked(Further(k)) \subseteq Looked(k) \cup {<<ns[r], ps[p]>>}
             /\ Further(k).permission <= Len(Further(k).permissions)
  <2>1. r \in 1 .. Len(ns) /\ p \in 1 .. Len(ps)
    BY <1>1, <1>3 DEF Ended
  <2>2. <<ns[r], ps[p]>> \in Asked(k)
    BY <1>1, <2>1 DEF Asked
  <2> PICK r1 : r1 = IF p < Len(ps) THEN r ELSE r + 1
    OBVIOUS
  <2> PICK p1 : p1 = IF p < Len(ps) THEN p + 1 ELSE 1
    OBVIOUS
  <2>3. /\ Further(k) = [at |-> at, names |-> ns, permissions |-> ps, role |-> r1, permission |-> p1]
        /\ r1 \in Nat \ {0} /\ p1 \in Nat \ {0} /\ p1 <= Len(ps)
    <3>1. CASE p < Len(ps)
      <4>1. Further(k) = [k EXCEPT !.permission = p + 1] /\ r1 = r /\ p1 = p + 1
        BY <3>1 DEF Further
      <4> QED BY <1>1, <3>1, <4>1
    <3>2. CASE ~(p < Len(ps))
      <4>1. Further(k) = [Call(at, ns, ps) EXCEPT !.role = r + 1] /\ r1 = r + 1 /\ p1 = 1
        BY <3>2 DEF Further
      <4>2. [Call(at, ns, ps) EXCEPT !.role = r + 1]
              = [at |-> at, names |-> ns, permissions |-> ps, role |-> r + 1, permission |-> 1]
        BY DEF Call
      <4>3. r1 \in Nat \ {0} /\ p1 \in Nat \ {0} /\ p1 <= Len(ps)
        BY <1>1, <2>1, <4>1
      <4> QED BY <4>1, <4>2, <4>3
    <3> QED BY <3>1, <3>2
  <2>4. Further(k) \in CallRecords /\ Further(k).at = k.at
    BY <2>3 DEF CallRecords
  <2>5. Asked(Further(k)) = Asked(k)
    <3>1. Further(k).names = k.names /\ Further(k).permissions = k.permissions
      BY <2>3
    <3> QED BY <3>1 DEF Asked
  <2>6. ASSUME NEW i \in DOMAIN ns, NEW j \in DOMAIN ps, i < r1 \/ (i = r1 /\ j < p1)
        PROVE  <<ns[i], ps[j]>> \in Looked(k) \cup {<<ns[r], ps[p]>>}
    <3>1. (i < r \/ (i = r /\ j < p)) \/ (i = r /\ j = p)
      BY <1>1, <2>1, <2>3, <2>6
    <3>2. CASE i < r \/ (i = r /\ j < p)
      BY <3>2 DEF Looked, Asked
    <3> QED BY <3>1, <3>2
  <2>7. Looked(Further(k)) \subseteq Looked(k) \cup {<<ns[r], ps[p]>>}
    BY <2>3, <2>6 DEF Looked
  <2> QED BY <2>2, <2>3, <2>4, <2>5, <2>7
<1> QED BY <1>2, <1>3

CheckRecords == [Checks -> CallRecords]

(* What is noted of a check is what it asks about.                         *)
LEMMA CarriedTypes ==
  ASSUME NEW k \in CallRecords, NEW t
  PROVE  Carried(t, Asked(k)) \in SUBSET (Names \X Permissions)
BY AskedTypes DEF Carried

LEMMA DefaultTable == DefaultRoles \in [Names -> RoleRecords \cup {NoRole}]
<1>1. ASSUME NEW n \in DefaultNames PROVE DefaultRoles[n] \in RoleRecords
  <2>1. ASSUME NEW s \in SUBSET Permissions, NEW ns \in Seq(Names) PROVE Role(s, ns) \in RoleRecords
    BY DEF Role, RoleRecords
  <2>2. /\ <<>> \in Seq(Names) /\ <<"user">> \in Seq(Names) /\ <<"admin">> \in Seq(Names)
        /\ <<"operator", "merchant">> \in Seq(Names)
    BY DEF Names, DefaultNames
  <2>3. CASE n = "user"
    <3>1. DefaultRoles[n] = Role({"transaction:read", "transaction:create"}, <<>>)
      BY <2>3 DEF DefaultRoles, DefaultNames, Names
    <3>2. {"transaction:read", "transaction:create"} \in SUBSET Permissions
      BY DEF Permissions, DefaultPermissions
    <3> QED BY <2>1, <2>2, <3>1, <3>2
  <2>4. CASE n = "merchant"
    <3>1. DefaultRoles[n] = Role({"transaction:read", "transaction:create",
                                  "transaction:update", "transaction:refund"}, <<"user">>)
      BY <2>4 DEF DefaultRoles, DefaultNames, Names
    <3>2. {"transaction:read", "transaction:create", "transaction:update", "transaction:refund"} \in SUBSET Permissions
      BY DEF Permissions, DefaultPermissions
    <3> QED BY <2>1, <2>2, <3>1, <3>2
  <2>5. CASE n = "operator"
    <3>1. DefaultRoles[n] = Role({"transaction:read", "account:freeze"}, <<"user">>)
      BY <2>5 DEF DefaultRoles, DefaultNames, Names
    <3>2. {"transaction:read", "account:freeze"} \in SUBSET Permissions
      BY DEF Permissions, DefaultPermissions
    <3> QED BY <2>1, <2>2, <3>1, <3>2
  <2>6. CASE n = "admin"
    <3>1. DefaultRoles[n] = Role({"admin:access"}, <<"operator", "merchant">>)
      BY <2>6 DEF DefaultRoles, DefaultNames, Names
    <3>2. {"admin:access"} \in SUBSET Permissions
      BY DEF Permissions, DefaultPermissions
    <3> QED BY <2>1, <2>2, <3>1, <3>2
  <2>7. CASE n = "service"
    <3>1. DefaultRoles[n] = Role({"transaction:read", "transaction:create",
                                  "transaction:update", "api:write"}, <<>>)
      BY <2>7 DEF DefaultRoles, DefaultNames, Names
    <3>2. {"transaction:read", "transaction:create", "transaction:update", "api:write"} \in SUBSET Permissions
      BY DEF Permissions, DefaultPermissions
    <3> QED BY <2>1, <2>2, <3>1, <3>2
  <2>8. CASE n = "superadmin"
    <3>1. DefaultRoles[n] = Role({}, <<"admin">>)
      BY <2>8 DEF DefaultRoles, DefaultNames, Names
    <3> QED BY <2>1, <2>2, <3>1
  <2> QED BY <2>3, <2>4, <2>5, <2>6, <2>7, <2>8 DEF DefaultNames
<1>2. ASSUME NEW n \in Names \ DefaultNames PROVE DefaultRoles[n] = NoRole
  BY DEF DefaultRoles
<1> QED BY <1>1, <1>2 DEF DefaultRoles

LEMMA RolesInvInit == RolesInit => RolesInv
<1> SUFFICES ASSUME RolesInit PROVE RolesInv
  OBVIOUS
<1>1. DefaultRoles \in [Names -> RoleRecords \cup {NoRole}] /\ 0 \in 0 .. MaxEdits
  BY DefaultTable, RolesAssumption DEF RolesAssumption
<1>2. Call("idle", <<>>, <<>>) \in CallRecords
  BY DEF Call, CallRecords
<1>3. check \in CheckRecords
  BY <1>2 DEF RolesInit, CheckRecords
<1>4. RolesTypeOK
  BY <1>1, <1>3 DEF RolesInit, RolesTypeOK, CheckRecords, CallRecords
<1>5. ASSUME NEW c \in Checks PROVE check[c].at = "idle"
  BY DEF RolesInit, Call
<1> QED BY <1>4, <1>5 DEF RolesInv, ChecksSound

(* A check begins.                                                         *)
LEMMA CheckAccessSound ==
  ASSUME RolesInv, NEW c \in Checks, NEW names \in Seq(Names), NEW permissions \in Seq(Permissions),
         CheckAccess(c, names, permissions)
  PROVE  RolesInv'
<1> PICK k : k = Call(IF names = <<>> THEN "denied" ELSE "checking", names, permissions)
  OBVIOUS
<1>1. k \in CallRecords
  BY DEF Call, CallRecords
<1>2. /\ k.at = IF names = <<>> THEN "denied" ELSE "checking"
      /\ k.names = names /\ k.permissions = permissions /\ k.role = 1 /\ k.permission = 1
  BY DEF Call
<1>3. /\ check' = [check EXCEPT ![c] = k]
      /\ ever' = [ever EXCEPT ![c] = Carried(table, Asked(k))]
      /\ always' = [always EXCEPT ![c] = Carried(table, Asked(k))]
      /\ table' = table /\ edits' = edits
  BY DEF CheckAccess
<1>4. PICK T : T = Carried(table, Asked(k)) /\ T \in SUBSET (Names \X Permissions)
  BY <1>1, CarriedTypes
<1>5. check \in CheckRecords
  BY DEF RolesInv, RolesTypeOK, CheckRecords, CallRecords
<1>6. check' \in CheckRecords
  BY <1>1, <1>3, <1>5 DEF CheckRecords
<1>7. RolesTypeOK'
  BY <1>3, <1>4, <1>6 DEF RolesInv, RolesTypeOK, CheckRecords, CallRecords
<1>8. /\ check'[c] = k /\ ever'[c] = T /\ always'[c] = T
      /\ \A d \in Checks \ {c} :
           check'[d] = check[d] /\ ever'[d] = ever[d] /\ always'[d] = always[d]
  BY <1>3, <1>4 DEF RolesInv, RolesTypeOK
<1>9. Looked(k) = {}
  <2>1. ASSUME NEW i \in DOMAIN names, NEW j \in DOMAIN permissions PROVE ~(i < 1 \/ (i = 1 /\ j < 1))
    OBVIOUS
  <2> QED BY <1>2, <2>1 DEF Looked
<1>10. names = <<>> => T = {}
  BY <1>2, <1>4 DEF Carried, Asked
<1>11. 1 <= Len(permissions) \/ permissions = <<>>
  OBVIOUS
<1>12. ChecksSound'
  <2> SUFFICES ASSUME NEW d \in Checks
               PROVE  LET h == check'[d]
                      IN  /\ h.at = "checking" =>
                               /\ Carried(table, Asked(h)) \subseteq ever'[d]
                               /\ always'[d] \subseteq Carried(table, Asked(h))
                               /\ always'[d] \cap Looked(h) = {}
                               /\ h.permission <= Len(h.permissions) \/ h.permissions = <<>>
                          /\ h.at = "granted" => ever'[d] # {}
                          /\ h.at = "denied" => always'[d] = {}
    BY <1>3 DEF ChecksSound
  <2>1. CASE d = c
    BY <2>1, <1>2, <1>4, <1>8, <1>9, <1>10, <1>11
  <2>2. CASE d # c
    BY <2>2, <1>8 DEF RolesInv, ChecksSound
  <2> QED BY <2>1, <2>2
<1> QED BY <1>7, <1>12 DEF RolesInv

(* The ways for a check to go on.                                          *)
LEMMA LookSound ==
  ASSUME RolesInv, NEW c \in Checks, Look(c)
  PROVE  RolesInv'
<1>1. PICK k : k = check[c]
  OBVIOUS
<1>2. check \in CheckRecords
  BY DEF RolesInv, RolesTypeOK, CheckRecords, CallRecords
<1>3. k \in CallRecords
  BY <1>1, <1>2 DEF CheckRecords
<1>4. /\ k.at = "checking" /\ Carried(table, Asked(k)) \subseteq ever[c]
      /\ always[c] \subseteq Carried(table, Asked(k)) /\ always[c] \cap Looked(k) = {}
      /\ k.permission <= Len(k.permissions) \/ k.permissions = <<>>
  BY <1>1 DEF Look, RolesInv, ChecksSound
<1>5. PICK pair : pair = <<k.names[k.role], k.permissions[k.permission]>>
  OBVIOUS
<1>6. /\ Ended(k) => Asked(k) \subseteq Looked(k)
      /\ ~Ended(k) => /\ pair \in Asked(k)
                      /\ Further(k) \in CallRecords /\ Further(k).at = k.at
                      /\ Asked(Further(k)) = Asked(k)
                      /\ Looked(Further(k)) \subseteq Looked(k) \cup {pair}
                      /\ Further(k).permission <= Len(Further(k).permissions)
  BY <1>3, <1>4, <1>5, LookAt
<1>7. ~Ended(k) => (HasPermission(table, pair[1], pair[2]) <=> pair \in Carried(table, Asked(k)))
  <2> SUFFICES ASSUME ~Ended(k)
               PROVE  HasPermission(table, pair[1], pair[2]) <=> pair \in Carried(table, Asked(k))
    OBVIOUS
  <2>1. pair \in Names \X Permissions
    BY <1>3, <1>6, AskedTypes
  <2>2. IsTable(table)
    BY TableTypes DEF RolesInv
  <2>3. HasPermission(table, pair[1], pair[2]) <=> Entitled(table, pair[1], pair[2])
    BY <2>1, <2>2, LooksRight
  <2> QED BY <1>6, <2>3 DEF Carried
<1>8. PICK h : /\ check' = [check EXCEPT ![c] = h]
               /\ h = IF Ended(k) THEN [k EXCEPT !.at = "denied"]
                      ELSE IF HasPermission(table, pair[1], pair[2]) THEN [k EXCEPT !.at = "granted"]
                      ELSE Further(k)
  BY <1>1, <1>5 DEF Look
<1>9. table' = table /\ edits' = edits /\ ever' = ever /\ always' = always
  BY DEF Look
<1>10. /\ h \in CallRecords
       /\ h.at = "granted" => ever[c] # {}
       /\ h.at = "denied" => always[c] = {}
       /\ h.at = "checking" =>
            /\ Carried(table, Asked(h)) \subseteq ever[c]
            /\ always[c] \subseteq Carried(table, Asked(h)) /\ always[c] \cap Looked(h) = {}
            /\ h.permission <= Len(h.permissions) \/ h.permissions = <<>>
  <2>1. CASE Ended(k)
    <3>1. h = [k EXCEPT !.at = "denied"]
      BY <1>8, <2>1
    <3>2. h \in CallRecords /\ h.at = "denied"
      BY <1>3, <3>1 DEF CallRecords
    <3>3. always[c] = {}
      BY <1>4, <1>6, <2>1 DEF Carried
    <3> QED BY <3>2, <3>3
  <2>2. CASE ~Ended(k) /\ HasPermission(table, pair[1], pair[2])
    <3>1. h = [k EXCEPT !.at = "granted"]
      BY <1>8, <2>2
    <3>2. h \in CallRecords /\ h.at = "granted"
      BY <1>3, <3>1 DEF CallRecords
    <3>3. ever[c] # {}
      BY <1>4, <1>7, <2>2
    <3> QED BY <3>2, <3>3
  <2>3. CASE ~Ended(k) /\ ~HasPermission(table, pair[1], pair[2])
    <3>1. h = Further(k)
      BY <1>8, <2>3
    <3>2. h \in CallRecords /\ h.at = "checking" /\ h.permission <= Len(h.permissions)
      BY <1>4, <1>6, <2>3, <3>1
    <3>3. Carried(table, Asked(h)) = Carried(table, Asked(k))
      BY <1>6, <2>3, <3>1
    <3>4. pair \notin always[c]
      BY <1>4, <1>7, <2>3
    <3>5. always[c] \cap Looked(h) = {}
      BY <1>4, <1>6, <2>3, <3>1, <3>4
    <3> QED BY <1>4, <3>2, <3>3, <3>5
  <2> QED BY <2>1, <2>2, <2>3
<1>11. check' \in CheckRecords
  BY <1>2, <1>8, <1>10 DEF CheckRecords
<1>12. RolesTypeOK'
  BY <1>9, <1>11 DEF RolesInv, RolesTypeOK, CheckRecords, CallRecords
<1>13. check'[c] = h /\ \A d \in Checks \ {c} : check'[d] = check[d]
  BY <1>2, <1>8 DEF CheckRecords
<1>14. ChecksSound'
  <2> SUFFICES ASSUME NEW d \in Checks
               PROVE  LET g == check'[d]
                      IN  /\ g.at = "checking" =>
                               /\ Carried(table, Asked(g)) \subseteq ever[d]
                               /\ always[d] \subseteq Carried(table, Asked(g))
                               /\ always[d] \cap Looked(g) = {}
                               /\ g.permission <= Len(g.permissions) \/ g.permissions = <<>>
                          /\ g.at = "granted" => ever[d] # {}
                          /\ g.at = "denied" => always[d] = {}
    BY <1>9 DEF ChecksSound
  <2>1. CASE d = c
    BY <2>1, <1>10, <1>13
  <2>2. CASE d # c
    BY <2>2, <1>13 DEF RolesInv, ChecksSound
  <2> QED BY <2>1, <2>2
<1> QED BY <1>12, <1>14 DEF RolesInv

(* The administrators' operations change what is noted along with the      *)
(* table.                                                                  *)
LEMMA EditSound ==
  ASSUME RolesInv, NEW t \in [Names -> RoleRecords \cup {NoRole}], Edit(t)
  PROVE  RolesInv'
<1>1. /\ table' = t /\ edits < MaxEdits /\ edits' = edits + 1 /\ check' = check
      /\ ever' = [c \in Checks |-> IF check[c].at = "checking"
                                   THEN ever[c] \cup Carried(t, Asked(check[c])) ELSE ever[c]]
      /\ always' = [c \in Checks |-> IF check[c].at = "checking"
                                     THEN always[c] \cap Carried(t, Asked(check[c]))
                                     ELSE always[c]]
  BY DEF Edit
<1>2. check \in CheckRecords
  BY DEF RolesInv, RolesTypeOK, CheckRecords, CallRecords
<1>3. ASSUME NEW c \in Checks PROVE Carried(t, Asked(check[c])) \in SUBSET (Names \X Permissions)
  BY <1>2, CarriedTypes DEF CheckRecords
<1>4. edits' \in 0 .. MaxEdits
  BY <1>1, RolesAssumption DEF RolesInv, RolesTypeOK, RolesAssumption
<1>5. ever' \in [Checks -> SUBSET (Names \X Permissions)]
  BY <1>1, <1>3 DEF RolesInv, RolesTypeOK
<1>6. always' \in [Checks -> SUBSET (Names \X Permissions)]
  BY <1>1, <1>3 DEF RolesInv, RolesTypeOK
<1>7. RolesTypeOK'
  BY <1>1, <1>4, <1>5, <1>6 DEF RolesInv, RolesTypeOK
<1>8. ChecksSound'
  <2> SUFFICES ASSUME NEW d \in Checks
               PROVE  LET g == check[d]
                      IN  /\ g.at = "checking" =>
                               /\ Carried(t, Asked(g)) \subseteq ever'[d]
                               /\ always'[d] \subseteq Carried(t, Asked(g))
                               /\ always'[d] \cap Looked(g) = {}
                               /\ g.permission <= Len(g.permissions) \/ g.permissions = <<>>
                          /\ g.at = "granted" => ever'[d] # {}
                          /\ g.at = "denied" => always'[d] = {}
    BY <1>1 DEF ChecksSound
  <2>1. /\ ever'[d] = IF check[d].at = "checking"
                      THEN ever[d] \cup Carried(t, Asked(check[d])) ELSE ever[d]
        /\ always'[d] = IF check[d].at = "checking"
                        THEN always[d] \cap Carried(t, Asked(check[d])) ELSE always[d]
    BY <1>1
  <2> QED BY <2>1 DEF RolesInv, ChecksSound
<1> QED BY <1>7, <1>8 DEF RolesInv

LEMMA AdministerSound ==
  ASSUME RolesInv, Administer
  PROVE  RolesInv'
<1> DEFINE Tables == [Names -> RoleRecords \cup {NoRole}]
<1>1. table \in Tables
  BY DEF RolesInv, RolesTypeOK
<1>2. PICK name \in Names :
        \/ \E role \in Drafts : AddRole(name, role)
        \/ RemoveRole(name)
        \/ \E p \in Edits : AddPermissionToRole(name, p) \/ RemovePermissionFromRole(name, p)
  BY DEF Administer
<1>3. ASSUME NEW role \in Drafts, AddRole(name, role) PROVE RolesInv'
  <2>1. [table EXCEPT ![name] = role] \in Tables
    BY <1>1, RolesAssumption DEF RolesAssumption
  <2> QED BY <1>3, <2>1, EditSound DEF AddRole
<1>4. ASSUME RemoveRole(name) PROVE RolesInv'
  <2>1. [table EXCEPT ![name] = NoRole] \in Tables
    BY <1>1
  <2> QED BY <1>4, <2>1, EditSound DEF RemoveRole
<1>5. ASSUME NEW p \in Edits, AddPermissionToRole(name, p) PROVE RolesInv'
  <2>1. table[name] \in RoleRecords /\ p \in Permissions
    BY <1>1, <1>5 DEF AddPermissionToRole, Permissions
  <2>2. [table[name] EXCEPT !.permissions = @ \cup {p}] \in RoleRecords
    BY <2>1 DEF RoleRecords
  <2>3. [table EXCEPT ![name] = [table[name] EXCEPT !.permissions = @ \cup {p}]] \in Tables
    BY <1>1, <2>2
  <2> QED BY <1>5, <2>3, EditSound DEF AddPermissionToRole
<1>6. ASSUME NEW p \in Edits, RemovePermissionFromRole(name, p) PROVE RolesInv'
  <2>1. table[name] \in RoleRecords
    BY <1>1, <1>6 DEF RemovePermissionFromRole
  <2>2. [table[name] EXCEPT !.permissions = @ \ {p}] \in RoleRecords
    BY <2>1 DEF RoleRecords
  <2>3. [table EXCEPT ![name] = [table[name] EXCEPT !.permissions = @ \ {p}]] \in Tables
    BY <1>1, <2>2
  <2> QED BY <1>6, <2>3, EditSound DEF RemovePermissionFromRole
<1> QED BY <1>2, <1>3, <1>4, <1>5, <1>6

LEMMA RolesStutter ==
  ASSUME RolesInv, UNCHANGED roleVars
  PROVE  RolesInv'
<1>1. table' = table /\ check' = check /\ edits' = edits /\ ever' = ever /\ always' = always
  BY DEF roleVars
<1>2. RolesTypeOK'
  BY <1>1 DEF RolesInv, RolesTypeOK
<1>3. ChecksSound'
  BY <1>1 DEF RolesInv, ChecksSound
<1> QED BY <1>2, <1>3 DEF RolesInv

LEMMA RolesInvHolds == RolesSpec => []RolesInv
<1>1. RolesInv /\ [RolesNext]_roleVars => RolesInv'
  <2> SUFFICES ASSUME RolesInv, [RolesNext]_roleVars PROVE RolesInv'
    OBVIOUS
  <2>1. ASSUME NEW c \in Checks, NEW q \in Questions, CheckAccess(c, q[1], q[2]) PROVE RolesInv'
    <3>1. q[1] \in Seq(Names) /\ q[2] \in Seq(Permissions)
      BY RolesAssumption DEF RolesAssumption
    <3> QED BY <2>1, <3>1, CheckAccessSound
  <2> QED BY <2>1, LookSound, AdministerSound, RolesStutter DEF RolesNext
<1> QED BY <1>1, RolesInvInit, PTL DEF RolesSpec

(* The table, the checks and what is noted of them have their types: every *)
(* role that is stored inherits from names of roles, and a check that is   *)
(* under way looks at a pair it was asked about.                           *)
THEOREM RolesTypes == RolesSpec => []RolesTypeOK
<1>1. RolesInv => RolesTypeOK
  BY DEF RolesInv
<1> QED BY <1>1, RolesInvHolds, PTL

(* A check that grants rests on a role that carried a permission asked for *)
(* at some time during it, one that denies on all having lacked them, and  *)
(* a look at a role finds what it inherits: whatever the roles inherit     *)
(* from, in circles or from roles that are gone, and however the table is  *)
(* edited between the looks (HasPermission, CheckAnyAccess).               *)
THEOREM AccessSound == RolesSpec => []AccessJustified
<1>1. RolesInv => AccessJustified
  <2> SUFFICES ASSUME RolesInv PROVE AccessJustified
    OBVIOUS
  <2>1. ASSUME NEW c \in Checks
        PROVE  (check[c].at = "granted" => ever[c] # {}) /\ (check[c].at = "denied" => always[c] = {})
    BY DEF RolesInv, ChecksSound
  <2>2. ASSUME NEW c \in Checks, NEW pair \in Asked(check[c])
        PROVE  HasPermission(table, pair[1], pair[2]) <=> Entitled(table, pair[1], pair[2])
    <3>1. check[c] \in CallRecords
      BY DEF RolesInv, RolesTypeOK, CallRecords
    <3>2. pair \in Names \X Permissions
      BY <3>1, AskedTypes
    <3> QED BY <3>2, TableTypes, LooksRight DEF RolesInv
  <2> QED BY <2>1, <2>2 DEF AccessJustified
<1> QED BY <1>1, RolesInvHolds, PTL
=============================================================================
