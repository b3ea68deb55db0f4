---------------------------- MODULE GatewayProofs ----------------------------
(***************************************************************************)
(* What the gateway promises, for any routes, requests, keys, limiters,    *)
(* services and configuration: its circuit breaker, its health checker,    *)
(* and the request path that composes the breaker with the limiters and    *)
(* the keys of AdmissionProofs.                                            *)
(*                                                                         *)
(* Every step of the gateway is a step of its limiters, of its keys or of  *)
(* its breaker that leaves the other two alone: the gateway implements the *)
(* specification of each, and inherits what was proved of it.  That the    *)
(* callers who get through are entitled to is then a matter of what a      *)
(* request has passed by the time it is at each place of ServeHTTP.        *)
(***************************************************************************)
EXTENDS Gateway, HealthChecker, AdmissionProofs

-----------------------------------------------------------------------------
(* CircuitBreaker                                                          *)

(* The inductive invariant.  Admissions of a half-open period are counted  *)
(* in probes and never given back; each is still being proxied, or led to  *)
(* a success, or was lost.  Outside half-open nobody is probing.           *)

Accounted ==
  /\ state # "half-open" => probing = {}
  /\ state = "half-open" =>
       /\ Cardinality(probing) <= probes
       /\ probes <= ProbeLimit
       /\ probes <= Cardinality(probing) + successes + lost

IInv == TypeOK /\ CountersMatchState /\ Accounted

(* The requests that are probing are finitely many: adding or taking away  *)
(* one changes their number by one.                                        *)
LEMMA ProbingCount ==
  ASSUME TypeOK
  PROVE  /\ Cardinality(probing) \in Nat
         /\ Cardinality({}) = 0
         /\ \A r : Cardinality({r}) = 1
         /\ \A r : r \notin probing =>
              Cardinality(probing \cup {r}) = Cardinality(probing) + 1
         /\ \A r : Cardinality(probing \ {r}) =
              IF r \in probing THEN Cardinality(probing) - 1 ELSE Cardinality(probing)
<1>1. IsFiniteSet(probing)
  <2>1. probing \subseteq Requests
    BY DEF TypeOK
  <2> QED
    BY <2>1, ConfigAssumption, FS_Subset
<1> QED
  BY <1>1, FS_CardinalityType, FS_EmptySet, FS_Singleton, FS_AddElement, FS_RemoveElement

LEMMA InitIInv == Init => IInv
<1> SUFFICES ASSUME Init PROVE IInv
  OBVIOUS
<1> QED
  BY FS_EmptySet DEF Init, IInv, TypeOK, CountersMatchState, Accounted

LEMMA AllowIInv ==
  ASSUME IInv, NEW r \in Requests, Allow(r)
  PROVE  IInv'
<1> USE ConfigAssumption, ProbingCount DEF IInv, Allow
<1>1. TypeOK'
  BY DEF TypeOK, AllowClosed, AllowOpen, AllowHalfOpen, TransitionTo, breaker, period
<1>2. CountersMatchState'
  BY DEF TypeOK, CountersMatchState, AllowClosed, AllowOpen, AllowHalfOpen, TransitionTo,
         breaker, period
<1>3. Accounted'
  <2>1. CASE AllowClosed(r)
    BY <2>1 DEF Accounted, AllowClosed, breaker, period
  <2>2. CASE AllowOpen(r)
    BY <2>2 DEF Accounted, AllowOpen, TransitionTo, ProbeLimit, TypeOK
  <2>3. CASE AllowHalfOpen(r)
    <3>1. r \notin probing
      BY DEF TypeOK
    <3>2. Cardinality(probing') = Cardinality(probing) + 1
      BY <2>3, <3>1 DEF AllowHalfOpen
    <3> QED
      BY <2>3, <3>2 DEF Accounted, AllowHalfOpen, ProbeLimit, TypeOK
  <2> QED
    BY <2>1, <2>2, <2>3
<1> QED
  BY <1>1, <1>2, <1>3

LEMMA RecordSuccessIInv ==
  ASSUME IInv, NEW r \in Requests, RecordSuccess(r)
  PROVE  IInv'
<1> USE ConfigAssumption, ProbingCount DEF IInv, RecordSuccess
<1>1. TypeOK'
  BY DEF TypeOK, Leaves, CountSuccess, Reported, TransitionTo, breaker
<1>2. CountersMatchState'
  BY DEF TypeOK, CountersMatchState, CountSuccess, TransitionTo, breaker
<1>3. Accounted'
  <2>1. CASE state' = state
    <3>1. probing' = probing \ {r} /\ lost' = lost
      BY <2>1 DEF Reported
    <3>2. state = "half-open" => probes' = probes /\ successes' = successes + 1
      BY <2>1 DEF CountSuccess, TransitionTo, breaker
    <3>3. CASE state = "half-open"
      <4>1. Cardinality(probing) + successes
              <= Cardinality(probing') + successes' /\ Cardinality(probing') <= Cardinality(probing)
        BY <3>1, <3>2, <3>3 DEF TypeOK
      <4>2. Cardinality(probing') \in Int /\ successes' \in Nat
        BY <3>1, <3>2, <3>3 DEF TypeOK
      <4> QED
        BY <2>1, <3>1, <3>2, <3>3, <4>1, <4>2 DEF Accounted, TypeOK
    <3>4. CASE state # "half-open"
      BY <2>1, <3>1, <3>4 DEF Accounted
    <3> QED
      BY <3>3, <3>4
  <2>2. CASE state' # state
    BY <2>2 DEF Accounted, Reported, CountSuccess, TransitionTo, breaker
  <2> QED
    BY <2>1, <2>2
<1> QED
  BY <1>1, <1>2, <1>3

LEMMA RecordFailureIInv ==
  ASSUME IInv, NEW r \in Requests, RecordFailure(r)
  PROVE  IInv'
<1> USE ConfigAssumption DEF IInv, RecordFailure
<1>1. TypeOK'
  <2>1. /\ state' \in {"closed", "open", "half-open"}
        /\ failures' \in Nat /\ successes' \in Nat /\ probes' \in Nat
    BY DEF TypeOK, CountFailure, TransitionTo, breaker
  <2>2. /\ inFlight' \subseteq Requests /\ probing' \subseteq inFlight'
        /\ lost' \in Nat
    BY DEF TypeOK, Leaves, Reported
  <2> QED
    BY <2>1, <2>2 DEF TypeOK, Leaves
<1>2. CountersMatchState'
  BY DEF TypeOK, CountersMatchState, CountFailure, TransitionTo, breaker
<1>3. Accounted'
  BY DEF Accounted, Reported, CountFailure, TransitionTo, breaker
<1> QED
  BY <1>1, <1>2, <1>3

LEMMA AbortIInv ==
  ASSUME IInv, NEW r \in Requests, Abort(r)
  PROVE  IInv'
<1> USE ProbingCount DEF IInv, Abort, breaker
<1>1. TypeOK'
  BY DEF TypeOK, Leaves
<1>2. CountersMatchState'
  BY DEF CountersMatchState
<1>3. Accounted'
  BY DEF Accounted, TypeOK
<1> QED
  BY <1>1, <1>2, <1>3

LEMMA StallIInv ==
  ASSUME IInv, NEW r \in Requests, Stall(r)
  PROVE  IInv'
<1>1. /\ stalled' \in [Requests -> {"no", "unsent", "up", "down"}]
      /\ \A q \in Requests : stalled'[q] # "no" => q \in inFlight'
  BY DEF IInv, TypeOK, Stall
<1> QED
  BY <1>1 DEF IInv, TypeOK, CountersMatchState, Accounted, Stall, breaker, period

LEMMA NextIInv == IInv /\ [Next]_vars => IInv'
<1> SUFFICES ASSUME IInv, [Next]_vars PROVE IInv'
  OBVIOUS
<1>1. ASSUME NEW r \in Requests, Allow(r) \/ Stall(r) \/ Report(r) \/ Abort(r) PROVE IInv'
  BY <1>1, AllowIInv, StallIInv, RecordSuccessIInv, RecordFailureIInv, AbortIInv DEF Report
<1>2. CASE Reset
  BY <1>2 DEF Reset, TransitionTo, IInv, TypeOK, CountersMatchState, Accounted
<1>3. CASE CoolDown \/ Turn
  BY <1>3 DEF CoolDown, Turn, breaker, period, IInv, TypeOK, CountersMatchState, Accounted
<1>4. CASE UNCHANGED vars
  BY <1>4 DEF vars, breaker, period, IInv, TypeOK, CountersMatchState, Accounted
<1> QED
  BY <1>1, <1>2, <1>3, <1>4 DEF Next

(* The inductive invariant holds throughout.                               *)
THEOREM Invariance == Spec => []IInv
BY InitIInv, NextIInv, PTL DEF Spec

-----------------------------------------------------------------------------
(* The theorems.                                                           *)

(* The breaker's fields keep their types.                                  *)
THEOREM TypeCorrect == Spec => []TypeOK
<1>1. IInv => TypeOK
  BY DEF IInv
<1> QED
  BY <1>1, Invariance, PTL

(* Results that arrive late, from requests admitted in an earlier state,   *)
(* never leave a count behind in a state it does not belong to.            *)
THEOREM CountersCorrect == Spec => []CountersMatchState
<1>1. IInv => CountersMatchState
  BY DEF IInv
<1> QED
  BY <1>1, Invariance, PTL

(* Whatever the load and the configuration, a recovering backend gets no   *)
(* more requests at a time than the limit.                                 *)
THEOREM ProbesLimited == Spec => []ProbesBounded
<1>1. IInv => ProbesBounded
  BY ConfigAssumption, ProbingCount DEF IInv, Accounted, ProbesBounded, ProbeLimit, TypeOK
<1> QED
  BY <1>1, Invariance, PTL

(* As long as the probes that are lost or stalled leave room for the       *)
(* successes needed, a half-open breaker admits a request or is waiting    *)
(* for one that is not stalled: it cannot refuse the backend for ever.     *)
THEOREM NotStuck == Spec => []ProbeAvailable
<1>1. IInv => ProbeAvailable
  <2> SUFFICES ASSUME IInv, Spare, state = "half-open", probes >= HalfOpenRequests,
                      probing \subseteq StalledProbes
               PROVE  FALSE
    BY DEF ProbeAvailable
  <2>1. Cardinality(probing) = Cardinality(StalledProbes) /\ Cardinality(probing) \in Nat
    <3>1. StalledProbes = probing
      BY DEF StalledProbes
    <3> QED BY <3>1, ProbingCount DEF IInv
  <2>2. probes <= successes + lost + Cardinality(StalledProbes)
    BY <2>1 DEF IInv, Accounted, TypeOK
  <2>3. successes < Needed
    BY ConfigAssumption DEF IInv, TypeOK, CountersMatchState, Needed
  <2>4. /\ successes \in Nat /\ lost \in Nat /\ probes \in Nat /\ HalfOpenRequests \in Nat
        /\ Needed \in Nat
    BY ConfigAssumption DEF IInv, TypeOK, Needed
  <2> QED
    BY <2>1, <2>2, <2>3, <2>4 DEF Spare
<1> QED
  BY <1>1, Invariance, PTL

-----------------------------------------------------------------------------
(* HealthChecker                                                           *)

(* The health checker.  A record is settled unless two runners were asking *)
(* about it at a time: until then at most one answer is pending for it,    *)
(* the latest one, and when none is, the latest answer is its status.      *)

Settled(x) ==
  /\ \A e, f \in Pending(x) : e = f
  /\ \A e \in Pending(x) : answer[e][x] = latest[x]
  /\ Pending(x) = {} => status[x] = latest[x]

(* Failures are counted from the last healthy answer on.                   *)
Failing(x) == consecutive[x] = 0 <=> status[x] \in {"unknown", "healthy"}

HealthInv ==
  /\ HealthTypeOK
  /\ running => stop > 0
  /\ \A x \in Records : Failing(x) /\ (x \notin crossed => Settled(x))

LEMMA HealthInvInit == HealthInit => HealthInv
<1> SUFFICES ASSUME HealthInit PROVE HealthInv
  OBVIOUS
<1>1. HealthTypeOK
  <2>1. /\ consecutive \in [Records -> 0 .. MaxCount] /\ stop \in Nat /\ closed \subseteq 1 .. stop
        /\ runner \in [Runners -> [at : {"new", "started", "checking", "waiting", "gone"}, chan : Nat]]
    BY HealthAssumption DEF HealthInit
  <2>2. /\ services \in [Services -> Records \cup {NoRecord}]
        /\ owner \in [Records -> Services \cup {NoRecord}]
        /\ status \in [Records -> Answers \cup {"unknown"}]
        /\ latest \in [Records -> Answers \cup {"unknown"}]
        /\ running \in BOOLEAN /\ crossed \subseteq Records
    BY DEF HealthInit
  <2>3. toAsk \in [Runners -> SUBSET Records] /\ answer \in [Runners -> [Records -> Answers \cup {"none"}]]
    BY DEF HealthInit
  <2> QED BY <2>1, <2>2, <2>3 DEF HealthTypeOK
<1>2. \A x \in Records : Failing(x) /\ Settled(x)
  BY DEF HealthInit, Failing, Settled, Pending
<1> QED BY <1>1, <1>2 DEF HealthInv, HealthInit

(* The steps that note and ask for no answers.                             *)
LEMMA SettledSame ==
  ASSUME HealthInv, UNCHANGED <<status, consecutive, latest, crossed, answer>>
  PROVE  \A x \in Records : Failing(x)' /\ (x \notin crossed' => Settled(x)')
BY DEF HealthInv, Failing, Settled, Pending

LEMMA CheckSettles ==
  ASSUME HealthInv, NEW e \in Runners, NEW x \in Records, CheckService(e, x)
  PROVE  HealthInv'
<1>1. PICK how \in Answers : /\ answer' = [answer EXCEPT ![e][x] = how]
                             /\ latest' = [latest EXCEPT ![x] = how]
  BY DEF CheckService
<1>2. /\ answer \in [Runners -> [Records -> Answers \cup {"none"}]]
      /\ latest \in [Records -> Answers \cup {"unknown"}]
  BY DEF HealthInv, HealthTypeOK
<1>3. /\ answer' \in [Runners -> [Records -> Answers \cup {"none"}]]
      /\ answer'[e][x] = how
      /\ \A f \in Runners, y \in Records : f # e \/ y # x => answer'[f][y] = answer[f][y]
  BY <1>1, <1>2
<1>4. /\ latest' \in [Records -> Answers \cup {"unknown"}] /\ latest'[x] = how
      /\ \A y \in Records \ {x} : latest'[y] = latest[y]
  BY <1>1, <1>2
<1>5. UNCHANGED <<registry, status, consecutive, lifecycle, runner>>
  BY DEF CheckService
<1>6. HealthTypeOK'
  BY <1>3, <1>4, <1>5 DEF HealthInv, HealthTypeOK, CheckService, registry, lifecycle
<1>7. ASSUME NEW y \in Records PROVE Failing(y)' /\ (y \notin crossed' => Settled(y)')
  <2>1. Failing(y)'
    BY <1>5 DEF HealthInv, Failing
  <2>2. CASE y # x
    <3>1. Pending(y)' = Pending(y)
      BY <1>3, <2>2 DEF Pending
    <3>2. y \notin crossed' => y \notin crossed
      BY DEF CheckService
    <3>3. \A f \in Pending(y) : answer'[f][y] = answer[f][y]
      BY <1>3, <2>2 DEF Pending
    <3> QED BY <1>4, <1>5, <2>1, <2>2, <3>1, <3>2, <3>3 DEF HealthInv, Settled
  <2>3. CASE y = x /\ y \notin crossed'
    <3>1. Pending(x) = {}
      BY <2>3 DEF CheckService
    <3>2. how # "none"
      BY DEF Answers
    <3>3. Pending(x)' = {e}
      BY <1>3, <3>1, <3>2 DEF Pending
    <3> QED BY <1>3, <1>4, <2>1, <2>3, <3>3 DEF Settled
  <2> QED BY <2>1, <2>2, <2>3
<1> QED BY <1>5, <1>6, <1>7 DEF HealthInv, lifecycle

LEMMA UpdateSettles ==
  ASSUME HealthInv, NEW e \in Runners, NEW x \in Records, UpdateServiceStatus(e, x)
  PROVE  HealthInv'
<1> PICK how : how = answer[e][x]
  OBVIOUS
<1>1. /\ answer \in [Runners -> [Records -> Answers \cup {"none"}]]
      /\ status \in [Records -> Answers \cup {"unknown"}]
      /\ consecutive \in [Records -> 0 .. MaxCount]
  BY DEF HealthInv, HealthTypeOK
<1>2. /\ how \in Answers
      /\ status' = [status EXCEPT ![x] = how]
      /\ consecutive' = [consecutive EXCEPT ![x] = IF how = "healthy" THEN 0
                           ELSE IF consecutive[x] < MaxCount THEN consecutive[x] + 1 ELSE consecutive[x]]
      /\ answer' = [answer EXCEPT ![e][x] = "none"]
      /\ UNCHANGED <<latest, crossed, registry, lifecycle, runner, toAsk>>
  BY <1>1 DEF UpdateServiceStatus, Update
<1>3. /\ answer' \in [Runners -> [Records -> Answers \cup {"none"}]]
      /\ answer'[e][x] = "none"
      /\ \A f \in Runners, y \in Records : f # e \/ y # x => answer'[f][y] = answer[f][y]
  BY <1>1, <1>2
<1>4. /\ status' \in [Records -> Answers \cup {"unknown"}] /\ status'[x] = how
      /\ consecutive' \in [Records -> 0 .. MaxCount]
      /\ consecutive'[x] = 0 <=> how = "healthy"
      /\ \A y \in Records \ {x} : status'[y] = status[y] /\ consecutive'[y] = consecutive[y]
  <2>1. consecutive[x] \in 0 .. MaxCount /\ MaxCount \in Nat \ {0}
    BY <1>1, HealthAssumption
  <2> PICK n : n = IF how = "healthy" THEN 0
                   ELSE IF consecutive[x] < MaxCount THEN consecutive[x] + 1 ELSE consecutive[x]
    OBVIOUS
  <2>2. n \in 0 .. MaxCount /\ (n = 0 <=> how = "healthy")
    BY <2>1
  <2> QED BY <1>1, <1>2, <2>2
<1>5. HealthTypeOK'
  BY <1>2, <1>3, <1>4 DEF HealthInv, HealthTypeOK, registry, lifecycle
<1>6. ASSUME NEW y \in Records PROVE Failing(y)' /\ (y \notin crossed' => Settled(y)')
  <2>1. CASE y # x
    <3>1. Pending(y)' = Pending(y)
      BY <1>3, <2>1 DEF Pending
    <3>2. \A f \in Pending(y) : answer'[f][y] = answer[f][y]
      BY <1>3, <2>1 DEF Pending
    <3> QED BY <1>2, <1>4, <2>1, <3>1, <3>2 DEF HealthInv, Settled, Failing
  <2>2. CASE y = x
    <3>1. Failing(x)'
      BY <1>2, <1>4 DEF Failing, Answers
    <3>2. ASSUME x \notin crossed PROVE Settled(x)'
      <4>1. e \in Pending(x) /\ Settled(x)
        BY <1>2, <3>2 DEF Pending, Answers, HealthInv
      <4>2. Pending(x)' = {}
        BY <1>3, <4>1 DEF Pending, Settled
      <4>3. how = latest[x]
        BY <4>1 DEF Settled
      <4> QED BY <1>2, <1>4, <4>2, <4>3 DEF Settled
    <3> QED BY <1>2, <2>2, <3>1, <3>2
  <2> QED BY <2>1, <2>2
<1> QED BY <1>2, <1>5, <1>6 DEF HealthInv, lifecycle

LEMMA HealthInvNext == HealthInv /\ [HealthNext]_healthVars => HealthInv'
<1> SUFFICES ASSUME HealthInv, [HealthNext]_healthVars PROVE HealthInv'
  OBVIOUS
<1> USE HealthAssumption
<1>1. CASE UNCHANGED <<status, consecutive, latest, crossed, answer>> /\ HealthTypeOK'
           /\ (running' => stop' > 0)
  BY <1>1, SettledSame DEF HealthInv
<1>2. CASE UNCHANGED healthVars
  BY <1>1, <1>2 DEF healthVars, registry, results, lifecycle, checks, HealthInv, HealthTypeOK
<1>3. ASSUME NEW e \in Runners, Start(e) \/ Quit(e) \/ Select(e) \/ FirstCheck(e) \/ TickerFires(e)
      PROVE  HealthInv'
  <2>1. UNCHANGED <<status, consecutive, latest, crossed, answer, services, owner, closed>>
    BY <1>3 DEF Start, Quit, Select, FirstCheck, TickerFires, Snapshot, registry, results, lifecycle,
                checks
  <2>2. stop \in Nat /\ stop' \in Nat /\ stop' >= stop /\ running' \in BOOLEAN
        /\ (running' => stop' > 0)
    <3>1. stop \in Nat /\ running \in BOOLEAN /\ (running => stop > 0)
      BY DEF HealthInv, HealthTypeOK
    <3>2. CASE Start(e)
      BY <3>1, <3>2 DEF Start
    <3>3. CASE ~Start(e)
      <4>1. stop' = stop /\ running' = running
        BY <1>3, <3>3 DEF Quit, Select, FirstCheck, TickerFires, lifecycle
      <4>2. stop' \in Nat /\ stop' >= stop
        BY <3>1, <4>1
      <4> QED BY <3>1, <4>1, <4>2, Zenon
    <3> QED BY <3>2, <3>3
  <2>3. runner' \in [Runners -> [at : {"new", "started", "checking", "waiting", "gone"}, chan : Nat]]
    <3>1. /\ runner \in [Runners -> [at : {"new", "started", "checking", "waiting", "gone"}, chan : Nat]]
          /\ stop \in Nat
      BY DEF HealthInv, HealthTypeOK
    <3> QED BY <1>3, <3>1 DEF Start, Quit, Select, FirstCheck, TickerFires, Goes
  <2>4. toAsk' \in [Runners -> SUBSET Records]
    <3>1. toAsk \in [Runners -> SUBSET Records] /\ {services[s] : s \in Services} \ {NoRecord} \subseteq Records
      BY DEF HealthInv, HealthTypeOK
    <3> QED BY <1>3, <3>1 DEF Start, Quit, Select, FirstCheck, TickerFires, Snapshot, checks
  <2> QED BY <1>1, <2>1, <2>2, <2>3, <2>4 DEF HealthInv, HealthTypeOK
<1>4. ASSUME NEW e \in Runners, NEW x \in Records, CheckService(e, x) \/ UpdateServiceStatus(e, x)
      PROVE  HealthInv'
  BY <1>4, CheckSettles, UpdateSettles
<1>5. CASE Stop
  <2>1. closed' \subseteq 1 .. stop' /\ stop' = stop /\ running' = FALSE
    BY <1>5 DEF Stop, HealthInv, HealthTypeOK
  <2> QED BY <1>1, <1>5, <2>1 DEF Stop, registry, results, checks, HealthInv, HealthTypeOK
<1>6. ASSUME NEW s \in Services, AddService(s) \/ RemoveService(s) PROVE HealthInv'
  <2>1. UNCHANGED <<results, lifecycle, runner, checks>>
    BY <1>6 DEF AddService, RemoveService
  <2>2. services' \in [Services -> Records \cup {NoRecord}] /\ owner' \in [Records -> Services \cup {NoRecord}]
    <3>1. services \in [Services -> Records \cup {NoRecord}] /\ owner \in [Records -> Services \cup {NoRecord}]
      BY DEF HealthInv, HealthTypeOK
    <3>2. CASE RemoveService(s)
      BY <3>1, <3>2 DEF RemoveService
    <3>3. CASE AddService(s)
      <4>1. PICK made, x : /\ made = {y \in Records : owner[y] # NoRecord}
                           /\ x = CHOOSE y \in Records : y \notin made
        OBVIOUS
      <4>2. made # Records /\ services' = [services EXCEPT ![s] = x] /\ owner' = [owner EXCEPT ![x] = s]
        BY <3>3, <4>1 DEF AddService
      <4>3. \E y \in Records : y \notin made
        BY <4>1, <4>2
      <4>4. x \in Records
        BY <4>1, <4>3
      <4> QED BY <3>1, <4>2, <4>4
    <3> QED BY <1>6, <3>2, <3>3
  <2> QED BY <1>1, <2>1, <2>2 DEF results, lifecycle, checks, HealthInv, HealthTypeOK
<1> QED BY <1>2, <1>3, <1>4, <1>5, <1>6 DEF HealthNext, Proceed

(* The inductive invariant of the health checker holds.                    *)
THEOREM HealthInvHolds == HealthSpec => []HealthInv
BY HealthInvInit, HealthInvNext, PTL DEF HealthSpec

(* Every variable of the health checker has its type.                      *)
THEOREM HealthTypes == HealthSpec => []HealthTypeOK
BY HealthInvHolds, PTL DEF HealthInv

LEMMA HealthFollows == HealthInv => StatusFollowsAnswers
<1> SUFFICES ASSUME HealthInv PROVE StatusFollowsAnswers
  OBVIOUS
<1>1. Listed \subseteq Records
  BY DEF HealthInv, HealthTypeOK, Listed
<1>2. ASSUME NEW x \in Listed, Pending(x) = {}, x \notin crossed
      PROVE  status[x] = latest[x] /\ (consecutive[x] = 0 <=> latest[x] \in {"unknown", "healthy"})
  BY <1>1, <1>2 DEF HealthInv, Settled, Failing
<1>3. Ready <=> \A x \in Listed : status[x] # "unhealthy"
  BY DEF Ready, Aggregated
<1> QED BY <1>2, <1>3 DEF StatusFollowsAnswers

(* What is reported of a service is its last answer, for any number of     *)
(* services, registrations, and starts and stops of the checker.           *)
THEOREM StatusHonest == HealthSpec => []StatusFollowsAnswers
BY HealthInvHolds, HealthFollows, PTL

-----------------------------------------------------------------------------
(* Gateway: the request path.                                              *)

USE GatewayAssumption

Places == {"idle", "limiter", "bucket", "auth", "key", "roles", "breaker", "proxied"}

-----------------------------------------------------------------------------
(* findRoute                                                               *)

(* The least of finitely many numbers is one of them.                      *)
LEMMA LeastFirst ==
  ASSUME NEW N \in Nat, NEW S, S \subseteq 0 .. N, S # {}
  PROVE  First(S) \in S
  <1>1. S \subseteq Nat
    OBVIOUS
  <1>2. PICK n \in S : \A m \in S : n <= m
    BY <1>1, LeastNat
  <1> QED BY <1>2 DEF First

(* The route a request gets, if it gets one, serves its path and method,   *)
(* and its version unless the route has none.                              *)
THEOREM RouteServes ==
  ASSUME NEW q
  PROVE  /\ FindRoute(q) \in 0 .. Len(Routes)
         /\ FindRoute(q) # 0 =>
              /\ Serves(Routes[FindRoute(q)], q)
              /\ \/ VersionAgrees(Routes[FindRoute(q)], q)
                 \/ Routes[FindRoute(q)].version = ""
  <1> DEFINE fit == {i \in DOMAIN Routes : Serves(Routes[i], q) /\ VersionAgrees(Routes[i], q)}
             plain == {i \in DOMAIN Routes : Serves(Routes[i], q) /\ Routes[i].version = ""}
  <1>1. fit \subseteq 0 .. Len(Routes) /\ plain \subseteq 0 .. Len(Routes)
    <2>1. PICK N \in Nat : N = Len(Routes) /\ DOMAIN Routes = 1 .. N
      OBVIOUS
    <2>2. fit \subseteq DOMAIN Routes /\ plain \subseteq DOMAIN Routes
      OBVIOUS
    <2>3. DOMAIN Routes \subseteq 0 .. N
      BY <2>1
    <2> HIDE DEF fit, plain
    <2> QED BY <2>1, <2>2, <2>3
  <1>2. fit # {} => First(fit) \in fit
    <2> HIDE DEF fit, plain
    <2> QED BY <1>1, LeastFirst
  <1>3. plain # {} => First(plain) \in plain
    <2> HIDE DEF fit, plain
    <2> QED BY <1>1, LeastFirst
  <1>4. FindRoute(q) = IF fit # {} THEN First(fit) ELSE IF plain # {} THEN First(plain) ELSE 0
    BY DEF FindRoute
  <1>5. CASE fit # {}
    <2>1. FindRoute(q) \in fit
      <3> HIDE DEF fit, plain
      <3> QED BY <1>2, <1>4, <1>5
    <2> QED BY <1>1, <2>1
  <1>6. CASE fit = {} /\ plain # {}
    <2>1. FindRoute(q) \in plain
      <3> HIDE DEF fit, plain
      <3> QED BY <1>3, <1>4, <1>6
    <2> QED BY <1>1, <2>1
  <1>7. CASE fit = {} /\ plain = {}
    <2>1. FindRoute(q) = 0
      <3> HIDE DEF fit, plain
      <3> QED BY <1>4, <1>7
    <2> QED BY <2>1
  <1> QED BY <1>5, <1>6, <1>7

-----------------------------------------------------------------------------
(* The gateway's own variables.                                            *)

LEMMA MovesTypes ==
  ASSUME GatewayTypeOK, NEW r \in Requests, NEW from, NEW to \in Places, Moves(r, from, to)
  PROVE  GatewayTypeOK'
  BY DEF GatewayTypeOK, Moves, Places

LEMMA AnswerTypes ==
  ASSUME GatewayTypeOK, NEW r \in Requests, NEW from, Answer(r, from)
  PROVE  GatewayTypeOK'
  <1>1. 0 \in 0 .. Len(Routes)
    OBVIOUS
  <1> QED BY <1>1 DEF GatewayTypeOK, Answer

LEMMA GatewayTypeStep ==
  ASSUME GatewayTypeOK, [GatewayNext]_<<now, gatewayVars>>
  PROVE  GatewayTypeOK'
  <1>1. ASSUME NEW r \in Requests, NEW q \in Incoming, Arrive(r, q)
        PROVE  GatewayTypeOK'
    <2>1. PICK i \in 0 .. Len(Routes) : i = FindRoute(q)
      BY RouteServes
    <2>2. CASE i = 0
      BY <1>1, <2>1, <2>2, AnswerTypes DEF Arrive
    <2>3. CASE i # 0
      <3>1. /\ UNCHANGED global
            /\ at' = [at EXCEPT ![r] = "limiter"]
            /\ req' = [req EXCEPT ![r] = q]
            /\ route' = [route EXCEPT ![r] = i]
            /\ eligible' = [eligible EXCEPT ![r] = HasAnyRole(RolesOf(q), Routes[i].roles)]
        BY <1>1, <2>1, <2>3 DEF Arrive
      <3>2. HasAnyRole(RolesOf(q), Routes[i].roles) \in BOOLEAN
        BY DEF HasAnyRole
      <3> QED BY <3>1, <3>2 DEF GatewayTypeOK
    <2> QED BY <2>2, <2>3
  <1>2. ASSUME NEW r \in Requests,
               \/ PassLimiter(r) \/ AskLimiter(r) \/ LimiterDecides(r) \/ Authenticate(r)
               \/ PresentKey(r) \/ ValidateKey(r) \/ CheckRoles(r) \/ AskBreaker(r)
               \/ StallProxy(r) \/ EndProxy(r)
        PROVE  GatewayTypeOK'
    <2>1. \/ \E from, to \in Places : Moves(r, from, to)
          \/ \E from \in Places : Answer(r, from)
          \/ UNCHANGED requestVars
      BY <1>2, Zenon DEF PassLimiter, AskLimiter, LimiterDecides, Authenticate, PresentKey, ValidateKey,
             CheckRoles, AskBreaker, StallProxy, EndProxy, Places
    <2>2. CASE UNCHANGED requestVars
      BY <2>2 DEF requestVars, GatewayTypeOK
    <2> QED BY <2>1, <2>2, MovesTypes, AnswerTypes
  <1>3. CASE KeysChange
    <2>1. eligible' = [r \in Requests |->
            \/ eligible[r]
            \/ at[r] # "idle" /\ req[r].by = "key" /\ HasAnyRole(roles'[req[r].key], Rt(r).roles)]
      BY <1>3 DEF KeysChange
    <2>2. eligible' \in [Requests -> BOOLEAN]
      BY <2>1, Zenon DEF GatewayTypeOK, HasAnyRole
    <2> QED BY <1>3, <2>2 DEF KeysChange, GatewayTypeOK
  <1>4. CASE LimitersChange \/ BreakerChanges \/ GatewayTick \/ UNCHANGED <<now, gatewayVars>>
    BY <1>4 DEF LimitersChange, BreakerChanges, GatewayTick, gatewayVars, requestVars, GatewayTypeOK
  <1> QED BY <1>1, <1>2, <1>3, <1>4 DEF GatewayNext, ServeHTTP

(* The gateway's own variables keep their types.                           *)
THEOREM GatewayTypes == GatewaySpec => []GatewayTypeOK
  <1>1. GatewayInit => GatewayTypeOK
    <2>1. 0 \in 0 .. Len(Routes)
      OBVIOUS
    <2> QED BY <2>1 DEF GatewayInit, GatewayTypeOK
  <1> QED BY <1>1, GatewayTypeStep, PTL DEF GatewaySpec

-----------------------------------------------------------------------------
(* The gateway implements its parts.                                       *)

LEMMA LimiterStep ==
  ASSUME GatewayTypeOK, [GatewayNext]_<<now, gatewayVars>>
  PROVE  [LimiterNext]_<<now, limiterVars>>
  <1>1. ASSUME NEW r \in Requests, AskLimiter(r)
        PROVE  LimiterNext
    <2>1. PICK l \in LimiterOf(r), c \in Clients : Ask(r, <<l, c>>)
      BY <1>1 DEF AskLimiter
    <2>2. l \in Limiters
      BY DEF LimiterOf, GatewayTypeOK
    <2>3. <<l, c>> \in Sources
      BY <2>2 DEF Sources
    <2> QED BY <1>1, <2>1, <2>3 DEF AskLimiter, LimiterNext
  <1>2. ASSUME NEW r \in Requests, LimiterDecides(r)
        PROVE  LimiterNext
    BY <1>2 DEF LimiterDecides, LimiterNext
  <1>3. ASSUME NEW r \in Requests,
               \/ \E q \in Incoming : Arrive(r, q)
               \/ PassLimiter(r) \/ Authenticate(r) \/ PresentKey(r) \/ ValidateKey(r)
               \/ CheckRoles(r) \/ AskBreaker(r) \/ StallProxy(r) \/ EndProxy(r)
        PROVE  UNCHANGED <<now, limiterVars>>
    BY <1>3, Zenon DEF Arrive, PassLimiter, Authenticate, PresentKey, ValidateKey, CheckRoles,
           AskBreaker, StallProxy, EndProxy
  <1>4. CASE LimitersChange
    BY <1>4 DEF LimitersChange, LimiterNext
  <1>5. CASE GatewayTick
    BY <1>5 DEF GatewayTick, LimiterNext
  <1>6. CASE KeysChange \/ BreakerChanges \/ UNCHANGED <<now, gatewayVars>>
    BY <1>6 DEF KeysChange, BreakerChanges, gatewayVars
  <1> QED BY <1>1, <1>2, <1>3, <1>4, <1>5, <1>6 DEF GatewayNext, ServeHTTP

(* The gateway's limiters are those of RateLimiter, whatever requests do.  *)
THEOREM ImplementsLimiter == GatewaySpec => LimiterSpec
  BY GatewayTypes, LimiterStep, PTL DEF GatewaySpec, LimiterSpec

(* The promised rate holds for the requests that pass through the gateway. *)
THEOREM GatewayRateLimited == GatewaySpec => []LimiterHolds
  BY ImplementsLimiter, RateLimited, PTL

LEMMA BreakerStep ==
  ASSUME [GatewayNext]_<<now, gatewayVars>>
  PROVE  [Next]_vars
  <1>1. ASSUME NEW r \in Requests, AskBreaker(r)
        PROVE  [Next]_vars
    BY <1>1 DEF AskBreaker, Next
  <1>2. ASSUME NEW r \in Requests, StallProxy(r) \/ EndProxy(r)
        PROVE  [Next]_vars
    BY <1>2 DEF StallProxy, EndProxy, Next, Report
  <1>3. ASSUME NEW r \in Requests,
               \/ \E q \in Incoming : Arrive(r, q)
               \/ PassLimiter(r) \/ AskLimiter(r) \/ LimiterDecides(r) \/ Authenticate(r)
               \/ PresentKey(r) \/ ValidateKey(r) \/ CheckRoles(r)
        PROVE  UNCHANGED vars
    BY <1>3, Zenon DEF Arrive, PassLimiter, AskLimiter, LimiterDecides, Authenticate, PresentKey, ValidateKey,
           CheckRoles
  <1>4. CASE BreakerChanges
    BY <1>4 DEF BreakerChanges, Next
  <1>5. CASE KeysChange \/ LimitersChange \/ GatewayTick \/ UNCHANGED <<now, gatewayVars>>
    BY <1>5 DEF KeysChange, LimitersChange, GatewayTick, gatewayVars
  <1> QED BY <1>1, <1>2, <1>3, <1>4, <1>5 DEF GatewayNext, ServeHTTP

(* The breaker of a service behind the gateway is that of CircuitBreaker:  *)
(* it only ever hears of requests it has admitted.                         *)
THEOREM ImplementsBreaker == GatewaySpec => Spec
  BY BreakerStep, PTL DEF GatewaySpec, Spec

(* A recovering service gets no more requests at a time than the limit.    *)
THEOREM GatewayProbesLimited == GatewaySpec => []ProbesBounded
  BY ImplementsBreaker, ProbesLimited, PTL

LEMMA KeyOfRequest ==
  ASSUME GatewayTypeOK, NEW r \in Requests, req[r].by = "key"
  PROVE  req[r].key \in Keys
  <1>1. req[r] \in Incoming \cup {NoRequest}
    BY DEF GatewayTypeOK
  <1>2. NoRequest.by = "nobody"
    BY DEF NoRequest
  <1> QED BY <1>1, <1>2

LEMMA KeysStep ==
  ASSUME GatewayTypeOK, [GatewayNext]_<<now, gatewayVars>>
  PROVE  [KeysNext]_<<now, keyVars>>
  <1>1. ASSUME NEW r \in Requests, PresentKey(r)
        PROVE  KeysNext
    <2>1. req[r].key \in Keys
      BY <1>1, KeyOfRequest DEF PresentKey
    <2>2. ValidateAPIKey(r) /\ UNCHANGED now
      BY <1>1, <2>1 DEF PresentKey, ValidateAPIKey
    <2> QED BY <2>2 DEF KeysNext
  <1>2. ASSUME NEW r \in Requests, ValidateKey(r)
        PROVE  KeysNext
    <2>1. ValidateAPIKey(r) /\ UNCHANGED now
      BY <1>2, Zenon DEF ValidateKey, ValidateAPIKey
    <2> QED BY <2>1 DEF KeysNext
  <1>3. ASSUME NEW r \in Requests,
               \/ \E q \in Incoming : Arrive(r, q)
               \/ PassLimiter(r) \/ AskLimiter(r) \/ LimiterDecides(r) \/ Authenticate(r)
               \/ CheckRoles(r) \/ AskBreaker(r) \/ StallProxy(r) \/ EndProxy(r)
        PROVE  UNCHANGED <<now, keyVars>>
    BY <1>3, Zenon DEF Arrive, PassLimiter, AskLimiter, LimiterDecides, Authenticate, CheckRoles,
           AskBreaker, StallProxy, EndProxy
  <1>4. CASE KeysChange
    BY <1>4 DEF KeysChange, KeysNext
  <1>5. CASE GatewayTick
    BY <1>5 DEF GatewayTick, LimiterTick, KeysNext
  <1>6. CASE LimitersChange \/ BreakerChanges \/ UNCHANGED <<now, gatewayVars>>
    BY <1>6 DEF LimitersChange, BreakerChanges, gatewayVars
  <1> QED BY <1>1, <1>2, <1>3, <1>4, <1>5, <1>6 DEF GatewayNext, ServeHTTP

(* Requests to the gateway validate keys as ValidateAPIKey does, and only  *)
(* so.                                                                     *)
THEOREM ImplementsKeys == GatewaySpec => KeysSpec
  BY GatewayTypes, KeysStep, PTL DEF GatewaySpec, KeysSpec

(* No request gets through the gateway's check of its key after the key    *)
(* has been retired.                                                       *)
THEOREM GatewayRetiredRefused == GatewaySpec => []RetiredKeysRefused
  BY ImplementsKeys, RetiredRefused, PTL

-----------------------------------------------------------------------------
(* Who gets through.                                                       *)

(* What a request has passed by the time it is where it is.                *)
Passed(r) ==
  /\ at[r] = "key" =>
       req[r].by = "key" /\ vkey[r] = req[r].key /\ verdict[r] = "none"
  /\ at[r] \in {"roles", "breaker", "proxied"} /\ Rt(r).auth =>
       \/ req[r].by = "token"
       \/ req[r].by = "key" /\ vkey[r] = req[r].key /\ verdict[r] = "ok"

(* A caller that carries one of the route's roles is known to be eligible, *)
(* and behind the check of roles one that did so is enough.                *)
Qualified(r) ==
  /\ at[r] # "idle" /\ HasAnyRole(RolesOf(req[r]), Rt(r).roles) => eligible[r]
  /\ at[r] \in {"breaker", "proxied"} /\ Rt(r).auth /\ Rt(r).roles # {} => eligible[r]

Admitted == \A r \in Requests : Passed(r) /\ Qualified(r)

(* A request that nothing happens to.                                      *)
LEMMA WaitingKept ==
  ASSUME NEW r \in Requests, Passed(r), Qualified(r),
         at'[r] = at[r], req'[r] = req[r], route'[r] = route[r], eligible'[r] = eligible[r],
         vkey'[r] = vkey[r], verdict'[r] = verdict[r], roles' = roles
  PROVE  Passed(r)' /\ Qualified(r)'
  <1>1. Rt(r)' = Rt(r) /\ RolesOf(req[r])' = RolesOf(req[r])
    BY DEF Rt, RolesOf
  <1>2. Passed(r)'
    BY <1>1 DEF Passed
  <1>3. Qualified(r)'
    BY <1>1 DEF Qualified, HasAnyRole
  <1> QED BY <1>2, <1>3

(* An answered request has nothing to show.                                *)
LEMMA AnswerPasses ==
  ASSUME GatewayTypeOK, NEW r \in Requests, NEW from, Answer(r, from)
  PROVE  Passed(r)' /\ Qualified(r)'
  <1>1. at'[r] = "idle"
    BY DEF Answer, GatewayTypeOK
  <1> QED BY <1>1 DEF Passed, Qualified

(* A request that moves on shows what it has passed.                       *)
LEMMA MovePasses ==
  ASSUME GatewayTypeOK, NEW r \in Requests, NEW from, NEW to, Moves(r, from, to), roles' = roles,
         Passed(r), Qualified(r), from # "idle",
         to = "key" => req[r].by = "key" /\ vkey'[r] = req[r].key /\ verdict'[r] = "none",
         to \in {"roles", "breaker", "proxied"} /\ Rt(r).auth =>
           \/ req[r].by = "token"
           \/ req[r].by = "key" /\ vkey'[r] = req[r].key /\ verdict'[r] = "ok",
         to \in {"breaker", "proxied"} /\ Rt(r).auth /\ Rt(r).roles # {} =>
           HasAnyRole(RolesOf(req[r]), Rt(r).roles) \/ eligible[r]
  PROVE  Passed(r)' /\ Qualified(r)'
  <1>1. /\ at[r] = from /\ at'[r] = to /\ req' = req /\ route' = route /\ eligible' = eligible
    BY DEF Moves, GatewayTypeOK
  <1>2. Rt(r)' = Rt(r) /\ RolesOf(req[r])' = RolesOf(req[r])
    BY <1>1 DEF Rt, RolesOf
  <1>3. Passed(r)'
    BY <1>1, <1>2 DEF Passed
  <1>4. Qualified(r)'
    BY <1>1, <1>2 DEF Qualified, HasAnyRole
  <1> QED BY <1>3, <1>4

(* What a step of a validation makes of its key and its verdict.           *)
LEMMA ValidateVerdict ==
  ASSUME KeysTypeOK, NEW v \in Validators, Validate(v)
  PROVE  \/ verdict'[v] = "refused"
         \/ verdict'[v] \in {"ok", verdict[v]} /\ vkey'[v] = vkey[v]
  <1>1. ASSUME NEW from, Refuse(v, from)
        PROVE  verdict'[v] = "refused"
    BY <1>1 DEF Refuse, KeysTypeOK
  <1>2. ASSUME NEW from, NEW to, Step(v, from, to)
        PROVE  verdict'[v] = verdict[v] /\ vkey'[v] = vkey[v]
    BY <1>2 DEF Step
  <1>3. ASSUME Touch(v)
        PROVE  verdict'[v] = "ok" /\ vkey'[v] = vkey[v]
    BY <1>3 DEF Touch, KeysTypeOK
  <1>4. \/ Touch(v)
        \/ \E from \in {"active", "expiry", "count"} : Refuse(v, from)
        \/ \E from, to \in {"active", "expiry", "limit", "argument", "count", "touch"} :
             Step(v, from, to)
    BY DEF Validate, CheckActive, CheckExpiry, CheckLimited, ReadLimit, OpenMinute, CountUse,
           LimitReached
  <1> QED BY <1>1, <1>2, <1>3, <1>4

LEMMA ServePasses ==
  ASSUME GatewayTypeOK, KeysTypeOK, NEW r \in Requests, ServeHTTP(r), Passed(r), Qualified(r)
  PROVE  Passed(r)' /\ Qualified(r)'
  <1>1. ASSUME NEW q \in Incoming, Arrive(r, q)
        PROVE  Passed(r)' /\ Qualified(r)'
    <2>1. CASE FindRoute(q) = 0
      BY <1>1, <2>1, AnswerPasses DEF Arrive
    <2>2. CASE FindRoute(q) # 0
      <3>1. PICK i : i = FindRoute(q)
        OBVIOUS
      <3>2. PICK e : e = HasAnyRole(RolesOf(q), Routes[i].roles)
        OBVIOUS
      <3>3. /\ at' = [at EXCEPT ![r] = "limiter"]
            /\ req' = [req EXCEPT ![r] = q]
            /\ route' = [route EXCEPT ![r] = i]
            /\ eligible' = [eligible EXCEPT ![r] = e]
            /\ roles' = roles
        BY <1>1, <2>2, <3>1, <3>2 DEF Arrive, keyVars, keyRecord
      <3>4. at'[r] = "limiter" /\ req'[r] = q /\ route'[r] = i /\ eligible'[r] = e
        BY <3>3 DEF GatewayTypeOK
      <3>5. Rt(r)' = Routes[i] /\ RolesOf(req[r])' = RolesOf(q)
        BY <3>3, <3>4 DEF Rt, RolesOf
      <3>6. Passed(r)'
        BY <3>4 DEF Passed
      <3>7. Qualified(r)'
        BY <3>2, <3>4, <3>5 DEF Qualified, HasAnyRole
      <3> QED BY <3>6, <3>7
    <2> QED BY <2>1, <2>2
  <1>2. ASSUME PassLimiter(r) \/ AskLimiter(r) \/ LimiterDecides(r)
        PROVE  Passed(r)' /\ Qualified(r)'
    <2>1. roles' = roles
      BY <1>2 DEF PassLimiter, AskLimiter, LimiterDecides, keyVars, keyRecord
    <2>2. \/ Moves(r, "limiter", "auth") \/ Moves(r, "limiter", "bucket") \/ Moves(r, "bucket", "auth")
          \/ Answer(r, "bucket")
      BY <1>2, Zenon DEF PassLimiter, AskLimiter, LimiterDecides
    <2> QED BY <2>1, <2>2, AnswerPasses, MovePasses
  <1>3. ASSUME Authenticate(r)
        PROVE  Passed(r)' /\ Qualified(r)'
    <2>1. roles' = roles
      BY <1>3 DEF Authenticate, keyVars, keyRecord
    <2>2. CASE Moves(r, "auth", "breaker") /\ ~Rt(r).auth
      BY <2>1, <2>2, MovePasses
    <2>3. CASE Moves(r, "auth", "roles") /\ req[r].by = "token"
      BY <2>1, <2>3, MovePasses
    <2> QED BY <1>3, <2>2, <2>3, AnswerPasses DEF Authenticate
  <1>4. ASSUME PresentKey(r)
        PROVE  Passed(r)' /\ Qualified(r)'
    <2>1. CASE FindKey(r, req[r].key) /\ Moves(r, "auth", "key")
      <3>1. roles' = roles /\ req[r].by = "key"
        BY <1>4, <2>1 DEF FindKey, PresentKey, keyRecord
      <3>2. vkey'[r] = req[r].key /\ verdict'[r] = "none"
        BY <2>1 DEF FindKey, KeysTypeOK
      <3> QED BY <2>1, <3>1, <3>2, MovePasses
    <2> QED BY <1>4, <2>1, AnswerPasses DEF PresentKey
  <1>5. ASSUME ValidateKey(r)
        PROVE  Passed(r)' /\ Qualified(r)'
    <2>1. at[r] = "key" /\ Validate(r)
      BY <1>5 DEF ValidateKey
    <2>2. req[r].by = "key" /\ vkey[r] = req[r].key /\ verdict[r] = "none"
      BY <2>1 DEF Passed
    <2>3. \/ verdict'[r] = "refused"
          \/ verdict'[r] \in {"ok", "none"} /\ vkey'[r] = req[r].key
      BY <2>1, <2>2, ValidateVerdict
    <2>4. roles' = roles
      BY <2>1, ValidateFrame DEF ValidateAPIKey
    <2>5. CASE verdict'[r] = "ok"
      <3>1. Moves(r, "key", "roles")
        BY <1>5, <2>5 DEF ValidateKey
      <3> QED BY <2>2, <2>3, <2>4, <2>5, <3>1, MovePasses
    <2>6. CASE verdict'[r] = "refused"
      <3>1. Answer(r, "key")
        BY <1>5, <2>6 DEF ValidateKey
      <3> QED BY <3>1, AnswerPasses
    <2>7. CASE verdict'[r] = "none"
      <3>1. UNCHANGED requestVars
        BY <1>5, <2>7 DEF ValidateKey
      <3> QED BY <2>2, <2>3, <2>4, <2>7, <3>1, WaitingKept DEF requestVars
    <2> QED BY <2>3, <2>5, <2>6, <2>7
  <1>6. ASSUME CheckRoles(r)
        PROVE  Passed(r)' /\ Qualified(r)'
    <2>1. roles' = roles /\ UNCHANGED <<vkey, verdict>>
      BY <1>6 DEF CheckRoles, keyVars, keyRecord, calls
    <2>2. CASE Moves(r, "roles", "breaker")
               /\ (Rt(r).roles = {} \/ HasAnyRole(RolesOf(req[r]), Rt(r).roles))
      <3>1. at[r] = "roles"
        BY <2>2 DEF Moves
      <3> QED BY <2>1, <2>2, <3>1, MovePasses DEF Passed
    <2> QED BY <1>6, <2>2, AnswerPasses DEF CheckRoles
  <1>7. ASSUME AskBreaker(r)
        PROVE  Passed(r)' /\ Qualified(r)'
    <2>1. roles' = roles /\ UNCHANGED <<vkey, verdict>>
      BY <1>7 DEF AskBreaker, keyVars, keyRecord, calls
    <2>2. CASE Moves(r, "breaker", "proxied")
      <3>1. at[r] = "breaker"
        BY <2>2 DEF Moves
      <3> QED BY <2>1, <2>2, <3>1, MovePasses DEF Passed, Qualified
    <2> QED BY <1>7, <2>2, AnswerPasses DEF AskBreaker
  <1>8. ASSUME EndProxy(r)
        PROVE  Passed(r)' /\ Qualified(r)'
    BY <1>8, AnswerPasses DEF EndProxy
  <1>9. ASSUME StallProxy(r)
        PROVE  Passed(r)' /\ Qualified(r)'
    <2>1. UNCHANGED <<at, req, route, eligible, vkey, verdict, roles>>
      BY <1>9 DEF StallProxy, requestVars, keyVars, keyRecord, calls
    <2> QED BY <2>1, WaitingKept
  <1> QED BY <1>1, <1>2, <1>3, <1>4, <1>5, <1>6, <1>7, <1>8, <1>9 DEF ServeHTTP

(* The step of one request leaves the others where they are.               *)
LEMMA OthersWait ==
  ASSUME GatewayTypeOK, KeysTypeOK, NEW r \in Requests, ServeHTTP(r), NEW s \in Requests, s # r
  PROVE  /\ at'[s] = at[s] /\ req'[s] = req[s] /\ route'[s] = route[s]
         /\ eligible'[s] = eligible[s]
         /\ vkey'[s] = vkey[s] /\ verdict'[s] = verdict[s] /\ roles' = roles
  <1>1. ASSUME NEW from, Answer(r, from)
        PROVE  at'[s] = at[s] /\ req'[s] = req[s] /\ route'[s] = route[s] /\ eligible'[s] = eligible[s]
    BY <1>1 DEF Answer, GatewayTypeOK
  <1>2. ASSUME NEW from, NEW to, Moves(r, from, to)
        PROVE  at'[s] = at[s] /\ req'[s] = req[s] /\ route'[s] = route[s] /\ eligible'[s] = eligible[s]
    BY <1>2 DEF Moves, GatewayTypeOK
  <1>3. at'[s] = at[s] /\ req'[s] = req[s] /\ route'[s] = route[s] /\ eligible'[s] = eligible[s]
    <2>1. ASSUME NEW q \in Incoming, Arrive(r, q)
          PROVE  at'[s] = at[s] /\ req'[s] = req[s] /\ route'[s] = route[s] /\ eligible'[s] = eligible[s]
      <3>1. CASE FindRoute(q) = 0
        BY <1>1, <2>1, <3>1 DEF Arrive
      <3>2. CASE FindRoute(q) # 0
        BY <2>1, <3>2 DEF Arrive, GatewayTypeOK
      <3> QED BY <3>1, <3>2
    <2>2. ASSUME \/ PassLimiter(r) \/ AskLimiter(r) \/ LimiterDecides(r) \/ Authenticate(r)
                 \/ PresentKey(r) \/ ValidateKey(r) \/ CheckRoles(r) \/ AskBreaker(r)
                 \/ StallProxy(r) \/ EndProxy(r)
          PROVE  \/ \E from, to \in Places : Moves(r, from, to)
                 \/ \E from \in Places : Answer(r, from)
                 \/ UNCHANGED requestVars
      BY <2>2, Zenon DEF PassLimiter, AskLimiter, LimiterDecides, Authenticate, PresentKey,
             ValidateKey, CheckRoles, AskBreaker, StallProxy, EndProxy, Places
    <2>3. CASE UNCHANGED requestVars
      BY <2>3 DEF requestVars
    <2> QED BY <1>1, <1>2, <2>1, <2>2, <2>3 DEF ServeHTTP
  <1>4. vkey'[s] = vkey[s] /\ verdict'[s] = verdict[s] /\ roles' = roles
    <2>1. ASSUME UNCHANGED keyVars
          PROVE  vkey'[s] = vkey[s] /\ verdict'[s] = verdict[s] /\ roles' = roles
      BY <2>1 DEF keyVars, keyRecord, calls
    <2>2. ASSUME NEW k, FindKey(r, k) \/ KeyNotFound(r, k)
          PROVE  vkey'[s] = vkey[s] /\ verdict'[s] = verdict[s] /\ roles' = roles
      BY <2>2 DEF FindKey, KeyNotFound, Refuse, keyRecord, KeysTypeOK
    <2>3. ASSUME Validate(r)
          PROVE  vkey'[s] = vkey[s] /\ verdict'[s] = verdict[s] /\ roles' = roles
      <3>1. roles' = roles
        BY <2>3, ValidateFrame DEF ValidateAPIKey
      <3> QED BY <2>3, <3>1 DEF Validate, CheckActive, CheckExpiry, CheckLimited, ReadLimit,
             OpenMinute, CountUse, LimitReached, Touch, Step, Refuse, KeysTypeOK
    <2>4. \/ UNCHANGED keyVars
          \/ \E k : FindKey(r, k) \/ KeyNotFound(r, k)
          \/ Validate(r)
      BY Zenon DEF ServeHTTP, Arrive, PassLimiter, AskLimiter, LimiterDecides, Authenticate,
             PresentKey, ValidateKey, CheckRoles, AskBreaker, StallProxy, EndProxy
    <2> QED BY <2>1, <2>2, <2>3, <2>4
  <1> QED BY <1>3, <1>4

LEMMA AdmittedStep ==
  ASSUME GatewayTypeOK, KeysTypeOK, Admitted, [GatewayNext]_<<now, gatewayVars>>
  PROVE  Admitted'
  <1>1. ASSUME NEW r \in Requests, ServeHTTP(r)
        PROVE  Admitted'
    <2>1. Passed(r)' /\ Qualified(r)'
      BY <1>1, ServePasses DEF Admitted
    <2>2. ASSUME NEW s \in Requests, s # r
          PROVE  Passed(s)' /\ Qualified(s)'
      BY <1>1, <2>2, OthersWait, WaitingKept DEF Admitted
    <2> QED BY <2>1, <2>2 DEF Admitted
  <1>2. CASE KeysChange
    <2> SUFFICES ASSUME NEW r \in Requests
                 PROVE  Passed(r)' /\ Qualified(r)'
      BY DEF Admitted
    <2>1. Passed(r) /\ Qualified(r)
      BY DEF Admitted
    <2>2. /\ UNCHANGED <<at, req, route>>
          /\ eligible' = [s \in Requests |->
               \/ eligible[s]
               \/ at[s] # "idle" /\ req[s].by = "key" /\ HasAnyRole(roles'[req[s].key], Rt(s).roles)]
      BY <1>2 DEF KeysChange
    <2>3. UNCHANGED <<vkey, verdict>>
      BY <1>2 DEF KeysChange, Manage, GenerateAPIKey, RevokeAPIKey, DeleteAPIKey, UpdateAPIKeyRoles,
             UpdateAPIKeyRateLimit, RotateAPIKey, RotateFind, RotateRead, RotatePublish,
             RotateCopy, RotateRetire, calls
    <2>4. eligible'[r] <=>
            \/ eligible[r]
            \/ at[r] # "idle" /\ req[r].by = "key" /\ HasAnyRole(roles'[req[r].key], Rt(r).roles)
      BY <2>2, Zenon
    <2>5. Rt(r)' = Rt(r)
      BY <2>2 DEF Rt
    <2>6. Passed(r)'
      BY <2>1, <2>2, <2>3, <2>5 DEF Passed
    <2>7. at[r] # "idle" /\ HasAnyRole(RolesOf(req[r]), Rt(r).roles)' => eligible'[r]
      <3>1. CASE req[r].by = "key"
        <4>1. HasAnyRole(RolesOf(req[r]), Rt(r).roles)' = HasAnyRole(roles'[req[r].key], Rt(r).roles)
          BY <2>2, <2>5, <3>1 DEF RolesOf, HasAnyRole
        <4> QED BY <2>4, <3>1, <4>1
      <3>2. CASE req[r].by # "key"
        <4>1. HasAnyRole(RolesOf(req[r]), Rt(r).roles)' = HasAnyRole(RolesOf(req[r]), Rt(r).roles)
          BY <2>2, <2>5, <3>2 DEF RolesOf, HasAnyRole
        <4> QED BY <2>1, <2>4, <4>1 DEF Qualified
      <3> QED BY <3>1, <3>2
    <2>8. at[r] \in {"breaker", "proxied"} /\ Rt(r).auth /\ Rt(r).roles # {} => eligible'[r]
      BY <2>1, <2>4 DEF Qualified
    <2>9. Qualified(r)'
      BY <2>2, <2>5, <2>7, <2>8 DEF Qualified
    <2> QED BY <2>6, <2>9
  <1>3. CASE LimitersChange \/ BreakerChanges \/ GatewayTick \/ UNCHANGED <<now, gatewayVars>>
    <2>1. UNCHANGED <<at, req, route, eligible, vkey, verdict, roles>>
      BY <1>3 DEF LimitersChange, BreakerChanges, GatewayTick, gatewayVars, requestVars, keyVars,
             keyRecord, calls
    <2> QED BY <2>1, WaitingKept DEF Admitted
  <1> QED BY <1>1, <1>2, <1>3 DEF GatewayNext

(* Whoever reaches the service behind a protected route was entitled to it *)
(* while the request was in the gateway, for any routes and any number of  *)
(* requests, keys and operators, and whatever becomes of the keys and      *)
(* their roles between the steps of ServeHTTP.                             *)
THEOREM OnlyEntitled == GatewaySpec => []CallersEntitled
  <1>1. GatewayInit => Admitted
    BY DEF GatewayInit, Admitted, Passed, Qualified
  <1>2. GatewaySpec => []KeysInv
    BY ImplementsKeys, KeysInvHolds, PTL
  <1>3. GatewaySpec => []Admitted
    <2>1. KeysInv => KeysTypeOK
      BY DEF KeysInv
    <2> QED BY <1>1, <1>2, <2>1, GatewayTypes, AdmittedStep, PTL DEF GatewaySpec
  <1>4. ASSUME KeysInv, Admitted
        PROVE  CallersEntitled
    <2> SUFFICES ASSUME NEW r \in Requests, at[r] \in {"breaker", "proxied"}, Rt(r).auth
                 PROVE  /\ \/ req[r].by = "token"
                           \/ req[r].by = "key" /\ vkey[r] = req[r].key /\ verdict[r] = "ok"
                              /\ ~doomed[r]
                        /\ Rt(r).roles # {} => eligible[r]
      BY DEF CallersEntitled
    <2>1. Passed(r) /\ Qualified(r) /\ ValidationSound(r)
      BY <1>4 DEF Admitted, KeysInv
    <2>2. verdict[r] = "ok" => ~doomed[r]
      BY <2>1 DEF ValidationSound, InUse
    <2> QED BY <2>1, <2>2 DEF Passed, Qualified
  <1> QED BY <1>2, <1>3, <1>4, PTL

(* No key is counted above the largest limit it has had within the minute  *)
(* being counted, nor let in more than twice as often within any minute,   *)
(* by the requests of the gateway either: what validates them is the API   *)
(* key manager of APIKeys (ValidateAPIKey).                                *)
THEOREM GatewayKeyLimited == GatewaySpec => []KeyLimitHolds
  BY ImplementsKeys, KeyLimited, PTL

=============================================================================
