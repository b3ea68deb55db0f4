---------------------------- MODULE HealthChecker ----------------------------
(***************************************************************************)
(* The health checker of the API gateway (libs/gateway/health.go).  Start  *)
(* marks the checker running, makes a new stop channel, checks every       *)
(* service once and leaves a goroutine behind that does so on every tick   *)
(* until it sees its stop channel closed -- but it reads hc.stop anew on   *)
(* every turn of its loop, when another Start may have replaced it.  Each  *)
(* check of a service is a goroutine of its own that talks to the service  *)
(* with no lock held and then writes the result into the record it was     *)
(* given, which may have been removed or replaced by then.                 *)
(*                                                                         *)
(* A runner is one call of Start together with the goroutine it becomes.   *)
(* Stop channels are numbered in the order they are made; channel 0 is     *)
(* the one NewHealthChecker makes.                                         *)
(***************************************************************************)
EXTENDS Integers, FiniteSets

CONSTANTS
  Runners,     \* the calls of Start
  Services,    \* names of services
  Records,     \* the serviceHealthCheck objects
  MaxCount,    \* bound: consecutive failures are counted up to here
  NoRecord     \* the service is not registered

ASSUME HealthAssumption ==
  /\ IsFiniteSet(Runners)
  /\ IsFiniteSet(Records)
  /\ MaxCount \in Nat \ {0}
  /\ NoRecord \notin Records

VARIABLES
  services,     \* hc.services
  owner,        \* the service each record was made for
  status,       \* svc.status
  consecutive,  \* svc.consecutive
  running,      \* hc.running
  stop,         \* hc.stop: the number of the channel
  closed,       \* the channels that have been closed
  runner,       \* each runner: where it is, and the channel it waits on
  toAsk,        \* the records each runner's CheckAll has still to ask about
  answer,       \* the answers each runner has received and not yet noted
  latest,       \* history: the last answer each record's service gave it
  crossed       \* history: the records that two runners asked about at a time

registry == <<services, owner>>
results == <<status, consecutive, latest, crossed>>
lifecycle == <<running, stop, closed>>
checks == <<toAsk, answer>>
healthVars == <<registry, results, lifecycle, runner, checks>>

Answers == {"healthy", "degraded", "unhealthy"}

HealthInit ==
  /\ services = [s \in Services |-> NoRecord]
  /\ owner = [x \in Records |-> NoRecord]
  /\ status = [x \in Records |-> "unknown"]
  /\ consecutive = [x \in Records |-> 0]
  /\ running = FALSE
  /\ stop = 0
  /\ closed = {}
  /\ runner = [e \in Runners |-> [at |-> "new", chan |-> 0]]
  /\ toAsk = [e \in Runners |-> {}]
  /\ answer = [e \in Runners |-> [x \in Records |-> "none"]]
  /\ latest = [x \in Records |-> "unknown"]
  /\ crossed = {}

-----------------------------------------------------------------------------
(* AddService, RemoveService: a service that is registered again starts    *)
(* with a record of its own.                                               *)
AddService(s) ==
  LET made == {y \in Records : owner[y] # NoRecord}
      x == CHOOSE y \in Records : y \notin made
  IN  /\ made # Records
      /\ services' = [services EXCEPT ![s] = x]
      /\ owner' = [owner EXCEPT ![x] = s]
      /\ UNCHANGED <<results, lifecycle, runner, checks>>

RemoveService(s) ==
  /\ services[s] # NoRecord
  /\ services' = [services EXCEPT ![s] = NoRecord]
  /\ UNCHANGED <<owner, results, lifecycle, runner, checks>>

Goes(e, from, to) ==
  /\ runner[e].at = from
  /\ runner' = [runner EXCEPT ![e].at = to]

(* CheckAll: the records registered now, under the read lock.              *)
Snapshot(e) ==
  /\ toAsk' = [toAsk EXCEPT ![e] = {services[s] : s \in Services} \ {NoRecord}]
  /\ UNCHANGED answer

(* Start, under the lock; it returns at once when the checker is running.  *)
Start_Mutant(e) ==
  /\ Goes(e, "new", "started")
  /\ e = CHOOSE f \in Runners : runner[f].at = "new"
  /\ ~running
  /\ running' = TRUE
  /\ UNCHANGED <<stop, closed, registry, results, checks>>
Start(e) ==
  /\ Goes(e, "new", "started")
  /\ e = CHOOSE f \in Runners : runner[f].at = "new"
  /\ ~running
  /\ running' = TRUE
  /\ stop' = stop + 1
  /\ UNCHANGED <<closed, registry, results, checks>>

(* ... and its first CheckAll.                                             *)
FirstCheck(e) ==
  /\ Goes(e, "started", "checking")
  /\ Snapshot(e)
  /\ UNCHANGED <<registry, results, lifecycle>>

Stop ==
  /\ running
  /\ closed' = closed \cup {stop}
  /\ running' = FALSE
  /\ UNCHANGED <<stop, registry, results, runner, checks>>

-----------------------------------------------------------------------------
(* run: one turn of its loop.                                              *)

(* CheckAll has returned, and the select looks at hc.stop as it is now.    *)
Select(e) ==
  /\ runner[e].at = "checking"
  /\ toAsk[e] = {}
  /\ \A x \in Records : answer[e][x] = "none"
  /\ runner' = [runner EXCEPT ![e] = [at |-> "waiting", chan |-> stop]]
  /\ UNCHANGED <<registry, results, lifecycle, checks>>

TickerFires(e) ==
  /\ Goes(e, "waiting", "checking")
  /\ Snapshot(e)
  /\ UNCHANGED <<registry, results, lifecycle>>

Quit(e) ==
  /\ Goes(e, "waiting", "gone")
  /\ runner[e].chan \in closed
  /\ UNCHANGED <<registry, results, lifecycle, checks>>

(* checkService: no answer or a 5xx is unhealthy, any other answer than a  *)
(* 2xx degraded.                                                           *)
Pending(x) == {e \in Runners : answer[e][x] # "none"}

CheckService(e, x) ==
  /\ x \in toAsk[e]
  /\ toAsk' = [toAsk EXCEPT ![e] = @ \ {x}]
  /\ \E how \in Answers :
       /\ answer' = [answer EXCEPT ![e][x] = how]
       /\ latest' = [latest EXCEPT ![x] = how]
  /\ crossed' = IF Pending(x) # {} THEN crossed \cup {x} ELSE crossed
  /\ UNCHANGED <<registry, status, consecutive, lifecycle, runner>>

(* updateServiceStatus, under the lock, on the record the check was given. *)
Update(e, x, y) ==
  /\ answer[e][x] # "none"
  /\ status' = [status EXCEPT ![y] = answer[e][x]]
  /\ consecutive' = [consecutive EXCEPT ![y] =
       IF answer[e][x] = "healthy" THEN 0
       ELSE IF @ < MaxCount THEN @ + 1 ELSE @]
  /\ answer' = [answer EXCEPT ![e][x] = "none"]
  /\ UNCHANGED <<latest, crossed, registry, lifecycle, runner, toAsk>>

UpdateServiceStatus_Mutant(e, x) ==
  /\ answer[e][x] # "none"
  /\ IF services[owner[x]] \in Records THEN Update(e, x, services[owner[x]])
     ELSE Update(e, x, x)
UpdateServiceStatus(e, x) == Update(e, x, x)

Proceed(e) ==
  \/ FirstCheck(e) \/ Select(e)
  \/ \E x \in Records : CheckService(e, x) \/ UpdateServiceStatus(e, x)

HealthNext ==
  \/ \E e \in Runners : Start(e) \/ Proceed(e) \/ TickerFires(e) \/ Quit(e)
  \/ Stop
  \/ \E s \in Services : AddService(s) \/ RemoveService(s)

(* Goroutines run, requests end (the client has a timeout), and a select   *)
(* with two ready cases takes each of them now and again.                  *)
HealthFairness ==
  \A e \in Runners :
    /\ WF_healthVars(Proceed(e))
    /\ SF_healthVars(Quit(e))

HealthSpec == HealthInit /\ [][HealthNext]_healthVars /\ HealthFairness

-----------------------------------------------------------------------------
(* What the handlers report: HealthHandler answers 503 when the aggregate  *)
(* is unhealthy, ReadinessHandler too, and both 200 otherwise.             *)
Listed == {services[s] : s \in Services} \ {NoRecord}
Aggregated ==
  IF \E x \in Listed : status[x] = "unhealthy" THEN "unhealthy"
  ELSE IF \E x \in Listed : status[x] # "healthy" THEN "degraded"
  ELSE "healthy"
Ready == Aggregated # "unhealthy"

HealthTypeOK ==
  /\ services \in [Services -> Records \cup {NoRecord}]
  /\ owner \in [Records -> Services \cup {NoRecord}]
  /\ status \in [Records -> Answers \cup {"unknown"}]
  /\ consecutive \in [Records -> 0 .. MaxCount]
  /\ running \in BOOLEAN
  /\ stop \in Nat
  /\ closed \subseteq 1 .. stop
  /\ runner \in [Runners ->
       [at : {"new", "started", "checking", "waiting", "gone"}, chan : Nat]]
  /\ toAsk \in [Runners -> SUBSET Records]
  /\ answer \in [Runners -> [Records -> Answers \cup {"none"}]]
  /\ latest \in [Records -> Answers \cup {"unknown"}]
  /\ crossed \subseteq Records

(* What is reported of a service is the last answer that it gave to a      *)
(* check of its present registration (unknown before the first): results   *)
(* of checks begun for a registration that has been replaced never show,   *)
(* and an older answer shows only if two runners were asking at a time.    *)
(* So the gateway is ready exactly when no service last answered with an   *)
(* error or not at all.                                                    *)
StatusFollowsAnswers ==
  LET settled == \A x \in Listed : Pending(x) = {} /\ x \notin crossed
  IN  /\ \A x \in Listed : Pending(x) = {} /\ x \notin crossed =>
           /\ status[x] = latest[x]
           /\ consecutive[x] = 0 <=> latest[x] \in {"unknown", "healthy"}
      /\ settled => (Ready <=> \A x \in Listed : latest[x] # "unhealthy")

(* After Stop every goroutine ends, also the second one that a Stop and a  *)
(* Start within one CheckAll leave behind, unless the checker is started   *)
(* again; and while it runs there is one that waits for the stop channel   *)
(* in use, or there will be.                                               *)
Alive(e) == runner[e].at \notin {"new", "gone"}
RunnersFollow ==
  /\ ~running ~> (running \/ \A e \in Runners : ~Alive(e))
  /\ running ~> (~running \/ \E e \in Runners : Alive(e) /\ runner[e].at = "waiting"
                                                /\ runner[e].chan = stop)
=============================================================================
