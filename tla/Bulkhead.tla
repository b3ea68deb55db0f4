------------------------------ MODULE Bulkhead ------------------------------
(***************************************************************************)
(* The bulkhead (libs/resilience/bulkhead.go): calls that run a function   *)
(* within it, at most MaxConcurrent at a time, at most MaxWaiting waiting. *)
(*                                                                         *)
(* Slots are the elements of the buffered channel b.semaphore; the         *)
(* counters live under b.mu, which is taken after the channel operation,   *)
(* never around it: every channel operation and every critical section is  *)
(* a step.  Senders that block on a full channel are served first in first *)
(* out, and a receive hands the freed place to the first of them at once   *)
(* (sendq), as Go's runtime does.  Time is left out: a waiter may give up  *)
(* at any moment, because WaitTimeout expires or its context is cancelled. *)
(***************************************************************************)
EXTENDS Integers, FiniteSets, SequencesExt

CONSTANTS
  Calls,          \* the calls of Execute, ExecuteWithResult and TryExecute
  MaxConcurrent,  \* BulkheadConfig.MaxConcurrent
  MaxWaiting      \* BulkheadConfig.MaxWaiting

ASSUME BulkheadAssumption ==
  /\ IsFiniteSet(Calls)
  /\ MaxConcurrent \in Nat
  /\ MaxWaiting \in Nat

VARIABLES
  slots,    \* len(b.semaphore)
  sendq,    \* the calls blocked sending on b.semaphore, in order
  waiting,  \* b.waiting
  active,   \* b.activeCount
  counts,   \* b.rejectedCount, b.successCount, b.failureCount
  pc,       \* the next step of each call
  result    \* history: how each call ended

bulkheadVars == <<slots, sendq, waiting, active, counts, pc, result>>

BulkheadInit ==
  /\ slots = 0
  /\ sendq = <<>>
  /\ waiting = 0
  /\ active = 0
  /\ counts = [rejected |-> 0, success |-> 0, failure |-> 0]
  /\ pc = [c \in Calls |-> "call"]
  /\ result = [c \in Calls |-> "none"]

Goto(c, from, to) == pc[c] = from /\ pc' = [pc EXCEPT ![c] = to]
End(c, how) == result' = [result EXCEPT ![c] = how]
Count(what) == counts' = [counts EXCEPT ![what] = @ + 1]

-----------------------------------------------------------------------------
(* Getting a slot.                                                         *)

(* The first select: a free place in the channel is taken ...              *)
TakeSlot(c) ==
  /\ slots < MaxConcurrent
  /\ Goto(c, "call", "count")
  /\ slots' = slots + 1
  /\ UNCHANGED <<sendq, waiting, active, counts, result>>

(* ... or the default: Execute goes on to wait, TryExecute is turned away. *)
Refuse(c) ==
  /\ slots >= MaxConcurrent
  /\ \/ Goto(c, "call", "queue")
     \/ Goto(c, "call", "reject")
  /\ UNCHANGED <<slots, sendq, waiting, active, counts, result>>

CountActive(c) ==
  /\ Goto(c, "count", "run")
  /\ active' = active + 1
  /\ UNCHANGED <<slots, sendq, waiting, counts, result>>

RejectTry(c) ==
  /\ Goto(c, "reject", "done")
  /\ Count("rejected")
  /\ End(c, "rejected")
  /\ UNCHANGED <<slots, sendq, waiting, active>>

-----------------------------------------------------------------------------
(* wait                                                                    *)

HasRoom_Mutant == waiting <= MaxWaiting
HasRoom == waiting < MaxWaiting

EnterQueue(c) ==
  /\ HasRoom
  /\ Goto(c, "queue", "select")
  /\ waiting' = waiting + 1
  /\ UNCHANGED <<slots, sendq, active, counts, result>>

RejectFull(c) ==
  /\ ~HasRoom
  /\ Goto(c, "queue", "done")
  /\ Count("rejected")
  /\ End(c, "rejected")
  /\ UNCHANGED <<slots, sendq, waiting, active>>

(* The second select takes a place that has become free meanwhile, ...     *)
TakeLate(c) ==
  /\ slots < MaxConcurrent
  /\ Goto(c, "select", "countlate")
  /\ slots' = slots + 1
  /\ UNCHANGED <<sendq, waiting, active, counts, result>>

(* ... or blocks, ...                                                      *)
Block(c) ==
  /\ slots >= MaxConcurrent
  /\ Goto(c, "select", "blocked")
  /\ sendq' = Append(sendq, c)
  /\ UNCHANGED <<slots, waiting, active, counts, result>>

(* ... and ends when the context does.                                     *)
GiveUp(c) ==
  /\ \/ /\ Goto(c, "select", "expired")
        /\ UNCHANGED sendq
     \/ /\ Goto(c, "blocked", "expired")
        /\ \E i \in DOMAIN sendq : sendq[i] = c /\ sendq' = RemoveAt(sendq, i)
  /\ UNCHANGED <<slots, waiting, active, counts, result>>

CountExpired(c) ==
  /\ Goto(c, "expired", "leave")
  /\ Count("rejected")
  /\ End(c, "rejected")
  /\ UNCHANGED <<slots, sendq, waiting, active>>

CountLate(c) ==
  /\ Goto(c, "countlate", "enter")
  /\ active' = active + 1
  /\ UNCHANGED <<slots, sendq, waiting, counts, result>>

(* The deferred waiting--, whichever way wait returns.                     *)
LeaveQueue(c) ==
  /\ \/ Goto(c, "enter", "run")
     \/ Goto(c, "leave", "done")
  /\ waiting' = waiting - 1
  /\ UNCHANGED <<slots, sendq, active, counts, result>>

-----------------------------------------------------------------------------
(* Running the function, and giving the slot back.                         *)

(* fn returns nil, returns an error, or panics, which skips the counting   *)
(* but not the deferred release.                                           *)
Run_Mutant(c) ==
  /\ \/ Goto(c, "run", "tally") /\ \E how \in {"success", "failure"} : End(c, how)
     \/ Goto(c, "run", "done") /\ End(c, "panic")
  /\ UNCHANGED <<slots, sendq, waiting, active, counts>>
Run(c) ==
  /\ \/ Goto(c, "run", "tally") /\ \E how \in {"success", "failure"} : End(c, how)
     \/ Goto(c, "run", "release") /\ End(c, "panic")
  /\ UNCHANGED <<slots, sendq, waiting, active, counts>>

Tally(c) ==
  /\ Goto(c, "tally", "release")
  /\ Count(result[c])
  /\ UNCHANGED <<slots, sendq, waiting, active, result>>

(* <-b.semaphore: the place goes to the first blocked sender, or is free.  *)
Release_Mutant(c) ==
  /\ Goto(c, "release", "uncount")
  /\ slots' = slots - 1
  /\ UNCHANGED <<sendq, waiting, active, counts, result>>
Release(c) ==
  /\ pc[c] = "release"
  /\ \/ /\ sendq = <<>>
        /\ Goto(c, "release", "uncount")
        /\ slots' = slots - 1
        /\ UNCHANGED sendq
     \/ /\ sendq # <<>>
        /\ pc' = [pc EXCEPT ![c] = "uncount", ![Head(sendq)] = "countlate"]
        /\ sendq' = Tail(sendq)
        /\ UNCHANGED slots
  /\ UNCHANGED <<waiting, active, counts, result>>

CountInactive_Mutant(c) ==
  /\ Goto(c, "uncount", "done")
  /\ active' = IF result[c] = "panic" THEN active ELSE active - 1
  /\ UNCHANGED <<slots, sendq, waiting, counts, result>>
CountInactive(c) ==
  /\ Goto(c, "uncount", "done")
  /\ active' = active - 1
  /\ UNCHANGED <<slots, sendq, waiting, counts, result>>

-----------------------------------------------------------------------------

Wait(c) ==
  \/ EnterQueue(c)
  \/ RejectFull(c)
  \/ TakeLate(c)
  \/ Block(c)
  \/ CountLate(c)
  \/ CountExpired(c)
  \/ LeaveQueue(c)

Execute(c) ==
  \/ TakeSlot(c)
  \/ Refuse(c)
  \/ CountActive(c)
  \/ RejectTry(c)
  \/ Wait(c)
  \/ Run(c)
  \/ Tally(c)
  \/ Release(c)
  \/ CountInactive(c)

BulkheadNext == \E c \in Calls : Execute(c) \/ GiveUp(c)

BulkheadSpec == BulkheadInit /\ [][BulkheadNext]_bulkheadVars

(* Goroutines are scheduled and functions end; nobody has to give up.      *)
BulkheadFairSpec == BulkheadSpec /\ \A c \in Calls : WF_bulkheadVars(Execute(c))

-----------------------------------------------------------------------------
(* Properties.                                                             *)

(* Where a call owns a place in the channel, where it is between waiting++ *)
(* and waiting--, and where between activeCount++ and activeCount--.       *)
HoldingAt  == {"count", "countlate", "enter", "run", "tally", "release"}
QueueingAt == {"select", "blocked", "expired", "leave", "countlate", "enter"}
CountedAt  == {"enter", "run", "tally", "release", "uncount"}

At(places) == {c \in Calls : pc[c] \in places}
Ended(how) == {c \in Calls : result[c] = how /\ pc[c] # "tally"}

PCs == {"call", "count", "queue", "reject", "select", "blocked", "expired", "leave",
        "countlate", "enter", "run", "tally", "release", "uncount", "done"}
Results == {"none", "success", "failure", "panic", "rejected"}

BulkheadTypeOK ==
  /\ slots \in Nat
  /\ sendq \in Seq(Calls)
  /\ waiting \in Int
  /\ active \in Int
  /\ counts \in [{"rejected", "success", "failure"} -> Nat]
  /\ pc \in [Calls -> PCs]
  /\ result \in [Calls -> Results]

(* No slot is ever lost or used twice: the channel holds one element for   *)
(* each call that owns a slot, through hand-overs, timeouts and panics, so *)
(* at most MaxConcurrent functions run at a time.                          *)
SlotsExact ==
  /\ slots = Cardinality(At(HoldingAt))
  /\ slots <= MaxConcurrent

(* waiting is the number of calls in the queue, however they leave it, and *)
(* never more than MaxWaiting.                                             *)
WaitingBounded ==
  /\ waiting = Cardinality(At(QueueingAt))
  /\ waiting <= MaxWaiting

(* Nobody is blocked while a slot is free, and a call is in the sender     *)
(* queue exactly when it is blocked, once: a waiter that gave up is not    *)
(* handed a slot.                                                          *)
WorkConserving ==
  /\ sendq # <<>> => slots = MaxConcurrent
  /\ \A c \in Calls : pc[c] = "blocked" <=> \E i \in DOMAIN sendq : sendq[i] = c
  /\ \A i, j \in DOMAIN sendq : sendq[i] = sendq[j] => i = j

(* The statistics settle: activeCount lags behind the slots in both        *)
(* directions, but when no call is between a slot operation and its count  *)
(* it is the number of slots in use; every call that ended is counted once *)
(* unless its function panicked.                                           *)
StatsSettle ==
  /\ active = Cardinality(At(CountedAt))
  /\ At({"count", "countlate", "uncount"}) = {} => active = slots
  /\ \A how \in DOMAIN counts :
       counts[how] = Cardinality(Ended(how))

(* Every call ends, without anybody having to give up: a slot given back   *)
(* goes to the call that has waited longest, and new calls cannot overtake *)
(* it for ever.                                                            *)
EveryCallEnds == \A c \in Calls : <>(pc[c] = "done")
=============================================================================
