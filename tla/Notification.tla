---------------------------- MODULE Notification ----------------------------
(***************************************************************************)
(* The notification service (services/notification): Send and SendSync,    *)
(* the queue and its one worker, deliveries and their retries.             *)
(*                                                                         *)
(* A delivery (deliver) runs in one of three kinds of goroutine: the       *)
(* worker, the caller of Send when the queue is full, and a goroutine that *)
(* a failed delivery starts to try again later.  updateStatus takes the    *)
(* service's lock, RetryCount and the channel do not, so each of these is  *)
(* a step.  Time is left out: a retry goroutine may wake at any moment.    *)
(* Senders answer with success or failure as they please.                  *)
(***************************************************************************)
EXTENDS Integers, FiniteSets, Sequences

CONSTANTS
  Procs,       \* goroutines that call Send and SendSync
  Worker,      \* the goroutine running processQueue
  Ntfs,        \* notification IDs generateID can return (bounds the model)
  None,        \* no notification
  QueueCap,    \* capacity of the queue (1000 in the code)
  MaxRetries   \* Notification.MaxRetries (3 in the code)

ASSUME ConstantsAssumption ==
  /\ None \notin Ntfs
  /\ Worker \notin Procs
  /\ QueueCap \in Nat \ {0}
  /\ MaxRetries \in Nat \ {0}

(* The goroutine started by the k-th failure of n.                         *)
Retries == Ntfs \X (1 .. MaxRetries - 1)
Threads == Procs \cup {Worker} \cup Retries

ASSUME ThreadsAssumption == (Procs \cup {Worker}) \cap Retries = {}

VARIABLES
  status,      \* Notification.Status, by ID ("none": not created yet)
  retryCount,  \* Notification.RetryCount
  queue,       \* NotificationService.queue
  pc,          \* the next step of each goroutine
  job,         \* the notification it works on
  sync,        \* the callers that called SendSync
  attempts     \* history: the answers of the sender, by notification

vars == <<status, retryCount, queue, pc, job, sync, attempts>>

Init ==
  /\ status = [n \in Ntfs |-> "none"]
  /\ retryCount = [n \in Ntfs |-> 0]
  /\ queue = <<>>
  /\ pc = [t \in Threads |-> "idle"]
  /\ job = [t \in Threads |-> None]
  /\ sync = {}
  /\ attempts = [n \in Ntfs |-> <<>>]

Goto(t, from, to) == pc[t] = from /\ pc' = [pc EXCEPT ![t] = to]

UpdateStatus(t, s) == status' = [status EXCEPT ![job[t]] = s]

-----------------------------------------------------------------------------
(* Send and SendSync.                                                      *)

(* The notification is built and stored, under the lock.                   *)
Send(p, n) ==
  /\ status[n] = "none"
  /\ Goto(p, "idle", "enqueue")
  /\ job' = [job EXCEPT ![p] = n]
  /\ sync' \in {sync, sync \cup {p}}
  /\ status' = [status EXCEPT ![n] = "queued"]
  /\ UNCHANGED <<retryCount, queue, attempts>>

(* A caller that has handed over its notification returns, from SendSync   *)
(* after waiting; a delivering worker or retry goroutine is done.          *)
Leave(t, from) ==
  \/ /\ t \in sync
     /\ Goto(t, from, "poll")
     /\ UNCHANGED job
  \/ /\ t \notin sync
     /\ Goto(t, from, "idle")
     /\ job' = [job EXCEPT ![t] = None]

Enqueue_Mutant(p) ==
  /\ Len(queue) < QueueCap
  /\ queue' = Append(queue, job[p])
  /\ Goto(p, "enqueue", "begin")
  /\ UNCHANGED <<status, retryCount, job, sync, attempts>>
Enqueue(p) ==
  /\ Len(queue) < QueueCap
  /\ queue' = Append(queue, job[p])
  /\ Leave(p, "enqueue")
  /\ UNCHANGED <<status, retryCount, sync, attempts>>

(* "Queue full, process synchronously": in the caller.                     *)
Overflow_Mutant(p) ==
  /\ Len(queue) >= QueueCap
  /\ Leave(p, "enqueue")
  /\ UNCHANGED <<status, retryCount, queue, sync, attempts>>
Overflow(p) ==
  /\ Len(queue) >= QueueCap
  /\ Goto(p, "enqueue", "begin")
  /\ UNCHANGED <<status, retryCount, queue, job, sync, attempts>>

(* SendSync reads the status with no lock.  A status is a string of two    *)
(* words: one that is just being written may read as neither the old nor   *)
(* the new one, which ends the loop as well.                               *)
BeingWritten(n) ==
  \E t \in Threads : job[t] = n /\ pc[t] \in {"begin", "sent", "decide"}

Waiting_Mutant(s) == s # "delivered"
Waiting(s) == s \in {"queued", "sending"}

Poll(p) ==
  /\ Goto(p, "poll", "idle")
  /\ ~Waiting(status[job[p]]) \/ BeingWritten(job[p])
  /\ job' = [job EXCEPT ![p] = None]
  /\ sync' = sync \ {p}
  /\ UNCHANGED <<status, retryCount, queue, attempts>>

-----------------------------------------------------------------------------
(* processQueue and deliver.                                               *)

TakeNext ==
  /\ queue # <<>>
  /\ Goto(Worker, "idle", "begin")
  /\ job' = [job EXCEPT ![Worker] = Head(queue)]
  /\ queue' = Tail(queue)
  /\ UNCHANGED <<status, retryCount, sync, attempts>>

MarkSending(t) ==
  /\ Goto(t, "begin", "send")
  /\ UpdateStatus(t, "sending")
  /\ UNCHANGED <<retryCount, queue, job, sync, attempts>>

(* The sender's answer.                                                    *)
CallSender(t) ==
  /\ \/ /\ Goto(t, "send", "sent")
        /\ attempts' = [attempts EXCEPT ![job[t]] = Append(@, "ok")]
     \/ /\ Goto(t, "send", "failed")
        /\ attempts' = [attempts EXCEPT ![job[t]] = Append(@, "error")]
  /\ UNCHANGED <<status, retryCount, queue, job, sync>>

MarkDelivered(t) ==
  /\ Leave(t, "sent")
  /\ UpdateStatus(t, "delivered")
  /\ UNCHANGED <<retryCount, queue, sync, attempts>>

CountFailure(t) ==
  /\ Goto(t, "failed", "decide")
  /\ retryCount' = [retryCount EXCEPT ![job[t]] = @ + 1]
  /\ UNCHANGED <<status, queue, job, sync, attempts>>

Exhausted_Mutant(n) == retryCount[n] > MaxRetries
Exhausted(n) == retryCount[n] >= MaxRetries

MarkFailed(t) ==
  /\ pc[t] = "decide" /\ Exhausted(job[t])
  /\ Leave(t, "decide")
  /\ UpdateStatus(t, "failed")
  /\ UNCHANGED <<retryCount, queue, sync, attempts>>

MarkRetrying(t) ==
  /\ Goto(t, "decide", "spawn")
  /\ ~Exhausted(job[t])
  /\ UpdateStatus(t, "retrying")
  /\ UNCHANGED <<retryCount, queue, job, sync, attempts>>

(* go func() { sleep; deliver }                                            *)
Spawn(t) ==
  LET n == job[t]
      r == <<n, retryCount[n]>>
  IN
  /\ pc[t] = "spawn"
  /\ \/ /\ t \in sync
        /\ pc' = [pc EXCEPT ![t] = "poll", ![r] = "asleep"]
        /\ job' = [job EXCEPT ![r] = n]
     \/ /\ t \notin sync
        /\ pc' = [pc EXCEPT ![t] = "idle", ![r] = "asleep"]
        /\ job' = [job EXCEPT ![t] = None, ![r] = n]
  /\ UNCHANGED <<status, retryCount, queue, sync, attempts>>

Wake(r) ==
  /\ Goto(r, "asleep", "begin")
  /\ UNCHANGED <<status, retryCount, queue, job, sync, attempts>>

Deliver(t) ==
  \/ MarkSending(t)
  \/ CallSender(t)
  \/ MarkDelivered(t)
  \/ CountFailure(t)
  \/ MarkFailed(t)
  \/ MarkRetrying(t)
  \/ Spawn(t)

-----------------------------------------------------------------------------

Call(p) == Enqueue(p) \/ Overflow(p) \/ Poll(p)

Next ==
  \/ \E p \in Procs : (\E n \in Ntfs : Send(p, n)) \/ Call(p)
  \/ TakeNext
  \/ \E r \in Retries : Wake(r)
  \/ \E t \in Threads : Deliver(t)

Spec == Init /\ [][Next]_vars

(* Goroutines are scheduled, timers fire and senders answer (the HTTP      *)
(* client of the webhooks has a timeout); nobody has to call Send.         *)
FairSpec ==
  /\ Spec
  /\ WF_vars(TakeNext)
  /\ \A p \in Procs : WF_vars(Call(p))
  /\ \A r \in Retries : WF_vars(Wake(r))
  /\ \A t \in Threads : WF_vars(Deliver(t))

-----------------------------------------------------------------------------
(* Properties.                                                             *)

Final == {"delivered", "failed"}
DeliverAt == {"begin", "send", "sent", "failed", "decide", "spawn"}
PCs == DeliverAt \cup {"idle", "enqueue", "poll", "asleep"}

TypeOK ==
  /\ status \in [Ntfs -> Final \cup {"none", "queued", "sending", "retrying"}]
  /\ retryCount \in [Ntfs -> Nat]
  /\ queue \in Seq(Ntfs)
  /\ pc \in [Threads -> PCs]
  /\ job \in [Threads -> Ntfs \cup {None}]
  /\ sync \subseteq Procs
  /\ attempts \in [Ntfs -> Seq({"ok", "error"})]

(* The goroutines that are to deliver n, or are delivering it.             *)
Owners(n) == {t \in Threads : job[t] = n /\ pc[t] \in DeliverAt \cup {"enqueue", "asleep"}}
Places(n) == {i \in DOMAIN queue : queue[i] = n}

(* No notification is lost between the queue, the worker, the caller and   *)
(* the retry goroutines, and no two of them deliver it at the same time:   *)
(* until it is delivered or has failed it is in exactly one place.         *)
OneOwner ==
  \A n \in Ntfs :
    Cardinality(Owners(n)) + Cardinality(Places(n)) =
      IF status[n] \in Final \cup {"none"} THEN 0 ELSE 1

(* What the status says is what the sender answered: a delivered one was   *)
(* accepted once, by the last attempt, a failed one was refused MaxRetries *)
(* times, and no notification is ever sent again after it was accepted.    *)
Refusals(n) == {i \in DOMAIN attempts[n] : attempts[n][i] = "error"}
AttemptsBounded ==
  \A n \in Ntfs :
    /\ Len(attempts[n]) <= MaxRetries
    /\ \A i \in DOMAIN attempts[n] : attempts[n][i] = "ok" => i = Len(attempts[n])
    /\ status[n] = "failed" <=> retryCount[n] = MaxRetries /\ Owners(n) = {}
    /\ status[n] = "delivered" =>
         Len(attempts[n]) > 0 /\ attempts[n][Len(attempts[n])] = "ok"
    /\ status[n] \in {"queued", "retrying"} \cup Final => retryCount[n] = Cardinality(Refusals(n))

(* A final status is final, whatever goroutines are still about.           *)
FinalStays == [][\A n \in Ntfs : status[n] \in Final => status'[n] = status[n]]_vars

(* Every notification that was accepted for sending ends delivered or      *)
(* failed: with the queue full, retries pending and a single worker.       *)
EveryNotificationEnds ==
  \A n \in Ntfs : status[n] = "queued" ~> status[n] \in Final

(* SendSync always returns.                                                *)
SyncReturns == \A p \in Procs : p \in sync ~> p \notin sync
=============================================================================
