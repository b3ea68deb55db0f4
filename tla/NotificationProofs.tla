------------------------- MODULE NotificationProofs -------------------------
(***************************************************************************)
(* What Notification promises, for any number of callers, notifications    *)
(* and retries, and a queue of any length.                                 *)
(*                                                                         *)
(* The argument is ownership: a notification that has not ended is either  *)
(* in the queue, once, or in the hands of one goroutine, and what that     *)
(* goroutine is about to do says what the status, the retry count and the  *)
(* answers of the sender are.  A goroutine started by the k-th failure     *)
(* finds the retry count at k, so that the one it starts is another.       *)
(***************************************************************************)
EXTENDS Notification, FiniteSetTheorems, TLAPS

-----------------------------------------------------------------------------
(* The inductive invariant.                                                *)

OwnAt == DeliverAt \cup {"enqueue", "asleep"}
Owns(t, n) == job[t] = n /\ pc[t] \in OwnAt
Queued(n) == \E i \in DOMAIN queue : queue[i] = n

(* A goroutine is idle exactly when it has no notification; which ones can *)
(* be where.                                                               *)
ThreadInv ==
  \A t \in Threads :
    /\ pc[t] = "idle" <=> job[t] = None
    /\ pc[t] \in {"enqueue", "poll"} => t \in Procs
    /\ pc[t] = "asleep" => t \in Retries
    /\ t \in Retries => job[t] \in {None, t[1]}

Ended(n) == status[n] \in Final \cup {"none"}

(* The failures that led to goroutine t.                                   *)
Round(t) == IF t \in Retries THEN t[2] ELSE 0

Refused(n, k) == Len(attempts[n]) = k /\ \A i \in 1 .. k : attempts[n][i] = "error"
Accepted(n, k) ==
  /\ Len(attempts[n]) = k + 1 /\ attempts[n][k + 1] = "ok"
  /\ \A i \in 1 .. k : attempts[n][i] = "error"

(* What its step says of the notification a goroutine owns.                *)
PhaseOK(t, n) ==
  LET k == Round(t) IN
  /\ pc[t] = "enqueue" => status[n] = "queued"
  /\ pc[t] = "begin" => status[n] \in {"queued", "retrying"}
  /\ pc[t] \in {"send", "sent", "failed", "decide"} => status[n] = "sending"
  /\ pc[t] \in {"spawn", "asleep"} => status[n] = "retrying"
  /\ pc[t] \in {"enqueue", "asleep", "begin", "send"} => retryCount[n] = k /\ Refused(n, k)
  /\ pc[t] = "sent" => retryCount[n] = k /\ Accepted(n, k)
  /\ pc[t] = "failed" => retryCount[n] = k /\ Refused(n, k + 1)
  /\ pc[t] \in {"decide", "spawn"} => retryCount[n] = k + 1 /\ Refused(n, k + 1)
  /\ pc[t] = "spawn" => k + 1 < MaxRetries

(* What the status says of a notification nobody owns.                     *)
RestOK(n) ==
  /\ status[n] = "none" => retryCount[n] = 0 /\ Refused(n, 0)
  /\ Queued(n) => status[n] = "queued" /\ retryCount[n] = 0 /\ Refused(n, 0)
  /\ status[n] = "delivered" => retryCount[n] < MaxRetries /\ Accepted(n, retryCount[n])
  /\ status[n] = "failed" => retryCount[n] = MaxRetries /\ Refused(n, MaxRetries)

(* One owner at most, and none for what is queued or has ended.            *)
NtfInv(n) ==
  /\ \A t, u \in Threads : Owns(t, n) /\ Owns(u, n) => t = u
  /\ \A t \in Threads : Owns(t, n) => ~Queued(n) /\ ~Ended(n) /\ PhaseOK(t, n)
  /\ Queued(n) => ~Ended(n)
  /\ ~Ended(n) => Queued(n) \/ \E t \in Threads : Owns(t, n)
  /\ RestOK(n)

QueuedOnce == \A i, j \in DOMAIN queue : queue[i] = queue[j] => i = j

OwnInv == QueuedOnce /\ \A n \in Ntfs : NtfInv(n)

NInv == TypeOK /\ ThreadInv /\ OwnInv

-----------------------------------------------------------------------------

LEMMA ThreadSets ==
  /\ Procs \subseteq Threads /\ Retries \subseteq Threads /\ Worker \in Threads
  /\ \A t \in Procs : t \notin Retries
  /\ Worker \notin Retries /\ Worker \notin Procs
BY ConstantsAssumption, ThreadsAssumption DEF Threads

LEMMA RoundType ==
  ASSUME NEW t \in Threads
  PROVE  Round(t) \in Nat /\ Round(t) < MaxRetries
<1>1. CASE t \in Retries
  <2>1. t[2] \in 1 .. MaxRetries - 1
    BY <1>1 DEF Retries
  <2> QED BY <1>1, <2>1, ConstantsAssumption DEF Round
<1>2. CASE t \notin Retries
  BY <1>2, ConstantsAssumption DEF Round
<1> QED BY <1>1, <1>2

LEMMA InitInv == Init => NInv
<1> SUFFICES ASSUME Init PROVE NInv
  OBVIOUS
<1> USE DEF Init
<1>1. TypeOK
  BY DEF TypeOK, Final, PCs, DeliverAt
<1>2. ThreadInv
  BY DEF ThreadInv
<1>3. \A t \in Threads, n \in Ntfs : ~Owns(t, n)
  BY DEF Owns, OwnAt, DeliverAt
<1>4. \A n \in Ntfs : ~Queued(n)
  BY DEF Queued
<1>5. QueuedOnce
  BY DEF QueuedOnce
<1>6. \A n \in Ntfs : RestOK(n)
  BY <1>4 DEF RestOK, Refused
<1>7. \A n \in Ntfs : NtfInv(n)
  BY <1>3, <1>4, <1>6 DEF NtfInv, Ended, Final
<1> QED BY <1>1, <1>2, <1>5, <1>7 DEF NInv, OwnInv

-----------------------------------------------------------------------------
(* Types and goroutines.                                                   *)

LEMMA JobOwned ==
  ASSUME TypeOK, ThreadInv, NEW t \in Threads, pc[t] # "idle"
  PROVE  job[t] \in Ntfs /\ (pc[t] \in OwnAt => Owns(t, job[t]))
BY ConstantsAssumption DEF TypeOK, ThreadInv, Owns

LEMMA GotoType ==
  ASSUME TypeOK, NEW t, NEW from, NEW to \in PCs, Goto(t, from, to)
  PROVE  pc' \in [Threads -> PCs]
BY DEF TypeOK, Goto

LEMMA LeaveType ==
  ASSUME TypeOK, NEW t, NEW from, Leave(t, from)
  PROVE  pc' \in [Threads -> PCs] /\ job' \in [Threads -> Ntfs \cup {None}]
<1>1. "poll" \in PCs /\ "idle" \in PCs
  BY DEF PCs
<1> QED BY <1>1, GotoType DEF Leave, TypeOK

LEMMA StatusType ==
  ASSUME TypeOK, NEW t, NEW s \in Final \cup {"none", "queued", "sending", "retrying"},
         UpdateStatus(t, s)
  PROVE  status' \in [Ntfs -> Final \cup {"none", "queued", "sending", "retrying"}]
BY DEF TypeOK, UpdateStatus

LEMMA TypeStep ==
  ASSUME TypeOK, ThreadInv, [Next]_vars
  PROVE  TypeOK'
<1> USE DEF PCs, DeliverAt, Final
<1>1. ASSUME NEW p \in Procs, NEW n \in Ntfs, Send(p, n) PROVE TypeOK'
  <2>1. p \in Threads
    BY ThreadSets
  <2>2. status' \in [Ntfs -> Final \cup {"none", "queued", "sending", "retrying"}]
    BY <1>1 DEF Send, TypeOK
  <2>3. pc' \in [Threads -> PCs]
    BY <1>1, GotoType DEF Send
  <2>4. job' \in [Threads -> Ntfs \cup {None}] /\ sync' \subseteq Procs
    BY <1>1 DEF Send, TypeOK
  <2> QED BY <1>1, <2>2, <2>3, <2>4 DEF Send, TypeOK
<1>2. ASSUME NEW p \in Procs, Enqueue(p) PROVE TypeOK'
  <2>1. p \in Threads /\ pc[p] # "idle"
    BY <1>2, ThreadSets DEF Enqueue, Leave, Goto
  <2>2. job[p] \in Ntfs
    BY <2>1, JobOwned
  <2>3. queue' \in Seq(Ntfs)
    BY <1>2, <2>2 DEF Enqueue, TypeOK
  <2> QED BY <1>2, <2>3, LeaveType DEF Enqueue, TypeOK
<1>3. ASSUME NEW p \in Procs, Overflow(p) PROVE TypeOK'
  BY <1>3, GotoType DEF Overflow, TypeOK
<1>4. ASSUME NEW p \in Procs, Poll(p) PROVE TypeOK'
  BY <1>4, GotoType DEF Poll, TypeOK
<1>5. ASSUME TakeNext PROVE TypeOK'
  <2>1. Head(queue) \in Ntfs /\ queue' \in Seq(Ntfs)
    BY <1>5 DEF TakeNext, TypeOK
  <2> QED BY <1>5, <2>1, GotoType DEF TakeNext, TypeOK
<1>6. ASSUME NEW r \in Retries, Wake(r) PROVE TypeOK'
  BY <1>6, GotoType DEF Wake, TypeOK
<1>7. ASSUME NEW t \in Threads, MarkSending(t) PROVE TypeOK'
  BY <1>7, GotoType, StatusType DEF MarkSending, TypeOK
<1>8. ASSUME NEW t \in Threads, CallSender(t) PROVE TypeOK'
  <2>1. pc' \in [Threads -> PCs]
    BY <1>8, GotoType DEF CallSender
  <2>2. ASSUME NEW x \in {"ok", "error"}, attempts' = [attempts EXCEPT ![job[t]] = Append(@, x)]
        PROVE  attempts' \in [Ntfs -> Seq({"ok", "error"})]
    <3>1. job[t] \in Ntfs
      BY <1>8, JobOwned DEF CallSender, Goto
    <3>2. Append(attempts[job[t]], x) \in Seq({"ok", "error"})
      BY <3>1 DEF TypeOK
    <3> QED BY <2>2, <3>1, <3>2 DEF TypeOK
  <2> QED BY <1>8, <2>1, <2>2 DEF CallSender, TypeOK
<1>9. ASSUME NEW t \in Threads, MarkDelivered(t) PROVE TypeOK'
  BY <1>9, LeaveType, StatusType DEF MarkDelivered, TypeOK
<1>10. ASSUME NEW t \in Threads, CountFailure(t) PROVE TypeOK'
  <2>1. job[t] \in Ntfs
    BY <1>10, JobOwned DEF CountFailure, Goto
  <2>2. retryCount' \in [Ntfs -> Nat]
    BY <1>10, <2>1 DEF CountFailure, TypeOK
  <2>3. pc' \in [Threads -> PCs]
    BY <1>10, GotoType DEF CountFailure
  <2> QED BY <1>10, <2>2, <2>3 DEF CountFailure, TypeOK
<1>11. ASSUME NEW t \in Threads, MarkFailed(t) PROVE TypeOK'
  BY <1>11, LeaveType, StatusType DEF MarkFailed, TypeOK
<1>12. ASSUME NEW t \in Threads, MarkRetrying(t) PROVE TypeOK'
  BY <1>12, GotoType, StatusType DEF MarkRetrying, TypeOK
<1>13. ASSUME NEW t \in Threads, Spawn(t) PROVE TypeOK'
  <2>1. job[t] \in Ntfs
    BY <1>13, JobOwned DEF Spawn
  <2>2. pc' \in [Threads -> PCs] /\ job' \in [Threads -> Ntfs \cup {None}]
    BY <1>13, <2>1 DEF Spawn, TypeOK
  <2> QED BY <1>13, <2>2 DEF Spawn, TypeOK
<1>14. CASE UNCHANGED vars
  BY <1>14 DEF vars, TypeOK
<1> QED
  BY <1>1, <1>2, <1>3, <1>4, <1>5, <1>6, <1>7, <1>8, <1>9, <1>10, <1>11, <1>12, <1>13, <1>14
  DEF Next, Call, Deliver

(* The goroutine that a failure starts: another one, and it is idle.       *)
LEMMA SpawnKey ==
  ASSUME NInv, NEW t \in Threads, pc[t] = "spawn",
         NEW n, n = job[t], NEW r, r = <<n, retryCount[n]>>
  PROVE  /\ n \in Ntfs /\ r \in Retries /\ r # t /\ Round(r) = retryCount[n]
         /\ pc[r] = "idle" /\ job[r] = None
<1>1. n \in Ntfs /\ Owns(t, n)
  BY JobOwned DEF NInv, OwnAt, DeliverAt
<1>2. NtfInv(n)
  BY <1>1 DEF NInv, OwnInv
<1>3. retryCount[n] = Round(t) + 1 /\ retryCount[n] < MaxRetries
  BY <1>1, <1>2 DEF NtfInv, PhaseOK
<1>4. r \in Retries
  BY <1>1, <1>3, RoundType, ConstantsAssumption DEF Retries
<1>5. Round(r) = retryCount[n] /\ r[1] = n
  BY <1>4 DEF Round
<1>6. r # t
  BY <1>3, <1>5, RoundType
<1>7. r \in Threads /\ r \notin Procs
  BY <1>4, ThreadSets
<1>8. pc[r] \in PCs /\ (pc[r] # "idle" => job[r] = n)
  BY <1>4, <1>5, <1>7 DEF NInv, TypeOK, ThreadInv
<1>9. ~Owns(r, n)
  BY <1>1, <1>2, <1>6, <1>7 DEF NtfInv
<1>10. pc[r] = "idle"
  BY <1>7, <1>8, <1>9 DEF Owns, OwnAt, PCs, NInv, ThreadInv
<1> QED BY <1>1, <1>4, <1>5, <1>6, <1>7, <1>10 DEF NInv, ThreadInv

LEMMA ThreadStep ==
  ASSUME NInv, [Next]_vars
  PROVE  ThreadInv'
<1> DEFINE OK(u) == /\ pc[u] = "idle" <=> job[u] = None
                    /\ pc[u] \in {"enqueue", "poll"} => u \in Procs
                    /\ pc[u] = "asleep" => u \in Retries
                    /\ u \in Retries => job[u] \in {None, u[1]}
<1>i. TypeOK /\ ThreadInv
  BY DEF NInv
<1>0. /\ \A u \in Threads : OK(u)
      /\ (\A u \in Threads : OK(u)') => ThreadInv'
  BY <1>i DEF ThreadInv
<1>a. pc \in [Threads -> PCs] /\ job \in [Threads -> Ntfs \cup {None}] /\ sync \subseteq Procs
  BY <1>i DEF TypeOK
<1> SUFFICES ASSUME NEW u \in Threads PROVE OK(u)'
  BY <1>0
<1>b. OK(u)
  BY <1>0
(* A step that only moves t on, without its notification.                  *)
<1>c. ASSUME NEW t \in Threads, NEW from, NEW to, Goto(t, from, to), job' = job,
             from # "idle", to \notin {"idle", "asleep"}, to = "poll" => t \in Procs,
             to # "enqueue"
      PROVE  OK(u)'
  BY <1>a, <1>b, <1>c DEF Goto
<1>d. ASSUME NEW t \in Threads, NEW from, Leave(t, from), from # "idle" PROVE OK(u)'
  <2>1. t \in sync => t \in Procs
    BY <1>a
  <2>2. CASE t \in sync
    BY <1>c, <1>d, <2>1, <2>2 DEF Leave
  <2>3. CASE t \notin sync
    BY <1>a, <1>b, <1>d, <2>3 DEF Leave, Goto
  <2> QED BY <2>2, <2>3
<1>1. ASSUME NEW p \in Procs, NEW n \in Ntfs, Send(p, n) PROVE OK(u)'
  <2>1. n # None /\ p \in Threads /\ p \notin Retries
    BY ConstantsAssumption, ThreadSets
  <2> QED BY <1>1, <1>a, <1>b, <2>1 DEF Send, Goto
<1>2. ASSUME NEW p \in Procs, Enqueue(p) PROVE OK(u)'
  BY <1>2, <1>d, ThreadSets DEF Enqueue
<1>3. ASSUME NEW p \in Procs, Overflow(p) PROVE OK(u)'
  BY <1>3, <1>c, ThreadSets DEF Overflow
<1>4. ASSUME NEW p \in Procs, Poll(p) PROVE OK(u)'
  BY <1>4, <1>a, <1>b, ThreadSets DEF Poll, Goto
<1>5. ASSUME TakeNext PROVE OK(u)'
  <2>1. Head(queue) # None /\ Worker \in Threads /\ Worker \notin Retries
    BY <1>5, <1>i, ConstantsAssumption, ThreadSets DEF TakeNext, TypeOK
  <2> QED BY <1>5, <1>a, <1>b, <2>1 DEF TakeNext, Goto
<1>6. ASSUME NEW r \in Retries, Wake(r) PROVE OK(u)'
  BY <1>6, <1>c, ThreadSets DEF Wake
<1>7. ASSUME NEW t \in Threads, MarkSending(t) PROVE OK(u)'
  BY <1>7, <1>c DEF MarkSending
<1>8. ASSUME NEW t \in Threads, CallSender(t) PROVE OK(u)'
  BY <1>8, <1>c DEF CallSender
<1>9. ASSUME NEW t \in Threads, MarkDelivered(t) PROVE OK(u)'
  BY <1>9, <1>d DEF MarkDelivered
<1>10. ASSUME NEW t \in Threads, CountFailure(t) PROVE OK(u)'
  BY <1>10, <1>c DEF CountFailure
<1>11. ASSUME NEW t \in Threads, MarkFailed(t) PROVE OK(u)'
  BY <1>11, <1>d DEF MarkFailed
<1>12. ASSUME NEW t \in Threads, MarkRetrying(t) PROVE OK(u)'
  BY <1>12, <1>c DEF MarkRetrying
<1>13. ASSUME NEW t \in Threads, Spawn(t) PROVE OK(u)'
  <2> DEFINE n == job[t]
             r == <<n, retryCount[n]>>
  <2>1. n \in Ntfs /\ n # None /\ r \in Retries /\ r # t
    BY <1>13, SpawnKey, ConstantsAssumption DEF Spawn
  <2>2. r[1] = n
    OBVIOUS
  <2>4. t \in sync => t \in Procs
    BY <1>a
  <2> QED
    BY <1>13, <1>a, <1>b, <2>1, <2>2, <2>4 DEF Spawn
<1>14. CASE UNCHANGED vars
  BY <1>14, <1>b DEF vars
<1> QED
  BY <1>1, <1>2, <1>3, <1>4, <1>5, <1>6, <1>7, <1>8, <1>9, <1>10, <1>11, <1>12, <1>13, <1>14
  DEF Next, Call, Deliver

-----------------------------------------------------------------------------
(* Ownership.  A step works on one notification n and moves the goroutines *)
(* S, which own nothing else; it leaves n owned, queued or ended.          *)

LEMMA Others ==
  ASSUME TypeOK, OwnInv, NEW n \in Ntfs, NEW S,
         \A u \in S : job[u] \in {n, None} /\ job'[u] \in {n, None},
         \A u \in Threads \ S : pc'[u] = pc[u] /\ job'[u] = job[u],
         \A m \in Ntfs \ {n} : /\ status'[m] = status[m]
                               /\ retryCount'[m] = retryCount[m]
                               /\ attempts'[m] = attempts[m]
                               /\ Queued(m)' <=> Queued(m),
         QueuedOnce', NtfInv(n)'
  PROVE  OwnInv'
<1> SUFFICES ASSUME NEW m \in Ntfs, m # n PROVE NtfInv(m)'
  BY DEF OwnInv
<1>1. NtfInv(m)
  BY DEF OwnInv
<1>2. m # None
  BY ConstantsAssumption
<1>3. \A u \in Threads : (Owns(u, m)' <=> Owns(u, m)) /\ (Owns(u, m) => pc'[u] = pc[u])
  BY <1>2 DEF Owns
<1>4. Ended(m)' <=> Ended(m)
  BY DEF Ended
<1>5. \A k : (Refused(m, k)' <=> Refused(m, k)) /\ (Accepted(m, k)' <=> Accepted(m, k))
  BY DEF Refused, Accepted
<1>6. RestOK(m)'
  BY <1>1, <1>5 DEF NtfInv, RestOK
<1>7. ASSUME NEW u \in Threads, Owns(u, m)' PROVE PhaseOK(u, m)'
  <2>1. PhaseOK(u, m) /\ pc'[u] = pc[u]
    BY <1>1, <1>3, <1>7 DEF NtfInv
  <2> QED BY <1>5, <2>1 DEF PhaseOK
<1> QED BY <1>1, <1>3, <1>4, <1>6, <1>7 DEF NtfInv

LEMMA Held ==
  ASSUME NEW n \in Ntfs, NEW t \in Threads, Owns(t, n)',
         \A u \in Threads : Owns(u, n)' => u = t,
         ~Queued(n)', ~Ended(n)', PhaseOK(t, n)'
  PROVE  NtfInv(n)'
<1>1. RestOK(n)'
  BY DEF RestOK, Ended, Final
<1> QED BY <1>1 DEF NtfInv

LEMMA Loose ==
  ASSUME NEW n \in Ntfs, \A u \in Threads : ~Owns(u, n)',
         Queued(n)' <=> ~Ended(n)', RestOK(n)'
  PROVE  NtfInv(n)'
BY DEF NtfInv

(* What a goroutine with a notification knows.                             *)
LEMMA OwnerFacts ==
  ASSUME NInv, NEW t \in Threads, pc[t] \in OwnAt
  PROVE  /\ job[t] \in Ntfs /\ Owns(t, job[t])
         /\ \A u \in Threads : Owns(u, job[t]) => u = t
         /\ ~Queued(job[t]) /\ ~Ended(job[t]) /\ PhaseOK(t, job[t])
<1>1. job[t] \in Ntfs /\ Owns(t, job[t])
  BY JobOwned DEF NInv, OwnAt, DeliverAt
<1> QED BY <1>1 DEF NInv, OwnInv, NtfInv

(* The owner of n takes a step and still owns it.                          *)
LEMMA Keep ==
  ASSUME NInv, NEW t \in Threads, pc[t] \in OwnAt, NEW n, n = job[t],
         pc'[t] \in OwnAt, job' = job, queue' = queue,
         \A u \in Threads \ {t} : pc'[u] = pc[u],
         \A m \in Ntfs \ {n} : /\ status'[m] = status[m]
                               /\ retryCount'[m] = retryCount[m]
                               /\ attempts'[m] = attempts[m],
         ~Ended(n)', PhaseOK(t, n)'
  PROVE  OwnInv'
<1>1. /\ n \in Ntfs /\ ~Queued(n)
      /\ \A u \in Threads : Owns(u, n) => u = t
  BY OwnerFacts
<1>2. Owns(t, n)' /\ \A u \in Threads : Owns(u, n)' => u = t
  BY <1>1 DEF Owns
<1>3. \A m : Queued(m)' <=> Queued(m)
  BY DEF Queued
<1>4. NtfInv(n)'
  BY <1>1, <1>2, <1>3, Held
<1>5. QueuedOnce'
  BY DEF NInv, OwnInv, QueuedOnce
<1>6. TypeOK /\ OwnInv
  BY DEF NInv
<1> DEFINE S == {t}
<1>7. \A u \in S : job[u] \in {n, None} /\ job'[u] \in {n, None}
  OBVIOUS
<1>8. \A u \in Threads \ S : pc'[u] = pc[u] /\ job'[u] = job[u]
  OBVIOUS
<1> HIDE DEF S
<1> QED BY <1>1, <1>3, <1>4, <1>5, <1>6, <1>7, <1>8, Others

(* The owner of n ends it.                                                 *)
LEMMA Drop ==
  ASSUME NInv, NEW t \in Threads, pc[t] \in OwnAt, NEW n, n = job[t], NEW from,
         Leave(t, from), queue' = queue, retryCount' = retryCount, attempts' = attempts,
         \A m \in Ntfs \ {n} : status'[m] = status[m],
         Ended(n)', RestOK(n)'
  PROVE  OwnInv'
<1>1. /\ n \in Ntfs /\ ~Queued(n)
      /\ \A u \in Threads : Owns(u, n) => u = t
  BY OwnerFacts
<1>2. pc \in [Threads -> PCs] /\ job \in [Threads -> Ntfs \cup {None}]
  BY DEF NInv, TypeOK
<1>3. pc'[t] \in {"poll", "idle"} /\ job'[t] \in {n, None}
  BY <1>2 DEF Leave, Goto
<1>4. \A u \in Threads \ {t} : pc'[u] = pc[u] /\ job'[u] = job[u]
  BY <1>2 DEF Leave, Goto
<1>5. \A u \in Threads : ~Owns(u, n)'
  BY <1>1, <1>3, <1>4 DEF Owns, OwnAt, DeliverAt
<1>6. \A m : Queued(m)' <=> Queued(m)
  BY DEF Queued
<1>7. NtfInv(n)'
  BY <1>1, <1>5, <1>6, Loose
<1>8. QueuedOnce'
  BY DEF NInv, OwnInv, QueuedOnce
<1>9. TypeOK /\ OwnInv
  BY DEF NInv
<1> DEFINE S == {t}
<1>10. \A u \in S : job[u] \in {n, None} /\ job'[u] \in {n, None}
  BY <1>3
<1>11. \A u \in Threads \ S : pc'[u] = pc[u] /\ job'[u] = job[u]
  BY <1>4
<1> HIDE DEF S
<1> QED BY <1>1, <1>6, <1>7, <1>8, <1>9, <1>10, <1>11, Others

-----------------------------------------------------------------------------
(* The steps of a delivery.                                                *)

LEMMA StatusSet ==
  ASSUME TypeOK, NEW t \in Threads, job[t] \in Ntfs, NEW s, UpdateStatus(t, s)
  PROVE  /\ status'[job[t]] = s
         /\ \A m \in Ntfs \ {job[t]} : status'[m] = status[m]
BY DEF TypeOK, UpdateStatus

LEMMA GotoMoves ==
  ASSUME TypeOK, NEW t \in Threads, NEW from, NEW to, Goto(t, from, to)
  PROVE  /\ pc[t] = from /\ pc'[t] = to
         /\ \A u \in Threads \ {t} : pc'[u] = pc[u]
BY DEF TypeOK, Goto

LEMMA MarkSendingOwn ==
  ASSUME NInv, NEW t \in Threads, MarkSending(t)
  PROVE  OwnInv'
<1> PICK n : n = job[t]
  OBVIOUS
<1> USE DEF OwnAt, DeliverAt
<1>1. TypeOK
  BY DEF NInv
<1>2. /\ pc[t] = "begin" /\ pc'[t] = "send"
      /\ \A u \in Threads \ {t} : pc'[u] = pc[u]
  BY <1>1, GotoMoves DEF MarkSending
<1>3. n \in Ntfs /\ PhaseOK(t, n)
  BY <1>2, OwnerFacts
<1>4. status'[n] = "sending" /\ \A m \in Ntfs \ {n} : status'[m] = status[m]
  BY <1>1, <1>3, StatusSet DEF MarkSending
<1>5. ~Ended(n)'
  BY <1>4 DEF Ended, Final
<1>6. Refused(n, Round(t))' <=> Refused(n, Round(t))
  BY DEF MarkSending, Refused
<1>7. PhaseOK(t, n)'
  BY <1>2, <1>3, <1>4, <1>6 DEF PhaseOK, MarkSending
<1> QED BY <1>2, <1>4, <1>5, <1>7, Keep DEF MarkSending

LEMMA CallSenderOwn ==
  ASSUME NInv, NEW t \in Threads, CallSender(t)
  PROVE  OwnInv'
<1> DEFINE k == Round(t)
<1> PICK n : n = job[t]
  OBVIOUS
<1> USE DEF OwnAt, DeliverAt
<1>1. TypeOK
  BY DEF NInv
<1>2. /\ pc[t] = "send" /\ pc'[t] \in {"sent", "failed"}
      /\ \A u \in Threads \ {t} : pc'[u] = pc[u]
  BY <1>1, GotoMoves DEF CallSender
<1>3. n \in Ntfs /\ PhaseOK(t, n) /\ ~Ended(n) /\ k \in Nat
  BY <1>2, OwnerFacts, RoundType
<1>4. ~Ended(n)'
  BY <1>3 DEF Ended, CallSender
<1>5. attempts[n] \in Seq({"ok", "error"}) /\ Refused(n, k) /\ status[n] = "sending"
      /\ retryCount[n] = k
  BY <1>1, <1>2, <1>3 DEF TypeOK, PhaseOK
<1>6. ASSUME NEW x, NEW to, Goto(t, "send", to),
             attempts' = [attempts EXCEPT ![job[t]] = Append(@, x)]
      PROVE  /\ pc'[t] = to /\ attempts'[n] = Append(attempts[n], x)
             /\ \A m \in Ntfs \ {n} : attempts'[m] = attempts[m]
  <2>1. pc'[t] = to
    BY <1>1, <1>6, GotoMoves
  <2> QED BY <1>1, <1>3, <1>6, <2>1 DEF TypeOK
<1>7. \A m \in Ntfs \ {n} : attempts'[m] = attempts[m]
  BY <1>6 DEF CallSender
<1>8. \/ pc'[t] = "sent" /\ attempts'[n] = Append(attempts[n], "ok")
      \/ pc'[t] = "failed" /\ attempts'[n] = Append(attempts[n], "error")
  BY <1>6 DEF CallSender
<1>9. PhaseOK(t, n)'
  <2>1. CASE pc'[t] = "sent"
    <3>1. attempts'[n] = Append(attempts[n], "ok")
      BY <1>8, <2>1
    <3>2. Accepted(n, k)'
      BY <1>3, <1>5, <3>1 DEF Accepted, Refused
    <3> QED BY <1>5, <2>1, <3>2 DEF PhaseOK, CallSender
  <2>2. CASE pc'[t] = "failed"
    <3>1. attempts'[n] = Append(attempts[n], "error")
      BY <1>8, <2>2
    <3>2. Refused(n, k + 1)'
      BY <1>3, <1>5, <3>1 DEF Refused
    <3> QED BY <1>5, <2>2, <3>2 DEF PhaseOK, CallSender
  <2> QED BY <1>2, <2>1, <2>2
<1> QED BY <1>2, <1>4, <1>7, <1>9, Keep DEF CallSender

LEMMA CountFailureOwn ==
  ASSUME NInv, NEW t \in Threads, CountFailure(t)
  PROVE  OwnInv'
<1> DEFINE k == Round(t)
<1> PICK n : n = job[t]
  OBVIOUS
<1> USE DEF OwnAt, DeliverAt
<1>1. TypeOK
  BY DEF NInv
<1>2. /\ pc[t] = "failed" /\ pc'[t] = "decide"
      /\ \A u \in Threads \ {t} : pc'[u] = pc[u]
  BY <1>1, GotoMoves DEF CountFailure
<1>3. n \in Ntfs /\ PhaseOK(t, n) /\ ~Ended(n) /\ k \in Nat
  BY <1>2, OwnerFacts, RoundType
<1>4. ~Ended(n)'
  BY <1>3 DEF Ended, CountFailure
<1>5. retryCount[n] = k /\ Refused(n, k + 1) /\ status[n] = "sending"
  BY <1>2, <1>3 DEF PhaseOK
<1>6. retryCount'[n] = k + 1 /\ \A m \in Ntfs \ {n} : retryCount'[m] = retryCount[m]
  BY <1>1, <1>3, <1>5 DEF TypeOK, CountFailure
<1>7. Refused(n, k + 1)'
  BY <1>5 DEF CountFailure, Refused
<1>8. PhaseOK(t, n)'
  BY <1>2, <1>5, <1>6, <1>7 DEF PhaseOK, CountFailure
<1> QED BY <1>2, <1>4, <1>6, <1>8, Keep DEF CountFailure

LEMMA MarkRetryingOwn ==
  ASSUME NInv, NEW t \in Threads, MarkRetrying(t)
  PROVE  OwnInv'
<1> DEFINE k == Round(t)
<1> PICK n : n = job[t]
  OBVIOUS
<1> USE DEF OwnAt, DeliverAt
<1>1. TypeOK
  BY DEF NInv
<1>2. /\ pc[t] = "decide" /\ pc'[t] = "spawn"
      /\ \A u \in Threads \ {t} : pc'[u] = pc[u]
  BY <1>1, GotoMoves DEF MarkRetrying
<1>3. n \in Ntfs /\ PhaseOK(t, n) /\ k \in Nat
  BY <1>2, OwnerFacts, RoundType
<1>4. status'[n] = "retrying" /\ \A m \in Ntfs \ {n} : status'[m] = status[m]
  BY <1>1, <1>3, StatusSet DEF MarkRetrying
<1>5. ~Ended(n)'
  BY <1>4 DEF Ended, Final
<1>6. retryCount[n] = k + 1 /\ Refused(n, k + 1)
  BY <1>2, <1>3 DEF PhaseOK
<1>7. k + 1 < MaxRetries
  BY <1>3, <1>6, ConstantsAssumption DEF MarkRetrying, Exhausted
<1>8. Refused(n, k + 1)'
  BY <1>6 DEF MarkRetrying, Refused
<1>9. PhaseOK(t, n)'
  BY <1>2, <1>4, <1>6, <1>7, <1>8 DEF PhaseOK, MarkRetrying
<1> QED BY <1>2, <1>4, <1>5, <1>9, Keep DEF MarkRetrying

LEMMA WakeOwn ==
  ASSUME NInv, NEW t \in Retries, Wake(t)
  PROVE  OwnInv'
<1> DEFINE k == Round(t)
<1> PICK n : n = job[t]
  OBVIOUS
<1> USE DEF OwnAt, DeliverAt
<1>1. TypeOK /\ t \in Threads
  BY ThreadSets DEF NInv
<1>2. /\ pc[t] = "asleep" /\ pc'[t] = "begin"
      /\ \A u \in Threads \ {t} : pc'[u] = pc[u]
  BY <1>1, GotoMoves DEF Wake
<1>3. n \in Ntfs /\ PhaseOK(t, n) /\ ~Ended(n)
  BY <1>1, <1>2, OwnerFacts
<1>4. ~Ended(n)'
  BY <1>3 DEF Ended, Wake
<1>5. Refused(n, k)' <=> Refused(n, k)
  BY DEF Wake, Refused
<1>6. PhaseOK(t, n)'
  BY <1>2, <1>3, <1>5 DEF PhaseOK, Wake
<1> QED BY <1>1, <1>2, <1>4, <1>6, Keep DEF Wake

LEMMA OverflowOwn ==
  ASSUME NInv, NEW t \in Procs, Overflow(t)
  PROVE  OwnInv'
<1> DEFINE k == Round(t)
<1> PICK n : n = job[t]
  OBVIOUS
<1> USE DEF OwnAt, DeliverAt
<1>1. TypeOK /\ t \in Threads
  BY ThreadSets DEF NInv
<1>2. /\ pc[t] = "enqueue" /\ pc'[t] = "begin"
      /\ \A u \in Threads \ {t} : pc'[u] = pc[u]
  BY <1>1, GotoMoves DEF Overflow
<1>3. n \in Ntfs /\ PhaseOK(t, n) /\ ~Ended(n)
  BY <1>1, <1>2, OwnerFacts
<1>4. ~Ended(n)'
  BY <1>3 DEF Ended, Overflow
<1>5. Refused(n, k)' <=> Refused(n, k)
  BY DEF Overflow, Refused
<1>6. PhaseOK(t, n)'
  BY <1>2, <1>3, <1>5 DEF PhaseOK, Overflow
<1> QED BY <1>1, <1>2, <1>4, <1>6, Keep DEF Overflow

LEMMA MarkDeliveredOwn ==
  ASSUME NInv, NEW t \in Threads, MarkDelivered(t)
  PROVE  OwnInv'
<1> DEFINE k == Round(t)
<1> PICK n : n = job[t]
  OBVIOUS
<1> USE DEF OwnAt, DeliverAt
<1>1. TypeOK /\ pc[t] = "sent"
  BY DEF NInv, MarkDelivered, Leave, Goto
<1>2. n \in Ntfs /\ PhaseOK(t, n) /\ ~Queued(n) /\ k < MaxRetries
  BY <1>1, OwnerFacts, RoundType
<1>3. status'[n] = "delivered" /\ \A m \in Ntfs \ {n} : status'[m] = status[m]
  BY <1>1, <1>2, StatusSet DEF MarkDelivered
<1>4. retryCount[n] = k /\ Accepted(n, k)
  BY <1>1, <1>2 DEF PhaseOK
<1>5. Accepted(n, k)' /\ ~Queued(n)'
  BY <1>2, <1>4 DEF MarkDelivered, Accepted, Queued
<1>6. RestOK(n)' /\ Ended(n)'
  BY <1>2, <1>3, <1>4, <1>5 DEF RestOK, Ended, Final, MarkDelivered
<1> QED BY <1>1, <1>3, <1>6, Drop DEF MarkDelivered

LEMMA MarkFailedOwn ==
  ASSUME NInv, NEW t \in Threads, MarkFailed(t)
  PROVE  OwnInv'
<1> DEFINE k == Round(t)
<1> PICK n : n = job[t]
  OBVIOUS
<1> USE DEF OwnAt, DeliverAt
<1>1. TypeOK /\ pc[t] = "decide"
  BY DEF NInv, MarkFailed
<1>2. n \in Ntfs /\ PhaseOK(t, n) /\ ~Queued(n) /\ k \in Nat /\ k < MaxRetries
  BY <1>1, OwnerFacts, RoundType
<1>3. status'[n] = "failed" /\ \A m \in Ntfs \ {n} : status'[m] = status[m]
  BY <1>1, <1>2, StatusSet DEF MarkFailed
<1>4. retryCount[n] = k + 1 /\ Refused(n, k + 1)
  BY <1>1, <1>2 DEF PhaseOK
<1>5. retryCount[n] = MaxRetries
  BY <1>2, <1>4, ConstantsAssumption DEF MarkFailed, Exhausted
<1>6. Refused(n, MaxRetries)' /\ ~Queued(n)'
  BY <1>2, <1>4, <1>5 DEF MarkFailed, Refused, Queued
<1>7. RestOK(n)' /\ Ended(n)'
  BY <1>2, <1>3, <1>5, <1>6 DEF RestOK, Ended, Final, MarkFailed
<1> QED BY <1>1, <1>3, <1>7, Drop DEF MarkFailed

-----------------------------------------------------------------------------
(* The steps that hand a notification over.                                *)

LEMMA SendOwn ==
  ASSUME NInv, NEW p \in Procs, NEW n \in Ntfs, Send(p, n)
  PROVE  OwnInv'
<1> USE DEF OwnAt, DeliverAt
<1>1. TypeOK /\ p \in Threads /\ Round(p) = 0
  BY ThreadSets DEF NInv, Round
<1>2. /\ pc[p] = "idle" /\ pc'[p] = "enqueue"
      /\ \A u \in Threads \ {p} : pc'[u] = pc[u]
  BY <1>1, GotoMoves DEF Send
<1>3. job[p] = None /\ job'[p] = n /\ \A u \in Threads \ {p} : job'[u] = job[u]
  BY <1>1, <1>2 DEF NInv, TypeOK, ThreadInv, Send
<1>4. status'[n] = "queued" /\ \A m \in Ntfs \ {n} : status'[m] = status[m]
  BY <1>1 DEF Send, TypeOK
<1>5. NtfInv(n) /\ Ended(n) /\ status[n] = "none"
  BY DEF NInv, OwnInv, Send, Ended
<1>6. \A u \in Threads : ~Owns(u, n)
  BY <1>5 DEF NtfInv
<1>7. ~Queued(n) /\ retryCount[n] = 0 /\ Refused(n, 0)
  BY <1>5 DEF NtfInv, RestOK
<1>8. \A m : Queued(m)' <=> Queued(m)
  BY DEF Send, Queued
<1>9. Owns(p, n)' /\ \A u \in Threads : Owns(u, n)' => u = p
  BY <1>2, <1>3, <1>6 DEF Owns
<1>10. PhaseOK(p, n)'
  BY <1>1, <1>2, <1>4, <1>7 DEF PhaseOK, Refused, Send
<1>11. ~Ended(n)'
  BY <1>4 DEF Ended, Final
<1>12. NtfInv(n)'
  BY <1>1, <1>7, <1>8, <1>9, <1>10, <1>11, Held
<1>13. OwnInv /\ QueuedOnce'
  BY DEF NInv, OwnInv, QueuedOnce, Send
<1> DEFINE S == {p}
<1>14. \A u \in S : job[u] \in {n, None} /\ job'[u] \in {n, None}
  BY <1>3
<1>15. \A u \in Threads \ S : pc'[u] = pc[u] /\ job'[u] = job[u]
  BY <1>2, <1>3
<1> HIDE DEF S
<1> QED BY <1>1, <1>4, <1>8, <1>12, <1>13, <1>14, <1>15, Others DEF Send

LEMMA EnqueueOwn ==
  ASSUME NInv, NEW p \in Procs, Enqueue(p)
  PROVE  OwnInv'
<1> USE DEF OwnAt, DeliverAt
<1> PICK n : n = job[p]
  OBVIOUS
<1>1. TypeOK /\ p \in Threads /\ Round(p) = 0
  BY ThreadSets DEF NInv, Round
<1>2. pc[p] = "enqueue" /\ pc'[p] \in {"poll", "idle"} /\ job'[p] \in {n, None}
  BY <1>1 DEF Enqueue, Leave, Goto, TypeOK
<1>3. \A u \in Threads \ {p} : pc'[u] = pc[u] /\ job'[u] = job[u]
  BY <1>1 DEF Enqueue, Leave, Goto, TypeOK
<1>4. /\ n \in Ntfs /\ ~Queued(n) /\ ~Ended(n) /\ PhaseOK(p, n)
      /\ \A u \in Threads : Owns(u, n) => u = p
  BY <1>1, <1>2, OwnerFacts
<1>5. queue \in Seq(Ntfs) /\ queue' = Append(queue, n)
  BY <1>1 DEF TypeOK, Enqueue
<1>6. /\ Len(queue') = Len(queue) + 1 /\ queue'[Len(queue) + 1] = n
      /\ \A i \in 1 .. Len(queue) : queue'[i] = queue[i]
      /\ DOMAIN queue = 1 .. Len(queue) /\ DOMAIN queue' = 1 .. Len(queue) + 1
      /\ Len(queue) \in Nat
  BY <1>5
<1>7. Queued(n)' /\ \A m : m # n => (Queued(m)' <=> Queued(m))
  BY <1>6 DEF Queued
<1>8. QueuedOnce'
  <2>1. \A i \in 1 .. Len(queue) : queue[i] # n
    BY <1>4, <1>6 DEF Queued
  <2>2. \A i, j \in 1 .. Len(queue) : queue[i] = queue[j] => i = j
    BY <1>6 DEF NInv, OwnInv, QueuedOnce
  <2>3. ASSUME NEW i \in 1 .. Len(queue) + 1, NEW j \in 1 .. Len(queue) + 1, queue'[i] = queue'[j]
        PROVE  i = j
    <3>1. \A k \in 1 .. Len(queue) + 1 : k = Len(queue) + 1 \/ k \in 1 .. Len(queue)
      BY <1>6
    <3>2. CASE i \in 1 .. Len(queue) /\ j \in 1 .. Len(queue)
      BY <1>6, <2>2, <2>3, <3>2
    <3> QED BY <1>6, <2>1, <2>3, <3>1, <3>2
  <2> QED BY <1>6, <2>3 DEF QueuedOnce
<1>9. \A u \in Threads : ~Owns(u, n)'
  BY <1>2, <1>3, <1>4 DEF Owns
<1>10. status[n] = "queued" /\ retryCount[n] = 0 /\ Refused(n, 0)
  BY <1>1, <1>2, <1>4 DEF PhaseOK
<1>11. RestOK(n)' /\ ~Ended(n)'
  BY <1>10 DEF RestOK, Refused, Enqueue, Ended, Final
<1>12. NtfInv(n)'
  BY <1>4, <1>7, <1>9, <1>11, Loose
<1>13. OwnInv
  BY DEF NInv
<1> DEFINE S == {p}
<1>14. \A u \in S : job[u] \in {n, None} /\ job'[u] \in {n, None}
  BY <1>2
<1>15. \A u \in Threads \ S : pc'[u] = pc[u] /\ job'[u] = job[u]
  BY <1>3
<1> HIDE DEF S
<1> QED BY <1>1, <1>4, <1>7, <1>8, <1>12, <1>13, <1>14, <1>15, Others DEF Enqueue

LEMMA PollOwn ==
  ASSUME NInv, NEW p \in Procs, Poll(p)
  PROVE  OwnInv'
<1> USE DEF OwnAt, DeliverAt
<1> PICK n : n = job[p]
  OBVIOUS
<1>1. TypeOK /\ OwnInv /\ p \in Threads
  BY ThreadSets DEF NInv
<1>2. /\ pc[p] = "poll" /\ pc'[p] = "idle"
      /\ \A u \in Threads \ {p} : pc'[u] = pc[u]
  BY <1>1, GotoMoves DEF Poll
<1>3. n \in Ntfs
  BY <1>1, <1>2, JobOwned DEF NInv
<1>4. job'[p] = None /\ \A u \in Threads \ {p} : job'[u] = job[u]
  BY <1>1 DEF TypeOK, Poll
<1>5. \A u \in Threads : (Owns(u, n)' <=> Owns(u, n)) /\ (Owns(u, n) => pc'[u] = pc[u])
  BY <1>2, <1>3, <1>4, ConstantsAssumption DEF Owns
<1>6. \A m : Queued(m)' <=> Queued(m)
  BY DEF Poll, Queued
<1>7. /\ Ended(n)' <=> Ended(n)
      /\ \A k : (Refused(n, k)' <=> Refused(n, k)) /\ (Accepted(n, k)' <=> Accepted(n, k))
  BY DEF Poll, Ended, Refused, Accepted
<1>8. NtfInv(n)
  BY <1>1, <1>3 DEF OwnInv
<1>9. RestOK(n)'
  BY <1>6, <1>7, <1>8 DEF NtfInv, RestOK, Poll
<1>10. ASSUME NEW u \in Threads, Owns(u, n)' PROVE PhaseOK(u, n)'
  <2>1. PhaseOK(u, n) /\ pc'[u] = pc[u]
    BY <1>5, <1>8, <1>10 DEF NtfInv
  <2> QED BY <1>7, <2>1 DEF PhaseOK, Poll
<1>11. NtfInv(n)'
  BY <1>5, <1>6, <1>7, <1>8, <1>9, <1>10 DEF NtfInv
<1>12. QueuedOnce'
  BY <1>1 DEF OwnInv, QueuedOnce, Poll
<1> DEFINE S == {p}
<1>13. \A u \in S : job[u] \in {n, None} /\ job'[u] \in {n, None}
  BY <1>4
<1>14. \A u \in Threads \ S : pc'[u] = pc[u] /\ job'[u] = job[u]
  BY <1>2, <1>4
<1> HIDE DEF S
<1> QED BY <1>1, <1>3, <1>6, <1>11, <1>12, <1>13, <1>14, Others DEF Poll

LEMMA TakeNextOwn ==
  ASSUME NInv, TakeNext
  PROVE  OwnInv'
<1> USE DEF OwnAt, DeliverAt
<1> PICK n : n = Head(queue)
  OBVIOUS
<1>1. TypeOK /\ OwnInv /\ Worker \in Threads /\ Round(Worker) = 0
  BY ThreadSets DEF NInv, Round
<1>2. /\ pc[Worker] = "idle" /\ pc'[Worker] = "begin"
      /\ \A u \in Threads \ {Worker} : pc'[u] = pc[u]
  BY <1>1, GotoMoves DEF TakeNext
<1>3. job[Worker] = None /\ job'[Worker] = n
      /\ \A u \in Threads \ {Worker} : job'[u] = job[u]
  BY <1>1, <1>2 DEF NInv, TypeOK, ThreadInv, TakeNext
<1>4. queue \in Seq(Ntfs) /\ queue # <<>> /\ queue' = Tail(queue)
  BY <1>1 DEF TypeOK, TakeNext
<1>5. /\ Len(queue) \in Nat \ {0} /\ n = queue[1] /\ n \in Ntfs
      /\ DOMAIN queue = 1 .. Len(queue) /\ DOMAIN queue' = 1 .. Len(queue) - 1
      /\ \A i \in 1 .. Len(queue) - 1 : queue'[i] = queue[i + 1]
  BY <1>4
<1>6. \A i, j \in 1 .. Len(queue) : queue[i] = queue[j] => i = j
  BY <1>1, <1>5 DEF OwnInv, QueuedOnce
<1>7. Queued(n) /\ ~Queued(n)'
  <2>1. Queued(n)
    BY <1>5 DEF Queued
  <2>2. ASSUME NEW i \in 1 .. Len(queue) - 1, queue'[i] = n PROVE FALSE
    <3>1. i + 1 \in 1 .. Len(queue) /\ 1 \in 1 .. Len(queue) /\ i + 1 # 1
      BY <1>5
    <3> QED BY <1>5, <1>6, <2>2, <3>1
  <2> QED BY <1>5, <2>1, <2>2 DEF Queued
<1>8. ASSUME NEW m, m # n PROVE Queued(m)' <=> Queued(m)
  <2>1. ASSUME NEW i \in 1 .. Len(queue) - 1, queue'[i] = m PROVE Queued(m)
    <3>1. i + 1 \in DOMAIN queue /\ queue[i + 1] = m
      BY <1>5, <2>1
    <3> QED BY <3>1 DEF Queued
  <2>2. ASSUME NEW i \in 1 .. Len(queue), queue[i] = m PROVE Queued(m)'
    <3>1. i # 1
      BY <1>5, <1>8, <2>2
    <3>2. i - 1 \in 1 .. Len(queue) - 1 /\ (i - 1) + 1 = i
      BY <1>5, <3>1
    <3>3. queue'[i - 1] = m
      BY <1>5, <2>2, <3>2
    <3> QED BY <1>5, <3>2, <3>3 DEF Queued
  <2> QED BY <1>5, <2>1, <2>2 DEF Queued
<1>9. QueuedOnce'
  <2>1. ASSUME NEW i \in 1 .. Len(queue) - 1, NEW j \in 1 .. Len(queue) - 1, queue'[i] = queue'[j]
        PROVE  i = j
    <3>1. i + 1 \in 1 .. Len(queue) /\ j + 1 \in 1 .. Len(queue)
      BY <1>5
    <3> QED BY <1>5, <1>6, <2>1, <3>1
  <2> QED BY <1>5, <2>1 DEF QueuedOnce
<1>10. NtfInv(n)
  BY <1>1, <1>5 DEF OwnInv
<1>11. /\ \A u \in Threads : ~Owns(u, n)
       /\ ~Ended(n) /\ status[n] = "queued" /\ retryCount[n] = 0 /\ Refused(n, 0)
  BY <1>7, <1>10 DEF NtfInv, RestOK
<1>12. Owns(Worker, n)' /\ \A u \in Threads : Owns(u, n)' => u = Worker
  BY <1>2, <1>3, <1>11 DEF Owns
<1>13. PhaseOK(Worker, n)' /\ ~Ended(n)'
  BY <1>1, <1>2, <1>11 DEF PhaseOK, Refused, TakeNext, Ended
<1>14. NtfInv(n)'
  BY <1>1, <1>5, <1>7, <1>12, <1>13, Held
<1> DEFINE S == {Worker}
<1>15. \A u \in S : job[u] \in {n, None} /\ job'[u] \in {n, None}
  BY <1>3
<1>16. \A u \in Threads \ S : pc'[u] = pc[u] /\ job'[u] = job[u]
  BY <1>2, <1>3
<1> HIDE DEF S
<1> QED BY <1>1, <1>5, <1>8, <1>9, <1>14, <1>15, <1>16, Others DEF TakeNext

LEMMA SpawnOwn ==
  ASSUME NInv, NEW t \in Threads, Spawn(t)
  PROVE  OwnInv'
<1> USE DEF OwnAt, DeliverAt
<1> PICK n : n = job[t]
  OBVIOUS
<1> PICK r : r = <<n, retryCount[n]>>
  OBVIOUS
<1>1. TypeOK /\ OwnInv /\ pc[t] = "spawn"
  BY DEF NInv, Spawn
<1>2. /\ n \in Ntfs /\ r \in Threads /\ r # t /\ Round(r) = retryCount[n]
      /\ pc[r] = "idle" /\ job[r] = None
  BY <1>1, SpawnKey, ThreadSets
<1>3. /\ pc'[t] \in {"poll", "idle"} /\ pc'[r] = "asleep"
      /\ job'[t] \in {n, None} /\ job'[r] = n
      /\ \A u \in Threads \ {t, r} : pc'[u] = pc[u] /\ job'[u] = job[u]
  BY <1>1, <1>2 DEF Spawn, TypeOK
<1>4. /\ ~Queued(n) /\ ~Ended(n) /\ PhaseOK(t, n)
      /\ \A u \in Threads : Owns(u, n) => u = t
  BY <1>1, OwnerFacts
<1>5. \A m : Queued(m)' <=> Queued(m)
  BY DEF Spawn, Queued
<1>6. Owns(r, n)' /\ \A u \in Threads : Owns(u, n)' => u = r
  BY <1>2, <1>3, <1>4 DEF Owns
<1>7. status[n] = "retrying" /\ Refused(n, retryCount[n])
  BY <1>1, <1>4 DEF PhaseOK
<1>8. PhaseOK(r, n)' /\ ~Ended(n)'
  BY <1>2, <1>3, <1>4, <1>7 DEF PhaseOK, Refused, Spawn, Ended
<1>9. NtfInv(n)'
  BY <1>2, <1>4, <1>5, <1>6, <1>8, Held
<1>10. QueuedOnce'
  BY <1>1 DEF OwnInv, QueuedOnce, Spawn
<1> DEFINE S == {t, r}
<1>11. \A u \in S : job[u] \in {n, None} /\ job'[u] \in {n, None}
  BY <1>2, <1>3
<1>12. \A u \in Threads \ S : pc'[u] = pc[u] /\ job'[u] = job[u]
  BY <1>3
<1> HIDE DEF S
<1> QED BY <1>1, <1>2, <1>5, <1>9, <1>10, <1>11, <1>12, Others DEF Spawn

LEMMA OwnStep ==
  ASSUME NInv, [Next]_vars
  PROVE  OwnInv'
<1>1. CASE UNCHANGED vars
  BY <1>1 DEF vars, NInv, OwnInv, QueuedOnce, NtfInv, Owns, Queued, Ended, PhaseOK,
              RestOK, Refused, Accepted
<1>2. ASSUME NEW p \in Procs, Call(p) PROVE OwnInv'
  BY <1>2, EnqueueOwn, OverflowOwn, PollOwn DEF Call
<1>3. ASSUME NEW t \in Threads, Deliver(t) PROVE OwnInv'
  BY <1>3, MarkSendingOwn, CallSenderOwn, MarkDeliveredOwn, CountFailureOwn, MarkFailedOwn,
     MarkRetryingOwn, SpawnOwn DEF Deliver
<1> QED BY <1>1, <1>2, <1>3, SendOwn, TakeNextOwn, WakeOwn DEF Next

LEMMA NextInv ==
  ASSUME NInv, [Next]_vars
  PROVE  NInv'
BY TypeStep, ThreadStep, OwnStep DEF NInv

(* The inductive invariant holds in every state the service can reach.     *)
THEOREM Invariance == Spec => []NInv
BY InitInv, NextInv, PTL DEF Spec

(* Every variable has its type.                                            *)
THEOREM TypeCorrect == Spec => []TypeOK
BY Invariance, PTL DEF NInv

-----------------------------------------------------------------------------
(* What the runs check.                                                    *)

LEMMA OneOwnerHolds == NInv => OneOwner
<1> SUFFICES ASSUME NInv, NEW n \in Ntfs
             PROVE  Cardinality(Owners(n)) + Cardinality(Places(n)) =
                      IF status[n] \in Final \cup {"none"} THEN 0 ELSE 1
  BY DEF OneOwner
<1>1. NtfInv(n) /\ QueuedOnce
  BY DEF NInv, OwnInv
<1>2. \A t : t \in Owners(n) <=> t \in Threads /\ Owns(t, n)
  BY DEF Owners, Owns, OwnAt
<1>3. \A i : i \in Places(n) <=> i \in DOMAIN queue /\ queue[i] = n
  BY DEF Places
<1>4. Cardinality({}) = 0 /\ \A x : Cardinality({x}) = 1
  BY FS_EmptySet, FS_Singleton
<1>5. CASE Ended(n)
  <2>1. Owners(n) = {} /\ Places(n) = {}
    BY <1>1, <1>2, <1>3, <1>5 DEF NtfInv, Queued
  <2> QED BY <1>4, <1>5, <2>1 DEF Ended
<1>6. CASE ~Ended(n) /\ Queued(n)
  <2>1. PICK i \in DOMAIN queue : queue[i] = n
    BY <1>6 DEF Queued
  <2>2. Places(n) = {i}
    BY <1>1, <1>3, <2>1 DEF QueuedOnce
  <2>3. Owners(n) = {}
    BY <1>1, <1>2, <1>6 DEF NtfInv
  <2>4. Cardinality(Owners(n)) = 0 /\ Cardinality(Places(n)) = 1
    BY <1>4, <2>2, <2>3
  <2> QED BY <1>6, <2>4 DEF Ended
<1>7. CASE ~Ended(n) /\ ~Queued(n)
  <2>1. PICK t \in Threads : Owns(t, n)
    BY <1>1, <1>7 DEF NtfInv
  <2>2. Owners(n) = {t}
    BY <1>1, <1>2, <2>1 DEF NtfInv
  <2>3. Places(n) = {}
    BY <1>3, <1>7 DEF Queued
  <2> QED BY <1>4, <1>7, <2>2, <2>3 DEF Ended
<1> QED BY <1>5, <1>6, <1>7

(* No notification is lost, and no two goroutines deliver the same one.    *)
THEOREM OwnedOnce == Spec => []OneOwner
BY Invariance, OneOwnerHolds, PTL

LEMMA RefusedCount ==
  ASSUME NEW n \in Ntfs, NEW k \in Nat, Refused(n, k) \/ Accepted(n, k),
         attempts[n] \in Seq({"ok", "error"})
  PROVE  Cardinality(Refusals(n)) = k
<1>1. DOMAIN attempts[n] = 1 .. Len(attempts[n])
  OBVIOUS
<1>2. Refusals(n) = 1 .. k
  BY <1>1 DEF Refusals, Refused, Accepted
<1> QED BY <1>2, FS_Interval

LEMMA AttemptsHold == NInv => AttemptsBounded
<1> SUFFICES ASSUME NInv, NEW n \in Ntfs
    PROVE
      /\ Len(attempts[n]) <= MaxRetries
      /\ \A i \in DOMAIN attempts[n] : attempts[n][i] = "ok" => i = Len(attempts[n])
      /\ status[n] = "failed" <=> retryCount[n] = MaxRetries /\ Owners(n) = {}
      /\ status[n] = "delivered" =>
           Len(attempts[n]) > 0 /\ attempts[n][Len(attempts[n])] = "ok"
      /\ status[n] \in {"queued", "retrying"} \cup Final =>
           retryCount[n] = Cardinality(Refusals(n))
  BY DEF AttemptsBounded
<1>1. NtfInv(n) /\ attempts[n] \in Seq({"ok", "error"}) /\ retryCount[n] \in Nat
      /\ MaxRetries \in Nat \ {0} /\ DOMAIN attempts[n] = 1 .. Len(attempts[n])
  BY ConstantsAssumption DEF NInv, OwnInv, TypeOK
<1>2. ASSUME NEW t \in Threads, Owns(t, n)
      PROVE  /\ PhaseOK(t, n) /\ Round(t) \in Nat /\ Round(t) < MaxRetries
             /\ pc[t] \in OwnAt /\ ~Ended(n) /\ ~Queued(n) /\ Owners(n) # {}
  BY <1>1, <1>2, RoundType DEF NtfInv, Owners, Owns, OwnAt
(* Every notification has been refused a number of times, and then         *)
(* perhaps accepted.                                                       *)
<1>3. PICK k \in Nat : /\ \/ Refused(n, k) /\ k <= MaxRetries
                          \/ Accepted(n, k) /\ k < MaxRetries
                       /\ status[n] \in {"queued", "retrying"} \cup Final => retryCount[n] = k
                       /\ status[n] = "delivered" => Accepted(n, k)
                       /\ status[n] = "failed" => k = MaxRetries
  <2>1. ASSUME NEW t \in Threads, Owns(t, n)
        PROVE  \E k \in Nat : /\ \/ Refused(n, k) /\ k <= MaxRetries
                                 \/ Accepted(n, k) /\ k < MaxRetries
                              /\ status[n] \in {"queued", "retrying"} => retryCount[n] = k
    <3>1. CASE pc[t] \in {"enqueue", "asleep", "begin", "send", "sent"}
      <4>1. retryCount[n] = Round(t) /\ (Refused(n, Round(t)) \/ Accepted(n, Round(t)))
        BY <1>2, <2>1, <3>1 DEF PhaseOK
      <4>2. Round(t) \in Nat /\ Round(t) < MaxRetries /\ Round(t) <= MaxRetries
        BY <1>1, <1>2, <2>1
      <4> QED BY <1>1, <4>1, <4>2
    <3>2. CASE pc[t] \in {"decide", "spawn"}
      <4>1. retryCount[n] = Round(t) + 1 /\ Refused(n, Round(t) + 1)
        BY <1>2, <2>1, <3>2 DEF PhaseOK
      <4>2. Round(t) + 1 \in Nat /\ Round(t) + 1 <= MaxRetries
        BY <1>1, <1>2, <2>1
      <4> QED BY <4>1, <4>2
    <3>3. CASE pc[t] = "failed"
      <4>1. Refused(n, Round(t) + 1) /\ status[n] = "sending"
        BY <1>2, <2>1, <3>3 DEF PhaseOK
      <4>2. Round(t) + 1 \in Nat /\ Round(t) + 1 <= MaxRetries
        BY <1>1, <1>2, <2>1
      <4> QED BY <4>1, <4>2
    <3> QED BY <1>2, <2>1, <3>1, <3>2, <3>3 DEF OwnAt, DeliverAt
  <2>2. CASE \E t \in Threads : Owns(t, n)
    <3>1. status[n] \notin Final
      BY <1>2, <2>2 DEF Ended
    <3> QED BY <2>1, <2>2, <3>1 DEF Final
  <2>3. CASE Queued(n)
    <3>1. status[n] = "queued" /\ retryCount[n] = 0 /\ Refused(n, 0)
      BY <1>1, <2>3 DEF NtfInv, RestOK
    <3> QED BY <1>1, <3>1 DEF Final
  <2>4. CASE Ended(n)
    <3>1. status[n] \in {"none", "delivered", "failed"}
      BY <2>4 DEF Ended, Final
    <3>2. CASE status[n] = "none"
      BY <1>1, <3>2 DEF NtfInv, RestOK, Final
    <3>3. CASE status[n] = "delivered"
      BY <1>1, <3>3 DEF NtfInv, RestOK, Final
    <3>4. CASE status[n] = "failed"
      BY <1>1, <3>4 DEF NtfInv, RestOK, Final
    <3> QED BY <3>1, <3>2, <3>3, <3>4
  <2> QED BY <1>1, <2>2, <2>3, <2>4 DEF NtfInv
<1>4. Len(attempts[n]) <= MaxRetries
  BY <1>1, <1>3 DEF Refused, Accepted
<1>5. \A i \in DOMAIN attempts[n] : attempts[n][i] = "ok" => i = Len(attempts[n])
  BY <1>1, <1>3 DEF Refused, Accepted
<1>6. status[n] = "delivered" => Len(attempts[n]) > 0 /\ attempts[n][Len(attempts[n])] = "ok"
  BY <1>3 DEF Accepted
<1>7. status[n] \in {"queued", "retrying"} \cup Final => retryCount[n] = Cardinality(Refusals(n))
  BY <1>1, <1>3, RefusedCount
<1>8. status[n] = "failed" => retryCount[n] = MaxRetries /\ Owners(n) = {}
  <2> SUFFICES ASSUME status[n] = "failed" PROVE retryCount[n] = MaxRetries /\ Owners(n) = {}
    OBVIOUS
  <2>1. retryCount[n] = MaxRetries /\ Ended(n)
    BY <1>1 DEF NtfInv, RestOK, Ended, Final
  <2>2. \A t \in Threads : ~Owns(t, n)
    BY <1>1, <2>1 DEF NtfInv
  <2> QED BY <2>1, <2>2 DEF Owners, Owns, OwnAt
<1>9. retryCount[n] = MaxRetries /\ Owners(n) = {} => status[n] = "failed"
  <2> SUFFICES ASSUME retryCount[n] = MaxRetries, Owners(n) = {} PROVE status[n] = "failed"
    OBVIOUS
  <2>1. \A t \in Threads : ~Owns(t, n)
    BY <1>2
  <2>2. ~Queued(n)
    BY <1>1 DEF NtfInv, RestOK
  <2>3. status[n] \in {"none", "delivered", "failed"}
    BY <1>1, <2>1, <2>2 DEF NtfInv, Ended, Final
  <2> QED BY <1>1, <2>3 DEF NtfInv, RestOK
<1> QED BY <1>4, <1>5, <1>6, <1>7, <1>8, <1>9

(* The status, the retry count and the answers of the sender agree.        *)
THEOREM AttemptsCounted == Spec => []AttemptsBounded
BY Invariance, AttemptsHold, PTL

(* No step, of whatever goroutine, changes a status that is final: the     *)
(* steps that write a status are the owner's, and what has ended has none. *)
LEMMA FinalStep ==
  ASSUME NInv, [Next]_vars, NEW n \in Ntfs, status[n] \in Final
  PROVE  status'[n] = status[n]
<1>1. TypeOK /\ NtfInv(n) /\ Ended(n)
  BY DEF NInv, OwnInv, Ended
<1>2. \A t \in Threads : ~Owns(t, n)
  BY <1>1 DEF NtfInv
<1>3. ASSUME NEW t \in Threads, NEW s, pc[t] \in OwnAt, UpdateStatus(t, s)
      PROVE  status'[n] = status[n]
  <2>1. job[t] \in Ntfs /\ job[t] # n
    BY <1>2, <1>3, OwnerFacts
  <2> QED BY <1>1, <1>3, <2>1, StatusSet
<1>4. ASSUME NEW t \in Threads, Deliver(t) PROVE status'[n] = status[n]
  <2> USE DEF OwnAt, DeliverAt
  <2>1. CASE MarkSending(t)
    BY <1>3, <2>1 DEF MarkSending, Goto
  <2>2. CASE MarkDelivered(t)
    BY <1>3, <2>2 DEF MarkDelivered, Leave, Goto
  <2>3. CASE MarkFailed(t)
    BY <1>3, <2>3 DEF MarkFailed
  <2>4. CASE MarkRetrying(t)
    BY <1>3, <2>4 DEF MarkRetrying, Goto
  <2> QED BY <1>4, <2>1, <2>2, <2>3, <2>4 DEF Deliver, CallSender, CountFailure, Spawn
<1>5. ASSUME NEW p \in Procs, NEW m \in Ntfs, Send(p, m) PROVE status'[n] = status[n]
  <2>1. m # n
    BY <1>5 DEF Send, Final
  <2> QED BY <1>1, <1>5, <2>1 DEF Send, TypeOK
<1> QED BY <1>4, <1>5 DEF Next, Call, Enqueue, Overflow, Poll, TakeNext, Wake, vars

(* No step of any goroutine changes a status that reads delivered or       *)
(* failed: nobody who could still owns the notification.                   *)
THEOREM FinalIsFinal == Spec => FinalStays
<1>1. NInv /\ [Next]_vars => [\A n \in Ntfs : status[n] \in Final => status'[n] = status[n]]_vars
  BY FinalStep
<1> QED BY <1>1, Invariance, PTL DEF Spec, FinalStays
=============================================================================
