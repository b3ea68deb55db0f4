--------------------------- MODULE BulkheadProofs ---------------------------
(***************************************************************************)
(* Proofs about module Bulkhead, for any number of calls and any limits.   *)
(***************************************************************************)
EXTENDS Bulkhead, FiniteSetTheorems, SequenceTheorems, TLAPS

-----------------------------------------------------------------------------
(* Counting calls by where they are.                                       *)

Where(f, S) == {c \in Calls : f[c] \in S}

In(x, S) == IF x \in S THEN 1 ELSE 0

(* Moving one call changes the number of calls in S by at most one.        *)
LEMMA MoveOne ==
  ASSUME NEW S, NEW f, DOMAIN f = Calls, NEW c \in Calls, NEW to
  PROVE  /\ Cardinality(Where(f, S)) \in Nat
         /\ Cardinality(Where([f EXCEPT ![c] = to], S))
              = Cardinality(Where(f, S)) + In(to, S) - In(f[c], S)
<1> DEFINE W == Where(f, S)
           V == Where([f EXCEPT ![c] = to], S)
<1>1. IsFiniteSet(W)
  BY BulkheadAssumption, FS_Subset DEF Where
<1>2. /\ Cardinality(W) \in Nat
      /\ Cardinality(W \cup {c}) = IF c \in W THEN Cardinality(W) ELSE Cardinality(W) + 1
      /\ Cardinality(W \ {c}) = IF c \in W THEN Cardinality(W) - 1 ELSE Cardinality(W)
  BY <1>1, FS_CardinalityType, FS_AddElement, FS_RemoveElement
<1>3. c \in W <=> f[c] \in S
  BY DEF Where
<1>4. V = IF to \in S THEN W \cup {c} ELSE W \ {c}
  BY DEF Where
<1>5. Cardinality(V) = IF to \in S THEN Cardinality(W \cup {c}) ELSE Cardinality(W \ {c})
  BY <1>4, Zenon
<1>6. Cardinality(V) = Cardinality(W) + In(to, S) - In(f[c], S)
  <2> HIDE DEF W, V
  <2> QED
    BY <1>2, <1>3, <1>5 DEF In
<1> QED
  BY <1>2, <1>6

(* What a step of one call does to the three numbers the counters follow.  *)
LEMMA Moved ==
  ASSUME BulkheadTypeOK, NEW c \in Calls, NEW from, NEW to, Goto(c, from, to)
  PROVE  /\ \A S \in {HoldingAt, QueueingAt, CountedAt} : Cardinality(At(S)) \in Nat
         /\ Cardinality(At(HoldingAt))' = Cardinality(At(HoldingAt))
              + In(to, HoldingAt) - In(from, HoldingAt)
         /\ Cardinality(At(QueueingAt))' = Cardinality(At(QueueingAt))
              + In(to, QueueingAt) - In(from, QueueingAt)
         /\ Cardinality(At(CountedAt))' = Cardinality(At(CountedAt))
              + In(to, CountedAt) - In(from, CountedAt)
<1>1. pc[c] = from /\ pc' = [pc EXCEPT ![c] = to] /\ DOMAIN pc = Calls
  BY DEF Goto, BulkheadTypeOK
<1>2. ASSUME NEW CONSTANT S
      PROVE  /\ Cardinality(At(S)) \in Nat
             /\ Cardinality(At(S))' = Cardinality(At(S)) + In(to, S) - In(from, S)
  <2>1. At(S) = Where(pc, S) /\ At(S)' = Where(pc', S)
    BY DEF At, Where
  <2> QED
    BY <1>1, <2>1, MoveOne
<1> QED
  BY <1>2

-----------------------------------------------------------------------------
(* The counters.  All are exact at every step, so the invariant is         *)
(* inductive together with the discipline of the sender queue.             *)

ActiveExact == active = Cardinality(At(CountedAt))

IInv == BulkheadTypeOK /\ SlotsExact /\ WaitingBounded /\ ActiveExact /\ WorkConserving

(* A step of a call that neither blocks nor was blocked.                   *)
LEMMA QueueUndisturbed ==
  ASSUME IInv, NEW c \in Calls, NEW from, NEW to, Goto(c, from, to),
         from # "blocked", to # "blocked", UNCHANGED sendq,
         slots' = slots \/ slots < MaxConcurrent \/ sendq = <<>>
  PROVE  WorkConserving'
<1>1. sendq' # <<>> => slots' = MaxConcurrent
  BY DEF IInv, WorkConserving, BulkheadTypeOK, SlotsExact
<1>2. \A d \in Calls : pc'[d] = "blocked" <=> pc[d] = "blocked"
  BY DEF Goto, IInv, BulkheadTypeOK
<1> QED
  BY <1>1, <1>2 DEF IInv, WorkConserving

LEMMA InitIInv == BulkheadInit => IInv
<1> SUFFICES ASSUME BulkheadInit PROVE IInv
  OBVIOUS
<1>1. \A S : "call" \notin S => At(S) = {}
  BY DEF BulkheadInit, At
<1>2. At(HoldingAt) = {} /\ At(QueueingAt) = {} /\ At(CountedAt) = {}
  BY <1>1 DEF HoldingAt, QueueingAt, CountedAt
<1>3. Cardinality({}) = 0
  BY FS_EmptySet
<1>4. /\ Cardinality(At(HoldingAt)) = 0
      /\ Cardinality(At(QueueingAt)) = 0
      /\ Cardinality(At(CountedAt)) = 0
  BY <1>2, <1>3, Zenon
<1>5. BulkheadTypeOK
  BY DEF BulkheadInit, BulkheadTypeOK, PCs, Results
<1> QED
  BY <1>4, <1>5, BulkheadAssumption
  DEF BulkheadInit, IInv, SlotsExact, WaitingBounded, ActiveExact, WorkConserving

(* A step that changes each counter as it moves its call.                  *)
LEMMA CountersFollow ==
  ASSUME IInv, NEW c \in Calls, NEW from, NEW to, Goto(c, from, to),
         slots' = slots + In(to, HoldingAt) - In(from, HoldingAt), slots' <= MaxConcurrent,
         waiting' = waiting + In(to, QueueingAt) - In(from, QueueingAt), waiting' <= MaxWaiting,
         active' = active + In(to, CountedAt) - In(from, CountedAt)
  PROVE  SlotsExact' /\ WaitingBounded' /\ ActiveExact'
<1>1. /\ slots = Cardinality(At(HoldingAt))
      /\ waiting = Cardinality(At(QueueingAt))
      /\ active = Cardinality(At(CountedAt))
  BY DEF IInv, SlotsExact, WaitingBounded, ActiveExact
<1>2. /\ slots' = Cardinality(At(HoldingAt))'
      /\ waiting' = Cardinality(At(QueueingAt))'
      /\ active' = Cardinality(At(CountedAt))'
  BY <1>1, Moved DEF IInv
<1> QED
  BY <1>2 DEF SlotsExact, WaitingBounded, ActiveExact

(* The steps that leave the sender queue alone.                            *)
LEMMA PlainIInv ==
  ASSUME IInv, NEW c \in Calls,
         \/ TakeSlot(c) \/ Refuse(c) \/ CountActive(c) \/ RejectTry(c)
         \/ EnterQueue(c) \/ RejectFull(c) \/ TakeLate(c) \/ CountExpired(c)
         \/ CountLate(c) \/ LeaveQueue(c) \/ Run(c) \/ Tally(c) \/ CountInactive(c)
  PROVE  IInv'
<1> USE DEF IInv
<1>1. CASE TakeSlot(c)
  <2>1. BulkheadTypeOK'
    BY <1>1 DEF BulkheadTypeOK, TakeSlot, Goto, PCs
  <2>2. WorkConserving'
    BY <1>1, QueueUndisturbed DEF TakeSlot
  <2>3. SlotsExact' /\ WaitingBounded' /\ ActiveExact'
    BY <1>1, CountersFollow, BulkheadAssumption, SMTT(30)
    DEF TakeSlot, In, HoldingAt, QueueingAt, CountedAt, BulkheadTypeOK, SlotsExact, WaitingBounded
  <2> QED
    BY <2>1, <2>2, <2>3
<1>2. CASE Refuse(c)
  <2>1. BulkheadTypeOK'
    BY <1>2 DEF BulkheadTypeOK, Refuse, Goto, PCs
  <2>2. WorkConserving'
    BY <1>2, QueueUndisturbed DEF Refuse
  <2>3. SlotsExact' /\ WaitingBounded' /\ ActiveExact'
    BY <1>2, CountersFollow
    DEF Refuse, In, HoldingAt, QueueingAt, CountedAt, BulkheadTypeOK, SlotsExact, WaitingBounded
  <2> QED
    BY <2>1, <2>2, <2>3
<1>3. CASE CountActive(c)
  <2>1. BulkheadTypeOK'
    BY <1>3 DEF BulkheadTypeOK, CountActive, Goto, PCs
  <2>2. WorkConserving'
    BY <1>3, QueueUndisturbed DEF CountActive
  <2>3. SlotsExact' /\ WaitingBounded' /\ ActiveExact'
    BY <1>3, CountersFollow
    DEF CountActive, In, HoldingAt, QueueingAt, CountedAt, BulkheadTypeOK, SlotsExact, WaitingBounded
  <2> QED
    BY <2>1, <2>2, <2>3
<1>4. CASE RejectTry(c)
  <2>1. BulkheadTypeOK'
    BY <1>4 DEF BulkheadTypeOK, RejectTry, Goto, PCs, Count, End, Results
  <2>2. WorkConserving'
    BY <1>4, QueueUndisturbed DEF RejectTry
  <2>3. SlotsExact' /\ WaitingBounded' /\ ActiveExact'
    BY <1>4, CountersFollow
    DEF RejectTry, In, HoldingAt, QueueingAt, CountedAt, BulkheadTypeOK, SlotsExact, WaitingBounded
  <2> QED
    BY <2>1, <2>2, <2>3
<1>5. CASE EnterQueue(c)
  <2>1. BulkheadTypeOK'
    BY <1>5 DEF BulkheadTypeOK, EnterQueue, Goto, PCs
  <2>2. WorkConserving'
    BY <1>5, QueueUndisturbed DEF EnterQueue
  <2>3. SlotsExact' /\ WaitingBounded' /\ ActiveExact'
    BY <1>5, CountersFollow, BulkheadAssumption, SMTT(30)
    DEF EnterQueue, In, HoldingAt, QueueingAt, CountedAt, BulkheadTypeOK, SlotsExact,
        WaitingBounded, HasRoom
  <2> QED
    BY <2>1, <2>2, <2>3
<1>6. CASE RejectFull(c)
  <2>1. BulkheadTypeOK'
    BY <1>6 DEF BulkheadTypeOK, RejectFull, Goto, PCs, Count, End, Results
  <2>2. WorkConserving'
    BY <1>6, QueueUndisturbed DEF RejectFull
  <2>3. SlotsExact' /\ WaitingBounded' /\ ActiveExact'
    BY <1>6, CountersFollow
    DEF RejectFull, In, HoldingAt, QueueingAt, CountedAt, BulkheadTypeOK, SlotsExact,
        WaitingBounded, HasRoom
  <2> QED
    BY <2>1, <2>2, <2>3
<1>7. CASE TakeLate(c)
  <2>1. BulkheadTypeOK'
    BY <1>7 DEF BulkheadTypeOK, TakeLate, Goto, PCs
  <2>2. WorkConserving'
    BY <1>7, QueueUndisturbed DEF TakeLate
  <2>3. SlotsExact' /\ WaitingBounded' /\ ActiveExact'
    BY <1>7, CountersFollow, BulkheadAssumption
    DEF TakeLate, In, HoldingAt, QueueingAt, CountedAt, BulkheadTypeOK, SlotsExact, WaitingBounded
  <2> QED
    BY <2>1, <2>2, <2>3
<1>8. CASE CountExpired(c)
  <2>1. BulkheadTypeOK'
    BY <1>8 DEF BulkheadTypeOK, CountExpired, Goto, PCs, Count, End, Results
  <2>2. WorkConserving'
    BY <1>8, QueueUndisturbed DEF CountExpired
  <2>3. SlotsExact' /\ WaitingBounded' /\ ActiveExact'
    BY <1>8, CountersFollow
    DEF CountExpired, In, HoldingAt, QueueingAt, CountedAt, BulkheadTypeOK, SlotsExact, WaitingBounded
  <2> QED
    BY <2>1, <2>2, <2>3
<1>9. CASE CountLate(c)
  <2>1. BulkheadTypeOK'
    BY <1>9 DEF BulkheadTypeOK, CountLate, Goto, PCs
  <2>2. WorkConserving'
    BY <1>9, QueueUndisturbed DEF CountLate
  <2>3. SlotsExact' /\ WaitingBounded' /\ ActiveExact'
    BY <1>9, CountersFollow
    DEF CountLate, In, HoldingAt, QueueingAt, CountedAt, BulkheadTypeOK, SlotsExact, WaitingBounded
  <2> QED
    BY <2>1, <2>2, <2>3
<1>10. CASE LeaveQueue(c)
  <2>1. BulkheadTypeOK'
    BY <1>10 DEF BulkheadTypeOK, LeaveQueue, Goto, PCs
  <2>2. WorkConserving'
    BY <1>10, QueueUndisturbed DEF LeaveQueue
  <2>3. SlotsExact' /\ WaitingBounded' /\ ActiveExact'
    <3>1. CASE Goto(c, "enter", "run")
      BY <1>10, <3>1, CountersFollow, BulkheadAssumption, SMTT(30)
      DEF LeaveQueue, In, HoldingAt, QueueingAt, CountedAt, BulkheadTypeOK, SlotsExact, WaitingBounded
    <3>2. CASE Goto(c, "leave", "done")
      <4>1. /\ In("done", HoldingAt) = 0 /\ In("leave", HoldingAt) = 0
            /\ In("done", QueueingAt) = 0 /\ In("leave", QueueingAt) = 1
            /\ In("done", CountedAt) = 0 /\ In("leave", CountedAt) = 0
        BY DEF In, HoldingAt, QueueingAt, CountedAt
      <4>2. slots' = slots /\ waiting' = waiting - 1 /\ active' = active
        BY <1>10 DEF LeaveQueue
      <4>3. slots' <= MaxConcurrent /\ waiting' <= MaxWaiting
        BY <4>2, BulkheadAssumption DEF BulkheadTypeOK, SlotsExact, WaitingBounded
      <4> QED
        BY <3>2, <4>1, <4>2, <4>3, CountersFollow DEF BulkheadTypeOK
    <3> QED
      BY <1>10, <3>1, <3>2 DEF LeaveQueue
  <2> QED
    BY <2>1, <2>2, <2>3
<1>11. CASE Run(c)
  <2>1. BulkheadTypeOK'
    BY <1>11 DEF BulkheadTypeOK, Run, Goto, PCs, End, Results
  <2>2. WorkConserving'
    BY <1>11, QueueUndisturbed DEF Run
  <2>3. SlotsExact' /\ WaitingBounded' /\ ActiveExact'
    BY <1>11, CountersFollow
    DEF Run, In, HoldingAt, QueueingAt, CountedAt, BulkheadTypeOK, SlotsExact, WaitingBounded
  <2> QED
    BY <2>1, <2>2, <2>3
<1>12. CASE Tally(c)
  <2>1. BulkheadTypeOK'
    <3>1. counts' \in [{"rejected", "success", "failure"} -> Nat]
      <4>1. counts' = [counts EXCEPT ![result[c]] = @ + 1]
        BY <1>12 DEF Tally, Count
      <4>2. counts \in [{"rejected", "success", "failure"} -> Nat]
        BY DEF BulkheadTypeOK
      <4>3. DOMAIN counts' = DOMAIN counts /\ DOMAIN counts = {"rejected", "success", "failure"}
        BY <4>1, <4>2
      <4>4. \A d \in DOMAIN counts : counts'[d] \in Nat
        BY <4>1, <4>2
      <4> QED
        BY <4>1, <4>3, <4>4
    <3> QED
      BY <1>12, <3>1 DEF BulkheadTypeOK, Tally, Goto, PCs
  <2>2. WorkConserving'
    BY <1>12, QueueUndisturbed DEF Tally
  <2>3. SlotsExact' /\ WaitingBounded' /\ ActiveExact'
    BY <1>12, CountersFollow
    DEF Tally, In, HoldingAt, QueueingAt, CountedAt, BulkheadTypeOK, SlotsExact, WaitingBounded
  <2> QED
    BY <2>1, <2>2, <2>3
<1>13. CASE CountInactive(c)
  <2>1. BulkheadTypeOK'
    BY <1>13 DEF BulkheadTypeOK, CountInactive, Goto, PCs
  <2>2. WorkConserving'
    BY <1>13, QueueUndisturbed DEF CountInactive
  <2>3. SlotsExact' /\ WaitingBounded' /\ ActiveExact'
    BY <1>13, CountersFollow
    DEF CountInactive, In, HoldingAt, QueueingAt, CountedAt, BulkheadTypeOK, SlotsExact, WaitingBounded
  <2> QED
    BY <2>1, <2>2, <2>3
<1> QED
  BY <1>1, <1>2, <1>3, <1>4, <1>5, <1>6, <1>7, <1>8, <1>9, <1>10, <1>11, <1>12, <1>13

(* Blocking and giving up change the sender queue.                         *)
LEMMA BlockIInv ==
  ASSUME IInv, NEW c \in Calls, Block(c)
  PROVE  IInv'
<1> USE DEF IInv
<1>1. BulkheadTypeOK'
  BY DEF BulkheadTypeOK, Block, Goto, PCs
<1>2. WorkConserving'
  <2>1. sendq \in Seq(Calls) /\ sendq' = Append(sendq, c)
    BY DEF BulkheadTypeOK, Block
  <2>2. /\ Len(sendq') = Len(sendq) + 1
        /\ DOMAIN sendq' = 1 .. Len(sendq) + 1 /\ DOMAIN sendq = 1 .. Len(sendq)
        /\ \A i \in 1 .. Len(sendq) : sendq'[i] = sendq[i]
        /\ sendq'[Len(sendq) + 1] = c
        /\ Len(sendq) \in Nat
    BY <2>1
  <2>3. slots' = MaxConcurrent
    BY BulkheadAssumption DEF Block, SlotsExact, BulkheadTypeOK
  <2>4. /\ pc[c] # "blocked" /\ pc'[c] = "blocked"
        /\ \A d \in Calls \ {c} : pc'[d] = pc[d]
    BY DEF Block, Goto, BulkheadTypeOK
  <2>5. \A i \in DOMAIN sendq : sendq[i] # c
    BY <2>4 DEF WorkConserving
  <2>6. \A d \in Calls : pc'[d] = "blocked" <=> \E i \in DOMAIN sendq' : sendq'[i] = d
    <3>1. ASSUME NEW d \in Calls \ {c}
          PROVE  pc'[d] = "blocked" <=> \E i \in DOMAIN sendq' : sendq'[i] = d
      BY <2>2, <2>4 DEF WorkConserving
    <3>2. pc'[c] = "blocked" <=> \E i \in DOMAIN sendq' : sendq'[i] = c
      BY <2>2, <2>4
    <3> QED
      BY <3>1, <3>2
  <2>7. \A i, j \in DOMAIN sendq' : sendq'[i] = sendq'[j] => i = j
    BY <2>2, <2>5 DEF WorkConserving
  <2> QED
    BY <2>3, <2>6, <2>7 DEF WorkConserving
<1>3. SlotsExact' /\ WaitingBounded' /\ ActiveExact'
  BY CountersFollow, SMTT(30)
  DEF Block, In, HoldingAt, QueueingAt, CountedAt, BulkheadTypeOK, SlotsExact, WaitingBounded
<1> QED
  BY <1>1, <1>2, <1>3

LEMMA RemoveAtProperties ==
  ASSUME NEW q \in Seq(Calls), NEW i \in 1 .. Len(q)
  PROVE  /\ RemoveAt(q, i) \in Seq(Calls)
         /\ Len(RemoveAt(q, i)) = Len(q) - 1
         /\ \A j \in 1 .. Len(q) - 1 : RemoveAt(q, i)[j] = IF j < i THEN q[j] ELSE q[j + 1]
<1> DEFINE front == SubSeq(q, 1, i - 1)
           back == SubSeq(q, i + 1, Len(q))
<1>1. Len(q) \in Nat
  BY LenProperties
<1>2. /\ front \in Seq(Calls) /\ Len(front) = i - 1
      /\ \A j \in 1 .. i - 1 : front[j] = q[j]
  BY <1>1
<1>3. /\ back \in Seq(Calls) /\ Len(back) = Len(q) - i
      /\ \A j \in 1 .. Len(q) - i : back[j] = q[j + i]
  BY <1>1
<1> HIDE DEF front, back
<1>4. /\ front \o back \in Seq(Calls)
      /\ Len(front \o back) = Len(q) - 1
      /\ \A j \in 1 .. Len(q) - 1 :
           (front \o back)[j] = IF j < i THEN front[j] ELSE back[j - (i - 1)]
  BY <1>1, <1>2, <1>3
<1>5. ASSUME NEW j \in 1 .. Len(q) - 1
      PROVE  (front \o back)[j] = IF j < i THEN q[j] ELSE q[j + 1]
  <2>1. CASE j < i
    <3>1. j \in 1 .. i - 1
      BY <1>1, <2>1
    <3> QED
      BY <1>2, <1>4, <2>1, <3>1
  <2>2. CASE ~(j < i)
    <3>1. /\ j - (i - 1) \in 1 .. Len(q) - i
          /\ (j - (i - 1)) + i = j + 1
      BY <1>1, <2>2
    <3>2. back[j - (i - 1)] = q[j + 1]
      BY <1>3, <3>1
    <3> QED
      BY <1>4, <2>2, <3>2
  <2> QED
    BY <2>1, <2>2
<1> QED
  BY <1>4, <1>5 DEF RemoveAt, front, back

LEMMA GiveUpIInv ==
  ASSUME IInv, NEW c \in Calls, GiveUp(c)
  PROVE  IInv'
<1> USE DEF IInv
<1>1. CASE Goto(c, "select", "expired") /\ UNCHANGED sendq
  <2>1. BulkheadTypeOK'
    BY <1>1 DEF BulkheadTypeOK, GiveUp, Goto, PCs
  <2>2. WorkConserving'
    BY <1>1, QueueUndisturbed DEF GiveUp
  <2>3. SlotsExact' /\ WaitingBounded' /\ ActiveExact'
    BY <1>1, CountersFollow
    DEF GiveUp, In, HoldingAt, QueueingAt, CountedAt, BulkheadTypeOK, SlotsExact, WaitingBounded
  <2> QED
    BY <2>1, <2>2, <2>3
<1>2. ASSUME Goto(c, "blocked", "expired"), NEW i \in DOMAIN sendq, sendq[i] = c,
             sendq' = RemoveAt(sendq, i)
      PROVE  IInv'
  <2>1. /\ sendq' \in Seq(Calls)
        /\ DOMAIN sendq = 1 .. Len(sendq) /\ DOMAIN sendq' = 1 .. Len(sendq) - 1
        /\ i \in 1 .. Len(sendq) /\ Len(sendq) \in Nat
        /\ \A j \in 1 .. Len(sendq) - 1 : sendq'[j] = IF j < i THEN sendq[j] ELSE sendq[j + 1]
    <3>1. sendq \in Seq(Calls) /\ i \in 1 .. Len(sendq)
      BY DEF BulkheadTypeOK
    <3> QED
      BY <1>2, <3>1, RemoveAtProperties, LenProperties
  <2>2. BulkheadTypeOK'
    BY <1>2, <2>1 DEF BulkheadTypeOK, GiveUp, Goto, PCs
  <2>3. /\ pc[c] = "blocked" /\ pc'[c] # "blocked"
        /\ \A d \in Calls \ {c} : pc'[d] = pc[d]
    BY <1>2 DEF Goto, BulkheadTypeOK
  <2>4. \A j, k \in DOMAIN sendq : sendq[j] = sendq[k] => j = k
    BY DEF WorkConserving
  <2>5. \A j \in DOMAIN sendq' : sendq'[j] # c
    BY <1>2, <2>1, <2>4
  <2>6. ASSUME NEW d \in Calls \ {c}
        PROVE  (\E j \in DOMAIN sendq' : sendq'[j] = d) <=> (\E j \in DOMAIN sendq : sendq[j] = d)
    <3>1. ASSUME NEW j \in DOMAIN sendq, sendq[j] = d
          PROVE  \E k \in DOMAIN sendq' : sendq'[k] = d
      <4>1. CASE j < i
        BY <2>1, <3>1, <4>1
      <4>2. CASE j > i
        <5>1. j - 1 \in DOMAIN sendq' /\ sendq'[j - 1] = d
          BY <2>1, <3>1, <4>2
        <5> QED
          BY <5>1
      <4>3. j # i
        BY <1>2, <3>1
      <4> QED
        BY <2>1, <4>1, <4>2, <4>3
    <3>2. ASSUME NEW k \in DOMAIN sendq', sendq'[k] = d
          PROVE  \E j \in DOMAIN sendq : sendq[j] = d
      BY <2>1, <3>2
    <3> QED
      BY <3>1, <3>2
  <2>7. \A d \in Calls : pc'[d] = "blocked" <=> \E j \in DOMAIN sendq' : sendq'[j] = d
    BY <2>3, <2>5, <2>6 DEF WorkConserving
  <2>8. \A j, k \in DOMAIN sendq' : sendq'[j] = sendq'[k] => j = k
    <3> DEFINE old(j) == IF j < i THEN j ELSE j + 1
    <3>1. \A j \in DOMAIN sendq' : old(j) \in DOMAIN sendq /\ sendq'[j] = sendq[old(j)]
      BY <2>1
    <3>2. \A j, k \in DOMAIN sendq' : old(j) = old(k) => j = k
      BY <2>1
    <3> HIDE DEF old
    <3> QED
      BY <2>4, <3>1, <3>2
  <2>9. sendq' # <<>> => slots' = MaxConcurrent
    <3>1. sendq # <<>>
      BY <2>1
    <3> QED
      BY <3>1 DEF GiveUp, WorkConserving
  <2>10. SlotsExact' /\ WaitingBounded' /\ ActiveExact'
    BY <1>2, CountersFollow, SMTT(30)
    DEF GiveUp, In, HoldingAt, QueueingAt, CountedAt, BulkheadTypeOK, SlotsExact, WaitingBounded
  <2> QED
    BY <2>2, <2>7, <2>8, <2>9, <2>10 DEF WorkConserving
<1> QED
  BY <1>1, <1>2 DEF GiveUp

(* Giving the slot back, to the call that has waited longest if there is   *)
(* one.                                                                    *)
LEMMA ReleaseIInv ==
  ASSUME IInv, NEW c \in Calls, Release(c)
  PROVE  IInv'
<1> USE DEF IInv
<1>1. CASE sendq = <<>>
  <2>1. /\ Goto(c, "release", "uncount") /\ slots' = slots - 1
        /\ UNCHANGED <<sendq, waiting, active, counts, result>>
    BY <1>1 DEF Release
  <2>2. SlotsExact' /\ WaitingBounded' /\ ActiveExact'
    <3>1. slots' <= MaxConcurrent
      BY <2>1, BulkheadAssumption DEF SlotsExact, BulkheadTypeOK
    <3> QED
      BY <2>1, <3>1, CountersFollow
      DEF In, HoldingAt, QueueingAt, CountedAt, BulkheadTypeOK, WaitingBounded
  <2>3. slots' \in Nat
    <3>1. Cardinality(At(HoldingAt))' \in Nat
      <4>1. At(HoldingAt)' \subseteq Calls
        BY DEF At
      <4> QED
        BY <4>1, BulkheadAssumption, FS_Subset, FS_CardinalityType
    <3> QED
      BY <2>2, <3>1 DEF SlotsExact
  <2>4. BulkheadTypeOK'
    BY <2>1, <2>3 DEF BulkheadTypeOK, Goto, PCs
  <2>5. WorkConserving'
    BY <1>1, <2>1, QueueUndisturbed
  <2> QED
    BY <2>2, <2>4, <2>5
<1>2. CASE sendq # <<>>
  <2> DEFINE h == Head(sendq)
             g == [pc EXCEPT ![c] = "uncount"]
  <2>1. /\ sendq' = Tail(sendq) /\ pc' = [pc EXCEPT ![c] = "uncount", ![h] = "countlate"]
        /\ pc[c] = "release"
        /\ UNCHANGED <<slots, waiting, active, counts, result>>
    BY <1>2 DEF Release
  <2>2. /\ sendq \in Seq(Calls) /\ Len(sendq) \in Nat \ {0}
        /\ DOMAIN sendq = 1 .. Len(sendq) /\ h = sendq[1] /\ h \in Calls
    BY <1>2 DEF BulkheadTypeOK
  <2>3. /\ sendq' \in Seq(Calls) /\ DOMAIN sendq' = 1 .. Len(sendq) - 1
        /\ \A j \in DOMAIN sendq' : sendq'[j] = sendq[j + 1]
    BY <1>2, <2>1, <2>2, HeadTailProperties
  <2>4. pc[h] = "blocked" /\ h # c
    BY <2>1, <2>2 DEF WorkConserving
  <2> HIDE DEF h
  <2>5. BulkheadTypeOK'
    BY <2>1, <2>2, <2>3 DEF BulkheadTypeOK, PCs
  <2>6. WorkConserving'
    <3>1. sendq' # <<>> => slots' = MaxConcurrent
      BY <1>2, <2>1 DEF WorkConserving
    <3>2. /\ \A j, k \in DOMAIN sendq : sendq[j] = sendq[k] => j = k
          /\ \A d \in Calls : pc[d] = "blocked" <=> \E i \in DOMAIN sendq : sendq[i] = d
      BY DEF WorkConserving
    <3>3. \A j \in DOMAIN sendq' : j \in DOMAIN sendq /\ j + 1 \in DOMAIN sendq
      BY <2>2, <2>3
    <3>4. \A j, k \in DOMAIN sendq' : sendq'[j] = sendq'[k] => j = k
      BY <2>2, <2>3, <3>2, <3>3
    <3>5. \A j \in DOMAIN sendq' : sendq'[j] # h
      BY <2>2, <2>3, <3>2, <3>3
    <3>6. ASSUME NEW d \in Calls \ {h}
          PROVE  (\E j \in DOMAIN sendq' : sendq'[j] = d) <=> (\E j \in DOMAIN sendq : sendq[j] = d)
      <4>1. ASSUME NEW j \in DOMAIN sendq, sendq[j] = d
            PROVE  \E k \in DOMAIN sendq' : sendq'[k] = d
        <5>1. j - 1 \in DOMAIN sendq' /\ sendq'[j - 1] = d
          BY <2>2, <2>3, <4>1
        <5> QED
          BY <5>1
      <4> QED
        BY <2>3, <3>3, <4>1
    <3>7. \A d \in Calls : pc'[d] = "blocked" <=> d # h /\ pc[d] = "blocked"
      BY <2>1, <2>2, <2>4 DEF BulkheadTypeOK
    <3>8. \A d \in Calls : pc'[d] = "blocked" <=> \E i \in DOMAIN sendq' : sendq'[i] = d
      BY <3>2, <3>5, <3>6, <3>7
    <3> QED
      BY <3>1, <3>4, <3>8 DEF WorkConserving
  <2>7. ASSUME NEW CONSTANT S
        PROVE  /\ Cardinality(At(S)) \in Nat
               /\ Cardinality(At(S))' = Cardinality(At(S)) + In("uncount", S) - In("release", S)
                                       + In("countlate", S) - In("blocked", S)
    <3>1. At(S) = Where(pc, S) /\ At(S)' = Where(pc', S)
      BY DEF At, Where
    <3>2. DOMAIN pc = Calls /\ DOMAIN g = Calls /\ g[h] = "blocked"
      BY <2>2, <2>4 DEF BulkheadTypeOK
    <3>3. pc' = [g EXCEPT ![h] = "countlate"]
      BY <2>1
    <3>4. /\ Cardinality(Where(pc, S)) \in Nat
          /\ Cardinality(Where(g, S))
               = Cardinality(Where(pc, S)) + In("uncount", S) - In("release", S)
      BY <2>1, <3>2, MoveOne
    <3>5. Cardinality(Where([g EXCEPT ![h] = "countlate"], S))
            = Cardinality(Where(g, S)) + In("countlate", S) - In("blocked", S)
      <4> HIDE DEF g
      <4>1. Cardinality(Where([g EXCEPT ![h] = "countlate"], S))
              = Cardinality(Where(g, S)) + In("countlate", S) - In(g[h], S)
        BY <2>2, <3>2, MoveOne
      <4> QED
        BY <3>2, <4>1
    <3>6. Cardinality(At(S)) = Cardinality(Where(pc, S))
          /\ Cardinality(At(S))' = Cardinality(Where([g EXCEPT ![h] = "countlate"], S))
      BY <3>1, <3>3, Zenon
    <3> HIDE DEF g
    <3> QED
      BY <3>4, <3>5, <3>6 DEF In
  <2>8. /\ Cardinality(At(HoldingAt))' = Cardinality(At(HoldingAt))
        /\ Cardinality(At(QueueingAt))' = Cardinality(At(QueueingAt))
        /\ Cardinality(At(CountedAt))' = Cardinality(At(CountedAt))
    <3>1. \A S : Cardinality(At(S)) \in Nat
      BY <2>7
    <3>2. Cardinality(At(HoldingAt))' = Cardinality(At(HoldingAt))
      BY <2>7, <3>1 DEF In, HoldingAt
    <3>3. Cardinality(At(QueueingAt))' = Cardinality(At(QueueingAt))
      BY <2>7, <3>1 DEF In, QueueingAt
    <3>4. Cardinality(At(CountedAt))' = Cardinality(At(CountedAt))
      BY <2>7, <3>1 DEF In, CountedAt
    <3> QED
      BY <3>2, <3>3, <3>4
  <2>9. SlotsExact' /\ WaitingBounded' /\ ActiveExact'
    BY <2>1, <2>8 DEF SlotsExact, WaitingBounded, ActiveExact
  <2> QED
    BY <2>5, <2>6, <2>9
<1> QED
  BY <1>1, <1>2

LEMMA NextIInv == IInv /\ [BulkheadNext]_bulkheadVars => IInv'
<1> SUFFICES ASSUME IInv, [BulkheadNext]_bulkheadVars PROVE IInv'
  OBVIOUS
<1>1. CASE UNCHANGED bulkheadVars
  BY <1>1 DEF bulkheadVars, IInv, BulkheadTypeOK, SlotsExact, WaitingBounded, ActiveExact,
              WorkConserving, At
<1>2. ASSUME NEW c \in Calls, Execute(c) \/ GiveUp(c) PROVE IInv'
  BY <1>2, PlainIInv, BlockIInv, GiveUpIInv, ReleaseIInv DEF Execute, Wait
<1> QED
  BY <1>1, <1>2 DEF BulkheadNext

LEMMA Invariance == BulkheadSpec => []IInv
<1> QED
  BY InitIInv, NextIInv, PTL DEF BulkheadSpec

-----------------------------------------------------------------------------
(* The outcome counters.                                                   *)

Undecided == {"call", "count", "queue", "reject", "select", "blocked", "expired",
              "countlate", "enter", "run"}

Outcomes ==
  /\ \A c \in Calls : pc[c] \in Undecided => result[c] = "none"
  /\ \A c \in Calls : pc[c] = "tally" => result[c] \in {"success", "failure"}

OutcomesCounted ==
  \A how \in DOMAIN counts : counts[how] = Cardinality(Ended(how))

CInv == IInv /\ Outcomes /\ OutcomesCounted

(* A step that decides nothing and enters or leaves no "tally".            *)
LEMMA NothingEnds ==
  ASSUME CInv, UNCHANGED <<counts, result>>,
         \A c \in Calls : pc'[c] # pc[c] => pc[c] # "tally" /\ pc'[c] # "tally"
  PROVE  OutcomesCounted'
<1>1. ASSUME NEW how PROVE Ended(how)' = Ended(how)
  BY DEF Ended
<1>2. ASSUME NEW how \in DOMAIN counts PROVE counts'[how] = Cardinality(Ended(how))'
  <2>1. counts'[how] = Cardinality(Ended(how))
    BY DEF CInv, OutcomesCounted
  <2> QED
    BY <1>1, <2>1, Zenon
<1> QED
  BY <1>2 DEF OutcomesCounted

(* A step that counts one outcome of one call.                             *)
LEMMA OneEnds ==
  ASSUME CInv, NEW c \in Calls, NEW how \in DOMAIN counts, Count(how),
         c \notin Ended(how), result'[c] = how, pc'[c] # "tally",
         \A h \in DOMAIN counts : h # how => (result[c] # h /\ result'[c] # h),
         \A d \in Calls \ {c} : pc'[d] = pc[d] /\ result'[d] = result[d]
  PROVE  OutcomesCounted'
<1>1. /\ DOMAIN counts' = DOMAIN counts
      /\ counts'[how] = counts[how] + 1
      /\ \A h \in DOMAIN counts : h # how => counts'[h] = counts[h]
  BY DEF Count, CInv, IInv, BulkheadTypeOK
<1>2. Cardinality(Ended(how))' = Cardinality(Ended(how)) + 1
  <2>1. Ended(how)' = Ended(how) \cup {c}
    BY DEF Ended
  <2>2. IsFiniteSet(Ended(how))
    BY BulkheadAssumption, FS_Subset DEF Ended
  <2>3. Cardinality(Ended(how) \cup {c}) = Cardinality(Ended(how)) + 1
    BY <2>2, FS_AddElement
  <2> QED
    BY <2>1, <2>3, Zenon
<1>3. ASSUME NEW h \in DOMAIN counts, h # how
      PROVE  Cardinality(Ended(h))' = Cardinality(Ended(h))
  <2>1. Ended(h)' = Ended(h)
    BY <1>3 DEF Ended
  <2> QED
    BY <2>1, Zenon
<1>4. \A h \in DOMAIN counts : counts[h] = Cardinality(Ended(h))
  BY DEF CInv, OutcomesCounted
<1>5. ASSUME NEW h \in DOMAIN counts PROVE counts'[h] = Cardinality(Ended(h))'
  BY <1>1, <1>2, <1>3, <1>4
<1> QED
  BY <1>1, <1>5 DEF OutcomesCounted

LEMMA InitCInv == BulkheadInit => CInv
<1> SUFFICES ASSUME BulkheadInit PROVE CInv
  OBVIOUS
<1>1. ASSUME NEW how \in DOMAIN counts PROVE counts[how] = Cardinality(Ended(how))
  <2>1. Ended(how) = {}
    BY DEF BulkheadInit, Ended
  <2>2. Cardinality(Ended(how)) = 0
    BY <2>1, FS_EmptySet, Zenon
  <2> QED
    BY <2>2 DEF BulkheadInit
<1> QED
  BY <1>1, InitIInv DEF CInv, Outcomes, OutcomesCounted, BulkheadInit

LEMMA NextCInv == CInv /\ [BulkheadNext]_bulkheadVars => CInv'
<1> SUFFICES ASSUME CInv, [BulkheadNext]_bulkheadVars PROVE CInv'
  OBVIOUS
<1>1. IInv'
  BY NextIInv DEF CInv
<1>2. pc \in [Calls -> PCs] /\ result \in [Calls -> Results]
      /\ DOMAIN counts = {"rejected", "success", "failure"}
  BY DEF CInv, IInv, BulkheadTypeOK
<1>3. CASE UNCHANGED bulkheadVars
  BY <1>1, <1>3, NothingEnds DEF bulkheadVars, CInv, Outcomes
<1>4. ASSUME NEW c \in Calls,
             \/ TakeSlot(c) \/ Refuse(c) \/ CountActive(c) \/ EnterQueue(c) \/ TakeLate(c)
             \/ Block(c) \/ GiveUp(c) \/ CountLate(c) \/ LeaveQueue(c) \/ CountInactive(c)
      PROVE  CInv'
  <2>1. PICK from, to : /\ Goto(c, from, to)
                       /\ from # "tally" /\ to # "tally" /\ (to \in Undecided => from \in Undecided)
    BY <1>4 DEF TakeSlot, Refuse, CountActive, EnterQueue, TakeLate, Block, GiveUp, CountLate,
                LeaveQueue, CountInactive, Undecided
  <2>2. UNCHANGED <<counts, result>>
    BY <1>4 DEF TakeSlot, Refuse, CountActive, EnterQueue, TakeLate, Block, GiveUp, CountLate,
                LeaveQueue, CountInactive
  <2>3. \A d \in Calls : pc'[d] = (IF d = c THEN to ELSE pc[d])
    BY <1>2, <2>1 DEF Goto
  <2>4. OutcomesCounted'
    BY <2>1, <2>2, <2>3, NothingEnds DEF Goto
  <2>5. Outcomes'
    BY <2>1, <2>2, <2>3 DEF CInv, Outcomes, Goto
  <2> QED
    BY <1>1, <2>4, <2>5 DEF CInv
<1>5. ASSUME NEW c \in Calls, Release(c) PROVE CInv'
  <2>1. UNCHANGED <<counts, result>>
    BY <1>5 DEF Release
  <2>2. /\ pc[c] = "release" /\ pc'[c] = "uncount"
        /\ \A d \in Calls \ {c} :
             pc'[d] = pc[d] \/ (pc[d] = "blocked" /\ pc'[d] = "countlate")
    <3>1. CASE sendq = <<>>
      BY <1>2, <1>5, <3>1 DEF Release, Goto
    <3>2. CASE sendq # <<>>
      <4>1. Head(sendq) \in Calls /\ pc[Head(sendq)] = "blocked"
        BY <3>2 DEF CInv, IInv, BulkheadTypeOK, WorkConserving
      <4> QED
        BY <1>2, <1>5, <3>2, <4>1 DEF Release, Goto
    <3> QED
      BY <3>1, <3>2
  <2>3. OutcomesCounted'
    BY <2>1, <2>2, NothingEnds
  <2>4. Outcomes'
    BY <2>1, <2>2 DEF CInv, Outcomes, Undecided
  <2> QED
    BY <1>1, <2>3, <2>4 DEF CInv
<1>6. ASSUME NEW c \in Calls, Run(c) PROVE CInv'
  <2>1. PICK how \in {"success", "failure", "panic"} :
          /\ End(c, how) /\ pc[c] = "run"
          /\ pc' = [pc EXCEPT ![c] = IF how = "panic" THEN "release" ELSE "tally"]
    BY <1>6 DEF Run, Goto
  <2>2. counts' = counts /\ result[c] = "none"
    BY <1>6, <2>1 DEF Run, CInv, Outcomes, Undecided
  <2>3. \A d \in Calls \ {c} : pc'[d] = pc[d] /\ result'[d] = result[d]
    BY <1>2, <2>1 DEF End
  <2>4. result'[c] = how /\ pc'[c] = IF how = "panic" THEN "release" ELSE "tally"
    BY <1>2, <2>1 DEF End
  <2>5. ASSUME NEW h \in DOMAIN counts PROVE counts'[h] = Cardinality(Ended(h))'
    <3>1. Ended(h)' = Ended(h)
      BY <1>2, <2>2, <2>3, <2>4 DEF Ended
    <3>2. counts'[h] = Cardinality(Ended(h))
      BY <2>2 DEF CInv, OutcomesCounted
    <3> QED
      BY <3>1, <3>2, Zenon
  <2>6. OutcomesCounted'
    BY <2>2, <2>5 DEF OutcomesCounted
  <2>7. Outcomes'
    BY <2>3, <2>4 DEF CInv, Outcomes, Undecided
  <2> QED
    BY <1>1, <2>6, <2>7 DEF CInv
<1>7. ASSUME NEW c \in Calls, Tally(c) PROVE CInv'
  <2>1. /\ pc[c] = "tally" /\ pc' = [pc EXCEPT ![c] = "release"]
        /\ result' = result /\ Count(result[c])
    BY <1>7 DEF Tally, Goto
  <2>2. result[c] \in {"success", "failure"} /\ c \notin Ended(result[c])
    BY <2>1 DEF CInv, Outcomes, Ended
  <2>3. pc'[c] = "release" /\ \A d \in Calls \ {c} : pc'[d] = pc[d]
    BY <1>2, <2>1
  <2>4. OutcomesCounted'
    BY <1>2, <2>1, <2>2, <2>3, OneEnds
  <2>5. Outcomes'
    BY <2>1, <2>3 DEF CInv, Outcomes, Undecided
  <2> QED
    BY <1>1, <2>4, <2>5 DEF CInv
<1>8. ASSUME NEW c \in Calls, RejectTry(c) \/ RejectFull(c) \/ CountExpired(c) PROVE CInv'
  <2>1. /\ pc[c] \in Undecided
        /\ \E to \in {"done", "leave"} : pc' = [pc EXCEPT ![c] = to]
        /\ Count("rejected") /\ End(c, "rejected")
    BY <1>8 DEF RejectTry, RejectFull, CountExpired, Goto, Undecided
  <2>2. /\ result[c] = "none" /\ result'[c] = "rejected" /\ pc'[c] \in {"done", "leave"}
        /\ \A d \in Calls \ {c} : pc'[d] = pc[d] /\ result'[d] = result[d]
    BY <1>2, <2>1 DEF CInv, Outcomes, End
  <2>3. OutcomesCounted'
    BY <1>2, <2>1, <2>2, OneEnds DEF Ended
  <2>4. Outcomes'
    BY <2>2 DEF CInv, Outcomes, Undecided
  <2> QED
    BY <1>1, <2>3, <2>4 DEF CInv
<1> QED
  BY <1>3, <1>4, <1>5, <1>6, <1>7, <1>8 DEF BulkheadNext, Execute, Wait

LEMMA CountedInvariance == BulkheadSpec => []CInv
<1> QED
  BY InitCInv, NextCInv, PTL DEF BulkheadSpec

-----------------------------------------------------------------------------

(* Every variable keeps its type.                                          *)
THEOREM TypeCorrect == BulkheadSpec => []BulkheadTypeOK
<1>1. IInv => BulkheadTypeOK
  BY DEF IInv
<1> QED
  BY <1>1, Invariance, PTL

(* Slots are neither lost nor used twice: at most MaxConcurrent functions  *)
(* run at a time (Execute, ExecuteWithResult, TryExecute).                 *)
THEOREM ConcurrencyLimited == BulkheadSpec => []SlotsExact
<1>1. IInv => SlotsExact
  BY DEF IInv
<1> QED
  BY <1>1, Invariance, PTL

(* waiting counts the calls in wait(), never more than MaxWaiting.         *)
THEOREM WaitingLimited == BulkheadSpec => []WaitingBounded
<1>1. IInv => WaitingBounded
  BY DEF IInv
<1> QED
  BY <1>1, Invariance, PTL

(* Nobody waits in wait()'s select while a slot is free.                   *)
THEOREM NoIdleSlot == BulkheadSpec => []WorkConserving
<1>1. IInv => WorkConserving
  BY DEF IInv
<1> QED
  BY <1>1, Invariance, PTL

(* What Stats returns agrees with the slots whenever no call is between    *)
(* the two, and every outcome is counted once.                             *)
THEOREM StatsCorrect == BulkheadSpec => []StatsSettle
<1>1. ASSUME CInv PROVE StatsSettle
  <2>1. At({"count", "countlate", "uncount"}) = {} => At(CountedAt) = At(HoldingAt)
    BY DEF At, CountedAt, HoldingAt
  <2>2. At({"count", "countlate", "uncount"}) = {}
          => Cardinality(At(CountedAt)) = Cardinality(At(HoldingAt))
    BY <2>1, Zenon
  <2> QED
    BY <1>1, <2>2 DEF CInv, IInv, ActiveExact, SlotsExact, OutcomesCounted, StatsSettle
<1> QED
  BY <1>1, CountedInvariance, PTL
=============================================================================
