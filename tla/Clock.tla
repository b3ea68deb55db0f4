-------------------------------- MODULE Clock --------------------------------
(***************************************************************************)
(* The clock that time.Now() reads in the modules that compare times: a    *)
(* number of ticks.  What one tick stands for is said where it is used.    *)
(***************************************************************************)
EXTENDS Integers

CONSTANT MaxTime  \* bound: the clock stops here

ASSUME ClockAssumption == MaxTime \in Nat

VARIABLE now

Tick ==
  /\ now < MaxTime
  /\ now' = now + 1

-----------------------------------------------------------------------------
(* Histories of events: count[t] is the number of those before tick t.     *)

NoneYet == [t \in 0 .. MaxTime + 1 |-> 0]

(* One more, now.                                                          *)
Noted(count) == [t \in 0 .. MaxTime + 1 |-> IF t > now THEN count[t] + 1 ELSE count[t]]

(* How many in the ticks s .. t.                                           *)
During(count, s, t) == count[IF t < MaxTime THEN t + 1 ELSE MaxTime + 1] - count[s]
=============================================================================
