---------------------------- MODULE SlidingWindow ----------------------------
(***************************************************************************)
(* SlidingWindowLimiter (libs/middleware/ratelimit.go): a client may make  *)
(* MaxRequests requests in any WindowSize.  As in RateLimiter a caller     *)
(* finds or makes its client's window under sw.mu and uses it after        *)
(* letting the lock go, when cleanup may have dropped it.  A window is     *)
(* named by the number of cleanups done when it was made.                  *)
(***************************************************************************)
EXTENDS Clock, FiniteSets, Sequences

CONSTANTS
  Visitors,     \* the values of KeyFunc
  Arrivals,     \* the requests that ask Allow
  MaxRequests,  \* config.MaxRequests
  WindowSize,   \* config.WindowSize, in ticks
  MaxRounds,    \* bound on the rounds of the cleanup goroutine
  NoWindow      \* no pointer

ASSUME WindowAssumption ==
  /\ IsFiniteSet(Arrivals)
  /\ MaxRequests \in Nat
  /\ WindowSize \in Nat \ {0}
  /\ MaxRounds \in Nat
  /\ NoWindow \notin Nat
  /\ NoWindow \notin Visitors \X Nat

VARIABLES
  windows,   \* sw.windows: for each client the number of its window
  requests,  \* window.requests: the times of the requests let through
  rounds,    \* rounds done by the cleanup goroutine
  using,     \* the window a caller found and has not yet used
  served,    \* history: requests let through before each tick
  astray,    \* history: requests let through by a window cleanup had dropped
  stranded   \* history: callers that held a window when cleanup dropped it

windowVars == <<windows, requests, rounds, using, served, astray, stranded>>

WindowInit ==
  /\ windows = [c \in Visitors |-> NoWindow]
  /\ requests = [c \in Visitors |-> [n \in 0 .. MaxRounds |-> <<>>]]
  /\ rounds = 0
  /\ using = [a \in Arrivals |-> NoWindow]
  /\ served = [c \in Visitors |-> NoneYet]
  /\ astray = [c \in Visitors |-> 0]
  /\ stranded = [c \in Visitors |-> 0]

-----------------------------------------------------------------------------
(* Allow, under sw.mu: the client's window, or a new one.                  *)
FindWindow(a, c) ==
  /\ using[a] = NoWindow
  /\ windows' = IF windows[c] = NoWindow
                THEN [windows EXCEPT ![c] = rounds] ELSE windows
  /\ using' = [using EXCEPT ![a] = <<c, windows'[c]>>]
  /\ UNCHANGED <<requests, rounds, served, astray, stranded>>

(* Allow, under the window's lock: requests older than the window are      *)
(* forgotten, and this one is noted if the rest are below the limit.       *)
After(times, cutoff) ==
  LET kept[i \in 0 .. Len(times)] ==
        IF i = 0 THEN <<>>
        ELSE IF times[i] > cutoff THEN Append(kept[i - 1], times[i])
        ELSE kept[i - 1]
  IN  kept[Len(times)]

Recent_Mutant(c, n) == After(requests[c][n], now - WindowSize + 1)
Recent(c, n) == After(requests[c][n], now - WindowSize)

Pass(a, c, n) ==
  /\ using[a] = <<c, n>>
  /\ Len(Recent(c, n)) < MaxRequests
  /\ requests' = [requests EXCEPT ![c][n] = Append(Recent(c, n), now)]
  /\ using' = [using EXCEPT ![a] = NoWindow]
  /\ IF windows[c] = n
     THEN served' = [served EXCEPT ![c] = Noted(@)] /\ UNCHANGED astray
     ELSE astray' = [astray EXCEPT ![c] = @ + 1] /\ UNCHANGED served
  /\ UNCHANGED <<windows, rounds, stranded>>

TurnAway(a, c, n) ==
  /\ using[a] = <<c, n>>
  /\ Len(Recent(c, n)) >= MaxRequests
  /\ requests' = [requests EXCEPT ![c][n] = Recent(c, n)]
  /\ using' = [using EXCEPT ![a] = NoWindow]
  /\ UNCHANGED <<windows, rounds, served, astray, stranded>>

(* One round of cleanup, under sw.mu: a window is dropped if it is empty,  *)
(* also when it has just been made and its caller has yet to use it, or    *)
(* if its last request is older than two windows.                          *)
Stale_Mutant(c) ==
  /\ windows[c] # NoWindow
  /\ LET seen == requests[c][windows[c]]
     IN  seen = <<>> \/ seen[Len(seen)] < now
Stale(c) ==
  /\ windows[c] # NoWindow
  /\ LET seen == requests[c][windows[c]]
     IN  seen = <<>> \/ seen[Len(seen)] < now - 2 * WindowSize

Sweep ==
  /\ rounds < MaxRounds
  /\ rounds' = rounds + 1
  /\ windows' = [c \in Visitors |-> IF Stale(c) THEN NoWindow ELSE windows[c]]
  /\ stranded' = [c \in Visitors |->
       IF Stale(c)
       THEN stranded[c] + Cardinality({a \in Arrivals : using[a] = <<c, windows[c]>>})
       ELSE stranded[c]]
  /\ UNCHANGED <<requests, using, served, astray>>

WindowNext ==
  \/ /\ \/ \E a \in Arrivals, c \in Visitors :
             \/ FindWindow(a, c)
             \/ \E n \in 0 .. MaxRounds : Pass(a, c, n) \/ TurnAway(a, c, n)
        \/ Sweep
     /\ UNCHANGED now
  \/ Tick /\ UNCHANGED windowVars

WindowSpec == now = 0 /\ WindowInit /\ [][WindowNext]_<<now, windowVars>>

-----------------------------------------------------------------------------

WindowTypeOK ==
  /\ now \in 0 .. MaxTime
  /\ windows \in [Visitors -> 0 .. MaxRounds \cup {NoWindow}]
  /\ requests \in [Visitors -> [0 .. MaxRounds -> Seq(0 .. MaxTime)]]
  /\ rounds \in 0 .. MaxRounds
  /\ using \in [Arrivals -> (Visitors \X (0 .. MaxRounds)) \cup {NoWindow}]
  /\ served \in [Visitors -> [0 .. MaxTime + 1 -> Nat]]
  /\ astray \in [Visitors -> Nat]
  /\ stranded \in [Visitors -> Nat]

(* In any WindowSize a client gets at most MaxRequests requests through,   *)
(* however its windows are dropped and made again, and on top of that at   *)
(* most one for each request that cleanup caught between finding its       *)
(* window and using it.                                                    *)
WindowHolds ==
  \A c \in Visitors :
    /\ \A s \in 0 .. now : During(served[c], s, s + WindowSize - 1) <= MaxRequests
    /\ astray[c] <= stranded[c]
=============================================================================
