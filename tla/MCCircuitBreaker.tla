-------------------------- MODULE MCCircuitBreaker --------------------------
(***************************************************************************)
(* The instance of CircuitBreaker for the run that loses every probe: as   *)
(* many requests as a half-open breaker lets through.                      *)
(***************************************************************************)
EXTENDS CircuitBreaker, TLC

Symm == Permutations(Requests)
=============================================================================
