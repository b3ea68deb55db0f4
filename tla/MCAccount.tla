------------------------------ MODULE MCAccount ------------------------------
(***************************************************************************)
(* Instances of Account for TLC.  Two IDs for one address let creations    *)
(* race; three goroutines let two debits and a freeze meet on one account; *)
(* integers have 3 bits, so that a credit can overflow the balance.        *)
(***************************************************************************)
EXTENDS Account, TLC

MCSymmetry == Permutations(Procs) \cup Permutations(Ids)
=============================================================================
