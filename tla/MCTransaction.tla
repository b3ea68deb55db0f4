--------------------------- MODULE MCTransaction ---------------------------
(***************************************************************************)
(* Instances of Transaction for TLC.  int64 is narrowed to 3 or 4 bits so  *)
(* that refunded + amount can wrap; the amounts include the invalid 0,     *)
(* refunds the "0 for full" request, a partial one, a negative one and one *)
(* at the top of the integer range.                                        *)
(***************************************************************************)
EXTENDS Transaction

MCRefunds == {-1, 0, 1, MaxInt}
=============================================================================
