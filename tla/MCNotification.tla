--------------------------- MODULE MCNotification ---------------------------
(***************************************************************************)
(* The instances of Notification for TLC: a queue of one overflows as soon *)
(* as the worker is busy and another notification waits.                   *)
(***************************************************************************)
EXTENDS Notification
=============================================================================
