--------------------------- MODULE MCPortOwnership ---------------------------
(* Three threads competing for one port: an owner, a waiter and a third     *)
(* that barges in between a close and the waiter's wake-up.                 *)
EXTENDS PortOwnership
=============================================================================
