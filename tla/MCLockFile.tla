----------------------------- MODULE MCLockFile -----------------------------
(* Three processes and one port; the first of them may die. *)
EXTENDS LockFile
=============================================================================
