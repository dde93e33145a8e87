---------------------------- MODULE MCPortMonitor ----------------------------
(* Thread c controls the port, thread r does its I/O.  Listeners return     *)
(* within the three seconds that removeEventListener() waits for them.      *)
EXTENDS PortMonitor, TLC
CONSTANTS c, r
MCCalls == (c :> {"notify", "add", "remove", "close"}) @@ (r :> {"read", "flush"})
           @@ [m \in Mons |-> {}]
MCNone == {}
=============================================================================
