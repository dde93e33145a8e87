-------------------------- MODULE MCPortMonitorSlow --------------------------
(* Nothing orders the callers: two threads and the listener itself close    *)
(* the port, and either thread may do so while the other is in any other    *)
(* method but notifyOn; one of them is interrupted, and listeners may take  *)
(* longer than the three seconds that removeEventListener() waits for them. *)
EXTENDS PortMonitor, TLC
CONSTANTS c, r
MCCalls == (c :> {"add", "remove", "close"})
           @@ (r :> {"read", "write", "flush", "add", "remove", "close"})
           @@ [m \in Mons |-> {"close"}]
MCInterrupted == {c}
=============================================================================
