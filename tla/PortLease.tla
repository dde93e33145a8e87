------------------------------ MODULE PortLease ------------------------------
(***************************************************************************)
(* What CommPortIdentifier.open and CommPort.close promise to their        *)
(* callers, without monitors, events or timers: a port is leased to at     *)
(* most one thread, every request for it is answered, with the port or     *)
(* with a refusal, and a lease ends only when the port is closed or could  *)
(* not be opened.  PortOwnership, the code's protocol, implements this;    *)
(* between processes, LockFile takes only steps of it as long as none of   *)
(* them dies and no lock file is read half-written.                        *)
(***************************************************************************)

CONSTANTS Threads,   \* the application threads that open and close the port
          null       \* no thread

VARIABLES holder,    \* the thread the port is leased to, or null
          request    \* request[t]: how far t's call of open() has come

vars == <<holder, request>>

Init == /\ holder = null
        /\ request = [t \in Threads |-> "none"]

(* open() finds the port free and reserves it. *)
AskFree(t) == /\ request[t] = "none"
              /\ holder = null
              /\ holder' = t
              /\ request' = [request EXCEPT ![t] = "reserved"]

(* open() finds the port leased, possibly to t itself, and waits. *)
AskBusy(t) == /\ request[t] = "none"
              /\ holder # null
              /\ request' = [request EXCEPT ![t] = "waiting"]
              /\ UNCHANGED holder

(* A waiting request takes the port that has become free. *)
Reserve(t) == /\ request[t] = "waiting"
              /\ holder = null
              /\ holder' = t
              /\ request' = [request EXCEPT ![t] = "reserved"]

(* The request is answered with the port. *)
Grant(t) == /\ request[t] = "reserved"
            /\ request' = [request EXCEPT ![t] = "none"]
            /\ UNCHANGED holder

(* The request is refused: its wait ended without the port. *)
Refuse(t) == /\ request[t] = "waiting"
             /\ request' = [request EXCEPT ![t] = "none"]
             /\ UNCHANGED holder

(* The device could not be opened: the lease ends with the request. *)
Abandon(t) == /\ request[t] = "reserved"
              /\ holder = t
              /\ holder' = null
              /\ request' = [request EXCEPT ![t] = "none"]

(* The port leased to t is closed, by t or on its behalf. *)
Release(t) == /\ holder = t
              /\ request[t] # "reserved"
              /\ holder' = null
              /\ UNCHANGED request

Next == \E t \in Threads : \/ AskFree(t)
                           \/ AskBusy(t)
                           \/ Reserve(t)
                           \/ Grant(t)
                           \/ Refuse(t)
                           \/ Abandon(t)
                           \/ Release(t)

(* The safety part of the promise, which ExclusionProofs proves. *)
Safety == Init /\ [][Next]_vars

(* Every request is answered. *)
Answered == \A t \in Threads : (request[t] # "none") ~> (request[t] = "none")

Spec == Safety /\ Answered
=============================================================================
