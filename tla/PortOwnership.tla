---------------------------- MODULE PortOwnership ----------------------------
(***************************************************************************)
(* The ownership protocol of one javax.comm.CommPortIdentifier: open() with *)
(* its timeout, internalClosePort(), and the PORT_OWNED, PORT_UNOWNED and   *)
(* PORT_OWNERSHIP_REQUESTED events, which are all fired outside the         *)
(* identifier's monitor.                                                    *)
(*                                                                         *)
(* Each critical section (synchronized(this)) is one step; everything the   *)
(* code does between two of them is a step of its own, so all the           *)
(* interleavings of opening, waiting, closing and notified threads occur.   *)
(* The device behind the port (RXTXDriver.getCommPort, RXTXPort.close) is   *)
(* reduced to its outcomes; PortMonitor models the inside of it.            *)
(***************************************************************************)
EXTENDS Integers, FiniteSets

CONSTANTS Threads,   \* application threads; a thread's name is its TheOwner argument
          null       \* Java's null

ASSUME NullIsNoThread == null \notin Threads
ASSUME ThreadsFinite == IsFiniteSet(Threads)

VARIABLES
  Available,     \* the field of the same name
  Owner,         \* the field of the same name
  commport,      \* the thread whose open() created the RXTXPort, or null
  pc,            \* pc[t]: where t is in open(), or in the close of a port
  ports,         \* the threads that were returned an RXTXPort that is still open
  waitSet,       \* the monitor's wait set (Object.wait, Object.notifyAll)
  timedOut,      \* the threads whose waitTimeEnd has passed
  interrupted,   \* the threads whose interrupt status is set
  heard          \* PORT_OWNED events less PORT_UNOWNED events a listener has received

vars == <<Available, Owner, commport, pc, ports, waitSet, timedOut, interrupted, heard>>

(* The points at which a thread is outside the monitor:                    *)
(*   idle       in the application                                         *)
(*   requesting found the port taken, about to fire OWNERSHIP_REQUESTED    *)
(*   revoked    a listener of that event has closed the owner's port and   *)
(*              is about to fire UNOWNED, still inside the callback        *)
(*   checking   about to (re)enter the monitor and test the wait's         *)
(*              condition                                                  *)
(*   waiting    in wait(); off the wait set once woken                     *)
(*   refused    about to throw PortInUseException                          *)
(*   reserved   owns the identifier, has not called getCommPort            *)
(*   opened     getCommPort returned a port, about to fire PORT_OWNED      *)
(*   failed     getCommPort returned null or threw, in the finally block   *)
(*   closed     internalClosePort left the monitor, about to fire UNOWNED  *)
Places == {"idle", "requesting", "revoked", "checking", "waiting", "refused",
           "reserved", "opened", "failed", "closed"}

TypeOK == /\ Available \in BOOLEAN
          /\ Owner \in Threads \cup {null}
          /\ commport \in Threads \cup {null}
          /\ pc \in [Threads -> Places]
          /\ ports \in SUBSET Threads
          /\ waitSet \in SUBSET Threads
          /\ timedOut \in SUBSET Threads
          /\ interrupted \in SUBSET Threads
          /\ heard \in Int

Init == /\ Available = TRUE
        /\ Owner = null
        /\ commport = null
        /\ pc = [t \in Threads |-> "idle"]
        /\ ports = {}
        /\ waitSet = {}
        /\ timedOut = {}
        /\ interrupted = {}
        /\ heard = 0

Goto(t, place) == pc' = [pc EXCEPT ![t] = place]
-----------------------------------------------------------------------------
(* open(TheOwner, timeout) *)

(* Assume ownership inside the monitor. *)
Take(t) == /\ Available
           /\ Available' = FALSE
           /\ Owner' = t
           /\ Goto(t, "reserved")

(* The first critical section: take the port if it is free. *)
Open(t) ==
  /\ pc[t] = "idle"
  /\ \/ Take(t)
     \/ /\ ~Available
        /\ Goto(t, "requesting")
        /\ UNCHANGED <<Available, Owner>>
  /\ UNCHANGED <<commport, ports, waitSet, timedOut, interrupted, heard>>

(* fireOwnershipEvent(PORT_OWNERSHIP_REQUESTED): every listener returns, or *)
(* one of them throws and open() ends with its exception.                   *)
Request(t) ==
  /\ pc[t] = "requesting"
  /\ \/ /\ Goto(t, "checking")
        /\ UNCHANGED timedOut
     \/ /\ Goto(t, "idle")
        /\ timedOut' = timedOut \ {t}
  /\ UNCHANGED <<Available, Owner, commport, ports, waitSet, interrupted, heard>>

(* Faulty variant: `if` for `while`, a woken thread does not look again. *)
CheckOnce(t) ==
  /\ pc[t] = "checking"
  /\ Available' = FALSE
  /\ Owner' = t
  /\ Goto(t, "reserved")
  /\ UNCHANGED <<commport, ports, waitSet, timedOut, interrupted, heard>>

(* Faulty variant: the loop does not look at the clock. *)
CheckForever(t) ==
  /\ pc[t] = "checking"
  /\ \/ /\ Take(t)
        /\ UNCHANGED waitSet
     \/ /\ ~Available
        /\ Goto(t, "waiting")
        /\ waitSet' = (waitSet \cup {t}) \ (timedOut \cup interrupted)
        /\ UNCHANGED <<Available, Owner>>
  /\ UNCHANGED <<commport, ports, timedOut, interrupted, heard>>

(* The monitor re-entered: take the port, give up, or wait().  A thread     *)
(* whose interrupt status is set gets InterruptedException from wait() at   *)
(* once and breaks out of the loop still holding the monitor.               *)
Check(t) ==
  /\ pc[t] = "checking"
  /\ \/ /\ Take(t)
        /\ UNCHANGED waitSet
     \/ /\ ~Available
        /\ t \in timedOut \cup interrupted
        /\ Goto(t, "refused")
        /\ UNCHANGED <<Available, Owner, waitSet>>
     \/ /\ ~Available
        /\ t \notin timedOut \cup interrupted
        /\ Goto(t, "waiting")
        /\ waitSet' = waitSet \cup {t}
        /\ UNCHANGED <<Available, Owner>>
  /\ UNCHANGED <<commport, ports, timedOut, interrupted, heard>>

(* wait() returns to a thread that was notified, timed out or interrupted;  *)
(* it has to re-enter the monitor, where others may be ahead of it.         *)
Wake(t) ==
  /\ pc[t] = "waiting"
  /\ t \notin waitSet
  /\ Goto(t, "checking")
  /\ UNCHANGED <<Available, Owner, commport, ports, waitSet, timedOut, interrupted, heard>>

(* throw new PortInUseException(getCurrentOwner()) *)
Refuse(t) ==
  /\ pc[t] = "refused"
  /\ Goto(t, "idle")
  /\ timedOut' = timedOut \ {t}
  /\ UNCHANGED <<Available, Owner, commport, ports, waitSet, interrupted, heard>>

(* commport = RXTXDriver.getCommPort(PortName, PortType), if it is null.    *)
GetCommPort(t) ==
  /\ pc[t] = "reserved"
  /\ \/ /\ commport' = IF commport = null THEN t ELSE commport
        /\ Goto(t, "opened")
     \/ /\ commport = null
        /\ Goto(t, "failed")
        /\ UNCHANGED commport
  /\ timedOut' = timedOut \ {t}
  /\ UNCHANGED <<Available, Owner, ports, waitSet, interrupted, heard>>

(* fireOwnershipEvent(PORT_OWNED), then return commport.  A listener that   *)
(* throws takes open() with it: the finally block sees a commport and keeps *)
(* the reservation, but the caller never receives the port.                 *)
AnnounceOwned(t) ==
  /\ pc[t] = "opened"
  /\ heard' = heard + 1
  /\ Goto(t, "idle")
  /\ \/ ports' = ports \cup {commport}
     \/ UNCHANGED ports
  /\ UNCHANGED <<Available, Owner, commport, waitSet, timedOut, interrupted>>

(* Faulty variant: the failed open fires PORT_UNOWNED like a close does. *)
UnreserveWithEvent(t) ==
  /\ pc[t] = "failed"
  /\ Available' = TRUE
  /\ Owner' = null
  /\ heard' = heard - 1
  /\ Goto(t, "idle")
  /\ UNCHANGED <<commport, ports, waitSet, timedOut, interrupted>>

(* The finally block: un-own the port.  No notifyAll, no event. *)
Unreserve(t) ==
  /\ pc[t] = "failed"
  /\ Available' = TRUE
  /\ Owner' = null
  /\ Goto(t, "idle")
  /\ UNCHANGED <<commport, ports, waitSet, timedOut, interrupted, heard>>
-----------------------------------------------------------------------------
(* close() *)

(* Faulty variant: the closed RXTXPort is left in the identifier. *)
InternalClosePortKeepsPort == /\ Available' = TRUE
                              /\ Owner' = null
                              /\ UNCHANGED commport
                              /\ waitSet' = {}

(* The critical section of internalClosePort. *)
InternalClosePort == /\ Available' = TRUE
                     /\ Owner' = null
                     /\ commport' = null
                     /\ waitSet' = {}

(* The owner closes its port from application code. *)
Close(t) ==
  /\ pc[t] = "idle"
  /\ t \in ports
  /\ InternalClosePort
  /\ ports' = ports \ {t}
  /\ Goto(t, "closed")
  /\ UNCHANGED <<timedOut, interrupted, heard>>

(* A PORT_OWNERSHIP_REQUESTED listener gives way: called on the requesting  *)
(* thread t, it closes the port of its owner h.                             *)
Revoke(t, h) ==
  /\ pc[t] = "requesting"
  /\ h \in ports
  /\ InternalClosePort
  /\ ports' = ports \ {h}
  /\ Goto(t, "revoked")
  /\ UNCHANGED <<timedOut, interrupted, heard>>

(* fireOwnershipEvent(PORT_UNOWNED), at the end of either close.  An        *)
(* exception of a listener ends the call it was thrown in.                  *)
AnnounceUnowned(t) ==
  /\ \/ /\ pc[t] = "revoked"
        /\ Goto(t, "checking")
        /\ UNCHANGED timedOut
     \/ /\ pc[t] \in {"closed", "revoked"}
        /\ Goto(t, "idle")
        /\ timedOut' = timedOut \ {t}
  /\ heard' = heard - 1
  /\ UNCHANGED <<Available, Owner, commport, ports, waitSet, interrupted>>
-----------------------------------------------------------------------------
(* The environment *)

(* waitTimeEnd passes, at any moment after open() has computed it.  A       *)
(* thread in wait(waitTimeEnd - now) leaves the wait set.                   *)
Expire(t) ==
  /\ pc[t] \in {"requesting", "revoked", "checking", "waiting"}
  /\ t \notin timedOut
  /\ timedOut' = timedOut \cup {t}
  /\ waitSet' = waitSet \ {t}
  /\ UNCHANGED <<Available, Owner, commport, pc, ports, interrupted, heard>>

(* Thread.interrupt() by any other thread.  open() re-asserts the status it *)
(* found, so it stays set until the application clears it.                  *)
Interrupt(t) ==
  /\ t \notin interrupted
  /\ interrupted' = interrupted \cup {t}
  /\ waitSet' = waitSet \ {t}
  /\ UNCHANGED <<Available, Owner, commport, pc, ports, timedOut, heard>>

ClearInterrupt(t) ==
  /\ pc[t] = "idle"
  /\ t \in interrupted
  /\ interrupted' = interrupted \ {t}
  /\ UNCHANGED <<Available, Owner, commport, pc, ports, waitSet, timedOut, heard>>
-----------------------------------------------------------------------------
(* What the JVM's scheduler carries forward once a call has been made. *)
Run(t) == \/ Request(t)
          \/ Check(t)
          \/ Wake(t)
          \/ Refuse(t)
          \/ GetCommPort(t)
          \/ AnnounceOwned(t)
          \/ Unreserve(t)
          \/ AnnounceUnowned(t)

Next == \E t \in Threads : \/ Run(t)
                           \/ Open(t)
                           \/ Close(t)
                           \/ \E h \in Threads : Revoke(t, h)
                           \/ Expire(t)
                           \/ Interrupt(t)
                           \/ ClearInterrupt(t)

Spec == Init /\ [][Next]_vars

(* Threads run and clocks advance; applications are free to make no call.   *)
FairSpec == /\ Spec
            /\ \A t \in Threads : WF_vars(Run(t)) /\ WF_vars(Expire(t))
-----------------------------------------------------------------------------
(* Properties *)

Reserving(t) == pc[t] \in {"reserved", "opened", "failed"}

Uses(t) == Reserving(t) \/ t \in ports

(* Mutual exclusion: of the threads that are opening the device or hold the *)
(* RXTXPort that open() returned, there is at most one, whatever the order  *)
(* in which opens, closes, notifications, timeouts and interrupts meet.     *)
SingleOwner == \A t, u \in Threads : Uses(t) /\ Uses(u) => t = u

(* The three fields tell one story outside the monitor: Owner is the thread *)
(* that uses the port, a free identifier has neither owner nor port, and a  *)
(* new owner never finds (and returns) the port of an earlier one, although *)
(* commport is read and written without the monitor.                        *)
OwnershipAgrees ==
  /\ Available <=> Owner = null
  /\ commport # null => commport = Owner
  /\ \A t \in Threads :
        /\ Reserving(t) => Owner = t
        /\ pc[t] = "opened" => commport = t
        /\ pc[t] \in {"reserved", "failed"} => commport = null
        /\ t \in ports => commport = t /\ ~Reserving(t)

(* The port's PORT_OWNED has been fired and its close has not begun. *)
Announced == commport # null /\ pc[Owner] # "opened"

(* The threads whose close has left the monitor and not fired PORT_UNOWNED. *)
Closing == {t \in Threads : pc[t] \in {"closed", "revoked"}}

(* A listener that counts PORT_OWNED up and PORT_UNOWNED down is right      *)
(* about the port except for the closes that are still about to fire: no    *)
(* event is lost, fired twice or fired for an open that failed, although    *)
(* all of them are fired outside the monitor.  (A late PORT_UNOWNED can     *)
(* follow the next owner's PORT_OWNED, so the count may pass 1.)            *)
EventsBalanced == heard = (IF Announced THEN 1 ELSE 0) + Cardinality(Closing)

(* The refinement mapping: a request is waiting until it has taken the      *)
(* identifier, and reserved until open() leaves its finally block.          *)
Lease == INSTANCE PortLease WITH
           holder  <- IF Available THEN null ELSE Owner,
           request <- [t \in Threads |->
                         IF pc[t] \in {"idle", "closed"} THEN "none"
                         ELSE IF Reserving(t) THEN "reserved" ELSE "waiting"]

(* open() and close() keep PortLease's promise: leases pass from thread to  *)
(* thread only through a close or a failed open, and every open() returns.  *)
LeaseImplemented == Lease!Spec
=============================================================================
