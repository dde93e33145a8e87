---------------------------- MODULE PortRegistry ----------------------------
(***************************************************************************)
(* The static list of CommPortIdentifiers and everything that walks it or   *)
(* rewrites it: the lookups, getPortIdentifiers() with its rescan of the    *)
(* machine's ports, RXTXCommDriver's registration of the ports it finds,    *)
(* and close(), which finds its identifier by a walk of the list.           *)
(*                                                                         *)
(* The list is a chain of pointers, as in the code.  It is read and written *)
(* under CommPortIdentifier.Sync; opening and closing a port, which take    *)
(* and give back the port's lock file, are not.  One port type is modelled, *)
(* PORT_SERIAL.  The wait inside open() is PortOwnership's subject: here a  *)
(* thread opens only an identifier that is available.                       *)
(***************************************************************************)
EXTENDS Naturals, Sequences, FiniteSets

CONSTANTS Threads,
          Names,        \* the names of ports
          Candidates,   \* the names that initialize() tries, in its order
          Wanted,       \* the names that applications look up
          Pluggable,    \* the names whose device may come and go
          Identifiers,  \* CommPortIdentifier objects (a bound; garbage is reused)
          null,
          Calls         \* Calls[t]: what thread t does; see Methods

Methods == {"name", "all", "driver", "open", "close"}

ASSUME CandidatesAreNames == Candidates \in Seq(Names)
ASSUME WantedNames == Wanted \subseteq Names
ASSUME PluggableNames == Pluggable \subseteq Names
ASSUME CallsOfThreads == Calls \in [Threads -> SUBSET Methods]
ASSUME NullIsNew == null \notin Identifiers \cup Names \cup Threads
ASSUME LockersDiffer == Threads \cap Identifiers = {}
ASSUME IdentifiersAreFinite == IsFiniteSet(Identifiers)

VARIABLES
  CommPortIndex,   \* the head of the list
  next,            \* the field of each identifier
  PortName,        \* the field of each identifier, null before it is constructed
  Available,       \* the field of each identifier
  commport,        \* whether the field of each identifier is set
  Sync,            \* the thread that holds the lock, or null
  oldPorts,        \* the map of a rescan: names to identifiers, or null
  curPort,         \* a rescan's local variables of the same names
  prevPort,
  lockfile,        \* by name: the identifier whose port, or thread whose testRead,
                   \* has the lock file, or null
  present,         \* the names whose device can be opened
  pc,              \* where each thread is
  ident,           \* the identifier each thread holds a reference to, or null
  sought,          \* the name each thread looks for, or null
  at               \* the position in Candidates each thread has come to

listVars == <<CommPortIndex, next, PortName>>
ownVars  == <<Available, commport>>
scanVars == <<oldPorts, curPort, prevPort>>
locVars  == <<ident, sought, at>>
vars == <<listVars, ownVars, Sync, scanVars, lockfile, present, pc, locVars>>

(*   test..add    initialize() is at candidate at[t]; with Sync if a rescan  *)
(*                called it, without it in RXTXCommDriver.getPortIdentifiers *)
(*   restore      a rescan has the new list and walks it                    *)
(*   rescanned    the rescan is over, Sync not yet released                 *)
(*   reserved..opened  open() owns the identifier                           *)
(*   using        the application has the port                              *)
(*   close1..release   close() after nativeClose                            *)
Places == {"idle", "rescan", "test", "probe", "add", "restore", "rescanned",
           "reserved", "locked", "failed", "using", "close1", "close2", "release"}

TypeOK ==
  /\ CommPortIndex \in Identifiers \cup {null}
  /\ next \in [Identifiers -> Identifiers \cup {null}]
  /\ PortName \in [Identifiers -> Names \cup {null}]
  /\ Available \in [Identifiers -> BOOLEAN] /\ commport \in [Identifiers -> BOOLEAN]
  /\ Sync \in Threads \cup {null}
  /\ oldPorts \in [Names -> Identifiers \cup {null}]
  /\ curPort \in Identifiers \cup {null} /\ prevPort \in Identifiers \cup {null}
  /\ lockfile \in [Names -> Identifiers \cup Threads \cup {null}]
  /\ present \in SUBSET Names
  /\ pc \in [Threads -> Places]
  /\ ident \in [Threads -> Identifiers \cup {null}]
  /\ sought \in [Threads -> Names \cup {null}]
  /\ at \in [Threads -> 1 .. Len(Candidates) + 1]

(* The class was loaded, and found no port, before the devices were there. *)
Init ==
  /\ CommPortIndex = null
  /\ next = [o \in Identifiers |-> null]
  /\ PortName = [o \in Identifiers |-> null]
  /\ Available = [o \in Identifiers |-> TRUE]
  /\ commport = [o \in Identifiers |-> FALSE]
  /\ Sync = null
  /\ oldPorts = [n \in Names |-> null] /\ curPort = null /\ prevPort = null
  /\ lockfile = [n \in Names |-> null]
  /\ present = Names
  /\ pc = [t \in Threads |-> "idle"]
  /\ ident = [t \in Threads |-> null]
  /\ sought = [t \in Threads |-> null]
  /\ at = [t \in Threads |-> 1]

Goto(t, place) == pc' = [pc EXCEPT ![t] = place]

MayCall(t, method) == pc[t] = "idle" /\ method \in Calls[t]

Set(f, x, v) == [f EXCEPT ![x] = v]
-----------------------------------------------------------------------------
(* The list *)

(* Walk[i] is the node i steps from the head, null past the end. *)
Walk == LET walk[i \in 0 .. Cardinality(Identifiers)] ==
              IF i = 0 THEN CommPortIndex
              ELSE IF walk[i-1] = null THEN null ELSE next[walk[i-1]]
        IN walk

Registered == {Walk[i] : i \in DOMAIN Walk} \ {null}

(* A walk of the list comes to its end. *)
Ends == Walk[Cardinality(Identifiers)] = null

IsFirst(o, P(_)) == \E i \in DOMAIN Walk : /\ Walk[i] = o
                                           /\ P(o)
                                           /\ \A j \in 0 .. i - 1 : ~P(Walk[j])

(* The identifier a walk finds by the test P, null if it comes to the end. *)
Found(P(_)) == IF \E o \in Registered : P(o)
                 THEN CHOOSE o \in Registered : IsFirst(o, P)
                 ELSE null

ByName(n) == Found(LAMBDA o : PortName[o] = n)

ByPort(o) == IF o \in Registered /\ commport[o] THEN o ELSE null

(* Constructing an identifier and AddIdentifierToList.  The object is one    *)
(* that nothing refers to.                                                   *)
AddPortName(n) ==
  \E new \in Identifiers \ (Registered \cup {ident[t] : t \in Threads}
                                       \cup {oldPorts[m] : m \in Names}) :
    /\ PortName' = Set(PortName, new, n)
    /\ Available' = Set(Available, new, TRUE)
    /\ commport' = Set(commport, new, FALSE)
    /\ \/ /\ CommPortIndex = null
          /\ CommPortIndex' = new
          /\ next' = Set(next, new, null)
       \/ /\ CommPortIndex # null
          /\ \E o \in Registered : /\ next[o] = null
                                   /\ next' = Set(Set(next, new, null), o, new)
          /\ UNCHANGED CommPortIndex
-----------------------------------------------------------------------------
(* The lookups *)

(* getPortIdentifier(n): if the list has no such name it is rescanned, with *)
(* Sync held.                                                               *)
LookUp(t, n) ==
  /\ MayCall(t, "name")
  /\ Sync = null
  /\ \/ /\ ByName(n) # null
        /\ ident' = Set(ident, t, ByName(n))
        /\ UNCHANGED <<Sync, sought, pc>>
     \/ /\ ByName(n) = null
        /\ Sync' = t
        /\ sought' = Set(sought, t, n)
        /\ Goto(t, "rescan")
        /\ UNCHANGED ident
  /\ UNCHANGED <<listVars, ownVars, scanVars, lockfile, present, at>>

(* getPortIdentifiers() *)
Enumerate(t) ==
  /\ MayCall(t, "all")
  /\ Sync = null
  /\ Sync' = t
  /\ Goto(t, "rescan")
  /\ UNCHANGED <<listVars, ownVars, scanVars, lockfile, present, locVars>>

(* RXTXCommDriver.getPortIdentifiers(): registerScannedPorts() adds what it *)
(* finds to the list as it is; then the list is rescanned.                  *)
DriverScan(t) ==
  /\ MayCall(t, "driver")
  /\ Goto(t, "test")
  /\ UNCHANGED <<listVars, ownVars, Sync, scanVars, lockfile, present, locVars>>

DriverRescan(t) ==
  /\ pc[t] = "test"
  /\ Sync = null
  /\ at[t] > Len(Candidates)
  /\ Sync' = t
  /\ at' = Set(at, t, 1)
  /\ Goto(t, "rescan")
  /\ UNCHANGED <<listVars, ownVars, scanVars, lockfile, present, ident, sought>>
-----------------------------------------------------------------------------
(* The rescan *)

(* Remember the identifiers by name, the last one of a name; empty the list. *)
BeginRescan(t) ==
  /\ pc[t] = "rescan"
  /\ Ends
  /\ oldPorts' = [n \in Names |->
       IF ByName(n) = null THEN null
       ELSE CHOOSE o \in Registered : \E i \in DOMAIN Walk :
              /\ Walk[i] = o /\ PortName[o] = n
              /\ \A j \in DOMAIN Walk : j > i /\ Walk[j] # null
                                          => PortName[Walk[j]] # n]
  /\ CommPortIndex' = null
  /\ Goto(t, "test")
  /\ UNCHANGED <<next, PortName, ownVars, Sync, curPort, prevPort, lockfile,
                 present, locVars>>

(* Faulty variant: testRead unlocks the port also if it did not lock it. *)
TestReadUnlocks(t) ==
  /\ pc[t] = "test"
  /\ at[t] <= Len(Candidates)
  /\ LET n == Candidates[at[t]] IN
       \/ /\ lockfile[n] = null
          /\ lockfile' = Set(lockfile, n, t)
          /\ Goto(t, "probe")
          /\ UNCHANGED at
       \/ /\ lockfile[n] # null
          /\ lockfile' = Set(lockfile, n, null)
          /\ at' = Set(at, t, at[t] + 1)
          /\ UNCHANGED pc
  /\ UNCHANGED <<listVars, ownVars, Sync, scanVars, present, ident, sought>>

(* testRead(candidate): without the lock file the port counts as unusable,  *)
(* whoever has it, this program included.                                   *)
TestRead(t) ==
  /\ pc[t] = "test"
  /\ at[t] <= Len(Candidates)
  /\ LET n == Candidates[at[t]] IN
       \/ /\ lockfile[n] = null
          /\ lockfile' = Set(lockfile, n, t)
          /\ Goto(t, "probe")
          /\ UNCHANGED at
       \/ /\ lockfile[n] # null
          /\ at' = Set(at, t, at[t] + 1)
          /\ UNCHANGED <<lockfile, pc>>
  /\ UNCHANGED <<listVars, ownVars, Sync, scanVars, present, ident, sought>>

(* Faulty variant: an unusable port makes the scan skip the next one. *)
ProbeSkips(t) ==
  /\ pc[t] = "probe"
  /\ LET n == Candidates[at[t]] IN
       /\ lockfile' = Set(lockfile, n, null)
       /\ \/ n \in present /\ Goto(t, "add") /\ UNCHANGED at
          \/ n \notin present /\ at' = Set(at, t, at[t] + 2) /\ Goto(t, "test")
  /\ UNCHANGED <<listVars, ownVars, Sync, scanVars, present, ident, sought>>

(* testRead opens the device, reads from it and unlocks it. *)
Probe(t) ==
  /\ pc[t] = "probe"
  /\ LET n == Candidates[at[t]] IN
       /\ lockfile' = Set(lockfile, n, null)
       /\ \/ /\ n \in present
             /\ Goto(t, "add")
             /\ UNCHANGED at
          \/ /\ n \notin present
             /\ at' = Set(at, t, at[t] + 1)
             /\ Goto(t, "test")
  /\ UNCHANGED <<listVars, ownVars, Sync, scanVars, present, ident, sought>>

Add(t) ==
  /\ pc[t] = "add"
  /\ Sync \in {t, null}
  /\ Ends
  /\ AddPortName(Candidates[at[t]])
  /\ at' = Set(at, t, at[t] + 1)
  /\ Goto(t, "test")
  /\ UNCHANGED <<Sync, scanVars, lockfile, present, ident, sought>>

(* initialize() returns to the rescan. *)
BeginRestore(t) ==
  /\ pc[t] = "test"
  /\ Sync = t
  /\ at[t] > Len(Candidates)
  /\ curPort' = CommPortIndex
  /\ prevPort' = null
  /\ at' = Set(at, t, 1)
  /\ Goto(t, "restore")
  /\ UNCHANGED <<listVars, ownVars, Sync, oldPorts, lockfile, present, ident, sought>>

(* Faulty variant: prevPort follows the new identifiers. *)
RestoreBehindNew(t) ==
  /\ pc[t] = "restore"
  /\ curPort # null
  /\ LET matchingOldPort == oldPorts[PortName[curPort]] IN
       \/ /\ matchingOldPort # null
          /\ LET relinked == Set(next, matchingOldPort, next[curPort]) IN
               \/ /\ prevPort = null
                  /\ CommPortIndex' = matchingOldPort
                  /\ next' = relinked
               \/ /\ prevPort # null
                  /\ next' = Set(relinked, prevPort, matchingOldPort)
                  /\ UNCHANGED CommPortIndex
       \/ /\ matchingOldPort = null
          /\ UNCHANGED <<CommPortIndex, next>>
  /\ prevPort' = curPort
  /\ curPort' = next'[curPort]
  /\ UNCHANGED <<PortName, ownVars, Sync, oldPorts, lockfile, present, pc, locVars>>

(* One turn of the loop: the new identifier makes way for the old one of    *)
(* its name.                                                                *)
Restore(t) ==
  /\ pc[t] = "restore"
  /\ curPort # null
  /\ LET matchingOldPort == oldPorts[PortName[curPort]] IN
       \/ /\ matchingOldPort # null
          /\ LET relinked == Set(next, matchingOldPort, next[curPort]) IN
               \/ /\ prevPort = null
                  /\ CommPortIndex' = matchingOldPort
                  /\ next' = relinked
               \/ /\ prevPort # null
                  /\ next' = Set(relinked, prevPort, matchingOldPort)
                  /\ UNCHANGED CommPortIndex
          /\ prevPort' = matchingOldPort
       \/ /\ matchingOldPort = null
          /\ prevPort' = curPort
          /\ UNCHANGED <<CommPortIndex, next>>
  /\ curPort' = next'[curPort]
  /\ UNCHANGED <<PortName, ownVars, Sync, oldPorts, lockfile, present, pc, locVars>>

EndRestore(t) ==
  /\ pc[t] = "restore"
  /\ curPort = null
  /\ Goto(t, "rescanned")
  /\ UNCHANGED <<listVars, ownVars, Sync, scanVars, lockfile, present, locVars>>

(* The second search of getPortIdentifier(n) and the end of the synchronized *)
(* block.  Without success the thread gets NoSuchPortException.  Identifiers *)
(* that nothing refers to any more are garbage and are reset here, and so is *)
(* the next field of those outside the list, which nothing reads.            *)
EndRescan(t) ==
  /\ pc[t] = "rescanned"
  /\ Sync' = null
  /\ ident' = IF sought[t] # null /\ ByName(sought[t]) # null
                THEN Set(ident, t, ByName(sought[t])) ELSE ident
  /\ sought' = Set(sought, t, null)
  /\ oldPorts' = [n \in Names |-> null]
  /\ prevPort' = null
  /\ LET Kept == Registered \cup {ident'[u] : u \in Threads} IN
       /\ next' = [o \in Identifiers |-> IF o \in Registered THEN next[o] ELSE null]
       /\ PortName' = [o \in Identifiers |-> IF o \in Kept THEN PortName[o] ELSE null]
       /\ Available' = [o \in Identifiers |-> o \in Kept => Available[o]]
       /\ commport' = [o \in Identifiers |-> o \in Kept /\ commport[o]]
  /\ Goto(t, "idle")
  /\ UNCHANGED <<CommPortIndex, curPort, lockfile, present, at>>
-----------------------------------------------------------------------------
(* open() and close() *)

Open(t) ==
  /\ MayCall(t, "open")
  /\ ident[t] # null
  /\ Available[ident[t]]
  /\ Available' = Set(Available, ident[t], FALSE)
  /\ Goto(t, "reserved")
  /\ UNCHANGED <<listVars, commport, Sync, scanVars, lockfile, present, locVars>>

(* The native open(): LOCK, then open and configure_port.  Only the failure *)
(* of the LOCK leaves no lock file behind.                                  *)
Lock(t) ==
  /\ pc[t] = "reserved"
  /\ LET n == PortName[ident[t]] IN
       \/ /\ lockfile[n] = null
          /\ lockfile' = Set(lockfile, n, ident[t])
          /\ Goto(t, "locked")
       \/ /\ lockfile[n] # null
          /\ Goto(t, "failed")
          /\ UNCHANGED lockfile
  /\ UNCHANGED <<listVars, ownVars, Sync, scanVars, present, locVars>>

Configure(t) ==
  /\ pc[t] = "locked"
  /\ \/ /\ PortName[ident[t]] \in present
        /\ commport' = Set(commport, ident[t], TRUE)
        /\ Goto(t, "using")
     \/ /\ PortName[ident[t]] \notin present
        /\ Goto(t, "failed")
        /\ UNCHANGED commport
  /\ UNCHANGED <<listVars, Available, Sync, scanVars, lockfile, present, locVars>>

(* The finally block of open(). *)
Unreserve(t) ==
  /\ pc[t] = "failed"
  /\ Available' = Set(Available, ident[t], TRUE)
  /\ Goto(t, "idle")
  /\ UNCHANGED <<listVars, commport, Sync, scanVars, lockfile, present, locVars>>

(* RXTXPort.close() up to nativeClose, which unlocks the port. *)
Close(t) ==
  /\ pc[t] = "using"
  /\ "close" \in Calls[t]
  /\ lockfile' = Set(lockfile, PortName[ident[t]], null)
  /\ Goto(t, "close1")
  /\ UNCHANGED <<listVars, ownVars, Sync, scanVars, present, locVars>>

(* CommPort.close() looks its identifier up twice.  When it is not in the   *)
(* list NoSuchPortException is swallowed and close() is over.               *)
FindSelf(t) ==
  /\ pc[t] \in {"close1", "close2"}
  /\ Sync = null
  /\ Ends
  /\ \/ /\ ByPort(ident[t]) # null
        /\ Goto(t, IF pc[t] = "close1" THEN "close2" ELSE "release")
     \/ /\ ByPort(ident[t]) = null
        /\ Goto(t, "idle")
  /\ UNCHANGED <<listVars, ownVars, Sync, scanVars, lockfile, present, locVars>>

(* internalClosePort() *)
Release(t) ==
  /\ pc[t] = "release"
  /\ Available' = Set(Available, ident[t], TRUE)
  /\ commport' = Set(commport, ident[t], FALSE)
  /\ Goto(t, "idle")
  /\ UNCHANGED <<listVars, Sync, scanVars, lockfile, present, locVars>>
-----------------------------------------------------------------------------
(* A device is plugged in, or pulled out while no port uses it. *)
Plug(n) ==
  /\ lockfile[n] = null
  /\ present' = IF n \in present THEN present \ {n} ELSE present \cup {n}
  /\ UNCHANGED <<listVars, ownVars, Sync, scanVars, lockfile, pc, locVars>>

(* What a call does by itself once it has been made. *)
Continue(t) ==
  \/ DriverRescan(t) \/ BeginRescan(t) \/ TestRead(t) \/ Probe(t) \/ Add(t)
  \/ BeginRestore(t) \/ Restore(t) \/ EndRestore(t) \/ EndRescan(t)
  \/ Lock(t) \/ Configure(t) \/ Unreserve(t) \/ FindSelf(t) \/ Release(t)

Next == \/ \E t \in Threads : \/ Continue(t)
                              \/ \E n \in Wanted : LookUp(t, n)
                              \/ Enumerate(t) \/ DriverScan(t)
                              \/ Open(t) \/ Close(t)
        \/ \E n \in Pluggable : Plug(n)

Spec == Init /\ [][Next]_vars
-----------------------------------------------------------------------------
(* Properties *)

(* At most one port has a device open, even when a rescan has left a client *)
(* with an identifier that is no longer in the list and a second one exists *)
(* for the same name: the lock file decides, and testing a port never takes *)
(* the lock of an open one away.                                            *)
OneOpenPerDevice == \A t, u \in Threads :
  pc[t] = "using" /\ pc[u] = "using" /\ PortName[ident[t]] = PortName[ident[u]]
    => t = u

(* Between rescans the list is a finite chain, and a rescan puts the        *)
(* identifier clients know back in the place of the new one of its name,    *)
(* each name once.                                                          *)
RescanRestores ==
  /\ \A t \in Threads : pc[t] # "restore" => Ends
  /\ \A t \in Threads : pc[t] = "rescanned" =>
       \A o \in Registered :
         /\ oldPorts[PortName[o]] \in {o, null}
         /\ \A p \in Registered : PortName[o] = PortName[p] => o = p

(* "Remember old ports in order to restore them for ownership events later" *)
(* (CommPortIdentifier.getPortIdentifiers): a port that has been closed     *)
(* leaves no identifier owned.                                              *)
ClosedPortsFree == \A t \in Threads :
  pc[t] = "idle" /\ ident[t] # null /\ ~Available[ident[t]]
    => \E u \in Threads : u # t /\ ident[u] = ident[t] /\ pc[u] # "idle"
=============================================================================
