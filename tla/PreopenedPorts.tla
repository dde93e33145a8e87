--------------------------- MODULE PreopenedPorts ---------------------------
(***************************************************************************)
(* The list of pre-opened ports: devices that nativeStaticSetDTR and the    *)
(* other static setters open, set up and leave open, for RXTXPort.open to   *)
(* find with those settings (find_preopened_ports, static_add_filename and  *)
(* their callers; Linux build, one process).                               *)
(*                                                                         *)
(* The list is a chain of malloc'ed nodes without a lock of its own; the    *)
(* lock files only keep two calls from the same device.  A call's search    *)
(* and its change of the list are two steps.  Freed memory keeps next and   *)
(* prev until it is used again; its first bytes, the file name, may or may  *)
(* not be overwritten by free().  To free a node twice aborts the process.  *)
(*                                                                         *)
(* A device is either as configure_port leaves it, or as a setter has set   *)
(* it up, lines and parameters alike.                                      *)
(***************************************************************************)
EXTENDS Integers, FiniteSets, Functions

CONSTANTS Threads, Files,
          Nodes,     \* the addresses that malloc gives (a bound)
          Fds,       \* file descriptors, which are not 0 (a bound)
          null,
          Calls      \* how many calls there are (a bound)

ASSUME FdsArePositive == Fds \subseteq Nat \ {0}
ASSUME NullIsNothing == null \notin Files \cup Nodes
ASSUME CallsAreCounted == Calls \in Nat
ASSUME NodesAreFinite == IsFiniteSet(Nodes)

VARIABLES
  node,       \* the memory of the nodes
  allocated,  \* the nodes that are malloc'ed
  preopened_port,
  fdOf,       \* the file that a descriptor is open on, or null
  locked,     \* the files with a lock file of this process
  preset,     \* the devices that are as a setter has set them up
  port,       \* the descriptor of the file's RXTXPort, or 0
  at, op, file, fd, p, newp,   \* of each thread: place, call, and its variables
  calls,
  crashed,
  (* history *)
  promised,   \* the files that a setter has succeeded with since the last open
  lostFds,    \* descriptors that a failed call, a getter or "already open" forgot
  failed,     \* files that a failed call left locked
  flaws       \* what has gone wrong with the list

list == <<node, allocated, preopened_port>>
device == <<fdOf, preset, port>>
locals == <<op, file, fd, p, newp>>
history == <<promised, lostFds, failed, flaws>>
vars == <<list, device, locked, at, locals, calls, crashed, history>>

(*   idle     no call                                                       *)
(*   lock     about to LOCK the file (setters and open)                     *)
(*   find     find_preopened_ports is about to search                       *)
(*   unlink   has found node p, about to take it out                        *)
(*   device   no node: about to open and configure the device               *)
(*   set      about to change the device;  get: to read it;  open: to return*)
(*   unlock   about to UNLOCK                                               *)
(*   add      static_add_filename is about to search;  link: to append to p *)
(*   close    nativeClose has closed the descriptor, about to UNLOCK        *)
Places == {"idle", "lock", "find", "unlink", "device", "set", "get", "open",
           "unlock", "add", "link", "close"}

(*   line     nativeStaticSetDTR, nativeStaticSetRTS, nativeStaticSetDSR    *)
(*   params   nativeStaticSetSerialPortParams                               *)
(*   query    nativeStaticIsDTR .. nativeStaticIsRI, nativeStaticGetBaudRate*)
(*            .. nativeStaticGetStopBits                                    *)
(*   open     RXTXPort.open;   close: nativeClose                           *)
Ops == {"line", "params", "query", "open", "close"}
Setters == {"line", "params"}

TypeOK ==
  /\ node \in [Nodes -> [file : Files \cup {null}, fd : Fds \cup {0},
                         next : Nodes \cup {null}, prev : Nodes \cup {null}]]
  /\ allocated \subseteq Nodes /\ preopened_port \in Nodes \cup {null}
  /\ fdOf \in [Fds -> Files \cup {null}]
  /\ locked \subseteq Files /\ preset \subseteq Files
  /\ port \in [Files -> Fds \cup {0}]
  /\ at \in [Threads -> Places] /\ op \in [Threads -> Ops]
  /\ file \in [Threads -> Files \cup {null}] /\ fd \in [Threads -> Fds \cup {0}]
  /\ p \in [Threads -> Nodes \cup {null}] /\ newp \in [Threads -> Nodes \cup {null}]
  /\ calls \in 0 .. Calls /\ crashed \in BOOLEAN
  /\ promised \subseteq Files /\ lostFds \subseteq Fds /\ failed \subseteq Files
  /\ flaws \subseteq {"raced", "dangling", "orphan", "early", "reborn"}

Blank == [file |-> null, fd |-> 0, next |-> null, prev |-> null]

Init ==
  /\ node = [n \in Nodes |-> Blank]
  /\ allocated = {} /\ preopened_port = null
  /\ fdOf = [d \in Fds |-> null]
  /\ locked = {} /\ preset = {} /\ port = [f \in Files |-> 0]
  /\ at = [t \in Threads |-> "idle"] /\ op = [t \in Threads |-> "query"]
  /\ file = [t \in Threads |-> null]
  /\ fd = [t \in Threads |-> 0] /\ p = [t \in Threads |-> null]
  /\ newp = [t \in Threads |-> null]
  /\ calls = 0 /\ crashed = FALSE
  /\ promised = {} /\ lostFds = {} /\ failed = {} /\ flaws = {}

Goto(t, place) == at' = [at EXCEPT ![t] = place]

At(t, place) == at[t] = place /\ ~crashed

(* The call returns; its variables are gone. *)
Return(t) == /\ Goto(t, "idle")
             /\ op' = [op EXCEPT ![t] = "query"]
             /\ file' = [file EXCEPT ![t] = null]
             /\ fd' = [fd EXCEPT ![t] = 0]
             /\ p' = [p EXCEPT ![t] = null]
             /\ newp' = [newp EXCEPT ![t] = null]

(* The nodes that a walk along next reaches in the memory mem.              *)
Walk(mem, head) ==
  LET step[k \in 0 .. Cardinality(Nodes)] ==
        IF k = 0 THEN head ELSE IF step[k - 1] = null THEN null ELSE mem[step[k - 1]].next
  IN  step

Reached(mem, head) == Range(Walk(mem, head)) \ {null}

(* The first of them that has the file's name; null if there is none.       *)
Found(mem, head, f) ==
  LET walk == Walk(mem, head)
      hits == {k \in DOMAIN walk : walk[k] # null /\ mem[walk[k]].file = f}
  IN  IF hits = {} THEN null ELSE walk[CHOOSE k \in hits : \A j \in hits : k <= j]

Ends(mem, head) == {n \in Reached(mem, head) : mem[n].next = null}

Note(flaw, happens) == IF happens THEN {flaw} ELSE {}

(* Another thread is between its search of the list and its change.         *)
Overlapped(t) == \E u \in Threads \ {t} : at[u] \in {"unlink", "link"}
-----------------------------------------------------------------------------
(* A call begins; CommPortIdentifier lets nobody open a port twice.         *)
Call(t) ==
  /\ At(t, "idle") /\ calls < Calls
  /\ calls' = calls + 1
  /\ \E o \in Ops \ {"close"}, f \in Files :
       /\ o = "open" => port[f] = 0 /\ \A u \in Threads : ~(op[u] \in {"open", "close"} /\ file[u] = f)
       /\ op' = [op EXCEPT ![t] = o]
       /\ file' = [file EXCEPT ![t] = f]
       /\ Goto(t, IF o = "query" THEN "find" ELSE "lock")
  /\ UNCHANGED <<list, device, locked, fd, p, newp, crashed, history>>

(* Faulty variant: a lock of this process is no obstacle.                   *)
LockOwn(t) ==
  /\ At(t, "lock")
  /\ locked' = locked \cup {file[t]}
  /\ Goto(t, "find")
  /\ UNCHANGED <<list, device, locals, calls, crashed, history>>

(* fhs_lock fails for a file that this process has locked, too.             *)
Lock(t) ==
  /\ At(t, "lock")
  /\ \/ /\ file[t] \notin locked
        /\ locked' = locked \cup {file[t]}
        /\ Goto(t, "find")
        /\ UNCHANGED locals
     \/ /\ file[t] \in locked
        /\ Return(t)
        /\ UNCHANGED locked
  /\ UNCHANGED <<list, device, calls, crashed, history>>

(* find_preopened_ports: the search.  A query for a port that is not there  *)
(* returns.                                                                 *)
Find(t) ==
  LET n == Found(node, preopened_port, file[t]) IN
  /\ At(t, "find")
  /\ n = null => Ends(node, preopened_port) # {} \/ preopened_port = null
  /\ flaws' = flaws \cup Note("raced", Overlapped(t))
                    \cup Note("early", n = null /\ \E u \in Threads \ {t} :
                                         at[u] \in {"add", "link"} /\ file[u] = file[t])
  /\ IF n # null
     THEN /\ p' = [p EXCEPT ![t] = n]
          /\ fd' = [fd EXCEPT ![t] = node[n].fd]
          /\ Goto(t, "unlink")
          /\ UNCHANGED <<op, file, newp>>
     ELSE IF op[t] = "query" THEN Return(t)
     ELSE Goto(t, "device") /\ UNCHANGED locals
  /\ UNCHANGED <<list, device, locked, calls, crashed, promised, lostFds, failed>>

Place(o) == CASE o \in Setters -> "set" [] o = "query" -> "get" [] o = "open" -> "open"

(* Faulty variant: the node before it keeps its pointer.                    *)
WithoutPrev(mem, n) ==
  [m \in Nodes |-> IF m = mem[n].next THEN [mem[m] EXCEPT !.prev = mem[n].prev] ELSE mem[m]]

(* The node without its neighbours' pointers to it. *)
Without(mem, n) ==
  LET prev == mem[n].prev
      next == mem[n].next
  IN  [m \in Nodes |-> IF m = prev THEN [mem[m] EXCEPT !.next = next]
                       ELSE IF m = next THEN [mem[m] EXCEPT !.prev = prev]
                       ELSE mem[m]]

(* Its end: the neighbours are joined and the node is freed.  The list's    *)
(* head changes only if the node was the only one.                          *)
Unlink(t) ==
  LET n == p[t]
      alone == node[n].prev = null /\ node[n].next = null
  IN
  /\ At(t, "unlink")
  /\ IF n \in allocated
     THEN /\ allocated' = allocated \ {n}
          /\ preopened_port' = IF alone THEN null ELSE preopened_port
          /\ IF preopened_port' = n
             THEN \E name \in {file[t], null} : node' = [Without(node, n) EXCEPT ![n].file = name]
             ELSE node' = [Without(node, n) EXCEPT ![n] = Blank]   \* no one will read it
          /\ flaws' = flaws \cup Note("dangling", preopened_port' = n)
          /\ p' = [p EXCEPT ![t] = null]
          /\ promised' = IF op[t] = "query" THEN promised \ {file[t]} ELSE promised
          /\ Goto(t, Place(op[t]))
          /\ UNCHANGED crashed
     ELSE /\ crashed' = TRUE
          /\ UNCHANGED <<list, flaws, promised, p, at>>
  /\ UNCHANGED <<device, locked, op, file, fd, newp, calls, lostFds, failed>>

(* A call fails after LOCK: it returns and leaves the lock file, and its    *)
(* descriptor, if it has one, open.                                         *)
Abandon(t, d) ==
  /\ Return(t)
  /\ failed' = failed \cup {file[t]}
  /\ lostFds' = lostFds \cup d
  /\ promised' = promised \ {file[t]}

(* Faulty variant: the descriptor is not looked at.                         *)
DeviceUnchecked(t) ==
  /\ At(t, "device")
  /\ fd' = [fd EXCEPT ![t] = -1]
  /\ Goto(t, Place(op[t]))
  /\ UNCHANGED <<list, device, locked, op, file, p, newp, calls, crashed, history>>

(* open(2) raises the lines, configure_port sets the parameters; either     *)
(* may fail.                                                                *)
Device(t) ==
  /\ At(t, "device")
  /\ \/ \E d \in Fds :
          /\ fdOf[d] = null /\ \A e \in Fds : e < d => fdOf[e] # null
          /\ fdOf' = [fdOf EXCEPT ![d] = file[t]]
          /\ preset' = preset \ {file[t]}
          /\ \/ /\ fd' = [fd EXCEPT ![t] = d]
                /\ Goto(t, Place(op[t]))
                /\ UNCHANGED <<op, file, p, newp, promised, lostFds, failed>>
             \/ Abandon(t, {d})
     \/ /\ Abandon(t, {})
        /\ UNCHANGED <<fdOf, preset>>
  /\ UNCHANGED <<list, port, locked, calls, crashed, flaws>>

(* Faulty variant: a port that has been found is configured, too.           *)
OpenedConfigured(t) ==
  /\ At(t, "open")
  /\ port' = [port EXCEPT ![file[t]] = fd[t]]
  /\ preset' = preset \ {file[t]}
  /\ Return(t)
  /\ UNCHANGED <<list, fdOf, locked, calls, crashed, history>>

(* RXTXPort.open returns the descriptor. *)
Opened(t) ==
  /\ At(t, "open")
  /\ port' = [port EXCEPT ![file[t]] = fd[t]]
  /\ Return(t)
  /\ UNCHANGED <<list, fdOf, preset, locked, calls, crashed, history>>

(* TIOCMSET, or set_port_params, which may fail. *)
Set(t) ==
  /\ At(t, "set")
  /\ \/ /\ preset' = preset \cup {file[t]}
        /\ Goto(t, "unlock")
        /\ UNCHANGED <<locals, promised, lostFds, failed>>
     \/ /\ op[t] = "params"
        /\ Abandon(t, {fd[t]})
        /\ UNCHANGED preset
  /\ UNCHANGED <<list, fdOf, port, locked, calls, crashed, flaws>>

(* The query reads the device and returns.                                  *)
Get(t) ==
  /\ At(t, "get")
  /\ lostFds' = lostFds \cup {fd[t]}
  /\ Return(t)
  /\ UNCHANGED <<list, device, locked, calls, crashed, promised, failed, flaws>>

(* Faulty variant: a port that has been found is not listed again.          *)
UnlockOnly(t) ==
  /\ At(t, "unlock")
  /\ locked' = locked \ {file[t]}
  /\ Return(t)
  /\ UNCHANGED <<list, device, calls, crashed, history>>

(* UNLOCK, before the device is listed. *)
Unlock(t) ==
  /\ At(t, "unlock")
  /\ locked' = locked \ {file[t]}
  /\ Goto(t, "add")
  /\ UNCHANGED <<list, device, locals, calls, crashed, history>>

(* A thread has found n, freed already or freed since, and not yet taken it *)
(* out: when n is malloc'ed now, the thread takes out another file's node.  *)
Awaited(n) == \E u \in Threads : at[u] = "unlink" /\ p[u] = n

(* static_add_filename: a new node, and the search for the list's end.  If  *)
(* the file is listed already the new node is forgotten.                    *)
Add(t) ==
  /\ At(t, "add")
  /\ \E n \in Nodes \ allocated :
       LET mem == [node EXCEPT ![n].file = file[t], ![n].fd = fd[t]] IN
       /\ allocated' = allocated \cup {n}
       /\ flaws' = flaws \cup Note("raced", Overlapped(t)) \cup Note("reborn", Awaited(n))
       /\ \/ /\ preopened_port = null
             /\ node' = [mem EXCEPT ![n].next = null, ![n].prev = null]
             /\ preopened_port' = n
             /\ promised' = promised \cup {file[t]}
             /\ Return(t)
             /\ UNCHANGED lostFds
          \/ /\ preopened_port # null
             /\ Found(mem, preopened_port, file[t]) # null
             /\ node' = mem
             /\ lostFds' = lostFds \cup {fd[t]}
             /\ promised' = promised \cup {file[t]}
             /\ Return(t)
             /\ UNCHANGED preopened_port
          \/ /\ preopened_port # null
             /\ Found(mem, preopened_port, file[t]) = null
             /\ node' = mem
             /\ \E end \in Ends(mem, preopened_port) : p' = [p EXCEPT ![t] = end]
             /\ newp' = [newp EXCEPT ![t] = n]
             /\ Goto(t, "link")
             /\ UNCHANGED <<preopened_port, op, file, fd, promised, lostFds>>
  /\ UNCHANGED <<device, locked, calls, crashed, failed>>

(* The new node is appended, and the list's head becomes its predecessor.   *)
Link(t) ==
  /\ At(t, "link")
  /\ node' = [node EXCEPT ![newp[t]].next = null, ![newp[t]].prev = p[t], ![p[t]].next = newp[t]]
  /\ preopened_port' = p[t]
  /\ flaws' = flaws \cup Note("orphan", preopened_port # p[t])
  /\ promised' = promised \cup {file[t]}
  /\ Return(t)
  /\ UNCHANGED <<allocated, device, locked, calls, crashed, lostFds, failed>>

(* nativeClose: the descriptor first, then UNLOCK. *)
Close(t) ==
  /\ At(t, "idle") /\ calls < Calls
  /\ calls' = calls + 1
  /\ \E f \in Files :
       /\ port[f] # 0
       /\ fdOf' = [fdOf EXCEPT ![port[f]] = null]
       /\ port' = [port EXCEPT ![f] = 0]
       /\ promised' = promised \ {f}
       /\ op' = [op EXCEPT ![t] = "close"]
       /\ file' = [file EXCEPT ![t] = f]
  /\ Goto(t, "close")
  /\ UNCHANGED <<list, preset, locked, fd, p, newp, crashed, lostFds, failed, flaws>>

CloseUnlock(t) ==
  /\ At(t, "close")
  /\ locked' = locked \ {file[t]}
  /\ Return(t)
  /\ UNCHANGED <<list, device, calls, crashed, history>>

(* The freed node that the head still points to becomes memory of something *)
(* else; no pointer of its is followed any more.                            *)
Reuse ==
  /\ ~crashed
  /\ preopened_port \in Nodes \ allocated
  /\ node' = [node EXCEPT ![preopened_port] = Blank]
  /\ UNCHANGED <<allocated, preopened_port, device, locked, at, locals, calls, crashed, history>>
-----------------------------------------------------------------------------
FindPreopenedPorts(t) == Find(t) \/ Unlink(t)

(* How nativeStaticSetDTR, SetRTS, SetDSR and SetSerialPortParams begin, and*)
(* RXTXPort.open; and what only the former do.                              *)
OpenDevice(t) == Lock(t) \/ Device(t)
StaticSet(t) == Set(t) \/ Unlock(t) \/ Add(t) \/ Link(t)

NativeClose(t) == Close(t) \/ CloseUnlock(t)

Next == \/ \E t \in Threads : \/ Call(t) \/ FindPreopenedPorts(t) \/ OpenDevice(t)
                               \/ StaticSet(t) \/ Get(t) \/ Opened(t) \/ NativeClose(t)
        \/ Reuse

Spec == Init /\ [][Next]_vars
-----------------------------------------------------------------------------
(* Properties *)

(* The list has never been broken: no two threads were in it at once, no    *)
(* node was taken out at its head while it had a successor, none was added  *)
(* to two others, none was missed in the time between a setter's UNLOCK and *)
(* its static_add_filename, and none became another while it was taken out. *)
Intact == flaws = {}

(* "This is used so people can setDTR low before calling the Java open()"   *)
(* (find_preopened_ports): a port opens as the last setter left the device, *)
(* unless the list was broken.                                              *)
PresetKept == Intact => \A f \in promised : port[f] # 0 => f \in preset

(* Unless it was broken the list holds exactly the live nodes, linked both  *)
(* ways, each file once, each descriptor open on its file.                  *)
ListSound ==
  LET nodes == Reached(node, preopened_port) IN
  Intact /\ (\A t \in Threads : at[t] \notin {"unlink", "link"}) =>
    /\ nodes = allocated
    /\ \A n \in nodes :
         /\ node[n].next # null => node[node[n].next].prev = n
         /\ node[n].prev # null => node[node[n].prev].next = n
         /\ fdOf[node[n].fd] = node[n].file
         /\ \A m \in nodes : node[m].file = node[n].file => m = n

(* No descriptor is forgotten but by a query, by a call that failed half-way*)
(* or by a broken list.                                                     *)
DescriptorsKept ==
  Intact => \A d \in Fds : fdOf[d] # null =>
    \/ d \in lostFds \cup Range(port)
    \/ \E t \in Threads : at[t] # "idle" /\ fd[t] = d
    \/ \E n \in Reached(node, preopened_port) : node[n].fd = d

(* No setter works on the device of an open port, and whatever happens to   *)
(* the list the port's descriptor is its own device's: a freed node that is *)
(* found again ends the process before its descriptor is used, unless its   *)
(* memory has become a node again in between.                               *)
OpenPortExclusive ==
  \A f \in Files : port[f] # 0 =>
    /\ "reborn" \notin flaws => fdOf[port[f]] = f
    /\ \A t \in Threads : op[t] \in Setters /\ file[t] = f => at[t] \in {"idle", "lock", "add", "link"}

(* "perform: check status of RTS of preopened ports" (nativeStaticIsRTS):   *)
(* the port that a query has found is still listed afterwards.              *)
QueryOnlyChecks == [][\A t \in Threads :
  Get(t) /\ Intact => Found(node, preopened_port, file[t]) # null]_vars
=============================================================================
