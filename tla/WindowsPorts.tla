---------------------------- MODULE WindowsPorts ----------------------------
(***************************************************************************)
(* The open COM ports of the Windows build: the list first_tl, whose        *)
(* entries give the ports the numbers that SerialImp.c takes for file       *)
(* descriptors, and the settings of each port.  Several threads open, set   *)
(* up and close ports, each port by one of them at a time; the list has no  *)
(* lock.                                                                   *)
(*                                                                         *)
(* An entry is named by its port.  add_port is three steps: it reads the     *)
(* head of the list, chooses a free descriptor, and inserts from the head   *)
(* that it has read.  A walk of the list, and the pointers that one         *)
(* insertion or removal changes, are one step; SerialEvents has the races   *)
(* within such a change.                                                   *)
(***************************************************************************)
EXTENDS WindowsTermios, FiniteSets, SequencesExt

CONSTANTS Threads, Names, null,
          Params,      \* the arguments that setSerialPortParams accepts
          FlowModes    \* the arguments of setFlowControlMode, sets of flags

ASSUME NullIsNoPort == null \notin Names
ASSUME PortsFinite == IsFiniteSet(Names)
ASSUME ParamsAccepted ==
  Params \subseteq [speed : Nat, dataBits : 5 .. 8, stopBits : {"1", "1.5", "2"},
                    parity : DOMAIN Parities]

VARIABLES
  first_tl,   \* the entries, in the order of the list
  fd,         \* of each entry, as are the next two
  hComm,      \* NULL, INVALID_HANDLE_VALUE or a handle
  ttyset,     \* the termios that was last set
  dcb,        \* the state of each COM port
  handles,    \* the ports that CreateFile has opened and no one has closed
  port,       \* the descriptor of the port's RXTXPort, 0 if it is closed
  params, flow,   \* RXTXPort's speed, dataBits, stopBits, parity; its flowmode
  at, name,   \* of each thread: what it is about to do, and with which port
  index,      \* of each thread: the entry from which its add_port will walk
  (* history *)
  raced,      \* whether two calls of add_port have overlapped, or the entry
              \* that one was to walk from has been freed before it did
  half,       \* of each port: what tcsetattr has set in the DCB, and no more
  skipped,    \* ports that serial_close did not close, because the first entry
              \* of the list belonged to a call that had not opened it yet
  failed      \* ports that open() has left open, since configure_port failed

list == <<first_tl, fd, hComm>>
settings == <<ttyset, dcb, params, flow>>
threads == <<at, name, index>>
history == <<raced, half, skipped, failed>>
vars == <<list, settings, handles, port, threads, history>>

(*   idle        no call                                                    *)
(*   number      add_port has read first_tl                                 *)
(*   insert      add_port has chosen a descriptor                           *)
(*   create      open_port                                                  *)
(*   undo        serial_open closes after a failure                         *)
(*   configure   the rest of serial_open, and configure_port                *)
Places == {"idle", "number", "insert", "create", "undo", "configure"}

TypeOK ==
  /\ first_tl \in Seq(Names) /\ IsInjective(first_tl)
  /\ {fd, port} \subseteq [Names -> 0 .. Cardinality(Names)]
  /\ hComm \in [Names -> {"NULL", "INVALID", "handle"}]
  /\ handles \subseteq Names /\ skipped \subseteq Names /\ failed \subseteq Names
  /\ at \in [Threads -> Places]
  /\ {name, index} \subseteq [Threads -> Names \cup {null}]
  /\ \A n \in Names : /\ ttyset[n].csize \in 5 .. 8
                      /\ WithinCBAUD(ttyset[n].baud)
                      /\ dcb[n].BaudRate > 0
  /\ raced \in BOOLEAN /\ half \in [Names -> SUBSET {"params", "flow"}]

Init ==
  /\ first_tl = <<>>
  /\ fd = [n \in Names |-> 0] /\ port = fd
  /\ hComm = [n \in Names |-> "NULL"]
  /\ ttyset = [n \in Names |-> init_termios]
  /\ dcb = [n \in Names |-> termios_to_DCB(init_termios)]
  /\ params = [n \in Names |-> set_java_vars(configured)]
  /\ flow = [n \in Names |-> {}]
  /\ handles = {}
  /\ at = [t \in Threads |-> "idle"]
  /\ name = [t \in Threads |-> null] /\ index = name
  /\ raced = FALSE /\ skipped = {} /\ failed = {} /\ half = flow

Goto(t, place) == at' = [at EXCEPT ![t] = place]

Return(t) == Goto(t, "idle") /\ name' = [name EXCEPT ![t] = null]

Free(n) == \A t \in Threads : name[t] # n

(* The first entry with descriptor d; null if there is none.                *)
find_port(d) ==
  LET hits == {i \in DOMAIN first_tl : fd[first_tl[i]] = d}
  IN  IF hits = {} THEN null ELSE first_tl[Min(hits)]
-----------------------------------------------------------------------------
(* serial_open *)

(* Faulty variant: the number of the ports is the next descriptor.          *)
get_free_fdCount == Len(first_tl) + 1

(* The end of the first run of successive descriptors.                      *)
get_free_fd ==
  LET gaps == {i \in DOMAIN first_tl :
                 i = Len(first_tl) \/ fd[first_tl[i + 1]] # fd[first_tl[i]] + 1}
  IN  IF first_tl = <<>> \/ fd[first_tl[1]] > 1 THEN 1 ELSE fd[first_tl[Min(gaps)]] + 1

(* port_opened, and the start of add_port.  A port that is still in the     *)
(* list is "already opened"; a scan asks the system, not the list.          *)
Open(t) ==
  /\ at[t] = "idle"
  /\ \E n \in Names :
       /\ port[n] = 0 /\ Free(n) /\ n \notin ToSet(first_tl)
       /\ name' = [name EXCEPT ![t] = n]
  /\ index' = [index EXCEPT ![t] = IF first_tl = <<>> THEN null ELSE Head(first_tl)]
  /\ raced' = (raced \/ \E u \in Threads : at[u] \in {"number", "insert"})
  /\ Goto(t, "number")
  /\ UNCHANGED <<list, settings, handles, port, half, skipped, failed>>

Number(t) ==
  /\ at[t] = "number"
  /\ fd' = [fd EXCEPT ![name[t]] = get_free_fd]
  /\ hComm' = [hComm EXCEPT ![name[t]] = "NULL"]
  /\ Goto(t, "insert")
  /\ UNCHANGED <<first_tl, settings, handles, port, name, index, history>>

(* The list with n before the first greater descriptor, at from or after it.*)
(* An equal one ends the search, and what comes after it is lost.           *)
Inserted(n, from) ==
  LET later == {j \in DOMAIN first_tl : /\ \E i \in 1 .. j : first_tl[i] = from
                                        /\ fd[first_tl[j]] >= fd[n]}
      i == Min(later \cup {Len(first_tl)})
  IN  IF first_tl = <<>> THEN <<n>>
      ELSE IF fd[first_tl[i]] > fd[n] THEN InsertAt(first_tl, i, n)
      ELSE Append(SubSeq(first_tl, 1, i), n)

(* The entry to walk from has been freed, or there was none; but there is   *)
(* one now, and so add_port does not begin a new list.                      *)
Stale(t) == first_tl # <<>> /\ index[t] \notin ToSet(first_tl)

(* A walk from freed memory: the entry is linked to that memory only, or    *)
(* from there the walk comes into the list, or it takes over first_tl.      *)
Insert(t) ==
  LET n == name[t] IN
  /\ at[t] = "insert"
  /\ \/ ~Stale(t) /\ first_tl' = Inserted(n, index[t])
     \/ Stale(t) /\ first_tl' \in {first_tl, Inserted(n, Head(first_tl)), <<n>>}
  /\ raced' = (raced \/ Stale(t))
  /\ index' = [index EXCEPT ![t] = null]
  /\ Goto(t, "create")
  /\ UNCHANGED <<fd, hComm, settings, handles, port, name, half, skipped, failed>>

(* open_port and check_port_capabilities: CreateFile fails, or what comes   *)
(* after it, or nothing.                                                    *)
Create(t) ==
  LET n == name[t] IN
  /\ at[t] = "create"
  /\ \/ /\ hComm' = [hComm EXCEPT ![n] = "INVALID"]
        /\ Goto(t, "undo")
        /\ UNCHANGED handles
     \/ /\ n \notin handles
        /\ handles' = handles \cup {n}
        /\ hComm' = [hComm EXCEPT ![n] = "handle"]
        /\ Goto(t, "undo") \/ Goto(t, "configure")
  /\ UNCHANGED <<first_tl, fd, settings, port, name, index, history>>

(* It does nothing, and reports success, while the first entry is not open. *)
serial_close(d) ==
  LET n == find_port(d)
      early == first_tl # <<>> /\ hComm[Head(first_tl)] = "NULL"
  IN  IF n = null \/ early
      THEN /\ skipped' = IF n = null THEN skipped ELSE skipped \cup {n}
           /\ UNCHANGED <<first_tl, handles>>
      ELSE /\ first_tl' = RemoveFirst(first_tl, n)
           /\ handles' = handles \ {n}
           /\ UNCHANGED skipped

Undo(t) ==
  /\ at[t] = "undo"
  /\ serial_close(fd[name[t]])
  /\ Return(t)
  /\ UNCHANGED <<fd, hComm, settings, port, index, raced, half, failed>>

(* tcsetattr *)
Apply(n, t) == /\ ttyset' = [ttyset EXCEPT ![n] = Lasting(t)]
               /\ dcb' = [dcb EXCEPT ![n] = termios_to_DCB(t)]

(* tcsetattr, when SetCommState is done and SetCommTimeouts fails.          *)
ApplyHalf(n, t) == /\ dcb' = [dcb EXCEPT ![n] = termios_to_DCB(t)]
                   /\ UNCHANGED ttyset

(* The termios that configure_port makes of what tcgetattr gives.           *)
Configured(t) == cfsetospeed([t EXCEPT !.csize = 8, !.cflag = {}, !.iflag = {}], B9600)

(* init_termios and tcsetattr, then configure_port: if that fails, open()   *)
(* throws PortInUseException and does not close.  The settings of a port    *)
(* that is not open are not told, since nothing reads them before open()    *)
(* has set them all.                                                        *)
Configure(t) ==
  LET n == name[t]
      m == find_port(fd[n])
  IN
  /\ at[t] = "configure"
  /\ \/ /\ m # null
        /\ Apply(m, Configured(Got(init_termios, termios_to_DCB(init_termios))))
        /\ port' = [port EXCEPT ![n] = fd[n]]
        /\ params' = [params EXCEPT ![n] = set_java_vars(configured)]
        /\ flow' = [flow EXCEPT ![n] = {}]
        /\ UNCHANGED failed
     \/ /\ failed' = failed \cup {n}
        /\ UNCHANGED <<settings, port>>
  /\ Return(t)
  /\ UNCHANGED <<list, handles, index, raced, half, skipped>>
-----------------------------------------------------------------------------
Default(n) == /\ Apply(n, init_termios)
              /\ params' = [params EXCEPT ![n] = set_java_vars(configured)]
              /\ flow' = [flow EXCEPT ![n] = {}]

(* nativeClose, when no one uses the port. *)
Close(n) ==
  /\ port[n] # 0 /\ Free(n)
  /\ serial_close(port[n])
  /\ port' = [port EXCEPT ![n] = 0]
  /\ Default(n)
  /\ half' = [half EXCEPT ![n] = {}]
  /\ UNCHANGED <<fd, hComm, threads, raced, failed>>

(* setSerialPortParams.  What fails before SetCommState changes nothing.    *)
SetParams(n) ==
  LET m == find_port(port[n]) IN
  /\ port[n] # 0 /\ m # null
  /\ \E q \in Params :
       LET t == WithParams(Got(ttyset[m], dcb[m]), q) IN
       \/ /\ Apply(m, t)
          /\ params' = [params EXCEPT ![n] = [q EXCEPT !.dataBits = IF q.stopBits = "1.5" THEN 5 ELSE @]]
          /\ half' = [half EXCEPT ![m] = @ \ {"params"}]
       \/ /\ ApplyHalf(m, t)
          /\ half' = [half EXCEPT ![m] = @ \cup {"params"}]
          /\ UNCHANGED params
  /\ UNCHANGED <<list, flow, handles, port, threads, raced, skipped, failed>>

(* setFlowControlMode *)
SetFlow(n) ==
  LET m == find_port(port[n]) IN
  /\ port[n] # 0 /\ m # null
  /\ \E mode \in FlowModes :
       LET t == WithFlow(Got(ttyset[m], dcb[m]), mode) IN
       \/ /\ Apply(m, t)
          /\ flow' = [flow EXCEPT ![n] = mode]
          /\ half' = [half EXCEPT ![m] = @ \ {"flow"}]
       \/ /\ ApplyHalf(m, t)
          /\ half' = [half EXCEPT ![m] = @ \cup {"flow"}]
          /\ UNCHANGED flow
  /\ UNCHANGED <<list, params, handles, port, threads, raced, skipped, failed>>

Next == \/ \E t \in Threads : Open(t) \/ Number(t) \/ Insert(t) \/ Create(t) \/ Undo(t) \/ Configure(t)
        \/ \E n \in Names : Close(n) \/ SetParams(n) \/ SetFlow(n)

Spec == Init /\ [][Next]_vars
-----------------------------------------------------------------------------
(* Properties *)

(* Every open port is found under its descriptor, and no other port is; a   *)
(* port that is not open has no entry and no handle, so that it can be      *)
(* opened again.  Except after two threads have added ports at once, or one *)
(* has closed the entry that another's add_port was to walk from, or for a  *)
(* port whose open() failed late or whose close came while another port was *)
(* being opened at the head of the list.                                    *)
PortsExact == ~raced =>
  /\ \A i \in 1 .. Len(first_tl) - 1 : fd[first_tl[i]] < fd[first_tl[i + 1]]
  /\ \A n \in Names : port[n] # 0 => find_port(port[n]) = n /\ n \in handles
  /\ \A n \in ToSet(first_tl) \cup handles :
       port[n] # 0 \/ ~Free(n) \/ n \in skipped \cup failed

(* Each open port has the settings that its RXTXPort reports, after any     *)
(* sequence of settings of this port and of others; a speed of 0 is 9600.   *)
(* A call that fails after SetCommState leaves a line that is not what is   *)
(* reported: the parameters are wrong until the parameters are set, and the *)
(* flow control until it is set; neither call damages what the other sets.  *)
SettingsKept == ~raced => \A n \in Names : port[n] # 0 =>
  LET t == Got(ttyset[n], dcb[n]) IN
  /\ "params" \notin half[n] => /\ dcb[n].BaudRate = RateFor(params[n].speed)
                                /\ t.csize = params[n].dataBits
                                /\ Translated(t, params[n]) = t
  /\ "flow" \notin half[n] => WithFlow(t, flow[n]) = t
=============================================================================
