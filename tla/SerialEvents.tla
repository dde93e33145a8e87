---------------------------- MODULE SerialEvents ----------------------------
(***************************************************************************)
(* The event loops of the open ports: each monitor thread puts an           *)
(* event_info_struct of its own stack into the list master_index, polls the *)
(* device for what has changed and takes the struct out again.  The other   *)
(* threads of the process search the list for a port's struct, to set an    *)
(* event flag in it (nativeSetEventFlag) or to end the loop                 *)
(* (interruptEventLoop).  Nothing locks the list (Linux build).             *)
(*                                                                         *)
(* A loop enters the list in four steps: it walks to the end, hangs its     *)
(* struct in, as it was on the stack, sets the struct's pointers and then   *)
(* its fd.  It leaves in two, in which it reads its neighbours and joins    *)
(* them.  A struct keeps its contents when its loop has ended, as the stack *)
(* of a finished thread does.  A port stands for its descriptor, for its    *)
(* monitor thread and for its struct.  Of the modem lines there is CTS, of  *)
(* the error counters that of framing errors; the others are treated alike. *)
(***************************************************************************)
EXTENDS Integers, Sequences, FiniteSets, Functions

CONSTANTS Ports, null,
          Polled,     \* the ports whose device may do something (a bound)
          Wrap        \* the counters count modulo Wrap; 2^32 in the kernel

ASSUME NullIsNoPort == null \notin Ports
ASSUME PortsAreFinite == IsFiniteSet(Ports)
ASSUME PolledPorts == Polled \subseteq Ports
ASSUME WrapIsPositive == Wrap \in Nat \ {0}

VARIABLES
  (* the list *)
  master_index,
  eis,        \* of each port: fd, next, prev, closing, and its two event flags
  at,         \* where each monitor thread is
  index,      \* the neighbours it has read: the last struct, or prev and next
  (* the device, and what the struct remembers of it *)
  cts, frames, data,
  omflags, osis,
  lsr,        \* whether the driver has TIOCSERGETLSR
  icount,     \* whether it has TIOCGICOUNT
  (* the listener *)
  heard,      \* the state of CTS that the last event told, null if it missed some
  told,       \* how many framing errors it has been told of, modulo Wrap
  wantsCTS,   \* monThread.CTS
  (* history *)
  base, seen, \* the counter when the loop began, and when it last looked
  owed,       \* data has come, or its notification was set, and no event since
  raced,      \* whether two changes of the list have overlapped
  (* bound *)
  polled      \* the port whose device changes, and then only it has a loop;
              \* null: all may have loops, and no device changes

list == <<master_index, eis, index>>
device == <<cts, frames, data>>
memory == <<omflags, osis, seen>>
driver == <<lsr, icount>>
listener == <<heard, told, wantsCTS>>
vars == <<list, at, device, memory, driver, listener, base, owed, raced, polled>>

(*   off       no loop                                                      *)
(*   walk      initialise_event_info_struct is about to look for the end    *)
(*   link      about to hang its struct in;  set: about to set its pointers *)
(*   fill      about to set the other fields, fd among them                 *)
(*   top       about to look at closing                                     *)
(*   lsr, count, lines, data    report_serial_events                        *)
(*   read, unlink   finalize_event_info_struct                              *)
Places == {"off", "walk", "link", "set", "fill", "top", "lsr", "count", "lines", "data",
           "read", "unlink"}
Polling == {"top", "lsr", "count", "lines", "data"}
Changing == {"link", "set", "fill", "unlink"}

TypeOK ==
  /\ master_index \in Ports \cup {null}
  /\ eis \in [Ports -> [fd : Ports \cup {null}, next : Ports \cup {null}, prev : Ports \cup {null},
                        closing : BOOLEAN, output : BOOLEAN, data : BOOLEAN]]
  /\ at \in [Ports -> Places]
  /\ index \in [Ports -> [prev : Ports \cup {null}, next : Ports \cup {null}]]
  /\ cts \in [Ports -> BOOLEAN] /\ omflags \in [Ports -> BOOLEAN]
  /\ data \in [Ports -> BOOLEAN] /\ owed \in [Ports -> BOOLEAN]
  /\ {frames, osis, told, base, seen} \subseteq [Ports -> 0 .. Wrap - 1]
  /\ lsr \in [Ports -> BOOLEAN] /\ icount \in [Ports -> BOOLEAN]
  /\ heard \in [Ports -> BOOLEAN \cup {null}] /\ wantsCTS \in [Ports -> BOOLEAN]
  /\ raced \in BOOLEAN /\ polled \in Polled \cup {null}

NoNeighbours == [prev |-> null, next |-> null]

NewStruct == [fd |-> null, next |-> null, prev |-> null,
              closing |-> FALSE, output |-> FALSE, data |-> FALSE]

Init ==
  /\ master_index = null
  /\ eis = [q \in Ports |-> NewStruct]
  /\ at = [q \in Ports |-> "off"]
  /\ index = [q \in Ports |-> NoNeighbours]
  /\ cts = [q \in Ports |-> FALSE] /\ omflags = cts
  /\ data = [q \in Ports |-> FALSE] /\ owed = data
  /\ frames = [q \in Ports |-> 0]
  /\ osis = frames /\ told = frames /\ base = frames /\ seen = frames
  /\ polled \in Polled \cup {null}
  /\ lsr \in {f \in [Ports -> BOOLEAN] : \A q \in Ports : q # polled => f[q]}
  /\ icount \in {f \in [Ports -> BOOLEAN] : \A q \in Ports : q # polled => f[q]}
  /\ heard = [q \in Ports |-> null] /\ wantsCTS = [q \in Ports |-> FALSE]
  /\ raced = FALSE

Goto(q, place) == at' = [at EXCEPT ![q] = place]

(* The structs that a walk along next reaches, in its order.                *)
Walk ==
  LET step[k \in 0 .. Cardinality(Ports)] ==
        IF k = 0 THEN master_index
        ELSE IF step[k - 1] = null THEN null ELSE eis[step[k - 1]].next
  IN  step

(* How far a walk gets by pointers that are set.                            *)
Known(walk) == {k \in DOMAIN walk :
  walk[k] # null /\ \A j \in 0 .. k - 1 : walk[j] # null => at[walk[j]] # "set"}

(* Where a search for fd q ends, and the struct it finds there; null if it  *)
(* finds none.                                                              *)
Hits(walk, q) == {k \in DOMAIN walk : walk[k] # null /\ eis[walk[k]].fd = q}

FirstHit(walk, q) == CHOOSE k \in Hits(walk, q) : \A j \in Hits(walk, q) : k <= j

Found(walk, q) == IF Hits(walk, q) = {} THEN null ELSE walk[FirstHit(walk, q)]

Search(q) == Found(Walk, q)

Overlap(q) == \E other \in Ports \ {q} : at[other] \in Changing
-----------------------------------------------------------------------------
(* The list *)

(* addEventListener has started the monitor thread. *)
Start(q) ==
  /\ at[q] = "off" /\ polled \in {q, null}
  /\ Goto(q, "walk")
  /\ UNCHANGED <<list, device, memory, driver, listener, base, owed, raced, polled>>

(* Faulty variant: no walk; what hung behind the head is lost.              *)
FindEndAtHead(q) ==
  /\ at[q] = "walk"
  /\ index' = [index EXCEPT ![q].prev = master_index]
  /\ raced' = (raced \/ Overlap(q))
  /\ Goto(q, "link")
  /\ UNCHANGED <<master_index, eis, device, memory, driver, listener, base, owed, polled>>

(* initialise_event_info_struct looks for the end of the list.  A walk that *)
(* comes back to where it was does not end.                                 *)
FindEnd(q) ==
  /\ at[q] = "walk"
  /\ \E last \in Range(Walk) :
       /\ IF master_index = null THEN last = null ELSE last # null /\ eis[last].next = null
       /\ index' = [index EXCEPT ![q].prev = last]
  /\ raced' = (raced \/ Overlap(q))
  /\ Goto(q, "link")
  /\ UNCHANGED <<master_index, eis, device, memory, driver, listener, base, owed, polled>>

(* The struct is in the list, and nothing of it is set: its next and its fd *)
(* are what was on the stack, those of an earlier loop perhaps, of whichever*)
(* port.  (A next that is no struct's ends the process of who follows it;   *)
(* the other fields are not read before they are set.)                      *)
Link(q) ==
  /\ at[q] = "link"
  /\ \E next, fd \in Ports \cup {null} :
       eis' = [p \in Ports |->
                 IF p = q THEN [NewStruct EXCEPT !.next = next, !.fd = fd]
                 ELSE IF p = index[q].prev THEN [eis[p] EXCEPT !.next = q]
                 ELSE eis[p]]
  /\ master_index' = IF index[q].prev = null THEN q ELSE master_index
  /\ Goto(q, "set")
  /\ UNCHANGED <<index, device, memory, driver, listener, base, owed, raced, polled>>

(* Only now does a walk end there. *)
SetPointers(q) ==
  /\ at[q] = "set"
  /\ eis' = [eis EXCEPT ![q] = [@ EXCEPT !.next = null, !.prev = index[q].prev]]
  /\ index' = [index EXCEPT ![q] = NoNeighbours]
  /\ Goto(q, "fill")
  /\ UNCHANGED <<master_index, device, memory, driver, listener, base, owed, raced, polled>>

(* The rest of initialise_event_info_struct; then the monitor thread lets   *)
(* the application go on.                                                   *)
Fill(q) ==
  /\ at[q] = "fill"
  /\ eis' = [eis EXCEPT ![q].fd = q, ![q].closing = FALSE, ![q].output = FALSE, ![q].data = FALSE]
  /\ osis' = [osis EXCEPT ![q] = IF icount[q] THEN frames[q] ELSE 0]
  /\ omflags' = [omflags EXCEPT ![q] = cts[q]]
  /\ base' = [base EXCEPT ![q] = frames[q]] /\ seen' = [seen EXCEPT ![q] = frames[q]]
  /\ told' = [told EXCEPT ![q] = 0] /\ heard' = [heard EXCEPT ![q] = null]
  /\ Goto(q, "top")
  /\ UNCHANGED <<master_index, index, device, driver, wantsCTS, owed, raced, polled>>

(* finalize_event_info_struct reads the struct's neighbours ... *)
ReadNeighbours(q) ==
  /\ at[q] = "read"
  /\ index' = [index EXCEPT ![q] = [prev |-> eis[q].prev, next |-> eis[q].next]]
  /\ raced' = (raced \/ Overlap(q))
  /\ Goto(q, "unlink")
  /\ UNCHANGED <<master_index, eis, device, memory, driver, listener, base, owed, polled>>

(* Faulty variant: the list's head is left as it is.                        *)
UnlinkKeepsHead(q) ==
  /\ at[q] = "unlink"
  /\ eis' = [p \in Ports |-> IF p = index[q].prev THEN [eis[p] EXCEPT !.next = index[q].next]
                             ELSE IF p = index[q].next THEN [eis[p] EXCEPT !.prev = index[q].prev]
                             ELSE eis[p]]
  /\ index' = [index EXCEPT ![q] = NoNeighbours]
  /\ Goto(q, "off")
  /\ UNCHANGED <<master_index, device, memory, driver, listener, base, owed, raced, polled>>

(* ... and joins them. *)
Unlink(q) ==
  /\ at[q] = "unlink"
  /\ eis' = [p \in Ports |-> IF p = index[q].prev THEN [eis[p] EXCEPT !.next = index[q].next]
                             ELSE IF p = index[q].next THEN [eis[p] EXCEPT !.prev = index[q].prev]
                             ELSE eis[p]]
  /\ master_index' = IF index[q].prev = null THEN index[q].next ELSE master_index
  /\ index' = [index EXCEPT ![q] = NoNeighbours]
  /\ Goto(q, "off")
  /\ UNCHANGED <<device, memory, driver, listener, base, owed, raced, polled>>
-----------------------------------------------------------------------------
(* The application, through the list *)

(* nativeSetEventFlag, for DATA_AVAILABLE and OUTPUT_BUFFER_EMPTY; the port *)
(* itself has the other flags.  MonitorThreadLock keeps it back until the   *)
(* loop has begun, and after its end.                                       *)
SetEventFlag(q) ==
  /\ q = polled /\ at[q] \in Polling /\ Search(q) # null
  /\ \E flag \in BOOLEAN :
       \/ /\ eis' = [eis EXCEPT ![Search(q)].data = flag]
          /\ owed' = [owed EXCEPT ![q] = @ \/ (flag /\ data[q])]
       \/ /\ eis' = [eis EXCEPT ![Search(q)].output = flag]
          /\ UNCHANGED owed
  /\ UNCHANGED <<master_index, index, at, device, memory, driver, listener, base, raced, polled>>

(* notifyOnCTS.  The listener does not hear of what happened before.        *)
NotifyOnCTS(q) ==
  /\ q = polled /\ at[q] \in Polling
  /\ wantsCTS' = [wantsCTS EXCEPT ![q] = ~@]
  /\ heard' = [heard EXCEPT ![q] = null]
  /\ UNCHANGED <<list, at, device, memory, driver, told, base, owed, raced, polled>>

(* interruptEventLoop: it searches until it finds the struct.               *)
InterruptEventLoop(q) ==
  /\ at[q] \in Polling /\ Search(q) # null
  /\ eis' = [eis EXCEPT ![Search(q)].closing = TRUE]
  /\ UNCHANGED <<master_index, index, at, device, memory, driver, listener, base, owed, raced, polled>>
-----------------------------------------------------------------------------
(* The event loop *)

Top(q) ==
  /\ at[q] = "top"
  /\ Goto(q, IF eis[q].closing THEN "read" ELSE IF q = polled THEN "lsr" ELSE "top")
  /\ UNCHANGED <<list, device, memory, driver, listener, base, owed, raced, polled>>

(* check_line_status_register: if OUTPUT_BUFFER_EMPTY is wanted and the     *)
(* driver has no TIOCSERGETLSR, report_serial_events ends here.             *)
CheckLSR(q) ==
  /\ at[q] = "lsr"
  /\ Goto(q, IF eis[q].output /\ ~lsr[q] THEN "top" ELSE "count")
  /\ UNCHANGED <<list, device, memory, driver, listener, base, owed, raced, polled>>

(* Faulty variant: the number of steps is not taken modulo the counter.     *)
CheckCountPlain(q) ==
  /\ at[q] = "count"
  /\ told' = [told EXCEPT ![q] = @ + frames[q] - osis[q]]
  /\ osis' = [osis EXCEPT ![q] = frames[q]]
  /\ seen' = [seen EXCEPT ![q] = frames[q]]
  /\ Goto(q, "lines")
  /\ UNCHANGED <<list, device, omflags, driver, heard, wantsCTS, base, owed, raced, polled>>

(* Faulty variant: a counter only ever gets larger.                         *)
CheckCountLess(q) ==
  /\ at[q] = "count"
  /\ told' = [told EXCEPT ![q] = IF frames[q] > osis[q] THEN (@ + frames[q] - osis[q]) % Wrap ELSE @]
  /\ osis' = [osis EXCEPT ![q] = frames[q]]
  /\ seen' = [seen EXCEPT ![q] = frames[q]]
  /\ Goto(q, "lines")
  /\ UNCHANGED <<list, device, omflags, driver, heard, wantsCTS, base, owed, raced, polled>>

(* check_cgi_count: an event for each step of the counter. *)
CheckCount(q) ==
  /\ at[q] = "count"
  /\ IF icount[q]
     THEN /\ told' = [told EXCEPT ![q] = (@ + frames[q] - osis[q]) % Wrap]
          /\ osis' = [osis EXCEPT ![q] = frames[q]]
          /\ seen' = [seen EXCEPT ![q] = frames[q]]
     ELSE UNCHANGED <<told, osis, seen>>
  /\ Goto(q, "lines")
  /\ UNCHANGED <<list, device, omflags, driver, heard, wantsCTS, base, owed, raced, polled>>

(* check_tiocmget_changes: the sign of the difference is the state to send. *)
CheckLines(q) ==
  /\ at[q] = "lines"
  /\ heard' = [heard EXCEPT ![q] = IF cts[q] # omflags[q] /\ wantsCTS[q] THEN cts[q] ELSE @]
  /\ omflags' = [omflags EXCEPT ![q] = cts[q]]
  /\ Goto(q, "data")
  /\ UNCHANGED <<list, device, osis, seen, driver, told, wantsCTS, base, owed, raced, polled>>

(* Faulty variant: the driver's answer decides, not whether it has an error.*)
CheckDataIcount(q) ==
  /\ at[q] = "data"
  /\ owed' = [owed EXCEPT ![q] = @ /\ ~(data[q] /\ eis[q].data /\ icount[q])]
  /\ Goto(q, "top")
  /\ UNCHANGED <<list, device, memory, driver, listener, base, raced, polled>>

(* port_has_changed_fionread; the event is sent if it is wanted.            *)
CheckData(q) ==
  /\ at[q] = "data"
  /\ owed' = [owed EXCEPT ![q] = @ /\ ~(data[q] /\ eis[q].data)]
  /\ Goto(q, "top")
  /\ UNCHANGED <<list, device, memory, driver, listener, base, raced, polled>>

(* The device; data that is read is not owed any more.                      *)
Device(q) ==
  /\ q = polled
  /\ \/ /\ cts' = [cts EXCEPT ![q] = ~@]
        /\ UNCHANGED <<frames, data, owed>>
     \/ /\ frames' = [frames EXCEPT ![q] = (@ + 1) % Wrap]
        /\ frames'[q] # seen[q]      \* fewer than Wrap errors between two polls
        /\ UNCHANGED <<cts, data, owed>>
     \/ /\ data' = [data EXCEPT ![q] = ~@]
        /\ owed' = [owed EXCEPT ![q] = data'[q]]
        /\ UNCHANGED <<cts, frames>>
  /\ UNCHANGED <<list, at, memory, driver, listener, base, raced, polled>>
-----------------------------------------------------------------------------
Report(q) == CheckLSR(q) \/ CheckCount(q) \/ CheckLines(q) \/ CheckData(q)

EventLoop(q) == \/ FindEnd(q) \/ Link(q) \/ SetPointers(q) \/ Fill(q) \/ Top(q) \/ Report(q)
                \/ ReadNeighbours(q) \/ Unlink(q)

Application(q) == Start(q) \/ SetEventFlag(q) \/ NotifyOnCTS(q) \/ InterruptEventLoop(q)

Next == \E q \in Ports : EventLoop(q) \/ Application(q) \/ Device(q)

Spec == Init /\ [][Next]_vars

(* A monitor thread runs on. *)
FairSpec == Spec /\ \A q \in Ports : WF_vars(EventLoop(q))
-----------------------------------------------------------------------------
(* Properties *)

(* A port's search finds its own loop, and gets there by pointers that are  *)
(* set, as long as the loops have entered and left the list one at a time,  *)
(* and also while one is entering it, whose struct may point anywhere and   *)
(* have any port's fd.  Otherwise a flag may be set in another port's struct*)
(* and removeEventListener search for ever.                                 *)
LoopFound == ~raced => \A q \in Ports : at[q] \in Polling =>
  Search(q) = q /\ FirstHit(Walk, q) \in Known(Walk)

(* The structs of the list, as a walk along next finds them; of a struct    *)
(* whose next is not set yet it only knows that it is there.                *)
Along(walk) == [i \in 1 .. Cardinality(Known(walk)) |-> walk[i - 1]]

Order == Along(Walk)

Queue == INSTANCE EventLoops WITH Loops <- Ports, order <- Order

(* As long as the loops change the list one at a time, its pointers are     *)
(* worth what PortMonitor takes them for: a sequence that each loop enters  *)
(* at the end and leaves from where it is, no other being lost, doubled or  *)
(* overtaken, whatever the other threads search and set meanwhile.  Between *)
(* the write that enters a struct and those that set its own pointers, that *)
(* is so as far as this struct, and no further: what lies behind it is      *)
(* whatever was on the stack.                                               *)
ListIsQueue == [][~raced' => [Queue!Next]_Order]_vars

(* What the listener last heard of CTS is what the loop last saw; it has    *)
(* been told of every framing error that the loop has counted, and of no    *)
(* other, also when the counter has wrapped around.                         *)
EventsExact == \A q \in Ports : at[q] \in Polling =>
  /\ heard[q] # null => heard[q] = omflags[q]
  /\ (base[q] + told[q]) % Wrap = seen[q]

(* Data that stays in the kernel is reported if its notification stays set, *)
(* whatever else changes: unless OUTPUT_BUFFER_EMPTY is wanted from a driver*)
(* without TIOCSERGETLSR, which ends every poll before it comes to the data.*)
(* (Data comes only at a port in Polled.)                                   *)
DataReported == \A q \in Polled :
  (at[q] \in Polling /\ owed[q] /\ eis[q].data)
    ~> (~owed[q] \/ ~eis[q].data \/ at[q] \notin Polling \/ eis[q].closing \/ (eis[q].output /\ ~lsr[q]))
=============================================================================
