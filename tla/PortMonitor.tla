----------------------------- MODULE PortMonitor -----------------------------
(***************************************************************************)
(* One open RXTXPort: its streams, its event listener, the monitor thread   *)
(* that runs the native event loop, and close().                            *)
(*                                                                         *)
(* The threads share the port's fields without a common lock.  What orders  *)
(* them is IOLocked (a count of I/O calls, guarded by IOLockedMutex),       *)
(* closeLock (guarded by the port's monitor), and MonitorThreadLock, a flag *)
(* every thread polls in waitForTheNativeCodeSilly().  A step is one access *)
(* to these, or a run of statements in which only thread-local state or one *)
(* shared field matters; reads and writes of fields take effect in program  *)
(* order.  The native side is the Linux build (TIOCSERGETLSR is defined, so *)
(* there is no drain thread).  Of the ten events one, DATA_AVAILABLE,       *)
(* stands for all; OUTPUT_BUFFER_EMPTY appears where flush() raises it.     *)
(***************************************************************************)
EXTENDS Integers, FiniteSets, Sequences

CONSTANTS Apps,       \* application threads
          Mons,       \* the MonitorThread objects that can be created (a bound)
          Listeners,  \* event listeners
          null,       \* Java's null
          Calls,      \* Calls[t]: the methods thread t calls; a MonitorThread calls
                      \* them from the listener that it is running
          SlowListeners,  \* whether a listener may run longer than join(3000) waits
          Interrupted     \* threads that may be interrupted while they wait or join

Actors == Apps \cup Mons

Methods == {"read", "write", "flush", "notify", "add", "remove", "close"}

ASSUME CallsOfActors == Calls \in [Actors -> SUBSET Methods]
ASSUME SlownessIsKnown == SlowListeners \in BOOLEAN
ASSUME InterruptedActors == Interrupted \subseteq Actors
ASSUME NullIsNew == null \notin Mons \cup Listeners

VARIABLES
  (* fields of RXTXPort *)
  fd,                      \* TRUE while the field is positive, FALSE once it is 0
  IOLocked,
  closeLock,
  SPEventListener,
  monThread,
  MonitorThreadLock,
  MonitorThreadAlive,
  monThreadisInterrupted,
  eis,                     \* the MonitorThread whose event_info_struct the field points to
  Data,                    \* the field Data of each MonitorThread
  (* native state *)
  file,                    \* TRUE while the kernel has the port's descriptor open
  master_index,            \* the list of registered event_info_structs
  eisfd,                   \* whether each holds the port's descriptor or 0
  eventflags,              \* eventflags[SPE_DATA_AVAILABLE] of each
  closing,                 \* the field closing of each
  (* control *)
  mon,                     \* where each MonitorThread is in run() and eventLoop()
  calling,                 \* the listener each MonitorThread is calling, or null
  pc,                      \* where each thread is in a method of the port
  enable,                  \* notifyOn's argument, or the flag read_byte_array has saved
  target,                  \* the monitor thread a read uses the eis of, or remove joins
  inClose,                 \* threads whose removeEventListener was called by close
  inFlush,                 \* threads whose call was made by a listener flush() called
  inArray,                 \* threads that read(byte[]) has counted: they are in the
                           \* read(byte[],int,int) it calls, or before or after it
  leaked                   \* a notifyOn died holding MonitorThreadLock

ioVars  == <<fd, file, IOLocked, closeLock>>
monVars == <<SPEventListener, monThread, MonitorThreadAlive, monThreadisInterrupted>>
lockVars == <<MonitorThreadLock, leaked>>
natVars == <<master_index, eisfd, closing, eis, mon, calling>>
flagVars == <<eventflags, Data>>
locVars == <<enable, target, inClose, inFlush, inArray>>
vars == <<ioVars, monVars, lockVars, natVars, flagVars, locVars, pc>>

MonPlaces == {"unborn", "started", "running", "registered", "looping", "sending", "dead"}

Places == {"idle",
           "rd_probe", "rd_enter", "rd_lock", "rd_native",
           "ra_enter", "ra_lock", "ra_exit",
           "wr_enter", "wr_lock", "wr_native",
           "fl_enter", "fl_lock", "fl_native", "fl_calling", "fl_exit",
           "nt_wait", "nt_set", "nt_java",
           "ad_set", "ad_start", "ad_wait",
           "rm_wait", "rm_test", "rm_set", "rm_intr", "rm_join", "rm_clear",
           "cl_wait", "cl_check", "cl_native", "cl_owner", "cl_reset"}

TypeOK ==
  /\ fd \in BOOLEAN /\ file \in BOOLEAN /\ closeLock \in BOOLEAN /\ IOLocked \in Int
  /\ SPEventListener \in Listeners \cup {null}
  /\ monThread \in Mons \cup {null} /\ eis \in Mons \cup {null}
  /\ MonitorThreadLock \in BOOLEAN /\ MonitorThreadAlive \in BOOLEAN
  /\ monThreadisInterrupted \in BOOLEAN /\ leaked \in BOOLEAN
  /\ master_index \in Seq(Mons)
  /\ Data \in [Mons -> BOOLEAN] /\ eventflags \in [Mons -> BOOLEAN]
  /\ closing \in [Mons -> BOOLEAN] /\ eisfd \in [Mons -> BOOLEAN]
  /\ mon \in [Mons -> MonPlaces] /\ calling \in [Mons -> Listeners \cup {null}]
  /\ pc \in [Actors -> Places] /\ enable \in [Actors -> BOOLEAN]
  /\ target \in [Actors -> Mons \cup {null}]
  /\ inClose \in SUBSET Actors /\ inFlush \in SUBSET Actors /\ inArray \in SUBSET Actors

(* RXTXPort(name) has returned: m is its first monitor thread, which has    *)
(* entered its loop and released MonitorThreadLock.                         *)
Init ==
  \E m \in Mons :
    /\ fd = TRUE /\ file = TRUE /\ IOLocked = 0 /\ closeLock = FALSE
    /\ SPEventListener = null /\ monThread = m /\ eis = m
    /\ MonitorThreadLock = FALSE /\ MonitorThreadAlive = TRUE
    /\ monThreadisInterrupted = FALSE /\ leaked = FALSE
    /\ master_index = <<m>>
    /\ Data = [n \in Mons |-> FALSE]
    /\ eventflags = [n \in Mons |-> FALSE]
    /\ closing = [n \in Mons |-> FALSE]
    /\ eisfd = [n \in Mons |-> n = m]
    /\ mon = [n \in Mons |-> IF n = m THEN "looping" ELSE "unborn"]
    /\ calling = [n \in Mons |-> null]
    /\ pc = [t \in Actors |-> "idle"]
    /\ enable = [t \in Actors |-> FALSE]
    /\ target = [t \in Actors |-> null]
    /\ inClose = {} /\ inFlush = {} /\ inArray = {}

Goto(t, place) == pc' = [pc EXCEPT ![t] = place]

(* A thread is free to make a call: an application thread between calls, or *)
(* a monitor thread that is running a listener.                             *)
MayCall(t, method) == /\ pc[t] = "idle"
                      /\ method \in Calls[t]
                      /\ t \in Mons => calling[t] # null

(* waitForTheNativeCodeSilly() returns. *)
NativeCodeReady == ~MonitorThreadLock

IsAlive(m) == mon[m] \notin {"unborn", "dead"}

(* The end of a call: back to the caller, to flush() if the call was made   *)
(* by a listener that flush() was calling.                                  *)
Return(t) == /\ Goto(t, IF t \in inFlush THEN "fl_exit" ELSE "idle")
             /\ inFlush' = inFlush \ {t}
-----------------------------------------------------------------------------
(* SerialInputStream, whose methods are synchronized.  read() looks at fd   *)
(* only; read(byte[],int,int) looks at fd, asks the driver for the bytes    *)
(* available, and looks at monThreadisInterrupted, all before it counts     *)
(* itself in IOLocked.  read(byte[]) looks at monThreadisInterrupted,       *)
(* counts itself, and calls read(byte[],int,int), which counts itself too.  *)

Reading(t) == pc[t] \in {"rd_probe", "rd_enter", "rd_lock", "rd_native",
                         "ra_enter", "ra_lock", "ra_exit"}

ReadCheck(t) ==
  /\ MayCall(t, "read")
  /\ \A u \in Actors : ~Reading(u)
  /\ fd
  /\ \/ Goto(t, "rd_enter")
     \/ Goto(t, "rd_probe")
  /\ UNCHANGED <<ioVars, monVars, lockVars, natVars, flagVars, locVars>>

ReadArrayCheck(t) ==
  /\ MayCall(t, "read")
  /\ \A u \in Actors : ~Reading(u)
  /\ ~monThreadisInterrupted
  /\ Goto(t, "ra_enter")
  /\ UNCHANGED <<ioVars, monVars, lockVars, natVars, flagVars, locVars>>

ReadArrayEnter(t) ==
  /\ pc[t] = "ra_enter"
  /\ IOLocked' = IOLocked + 1
  /\ inArray' = inArray \cup {t}
  /\ Goto(t, "ra_lock")
  /\ UNCHANGED <<fd, file, closeLock, monVars, lockVars, natVars, flagVars,
                 enable, target, inClose, inFlush>>

(* read(b, 0, b.length), which is over at once for a closed port or an array *)
(* of no length.                                                             *)
ReadArrayCall(t) ==
  /\ pc[t] = "ra_lock"
  /\ NativeCodeReady
  /\ \/ fd /\ Goto(t, "rd_probe")
     \/ Goto(t, "ra_exit")
  /\ UNCHANGED <<ioVars, monVars, lockVars, natVars, flagVars, locVars>>

ReadArrayExit(t) ==
  /\ pc[t] = "ra_exit"
  /\ IOLocked' = IOLocked - 1
  /\ inArray' = inArray \ {t}
  /\ Goto(t, "idle")
  /\ UNCHANGED <<fd, file, closeLock, monVars, lockVars, natVars, flagVars,
                 enable, target, inClose, inFlush>>

(* The end of read() or read(byte[],int,int). *)
ReadReturn(t) == Goto(t, IF t \in inArray THEN "ra_exit" ELSE "idle")

(* nativeavailable() may throw IOException. *)
ReadProbe(t) ==
  /\ pc[t] = "rd_probe"
  /\ \/ ~monThreadisInterrupted /\ Goto(t, "rd_enter")
     \/ ReadReturn(t)
  /\ UNCHANGED <<ioVars, monVars, lockVars, natVars, flagVars, locVars>>

ReadEnter(t) ==
  /\ pc[t] = "rd_enter"
  /\ IOLocked' = IOLocked + 1
  /\ Goto(t, "rd_lock")
  /\ UNCHANGED <<fd, file, closeLock, monVars, lockVars, natVars, flagVars,
                 locVars>>

(* read_byte_array starts: DATA_AVAILABLE is switched off in the struct that *)
(* the field eis points to, and its flag kept in a local variable.           *)
ReadNative(t) ==
  /\ pc[t] = "rd_lock"
  /\ NativeCodeReady
  /\ target' = [target EXCEPT ![t] = eis]
  /\ enable' = [enable EXCEPT ![t] = eventflags[eis]]
  /\ eventflags' = [eventflags EXCEPT ![eis] = FALSE]
  /\ Goto(t, "rd_native")
  /\ UNCHANGED <<ioVars, monVars, lockVars, natVars, Data, inClose, inFlush,
                 inArray>>

(* Data, a timeout or an error: every way out of read_byte_array writes the  *)
(* saved flag back; then the finally block leaves IOLocked.                  *)
ReadDone(t) ==
  /\ pc[t] = "rd_native"
  /\ eventflags' = [eventflags EXCEPT ![target[t]] = enable[t]]
  /\ target' = [target EXCEPT ![t] = null]
  /\ enable' = [enable EXCEPT ![t] = FALSE]
  /\ IOLocked' = IOLocked - 1
  /\ ReadReturn(t)
  /\ UNCHANGED <<fd, file, closeLock, monVars, lockVars, natVars, Data,
                 inClose, inFlush, inArray>>
-----------------------------------------------------------------------------
(* SerialOutputStream.write(int): returns silently while                    *)
(* monThreadisInterrupted is set, and looks at fd after waiting.            *)

WriteCheck(t) ==
  /\ MayCall(t, "write")
  /\ ~monThreadisInterrupted
  /\ Goto(t, "wr_enter")
  /\ UNCHANGED <<ioVars, monVars, lockVars, natVars, flagVars, locVars>>

WriteEnter(t) ==
  /\ pc[t] = "wr_enter"
  /\ IOLocked' = IOLocked + 1
  /\ Goto(t, "wr_lock")
  /\ UNCHANGED <<fd, file, closeLock, monVars, lockVars, natVars, flagVars,
                 locVars>>

(* Faulty variant: the way out for a closed port is not in the try block. *)
WriteNativeKeepsCount(t) ==
  /\ pc[t] = "wr_lock"
  /\ NativeCodeReady
  /\ Goto(t, IF fd THEN "wr_native" ELSE "idle")
  /\ UNCHANGED <<ioVars, monVars, lockVars, natVars, flagVars, locVars>>

WriteNative(t) ==
  /\ pc[t] = "wr_lock"
  /\ NativeCodeReady
  /\ \/ /\ fd
        /\ Goto(t, "wr_native")
        /\ UNCHANGED IOLocked
     \/ /\ ~fd
        /\ Goto(t, "idle")
        /\ IOLocked' = IOLocked - 1
  /\ UNCHANGED <<fd, file, closeLock, monVars, lockVars, natVars, flagVars,
                 locVars>>

WriteDone(t) ==
  /\ pc[t] = "wr_native"
  /\ IOLocked' = IOLocked - 1
  /\ Goto(t, "idle")
  /\ UNCHANGED <<fd, file, closeLock, monVars, lockVars, natVars, flagVars,
                 locVars>>
-----------------------------------------------------------------------------
(* flush(): nativeDrain, and the OUTPUT_BUFFER_EMPTY event, which the       *)
(* flushing thread delivers itself while it still counts in IOLocked.       *)
(* write(byte[]) and write(byte[],int,int) make the same tests, before they *)
(* count themselves in IOLocked, and deliver no event.                      *)

FlushCheck(t) ==
  /\ MayCall(t, "flush")
  /\ fd
  /\ ~monThreadisInterrupted
  /\ Goto(t, "fl_enter")
  /\ UNCHANGED <<ioVars, monVars, lockVars, natVars, flagVars, locVars>>

FlushEnter(t) ==
  /\ pc[t] = "fl_enter"
  /\ IOLocked' = IOLocked + 1
  /\ Goto(t, "fl_lock")
  /\ UNCHANGED <<fd, file, closeLock, monVars, lockVars, natVars, flagVars,
                 locVars>>

FlushNative(t) ==
  /\ pc[t] = "fl_lock"
  /\ NativeCodeReady
  /\ Goto(t, "fl_native")
  /\ UNCHANGED <<ioVars, monVars, lockVars, natVars, flagVars, locVars>>

(* sendEvent delivers an event unless the port is closing or nobody listens. *)
Deliverable == /\ fd
               /\ SPEventListener # null
               /\ monThread # null
               /\ ~monThreadisInterrupted

FlushDrained(t) ==
  /\ pc[t] = "fl_native"
  /\ \/ /\ Deliverable
        /\ Goto(t, "fl_calling")
     \/ Goto(t, "fl_exit")
  /\ UNCHANGED <<ioVars, monVars, lockVars, natVars, flagVars, locVars>>

(* The listener returns, having made no call or (inFlush) one.               *)
FlushReturn(t) ==
  /\ pc[t] = "fl_calling"
  /\ Goto(t, "fl_exit")
  /\ UNCHANGED <<ioVars, monVars, lockVars, natVars, flagVars, locVars>>

FlushExit(t) ==
  /\ pc[t] = "fl_exit"
  /\ IOLocked' = IOLocked - 1
  /\ Goto(t, "idle")
  /\ UNCHANGED <<fd, file, closeLock, monVars, lockVars, natVars, flagVars,
                 locVars>>
-----------------------------------------------------------------------------
(* notifyOnDataAvailable(enable), for all ten notifyOn methods.  Testing     *)
(* MonitorThreadLock and setting it are two steps.                           *)

(* The places in the list at which the native code finds the port's fd: it   *)
(* takes the first.                                                          *)
Matching == {i \in 1..Len(master_index) : eisfd[master_index[i]] = fd}
FirstFound == master_index[CHOOSE i \in Matching : \A j \in Matching : i <= j]

NotifyCall(t) ==
  /\ MayCall(t, "notify")
  /\ \E b \in BOOLEAN : enable' = [enable EXCEPT ![t] = b]
  /\ Goto(t, "nt_wait")
  /\ UNCHANGED <<ioVars, monVars, lockVars, natVars, flagVars, target,
                 inClose, inFlush, inArray>>

NotifyWait(t) ==
  /\ pc[t] = "nt_wait"
  /\ NativeCodeReady
  /\ Goto(t, "nt_set")
  /\ UNCHANGED <<ioVars, monVars, lockVars, natVars, flagVars, locVars>>

(* MonitorThreadLock = true; nativeSetEventFlag(fd, event, enable).  The     *)
(* flag is dropped when no struct is registered for fd.                      *)
NotifySet(t) ==
  /\ pc[t] = "nt_set"
  /\ MonitorThreadLock' = TRUE
  /\ eventflags' = IF Matching = {} THEN eventflags
                   ELSE [eventflags EXCEPT ![FirstFound] = enable[t]]
  /\ Goto(t, "nt_java")
  /\ UNCHANGED <<ioVars, monVars, natVars, leaked, Data, locVars>>

(* monThread.Data = enable; MonitorThreadLock = false.  Without a monitor    *)
(* thread the first throws NullPointerException and the second never runs.   *)
NotifyJava(t) ==
  /\ pc[t] = "nt_java"
  /\ \/ /\ monThread # null
        /\ Data' = [Data EXCEPT ![monThread] = enable[t]]
        /\ MonitorThreadLock' = FALSE
        /\ UNCHANGED leaked
     \/ /\ monThread = null
        /\ leaked' = TRUE
        /\ UNCHANGED <<Data, MonitorThreadLock>>
  /\ Return(t)
  /\ enable' = [enable EXCEPT ![t] = FALSE]
  /\ UNCHANGED <<ioVars, monVars, natVars, eventflags, target, inClose,
                 inArray>>
-----------------------------------------------------------------------------
(* addEventListener(lsnr) *)

AddCheck(t) ==
  /\ MayCall(t, "add")
  /\ SPEventListener = null
  /\ MonitorThreadAlive \/ \E m \in Mons : mon[m] = "unborn"
  /\ Goto(t, "ad_set")
  /\ UNCHANGED <<ioVars, monVars, lockVars, natVars, flagVars, locVars>>

(* Faulty variant: the monitor thread is registered as the listener. *)
AddSetMonitor(t) ==
  /\ pc[t] = "ad_set"
  /\ SPEventListener' = monThread
  /\ Return(t)
  /\ UNCHANGED <<ioVars, monThread, MonitorThreadAlive,
                 monThreadisInterrupted, lockVars, natVars, flagVars, enable,
                 target, inClose, inArray>>

(* Faulty variant: every listener starts an event loop of its own. *)
AddSetStarts(t) ==
  /\ pc[t] = "ad_set"
  /\ \E l \in Listeners : SPEventListener' = l
  /\ Goto(t, "ad_start")
  /\ UNCHANGED <<ioVars, monThread, MonitorThreadAlive, monThreadisInterrupted,
                 lockVars, natVars, flagVars, locVars>>

AddSet(t) ==
  /\ pc[t] = "ad_set"
  /\ \E l \in Listeners : SPEventListener' = l
  /\ \/ /\ MonitorThreadAlive
        /\ Return(t)
     \/ /\ ~MonitorThreadAlive
        /\ Goto(t, "ad_start")
        /\ UNCHANGED inFlush
  /\ UNCHANGED <<ioVars, monThread, MonitorThreadAlive,
                 monThreadisInterrupted, lockVars, natVars, flagVars, enable,
                 target, inClose, inArray>>

(* MonitorThreadLock = true; monThread = new MonitorThread(); start().       *)
AddStart(t) ==
  /\ pc[t] = "ad_start"
  /\ \E m \in Mons : /\ mon[m] = "unborn"
                     /\ monThread' = m
                     /\ mon' = [mon EXCEPT ![m] = "started"]
  /\ MonitorThreadLock' = TRUE
  /\ Goto(t, "ad_wait")
  /\ UNCHANGED <<ioVars, SPEventListener, MonitorThreadAlive,
                 monThreadisInterrupted, leaked, master_index, eisfd,
                 closing, calling, flagVars, eis, locVars>>

AddReady(t) ==
  /\ pc[t] = "ad_wait"
  /\ NativeCodeReady
  /\ MonitorThreadAlive' = TRUE
  /\ Return(t)
  /\ UNCHANGED <<ioVars, SPEventListener, monThread, monThreadisInterrupted,
                 lockVars, natVars, flagVars, enable, target, inClose,
                 inArray>>
-----------------------------------------------------------------------------
(* removeEventListener(), also called by close() *)

(* The end of removeEventListener: close() goes on, other callers return.    *)
RemoveReturn(t) ==
  \/ /\ t \in inClose
     /\ Goto(t, "cl_native")
     /\ inClose' = inClose \ {t}
     /\ UNCHANGED inFlush
  \/ /\ t \notin inClose
     /\ Return(t)
     /\ UNCHANGED inClose

RemoveCall(t) ==
  /\ MayCall(t, "remove")
  /\ Goto(t, "rm_wait")
  /\ UNCHANGED <<ioVars, monVars, lockVars, natVars, flagVars, locVars>>

RemoveCheck(t) ==
  /\ pc[t] = "rm_wait"
  /\ NativeCodeReady
  /\ \/ /\ monThreadisInterrupted
        /\ monThread' = null
        /\ SPEventListener' = null
        /\ RemoveReturn(t)
     \/ /\ ~monThreadisInterrupted
        /\ Goto(t, "rm_test")
        /\ UNCHANGED <<monThread, SPEventListener, inClose, inFlush>>
  /\ UNCHANGED <<ioVars, MonitorThreadAlive, monThreadisInterrupted, lockVars,
                 natVars, flagVars, enable, target, inArray>>

(* Another thread may have passed RemoveCheck and RemoveTest before this one *)
(* sets monThreadisInterrupted.                                              *)
RemoveTest(t) ==
  /\ pc[t] = "rm_test"
  /\ Goto(t, IF monThread # null /\ IsAlive(monThread) THEN "rm_set" ELSE "rm_clear")
  /\ UNCHANGED <<ioVars, monVars, lockVars, natVars, flagVars, locVars>>

RemoveSet(t) ==
  /\ pc[t] = "rm_set"
  /\ monThreadisInterrupted' = TRUE
  /\ Goto(t, "rm_intr")
  /\ UNCHANGED <<ioVars, SPEventListener, monThread, MonitorThreadAlive, lockVars,
                 natVars, flagVars, locVars>>

(* interruptEventLoop() searches until it finds a struct with the port's fd. *)
(* monThread.join throws NullPointerException if monThread has gone.         *)
RemoveInterrupt(t) ==
  /\ pc[t] = "rm_intr"
  /\ Matching # {}
  /\ closing' = [closing EXCEPT ![FirstFound] = TRUE]
  /\ \/ /\ monThread # null
        /\ target' = [target EXCEPT ![t] = monThread]
        /\ Goto(t, "rm_join")
        /\ UNCHANGED <<inClose, inFlush>>
     \/ /\ monThread = null
        /\ Return(t)
        /\ inClose' = inClose \ {t}
        /\ UNCHANGED target
  /\ UNCHANGED <<ioVars, monVars, lockVars, master_index, eisfd, eis, mon,
                 calling, flagVars, enable, inArray>>

(* join(3000) ends with the thread.  It gives up on a thread that was not   *)
(* told to stop, or that is in a listener which is slow, is itself in a     *)
(* call on the port, or is the one that is joining.                         *)
GivesUpOn(t, m) ==
  \/ ~closing[m]
  \/ calling[m] # null /\ (SlowListeners \/ m = t \/ pc[m] # "idle")

(* Faulty variant: the dying thread is not waited for. *)
RemoveJoinAtOnce(t) ==
  /\ pc[t] = "rm_join"
  /\ target' = [target EXCEPT ![t] = null]
  /\ Goto(t, "rm_clear")
  /\ UNCHANGED <<ioVars, monVars, lockVars, natVars, flagVars, enable,
                 inClose, inFlush, inArray>>

RemoveJoin(t) ==
  /\ pc[t] = "rm_join"
  /\ mon[target[t]] = "dead" \/ GivesUpOn(t, target[t])
  /\ target' = [target EXCEPT ![t] = null]
  /\ Goto(t, "rm_clear")
  /\ UNCHANGED <<ioVars, monVars, lockVars, natVars, flagVars, enable,
                 inClose, inFlush, inArray>>

(* join throws InterruptedException: removeEventListener returns at once.    *)
RemoveInterrupted(t) ==
  /\ pc[t] = "rm_join"
  /\ t \in Interrupted
  /\ target' = [target EXCEPT ![t] = null]
  /\ RemoveReturn(t)
  /\ UNCHANGED <<ioVars, monVars, lockVars, natVars, flagVars, enable,
                 inArray>>

RemoveClear(t) ==
  /\ pc[t] = "rm_clear"
  /\ monThread' = null
  /\ SPEventListener' = null
  /\ MonitorThreadLock' = FALSE
  /\ MonitorThreadAlive' = FALSE
  /\ monThreadisInterrupted' = TRUE
  /\ RemoveReturn(t)
  /\ UNCHANGED <<ioVars, leaked, natVars, flagVars, enable, target, inArray>>
-----------------------------------------------------------------------------
(* close() *)

CloseCall(t) ==
  /\ MayCall(t, "close")
  /\ Goto(t, "cl_wait")
  /\ UNCHANGED <<ioVars, monVars, lockVars, natVars, flagVars, locVars>>

(* A listener that flush() is calling closes the port.                       *)
FlushCallsClose(t) ==
  /\ pc[t] = "fl_calling"
  /\ \E m \in Mons : "close" \in Calls[m]
  /\ Goto(t, "cl_wait")
  /\ inFlush' = inFlush \cup {t}
  /\ UNCHANGED <<ioVars, monVars, lockVars, natVars, flagVars, enable, target,
                 inClose, inArray>>

(* Faulty variant: the second close() is not turned away. *)
CloseClaimAlways(t) ==
  /\ pc[t] = "cl_wait"
  /\ IOLocked = 0
  /\ closeLock' = TRUE
  /\ Goto(t, "cl_check")
  /\ UNCHANGED <<fd, file, IOLocked, monVars, lockVars, natVars, flagVars, locVars>>

(* The synchronized block: wait until no I/O is under way, then claim        *)
(* closeLock unless another close() has it.                                  *)
CloseClaim(t) ==
  /\ pc[t] = "cl_wait"
  /\ IOLocked = 0
  /\ \/ /\ closeLock
        /\ Return(t)
        /\ UNCHANGED closeLock
     \/ /\ ~closeLock
        /\ closeLock' = TRUE
        /\ Goto(t, "cl_check")
        /\ UNCHANGED inFlush
  /\ UNCHANGED <<fd, file, IOLocked, monVars, lockVars, natVars, flagVars,
                 enable, target, inClose, inArray>>

(* wait(500) throws InterruptedException: the port is not closed.            *)
CloseInterrupted(t) ==
  /\ pc[t] = "cl_wait"
  /\ IOLocked > 0
  /\ t \in Interrupted
  /\ Return(t)
  /\ UNCHANGED <<ioVars, monVars, lockVars, natVars, flagVars, enable, target,
                 inClose, inArray>>

CloseCheck(t) ==
  /\ pc[t] = "cl_check"
  /\ \/ /\ ~fd
        /\ Return(t)
        /\ UNCHANGED inClose
     \/ /\ fd
        /\ UNCHANGED inFlush
        /\ IF monThreadisInterrupted
             THEN Goto(t, "cl_native") /\ UNCHANGED inClose
             ELSE Goto(t, "rm_wait") /\ inClose' = inClose \cup {t}
  /\ UNCHANGED <<ioVars, monVars, lockVars, natVars, flagVars, enable, target,
                 inArray>>

CloseNative(t) ==
  /\ pc[t] = "cl_native"
  /\ file' = FALSE
  /\ Goto(t, "cl_owner")
  /\ UNCHANGED <<fd, IOLocked, closeLock, monVars, lockVars, natVars,
                 flagVars, locVars>>

(* super.close(): the identifier is free again.  A PORT_UNOWNED listener     *)
(* that throws takes close() with it.                                        *)
CloseOwner(t) ==
  /\ pc[t] = "cl_owner"
  /\ \/ /\ Goto(t, "cl_reset")
        /\ UNCHANGED inFlush
     \/ Return(t)
  /\ UNCHANGED <<ioVars, monVars, lockVars, natVars, flagVars, enable, target,
                 inClose, inArray>>

(* fd = 0; closeLock = false *)
CloseReset(t) ==
  /\ pc[t] = "cl_reset"
  /\ fd' = FALSE
  /\ closeLock' = FALSE
  /\ Return(t)
  /\ UNCHANGED <<file, IOLocked, monVars, lockVars, natVars, flagVars, enable,
                 target, inClose, inArray>>
-----------------------------------------------------------------------------
(* MonitorThread.run() and eventLoop() *)

MonGoto(m, place) == mon' = [mon EXCEPT ![m] = place]

MonRun(m) ==
  /\ mon[m] = "started"
  /\ monThreadisInterrupted' = FALSE
  /\ MonGoto(m, "running")
  /\ UNCHANGED <<ioVars, SPEventListener, monThread, MonitorThreadAlive,
                 lockVars, master_index, eisfd, closing, calling, flagVars,
                 eis, pc, locVars>>

(* Faulty variant: the struct is not given the descriptor. *)
MonRegisterWithoutFd(m) ==
  /\ mon[m] = "running"
  /\ master_index' = Append(master_index, m)
  /\ eventflags' = [eventflags EXCEPT ![m] = FALSE]
  /\ closing' = [closing EXCEPT ![m] = FALSE]
  /\ eisfd' = [eisfd EXCEPT ![m] = FALSE]
  /\ MonGoto(m, "registered")
  /\ UNCHANGED <<ioVars, monVars, lockVars, calling, Data, eis, pc, locVars>>

(* initialise_event_info_struct *)
MonRegister(m) ==
  /\ mon[m] = "running"
  /\ master_index' = Append(master_index, m)
  /\ eventflags' = [eventflags EXCEPT ![m] = FALSE]
  /\ closing' = [closing EXCEPT ![m] = FALSE]
  /\ eisfd' = [eisfd EXCEPT ![m] = fd]
  /\ MonGoto(m, "registered")
  /\ UNCHANGED <<ioVars, monVars, lockVars, calling, Data, eis, pc, locVars>>

(* Faulty variant: the thread that starts the loop is not let go. *)
MonUnlockForgets(m) ==
  /\ mon[m] = "registered"
  /\ eis' = m
  /\ MonGoto(m, "looping")
  /\ UNCHANGED <<ioVars, monVars, lockVars, master_index, eisfd, closing, calling,
                 flagVars, locVars, pc>>

(* init_threads and unlock_monitor_thread *)
MonUnlock(m) ==
  /\ mon[m] = "registered"
  /\ eis' = m
  /\ MonitorThreadLock' = FALSE
  /\ MonGoto(m, "looping")
  /\ UNCHANGED <<ioVars, monVars, leaked, master_index, eisfd, closing,
                 calling, flagVars, pc, locVars>>

(* The top of the loop with closing set: finalize_event_info_struct; the     *)
(* struct, a local variable of eventLoop, is gone.                           *)
MonEnd(m) ==
  /\ mon[m] = "looping"
  /\ closing[m]
  /\ \E i \in 1..Len(master_index) :
       /\ master_index[i] = m
       /\ master_index' = SubSeq(master_index, 1, i - 1)
                            \o SubSeq(master_index, i + 1, Len(master_index))
  /\ MonGoto(m, "dead")
  /\ UNCHANGED <<ioVars, monVars, lockVars, eisfd, closing, calling,
                 flagVars, eis, pc, locVars>>

(* report_serial_events finds data and its flag set.                         *)
MonPoll(m) ==
  /\ mon[m] = "looping"
  /\ ~closing[m]
  /\ eventflags[m]
  /\ MonGoto(m, "sending")
  /\ UNCHANGED <<ioVars, monVars, lockVars, master_index, eisfd, closing,
                 calling, flagVars, eis, pc, locVars>>

(* sendEvent(DATA_AVAILABLE, true) *)
MonSend(m) ==
  /\ mon[m] = "sending"
  /\ calling[m] = null
  /\ \/ /\ Deliverable
        /\ Data[monThread]
        /\ calling' = [calling EXCEPT ![m] = SPEventListener]
        /\ UNCHANGED mon
     \/ /\ ~(Deliverable /\ Data[monThread])
        /\ MonGoto(m, "looping")
        /\ UNCHANGED calling
  /\ UNCHANGED <<ioVars, monVars, lockVars, master_index, eisfd, closing,
                 flagVars, eis, pc, locVars>>

(* The listener returns.                                                     *)
MonReturn(m) ==
  /\ mon[m] = "sending"
  /\ calling[m] # null
  /\ pc[m] = "idle"
  /\ calling' = [calling EXCEPT ![m] = null]
  /\ MonGoto(m, "looping")
  /\ UNCHANGED <<ioVars, monVars, lockVars, master_index, eisfd, closing,
                 flagVars, eis, pc, locVars>>
-----------------------------------------------------------------------------
(* A thread goes on with the call it has made. *)
Continue(t) ==
  \/ ReadArrayEnter(t) \/ ReadArrayCall(t) \/ ReadArrayExit(t)
  \/ ReadProbe(t) \/ ReadEnter(t) \/ ReadNative(t)
  \/ WriteEnter(t) \/ WriteNative(t)
  \/ FlushEnter(t) \/ FlushNative(t) \/ FlushExit(t)
  \/ NotifyWait(t) \/ NotifySet(t) \/ NotifyJava(t)
  \/ AddSet(t) \/ AddStart(t) \/ AddReady(t)
  \/ RemoveCheck(t) \/ RemoveTest(t) \/ RemoveSet(t)
  \/ RemoveInterrupt(t) \/ RemoveJoin(t) \/ RemoveClear(t)
  \/ CloseClaim(t) \/ CloseCheck(t) \/ CloseNative(t) \/ CloseOwner(t)
  \/ CloseReset(t)

(* The device answers, or the listener that flush() called returns. *)
Answer(t) == ReadDone(t) \/ WriteDone(t) \/ FlushDrained(t) \/ FlushReturn(t)

(* An application, or a listener, decides to do something. *)
Decide(t) ==
  \/ ReadCheck(t) \/ ReadArrayCheck(t) \/ WriteCheck(t) \/ FlushCheck(t)
  \/ NotifyCall(t) \/ AddCheck(t) \/ RemoveCall(t)
  \/ CloseCall(t) \/ FlushCallsClose(t)
  \/ RemoveInterrupted(t) \/ CloseInterrupted(t)

(* A monitor thread's own steps. *)
Loop(m) == \/ MonRun(m) \/ MonRegister(m) \/ MonUnlock(m)
           \/ MonEnd(m) \/ MonSend(m) \/ MonReturn(m)

Next == \/ \E t \in Actors : Continue(t) \/ Answer(t) \/ Decide(t)
        \/ \E m \in Mons : Loop(m) \/ MonPoll(m)

Spec == Init /\ [][Next]_vars

(* The scheduler runs every thread, and event listeners return.  Nothing is *)
(* assumed of the device: a read without a timeout may block for ever.      *)
FairSpec == /\ Spec
            /\ \A t \in Actors : WF_vars(Continue(t))
            /\ \A m \in Mons : WF_vars(Loop(m))
-----------------------------------------------------------------------------
(* Properties *)

(* The threads between the two synchronized blocks that count them. *)
Counted == {t \in Actors : \/ pc[t] \in {"rd_lock", "rd_native", "wr_lock",
                                         "wr_native", "fl_lock", "fl_native",
                                         "fl_calling", "fl_exit"}
                           \/ t \in inFlush}

(* IOLocked, the count that close() trusts, is the number of calls that are  *)
(* between the blocks which count them; read(byte[]) counts one more for the  *)
(* thread that is in it, besides the read(byte[],int,int) it calls.  No way   *)
(* out of a call, not even a port closed by the very listener that flush()    *)
(* called, counts a call twice or leaves it behind.                           *)
IOLockedExact == IOLocked = Cardinality(Counted) + Cardinality(inArray)

ClosePlaces == {"cl_check", "cl_native", "cl_owner", "cl_reset"}

(* nativeClose is called at most once for a port, by the one thread that    *)
(* holds closeLock, whoever else calls close(): before it, after it or from *)
(* a listener.                                                              *)
ClosedOnce ==
  \A t \in Actors : pc[t] = "cl_native" =>
    /\ file
    /\ \A u \in Actors : pc[u] \in {"cl_native", "cl_owner", "cl_reset"} => u = t

(* The port has one event loop: monitor threads that are alive besides it   *)
(* have been told to stop.                                                  *)
OneMonitor == \A m, n \in Mons :
  IsAlive(m) /\ IsAlive(n) /\ ~closing[m] /\ ~closing[n] => m = n

(* removeEventListener() does not return, and no new listener is set, while *)
(* the event loop is still running the listener it removes: a loop only     *)
(* ever runs the listener that is set.  A listener that flush() calls, on   *)
(* the flushing thread, is waited for by nobody, and not meant here.        *)
LoopRunsCurrentListener == \A m \in Mons :
  calling[m] # null => calling[m] = SPEventListener

(* "dont close the file while accessing the fd" (RXTXPort.java, above       *)
(* IOLocked): the descriptor is open whenever a native I/O call uses it.    *)
DescriptorGuarded == \A t \in Actors :
  pc[t] \in {"rd_native", "wr_native", "fl_native"} => file

(* notifyOnDataAvailable(enable) sets "if notifications should be made": no *)
(* call of it or of read under way, a running event loop reports data       *)
(* exactly if the listener asked for it.                                    *)
NotificationKept ==
  (\A t \in Actors : pc[t] \notin {"rd_native", "nt_set", "nt_java"})
    => \A m \in Mons : m = monThread /\ mon[m] = "looping"
                         => eventflags[m] = Data[m]

(* waitForTheNativeCodeSilly() "loops once or twice every time": whoever    *)
(* takes MonitorThreadLock gives it back.                                   *)
LockReleased == MonitorThreadLock ~> ~MonitorThreadLock

(* MonitorThreadLock is given back by everyone who takes it, except by a    *)
(* notifyOn method that has died of a NullPointerException.                 *)
LockReleasedOrLeaked == MonitorThreadLock ~> (~MonitorThreadLock \/ leaked)

Removing(t) == pc[t] \in {"rm_wait", "rm_test", "rm_set", "rm_intr", "rm_join", "rm_clear"}
Notifying(t) == pc[t] \in {"nt_wait", "nt_set", "nt_java"}

(* close() returns once the I/O calls on the port come to an end, even      *)
(* while other threads add and remove listeners and close it too, unless    *)
(* two threads remove the listener at once.  A notifyOn method that dies    *)
(* with MonitorThreadLock, or threads that never stop calling them, also    *)
(* keep close() waiting, so none is called here (LockReleasedOrLeaked).     *)
CloseReturns ==
  /\ <>[](IOLocked = 0)
  /\ [](\A t \in Actors : ~Notifying(t))
  /\ [](\A t, u \in Actors : Removing(t) /\ Removing(u) => t = u)
  => \A t \in Actors : (pc[t] = "cl_wait") ~> (pc[t] = "idle")
=============================================================================
