# java-serial: TLA+ models and proofs

This directory holds the verification project for java-serial, the RXTX-derived
serial port library (`src/gnu`: Java classes in `javax.comm` and `ac.bali.serial`
over the native library `SerialImp.c`; `src/android`: a separate port). The
modules are translated from the source of this commit. TLC checks them on small
instances (`*.cfg`); TLAPS proves the theorems of the `*Proofs` modules for every
value of the constants. `PROJECT.json` says which lines each definition models,
which run checks which property, and which faulty variant of the code each property
catches.

    tlc -config MCPortOwnership.cfg MCPortOwnership      # a run
    tlapm ExclusionProofs.tla                            # the proofs

File names below are relative to `src/gnu/src/main/java` (J) and
`src/gnu/src/main/c/src` (C).

## 1. The system

An application asks `CommPortIdentifier` for the ports of the machine, opens one
and gets an `RXTXPort`, reads and writes its streams, and may set one listener
for serial events. The components, what state they keep and what they do:

| component | state | operations | source |
|---|---|---|---|
| port ownership | per identifier: `Available`, `Owner`, `commport`, the monitor's wait set, ownership listeners | `open(name, timeout)`, `internalClosePort()`, `fireOwnershipEvent()` | J `javax/comm/CommPortIdentifier.java:414-538` |
| registry of identifiers | `CommPortIndex`, the `next` chain, static `Sync` | `AddIdentifierToList`, `getPortIdentifier` (two), `getPortIdentifiers` with its rescan and restoration of old identifiers, `CommPort.close()` | J `javax/comm/CommPortIdentifier.java:81-360`, `javax/comm/CommPort.java:98`, `ac/bali/serial/RXTXCommDriver.java` |
| open port | `fd`, `IOLocked`, `closeLock`, `SPEventListener`, `monThread`, `MonitorThreadLock`, `MonitorThreadAlive`, `monThreadisInterrupted`, `eis` | `read`, `write`, `flush`, `notifyOn*`, `addEventListener`, `removeEventListener`, `close`, the monitor thread | J `ac/bali/serial/RXTXPort.java` |
| native event loop | `master_index` of `event_info_struct`s; `fd`, `closing`, `eventflags` of each | `eventLoop`, `initialise_` and `finalize_event_info_struct`, `interruptEventLoop`, `nativeSetEventFlag`, `report_serial_events` | C `SerialImp.c:3791-5070` |
| lock files | a file `LCK..name` per port, shared by all processes | `fhs_lock`, `fhs_unlock`, `is_device_locked`, `check_lock_pid` | C `SerialImp.c:5375-6072` |
| timed reads and writes | `timeout`, `threshold`, the terminal's VMIN and VTIME, local variables | `SerialInputStream.read*`, `read_byte_array`, `readTerminatedArray`, `enableReceive*`, `writeArray` | J `RXTXPort.java:489-590, 1653-2010`, C `SerialImp.c:1554-1640, 3061-3173, 3300-3646` |
| pre-opened ports | a static list of open descriptors, lock files | `static_add_filename`, `find_preopened_ports`, the `nativeStatic` setters and queries, `open`, `nativeClose` | C `SerialImp.c:329-374, 616-812, 2035-2690` |
| port parameters | termios, `serial_struct` and modem lines of the device, cached Java fields | `set_port_params`, `setflowcontrol`, `nativeSetEndOfInputChar`, `nativeSetBaudBase`, `nativeSetDivisor`, `setDTR`, `setRTS`, `setDSR` | C `SerialImp.c:387-614, 824-1270, 1888-2250, 3003-3022, 3723-3761`, J `RXTXPort.java:200-800` |
| Windows' terminal | the list `first_tl`, a termios and a DCB per COM port | `serial_open`, `serial_close`, `add_port`, `tcsetattr`, `tcgetattr` | `windows/termios.c` |
| native library | `loaded` flags | `NativeResource.load`, `SerialManager.getInstance` | J `ac/bali/serial/NativeResource.java`, `SerialManager.java` |
| convenience connection | `connected`, the port | `NRSerialPort.connect`, `disconnect` | J `ac/bali/serial/NRSerialPort.java` |
| Android port | file descriptors and streams | open, parameter changes, close | `src/android/...` |

How they interact:

- `CommPortIdentifier.open` calls the driver's `getCommPort`, which constructs an
  `RXTXPort`: the native `open` takes the **lock file**, opens the device, and the
  constructor starts the **monitor thread** and waits for it.
- The monitor thread runs the native **event loop**, whose struct is in one list with those of all open ports, and which calls back into
  `RXTXPort.sendEvent`, which calls the application's listener, which may call
  any method of the port, `close()` included.
- `RXTXPort.close` stops the monitor thread, closes the descriptor and removes the
  lock file in `nativeClose`, and then calls `CommPort.close`, which finds the
  identifier by walking the **registry** and calls `internalClosePort`.
- The **pre-opened list** is filled by static setters before a port is opened, and searched by
  the native `open`; both hold the port's lock file, but not a lock of the list.
- All **parameters** of a port are read, changed and written back by the thread that sets
  them; on Windows the words they change are made up from a DCB at every read.
- A rescan of the registry tests every candidate port by taking its **lock file**
  and opening it (`testRead`), while other threads use theirs.

What is hard about it: threads share an `RXTXPort` without a lock that covers it
(a count, two flags and a polled flag order them); `CommPortIdentifier` reads and
writes `commport` and fires all its events outside its monitor; lock files are a
protocol of non-atomic steps between processes that may die; the rescan rewrites
the list clients hold references into; almost every operation has a failing path
that must undo what was done. The list `hazards` of `PROJECT.json` has each of
these at its line, with the property that covers it or the reason none does.

What makes each component correct:

- ownership: one owner at a time; the fields agree; every `open()` ends; no
  event is lost or doubled; a failed open leaves the port free;
- registry: a rescan keeps the identifiers clients know and yields a finite list
  without duplicates; a closed port is free; a device is opened once;
- open port: no I/O on a closed descriptor; one `nativeClose`; one event loop, which
  calls no removed listener; whoever sets `MonitorThreadLock` resets it; what
  the application asked to be notified of is what the loop reports; `close()` ends;
- lock files: no two processes have a port open; a dead process's file does not
  keep the port locked; a process does not forget its own file;
- timed reads: a read stays within the caller's array; it returns when its bytes
  are there or its timeout is over, and without a timeout it returns all it asked for;
  the terminal's settings follow the fields;
- event loops: a search for a port's loop finds it; the listener hears of each change that a
  poll sees, once, and of waiting data;
- pre-opened ports: a port opens with the settings made before; the list is a sound chain and
  no descriptor is forgotten; an open port is nobody else's;
- parameters: the getters report what the device is set to, after refused calls and with
  several setters; a call changes only what it was asked to;
- Windows' list: a descriptor finds its own port; what is closed is closed; the settings
  survive every translation.

## 2. The modules

| module | models | state and actions |
|---|---|---|
| `PortLease` | what `open` and `close` promise | a holder and, per thread or process, how far its request is. The abstract specification of `PortOwnership` and `LockFile`. |
| `EventLoops` | what the list of event loops is for | the loops that run, in the order in which they have begun. The abstract specification of the list in `SerialEvents` and `PortMonitor`. |
| `PortOwnership` | one `CommPortIdentifier` | the fields, the wait set, each thread's place. Each `synchronized` block is one action (`Open`, `Check`, `InternalClosePort`), each stretch between two blocks another (`Request`, `GetCommPort`, `AnnounceOwned`, `Unreserve`, `AnnounceUnowned`); `Expire`, `Interrupt` and `Wake` are the JVM's. Refines `PortLease`. |
| `PortRegistry` | the list of identifiers | the chain of `next` pointers as it is, `Sync`, the rescan's local variables. Lookups, the rescan step by step (`BeginRescan`, `TestRead`, `Probe`, `Add`, `BeginRestore`, `Restore`, `EndRestore`, `EndRescan`), the driver's own scan without `Sync`, open and close as far as they touch list and lock file, devices that come and go (`Plug`). |
| `PortRegistryProofs` | | theorems about it |
| `PortMonitor` | one open `RXTXPort` with its event loop | the Java fields under their own names, `master_index` as a sequence of monitor threads, and a place per thread. One action per access to a shared field or run of statements with one. |
| `PortMonitorProofs` | | theorems about it |
| `LockFile` | the lock file of one port between processes | the directory entry, who has written its pid, who is alive. One action per system call. While all processes live it implements `PortLease`, too. |
| `ExclusionProofs` | | theorems about `PortOwnership` and `LockFile` |
| `SerialRead` | what a read waits for | the fields `timeout` and `threshold`, the terminal's copies of them, the variables of `read` and `read_byte_array`. One action per look at a shared field (`AskAvailable`, `ClipToThreshold`), per native setter, and per turn, `SELECT` and `READ` of `read_byte_array`; bytes, time and a device that goes are the environment's (`Arrive`, `Tick`, `HangUp`). |
| `SerialReadProofs` | | theorems about it |
| `SerialEvents` | the event loops of all ports | `master_index` as the doubly linked list it is, with a struct per port. A loop leaves the list in two actions, reading its neighbours and joining them (`ReadNeighbours`/`Unlink`), and enters it in four: it walks to the end (`FindEnd`), hangs in its struct, whose next and fd are still what was on the stack (`Link`), sets its pointers (`SetPointers`) and then its fd (`Fill`). While these changes do not overlap the list implements `EventLoops`. Then the poll: `CheckLSR`, `CheckCount`, `CheckLines`, `CheckData`, the searches `SetEventFlag` and `InterruptEventLoop`, and the device. |
| `SerialEventsProofs` | | theorems about it |
| `PreopenedPorts` | the list of pre-opened ports | the nodes as memory that is allocated, freed and used again; descriptors, lock files of this process, what the device is set to. `Lock`, `Find`, `Unlink`, `Device`, `Set`, `Unlock`, `Add`, `Link` are the places at which static setters, queries and `open` can meet; `Reuse` is the allocator. |
| `PreopenedPortsProofs` | | theorems about it |
| `TermiosCodes` | the conversions of the parameters | operators and no state: `translate_speed`, `get_java_baudrate`, `translate_*`, `set_java_vars`, `setflowcontrol`'s words |
| `PortParameters` | the settings of an open port | termios, `serial_struct` and lines of the device, the Java fields, and per thread the word it has read. Each setter is a read and a write of that word, `setSerialPortParams` has a step for each system call it makes. `tcsetattr` moves the modem lines when the speed becomes 0 or ceases to be 0, as the tty driver does. |
| `PortParametersProofs` | | theorems about it |
| `WindowsTermios` | the terminal the Windows build emulates | operators and no state: the translations between termios and DCB, with the bits of the speed codes added up one by one where the code ors them |
| `WindowsPorts` | the open COM ports | `first_tl`, the handles, each port's termios and DCB. `Open`, `Number` and `Insert` are `port_opened` and the three parts of `add_port`: it reads the head of the list, chooses a descriptor, and inserts from the head it has read, which another thread may have closed meanwhile (`Stale`). `Create`, `Undo`, `Configure`, `Close`, `SetParams`, `SetFlow`; the last two also with a `tcsetattr` that fails when it has changed the DCB (`ApplyHalf`). |
| `WindowsPortsProofs` | | theorems about it |
| `MC*` | | instances for TLC; they add constants and nothing else |

`PortOwnership` treats the device as its outcomes (a port, null or an exception),
`PortRegistry` treats `open` as far as lock file and list go, and `PortMonitor`
starts from a port that has been opened: they meet in `open` and `close`, each
with the part of them that its state takes part in. `PortMonitor` and `SerialEvents` share the
event loop: the former has one port with its Java side, the latter the list of all ports and
what a poll compares. What they say of the list is the same, `EventLoops`, which both are proved to implement. `PreopenedPorts` has the same lock files as `LockFile`, within one process.

### Choices that a reader should know

- **Steps.** Inside a critical section the code is one action. Outside, a step is
  one access to shared state; reads and writes of fields that the code does not
  synchronize take effect in program order. The exceptions are these. In `PortMonitor`
  `sendEvent`'s tests are one step, and so are `MonitorThreadLock = true` and the
  `nativeSetEventFlag` that follows it; the end of `waitForTheNativeCodeSilly` and the first test
  after it; `monThread != null && monThread.isAlive()`; and the assignments that end
  `removeEventListener`, whose order only a second controlling thread could see. Testing
  `monThreadisInterrupted` and setting it are two. In `SerialEvents` and `WindowsPorts` a search or
  walk along the list is one step; an addition or removal is one in `WindowsPorts`, where it follows the walk, and in `SerialEvents`
  the writes that join two neighbours are one (the struct's own pointers are set by another).
- **Counted twice.** `read(byte[])` counts itself in `IOLocked` and then calls
  `read(byte[],int,int)`, which counts again: `inArray` are the threads in the former.
- **Owners.** A thread's name is the application name it passes to `open`.
- **Platform.** The native side is the Linux build: FHS lock files,
  `TIOCSERGETLSR` defined (no drain thread), no `OPEN_EXCL`. `WindowsTermios` and `WindowsPorts`
  are the Windows build.
- **Events.** `DATA_AVAILABLE` stands for the ten events of `report_serial_events`
  and `OUTPUT_BUFFER_EMPTY` appears where `flush()` raises it.
- **A struct that has gone.** `eis` points to a local variable of `eventLoop`. A
  read that uses it after the loop has ended is modelled as hitting that loop's
  own flags and nothing else; corrupting another stack frame is outside the model.
- **Identifiers.** `PortRegistry` has a bounded set of objects and gives back those
  that nothing refers to, at the end of each rescan. One port type is modelled
  and the list of candidate names is a constant.
- **The list of loops.** A struct keeps its contents when its loop has ended, as the stack of
  a finished thread does, and a new one begins with an `fd` that is either none or the old one.
- **Freed nodes** of the pre-opened list keep `next` and `prev` until they are used again; `free()`
  may overwrite the name, which comes first. Freeing a node twice ends the process.
- **Flaws.** `PreopenedPorts` remembers in `flaws` how the list was first broken (two threads in it
  at once, the head freed while it had a successor, an entry added behind the head's
  successor, a call between a setter's UNLOCK and its listing, a node malloc'ed that some thread
  has found under its old name and is about to take out: `reborn`). `raced` (`SerialEvents`,
  `WindowsPorts`) and `lost` (`PortParameters`) do the same for overlapping changes. The
  properties say what holds until then, and `OpenPortExclusive` what holds whatever else happens (its first half until
  a node is `reborn`).
- **Exempted, not excluded.** On Windows `raced` is also set when `add_port` walks from an entry that
  has been freed. What such a walk finds is not known: the new port is linked to the freed memory only,
  or the walk gets back into the list, or it takes over `first_tl`. The model has all three.
- **Half a tcsetattr.** `half` (`WindowsPorts`) names the settings of a port that `tcsetattr` has put into the DCB
  before it failed at `SetCommTimeouts`; `ttyset` and the Java fields have the old ones.
- **Modem lines.** A speed of 0 hangs up: the driver drops DTR and RTS, and raises both with the next
  other speed. That it leaves RTS down while input is throttled is not modelled.
- **Speeds** are numbers as Linux has them, because the code passes numbers that are no
  codes on as they are: `translate_speed(13)` is 13, the code of 9600.
- **One of several.** CTS stands for the four modem lines, framing errors for the five
  counters: the code treats them alike.
- **Pids** are not used again, and the parent's pid, which `check_lock_pid` accepts
  too, is left out.
- **Garbage.** A lock file that exists and has no pid yet makes
  `is_device_locked` use an uninitialized buffer: the model lets it read any pid, or
  one that no process has, and remembers in `torn` that it happened.
- **Two views of a read.** `PortMonitor` has the flags and counters of a read and lets
  the native call end at any time; `SerialRead` has how long the native call lasts and
  leaves the flags and `close()` out. Neither uses the other's state.
- **The terminal.** `Ready`, `Needed` and `TimerExpired` are the Linux kernel's: `select`
  on a terminal without VTIME wants VMIN bytes, and a read follows the table of
  termios(3). `FASYNC` is the only file flag that `configure_port` leaves set, so reads block.
- **Bytes** are counted. A terminator may be found after any second or later byte.
- `RXTXPort.finalize` is not modelled.

## 3. The runs

| run | instance | what it checks |
|---|---|---|
| `ownership` | 3 threads, every call possible in every order | `SingleOwner`, `OwnershipAgrees`, `EventsBalanced`, and `LeaseImplemented` (safety and liveness) |
| `monitor` | a controlling thread, an I/O thread, 2 monitor threads, 1 listener | `OneMonitor`, `LoopRunsCurrentListener`, `LockReleasedOrLeaked` |
| `closing` | two controlling threads, which add, remove and close, and the listener, which closes; one thread does I/O, the other may be interrupted; slow listener | `IOLockedExact`, `ClosedOnce`, `CloseReturns` |
| `registry` | 2 threads, 2 ports, one of them pluggable, 6 identifier objects | `OneOpenPerDevice`, `RescanRestores` |
| `lockfile` | 3 processes, one of which may die | `ExclusiveWhileAllLive`, `LockFileInUse`, `LeaseWhileAllLive`, `StaleRemoved` |
| `read` | 1 setter, lengths 1 and 3, timeouts of 1 and 2 ticks, thresholds 2 and 257, 3 rounds, 2 bytes in the kernel | `WithinArray`, `UntimedReadFull`, `SettingsAgree`, `ReadsReturn` |
| `params` | 2 threads, 4 calls, 6 sets of parameters of which 2 are refused, 2 flow modes, 2 baud bases, `ASYNC_SPD_CUST` set | `SettingsReported`, `RateReported`, `LinesKept` |
| `preopened` | 2 threads, 5 calls, 3 devices, 3 nodes, 3 descriptors | `PresetKept`, `ListSound`, `DescriptorsKept`, `OpenPortExclusive` |
| `events` | 3 ports whose loops come and go, or one of them whose device does anything; counters modulo 3 | `LoopFound`, `EventsExact`, `ListIsQueue`, `DataReported` |
| `windows` | 2 threads, 3 ports, 2 sets of parameters, 1 flow mode | `PortsExact`, `SettingsKept` |
| `forgotten` | the instance of `registry`, 3 identifier objects | finding, section 6 |
| `stale_lock` | the instance of `lockfile` | finding |

The runs `monitor`, `registry`, `read`, `params`, `preopened`, `events` and `windows` check their module's `TypeOK` too; those of
`PortOwnership` and `LockFile` (`LockTypeOK`) are left to the proofs. The configurations that belong to no run reproduce
the disagreements at the end of section 6; TLC ends each with a counterexample:
`PortMonitorDescriptor`, `PortMonitorLeak`, `PortMonitorFlags` (module `MCPortMonitor`),
`PortRegistryTwice` (`MCPortRegistry`),
`SerialReadThreshold` (`MCSerialRead`), `PortParametersDivisor` (`MCPortParameters`) and
`PreopenedPortsQuery` (`MCPreopenedPorts`).

Why the bounds are enough for the question asked:

- `ownership`: three threads are an owner, a thread that waits and one that takes
  the port between the owner's close and the waiter's wake-up, which is what the
  `while` in `open` is for. The safety properties are proved for any number.
- `monitor`: two monitor threads are the first and the one that the next
  `addEventListener` starts while the first may still be ending. One thread calls
  the control methods: with two that remove a listener at once,
  `LoopRunsCurrentListener` does not hold (the second finds `monThreadisInterrupted` and
  returns at once); the hazard list says so. It speaks of the event loop only: a listener that `flush()` is
  calling on another thread may go on after `removeEventListener()` has returned, which joins nobody but the
  monitor thread. Listeners return within the three
  seconds of `join(3000)`; with slower ones `OneMonitor` does not hold, because the old
  loop lives on.
- `closing`: every way two `close()` calls and two I/O calls can meet, from
  application threads, from an event listener, and from a listener that `flush()`
  runs, while either thread adds and removes the listener; nothing is assumed about the listener's
  duration. `CloseReturns` has three conditions. I/O ends at some time; a device may
  never answer a read. No `notifyOn...` method is called: one that dies keeps `MonitorThreadLock` set, and threads that
  never stop calling them can starve the one that waits for it; the run's threads call none, those of `monitor` do. And no two threads remove
  the listener at once: both may test `monThreadisInterrupted` before either sets it, and the second then searches
  `master_index` for ever for a loop that the first has ended.
- `registry`: two names are the least for which the restoration has a first and a
  later element, one to keep and one that comes or goes. The six objects are two in
  the old list, two in the new one and one that each thread still holds; the state
  space does not grow with more. Identifiers are symmetric (no liveness is
  checked there).
- `lockfile`: the two that compete and the dead one whose file they find.
- `read`: a tick is 50 ms, so that the two timeouts are one that VTIME holds and one too
  short for it; 257 is a threshold that VMIN cannot hold, 2 one between a single byte and
  the length 3; the kernel holds fewer bytes than are asked for, so that a read takes
  several rounds. `Rounds` is 3 where the code has 20, with lengths up to 3: what matters is
  that the longest read may need them all, and one more would not do. `Horizon` is the longest timeout. With two
  setting threads `SettingsAgree` does not hold: each hands the terminal a field that
  the other may have replaced.
- `params`: two threads are a setter and one that writes in between; four calls are enough for
  two to overlap, a third to come after them and a fourth to show what is left. The speeds are one with
  the code that custom speeds use (38400), a custom one that divides the baud base, a hang-up, a
  negative one and a number that is another rate's code; 1.5 stop bits meet 8 data bits; a baud base of
  0 is one `set_port_params` refuses to divide.
- `preopened`: three entries are the least with a head, a middle and an end, and five calls
  fill the list, take its head out and search what is left, or break it and open a port afterwards.
  Nodes, threads and devices are symmetric.
- `events`: three structs are the least for which one has two neighbours. `Wrap = 3` lets a counter
  wrap around twice; two ports' devices never influence each other, so that one is enough. The
  constraint `OneAtATime` ends a behaviour when two changes of the list have overlapped, after which
  `LoopFound` and `ListIsQueue` promise nothing; a port whose device changes has the list to itself, so
  that `EventsExact` and `DataReported` are not cut short by it.
- `windows`: three ports are the least with a gap between descriptors, and with an entry left behind the head
  when that is closed while a third port is being added; any port may be closed by a thread that is in none of the calls
  told step by step. Speeds are a custom one and a hang-up, sizes, stop bits and
  parities differ; the one flow mode has hardware input and software output. `OneAtATime` is as above. The
  constraint `OneTouched` lets the settings of one port at a time change, while at most one other is being opened:
  ports have no settings in common, and what a call would do to the wrong port shows with two.

`CHECK_DEADLOCK FALSE` is said where the system really may stop: `PortMonitor` (a port that has
been closed by threads that call nothing but `close`, or whose `MonitorThreadLock` has been
lost), `WindowsPorts` (a failed `open()` leaves a port that can neither be used nor opened again),
and `PortParameters` and `PreopenedPorts`, when their `Calls` are used up.

Fairness. `PortOwnership`: a call that has been made goes on (`Run`) and clocks
advance (`Expire`); no thread is obliged to call anything. `PortMonitor`: threads go on
with calls they have made and event listeners return; the device is not obliged
to answer a read, nor an application to call. `CloseReturns` therefore has the
hypotheses above. `LockFile`: a process that
has begun to open or close a port makes its next system call or dies. `SerialRead`: the
reading thread and a setter go on with what they have begun, and time passes; no byte need
ever arrive. `SerialEvents`: a monitor thread goes on with its loop, whatever it does; the device, the
listener and the other threads are obliged to nothing. The other modules have no fairness. All are weak
fairness of what the JVM's or the kernel's scheduler runs.

## 4. What is proved

Every invariant that a run checks is a theorem, and so are the two action properties `LeaseWhileAllLive`
and `ListIsQueue`. Each theorem is `Spec => []Inv` or `Spec => [][A]_vars`, for every value of the constants that satisfies the `ASSUME`s
of the module it is about, and of any further hypothesis named here. None depends on the
instance that TLC checks, nor on a bound: `Calls`, `Rounds`, `Nodes`, `Fds`,
`Identifiers` and `Wrap` are arbitrary, the first five only as far as numbers are
numbers and sets that memory comes from are finite.

The proofs have one form. An *inductive invariant* is a conjunction of named parts, each
of which the steps keep; most were checked by TLC on the run's instance before they were
proved. Where a module has many steps, a lemma per action says what it does to the
variables that the invariant mentions (the lemmas `Does...` of `PreopenedPortsProofs`), so
that the preservation steps expand no action twice.

### Ownership and lock files

`ExclusionProofs` about `PortOwnership`, for every set of threads with `null` outside it (`NullIsNoThread`),
finite for the event count (`ThreadsFinite`):

- `TypeCorrect`, `FieldsAgree`, `OneOwner` (`SingleOwner`): the inductive invariant is
  `IInv == TypeOK /\ OwnershipAgrees`. `SingleOwner` alone is not inductive: that a
  reservation is exclusive rests on `Owner` naming the thread that uses the port, and
  that a new owner gets its own port rests on `commport` being null whenever the
  identifier is free or newly reserved, although `commport` is tested and set
  outside the monitor.
- `EventsAreBalanced`: each step leaves the listener's count, the announcement and
  the set of closing threads alone or moves one unit between them
  (`StepBalanced`); the theorem follows with the cardinality facts of finite sets.
- `ImplementsLease`: under the mapping of `PortOwnership` each step is a step of
  `PortLease` or leaves its variables alone. The liveness half of `LeaseImplemented`,
  that every request is answered, is only model-checked.

`ExclusionProofs` about `LockFile`, for every set of processes (no assumption but
`NoneIsNoProcess` and `MortalProcesses`):

- `LockTypeCorrect`, and `NoLockFileForgotten` (`LockFileInUse`). The strengthening `InUseInv` adds that
  a process past `write` has its pid in the file it created, so that
  `check_lock_pid` recognizes its own file by its pid.
- `LockFileExcludes` and `ExclusionWhileAllLive`: while everyone is alive and no empty
  file has been read, the lock file is that of the process that has the port open, so
  that no two have. The strengthening `ExclusionInv` says that under this condition the
  lock file is that of every process that keeps one, that nobody is about to unlink a
  file for stale, and that a process about to ask `kill` has read the pid of a process.
- `LockFileIsALease` (`LeaseWhileAllLive`): under the same condition, which `ExclusionInv` is for, every step
  of the protocol is a step of `PortLease`, with the file as holder and a request reserved from
  `open(O_EXCL)` until the device is open, or changes nothing there. So the two halves of
  exclusion, between threads and between processes, keep one promise.

### The list of identifiers

`PortRegistryProofs`, for all threads, names, identifiers and sequences of candidates:

- `TypeCorrect`. `TypeOK` needs that every reference (head, `next`, cursors, what clients
  hold) leads to an identifier that has been constructed, and that a scan's cursor stays
  within the candidates.
- `OneOpen` (`OneOpenPerDevice`) rests on the lock file and not on the list: `Locked` says that
  the lock file of an open port, or of one about to be opened, is that of its identifier, or of
  the thread that is testing the device; `Reserved` that an identifier is reserved for one thread
  at most. Hence two identifiers of one device, which the rescan may leave behind, do no harm
  to exclusion.
- `RescanKeepsIdentifiers` (`RescanRestores`) needs the shape of the list at each turn of a rescan.
  `Listed` says that it is a finite chain without a cycle and what is in it: while candidates are
  tried, new identifiers only, whose names differ and are among the candidates tried so far
  (`Built`); while the list is walked, identifiers that clients know already up to `prevPort`, if
  there were any of the name, and new ones from `curPort` on (`Walked`). The list of before, which a
  scan without `Sync` may have left in any shape, takes no part.
  Hypothesis `NoNameTwice`: no candidate is tried twice. That is so for a
  listing of a directory; the property `ac.bali.serial.SerialPorts` may name a port twice, and then the
  restored list is a cycle (`PortRegistryTwice`, section 5).

### An open port

`PortMonitorProofs`, for any application threads, monitor threads, listeners and
assignment of calls:

- `TypeCorrect`; `IOLockedCounts` (`IOLockedExact`): a thread is counted once, and once more while it is in
  `read(byte[])`. `CountInv` adds that the set that is counted is
  finite, and `CallInv` that a thread is remembered as inside `close` or `flush` only at the places
  of the calls these make (`removeEventListener`; a listener that closes the port), so that no
  call is counted twice or forgotten on its return.
- `ClosesOnce` (`ClosedOnce`): `CloseInv` says that one thread at most has claimed `closeLock`, and
  that whoever is on the way to `nativeClose` (or may still get there, the lock being free
  and `fd` set) finds the file open.
- `OneEventLoop` (`OneMonitor`) and `RemovedListenerRests` (`LoopRunsCurrentListener`), with the hypothesis
  `OneController(c)`: one thread calls `addEventListener`, `removeEventListener`, `notifyOn` and `close`, the
  others read, write and flush, listeners return within `join(3000)`, and no thread is
  interrupted. It is what the run `monitor` assumes, and both properties are false without it
  (section 3). The invariant `OneInv` follows the controlling thread through each of its calls: at
  each of its places it says which loops are alive (`Lives`), which is being started (`Starts`), which
  are in `master_index` (`Listed`), and which listener a live loop calls (`Listens`).

`SerialReadProofs`, for all lengths, thresholds, timeouts and setting threads:

- `ReadsStayWithinArray` (`WithinArray`). The strengthening `ReadInv` follows the count of
  bytes from the place where `read` clips it to the threshold (which may have changed
  since `read` found it set) through the rounds of `read_byte_array`, where `bytes` and
  `left` add up to what was asked for, and through the terminated read, which asks byte
  by byte and stops before `Minimum`.
- `TypeCorrect`: VMIN and VTIME are bytes whatever is set.
- `UntimedReadsAreFull` (`UntimedReadFull`): unless the device hangs up, every round of a read without a timeout gets a byte at
  least, so that the rounds left and the bytes left decrease together (`RoundsCount`).
- `SettingsArrive` (`SettingsAgree`), with the hypothesis `OneSetter`: of two setters each may hand the
  terminal a field that the other has replaced.

`SerialEventsProofs`, for any finite set of ports and any `Wrap`:

- `TypeCorrect`, and `EventsAreExact` (`EventsExact`): `Told` says that what was counted at the start and what
  the listener has been told add up, modulo `Wrap`, to what the loop has seen, and that
  `omflags` is what it has heard.
- `LoopIsFound` (`LoopFound`): as long as no two changes of the list have overlapped there is a
  sequence of structs whose pointers are the list (`Chain`), and what a changing thread has read
  of its neighbours is still so. A struct whose pointers are not set yet is the last of the sequence, so that
  a search finds every loop that is listed before it comes to the garbage behind.
- `ListIsAQueue` (`ListIsQueue`): from `Chain`, the sequence that the pointers spell as far as they are set (`Order`) is changed by
  `Link` and `Unlink` only, and by these as `EventLoops` says. `WalkFollows` says that a walk goes along the sequence, and ends with it
  if the last struct's next is set. `Threaded` is what is needed of the pointers for
  `Order` to be read off them (`OrderIs`), before a step and after it.
- `ListIsAQueue` of `PortMonitorProofs`: the sequence that `PortMonitor` has for the list takes steps of
  `EventLoops` only, for any callers. `QueueInv` says that a loop is in it once and only while it runs;
  the condition that no two changes overlap is not needed there, `PortMonitor` takes each as one step.

`PortParametersProofs`, for all parameters, flow modes, baud bases, characters and threads:

- `TypeCorrect`, `LinesAreKept` (`LinesKept`), `SettingsAreReported` (`SettingsReported`) and `RateIsReported` (`RateReported`). The invariant
  says what each call's copy is worth at each of its places (`Held`) and which parameters the
  device agrees with between the write of the termios and the assignment of the fields
  (`Reported`, `Timed`). It rests on lemmas about the conversions: that they change their own
  bits only, and that converting to a speed code and back gives the rate, for every rate
  and not only for the run's. `Driven` says that the lines are what was asked for while no call
  has written over another's word, which for the hang-ups of
  `tcsetattr` rests on `Timed`, by which the device's speed is that of the fields.

### Pre-opened ports

`PreopenedPortsProofs`, for any threads, devices, descriptors and calls and any finite `Nodes`:

- `TypeCorrect`: what is read from freed memory has its type, too, and a node without a
  name is never live.
- `OpenPortAlone` (`OpenPortExclusive`): `Locks` is the exclusion of the lock files within the process, and
  `Owners` says that each descriptor belongs to one live node, one call or one open port. It
  holds however broken the list is, with `Reuse` and all, until a node is `reborn`: a thread
  that has found a node which is freed and then malloc'ed for another device takes that
  device's descriptor's node out and goes on with a descriptor of its own that others have.
- `ListIsSound` (`ListSound`), `NoDescriptorLost` (`DescriptorsKept`) and `PresetIsKept` (`PresetKept`), all while the list is intact.
  `Shape` says what an intact list is: at most two nodes, linked both ways, and next to it the one
  node that a call is about to append (`Linked`, `Alone`); and a call that has taken a device has
  no rival and no node of it in the list (`Apart`). A list of more than two nodes cannot be
  intact: appending the third moves the head behind the first. `ReachedShort` says
  what a walk finds in such a list.

### Windows

`WindowsPortsProofs`, for any threads and calls, any finite set of ports (`PortsFinite`), and any
parameters with a natural number as speed (`ParamsAccepted`):

- `TypeCorrect` and `PortsAreExact` (`PortsExact`). `Calls` says that a port is being opened by one thread at
  most and has no other user then; `ListInv` that the list is sorted by descriptors, that a descriptor which a call
  has chosen and not yet inserted is in no entry, that the entry from which `add_port` will walk is the head
  still or no entry any more (`Chosen`: nothing is inserted meanwhile, so that a walk from it is a walk from the head), and that entries are exactly those of the ports that are open,
  being opened, or left behind by a failed call. That `get_free_fd` finds a free descriptor, and none beyond the number of
  ports, is `FreshFd` and `FreeFd`.
- `SettingsAreKept` (`SettingsKept`). `Settings` says that each DCB is what some termios translates to, which is not the port's own after
  half a `tcsetattr`, and that the rate in it comes back unchanged; `Kept` that
  the termios and the DCB of an open port have the settings asked for last, but for those that `half` names (`Agree`).
  `tcgetattr` then mixes the two words, and `GotWord` says what comes out: the flags are the DCB's, sizes and speed codes both or'ed. The core are lemmas about the
  translations: or'ed speed codes stay within `CBAUD` and have the bits of both (`OredBits`, `OredWithin`), also
  those of two different speeds, which still go to the DCB and back (`Mixed`, `MixedBack`); each rate of
  the tables has one code and comes back as the same one (`SpeedBack`), and translating twice is
  translating once (`FlagsTwice`, `FlowTwice`).

### How far the prover goes

Walks along pointers (`Walk` of `PreopenedPorts` and `SerialEvents`, `Chain` of `PortRegistry`) are recursive
functions. That they exist and what they reach is proved by induction: the lemma `Induction` of the proof
modules states it for a set of numbers, from the well-foundedness of `<` on `Nat`.

Only model-checked: all liveness properties (`LeaseImplemented`'s second half,
`LockReleasedOrLeaked`, `CloseReturns`, `StaleRemoved`, `ReadsReturn`, `DataReported`), which are outside the prover's reach
under fairness.

What the attempts to prove have changed in the models. An invariant that is not
inductive is a state that the instance was too small for:

- The pre-opened list with five calls and three nodes never has time to give a freed node to another
  device while a thread is about to take it out. `OpenPortExclusive` claimed that an open port's descriptor
  is its own whatever happens; the proof failed at `Add`. The flaw `reborn` now marks this case.
- `PortParameters` with rates other than the run's. Rate 4096 is no speed of Linux but the value of
  `CBAUDEX`, and broke `TypeOK`: `Speeds` has its image now. Rate 15 is the code of 38400, which `cfsetispeed`
  accepts: the divisor applies although nobody asked for 38400. `RateReported` says so, and the run
  has a set of parameters with it.
- `MonEnd` of `PortMonitor` removed every entry of a thread from `master_index`; the code unlinks one.
- The restoration of `PortRegistry` with a name that is tried twice (`NoNameTwice`).
- `WindowsTermios` ors words as sums of their bits, of which `CBAUD` has six, and not with an operator on bits
  that the prover has no theory for.

## 5. What the results mean for a maintainer

- `CommPortIdentifier.open` is right about exclusion for any number of threads, and it
  owes this to `commport` being reset inside `internalClosePort`'s critical section.
  The price of firing events outside the monitor is that `PORT_UNOWNED` of one owner may
  reach a listener after `PORT_OWNED` of the next; no event is lost.
- A thread waiting in `open` is not notified when another thread's open *fails*
  (no `notifyAll` in the `finally` block); it goes on at its timeout. Hence the
  fairness of `Expire` is needed, and a timeout of hours is one.
- `close()` is safe against concurrent closers, but a listener of
  `OUTPUT_BUFFER_EMPTY` that closes the port waits for the `flush()` it is called from
  (`FlushCallsClose`). `CloseReturns` says under which conditions `close()` ends.
- `removeEventListener` waits for the event loop, and not for a listener that `flush()` runs: an application that
  frees what its listener uses must not flush while it removes it. Of two threads that remove
  the listener at once, one may search for ever.
- A read with a timeout ends, whatever thresholds are set. A threshold without a
  timeout holds up every read, those of fewer bytes too, because it is the terminal that
  waits for it.
- The settings of a port are safe against refused calls, but only as long as its setters do not
  overlap: `setFlowControlMode` and the line setters are not synchronized, and
  `setSerialPortParams` is synchronized with itself only. 38400 is set as a custom speed; with
  `ASYNC_SPD_CUST` the divisor decides what it is.
- The pre-opened list works as its comment says while at most two ports are in it and the
  first of them is opened last; a third entry cuts off the first, and taking the first of two out leaves
  the head on freed memory
  (`flaws`). Even a broken list does not hand out an open port, because freeing a node twice ends
  the process first, unless the freed memory has become another device's node in between (`reborn`). A query of a pre-opened port uses it up.
- A port that `ac.bali.serial.SerialPorts` names twice makes the second `getPortIdentifiers` link an
  identifier to itself, and every later search for another name runs for ever inside `Sync`.
- Opening and removing listeners on several ports at once may lose an event loop from
  `master_index`; `close()` of that port then searches for ever (`LoopFound` needs `~raced`).
- A listener that asks for `OUTPUT_BUFFER_EMPTY` on a driver without `TIOCSERGETLSR` (some USB
  adapters) hears of nothing else any more (`DataReported`).
- On Windows, opening two ports at once from two threads may cut the list of ports, and
  closing a port while another is being opened may leave it open, or make the other's `add_port` walk in freed
  memory (`PortsExact`). A setter that fails at `SetCommTimeouts` leaves the line other than the getters say, until the
  same setter succeeds; it damages no other setting (`SettingsKept`).
- A `setSerialPortParams` with speed 0 drops DTR and RTS, and the next one raises both, whatever `setDTR` and
  `setRTS` have set before (`LinesKept`).
- Seen while modelling, and outside every property: `nativeStaticGetStopBits` compares with `CS5`,
  which is 0, and so never reports 1.5; `nativeSetUartType`, `nativeSetLowLatency`,
  `nativeSetCallOutHangup` and their getters are declared in `RXTXPort` and implemented nowhere.
- The lock files exclude as long as no process dies. The removal of a stale file is
  where two openers can both succeed.

## 6. Disagreements between the code and its comments

Two are runs, which TLC ends with a counterexample:

- `forgotten`: the rescan is commented as keeping identifiers that clients hold; the
  identifier of an open port is dropped, and the port cannot be released by `close()`.
- `stale_lock`: an application that opens a port in use is promised
  `PortInUseException`; two processes that find the same stale file can both open it.

The others have a configuration each, with a property that TLC finds violated:

- `PortMonitorDescriptor`: `IOLocked` is commented "dont close the file while accessing the fd"; a
  read tests `fd`, and counts itself only afterwards, so `close()` can run in between
  (`DescriptorGuarded`).
- `PortMonitorLeak`: `waitForTheNativeCodeSilly` "loops once or twice every time"; a `notifyOn*`
  after `removeEventListener` throws with `MonitorThreadLock` set, and every later caller
  loops for ever (`LockReleased`).
- `PortMonitorFlags`: `notifyOnDataAvailable(true)` during a read is undone on the
  native side when the read writes back the flag it had saved (`NotificationKept`).
- `SerialReadThreshold`: a read with a threshold and no timeout "blocks until either threshold # of
  bytes or len bytes, whichever was lower"; VMIN is the threshold, so `SELECT` goes on
  waiting when the lower number of bytes has arrived, in `read()` of one byte too (`ServedReadReturns`).
- `PortParametersDivisor`: `nativeSetDivisor` is commented "set the Divisor for custom speeds" and
  never uses its argument (`DivisorSet`).
- `PreopenedPortsQuery`: `nativeStaticIsRTS` is commented "check status of RTS of preopened ports";
  checking takes the port out of the list, and its settings are lost to `open` (`QueryOnlyChecks`).

## 7. Plan

Done, in this order: `PortLease` and `PortOwnership` with their proofs; `PortMonitor`;
`PortRegistry`; `LockFile` with its proofs; `SerialRead` with its first theorem;
`TermiosCodes` and `PortParameters`; `PreopenedPorts`; `SerialEvents`; `WindowsTermios` and
`WindowsPorts`; then the theorems of section 4 about each of them; `EventLoops` and the lease of
`LockFile`. What could follow:

1. Action properties that the invariants of section 4 already imply, such as that a rescan
   replaces an identifier by the one that clients know and by no other.
2. The liveness properties, with a prover for fairness.
3. `serial_read` and `serial_write` of the Windows build, as an implementation of `SerialRead`'s terminal.

## 8. Not modelled, and why

- **Device names per operating system** (`registerScannedPorts`, `getValidPortPrefixes`):
  long tables of strings; `Candidates` stands for their result.
- **UUCP lock files, foreign lock directories, the group check**: compile-time
  alternatives, or answers that the code ignores.
- **How many bytes a write takes**: `writeArray` stops after a short write and reports
  success; nothing in the code or its comments says what it should do.
- **What the static queries return, break signals, buffer sizes**: single calls that keep nothing.
- **Windows' `serial_read`, `serial_write`, `serial_select`, `ioctl`, `fcntl`**: they emulate blocking I/O over
  overlapped I/O, and most of what they do is the operating system's.
- **The drain thread** of builds without `TIOCSERGETLSR`.
- **The native library's loader and `NRSerialPort`**: a few statements each, with one or two flags.
- **Android**: a separate implementation, thin wrappers around a file descriptor.
- **glibc symbol fix-ups, build scripts, packaged libraries, logging and version
  classes**: no behaviour that a property would be about.
