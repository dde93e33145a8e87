------------------------------ MODULE LockFile ------------------------------
(***************************************************************************)
(* The lock file by which the processes of a machine keep each other off a  *)
(* serial port: RXTXPort.open and nativeClose with fhs_lock, fhs_unlock and *)
(* the removal of stale lock files in is_device_locked (Linux build).       *)
(*                                                                         *)
(* The directory has at most one entry for the port.  A file is named here  *)
(* for the process that created it; it exists before its process has        *)
(* written its pid into it, and it may be unlinked while it does.  A        *)
(* process that dies leaves its lock file behind.  System calls are atomic; *)
(* nothing else is.  A pid is not used again, and no process opens the port *)
(* on behalf of its parent (check_lock_pid accepts the parent's pid too).   *)
(* No name of this module is one of PortOwnership's: ExclusionProofs extends *)
(* both.                                                                   *)
(***************************************************************************)
EXTENDS FiniteSets

CONSTANTS Procs,    \* the processes; a process stands for its pid
          none,
          Mortal    \* the processes that may die without closing the port

ASSUME NoneIsNoProcess == none \notin Procs
ASSUME MortalProcesses == Mortal \subseteq Procs

VARIABLES
  entry,     \* whose file the directory entry LCK..name leads to, or none
  written,   \* the processes whose file has its pid
  alive,
  stage,     \* where each process is in open and nativeClose
  pid,       \* the pid a process has read from the lock file, or none
  left,      \* the processes that failed and left their file behind
  torn       \* whether a lock file has been read before its pid was written

lockVars == <<entry, written, alive, stage, pid, left, torn>>

(*   idle      the port is not open                                         *)
(*   read      is_device_locked has found a lock file                       *)
(*   kill      it has read the pid in it                                    *)
(*   unlink    kill(pid, 0) said that there is no such process              *)
(*   create    about to open the file with O_CREAT | O_EXCL                 *)
(*   write     has created the file                                         *)
(*   device    fhs_lock has returned 0: open() opens and sets up the device *)
(*   open      open() has returned the file descriptor                      *)
(*   unlock    nativeClose has closed the device                            *)
(*   remove    check_lock_pid found the process's own pid in the file       *)
Stages == {"idle", "read", "kill", "unlink", "create", "write", "device",
           "open", "unlock", "remove"}

LockTypeOK == /\ entry \in Procs \cup {none}
              /\ written \in SUBSET Procs
              /\ alive \in SUBSET Procs
              /\ stage \in [Procs -> Stages]
              /\ pid \in [Procs -> Procs \cup {none}]
              /\ left \in SUBSET Procs
              /\ torn \in BOOLEAN

LockInit == /\ entry = none
            /\ written = {}
            /\ alive = Procs
            /\ stage = [p \in Procs |-> "idle"]
            /\ pid = [p \in Procs |-> none]
            /\ left = {}
            /\ torn = FALSE

At(p, place) == p \in alive /\ stage[p] = place

Move(p, place) == stage' = [stage EXCEPT ![p] = place]
-----------------------------------------------------------------------------
(* open *)

(* check_lock_status: stat(file) in is_device_locked. *)
Stat(p) ==
  /\ At(p, "idle")
  /\ Move(p, IF entry = none THEN "create" ELSE "read")
  /\ UNCHANGED <<entry, written, alive, pid, left, torn>>

(* open and read of the lock file.  If it has gone is_device_locked gives   *)
(* up, which check_lock_status ignores.  An empty file leaves pid_buffer    *)
(* and pid uninitialized: any pid may come of it, none if no process has it.*)
ReadPid(p) ==
  /\ At(p, "read")
  /\ \/ /\ entry = none
        /\ Move(p, "create")
        /\ UNCHANGED <<pid, torn>>
     \/ /\ entry \in written
        /\ pid' = [pid EXCEPT ![p] = entry]
        /\ Move(p, "kill")
        /\ UNCHANGED torn
     \/ /\ entry \in Procs \ written
        /\ \E garbage \in Procs \cup {none} : pid' = [pid EXCEPT ![p] = garbage]
        /\ torn' = TRUE
        /\ Move(p, "kill")
  /\ UNCHANGED <<entry, written, alive, left>>

(* Faulty variant: what kill() says is not looked at. *)
KillIgnored(p) ==
  /\ At(p, "kill")
  /\ Move(p, "create")
  /\ pid' = [pid EXCEPT ![p] = none]
  /\ UNCHANGED <<entry, written, alive, left, torn>>

(* Faulty variant: the result of kill() is taken the wrong way round. *)
KillInverted(p) ==
  /\ At(p, "kill")
  /\ Move(p, IF pid[p] \in alive THEN "unlink" ELSE "create")
  /\ pid' = [pid EXCEPT ![p] = none]
  /\ UNCHANGED <<entry, written, alive, left, torn>>

(* kill(pid, 0): the lock is stale if there is no such process. *)
Kill(p) ==
  /\ At(p, "kill")
  /\ Move(p, IF pid[p] \in alive THEN "create" ELSE "unlink")
  /\ pid' = [pid EXCEPT ![p] = none]
  /\ UNCHANGED <<entry, written, alive, left, torn>>

(* unlink(file): whichever file has the name by now. *)
UnlinkStale(p) ==
  /\ At(p, "unlink")
  /\ entry' = none
  /\ Move(p, "create")
  /\ UNCHANGED <<written, alive, pid, left, torn>>

(* Faulty variant: open(file, O_CREAT | O_WRONLY). *)
CreateOver(p) ==
  /\ At(p, "create")
  /\ entry' = p
  /\ written' = written \ {p}
  /\ left' = left \ {p}
  /\ Move(p, "write")
  /\ UNCHANGED <<alive, pid, torn>>

(* open(file, O_CREAT | O_WRONLY | O_EXCL): PortInUseException if it fails. *)
Create(p) ==
  /\ At(p, "create")
  /\ \/ /\ entry = none
        /\ entry' = p
        /\ written' = written \ {p}
        /\ left' = left \ {p}
        /\ Move(p, "write")
     \/ /\ entry # none
        /\ Move(p, "idle")
        /\ UNCHANGED <<entry, written, left>>
  /\ UNCHANGED <<alive, pid, torn>>

(* write(fd, getpid()): into the file that was created, linked or not. *)
WritePid(p) ==
  /\ At(p, "write")
  /\ written' = written \cup {p}
  /\ Move(p, "device")
  /\ UNCHANGED <<entry, alive, pid, left, torn>>

OpenDevice(p) ==
  /\ At(p, "device")
  /\ Move(p, "open")
  /\ UNCHANGED <<entry, written, alive, pid, left, torn>>
-----------------------------------------------------------------------------
(* nativeClose *)

CloseDevice(p) ==
  /\ At(p, "open")
  /\ Move(p, "unlock")
  /\ UNCHANGED <<entry, written, alive, pid, left, torn>>

(* Faulty variant: the file is removed only if its process is another one. *)
CheckLockPidInverted(p) ==
  /\ At(p, "unlock")
  /\ Move(p, IF entry \in Procs \ {p} THEN "remove" ELSE "idle")
  /\ UNCHANGED <<entry, written, alive, pid, left, torn>>

(* check_lock_pid in fhs_unlock: is it my pid that is in the file?  There   *)
(* too an empty file makes the answer arbitrary.                            *)
CheckLockPid(p) ==
  /\ At(p, "unlock")
  /\ \/ /\ entry \in written \cup {none}
        /\ Move(p, IF entry = p THEN "remove" ELSE "idle")
        /\ UNCHANGED torn
     \/ /\ entry \in Procs \ written
        /\ torn' = TRUE
        /\ Move(p, "remove") \/ Move(p, "idle")
  /\ UNCHANGED <<entry, written, alive, pid, left>>

Unlink(p) ==
  /\ At(p, "remove")
  /\ entry' = none
  /\ Move(p, "idle")
  /\ UNCHANGED <<written, alive, pid, left, torn>>
-----------------------------------------------------------------------------
(* Failures *)

(* write(fd, pid) fails, configure_port fails, or close() is interrupted    *)
(* more than ten times: the function returns and leaves the lock file.      *)
Fail(p) ==
  /\ \E place \in {"write", "device", "open"} : At(p, place)
  /\ left' = left \cup {p}
  /\ Move(p, "idle")
  /\ UNCHANGED <<entry, written, alive, pid, torn>>

(* The process dies, wherever it is. *)
Die(p) ==
  /\ p \in Mortal \cap alive
  /\ alive' = alive \ {p}
  /\ pid' = [pid EXCEPT ![p] = none]
  /\ Move(p, "idle")
  /\ UNCHANGED <<entry, written, left, torn>>
-----------------------------------------------------------------------------
Lock(p) == \/ ReadPid(p) \/ Kill(p) \/ UnlinkStale(p) \/ Create(p) \/ WritePid(p)
           \/ OpenDevice(p)

Unlock(p) == CheckLockPid(p) \/ Unlink(p)

LockNext == \E p \in Procs :
  Stat(p) \/ Lock(p) \/ CloseDevice(p) \/ Unlock(p) \/ Fail(p) \/ Die(p)

LockSpec == LockInit /\ [][LockNext]_lockVars

(* A process that has begun to open or close a port goes on, unless it dies.*)
LockFairSpec == LockSpec /\ \A p \in Procs : WF_lockVars(Lock(p)) /\ WF_lockVars(Unlock(p))
-----------------------------------------------------------------------------
(* Properties *)

(* Where a process is between creating its lock file and unlinking it. *)
Keeping == {"write", "device", "open", "unlock", "remove"}

(* fhs_lock() has returned 0 to p, and p has not closed the port yet. *)
Holds(p) == At(p, "device") \/ At(p, "open")

(* Two processes never have the port open at once. *)
MutualExclusion == \A p, q \in Procs : Holds(p) /\ Holds(q) => p = q

(* "whenever an application tries to open a port in use by another          *)
(* application the PortInUseException will be thrown" (RXTXPort.RXTXPort):  *)
(* it is not when two processes find the same stale file, and one removes   *)
(* the file that the other has just created in its place.  (A lock file     *)
(* that is read before its pid is there breaks exclusion as well, hence the *)
(* condition.)                                                              *)
ExclusiveUnlessTorn == ~torn => MutualExclusion

(* As long as no process has died and no empty lock file has been read, the *)
(* lock file is that of the one process that has the port open, whatever    *)
(* the order in which processes look for stale files, create, read and      *)
(* remove them, and whichever of them fail half-way.                        *)
ExclusiveWhileAllLive ==
  alive = Procs /\ ~torn => \A p \in Procs : Holds(p) => entry = p

(* The lock file of a live process is one that it is still using and will   *)
(* remove, or that it left behind when it failed: neither fhs_unlock nor    *)
(* the loss of the file to another process makes it forget a lock file.     *)
LockFileInUse == entry \in alive \ left => stage[entry] \in Keeping

(* The lock file as a lease between processes: it is held by the process    *)
(* whose file it is, and reserved until open() has returned.                *)
FileLease == INSTANCE PortLease WITH
  Threads <- Procs,
  null <- none,
  holder <- entry,
  request <- [p \in Procs |-> IF stage[p] \in {"write", "device"} THEN "reserved" ELSE "none"]

(* The same promise that CommPortIdentifier keeps between the threads of a  *)
(* process: while everyone is alive and no empty file has been read, the    *)
(* file passes from one process to another only by being unlinked between,  *)
(* and it is not unlinked while its process is still inside open().  A call *)
(* that fails keeps its lease; a refused open() asks for nothing.           *)
LeaseWhileAllLive ==
  [][alive' = Procs /\ ~torn' => [FileLease!Next]_(FileLease!vars)]_lockVars

(* The lock file of a dead process does not survive an attempt to open the  *)
(* port: it is recognized as stale and removed, unless the process that     *)
(* makes the attempt dies too, or the file was never given its pid.         *)
StaleRemoved == \A p, q \in Procs :
  (At(p, "read") /\ entry = q /\ q \in written \ alive) ~> (entry # q \/ p \notin alive)
=============================================================================
