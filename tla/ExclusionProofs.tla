-------------------------- MODULE ExclusionProofs --------------------------
(***************************************************************************)
(* Proofs about what keeps a port to one user: CommPortIdentifier between   *)
(* the threads of a process (PortOwnership, for any set of threads), and    *)
(* the lock file between processes (LockFile, for any set of processes).    *)
(* Both are shown to be the lease of PortLease.                             *)
(*                                                                         *)
(* TypeOK and OwnershipAgrees are inductive together; mutual exclusion and  *)
(* the step simulation of PortLease follow from them.  LockFile has two     *)
(* inductive invariants, InUseInv and ExclusionInv, on top of its types.    *)
(***************************************************************************)
EXTENDS PortOwnership, LockFile, FiniteSetTheorems, TLAPS
-----------------------------------------------------------------------------
(* The threads of a process: CommPortIdentifier.open and CommPort.close. *)

(* The inductive invariant.  SingleOwner alone is not inductive: that a     *)
(* reservation is exclusive rests on Owner naming the thread that uses the  *)
(* port, and that a granted port is the caller's own on commport being null *)
(* whenever the identifier is free or newly reserved.                       *)
IInv == TypeOK /\ OwnershipAgrees

LEMMA InitInv == Init => IInv
BY NullIsNoThread DEF Init, IInv, TypeOK, Places, OwnershipAgrees, Reserving

LEMMA StepInv == IInv /\ [Next]_vars => IInv'
<1> SUFFICES ASSUME IInv, [Next]_vars PROVE IInv'
  OBVIOUS
<1> USE NullIsNoThread DEF IInv, TypeOK, Places, OwnershipAgrees, Reserving, Goto
<1>1. CASE UNCHANGED vars
  BY <1>1 DEF vars
<1>0. ASSUME NEW t \in Threads, Take(t), UNCHANGED <<commport, ports, timedOut, interrupted, heard>>,
             waitSet' \in SUBSET Threads
      PROVE  IInv'
  <2> USE DEF Take
  <2>1. TypeOK'
    BY <1>0
  <2>2. commport = null /\ ports = {} /\ \A u \in Threads : ~Reserving(u)
    BY <1>0
  <2>3. \A u \in Threads : u # t => pc'[u] = pc[u]
    BY <1>0
  <2>4. OwnershipAgrees'
    BY <1>0, <2>1, <2>2, <2>3
  <2>5. QED BY <2>1, <2>4
<1>2. ASSUME NEW t \in Threads, Open(t) PROVE IInv'
  <2>1. CASE Take(t)
    BY <1>2, <2>1, <1>0 DEF Open, Take
  <2>2. CASE ~Available
    BY <1>2, <2>2 DEF Open, Take
  <2>3. QED BY <2>1, <2>2, <1>2 DEF Open
<1>3. ASSUME NEW t \in Threads, Request(t) PROVE IInv'
  BY <1>3 DEF Request
<1>4. ASSUME NEW t \in Threads, Check(t) PROVE IInv'
  <2>1. CASE Take(t)
    BY <1>4, <2>1, <1>0 DEF Check, Take
  <2>2. CASE ~Available
    BY <1>4, <2>2 DEF Check, Take
  <2>3. QED BY <2>1, <2>2, <1>4 DEF Check
<1>5. ASSUME NEW t \in Threads, Wake(t) PROVE IInv'
  BY <1>5 DEF Wake
<1>6. ASSUME NEW t \in Threads, Refuse(t) PROVE IInv'
  BY <1>6 DEF Refuse
<1>7. ASSUME NEW t \in Threads, GetCommPort(t) PROVE IInv'
  BY <1>7 DEF GetCommPort
<1>8. ASSUME NEW t \in Threads, AnnounceOwned(t) PROVE IInv'
  BY <1>8 DEF AnnounceOwned
<1>9. ASSUME NEW t \in Threads, Unreserve(t) PROVE IInv'
  BY <1>9 DEF Unreserve
<1>10. ASSUME NEW t \in Threads, Close(t) PROVE IInv'
  BY <1>10 DEF Close, InternalClosePort
<1>11. ASSUME NEW t \in Threads, NEW h \in Threads, Revoke(t, h) PROVE IInv'
  BY <1>11 DEF Revoke, InternalClosePort
<1>12. ASSUME NEW t \in Threads, AnnounceUnowned(t) PROVE IInv'
  BY <1>12 DEF AnnounceUnowned
<1>13. ASSUME NEW t \in Threads, Expire(t) PROVE IInv'
  BY <1>13 DEF Expire
<1>14. ASSUME NEW t \in Threads, Interrupt(t) PROVE IInv'
  BY <1>14 DEF Interrupt
<1>15. ASSUME NEW t \in Threads, ClearInterrupt(t) PROVE IInv'
  BY <1>15 DEF ClearInterrupt
<1>16. QED
  BY <1>1, <1>2, <1>3, <1>4, <1>5, <1>6, <1>7, <1>8, <1>9, <1>10, <1>11,
     <1>12, <1>13, <1>14, <1>15 DEF Next, Run

LEMMA InvHolds == Spec => []IInv
BY InitInv, StepInv, PTL DEF Spec

(* Type correctness: Owner and commport are always a thread or null, and    *)
(* every thread is at a known place of open() or close().                   *)
THEOREM TypeCorrect == Spec => []TypeOK
<1>1. IInv => TypeOK
  BY DEF IInv
<1>2. QED BY <1>1, InvHolds, PTL

(* Owner, commport and Available agree in every state, for every order of   *)
(* the critical sections and the unsynchronised code between them.          *)
THEOREM FieldsAgree == Spec => []OwnershipAgrees
<1>1. IInv => OwnershipAgrees
  BY DEF IInv
<1>2. QED BY <1>1, InvHolds, PTL

(* Mutual exclusion: no two threads are opening or holding the same port.   *)
THEOREM OneOwner == Spec => []SingleOwner
<1>1. IInv => SingleOwner
  BY NullIsNoThread DEF IInv, TypeOK, OwnershipAgrees, SingleOwner, Uses, Reserving
<1>2. QED BY <1>1, InvHolds, PTL
-----------------------------------------------------------------------------
(* The count of events.  A step either leaves the count, the announcement   *)
(* and the closing threads alone, or moves one of the three to another.     *)

LEMMA ClosingIsFinite == IsFiniteSet(Closing) /\ Cardinality(Closing) \in Nat
<1>1. IsFiniteSet(Closing)
  BY ThreadsFinite, FS_Subset DEF Closing
<1>2. QED BY <1>1, FS_CardinalityType

LEMMA StepBalanced == IInv /\ EventsBalanced /\ [Next]_vars => EventsBalanced'
<1> SUFFICES ASSUME IInv, EventsBalanced, [Next]_vars PROVE EventsBalanced'
  OBVIOUS
<1>a. CASE heard' = heard /\ Announced' = Announced /\ Closing' = Closing
  BY <1>a DEF EventsBalanced
<1>1. CASE UNCHANGED vars
  BY <1>1, <1>a DEF vars, Announced, Closing
<1>b. ASSUME NEW t \in Threads, t \notin Closing, Closing' = Closing \cup {t},
             Announced, ~Announced', heard' = heard
      PROVE  EventsBalanced'
  <2>1. Cardinality(Closing') = Cardinality(Closing) + 1
    BY <1>b, ClosingIsFinite, FS_AddElement
  <2>2. QED BY <1>b, <2>1, ClosingIsFinite DEF EventsBalanced
<1>c. ASSUME NEW t \in Threads, t \in Closing, Closing' = Closing \ {t},
             Announced' = Announced, heard' = heard - 1
      PROVE  EventsBalanced'
  <2>1. Cardinality(Closing') = Cardinality(Closing) - 1
    BY <1>c, ClosingIsFinite, FS_RemoveElement
  <2>2. QED BY <1>c, <2>1, ClosingIsFinite DEF EventsBalanced, IInv, TypeOK
<1> USE NullIsNoThread DEF IInv, TypeOK, Places, OwnershipAgrees, Reserving, Goto,
                           Announced, Closing
<1>2. ASSUME NEW t \in Threads, Open(t) PROVE EventsBalanced'
  BY <1>2, <1>a DEF Open, Take
<1>3. ASSUME NEW t \in Threads, Request(t) PROVE EventsBalanced'
  BY <1>3, <1>a DEF Request
<1>4. ASSUME NEW t \in Threads, Check(t) PROVE EventsBalanced'
  BY <1>4, <1>a DEF Check, Take
<1>5. ASSUME NEW t \in Threads, Wake(t) PROVE EventsBalanced'
  BY <1>5, <1>a DEF Wake
<1>6. ASSUME NEW t \in Threads, Refuse(t) PROVE EventsBalanced'
  BY <1>6, <1>a DEF Refuse
<1>7. ASSUME NEW t \in Threads, GetCommPort(t) PROVE EventsBalanced'
  BY <1>7, <1>a DEF GetCommPort
<1>8. ASSUME NEW t \in Threads, AnnounceOwned(t) PROVE EventsBalanced'
  <2>1. ~Announced /\ Announced' /\ Closing' = Closing /\ heard' = heard + 1
    BY <1>8 DEF AnnounceOwned
  <2>2. QED BY <2>1, ClosingIsFinite DEF EventsBalanced
<1>9. ASSUME NEW t \in Threads, Unreserve(t) PROVE EventsBalanced'
  BY <1>9, <1>a DEF Unreserve
<1>10. ASSUME NEW t \in Threads, Close(t) PROVE EventsBalanced'
  <2>1. t \notin Closing /\ Closing' = Closing \cup {t}
    BY <1>10 DEF Close
  <2>2. Announced /\ ~Announced' /\ heard' = heard
    BY <1>10 DEF Close, InternalClosePort
  <2>3. QED BY <2>1, <2>2, <1>b
<1>11. ASSUME NEW t \in Threads, NEW h \in Threads, Revoke(t, h) PROVE EventsBalanced'
  <2>1. t \notin Closing /\ Closing' = Closing \cup {t}
    BY <1>11 DEF Revoke
  <2>2. Announced /\ ~Announced' /\ heard' = heard
    BY <1>11 DEF Revoke, InternalClosePort
  <2>3. QED BY <2>1, <2>2, <1>b
<1>12. ASSUME NEW t \in Threads, AnnounceUnowned(t) PROVE EventsBalanced'
  <2>1. t \in Closing /\ Closing' = Closing \ {t} /\ heard' = heard - 1
    BY <1>12 DEF AnnounceUnowned
  <2>2. Announced' = Announced
    BY <1>12 DEF AnnounceUnowned
  <2>3. QED BY <2>1, <2>2, <1>c
<1>13. ASSUME NEW t \in Threads, Expire(t) PROVE EventsBalanced'
  BY <1>13, <1>a DEF Expire
<1>14. ASSUME NEW t \in Threads, Interrupt(t) PROVE EventsBalanced'
  BY <1>14, <1>a DEF Interrupt
<1>15. ASSUME NEW t \in Threads, ClearInterrupt(t) PROVE EventsBalanced'
  BY <1>15, <1>a DEF ClearInterrupt
<1>16. QED
  BY <1>1, <1>2, <1>3, <1>4, <1>5, <1>6, <1>7, <1>8, <1>9, <1>10, <1>11,
     <1>12, <1>13, <1>14, <1>15 DEF Next, Run

(* No event is lost, duplicated or fired for a failed open: the listener's  *)
(* count is the port's state plus the closes still to be announced.         *)
THEOREM EventsAreBalanced == Spec => []EventsBalanced
<1>1. Init => EventsBalanced
  <2> SUFFICES ASSUME Init PROVE EventsBalanced
    OBVIOUS
  <2>1. Closing = {}
    BY DEF Init, Closing
  <2>2. QED BY <2>1, FS_EmptySet DEF Init, Announced, EventsBalanced
<1>2. QED BY <1>1, StepBalanced, InvHolds, PTL DEF Spec
-----------------------------------------------------------------------------
(* The step simulation of PortLease. *)

LEMMA InitRefines == Init => Lease!Init
BY DEF Init, Lease!Init

LEMMA StepRefines == IInv /\ [Next]_vars => [Lease!Next]_(Lease!vars)
<1> SUFFICES ASSUME IInv, [Next]_vars PROVE [Lease!Next]_(Lease!vars)
  OBVIOUS
<1> DEFINE holder == IF Available THEN null ELSE Owner
           request == [t \in Threads |->
                         IF pc[t] \in {"idle", "closed"} THEN "none"
                         ELSE IF Reserving(t) THEN "reserved" ELSE "waiting"]
<1>a. CASE holder' = holder /\ request' = request
  BY <1>a DEF Lease!vars
<1>1. CASE UNCHANGED vars
  BY <1>1, <1>a DEF vars, Reserving
<1> USE NullIsNoThread DEF IInv, TypeOK, Places, OwnershipAgrees, Reserving, Goto
<1>2. ASSUME NEW t \in Threads, Open(t) PROVE Lease!Next
  <2>1. CASE Take(t)
    <3>1. Lease!AskFree(t)
      BY <1>2, <2>1 DEF Open, Take, Lease!AskFree
    <3>2. QED BY <3>1 DEF Lease!Next
  <2>2. CASE ~Available
    <3>1. pc[t] = "idle" /\ pc' = [pc EXCEPT ![t] = "requesting"]
      BY <1>2, <2>2 DEF Open, Take
    <3>2. request[t] = "none" /\ request' = [request EXCEPT ![t] = "waiting"]
      BY <3>1
    <3>3. holder # null /\ holder' = holder
      BY <1>2, <2>2 DEF Open, Take
    <3>4. Lease!AskBusy(t)
      BY <3>2, <3>3 DEF Lease!AskBusy
    <3>5. QED BY <3>4 DEF Lease!Next
  <2>3. QED BY <2>1, <2>2, <1>2 DEF Open
<1>3. ASSUME NEW t \in Threads, Request(t) PROVE [Lease!Next]_(Lease!vars)
  <2>1. CASE pc'[t] = "checking"
    BY <1>3, <2>1, <1>a DEF Request
  <2>2. CASE pc'[t] = "idle"
    <3>1. Lease!Refuse(t)
      BY <1>3, <2>2 DEF Request, Lease!Refuse
    <3>2. QED BY <3>1 DEF Lease!Next
  <2>3. QED BY <2>1, <2>2, <1>3 DEF Request
<1>4. ASSUME NEW t \in Threads, Check(t) PROVE [Lease!Next]_(Lease!vars)
  <2>1. CASE Take(t)
    <3>1. Lease!Reserve(t)
      BY <1>4, <2>1 DEF Check, Take, Lease!Reserve
    <3>2. QED BY <3>1 DEF Lease!Next
  <2>2. CASE ~Available
    BY <1>4, <2>2, <1>a DEF Check, Take
  <2>3. QED BY <2>1, <2>2, <1>4 DEF Check
<1>5. ASSUME NEW t \in Threads, Wake(t) PROVE [Lease!Next]_(Lease!vars)
  BY <1>5, <1>a DEF Wake
<1>6. ASSUME NEW t \in Threads, Refuse(t) PROVE Lease!Next
  <2>1. Lease!Refuse(t)
    BY <1>6 DEF Refuse, Lease!Refuse
  <2>2. QED BY <2>1 DEF Lease!Next
<1>7. ASSUME NEW t \in Threads, GetCommPort(t) PROVE [Lease!Next]_(Lease!vars)
  BY <1>7, <1>a DEF GetCommPort
<1>8. ASSUME NEW t \in Threads, AnnounceOwned(t) PROVE Lease!Next
  <2>1. Lease!Grant(t)
    BY <1>8 DEF AnnounceOwned, Lease!Grant
  <2>2. QED BY <2>1 DEF Lease!Next
<1>9. ASSUME NEW t \in Threads, Unreserve(t) PROVE Lease!Next
  <2>1. Lease!Abandon(t)
    BY <1>9 DEF Unreserve, Lease!Abandon
  <2>2. QED BY <2>1 DEF Lease!Next
<1>10. ASSUME NEW t \in Threads, Close(t) PROVE Lease!Next
  <2>1. Lease!Release(t)
    BY <1>10 DEF Close, InternalClosePort, Lease!Release
  <2>2. QED BY <2>1 DEF Lease!Next
<1>11. ASSUME NEW t \in Threads, NEW h \in Threads, Revoke(t, h) PROVE Lease!Next
  <2>1. Lease!Release(h)
    BY <1>11 DEF Revoke, InternalClosePort, Lease!Release
  <2>2. QED BY <2>1 DEF Lease!Next
<1>12. ASSUME NEW t \in Threads, AnnounceUnowned(t) PROVE [Lease!Next]_(Lease!vars)
  <2>1. CASE pc[t] = "closed" \/ pc'[t] = "checking"
    BY <1>12, <2>1, <1>a DEF AnnounceUnowned
  <2>2. CASE pc[t] = "revoked" /\ pc'[t] = "idle"
    <3>1. Lease!Refuse(t)
      BY <1>12, <2>2 DEF AnnounceUnowned, Lease!Refuse
    <3>2. QED BY <3>1 DEF Lease!Next
  <2>3. QED BY <2>1, <2>2, <1>12 DEF AnnounceUnowned
<1>13. ASSUME NEW t \in Threads, Expire(t) PROVE [Lease!Next]_(Lease!vars)
  BY <1>13, <1>a DEF Expire
<1>14. ASSUME NEW t \in Threads, Interrupt(t) PROVE [Lease!Next]_(Lease!vars)
  BY <1>14, <1>a DEF Interrupt
<1>15. ASSUME NEW t \in Threads, ClearInterrupt(t) PROVE [Lease!Next]_(Lease!vars)
  BY <1>15, <1>a DEF ClearInterrupt
<1>16. QED
  BY <1>1, <1>2, <1>3, <1>4, <1>5, <1>6, <1>7, <1>8, <1>9, <1>10, <1>11,
     <1>12, <1>13, <1>14, <1>15 DEF Next, Run

(* The code's protocol implements the abstract lease: a port passes from    *)
(* one thread to another only through a close or a failed open.             *)
THEOREM ImplementsLease == Spec => Lease!Safety
BY InitRefines, StepRefines, InvHolds, PTL DEF Spec, Lease!Safety
-----------------------------------------------------------------------------
(* The processes of a machine: fhs_lock, is_device_locked and fhs_unlock. *)

(* Every step preserves the types of the variables. *)
LEMMA LockTypeStep == LockTypeOK /\ [LockNext]_lockVars => LockTypeOK'
<1> SUFFICES ASSUME LockTypeOK, [LockNext]_lockVars PROVE LockTypeOK'
    OBVIOUS
<1> USE DEF LockTypeOK, Stages
<1>1. CASE UNCHANGED lockVars
    BY <1>1 DEF lockVars
<1>2. ASSUME NEW p \in Procs, Stat(p) PROVE LockTypeOK'
    BY <1>2 DEF Stat, Move
<1>3. ASSUME NEW p \in Procs, ReadPid(p) PROVE LockTypeOK'
    <2>1. pid' \in [Procs -> Procs \cup {none}]
        BY <1>3 DEF ReadPid
    <2>2. torn' \in BOOLEAN
        BY <1>3 DEF ReadPid
    <2>3. stage' \in [Procs -> Stages]
        BY <1>3 DEF ReadPid, Move
    <2> QED
        BY <2>1, <2>2, <2>3, <1>3 DEF ReadPid
<1>4. ASSUME NEW p \in Procs, Kill(p) \/ UnlinkStale(p) \/ Create(p) PROVE LockTypeOK'
    BY <1>4 DEF Kill, UnlinkStale, Create, Move
<1>5. ASSUME NEW p \in Procs, WritePid(p) \/ OpenDevice(p) \/ CloseDevice(p) PROVE LockTypeOK'
    BY <1>5 DEF WritePid, OpenDevice, CloseDevice, Move
<1>6. ASSUME NEW p \in Procs, CheckLockPid(p) PROVE LockTypeOK'
    BY <1>6 DEF CheckLockPid, Move
<1>7. ASSUME NEW p \in Procs, Unlink(p) \/ Fail(p) \/ Die(p) PROVE LockTypeOK'
    BY <1>7 DEF Unlink, Fail, Die, Move
<1> QED
    BY <1>1, <1>2, <1>3, <1>4, <1>5, <1>6, <1>7 DEF LockNext, Lock, Unlock

(* The variables keep the values that fhs_lock and fhs_unlock can give      *)
(* them.                                                                    *)
THEOREM LockTypeCorrect == LockSpec => []LockTypeOK
<1>1. LockInit => LockTypeOK
    BY DEF LockInit, LockTypeOK, Stages
<1> QED
    BY <1>1, LockTypeStep, PTL DEF LockSpec
-----------------------------------------------------------------------------
(* A process that is past write() has its pid in its file. *)
PidWritten == \A p \in Procs :
  stage[p] \in {"device", "open", "unlock", "remove"} => p \in written

InUseInv == PidWritten /\ LockFileInUse

LEMMA InUseStep == LockTypeOK /\ InUseInv /\ [LockNext]_lockVars => InUseInv'
<1> SUFFICES ASSUME LockTypeOK, InUseInv, [LockNext]_lockVars PROVE InUseInv'
    OBVIOUS
<1> USE NoneIsNoProcess DEF LockTypeOK, InUseInv, PidWritten, LockFileInUse, Keeping, At, Move
<1>1. CASE UNCHANGED lockVars
    BY <1>1 DEF lockVars
<1>2. ASSUME NEW p \in Procs, Stat(p) PROVE InUseInv'
    BY <1>2 DEF Stat
<1>3. ASSUME NEW p \in Procs, ReadPid(p) PROVE InUseInv'
    <2>1. /\ stage[p] = "read"
          /\ stage' = [stage EXCEPT ![p] = "create"] \/ stage' = [stage EXCEPT ![p] = "kill"]
          /\ UNCHANGED <<entry, written, alive, left>>
        BY <1>3 DEF ReadPid
    <2> QED
        BY <2>1
<1>4. ASSUME NEW p \in Procs, Kill(p) PROVE InUseInv'
    BY <1>4 DEF Kill
<1>5. ASSUME NEW p \in Procs, UnlinkStale(p) PROVE InUseInv'
    BY <1>5 DEF UnlinkStale
<1>6. ASSUME NEW p \in Procs, Create(p) PROVE InUseInv'
    BY <1>6 DEF Create
<1>7. ASSUME NEW p \in Procs, WritePid(p) PROVE InUseInv'
    BY <1>7 DEF WritePid
<1>8. ASSUME NEW p \in Procs, OpenDevice(p) \/ CloseDevice(p) PROVE InUseInv'
    BY <1>8 DEF OpenDevice, CloseDevice
<1>9. ASSUME NEW p \in Procs, CheckLockPid(p) PROVE InUseInv'
    <2>1. p \in written
        BY <1>9 DEF CheckLockPid
    <2> QED
        BY <1>9, <2>1 DEF CheckLockPid
<1>10. ASSUME NEW p \in Procs, Unlink(p) PROVE InUseInv'
    BY <1>10 DEF Unlink
<1>11. ASSUME NEW p \in Procs, Fail(p) PROVE InUseInv'
    BY <1>11 DEF Fail
<1>12. ASSUME NEW p \in Procs, Die(p) PROVE InUseInv'
    BY <1>12 DEF Die
<1> QED
    BY <1>1, <1>2, <1>3, <1>4, <1>5, <1>6, <1>7, <1>8, <1>9, <1>10, <1>11, <1>12
    DEF LockNext, Lock, Unlock

(* No live process forgets a lock file, except by failing: the file of the  *)
(* port is one that its process will still remove.                          *)
THEOREM NoLockFileForgotten == LockSpec => []LockFileInUse
<1>1. LockInit => InUseInv
    BY NoneIsNoProcess DEF LockInit, InUseInv, PidWritten, LockFileInUse
<1>2. InUseInv => LockFileInUse
    BY DEF InUseInv
<1> QED
    BY <1>1, <1>2, InUseStep, LockTypeCorrect, PTL DEF LockSpec
-----------------------------------------------------------------------------
(* What excludes: every process between the creation and the removal of its *)
(* file has its file in the directory, and nobody takes a file for stale.   *)
AllLive == alive = Procs /\ ~torn

ExclusionInv ==
  AllLive => \A p \in Procs : /\ stage[p] \in Keeping => entry = p
                              /\ stage[p] # "unlink"
                              /\ stage[p] = "kill" => pid[p] \in Procs

LEMMA ExclusionStep == LockTypeOK /\ ExclusionInv /\ [LockNext]_lockVars => ExclusionInv'
<1> SUFFICES ASSUME LockTypeOK, ExclusionInv, [LockNext]_lockVars, AllLive' PROVE ExclusionInv'
    BY DEF ExclusionInv
<1> USE NoneIsNoProcess DEF LockTypeOK, ExclusionInv, AllLive, Keeping, At, Move
<1>1. CASE UNCHANGED lockVars
    BY <1>1 DEF lockVars
<1>2. ASSUME NEW p \in Procs, Stat(p) PROVE ExclusionInv'
    BY <1>2 DEF Stat
<1>3. ASSUME NEW p \in Procs, ReadPid(p) PROVE ExclusionInv'
    <2>1. ~torn' /\ UNCHANGED <<entry, alive>> /\ AllLive
        BY <1>3 DEF ReadPid
    <2>2. \/ stage' = [stage EXCEPT ![p] = "create"] /\ UNCHANGED pid
          \/ /\ stage' = [stage EXCEPT ![p] = "kill"]
             /\ pid' = [pid EXCEPT ![p] = entry]
             /\ entry \in Procs
        BY <1>3, <2>1 DEF ReadPid
    <2> QED
        BY <2>1, <2>2
<1>4. ASSUME NEW p \in Procs, Kill(p) PROVE ExclusionInv'
    BY <1>4 DEF Kill
<1>5. ASSUME NEW p \in Procs, UnlinkStale(p) PROVE ExclusionInv'
    BY <1>5 DEF UnlinkStale
<1>6. ASSUME NEW p \in Procs, Create(p) PROVE ExclusionInv'
    BY <1>6 DEF Create
<1>7. ASSUME NEW p \in Procs, WritePid(p) \/ OpenDevice(p) \/ CloseDevice(p)
      PROVE ExclusionInv'
    BY <1>7 DEF WritePid, OpenDevice, CloseDevice
<1>8. ASSUME NEW p \in Procs, CheckLockPid(p) PROVE ExclusionInv'
    BY <1>8 DEF CheckLockPid
<1>9. ASSUME NEW p \in Procs, Unlink(p) PROVE ExclusionInv'
    BY <1>9 DEF Unlink
<1>10. ASSUME NEW p \in Procs, Fail(p) PROVE ExclusionInv'
    BY <1>10 DEF Fail
<1>11. ASSUME NEW p \in Procs, Die(p) PROVE FALSE
    BY <1>11 DEF Die
<1> QED
    BY <1>1, <1>2, <1>3, <1>4, <1>5, <1>6, <1>7, <1>8, <1>9, <1>10, <1>11
    DEF LockNext, Lock, Unlock

(* As long as nobody has died and no empty file has been read, the lock     *)
(* file is that of the process that has the port open.                      *)
THEOREM LockFileExcludes == LockSpec => []ExclusiveWhileAllLive
<1>1. LockInit => ExclusionInv
    BY DEF LockInit, ExclusionInv, Keeping
<1>2. ExclusionInv => ExclusiveWhileAllLive
    BY DEF ExclusionInv, ExclusiveWhileAllLive, AllLive, Holds, At, Keeping
<1> QED
    BY <1>1, <1>2, ExclusionStep, LockTypeCorrect, PTL DEF LockSpec

(* Hence no two processes have the port open at once as long as nobody has  *)
(* died and no empty file has been read.                                    *)
COROLLARY ExclusionWhileAllLive == LockSpec => [](AllLive => MutualExclusion)
<1>1. ExclusiveWhileAllLive => (AllLive => MutualExclusion)
    BY DEF ExclusiveWhileAllLive, AllLive, MutualExclusion
<1> QED
    BY <1>1, LockFileExcludes, PTL
-----------------------------------------------------------------------------
(* Every step, while everyone is alive, is a step of the lease: creating    *)
(* the file takes it, the return of open(), with or without success, grants *)
(* it, and fhs_unlock releases it.                                          *)
LEMMA LeaseStep ==
  LockTypeOK /\ ExclusionInv /\ [LockNext]_lockVars /\ AllLive'
    => [FileLease!Next]_(FileLease!vars)
<1> SUFFICES ASSUME LockTypeOK, ExclusionInv, [LockNext]_lockVars, AllLive'
             PROVE  [FileLease!Next]_(FileLease!vars)
    OBVIOUS
<1> DEFINE request == [p \in Procs |-> IF stage[p] \in {"write", "device"} THEN "reserved"
                                                                          ELSE "none"]
<1>a. CASE entry' = entry /\ request' = request
    BY <1>a DEF FileLease!vars
<1>1. CASE UNCHANGED lockVars
    BY <1>1, <1>a DEF lockVars
<1>b. AllLive
    BY DEF AllLive, LockTypeOK, LockNext, Lock, Unlock, Stat, ReadPid, Kill, UnlinkStale, Create,
           WritePid, OpenDevice, CloseDevice, CheckLockPid, Unlink, Fail, Die, lockVars
<1> USE NoneIsNoProcess DEF LockTypeOK, At, Move
<1>c. ASSUME NEW p \in Procs, stage[p] \in {"write", "device"}, entry' = entry,
             \E there \in {"open", "idle"} : stage' = [stage EXCEPT ![p] = there]
      PROVE  FileLease!Next
    <2>1. request[p] = "reserved" /\ request' = [request EXCEPT ![p] = "none"]
        BY <1>c
    <2>2. FileLease!Grant(p)
        BY <1>c, <2>1 DEF FileLease!Grant
    <2> QED
        BY <2>2 DEF FileLease!Next
<1>2. ASSUME NEW p \in Procs, Stat(p) PROVE [FileLease!Next]_(FileLease!vars)
    BY <1>2, <1>a DEF Stat
<1>3. ASSUME NEW p \in Procs, ReadPid(p) PROVE [FileLease!Next]_(FileLease!vars)
    <2>1. /\ stage[p] = "read" /\ entry' = entry
          /\ stage' = [stage EXCEPT ![p] = "create"] \/ stage' = [stage EXCEPT ![p] = "kill"]
        BY <1>3 DEF ReadPid
    <2> QED
        BY <2>1, <1>a
<1>4. ASSUME NEW p \in Procs, Kill(p) PROVE [FileLease!Next]_(FileLease!vars)
    BY <1>4, <1>a DEF Kill
<1>5. ASSUME NEW p \in Procs, UnlinkStale(p) PROVE FALSE
    BY <1>5, <1>b DEF UnlinkStale, ExclusionInv
<1>6. ASSUME NEW p \in Procs, Create(p) PROVE [FileLease!Next]_(FileLease!vars)
    <2>1. CASE entry = none
        <3>1. request[p] = "none" /\ request' = [request EXCEPT ![p] = "reserved"]
            BY <1>6, <2>1 DEF Create
        <3>2. FileLease!AskFree(p)
            BY <1>6, <2>1, <3>1 DEF Create, FileLease!AskFree
        <3> QED
            BY <3>2 DEF FileLease!Next
    <2>2. CASE entry # none
        BY <1>6, <2>2, <1>a DEF Create
    <2> QED
        BY <2>1, <2>2
<1>7. ASSUME NEW p \in Procs, WritePid(p) PROVE [FileLease!Next]_(FileLease!vars)
    BY <1>7, <1>a DEF WritePid
<1>8. ASSUME NEW p \in Procs, OpenDevice(p) PROVE FileLease!Next
    BY <1>8, <1>c DEF OpenDevice
<1>9. ASSUME NEW p \in Procs, CloseDevice(p) PROVE [FileLease!Next]_(FileLease!vars)
    BY <1>9, <1>a DEF CloseDevice
<1>10. ASSUME NEW p \in Procs, CheckLockPid(p) PROVE [FileLease!Next]_(FileLease!vars)
    <2>1. /\ stage[p] = "unlock" /\ entry' = entry
          /\ stage' = [stage EXCEPT ![p] = "remove"] \/ stage' = [stage EXCEPT ![p] = "idle"]
        BY <1>10 DEF CheckLockPid
    <2> QED
        BY <2>1, <1>a
<1>11. ASSUME NEW p \in Procs, Unlink(p) PROVE FileLease!Next
    <2>1. entry = p
        BY <1>11, <1>b DEF Unlink, ExclusionInv, Keeping
    <2>2. request[p] = "none" /\ request' = request
        BY <1>11 DEF Unlink
    <2>3. FileLease!Release(p)
        BY <1>11, <2>1, <2>2 DEF Unlink, FileLease!Release
    <2> QED
        BY <2>3 DEF FileLease!Next
<1>12. ASSUME NEW p \in Procs, Fail(p) PROVE [FileLease!Next]_(FileLease!vars)
    <2>1. CASE stage[p] = "open"
        BY <1>12, <2>1, <1>a DEF Fail
    <2>2. CASE stage[p] \in {"write", "device"}
        BY <1>12, <2>2, <1>c DEF Fail
    <2> QED
        BY <1>12, <2>1, <2>2 DEF Fail
<1>13. ASSUME NEW p \in Procs, Die(p) PROVE FALSE
    BY <1>13 DEF Die, AllLive
<1> QED
    BY <1>1, <1>2, <1>3, <1>4, <1>5, <1>6, <1>7, <1>8, <1>9, <1>10, <1>11, <1>12, <1>13
    DEF LockNext, Lock, Unlock

(* Between processes the port is leased as it is between threads, as long   *)
(* as everyone is alive and no empty file has been read.                    *)
THEOREM LockFileIsALease == LockSpec => LeaseWhileAllLive
<1>1. LockInit => ExclusionInv
    BY DEF LockInit, ExclusionInv, Keeping
<1>2. LockTypeOK /\ ExclusionInv /\ [LockNext]_lockVars
        => [alive' = Procs /\ ~torn' => [FileLease!Next]_(FileLease!vars)]_lockVars
    BY LeaseStep DEF AllLive
<1> QED
    BY <1>1, <1>2, ExclusionStep, LockTypeCorrect, PTL DEF LockSpec, LeaseWhileAllLive
=============================================================================
