-------------------------- MODULE PortMonitorProofs --------------------------
(***************************************************************************)
(* Proofs about PortMonitor for any number of application threads, monitor  *)
(* threads and listeners, any assignment of calls to them, slow listeners   *)
(* and interrupted threads included.                                        *)
(***************************************************************************)
EXTENDS PortMonitor, FiniteSetTheorems, SequenceTheorems, TLAPS

-----------------------------------------------------------------------------
(* Types *)

(* TypeOK in three parts: the fields of the port, those of the monitor       *)
(* threads and their structs, and those of the threads.                      *)
PortTypes ==
  /\ fd \in BOOLEAN /\ file \in BOOLEAN /\ closeLock \in BOOLEAN /\ IOLocked \in Int
  /\ SPEventListener \in Listeners \cup {null}
  /\ monThread \in Mons \cup {null}
  /\ MonitorThreadLock \in BOOLEAN /\ MonitorThreadAlive \in BOOLEAN
  /\ monThreadisInterrupted \in BOOLEAN /\ leaked \in BOOLEAN

LoopTypes ==
  /\ master_index \in Seq(Mons)
  /\ Data \in [Mons -> BOOLEAN] /\ eventflags \in [Mons -> BOOLEAN]
  /\ closing \in [Mons -> BOOLEAN] /\ eisfd \in [Mons -> BOOLEAN]
  /\ mon \in [Mons -> MonPlaces] /\ calling \in [Mons -> Listeners \cup {null}]

(* The field eis is read through (eventflags[eis]) and a read writes back    *)
(* through the pointer it saved, so both must point to a struct.             *)
ThreadTypes ==
  /\ pc \in [Actors -> Places] /\ enable \in [Actors -> BOOLEAN]
  /\ target \in [Actors -> Mons \cup {null}]
  /\ inClose \in SUBSET Actors /\ inFlush \in SUBSET Actors /\ inArray \in SUBSET Actors
  /\ eis \in Mons
  /\ \A t \in Actors : pc[t] = "rd_native" => target[t] \in Mons

TInv == PortTypes /\ LoopTypes /\ ThreadTypes

LEMMA InitTypes == Init => TInv
<1> SUFFICES ASSUME Init PROVE TInv
  OBVIOUS
<1>1. PortTypes
  <2>1. /\ fd = TRUE /\ file = TRUE /\ IOLocked = 0 /\ closeLock = FALSE
        /\ SPEventListener = null /\ monThread \in Mons
        /\ MonitorThreadLock = FALSE /\ MonitorThreadAlive = TRUE
        /\ monThreadisInterrupted = FALSE /\ leaked = FALSE
    BY Zenon DEF Init
  <2>2. IOLocked \in Int
    BY <2>1
  <2>3. QED BY Zenon, <2>1, <2>2 DEF PortTypes
<1>2. LoopTypes
  <2>1. eisfd \in [Mons -> BOOLEAN] /\ mon \in [Mons -> MonPlaces]
    BY DEF Init, MonPlaces
  <2>2. master_index \in Seq(Mons) /\ calling \in [Mons -> Listeners \cup {null}]
    BY DEF Init
  <2>3. QED BY <2>1, <2>2 DEF Init, LoopTypes
<1>3. ThreadTypes
  BY DEF Init, ThreadTypes, Places
<1>4. QED BY <1>1, <1>2, <1>3 DEF TInv

(* A list stays a list of monitor threads when one is taken out of it.      *)
LEMMA Unlinked ==
  ASSUME NEW S, NEW s \in Seq(S), NEW i \in 1..Len(s)
  PROVE  SubSeq(s, 1, i - 1) \o SubSeq(s, i + 1, Len(s)) \in Seq(S)
<1>1. SubSeq(s, 1, i - 1) \in Seq(S)
  OBVIOUS
<1>2. SubSeq(s, i + 1, Len(s)) \in Seq(S)
  OBVIOUS
<1>3. QED BY <1>1, <1>2

LEMMA StepTypes == TInv /\ [Next]_vars => TInv'
<1> SUFFICES ASSUME TInv, [Next]_vars PROVE TInv'
  OBVIOUS
<1> USE NullIsNew
    DEF TInv, PortTypes, LoopTypes, ThreadTypes, Actors, Places, MonPlaces, Goto, Return, ioVars, monVars,
        lockVars, natVars, flagVars, locVars
<1>1. CASE UNCHANGED vars
  BY <1>1 DEF vars
<1>2. ASSUME NEW t \in Actors, ReadCheck(t) PROVE TInv'
  <2>1. PortTypes'
    BY <1>2 DEF ReadCheck
  <2>2. LoopTypes'
    BY <1>2 DEF ReadCheck
  <2>3. ThreadTypes'
    <3>1. \E q \in Places \ {"rd_native"} : pc' = [pc EXCEPT ![t] = q]
      BY <1>2 DEF ReadCheck
    <3>2. UNCHANGED <<enable, target, inClose, inFlush, inArray, eis>>
      BY <1>2 DEF ReadCheck
    <3> HIDE DEF Places, Goto
    <3>3. QED BY <3>1, <3>2
  <2>4. QED BY <2>1, <2>2, <2>3
<1>3. ASSUME NEW t \in Actors, ReadProbe(t) PROVE TInv'
  <2>1. PortTypes'
    BY <1>3 DEF ReadProbe, ReadReturn
  <2>2. LoopTypes'
    BY <1>3 DEF ReadProbe, ReadReturn
  <2>3. ThreadTypes'
    <3>1. \E q \in Places \ {"rd_native"} : pc' = [pc EXCEPT ![t] = q]
      BY <1>3 DEF ReadProbe, ReadReturn
    <3>2. UNCHANGED <<enable, target, inClose, inFlush, inArray, eis>>
      BY <1>3 DEF ReadProbe
    <3> HIDE DEF Places, Goto
    <3>3. QED BY <3>1, <3>2
  <2>4. QED BY <2>1, <2>2, <2>3
<1>4. ASSUME NEW t \in Actors, ReadEnter(t) PROVE TInv'
  <2>1. PortTypes'
    BY <1>4 DEF ReadEnter
  <2>2. LoopTypes'
    BY <1>4 DEF ReadEnter
  <2>3. ThreadTypes'
    BY <1>4 DEF ReadEnter
  <2>4. QED BY <2>1, <2>2, <2>3
<1>5. ASSUME NEW t \in Actors, ReadNative(t) PROVE TInv'
  <2>1. PortTypes'
    BY <1>5 DEF ReadNative
  <2>2. LoopTypes'
    BY <1>5 DEF ReadNative
  <2>3. ThreadTypes'
    BY <1>5 DEF ReadNative
  <2>4. QED BY <2>1, <2>2, <2>3
<1>6. ASSUME NEW t \in Actors, ReadDone(t) PROVE TInv'
  <2>1. PortTypes'
    BY <1>6 DEF ReadDone, ReadReturn
  <2>2. LoopTypes'
    BY <1>6 DEF ReadDone, ReadReturn
  <2>3. ThreadTypes'
    BY <1>6 DEF ReadDone, ReadReturn
  <2>4. QED BY <2>1, <2>2, <2>3
<1>7. ASSUME NEW t \in Actors, WriteCheck(t) PROVE TInv'
  <2>1. PortTypes'
    BY <1>7 DEF WriteCheck
  <2>2. LoopTypes'
    BY <1>7 DEF WriteCheck
  <2>3. ThreadTypes'
    BY <1>7 DEF WriteCheck
  <2>4. QED BY <2>1, <2>2, <2>3
<1>8. ASSUME NEW t \in Actors, WriteEnter(t) PROVE TInv'
  <2>1. PortTypes'
    BY <1>8 DEF WriteEnter
  <2>2. LoopTypes'
    BY <1>8 DEF WriteEnter
  <2>3. ThreadTypes'
    BY <1>8 DEF WriteEnter
  <2>4. QED BY <2>1, <2>2, <2>3
<1>9. ASSUME NEW t \in Actors, WriteNative(t) PROVE TInv'
  <2>1. PortTypes'
    BY <1>9 DEF WriteNative
  <2>2. LoopTypes'
    BY <1>9 DEF WriteNative
  <2>3. ThreadTypes'
    BY <1>9, SMTT(30) DEF WriteNative
  <2>4. QED BY <2>1, <2>2, <2>3
<1>10. ASSUME NEW t \in Actors, WriteDone(t) PROVE TInv'
  <2>1. PortTypes'
    BY <1>10 DEF WriteDone
  <2>2. LoopTypes'
    BY <1>10 DEF WriteDone
  <2>3. ThreadTypes'
    BY <1>10 DEF WriteDone
  <2>4. QED BY <2>1, <2>2, <2>3
<1>11. ASSUME NEW t \in Actors, FlushCheck(t) PROVE TInv'
  <2>1. PortTypes'
    BY <1>11 DEF FlushCheck
  <2>2. LoopTypes'
    BY <1>11 DEF FlushCheck
  <2>3. ThreadTypes'
    BY <1>11 DEF FlushCheck
  <2>4. QED BY <2>1, <2>2, <2>3
<1>12. ASSUME NEW t \in Actors, FlushEnter(t) PROVE TInv'
  <2>1. PortTypes'
    BY <1>12 DEF FlushEnter
  <2>2. LoopTypes'
    BY <1>12 DEF FlushEnter
  <2>3. ThreadTypes'
    BY <1>12 DEF FlushEnter
  <2>4. QED BY <2>1, <2>2, <2>3
<1>13. ASSUME NEW t \in Actors, FlushNative(t) PROVE TInv'
  <2>1. PortTypes'
    BY <1>13 DEF FlushNative
  <2>2. LoopTypes'
    BY <1>13 DEF FlushNative
  <2>3. ThreadTypes'
    BY <1>13 DEF FlushNative
  <2>4. QED BY <2>1, <2>2, <2>3
<1>14. ASSUME NEW t \in Actors, FlushDrained(t) PROVE TInv'
  <2>1. PortTypes'
    BY <1>14 DEF FlushDrained, Deliverable
  <2>2. LoopTypes'
    BY <1>14 DEF FlushDrained, Deliverable
  <2>3. ThreadTypes'
    <3>1. \E q \in Places \ {"rd_native"} : pc' = [pc EXCEPT ![t] = q]
      BY <1>14 DEF FlushDrained
    <3>2. UNCHANGED <<enable, target, inClose, inFlush, inArray, eis>>
      BY <1>14 DEF FlushDrained
    <3> HIDE DEF Places, Goto
    <3>3. QED BY <3>1, <3>2
  <2>4. QED BY <2>1, <2>2, <2>3
<1>15. ASSUME NEW t \in Actors, FlushReturn(t) PROVE TInv'
  <2>1. PortTypes'
    BY <1>15 DEF FlushReturn
  <2>2. LoopTypes'
    BY <1>15 DEF FlushReturn
  <2>3. ThreadTypes'
    BY <1>15 DEF FlushReturn
  <2>4. QED BY <2>1, <2>2, <2>3
<1>16. ASSUME NEW t \in Actors, FlushExit(t) PROVE TInv'
  <2>1. PortTypes'
    BY <1>16 DEF FlushExit
  <2>2. LoopTypes'
    BY <1>16 DEF FlushExit
  <2>3. ThreadTypes'
    BY <1>16 DEF FlushExit
  <2>4. QED BY <2>1, <2>2, <2>3
<1>17. ASSUME NEW t \in Actors, FlushCallsClose(t) PROVE TInv'
  <2>1. PortTypes'
    BY <1>17 DEF FlushCallsClose
  <2>2. LoopTypes'
    BY <1>17 DEF FlushCallsClose
  <2>3. ThreadTypes'
    BY <1>17 DEF FlushCallsClose
  <2>4. QED BY <2>1, <2>2, <2>3
<1>18. ASSUME NEW t \in Actors, NotifyCall(t) PROVE TInv'
  <2>1. PortTypes'
    BY <1>18 DEF NotifyCall
  <2>2. LoopTypes'
    BY <1>18 DEF NotifyCall
  <2>3. ThreadTypes'
    BY <1>18 DEF NotifyCall
  <2>4. QED BY <2>1, <2>2, <2>3
<1>19. ASSUME NEW t \in Actors, NotifyWait(t) PROVE TInv'
  <2>1. PortTypes'
    BY <1>19 DEF NotifyWait
  <2>2. LoopTypes'
    BY <1>19 DEF NotifyWait
  <2>3. ThreadTypes'
    BY <1>19 DEF NotifyWait
  <2>4. QED BY <2>1, <2>2, <2>3
<1>20. ASSUME NEW t \in Actors, NotifySet(t) PROVE TInv'
  <2>1. PortTypes'
    BY <1>20 DEF NotifySet
  <2>2. LoopTypes'
    BY <1>20 DEF NotifySet
  <2>3. ThreadTypes'
    BY <1>20 DEF NotifySet
  <2>4. QED BY <2>1, <2>2, <2>3
<1>21. ASSUME NEW t \in Actors, NotifyJava(t) PROVE TInv'
  <2>1. PortTypes'
    BY <1>21 DEF NotifyJava
  <2>2. LoopTypes'
    BY <1>21 DEF NotifyJava
  <2>3. ThreadTypes'
    BY <1>21 DEF NotifyJava
  <2>4. QED BY <2>1, <2>2, <2>3
<1>22. ASSUME NEW t \in Actors, AddCheck(t) PROVE TInv'
  <2>1. PortTypes'
    BY <1>22 DEF AddCheck
  <2>2. LoopTypes'
    BY <1>22 DEF AddCheck
  <2>3. ThreadTypes'
    BY <1>22 DEF AddCheck
  <2>4. QED BY <2>1, <2>2, <2>3
<1>23. ASSUME NEW t \in Actors, AddSet(t) PROVE TInv'
  <2>1. PortTypes'
    BY <1>23 DEF AddSet
  <2>2. LoopTypes'
    BY <1>23 DEF AddSet
  <2>3. ThreadTypes'
    BY <1>23 DEF AddSet
  <2>4. QED BY <2>1, <2>2, <2>3
<1>24. ASSUME NEW t \in Actors, AddStart(t) PROVE TInv'
  <2>1. PortTypes'
    BY <1>24 DEF AddStart
  <2>2. LoopTypes'
    BY <1>24 DEF AddStart
  <2>3. ThreadTypes'
    BY <1>24 DEF AddStart
  <2>4. QED BY <2>1, <2>2, <2>3
<1>25. ASSUME NEW t \in Actors, AddReady(t) PROVE TInv'
  <2>1. PortTypes'
    BY <1>25 DEF AddReady
  <2>2. LoopTypes'
    BY <1>25 DEF AddReady
  <2>3. ThreadTypes'
    BY <1>25 DEF AddReady
  <2>4. QED BY <2>1, <2>2, <2>3
<1>26. ASSUME NEW t \in Actors, RemoveCall(t) PROVE TInv'
  <2>1. PortTypes'
    BY <1>26 DEF RemoveCall
  <2>2. LoopTypes'
    BY <1>26 DEF RemoveCall
  <2>3. ThreadTypes'
    BY <1>26 DEF RemoveCall
  <2>4. QED BY <2>1, <2>2, <2>3
<1>27. ASSUME NEW t \in Actors, RemoveTest(t) PROVE TInv'
  <2>1. PortTypes'
    BY <1>27 DEF RemoveTest
  <2>2. LoopTypes'
    BY <1>27 DEF RemoveTest
  <2>3. ThreadTypes'
    BY <1>27 DEF RemoveTest
  <2>4. QED BY <2>1, <2>2, <2>3
<1>28. ASSUME NEW t \in Actors, RemoveInterrupt(t) PROVE TInv'
  <2>1. PortTypes'
    BY <1>28 DEF RemoveInterrupt
  <2>2. LoopTypes'
    BY <1>28 DEF RemoveInterrupt
  <2>3. ThreadTypes'
    <3>1. CASE monThread # null
      <4>1. /\ target' = [target EXCEPT ![t] = monThread] /\ pc' = [pc EXCEPT ![t] = "rm_join"]
            /\ inClose' = inClose /\ inFlush' = inFlush /\ inArray' = inArray
            /\ enable' = enable /\ eis' = eis
        BY <1>28, <3>1 DEF RemoveInterrupt
      <4>2. monThread \in Mons
        BY <3>1 DEF PortTypes
      <4>3. QED BY <4>1, <4>2
    <3>2. CASE monThread = null
      BY <1>28, <3>2 DEF RemoveInterrupt, PortTypes
    <3>3. QED BY <3>1, <3>2
  <2>4. QED BY <2>1, <2>2, <2>3
<1>29. ASSUME NEW t \in Actors, RemoveJoin(t) PROVE TInv'
  <2>1. PortTypes'
    BY <1>29 DEF RemoveJoin
  <2>2. LoopTypes'
    BY <1>29 DEF RemoveJoin
  <2>3. ThreadTypes'
    BY <1>29 DEF RemoveJoin
  <2>4. QED BY <2>1, <2>2, <2>3
<1>30. ASSUME NEW t \in Actors, RemoveInterrupted(t) PROVE TInv'
  <2>1. PortTypes'
    BY <1>30 DEF RemoveInterrupted, RemoveReturn
  <2>2. LoopTypes'
    BY <1>30 DEF RemoveInterrupted, RemoveReturn
  <2>3. ThreadTypes'
    BY <1>30 DEF RemoveInterrupted, RemoveReturn
  <2>4. QED BY <2>1, <2>2, <2>3
<1>31. ASSUME NEW t \in Actors, RemoveClear(t) PROVE TInv'
  <2>1. PortTypes'
    BY <1>31 DEF RemoveClear, RemoveReturn
  <2>2. LoopTypes'
    BY <1>31 DEF RemoveClear, RemoveReturn
  <2>3. ThreadTypes'
    BY <1>31 DEF RemoveClear, RemoveReturn
  <2>4. QED BY <2>1, <2>2, <2>3
<1>32. ASSUME NEW t \in Actors, CloseCall(t) PROVE TInv'
  <2>1. PortTypes'
    BY <1>32 DEF CloseCall
  <2>2. LoopTypes'
    BY <1>32 DEF CloseCall
  <2>3. ThreadTypes'
    BY <1>32 DEF CloseCall
  <2>4. QED BY <2>1, <2>2, <2>3
<1>33. ASSUME NEW t \in Actors, CloseClaim(t) PROVE TInv'
  <2>1. PortTypes'
    BY <1>33 DEF CloseClaim
  <2>2. LoopTypes'
    BY <1>33 DEF CloseClaim
  <2>3. ThreadTypes'
    BY <1>33 DEF CloseClaim
  <2>4. QED BY <2>1, <2>2, <2>3
<1>34. ASSUME NEW t \in Actors, CloseInterrupted(t) PROVE TInv'
  <2>1. PortTypes'
    BY <1>34 DEF CloseInterrupted
  <2>2. LoopTypes'
    BY <1>34 DEF CloseInterrupted
  <2>3. ThreadTypes'
    BY <1>34 DEF CloseInterrupted
  <2>4. QED BY <2>1, <2>2, <2>3
<1>35. ASSUME NEW t \in Actors, CloseCheck(t) PROVE TInv'
  <2>1. PortTypes'
    BY <1>35 DEF CloseCheck
  <2>2. LoopTypes'
    BY <1>35 DEF CloseCheck
  <2>3. ThreadTypes'
    BY <1>35 DEF CloseCheck
  <2>4. QED BY <2>1, <2>2, <2>3
<1>36. ASSUME NEW t \in Actors, CloseNative(t) PROVE TInv'
  <2>1. PortTypes'
    BY <1>36 DEF CloseNative
  <2>2. LoopTypes'
    BY <1>36 DEF CloseNative
  <2>3. ThreadTypes'
    BY <1>36 DEF CloseNative
  <2>4. QED BY <2>1, <2>2, <2>3
<1>37. ASSUME NEW t \in Actors, CloseOwner(t) PROVE TInv'
  <2>1. PortTypes'
    BY <1>37 DEF CloseOwner
  <2>2. LoopTypes'
    BY <1>37 DEF CloseOwner
  <2>3. ThreadTypes'
    BY <1>37 DEF CloseOwner
  <2>4. QED BY <2>1, <2>2, <2>3
<1>38. ASSUME NEW t \in Actors, CloseReset(t) PROVE TInv'
  <2>1. PortTypes'
    BY <1>38 DEF CloseReset
  <2>2. LoopTypes'
    BY <1>38 DEF CloseReset
  <2>3. ThreadTypes'
    BY <1>38 DEF CloseReset
  <2>4. QED BY <2>1, <2>2, <2>3
<1>39. ASSUME NEW m \in Mons, MonRun(m) PROVE TInv'
  <2>1. PortTypes'
    BY <1>39 DEF MonRun, MonGoto
  <2>2. LoopTypes'
    BY <1>39 DEF MonRun, MonGoto
  <2>3. ThreadTypes'
    BY <1>39 DEF MonRun, MonGoto
  <2>4. QED BY <2>1, <2>2, <2>3
<1>40. ASSUME NEW m \in Mons, MonRegister(m) PROVE TInv'
  <2>1. PortTypes'
    BY <1>40 DEF MonRegister, MonGoto
  <2>2. LoopTypes'
    BY <1>40 DEF MonRegister, MonGoto
  <2>3. ThreadTypes'
    BY <1>40 DEF MonRegister, MonGoto
  <2>4. QED BY <2>1, <2>2, <2>3
<1>41. ASSUME NEW m \in Mons, MonUnlock(m) PROVE TInv'
  <2>1. PortTypes'
    BY <1>41 DEF MonUnlock, MonGoto
  <2>2. LoopTypes'
    BY <1>41 DEF MonUnlock, MonGoto
  <2>3. ThreadTypes'
    BY <1>41 DEF MonUnlock, MonGoto
  <2>4. QED BY <2>1, <2>2, <2>3
<1>42. ASSUME NEW m \in Mons, MonEnd(m) PROVE TInv'
  <2>0. master_index' \in Seq(Mons)
    BY <1>42, Unlinked DEF MonEnd
  <2>1. PortTypes'
    BY <1>42 DEF MonEnd, MonGoto
  <2>2. LoopTypes'
    BY <1>42, <2>0 DEF MonEnd, MonGoto
  <2>3. ThreadTypes'
    BY <1>42 DEF MonEnd, MonGoto
  <2>4. QED BY <2>1, <2>2, <2>3
<1>43. ASSUME NEW m \in Mons, MonPoll(m) PROVE TInv'
  <2>1. PortTypes'
    BY <1>43 DEF MonPoll, MonGoto
  <2>2. LoopTypes'
    BY <1>43 DEF MonPoll, MonGoto
  <2>3. ThreadTypes'
    BY <1>43 DEF MonPoll, MonGoto
  <2>4. QED BY <2>1, <2>2, <2>3
<1>44. ASSUME NEW m \in Mons, MonSend(m) PROVE TInv'
  <2>1. PortTypes'
    BY <1>44 DEF MonSend, MonGoto, Deliverable
  <2>2. LoopTypes'
    BY <1>44, SMTT(30) DEF MonSend, MonGoto, Deliverable
  <2>3. ThreadTypes'
    BY <1>44 DEF MonSend, MonGoto, Deliverable
  <2>4. QED BY <2>1, <2>2, <2>3
<1>45. ASSUME NEW m \in Mons, MonReturn(m) PROVE TInv'
  <2>1. PortTypes'
    BY <1>45 DEF MonReturn, MonGoto
  <2>2. LoopTypes'
    BY <1>45 DEF MonReturn, MonGoto
  <2>3. ThreadTypes'
    BY <1>45 DEF MonReturn, MonGoto
  <2>4. QED BY <2>1, <2>2, <2>3
<1>46. ASSUME NEW t \in Actors, ReadArrayCheck(t) PROVE TInv'
  <2>1. PortTypes'
    BY <1>46 DEF ReadArrayCheck
  <2>2. LoopTypes'
    BY <1>46 DEF ReadArrayCheck
  <2>3. ThreadTypes'
    BY <1>46 DEF ReadArrayCheck
  <2>4. QED BY <2>1, <2>2, <2>3
<1>47. ASSUME NEW t \in Actors, ReadArrayEnter(t) PROVE TInv'
  <2>1. PortTypes'
    BY <1>47 DEF ReadArrayEnter
  <2>2. LoopTypes'
    BY <1>47 DEF ReadArrayEnter
  <2>3. ThreadTypes'
    BY <1>47 DEF ReadArrayEnter
  <2>4. QED BY <2>1, <2>2, <2>3
<1>48. ASSUME NEW t \in Actors, ReadArrayCall(t) PROVE TInv'
  <2>1. PortTypes'
    BY <1>48 DEF ReadArrayCall
  <2>2. LoopTypes'
    BY <1>48 DEF ReadArrayCall
  <2>3. ThreadTypes'
    BY <1>48 DEF ReadArrayCall
  <2>4. QED BY <2>1, <2>2, <2>3
<1>49. ASSUME NEW t \in Actors, ReadArrayExit(t) PROVE TInv'
  <2>1. PortTypes'
    BY <1>49 DEF ReadArrayExit
  <2>2. LoopTypes'
    BY <1>49 DEF ReadArrayExit
  <2>3. ThreadTypes'
    BY <1>49 DEF ReadArrayExit
  <2>4. QED BY <2>1, <2>2, <2>3
<1>50. ASSUME NEW t \in Actors, RemoveCheck(t) PROVE TInv'
  <2>1. PortTypes'
    BY <1>50 DEF RemoveCheck, RemoveReturn
  <2>2. LoopTypes'
    BY <1>50 DEF RemoveCheck, RemoveReturn
  <2>3. ThreadTypes'
    BY <1>50 DEF RemoveCheck, RemoveReturn
  <2>4. QED BY <2>1, <2>2, <2>3
<1>51. ASSUME NEW t \in Actors, RemoveSet(t) PROVE TInv'
  <2>1. PortTypes'
    BY <1>51 DEF RemoveSet
  <2>2. LoopTypes'
    BY <1>51 DEF RemoveSet
  <2>3. ThreadTypes'
    BY <1>51 DEF RemoveSet
  <2>4. QED BY <2>1, <2>2, <2>3
<1> HIDE DEF TInv, PortTypes, LoopTypes, ThreadTypes, Actors, Places, MonPlaces,
             Goto, Return, ioVars, monVars, lockVars, natVars, flagVars, locVars
<1>52. QED
  BY <1>1, <1>2, <1>3, <1>4, <1>5, <1>6, <1>7, <1>8, <1>9, <1>10, <1>11, <1>12, <1>13, <1>14, <1>15, <1>16, <1>17, <1>18, <1>19, <1>20, <1>21, <1>22, <1>23, <1>24, <1>25, <1>26, <1>27, <1>28, <1>29, <1>30, <1>31, <1>32, <1>33, <1>34, <1>35, <1>36, <1>37, <1>38, <1>39, <1>40, <1>41, <1>42, <1>43, <1>44, <1>45, <1>46, <1>47, <1>48,
     <1>49, <1>50, <1>51
     DEF Next, Continue, Answer, Decide, Loop

LEMMA TypesHold == Spec => []TInv
BY InitTypes, StepTypes, PTL DEF Spec

(* Type correctness of the port, its monitor threads and its callers; in     *)
(* particular the field eis and the pointer a read has saved always point to *)
(* some thread's event_info_struct.                                          *)
THEOREM TypeCorrect == Spec => []TypeOK
<1>1. TInv => TypeOK
  BY DEF TInv, TypeOK, PortTypes, LoopTypes, ThreadTypes
<1>2. QED BY <1>1, TypesHold, PTL
-----------------------------------------------------------------------------
(* Where a thread is that close() or flush() has sent into another method    *)

RemovePlaces == {"rm_wait", "rm_test", "rm_set", "rm_intr", "rm_join", "rm_clear"}

ArrayPlaces == {"rd_probe", "rd_enter", "rd_lock", "rd_native", "ra_lock", "ra_exit"}

(* A thread that removes the listener for close() is in that method, and a   *)
(* thread whose listener was called by flush() is in the close() it called:  *)
(* what makes Return put it back into flush().  A thread that read(byte[])   *)
(* has counted is in that method or in the read() it calls.                  *)
CallInv ==
  /\ \A t \in inClose : pc[t] \in RemovePlaces
  /\ \A t \in inFlush : pc[t] \in RemovePlaces \cup ClosePlaces \cup {"cl_wait"}
  /\ \A t \in inArray : pc[t] \in ArrayPlaces
  /\ \A t \in Actors : pc[t] \in {"ra_lock", "ra_exit"} => t \in inArray

LEMMA InitCalls == Init => CallInv
BY DEF Init, CallInv

LEMMA StepCalls == TInv /\ CallInv /\ [Next]_vars => CallInv'
<1> SUFFICES ASSUME ThreadTypes, CallInv, [Next]_vars PROVE CallInv'
  BY DEF TInv
<1> USE DEF ThreadTypes, CallInv, RemovePlaces, ArrayPlaces, ClosePlaces, Goto, Return, MayCall,
            ioVars, monVars, lockVars, natVars, flagVars, locVars
<1>1. CASE UNCHANGED vars
  BY <1>1 DEF vars
<1>2. ASSUME NEW t \in Actors, ReadCheck(t) \/ ReadProbe(t) \/ ReadEnter(t) PROVE CallInv'
  BY <1>2 DEF ReadCheck, ReadProbe, ReadEnter, ReadReturn
<1>3. ASSUME NEW t \in Actors, ReadNative(t) \/ ReadDone(t) PROVE CallInv'
  BY <1>3 DEF ReadNative, ReadDone, ReadReturn
<1>4. ASSUME NEW t \in Actors, WriteCheck(t) \/ WriteEnter(t) PROVE CallInv'
  BY <1>4 DEF WriteCheck, WriteEnter
<1>5. ASSUME NEW t \in Actors, WriteNative(t) \/ WriteDone(t) PROVE CallInv'
  BY <1>5 DEF WriteNative, WriteDone
<1>6. ASSUME NEW t \in Actors, FlushCheck(t) \/ FlushEnter(t) PROVE CallInv'
  BY <1>6 DEF FlushCheck, FlushEnter
<1>7. ASSUME NEW t \in Actors, FlushNative(t) \/ FlushDrained(t) \/ FlushReturn(t)
      PROVE  CallInv'
  BY <1>7 DEF FlushNative, FlushDrained, FlushReturn
<1>8. ASSUME NEW t \in Actors, FlushExit(t) \/ FlushCallsClose(t) PROVE CallInv'
  BY <1>8 DEF FlushExit, FlushCallsClose
<1>9. ASSUME NEW t \in Actors, NotifyCall(t) \/ NotifyWait(t) \/ NotifySet(t) PROVE CallInv'
  BY <1>9 DEF NotifyCall, NotifyWait, NotifySet
<1>10. ASSUME NEW t \in Actors, NotifyJava(t) PROVE CallInv'
  BY <1>10 DEF NotifyJava
<1>11. ASSUME NEW t \in Actors, AddCheck(t) \/ AddSet(t) PROVE CallInv'
  BY <1>11 DEF AddCheck, AddSet
<1>12. ASSUME NEW t \in Actors, AddStart(t) \/ AddReady(t) PROVE CallInv'
  BY <1>12 DEF AddStart, AddReady
<1>13. ASSUME NEW t \in Actors, RemoveCall(t) \/ RemoveCheck(t) \/ RemoveTest(t) PROVE CallInv'
  BY <1>13 DEF RemoveCall, RemoveCheck, RemoveTest, RemoveReturn
<1>14. ASSUME NEW t \in Actors, RemoveSet(t) \/ RemoveInterrupt(t) \/ RemoveJoin(t) PROVE CallInv'
  BY <1>14 DEF RemoveSet, RemoveInterrupt, RemoveJoin
<1>15. ASSUME NEW t \in Actors, RemoveInterrupted(t) \/ RemoveClear(t) PROVE CallInv'
  BY <1>15 DEF RemoveInterrupted, RemoveClear, RemoveReturn
<1>16. ASSUME NEW t \in Actors, CloseCall(t) \/ CloseClaim(t) PROVE CallInv'
  BY <1>16 DEF CloseCall, CloseClaim
<1>17. ASSUME NEW t \in Actors, CloseInterrupted(t) \/ CloseCheck(t) PROVE CallInv'
  BY <1>17 DEF CloseInterrupted, CloseCheck
<1>18. ASSUME NEW t \in Actors, CloseNative(t) \/ CloseOwner(t) \/ CloseReset(t)
      PROVE  CallInv'
  BY <1>18 DEF CloseNative, CloseOwner, CloseReset
<1>19. ASSUME NEW m \in Mons, MonRun(m) \/ MonRegister(m) \/ MonUnlock(m) PROVE CallInv'
  BY <1>19 DEF MonRun, MonRegister, MonUnlock
<1>20. ASSUME NEW m \in Mons, MonEnd(m) \/ MonPoll(m) PROVE CallInv'
  BY <1>20 DEF MonEnd, MonPoll
<1>21. ASSUME NEW m \in Mons, MonSend(m) \/ MonReturn(m) PROVE CallInv'
  BY <1>21 DEF MonSend, MonReturn
<1>22. ASSUME NEW t \in Actors, ReadArrayCheck(t) \/ ReadArrayEnter(t) PROVE CallInv'
  BY <1>22 DEF ReadArrayCheck, ReadArrayEnter
<1>23. ASSUME NEW t \in Actors, ReadArrayCall(t) \/ ReadArrayExit(t) PROVE CallInv'
  BY <1>23 DEF ReadArrayCall, ReadArrayExit
<1> HIDE DEF ThreadTypes, CallInv, RemovePlaces, ArrayPlaces, ClosePlaces, Goto, Return, MayCall,
             ioVars, monVars, lockVars, natVars, flagVars, locVars
<1>24. QED
  BY <1>1, <1>2, <1>3, <1>4, <1>5, <1>6, <1>7, <1>8, <1>9, <1>10, <1>11, <1>12, <1>13, <1>14, <1>15, <1>16, <1>17, <1>18, <1>19, <1>20, <1>21, <1>22, <1>23
     DEF Next, Continue, Answer, Decide, Loop
-----------------------------------------------------------------------------
(* IOLocked *)

(* IOLockedExact with what a cardinality needs.  A step leaves both sides    *)
(* alone or changes them together, by one thread.                            *)
CountInv == /\ IsFiniteSet(Counted) /\ IsFiniteSet(inArray)
            /\ IOLocked = Cardinality(Counted) + Cardinality(inArray)

LEMMA InitCount == Init => CountInv
<1> SUFFICES ASSUME Init PROVE CountInv
  OBVIOUS
<1>1. Counted = {} /\ inArray = {}
  BY DEF Init, Counted
<1>2. QED BY <1>1, FS_EmptySet DEF Init, CountInv

LEMMA StepCount == TInv /\ CallInv /\ CountInv /\ [Next]_vars => CountInv'
<1> SUFFICES ASSUME ThreadTypes, CallInv, CountInv, [Next]_vars PROVE CountInv'
  BY DEF TInv
<1>k. \A S : IsFiniteSet(S) => Cardinality(S) \in Nat
  BY FS_CardinalityType
<1>a. CASE IOLocked' = IOLocked /\ Counted' = Counted /\ inArray' = inArray
  BY <1>a DEF CountInv
<1>b. ASSUME NEW t \in Actors, t \notin Counted, Counted' = Counted \cup {t},
             IOLocked' = IOLocked + 1, inArray' = inArray
      PROVE  CountInv'
  <2>1. IsFiniteSet(Counted \cup {t}) /\ Cardinality(Counted \cup {t}) = Cardinality(Counted) + 1
    BY <1>b, FS_AddElement DEF CountInv
  <2>2. QED BY <1>b, <1>k, <2>1 DEF CountInv
<1>c. ASSUME NEW t \in Actors, t \in Counted, Counted' = Counted \ {t},
             IOLocked' = IOLocked - 1, inArray' = inArray
      PROVE  CountInv'
  <2>1. IsFiniteSet(Counted \ {t}) /\ Cardinality(Counted \ {t}) = Cardinality(Counted) - 1
    BY <1>c, FS_RemoveElement DEF CountInv
  <2>2. QED BY <1>c, <1>k, <2>1 DEF CountInv
<1>d. ASSUME NEW t \in Actors, t \notin inArray, inArray' = inArray \cup {t},
             IOLocked' = IOLocked + 1, Counted' = Counted
      PROVE  CountInv'
  <2>1. IsFiniteSet(inArray \cup {t}) /\ Cardinality(inArray \cup {t}) = Cardinality(inArray) + 1
    BY <1>d, FS_AddElement DEF CountInv
  <2>2. QED BY <1>d, <1>k, <2>1 DEF CountInv
<1>e. ASSUME NEW t \in Actors, t \in inArray, inArray' = inArray \ {t},
             IOLocked' = IOLocked - 1, Counted' = Counted
      PROVE  CountInv'
  <2>1. IsFiniteSet(inArray \ {t}) /\ Cardinality(inArray \ {t}) = Cardinality(inArray) - 1
    BY <1>e, FS_RemoveElement DEF CountInv
  <2>2. QED BY <1>e, <1>k, <2>1 DEF CountInv
<1> USE DEF ThreadTypes, CallInv, RemovePlaces, ArrayPlaces, ClosePlaces, Goto, Return, MayCall,
            ioVars, monVars, lockVars, natVars, flagVars, locVars, Counted
<1>1. CASE UNCHANGED vars
  BY <1>1, <1>a DEF vars
<1>2. ASSUME NEW t \in Actors, ReadEnter(t) PROVE CountInv'
  <2>1. /\ t \notin Counted /\ Counted' = Counted \cup {t} /\ IOLocked' = IOLocked + 1
        /\ inArray' = inArray
    BY <1>2 DEF ReadEnter
  <2>2. QED BY <2>1, <1>b
<1>3. ASSUME NEW t \in Actors, ReadDone(t) PROVE CountInv'
  <2>1. /\ t \in Counted /\ Counted' = Counted \ {t} /\ IOLocked' = IOLocked - 1
        /\ inArray' = inArray
    BY <1>3 DEF ReadDone, ReadReturn
  <2>2. QED BY <2>1, <1>c
<1>4. ASSUME NEW t \in Actors, WriteEnter(t) PROVE CountInv'
  <2>1. /\ t \notin Counted /\ Counted' = Counted \cup {t} /\ IOLocked' = IOLocked + 1
        /\ inArray' = inArray
    BY <1>4 DEF WriteEnter
  <2>2. QED BY <2>1, <1>b
<1>5. ASSUME NEW t \in Actors, WriteNative(t) PROVE CountInv'
  <2>1. CASE fd
    BY <1>5, <2>1, <1>a DEF WriteNative
  <2>2. CASE ~fd
    <3>1. /\ t \in Counted /\ Counted' = Counted \ {t} /\ IOLocked' = IOLocked - 1
          /\ inArray' = inArray
      BY <1>5, <2>2 DEF WriteNative
    <3>2. QED BY <3>1, <1>c
  <2>3. QED BY <2>1, <2>2
<1>6. ASSUME NEW t \in Actors, WriteDone(t) PROVE CountInv'
  <2>1. /\ t \in Counted /\ Counted' = Counted \ {t} /\ IOLocked' = IOLocked - 1
        /\ inArray' = inArray
    BY <1>6 DEF WriteDone
  <2>2. QED BY <2>1, <1>c
<1>7. ASSUME NEW t \in Actors, FlushEnter(t) PROVE CountInv'
  <2>1. /\ t \notin Counted /\ Counted' = Counted \cup {t} /\ IOLocked' = IOLocked + 1
        /\ inArray' = inArray
    BY <1>7 DEF FlushEnter
  <2>2. QED BY <2>1, <1>b
<1>8. ASSUME NEW t \in Actors, FlushExit(t) PROVE CountInv'
  <2>1. /\ t \in Counted /\ Counted' = Counted \ {t} /\ IOLocked' = IOLocked - 1
        /\ inArray' = inArray
    BY <1>8 DEF FlushExit
  <2>2. QED BY <2>1, <1>c
<1>9. ASSUME NEW t \in Actors, ReadCheck(t) \/ ReadProbe(t) PROVE CountInv'
  <2>1. IOLocked' = IOLocked /\ Counted' = Counted /\ inArray' = inArray
    BY <1>9 DEF ReadCheck, ReadProbe, ReadReturn
  <2>2. QED BY <2>1, <1>a
<1>10. ASSUME NEW t \in Actors, ReadNative(t) PROVE CountInv'
  <2>1. IOLocked' = IOLocked /\ Counted' = Counted /\ inArray' = inArray
    BY <1>10 DEF ReadNative
  <2>2. QED BY <2>1, <1>a
<1>11. ASSUME NEW t \in Actors, WriteCheck(t) PROVE CountInv'
  <2>1. IOLocked' = IOLocked /\ Counted' = Counted /\ inArray' = inArray
    BY <1>11 DEF WriteCheck
  <2>2. QED BY <2>1, <1>a
<1>12. ASSUME NEW t \in Actors, FlushCheck(t) PROVE CountInv'
  <2>1. IOLocked' = IOLocked /\ Counted' = Counted /\ inArray' = inArray
    BY <1>12 DEF FlushCheck
  <2>2. QED BY <2>1, <1>a
<1>13. ASSUME NEW t \in Actors, FlushNative(t) \/ FlushDrained(t) \/ FlushReturn(t)
      PROVE  CountInv'
  <2>1. IOLocked' = IOLocked /\ Counted' = Counted /\ inArray' = inArray
    BY <1>13 DEF FlushNative, FlushDrained, FlushReturn
  <2>2. QED BY <2>1, <1>a
<1>14. ASSUME NEW t \in Actors, FlushCallsClose(t) PROVE CountInv'
  <2>1. IOLocked' = IOLocked /\ Counted' = Counted /\ inArray' = inArray
    BY <1>14 DEF FlushCallsClose
  <2>2. QED BY <2>1, <1>a
<1>15. ASSUME NEW t \in Actors, NotifyCall(t) \/ NotifyWait(t) \/ NotifySet(t)
      PROVE  CountInv'
  <2>1. IOLocked' = IOLocked /\ Counted' = Counted /\ inArray' = inArray
    BY <1>15 DEF NotifyCall, NotifyWait, NotifySet
  <2>2. QED BY <2>1, <1>a
<1>16. ASSUME NEW t \in Actors, NotifyJava(t) PROVE CountInv'
  <2>1. IOLocked' = IOLocked /\ Counted' = Counted /\ inArray' = inArray
    BY <1>16 DEF NotifyJava
  <2>2. QED BY <2>1, <1>a
<1>17. ASSUME NEW t \in Actors, AddCheck(t) \/ AddSet(t) PROVE CountInv'
  <2>1. IOLocked' = IOLocked /\ Counted' = Counted /\ inArray' = inArray
    BY <1>17 DEF AddCheck, AddSet
  <2>2. QED BY <2>1, <1>a
<1>18. ASSUME NEW t \in Actors, AddStart(t) \/ AddReady(t) PROVE CountInv'
  <2>1. IOLocked' = IOLocked /\ Counted' = Counted /\ inArray' = inArray
    BY <1>18 DEF AddStart, AddReady
  <2>2. QED BY <2>1, <1>a
<1>19. ASSUME NEW t \in Actors, RemoveCall(t) \/ RemoveCheck(t) \/ RemoveTest(t) PROVE CountInv'
  <2>1. IOLocked' = IOLocked /\ Counted' = Counted /\ inArray' = inArray
    BY <1>19 DEF RemoveCall, RemoveCheck, RemoveTest, RemoveReturn
  <2>2. QED BY <2>1, <1>a
<1>20. ASSUME NEW t \in Actors, RemoveSet(t) \/ RemoveInterrupt(t) \/ RemoveJoin(t) PROVE CountInv'
  <2>1. IOLocked' = IOLocked /\ Counted' = Counted /\ inArray' = inArray
    BY <1>20 DEF RemoveSet, RemoveInterrupt, RemoveJoin
  <2>2. QED BY <2>1, <1>a
<1>21. ASSUME NEW t \in Actors, RemoveInterrupted(t) \/ RemoveClear(t)
      PROVE  CountInv'
  <2>1. IOLocked' = IOLocked /\ Counted' = Counted /\ inArray' = inArray
    BY <1>21 DEF RemoveInterrupted, RemoveClear, RemoveReturn
  <2>2. QED BY <2>1, <1>a
<1>22. ASSUME NEW t \in Actors, CloseCall(t) \/ CloseClaim(t) PROVE CountInv'
  <2>1. IOLocked' = IOLocked /\ Counted' = Counted /\ inArray' = inArray
    BY <1>22 DEF CloseCall, CloseClaim
  <2>2. QED BY <2>1, <1>a
<1>23. ASSUME NEW t \in Actors, CloseInterrupted(t) \/ CloseCheck(t)
      PROVE  CountInv'
  <2>1. IOLocked' = IOLocked /\ Counted' = Counted /\ inArray' = inArray
    BY <1>23 DEF CloseInterrupted, CloseCheck
  <2>2. QED BY <2>1, <1>a
<1>24. ASSUME NEW t \in Actors, CloseNative(t) \/ CloseOwner(t) \/ CloseReset(t)
      PROVE  CountInv'
  <2>1. IOLocked' = IOLocked /\ Counted' = Counted /\ inArray' = inArray
    BY <1>24 DEF CloseNative, CloseOwner, CloseReset
  <2>2. QED BY <2>1, <1>a
<1>25. ASSUME NEW m \in Mons, MonRun(m) \/ MonRegister(m) \/ MonUnlock(m)
      PROVE  CountInv'
  <2>1. IOLocked' = IOLocked /\ Counted' = Counted /\ inArray' = inArray
    BY <1>25 DEF MonRun, MonRegister, MonUnlock
  <2>2. QED BY <2>1, <1>a
<1>26. ASSUME NEW m \in Mons, MonEnd(m) \/ MonPoll(m) PROVE CountInv'
  <2>1. IOLocked' = IOLocked /\ Counted' = Counted /\ inArray' = inArray
    BY <1>26 DEF MonEnd, MonPoll
  <2>2. QED BY <2>1, <1>a
<1>27. ASSUME NEW m \in Mons, MonSend(m) \/ MonReturn(m) PROVE CountInv'
  <2>1. IOLocked' = IOLocked /\ Counted' = Counted /\ inArray' = inArray
    BY <1>27 DEF MonSend, MonReturn
  <2>2. QED BY <2>1, <1>a
<1>28. ASSUME NEW t \in Actors, ReadArrayEnter(t) PROVE CountInv'
  <2>1. /\ t \notin inArray /\ inArray' = inArray \cup {t} /\ IOLocked' = IOLocked + 1
        /\ Counted' = Counted
    BY <1>28 DEF ReadArrayEnter
  <2>2. QED BY <2>1, <1>d
<1>29. ASSUME NEW t \in Actors, ReadArrayExit(t) PROVE CountInv'
  <2>1. /\ t \in inArray /\ inArray' = inArray \ {t} /\ IOLocked' = IOLocked - 1
        /\ Counted' = Counted
    BY <1>29 DEF ReadArrayExit
  <2>2. QED BY <2>1, <1>e
<1>30. ASSUME NEW t \in Actors, ReadArrayCheck(t) \/ ReadArrayCall(t) PROVE CountInv'
  <2>1. IOLocked' = IOLocked /\ Counted' = Counted /\ inArray' = inArray
    BY <1>30 DEF ReadArrayCheck, ReadArrayCall
  <2>2. QED BY <2>1, <1>a
<1> HIDE DEF ThreadTypes, CallInv, RemovePlaces, ArrayPlaces, ClosePlaces, Goto, Return, MayCall,
             ioVars, monVars, lockVars, natVars, flagVars, locVars, Counted
<1>31. QED
  BY <1>1, <1>2, <1>3, <1>4, <1>5, <1>6, <1>7, <1>8, <1>9, <1>10, <1>11, <1>12, <1>13, <1>14, <1>15, <1>16, <1>17, <1>18, <1>19, <1>20, <1>21, <1>22, <1>23, <1>24, <1>25, <1>26, <1>27, <1>28, <1>29, <1>30
     DEF Next, Continue, Answer, Decide, Loop
-----------------------------------------------------------------------------
(* close() *)

(* The thread has claimed closeLock and is still closing the port. *)
Claims(t) == pc[t] \in ClosePlaces \/ t \in inClose

(* ClosedOnce is not inductive: that the descriptor is still open when       *)
(* nativeClose runs follows from the lock having been free with fd positive, *)
(* through the claim, the test of fd and the removal of the listener.        *)
CloseInv ==
  /\ \A t \in Actors : Claims(t) => closeLock
  /\ \A t, u \in Actors : Claims(t) /\ Claims(u) => t = u
  /\ ~closeLock /\ fd => file
  /\ \A t \in Actors : pc[t] = "cl_check" /\ fd => file
  /\ \A t \in Actors : pc[t] = "cl_native" \/ t \in inClose => file

LEMMA InitClose == Init => CloseInv
BY DEF Init, CloseInv, Claims, ClosePlaces

LEMMA StepClose == TInv /\ CallInv /\ CloseInv /\ [Next]_vars => CloseInv'
<1> SUFFICES ASSUME ThreadTypes, CallInv, CloseInv, [Next]_vars PROVE CloseInv'
  BY DEF TInv
<1> USE DEF ThreadTypes, CallInv, CloseInv, Claims, RemovePlaces, ArrayPlaces, ClosePlaces, Goto,
            Return, MayCall, ioVars, monVars, lockVars, natVars, flagVars, locVars
<1>1. CASE UNCHANGED vars
  BY <1>1 DEF vars
<1>2. ASSUME NEW t \in Actors, ReadCheck(t) \/ ReadProbe(t) \/ ReadEnter(t) PROVE CloseInv'
  BY <1>2 DEF ReadCheck, ReadProbe, ReadEnter, ReadReturn
<1>3. ASSUME NEW t \in Actors, ReadNative(t) \/ ReadDone(t) PROVE CloseInv'
  BY <1>3 DEF ReadNative, ReadDone, ReadReturn
<1>4. ASSUME NEW t \in Actors, WriteCheck(t) \/ WriteEnter(t) PROVE CloseInv'
  BY <1>4 DEF WriteCheck, WriteEnter
<1>5. ASSUME NEW t \in Actors, WriteNative(t) \/ WriteDone(t) PROVE CloseInv'
  BY <1>5 DEF WriteNative, WriteDone
<1>6. ASSUME NEW t \in Actors, FlushCheck(t) \/ FlushEnter(t) PROVE CloseInv'
  BY <1>6 DEF FlushCheck, FlushEnter
<1>7. ASSUME NEW t \in Actors, FlushNative(t) \/ FlushDrained(t) \/ FlushReturn(t)
      PROVE  CloseInv'
  BY <1>7 DEF FlushNative, FlushDrained, FlushReturn
<1>8. ASSUME NEW t \in Actors, FlushExit(t) \/ FlushCallsClose(t) PROVE CloseInv'
  BY <1>8 DEF FlushExit, FlushCallsClose
<1>9. ASSUME NEW t \in Actors, NotifyCall(t) \/ NotifyWait(t) \/ NotifySet(t) PROVE CloseInv'
  BY <1>9 DEF NotifyCall, NotifyWait, NotifySet
<1>10. ASSUME NEW t \in Actors, NotifyJava(t) PROVE CloseInv'
  BY <1>10 DEF NotifyJava
<1>11. ASSUME NEW t \in Actors, AddCheck(t) \/ AddSet(t) PROVE CloseInv'
  BY <1>11 DEF AddCheck, AddSet
<1>12. ASSUME NEW t \in Actors, AddStart(t) \/ AddReady(t) PROVE CloseInv'
  BY <1>12 DEF AddStart, AddReady
<1>13. ASSUME NEW t \in Actors, RemoveCall(t) \/ RemoveCheck(t) \/ RemoveTest(t) PROVE CloseInv'
  BY <1>13 DEF RemoveCall, RemoveCheck, RemoveTest, RemoveReturn
<1>14. ASSUME NEW t \in Actors, RemoveSet(t) \/ RemoveInterrupt(t) \/ RemoveJoin(t) PROVE CloseInv'
  BY <1>14 DEF RemoveSet, RemoveInterrupt, RemoveJoin
<1>15. ASSUME NEW t \in Actors, RemoveInterrupted(t) \/ RemoveClear(t) PROVE CloseInv'
  BY <1>15 DEF RemoveInterrupted, RemoveClear, RemoveReturn
<1>16. ASSUME NEW t \in Actors, CloseCall(t) \/ CloseClaim(t) PROVE CloseInv'
  BY <1>16 DEF CloseCall, CloseClaim
<1>17. ASSUME NEW t \in Actors, CloseInterrupted(t) \/ CloseCheck(t) PROVE CloseInv'
  BY <1>17 DEF CloseInterrupted, CloseCheck
<1>18. ASSUME NEW t \in Actors, CloseNative(t) \/ CloseOwner(t) \/ CloseReset(t)
      PROVE  CloseInv'
  BY <1>18 DEF CloseNative, CloseOwner, CloseReset
<1>19. ASSUME NEW m \in Mons, MonRun(m) \/ MonRegister(m) \/ MonUnlock(m) PROVE CloseInv'
  BY <1>19 DEF MonRun, MonRegister, MonUnlock
<1>20. ASSUME NEW m \in Mons, MonEnd(m) \/ MonPoll(m) PROVE CloseInv'
  <2>1. UNCHANGED <<ioVars, pc, locVars>>
    BY <1>20 DEF MonEnd, MonPoll
  <2>2. QED BY <2>1
<1>21. ASSUME NEW m \in Mons, MonSend(m) \/ MonReturn(m) PROVE CloseInv'
  BY <1>21 DEF MonSend, MonReturn
<1>22. ASSUME NEW t \in Actors, ReadArrayCheck(t) \/ ReadArrayEnter(t) PROVE CloseInv'
  BY <1>22 DEF ReadArrayCheck, ReadArrayEnter
<1>23. ASSUME NEW t \in Actors, ReadArrayCall(t) \/ ReadArrayExit(t) PROVE CloseInv'
  BY <1>23 DEF ReadArrayCall, ReadArrayExit
<1> HIDE DEF ThreadTypes, CallInv, CloseInv, Claims, RemovePlaces, ArrayPlaces, ClosePlaces, Goto,
             Return, MayCall, ioVars, monVars, lockVars, natVars, flagVars, locVars
<1>24. QED
  BY <1>1, <1>2, <1>3, <1>4, <1>5, <1>6, <1>7, <1>8, <1>9, <1>10, <1>11, <1>12, <1>13, <1>14, <1>15, <1>16, <1>17, <1>18, <1>19, <1>20, <1>21, <1>22, <1>23
     DEF Next, Continue, Answer, Decide, Loop
-----------------------------------------------------------------------------
LEMMA InvHolds == Spec => [](TInv /\ CallInv /\ CountInv /\ CloseInv)
BY InitTypes, StepTypes, InitCalls, StepCalls, InitCount, StepCount, InitClose,
   StepClose, PTL DEF Spec

(* IOLocked is exact: however reads, writes, flushes, the listeners a flush  *)
(* calls and close() interleave, the number close() waits for is the number  *)
(* of calls under way that have counted themselves, two for a thread in      *)
(* read(byte[]) and the read(byte[],int,int) it calls.                       *)
THEOREM IOLockedCounts == Spec => []IOLockedExact
<1>1. CountInv => IOLockedExact
  BY DEF CountInv, IOLockedExact
<1>2. QED BY <1>1, InvHolds, PTL

(* nativeClose is called once, by the holder of closeLock, for any number of *)
(* threads that close the port, some of them from inside a listener.         *)
THEOREM ClosesOnce == Spec => []ClosedOnce
<1>1. CloseInv => ClosedOnce
  BY DEF CloseInv, ClosedOnce, Claims, ClosePlaces
<1>2. QED BY <1>1, InvHolds, PTL
-----------------------------------------------------------------------------
(* The list of event_info_structs, whoever controls the port. *)

Queue == INSTANCE EventLoops WITH Loops <- Mons, order <- master_index

InList(m) == mon[m] \in {"registered", "looping", "sending"}

(* A struct is in the list once, and only while its loop runs.               *)
QueueInv ==
  /\ \A i \in 1 .. Len(master_index) : InList(master_index[i])
  /\ \A i, j \in 1 .. Len(master_index) : master_index[i] = master_index[j] => i = j

LEMMA LeftOver ==
  ASSUME NEW s \in Seq(Mons), NEW i \in 1 .. Len(s), NEW r,
         r = SubSeq(s, 1, i - 1) \o SubSeq(s, i + 1, Len(s))
  PROVE  /\ Len(r) = Len(s) - 1
         /\ \A j \in 1 .. Len(s) - 1 : r[j] = IF j < i THEN s[j] ELSE s[j + 1]
<1> DEFINE n == Len(s)
           a == SubSeq(s, 1, i - 1)
           b == SubSeq(s, i + 1, n)
<1>1. n \in Nat /\ i \in Int /\ 1 <= i /\ i <= n /\ \A j \in 1 .. n : s[j] \in Mons
  OBVIOUS
<1>2. a \in Seq(Mons) /\ Len(a) = i - 1 /\ \A j \in 1 .. i - 1 : a[j] = s[j]
  <2>1. \A j \in 1 .. i - 1 : s[j] \in Mons
    BY <1>1
  <2>2. /\ a \in Seq(Mons) /\ Len(a) = IF 1 <= i - 1 THEN (i - 1) - 1 + 1 ELSE 0
        /\ \A j \in 1 .. (i - 1) - 1 + 1 : a[j] = s[1 + j - 1]
    BY <1>1, <2>1, SubSeqProperties
  <2>3. (i - 1) - 1 + 1 = i - 1 /\ \A j \in Int : 1 + j - 1 = j
    BY <1>1
  <2> HIDE DEF a, n
  <2>4. QED BY <1>1, <2>2, <2>3
<1>3. b \in Seq(Mons) /\ Len(b) = n - i /\ \A j \in 1 .. n - i : b[j] = s[i + j]
  <2>1. \A j \in i + 1 .. n : s[j] \in Mons
    BY <1>1
  <2>2. /\ b \in Seq(Mons) /\ Len(b) = IF i + 1 <= n THEN n - (i + 1) + 1 ELSE 0
        /\ \A j \in 1 .. n - (i + 1) + 1 : b[j] = s[(i + 1) + j - 1]
    BY <1>1, <2>1, SubSeqProperties
  <2>3. n - (i + 1) + 1 = n - i /\ \A j \in Int : (i + 1) + j - 1 = i + j
    BY <1>1
  <2> HIDE DEF b, n
  <2>4. QED BY <1>1, <2>2, <2>3
<1>4. r = a \o b
  OBVIOUS
<1> HIDE DEF n, a, b
<1>5. /\ Len(a \o b) = n - 1
      /\ \A j \in 1 .. n - 1 : (a \o b)[j] = IF j <= i - 1 THEN a[j] ELSE b[j - (i - 1)]
  <2>1. Len(a) + Len(b) = n - 1
    BY <1>1, <1>2, <1>3
  <2>2. /\ Len(a \o b) = Len(a) + Len(b)
        /\ \A j \in 1 .. Len(a) + Len(b) :
             (a \o b)[j] = IF j <= Len(a) THEN a[j] ELSE b[j - Len(a)]
    <3>1. a \in Seq(Mons) /\ b \in Seq(Mons)
      BY <1>2, <1>3
    <3>2. QED BY ONLY <3>1, ConcatProperties
  <2>3. Len(a) = i - 1
    BY <1>2
  <2>4. QED BY ONLY <2>1, <2>2, <2>3
<1>6. ASSUME NEW j \in 1 .. n - 1 PROVE r[j] = IF j < i THEN s[j] ELSE s[j + 1]
  <2>1. CASE j < i
    <3>1. j <= i - 1 /\ j \in 1 .. i - 1
      BY <1>1, <2>1
    <3>2. QED BY <1>2, <1>4, <1>5, <2>1, <3>1
  <2>2. CASE ~(j < i)
    <3>1. ~(j <= i - 1) /\ j - (i - 1) \in 1 .. n - i /\ i + (j - (i - 1)) = j + 1
      BY <1>1, <2>2
    <3>2. b[j - (i - 1)] = s[j + 1]
      BY <1>3, <3>1
    <3>3. QED BY <1>4, <1>5, <2>2, <3>1, <3>2
  <2>3. QED BY <2>1, <2>2
<1>7. Len(r) = n - 1
  BY <1>4, <1>5
<1>8. QED BY <1>6, <1>7 DEF n

(* The steps in which neither the list nor a loop's place in it changes.     *)
LEMMA OtherSteps ==
  ASSUME TInv, [Next]_vars,
         \A m \in Mons : ~MonRegister(m) /\ ~MonEnd(m)
  PROVE  master_index' = master_index /\ \A m \in Mons : InList(m) => InList(m)'
<1>0. mon \in [Mons -> MonPlaces]
  BY DEF TInv, LoopTypes
<1> USE DEF natVars
<1>1. CASE UNCHANGED vars
  BY <1>1 DEF vars, InList
<1>2. ASSUME NEW t \in Actors, AddStart(t)
      PROVE  master_index' = master_index /\ \A m \in Mons : InList(m) => InList(m)'
  BY <1>0, <1>2 DEF AddStart, InList
<1>3. ASSUME NEW t \in Actors, (Continue(t) /\ ~AddStart(t)) \/ Answer(t) \/ Decide(t)
      PROVE  master_index' = master_index /\ mon' = mon
  <2>0. CASE ReadArrayEnter(t) \/ ReadArrayCall(t) \/ ReadArrayExit(t)
    BY <2>0 DEF ReadArrayEnter, ReadArrayCall, ReadArrayExit
  <2>1. CASE \/ ReadProbe(t) \/ ReadEnter(t) \/ ReadNative(t) \/ WriteEnter(t) \/ WriteNative(t)
             \/ FlushEnter(t) \/ FlushNative(t) \/ FlushExit(t)
    BY <2>1 DEF ReadProbe, ReadEnter, ReadNative, WriteEnter, WriteNative, FlushEnter, FlushNative,
                FlushExit
  <2>2. CASE \/ NotifyWait(t) \/ NotifySet(t) \/ NotifyJava(t) \/ AddSet(t) \/ AddReady(t)
    BY <2>2 DEF NotifyWait, NotifySet, NotifyJava, AddSet, AddReady
  <2>3. CASE \/ RemoveCheck(t) \/ RemoveTest(t) \/ RemoveSet(t)
             \/ RemoveInterrupt(t) \/ RemoveJoin(t) \/ RemoveClear(t)
    BY <2>3 DEF RemoveCheck, RemoveTest, RemoveSet, RemoveInterrupt, RemoveJoin, RemoveClear
  <2>4. CASE CloseClaim(t) \/ CloseCheck(t) \/ CloseNative(t) \/ CloseOwner(t) \/ CloseReset(t)
    BY <2>4 DEF CloseClaim, CloseCheck, CloseNative, CloseOwner, CloseReset
  <2>5. CASE Answer(t)
    BY <2>5 DEF Answer, ReadDone, WriteDone, FlushDrained, FlushReturn
  <2>6. CASE Decide(t)
    BY <2>6 DEF Decide, ReadCheck, ReadArrayCheck, WriteCheck, FlushCheck, NotifyCall, AddCheck, RemoveCall,
                CloseCall, FlushCallsClose, RemoveInterrupted, CloseInterrupted
  <2>7. QED BY <1>3, <2>0, <2>1, <2>2, <2>3, <2>4, <2>5, <2>6 DEF Continue
<1>4. ASSUME NEW m \in Mons, MonRun(m) \/ MonUnlock(m) \/ MonPoll(m) \/ MonSend(m) \/ MonReturn(m)
      PROVE  master_index' = master_index /\ \A n \in Mons : InList(n) => InList(n)'
  <2>1. CASE MonRun(m) \/ MonUnlock(m) \/ MonPoll(m)
    BY <1>0, <2>1 DEF MonRun, MonUnlock, MonPoll, MonGoto, InList
  <2>2. CASE MonSend(m) \/ MonReturn(m)
    BY <1>0, <2>2 DEF MonSend, MonReturn, MonGoto, InList
  <2>3. QED BY <1>4, <2>1, <2>2
<1>5. QED
  BY <1>1, <1>2, <1>3, <1>4 DEF Next, Loop, InList

LEMMA StepQueue ==
  TInv /\ QueueInv /\ [Next]_vars => QueueInv' /\ [Queue!Next]_master_index
<1> SUFFICES ASSUME TInv, QueueInv, [Next]_vars
             PROVE  QueueInv' /\ [Queue!Next]_master_index
  OBVIOUS
<1>0. master_index \in Seq(Mons) /\ mon \in [Mons -> MonPlaces] /\ Len(master_index) \in Nat
  BY DEF TInv, LoopTypes
<1>1. ASSUME NEW m \in Mons, MonRegister(m) PROVE QueueInv' /\ Queue!Next
  <2> DEFINE n == Len(master_index)
  <2>1. /\ mon[m] = "running" /\ mon' = [mon EXCEPT ![m] = "registered"]
        /\ master_index' = Append(master_index, m)
    BY <1>1 DEF MonRegister, MonGoto
  <2>2. /\ Len(master_index') = n + 1
        /\ \A i \in 1 .. n : master_index'[i] = master_index[i] /\ master_index[i] \in Mons
        /\ master_index'[n + 1] = m
    BY <1>0, <2>1, AppendProperties, ElementOfSeq
  <2>3. \A i \in 1 .. n : master_index[i] # m
    BY <2>1 DEF QueueInv, InList
  <2>4. \A i \in 1 .. n + 1 : i \in 1 .. n \/ i = n + 1
    BY <1>0
  <2>5. InList(m)' /\ \A k \in Mons : InList(k) => InList(k)'
    BY <1>0, <2>1 DEF InList
  <2> HIDE DEF n
  <2>6. \A i \in 1 .. n + 1 : mon'[master_index'[i]] \in {"registered", "looping", "sending"}
    <3>1. \A i \in 1 .. n : InList(master_index[i])
      BY DEF QueueInv, n
    <3>2. QED BY <2>2, <2>4, <2>5, <3>1 DEF InList
  <2>7. \A i, j \in 1 .. n + 1 : master_index'[i] = master_index'[j] => i = j
    <3>1. \A i, j \in 1 .. n : master_index[i] = master_index[j] => i = j
      BY DEF QueueInv, n
    <3>2. QED BY <2>2, <2>3, <2>4, <3>1
  <2>8. Queue!Enter(m)
    BY <2>1, <2>3 DEF Queue!Enter, Queue!Running, n
  <2>9. QED BY <2>2, <2>6, <2>7, <2>8 DEF QueueInv, InList, Queue!Next
<1>2. ASSUME NEW m \in Mons, MonEnd(m) PROVE QueueInv' /\ Queue!Next
  <2> DEFINE n == Len(master_index)
  <2>1. mon' = [mon EXCEPT ![m] = "dead"]
    BY <1>2 DEF MonEnd, MonGoto
  <2>2. PICK i \in 1 .. n :
          /\ master_index[i] = m
          /\ master_index' = SubSeq(master_index, 1, i - 1) \o SubSeq(master_index, i + 1, n)
    BY <1>2 DEF MonEnd
  <2>3. /\ Len(master_index') = n - 1
        /\ \A j \in 1 .. n - 1 : master_index'[j] = IF j < i THEN master_index[j]
                                                  ELSE master_index[j + 1]
    BY <1>0, <2>2, LeftOver
  <2>4. Queue!Leave(m)
    BY <2>2 DEF Queue!Leave
  <2>5. /\ \A j \in 1 .. n : master_index[j] \in Mons /\ InList(master_index[j])
        /\ \A j, k \in 1 .. n : master_index[j] = master_index[k] => j = k
    BY <1>0, ElementOfSeq DEF QueueInv
  <2> HIDE DEF n
  <2>6. ASSUME NEW j \in 1 .. n - 1
        PROVE  \E k \in 1 .. n : /\ k # i /\ master_index'[j] = master_index[k]
                                /\ k = IF j < i THEN j ELSE j + 1
    <3>1. n \in Nat
      BY <1>0 DEF n
    <3>2. CASE j < i
      <4>1. j \in 1 .. n /\ j # i
        BY <3>1, <3>2
      <4>2. QED BY <2>3, <3>2, <4>1
    <3>3. CASE ~(j < i)
      <4>1. j + 1 \in 1 .. n /\ j + 1 # i
        BY <3>1, <3>3
      <4>2. QED BY <2>3, <3>3, <4>1
    <3>4. QED BY <3>2, <3>3
  <2>7. \A j \in 1 .. n - 1 : mon'[master_index'[j]] \in {"registered", "looping", "sending"}
    <3>1. \A k \in Mons : k # m /\ InList(k) => InList(k)'
      BY <1>0, <2>1 DEF InList
    <3>2. \A j \in 1 .. n - 1 : \E k \in Mons : k # m /\ InList(k) /\ master_index'[j] = k
      BY <2>2, <2>5, <2>6
    <3>3. QED BY <3>1, <3>2 DEF InList
  <2>8. \A j, k \in 1 .. n - 1 : master_index'[j] = master_index'[k] => j = k
    <3> SUFFICES ASSUME NEW j \in 1 .. n - 1, NEW k \in 1 .. n - 1, master_index'[j] = master_index'[k]
                 PROVE  j = k
      OBVIOUS
    <3>1. (IF j < i THEN j ELSE j + 1) = (IF k < i THEN k ELSE k + 1)
      BY <2>5, <2>6
    <3>2. QED BY <3>1
  <2>9. QED BY <2>3, <2>4, <2>7, <2>8 DEF QueueInv, InList, Queue!Next
<1>3. CASE \A m \in Mons : ~MonRegister(m) /\ ~MonEnd(m)
  <2>1. master_index' = master_index /\ \A m \in Mons : InList(m) => InList(m)'
    BY <1>3, OtherSteps
  <2>2. \A i \in 1 .. Len(master_index) : master_index[i] \in Mons
    BY <1>0, ElementOfSeq
  <2>3. QueueInv'
    <3>1. \A i \in 1 .. Len(master_index) : InList(master_index[i]) /\ InList(master_index[i])'
      BY <2>1, <2>2 DEF QueueInv
    <3>2. QED BY <2>1, <3>1 DEF QueueInv, InList
  <2>4. QED BY <2>1, <2>3
<1>4. QED BY <1>1, <1>2, <1>3

(* However threads add and remove listeners and close the port, its event    *)
(* loops enter the list at the end and leave it from where they are, each    *)
(* once: what SerialEvents implements with pointers.                         *)
THEOREM ListIsAQueue == Spec => [][Queue!Next]_master_index
<1>1. Init => QueueInv
  BY DEF Init, QueueInv, InList
<1>2. QED BY <1>1, StepQueue, TypesHold, PTL DEF Spec
-----------------------------------------------------------------------------
(* One event loop at a time.  Two threads that add and remove listeners at   *)
(* once, or a listener that outlasts join(3000), break this, so the theorems *)
(* name what an application must keep to: one thread controls the port, the  *)
(* others read, write and flush, listeners call nothing on the port.         *)

OneController(c) ==
  /\ ~SlowListeners
  /\ Interrupted = {}
  /\ \A m \in Mons : Calls[m] = {}
  /\ \A t \in Actors : t # c => Calls[t] \subseteq {"read", "write", "flush"}

IOPlaces == {"idle", "rd_probe", "rd_enter", "rd_lock", "rd_native", "ra_enter",
             "ra_lock", "ra_exit", "wr_enter",
             "wr_lock", "wr_native", "fl_enter", "fl_lock", "fl_native",
             "fl_calling", "fl_exit"}

(* Everyone but c is in an I/O call, monitor threads in none.                *)
Roles(c) ==
  /\ \A t \in Actors : t # c => pc[t] \in IOPlaces
  /\ \A m \in Mons : pc[m] = "idle"
  /\ inFlush = {} /\ inClose \subseteq {c}

Stopped == \A m \in Mons : ~IsAlive(m)

(* Where c is decides whether an event loop runs: only the field monThread   *)
(* has a live thread, it is told to stop only while c waits for its end, and *)
(* the places where c relies on its being gone find it gone.                 *)
Lives(c) ==
  /\ \A m \in Mons : IsAlive(m) => m = monThread
  /\ \A m \in Mons : closing[m] => mon[m] = "dead" \/ (pc[c] = "rm_join" /\ target[c] = m)
  /\ pc[c] \in {"rm_set", "rm_intr"} => monThread # null /\ InList(monThread)
  /\ pc[c] = "rm_join" => target[c] # null /\ target[c] = monThread /\ closing[monThread]
  /\ pc[c] \in {"rm_clear", "cl_native", "cl_owner", "cl_reset", "ad_start"} => Stopped
  /\ ~MonitorThreadAlive => Stopped \/ pc[c] = "ad_wait"

(* The thread that is starting holds the lock c waits for, and has cleared   *)
(* monThreadisInterrupted by the time it lets c go.                          *)
Starts(c) ==
  /\ \A m \in Mons : mon[m] \in {"started", "running", "registered"}
                         => pc[c] = "ad_wait" /\ MonitorThreadLock
  /\ monThreadisInterrupted =>
       \A m \in Mons : IsAlive(m) => mon[m] = "started" \/ pc[c] \in {"rm_intr", "rm_join"}

(* The native list has the one running loop, under the port's descriptor:    *)
(* interruptEventLoop() finds the thread that join() then waits for.         *)
Listed ==
  /\ \A m \in Mons : InList(m) => master_index = <<m>> /\ eisfd[m] = fd
  /\ (\A m \in Mons : ~InList(m)) => master_index = <<>>

Listens(c) ==
  /\ \A m \in Mons : calling[m] # null => mon[m] = "sending" /\ calling[m] = SPEventListener
  /\ pc[c] = "ad_set" => SPEventListener = null

OneInv(c) == Roles(c) /\ Lives(c) /\ Starts(c) /\ Listed /\ Listens(c)

LEMMA InitOne ==
  ASSUME NEW c \in Apps
  PROVE  Init => OneInv(c)
<1> SUFFICES ASSUME Init PROVE OneInv(c)
  OBVIOUS
<1> PICK m \in Mons : /\ monThread = m /\ master_index = <<m>> /\ eisfd[m] = fd
                      /\ mon = [n \in Mons |-> IF n = m THEN "looping" ELSE "unborn"]
                      /\ monThreadisInterrupted = FALSE /\ MonitorThreadAlive = TRUE
                      /\ closing = [n \in Mons |-> FALSE]
                      /\ calling = [n \in Mons |-> null]
                      /\ pc = [t \in Actors |-> "idle"]
                      /\ inClose = {} /\ inFlush = {}
  BY DEF Init
<1>1. Roles(c)
  BY DEF Roles, IOPlaces, Actors
<1>2. Lives(c)
  BY DEF Lives, Stopped, IsAlive, Actors
<1>3. Starts(c)
  BY DEF Starts
<1>4. Listed
  BY DEF Listed, InList
<1>5. Listens(c)
  BY DEF Listens, Actors
<1>6. QED BY <1>1, <1>2, <1>3, <1>4, <1>5 DEF OneInv

(* With one struct in the list, under the port's descriptor, the native code *)
(* finds that one.                                                           *)
LEMMA FoundInList ==
  ASSUME NEW m \in Mons, master_index = <<m>>, eisfd[m] = fd
  PROVE  FirstFound = m
<1>1. Matching = {1}
  BY DEF Matching
<1>2. \E i \in Matching : \A j \in Matching : i <= j
  BY <1>1
<1>3. (CHOOSE i \in Matching : \A j \in Matching : i <= j) \in Matching
  BY Zenon, <1>2
<1>4. QED BY <1>1, <1>3 DEF FirstFound

(* ... and taking it out leaves the list empty.                              *)
LEMMA LastUnlinked ==
  ASSUME NEW m, NEW i \in 1..Len(<<m>>)
  PROVE  SubSeq(<<m>>, 1, i - 1) \o SubSeq(<<m>>, i + 1, Len(<<m>>)) = <<>>
<1>1. i = 1 /\ Len(<<m>>) = 1
  OBVIOUS
<1>2. SubSeq(<<m>>, 1, 0) = <<>> /\ SubSeq(<<m>>, 2, 1) = <<>>
  OBVIOUS
<1>3. QED BY <1>1, <1>2

(* A step changes no more of what OneInv(c) speaks of than where t is.       *)
Elsewhere == UNCHANGED <<fd, SPEventListener, monThread, MonitorThreadLock,
                         MonitorThreadAlive, monThreadisInterrupted, master_index,
                         eisfd, closing, mon, calling, inClose, inFlush>>

(* As Elsewhere, but for the lock, which is c's own, and the end of calls.   *)
Kept == UNCHANGED <<fd, SPEventListener, monThread, MonitorThreadAlive,
                    monThreadisInterrupted, master_index, eisfd, closing, mon, calling>>

(* The places of c of which OneInv(c) says nothing, or little (ad_set).      *)
Quiet == IOPlaces \cup {"nt_wait", "nt_set", "nt_java", "ad_set", "rm_wait", "rm_test",
                        "cl_wait", "cl_check"}

LEMMA StepOne ==
  ASSUME NEW c \in Apps, OneController(c)
  PROVE  TInv /\ OneInv(c) /\ [Next]_vars => OneInv(c)'
<1> SUFFICES ASSUME TInv, OneInv(c), [Next]_vars PROVE OneInv(c)'
  OBVIOUS
<1>0. c \in Actors /\ (c \in Mons => pc[c] = "idle" /\ Calls[c] = {})
  BY DEF OneInv, Roles, Actors, OneController
<1>f. inFlush = {} /\ inClose \subseteq {c}
  BY DEF OneInv, Roles
<1>r. \A t : Return(t) => Goto(t, "idle") /\ inFlush' = {}
  BY <1>f DEF Return
<1>s. \A t \in Actors : t # c => pc[t] \in IOPlaces
  BY DEF OneInv, Roles
<1>a. ASSUME NEW t \in Actors, t \notin Mons, Elsewhere, pc[t] \in IOPlaces,
             NEW q \in IOPlaces, Goto(t, q), pc[c] = "rm_join" => target'[c] = target[c]
      PROVE  OneInv(c)'
  <2> USE <1>0, <1>a DEF Elsewhere, IOPlaces, Goto, TInv, ThreadTypes, OneInv, IsAlive, InList, Stopped
  <2>1. Roles(c)'
    BY DEF Roles
  <2>2. Lives(c)'
    BY DEF Lives
  <2>3. Starts(c)'
    BY DEF Starts
  <2>4. Listed'
    BY DEF Listed
  <2>5. Listens(c)'
    BY DEF Listens
  <2>6. QED BY <2>1, <2>2, <2>3, <2>4, <2>5
<1>b. ASSUME c \notin Mons, Kept, pc[c] \in Quiet, NEW q \in Quiet, Goto(c, q),
             q = "ad_set" => SPEventListener = null, inFlush' = {}, inClose' \subseteq {c}
      PROVE  OneInv(c)'
  <2> USE <1>0, <1>b DEF Kept, Quiet, IOPlaces, Goto, TInv, ThreadTypes, OneInv, IsAlive, InList, Stopped
  <2>1. Roles(c)'
    BY DEF Roles
  <2>2. Lives(c)'
    BY DEF Lives
  <2>3. Starts(c)'
    BY DEF Starts
  <2>4. Listed'
    BY DEF Listed
  <2>5. Listens(c)'
    BY DEF Listens
  <2>6. QED BY <2>1, <2>2, <2>3, <2>4, <2>5
<1>c. ASSUME c \notin Mons, UNCHANGED natVars, NEW q, Goto(c, q),
             q \notin {"ad_set", "ad_wait", "rm_set", "rm_intr", "rm_join"},
             Stopped, \A m \in Mons : closing[m] => mon[m] = "dead",
             inFlush' = {}, inClose' \subseteq {c}
      PROVE  OneInv(c)'
  <2> USE <1>0, <1>c DEF natVars, Goto, TInv, ThreadTypes, OneInv, IsAlive, InList, Stopped
  <2>1. Roles(c)'
    BY DEF Roles
  <2>2. Lives(c)'
    BY DEF Lives
  <2>3. Starts(c)'
    BY DEF Starts
  <2>4. Listed'
    BY DEF Listed
  <2>5. Listens(c)'
    BY DEF Listens
  <2>6. QED BY <2>1, <2>2, <2>3, <2>4, <2>5
<1>1. CASE UNCHANGED vars
  BY <1>1 DEF vars, ioVars, monVars, lockVars, natVars, flagVars, locVars, OneInv,
              Roles, Lives, Starts, Listed, Listens, IsAlive, InList, Stopped
<1>26. ASSUME NEW t \in Actors, \/ ReadArrayCheck(t) \/ ReadArrayEnter(t)
                                 \/ ReadArrayCall(t) \/ ReadArrayExit(t)
      PROVE  OneInv(c)'
  <2>1. /\ Elsewhere /\ t \notin Mons /\ pc[t] \in IOPlaces
        /\ \E q \in IOPlaces : Goto(t, q)
        /\ pc[c] = "rm_join" => target'[c] = target[c]
    BY <1>26, <1>0 DEF ReadArrayCheck, ReadArrayEnter, ReadArrayCall, ReadArrayExit,
       Elsewhere, OneController, OneInv, Roles, TInv, ThreadTypes, IOPlaces, MayCall,
       Goto, ioVars, monVars, lockVars, natVars, flagVars, locVars
  <2>2. QED BY <2>1, <1>a
<1>2. ASSUME NEW t \in Actors, ReadCheck(t) \/ ReadProbe(t) \/ ReadEnter(t)
      PROVE  OneInv(c)'
  <2>1. /\ Elsewhere /\ t \notin Mons /\ pc[t] \in IOPlaces
        /\ \E q \in IOPlaces : Goto(t, q)
        /\ pc[c] = "rm_join" => target'[c] = target[c]
    BY <1>2, <1>0 DEF ReadCheck, ReadProbe, ReadEnter, ReadReturn,
       Elsewhere, OneController, OneInv, Roles, TInv, ThreadTypes, IOPlaces, MayCall,
       Goto, ioVars, monVars, lockVars, natVars, flagVars, locVars
  <2>2. QED BY <2>1, <1>a
<1>3. ASSUME NEW t \in Actors, ReadNative(t) \/ ReadDone(t)
      PROVE  OneInv(c)'
  <2>1. /\ Elsewhere /\ t \notin Mons /\ pc[t] \in IOPlaces
        /\ \E q \in IOPlaces : Goto(t, q)
        /\ pc[c] = "rm_join" => target'[c] = target[c]
    BY <1>3, <1>0 DEF ReadNative, ReadDone, ReadReturn,
       Elsewhere, OneController, OneInv, Roles, TInv, ThreadTypes, IOPlaces, MayCall,
       Goto, ioVars, monVars, lockVars, natVars, flagVars, locVars
  <2>2. QED BY <2>1, <1>a
<1>4. ASSUME NEW t \in Actors, WriteCheck(t) \/ WriteEnter(t) \/ WriteNative(t) \/ WriteDone(t)
      PROVE  OneInv(c)'
  <2>1. /\ Elsewhere /\ t \notin Mons /\ pc[t] \in IOPlaces
        /\ \E q \in IOPlaces : Goto(t, q)
        /\ pc[c] = "rm_join" => target'[c] = target[c]
    BY <1>4, <1>0 DEF WriteCheck, WriteEnter, WriteNative, WriteDone,
       Elsewhere, OneController, OneInv, Roles, TInv, ThreadTypes, IOPlaces, MayCall,
       Goto, ioVars, monVars, lockVars, natVars, flagVars, locVars
  <2>2. QED BY <2>1, <1>a
<1>5. ASSUME NEW t \in Actors, FlushCheck(t) \/ FlushEnter(t) \/ FlushNative(t)
      PROVE  OneInv(c)'
  <2>1. /\ Elsewhere /\ t \notin Mons /\ pc[t] \in IOPlaces
        /\ \E q \in IOPlaces : Goto(t, q)
        /\ pc[c] = "rm_join" => target'[c] = target[c]
    BY <1>5, <1>0 DEF FlushCheck, FlushEnter, FlushNative,
       Elsewhere, OneController, OneInv, Roles, TInv, ThreadTypes, IOPlaces, MayCall,
       Goto, ioVars, monVars, lockVars, natVars, flagVars, locVars
  <2>2. QED BY <2>1, <1>a
<1>6. ASSUME NEW t \in Actors, FlushDrained(t) \/ FlushReturn(t) \/ FlushExit(t)
      PROVE  OneInv(c)'
  <2>1. /\ Elsewhere /\ t \notin Mons /\ pc[t] \in IOPlaces
        /\ \E q \in IOPlaces : Goto(t, q)
        /\ pc[c] = "rm_join" => target'[c] = target[c]
    BY <1>6, <1>0 DEF FlushDrained, FlushReturn, FlushExit,
       Elsewhere, OneController, OneInv, Roles, TInv, ThreadTypes, IOPlaces, MayCall,
       Goto, ioVars, monVars, lockVars, natVars, flagVars, locVars
  <2>2. QED BY <2>1, <1>a
<1>7. ASSUME NEW t \in Actors, FlushCallsClose(t) \/ RemoveInterrupted(t) \/ CloseInterrupted(t)
      PROVE  FALSE
  BY <1>7 DEF FlushCallsClose, RemoveInterrupted, CloseInterrupted, OneController
<1>8. ASSUME NEW t \in Actors, NotifyCall(t) \/ NotifyWait(t) \/ NotifySet(t) \/ NotifyJava(t)
      PROVE  OneInv(c)'
  <2> USE <1>8 DEF NotifyCall, NotifyWait, NotifySet, NotifyJava
  <2>1. t = c /\ t \notin Mons
    BY <1>0, <1>s DEF MayCall, OneController, IOPlaces
  <2>2. Kept /\ inFlush' = {} /\ inClose' = inClose
    BY <1>r, <1>f DEF Kept, ioVars, monVars, natVars, locVars
  <2>3. pc[c] \in Quiet /\ \E q \in Quiet \ {"ad_set"} : Goto(c, q)
    BY <1>r, <2>1 DEF MayCall, Quiet, IOPlaces
  <2>4. QED BY <2>1, <2>2, <2>3, <1>f, <1>b
<1>9. ASSUME NEW t \in Actors, AddCheck(t) \/ RemoveCall(t) \/ CloseCall(t) \/ CloseClaim(t)
      PROVE  OneInv(c)'
  <2> USE <1>9 DEF AddCheck, RemoveCall, CloseCall, CloseClaim
  <2>1. t = c /\ t \notin Mons
    BY <1>0, <1>s DEF MayCall, OneController, IOPlaces
  <2>2. Kept /\ inFlush' = {} /\ inClose' = inClose
    BY <1>r, <1>f DEF Kept, ioVars, monVars, natVars, locVars, lockVars
  <2>3. pc[c] \in Quiet /\ \E q \in Quiet : Goto(c, q) /\ (q = "ad_set" => SPEventListener = null)
    BY <1>r, <2>1 DEF MayCall, Quiet, IOPlaces
  <2>4. QED BY <2>1, <2>2, <2>3, <1>f, <1>b
<1>10. ASSUME NEW t \in Actors, AddSet(t) PROVE OneInv(c)'
  <2>1. t = c /\ t \notin Mons /\ pc[c] = "ad_set"
    BY <1>10, <1>0, <1>s DEF AddSet, IOPlaces
  <2>2. CASE MonitorThreadAlive
    <3>1. /\ Goto(c, "idle") /\ inFlush' = {}
          /\ UNCHANGED <<fd, monThread, MonitorThreadLock, MonitorThreadAlive,
                         monThreadisInterrupted, natVars, inClose>>
      BY <1>10, <1>r, <2>1, <2>2 DEF AddSet, ioVars, lockVars
    <3>2. \A m \in Mons : calling[m] = null
      BY <2>1 DEF OneInv, Listens
    <3> USE <1>0, <2>1, <3>1 DEF Goto, natVars, OneInv, TInv, ThreadTypes, IsAlive, InList, Stopped
    <3>3. Roles(c)'
      BY DEF Roles
    <3>4. Lives(c)'
      BY DEF Lives
    <3>5. Starts(c)'
      BY DEF Starts
    <3>6. Listed'
      BY DEF Listed
    <3>7. Listens(c)'
      BY <3>2 DEF Listens
    <3>8. QED BY <3>3, <3>4, <3>5, <3>6, <3>7
  <2>3. CASE ~MonitorThreadAlive
    <3>1. Stopped /\ \A m \in Mons : closing[m] => mon[m] = "dead"
      BY <2>1, <2>3 DEF OneInv, Lives
    <3>2. Goto(c, "ad_start") /\ UNCHANGED <<natVars, inClose, inFlush>>
      BY <1>10, <2>1, <2>3 DEF AddSet
    <3>3. QED BY <2>1, <3>1, <3>2, <1>f, <1>c
  <2>4. QED BY <2>2, <2>3
<1>11. ASSUME NEW t \in Actors, AddStart(t) PROVE OneInv(c)'
  <2>1. t = c /\ t \notin Mons /\ pc[c] = "ad_start"
    BY <1>11, <1>0, <1>s DEF AddStart, IOPlaces
  <2>2. PICK m \in Mons : mon[m] = "unborn" /\ monThread' = m /\ mon' = [mon EXCEPT ![m] = "started"]
    BY <1>11 DEF AddStart
  <2>3. /\ Goto(c, "ad_wait") /\ MonitorThreadLock' = TRUE
        /\ UNCHANGED <<fd, SPEventListener, MonitorThreadAlive, monThreadisInterrupted,
                       master_index, eisfd, closing, calling, inClose, inFlush>>
    BY <1>11, <2>1 DEF AddStart, ioVars, locVars
  <2>4. Stopped /\ \A n \in Mons : closing[n] => mon[n] = "dead"
    BY <2>1 DEF OneInv, Lives
  <2> USE <1>0, <2>1, <2>2, <2>3, <2>4
      DEF Goto, OneInv, TInv, ThreadTypes, LoopTypes, IsAlive, InList, Stopped
  <2>5. Roles(c)'
    BY DEF Roles
  <2>6. Lives(c)'
    BY DEF Lives
  <2>7. Starts(c)'
    BY DEF Starts
  <2>8. Listed'
    BY DEF Listed
  <2>9. Listens(c)'
    BY DEF Listens
  <2>10. QED BY <2>5, <2>6, <2>7, <2>8, <2>9
<1>12. ASSUME NEW t \in Actors, AddReady(t) PROVE OneInv(c)'
  <2>1. t = c /\ t \notin Mons /\ pc[c] = "ad_wait" /\ ~MonitorThreadLock
    BY <1>12, <1>0, <1>s DEF AddReady, NativeCodeReady, IOPlaces
  <2>2. /\ Goto(c, "idle") /\ inFlush' = {} /\ MonitorThreadAlive'
        /\ UNCHANGED <<fd, SPEventListener, monThread, MonitorThreadLock,
                       monThreadisInterrupted, natVars, inClose>>
    BY <1>12, <1>r, <2>1 DEF AddReady, ioVars, lockVars
  <2> USE <1>0, <2>1, <2>2
      DEF Goto, natVars, OneInv, TInv, ThreadTypes, IsAlive, InList, Stopped
  <2>3. Roles(c)'
    BY DEF Roles
  <2>4. Lives(c)'
    BY DEF Lives
  <2>5. Starts(c)'
    BY DEF Starts
  <2>6. Listed'
    BY DEF Listed
  <2>7. Listens(c)'
    BY DEF Listens
  <2>8. QED BY <2>3, <2>4, <2>5, <2>6, <2>7
<1>27. ASSUME NEW t \in Actors, RemoveCheck(t) PROVE OneInv(c)'
  <2>1. t = c /\ t \notin Mons /\ pc[c] = "rm_wait"
    BY <1>27, <1>0, <1>s DEF RemoveCheck, IOPlaces
  <2>2. UNCHANGED natVars /\ \A m \in Mons : closing[m] => mon[m] = "dead"
    BY <1>27, <2>1 DEF RemoveCheck, OneInv, Lives
  <2>3. CASE monThreadisInterrupted
    <3>1. Stopped
      BY <2>1, <2>3 DEF OneInv, Starts, Stopped
    <3>2. inFlush' = {} /\ inClose' \subseteq {c} /\ \E q \in {"idle", "cl_native"} : Goto(c, q)
      BY <1>27, <1>r, <1>f, <2>1, <2>3 DEF RemoveCheck, RemoveReturn
    <3>3. QED BY <2>1, <2>2, <3>1, <3>2, <1>c
  <2>4. CASE ~monThreadisInterrupted
    <3>1. Kept /\ inFlush' = {} /\ inClose' = inClose /\ Goto(c, "rm_test")
      BY <1>27, <1>f, <2>1, <2>4 DEF RemoveCheck, Kept, ioVars, natVars
    <3>2. QED BY <2>1, <3>1, <1>f, <1>b DEF Quiet, IOPlaces
  <2>5. QED BY <2>3, <2>4
<1>13. ASSUME NEW t \in Actors, RemoveTest(t) PROVE OneInv(c)'
  <2>1. t = c /\ t \notin Mons /\ pc[c] = "rm_test"
    BY <1>13, <1>0, <1>s DEF RemoveTest, IOPlaces
  <2>2. /\ UNCHANGED <<ioVars, monVars, lockVars, natVars, flagVars, locVars>>
        /\ \A m \in Mons : closing[m] => mon[m] = "dead"
    BY <1>13, <2>1 DEF RemoveTest, OneInv, Lives
  <2>3. CASE monThread # null /\ IsAlive(monThread)
    <3>1. Goto(c, "rm_set")
      BY <1>13, <2>1, <2>3 DEF RemoveTest
    <3>2. monThread \in Mons
      BY <2>3 DEF TInv, PortTypes
    <3>3. InList(monThread)
      BY <2>1, <2>3, <3>2 DEF OneInv, Starts, IsAlive, InList, TInv, LoopTypes, MonPlaces
    <3> USE <1>0, <1>f, <2>1, <2>2, <2>3, <3>1, <3>3
        DEF Goto, ioVars, monVars, lockVars, natVars, locVars, OneInv, TInv, ThreadTypes, IsAlive,
            InList, Stopped
    <3>4. Roles(c)'
      BY DEF Roles
    <3>5. Lives(c)'
      BY DEF Lives
    <3>6. Starts(c)'
      BY DEF Starts
    <3>7. Listed'
      BY DEF Listed
    <3>8. Listens(c)'
      BY DEF Listens
    <3>9. QED BY <3>4, <3>5, <3>6, <3>7, <3>8
  <2>4. CASE ~(monThread # null /\ IsAlive(monThread))
    <3>1. Stopped
      BY <2>4, NullIsNew DEF OneInv, Lives, Stopped
    <3>2. Goto(c, "rm_clear") /\ UNCHANGED <<natVars, inClose, inFlush>>
      BY <1>13, <2>1, <2>4 DEF RemoveTest, locVars
    <3>3. QED BY <2>1, <2>2, <3>1, <3>2, <1>c, <1>f
  <2>5. QED BY <2>3, <2>4
<1>28. ASSUME NEW t \in Actors, RemoveSet(t) PROVE OneInv(c)'
  <2>1. t = c /\ t \notin Mons /\ pc[c] = "rm_set"
    BY <1>28, <1>0, <1>s DEF RemoveSet, IOPlaces
  <2>2. /\ Goto(c, "rm_intr") /\ monThreadisInterrupted'
        /\ UNCHANGED <<fd, SPEventListener, monThread, MonitorThreadLock,
                       MonitorThreadAlive, natVars, inClose, inFlush>>
    BY <1>28, <2>1 DEF RemoveSet, ioVars, lockVars, locVars
  <2> USE <1>0, <2>1, <2>2
      DEF Goto, natVars, OneInv, TInv, ThreadTypes, IsAlive, InList, Stopped
  <2>3. Roles(c)'
    BY DEF Roles
  <2>4. Lives(c)'
    BY DEF Lives
  <2>5. Starts(c)'
    BY DEF Starts
  <2>6. Listed'
    BY DEF Listed
  <2>7. Listens(c)'
    BY DEF Listens
  <2>8. QED BY <2>3, <2>4, <2>5, <2>6, <2>7
<1>14. ASSUME NEW t \in Actors, RemoveInterrupt(t) PROVE OneInv(c)'
  <2>1. t = c /\ t \notin Mons /\ pc[c] = "rm_intr"
    BY <1>14, <1>0, <1>s DEF RemoveInterrupt, IOPlaces
  <2>2. monThread \in Mons /\ monThread # null /\ InList(monThread)
    BY <2>1 DEF OneInv, Lives, TInv, PortTypes
  <2>3. FirstFound = monThread
    BY <2>2, FoundInList DEF OneInv, Listed
  <2>4. /\ closing' = [closing EXCEPT ![monThread] = TRUE]
        /\ target' = [target EXCEPT ![c] = monThread] /\ Goto(c, "rm_join")
    BY <1>14, <2>1, <2>2, <2>3 DEF RemoveInterrupt
  <2>5. UNCHANGED <<fd, SPEventListener, monThread, MonitorThreadLock, MonitorThreadAlive,
                    monThreadisInterrupted, master_index, eisfd, mon, calling, inClose, inFlush>>
    BY <1>14, <2>1, <2>2 DEF RemoveInterrupt, ioVars, monVars, lockVars
  <2> USE <1>0, <2>1, <2>2, <2>4, <2>5
      DEF Goto, OneInv, TInv, ThreadTypes, LoopTypes, IsAlive, InList, Stopped
  <2>6. Roles(c)'
    BY DEF Roles
  <2>7. Lives(c)'
    BY DEF Lives
  <2>8. Starts(c)'
    BY DEF Starts
  <2>9. Listed'
    BY DEF Listed
  <2>10. Listens(c)'
    BY DEF Listens
  <2>11. QED BY <2>6, <2>7, <2>8, <2>9, <2>10
<1>15. ASSUME NEW t \in Actors, RemoveJoin(t) PROVE OneInv(c)'
  <2>1. t = c /\ t \notin Mons /\ pc[c] = "rm_join"
    BY <1>15, <1>0, <1>s DEF RemoveJoin, IOPlaces
  <2>2. target[c] = monThread /\ monThread \in Mons /\ closing[monThread]
    BY <2>1 DEF OneInv, Lives, TInv, PortTypes
  <2>3. mon[monThread] = "dead"
    BY <1>15, <2>1, <2>2 DEF RemoveJoin, GivesUpOn, OneController, OneInv, Roles
  <2>4. Stopped /\ \A m \in Mons : closing[m] => mon[m] = "dead"
    BY <2>1, <2>2, <2>3 DEF OneInv, Lives, Stopped, IsAlive
  <2>5. Goto(c, "rm_clear") /\ UNCHANGED <<natVars, inClose, inFlush>>
    BY <1>15, <2>1 DEF RemoveJoin
  <2>6. QED BY <2>1, <2>4, <2>5, <1>c, <1>f
<1>16. ASSUME NEW t \in Actors, RemoveClear(t) PROVE OneInv(c)'
  <2>1. t = c /\ t \notin Mons /\ pc[c] = "rm_clear"
    BY <1>16, <1>0, <1>s DEF RemoveClear, IOPlaces
  <2>2. Stopped /\ \A m \in Mons : closing[m] => mon[m] = "dead"
    BY <2>1 DEF OneInv, Lives
  <2>3. /\ inFlush' = {} /\ inClose' \subseteq {c} /\ UNCHANGED natVars
        /\ \E q \in {"idle", "cl_native"} : Goto(c, q)
    BY <1>16, <1>r, <1>f, <2>1 DEF RemoveClear, RemoveReturn
  <2>4. QED BY <2>1, <2>2, <2>3, <1>c
<1>17. ASSUME NEW t \in Actors, CloseCheck(t) PROVE OneInv(c)'
  <2>1. t = c /\ t \notin Mons /\ pc[c] = "cl_check"
    BY <1>17, <1>0, <1>s DEF CloseCheck, IOPlaces
  <2>2. CASE fd /\ monThreadisInterrupted
    <3>1. Stopped /\ \A m \in Mons : closing[m] => mon[m] = "dead"
      BY <2>1, <2>2 DEF OneInv, Lives, Starts, Stopped
    <3>2. Goto(c, "cl_native") /\ UNCHANGED <<natVars, inClose, inFlush>>
      BY <1>17, <2>1, <2>2 DEF CloseCheck
    <3>3. QED BY <2>1, <3>1, <3>2, <1>c, <1>f
  <2>3. CASE ~(fd /\ monThreadisInterrupted)
    <3>1. /\ Kept /\ inFlush' = {} /\ inClose' \subseteq {c}
          /\ \E q \in {"idle", "rm_wait"} : Goto(c, q)
      BY <1>17, <1>r, <1>f, <2>1, <2>3 DEF CloseCheck, Kept, ioVars, monVars, natVars
    <3>2. QED BY <2>1, <3>1, <1>b DEF Quiet, IOPlaces
  <2>4. QED BY <2>2, <2>3
<1>18. ASSUME NEW t \in Actors, CloseNative(t) \/ CloseOwner(t) \/ CloseReset(t) PROVE OneInv(c)'
  <2> USE <1>18 DEF CloseNative, CloseOwner, CloseReset
  <2>1. t = c /\ t \notin Mons /\ pc[c] \in {"cl_native", "cl_owner", "cl_reset"}
    BY <1>0, <1>s DEF IOPlaces
  <2>2. Stopped /\ \A m \in Mons : closing[m] => mon[m] = "dead"
    BY <2>1 DEF OneInv, Lives
  <2>3. /\ inFlush' = {} /\ UNCHANGED <<natVars, inClose>>
        /\ \E q \in {"idle", "cl_owner", "cl_reset"} : Goto(c, q)
    BY <1>r, <1>f, <2>1 DEF locVars
  <2>4. QED BY <2>1, <2>2, <2>3, <1>c, <1>f
<1>19. ASSUME NEW m \in Mons, MonRun(m) PROVE OneInv(c)'
  <2>1. Roles(c)'
    BY <1>19, <1>0 DEF OneInv, TInv, PortTypes, LoopTypes, ThreadTypes, Roles,
       MonRun, MonGoto, ioVars, monVars, lockVars, natVars, flagVars, locVars
  <2>2. Lives(c)'
    BY <1>19, <1>0 DEF OneInv, TInv, PortTypes, LoopTypes, ThreadTypes, Lives, Stopped, IsAlive, InList,
       MonRun, MonGoto, ioVars, monVars, lockVars, natVars, flagVars, locVars
  <2>3. Starts(c)'
    BY <1>19, <1>0 DEF OneInv, TInv, PortTypes, LoopTypes, ThreadTypes, Starts, IsAlive, Lives, Stopped,
       MonRun, MonGoto, ioVars, monVars, lockVars, natVars, flagVars, locVars
  <2>4. Listed'
    BY <1>19, <1>0 DEF OneInv, TInv, PortTypes, LoopTypes, ThreadTypes, Listed, InList, Lives, Stopped, IsAlive,
       MonRun, MonGoto, ioVars, monVars, lockVars, natVars, flagVars, locVars
  <2>5. Listens(c)'
    BY <1>19, <1>0 DEF OneInv, TInv, PortTypes, LoopTypes, ThreadTypes, Listens, Lives, Stopped, IsAlive,
       MonRun, MonGoto, ioVars, monVars, lockVars, natVars, flagVars, locVars
  <2>6. QED BY <2>1, <2>2, <2>3, <2>4, <2>5 DEF OneInv
<1>20. ASSUME NEW m \in Mons, MonRegister(m) PROVE OneInv(c)'
  <2>1. Roles(c)'
    BY <1>20, <1>0 DEF OneInv, TInv, PortTypes, LoopTypes, ThreadTypes, Roles,
       MonRegister, MonGoto, ioVars, monVars, lockVars, natVars, flagVars, locVars
  <2>2. Lives(c)'
    <3>1. m = monThread /\ mon' = [mon EXCEPT ![m] = "registered"] /\ pc[c] = "ad_wait"
      BY <1>20 DEF OneInv, Lives, Starts, IsAlive, MonRegister, MonGoto
    <3>2. closing' = [closing EXCEPT ![m] = FALSE]
      BY <1>20 DEF MonRegister
    <3>3. UNCHANGED <<monVars, pc, target>>
      BY <1>20 DEF MonRegister, locVars
    <3>4. QED BY <1>20, <3>1, <3>2, <3>3 DEF OneInv, TInv, LoopTypes, Lives, Stopped, IsAlive, InList, monVars
  <2>3. Starts(c)'
    BY <1>20, <1>0 DEF OneInv, TInv, PortTypes, LoopTypes, ThreadTypes, Starts, IsAlive, Lives, Stopped,
       MonRegister, MonGoto, ioVars, monVars, lockVars, natVars, flagVars, locVars
  <2>4. Listed'
    <3>1. \A n \in Mons : ~InList(n)
      BY <1>20 DEF OneInv, Lives, IsAlive, InList, MonRegister
    <3>2. master_index' = <<m>>
      <4>1. master_index = <<>>
        BY <3>1 DEF OneInv, Listed
      <4>2. QED BY <1>20, <4>1 DEF MonRegister
    <3>3. /\ eisfd' = [eisfd EXCEPT ![m] = fd] /\ fd' = fd
          /\ mon' = [mon EXCEPT ![m] = "registered"]
      BY <1>20 DEF MonRegister, MonGoto, ioVars
    <3>4. QED BY <1>20, <3>1, <3>2, <3>3 DEF InList, Listed, TInv, LoopTypes
  <2>5. Listens(c)'
    BY <1>20, <1>0 DEF OneInv, TInv, PortTypes, LoopTypes, ThreadTypes, Listens, Lives, Stopped, IsAlive,
       MonRegister, MonGoto, ioVars, monVars, lockVars, natVars, flagVars, locVars
  <2>6. QED BY <2>1, <2>2, <2>3, <2>4, <2>5 DEF OneInv
<1>21. ASSUME NEW m \in Mons, MonUnlock(m) PROVE OneInv(c)'
  <2>1. Roles(c)'
    BY <1>21, <1>0 DEF OneInv, TInv, PortTypes, LoopTypes, ThreadTypes, Roles,
       MonUnlock, MonGoto, ioVars, monVars, lockVars, natVars, flagVars, locVars
  <2>2. Lives(c)'
    BY <1>21, <1>0 DEF OneInv, TInv, PortTypes, LoopTypes, ThreadTypes, Lives, Stopped, IsAlive, InList,
       MonUnlock, MonGoto, ioVars, monVars, lockVars, natVars, flagVars, locVars
  <2>3. Starts(c)'
    BY <1>21, <1>0 DEF OneInv, TInv, PortTypes, LoopTypes, ThreadTypes, Starts, IsAlive, Lives, Stopped,
       MonUnlock, MonGoto, ioVars, monVars, lockVars, natVars, flagVars, locVars
  <2>4. Listed'
    BY <1>21, <1>0 DEF OneInv, TInv, PortTypes, LoopTypes, ThreadTypes, Listed, InList, Lives, Stopped, IsAlive,
       MonUnlock, MonGoto, ioVars, monVars, lockVars, natVars, flagVars, locVars
  <2>5. Listens(c)'
    BY <1>21, <1>0 DEF OneInv, TInv, PortTypes, LoopTypes, ThreadTypes, Listens, Lives, Stopped, IsAlive,
       MonUnlock, MonGoto, ioVars, monVars, lockVars, natVars, flagVars, locVars
  <2>6. QED BY <2>1, <2>2, <2>3, <2>4, <2>5 DEF OneInv
<1>22. ASSUME NEW m \in Mons, MonEnd(m) PROVE OneInv(c)'
  <2>1. Roles(c)'
    BY <1>22, <1>0 DEF OneInv, TInv, PortTypes, LoopTypes, ThreadTypes, Roles,
       MonEnd, MonGoto, ioVars, monVars, lockVars, natVars, flagVars, locVars
  <2>2. Lives(c)'
    BY <1>22, <1>0 DEF OneInv, TInv, PortTypes, LoopTypes, ThreadTypes, Lives, Stopped, IsAlive, InList,
       MonEnd, MonGoto, ioVars, monVars, lockVars, natVars, flagVars, locVars
  <2>3. Starts(c)'
    BY <1>22, <1>0 DEF OneInv, TInv, PortTypes, LoopTypes, ThreadTypes, Starts, IsAlive, Lives, Stopped,
       MonEnd, MonGoto, ioVars, monVars, lockVars, natVars, flagVars, locVars
  <2>4. Listed'
    <3>1. master_index = <<m>> /\ \A n \in Mons : n # m => ~InList(n)
      BY <1>22 DEF OneInv, Listed, Lives, IsAlive, InList, MonEnd
    <3>2. master_index' = <<>>
      BY <1>22, <3>1, LastUnlinked DEF MonEnd
    <3>3. mon' = [mon EXCEPT ![m] = "dead"]
      BY <1>22 DEF MonEnd, MonGoto
    <3>4. QED BY <1>22, <3>1, <3>2, <3>3 DEF InList, Listed, TInv, LoopTypes
  <2>5. Listens(c)'
    BY <1>22, <1>0 DEF OneInv, TInv, PortTypes, LoopTypes, ThreadTypes, Listens, Lives, Stopped, IsAlive,
       MonEnd, MonGoto, ioVars, monVars, lockVars, natVars, flagVars, locVars
  <2>6. QED BY <2>1, <2>2, <2>3, <2>4, <2>5 DEF OneInv
<1>23. ASSUME NEW m \in Mons, MonPoll(m) PROVE OneInv(c)'
  <2>1. Roles(c)'
    BY <1>23, <1>0 DEF OneInv, TInv, PortTypes, LoopTypes, ThreadTypes, Roles,
       MonPoll, MonGoto, ioVars, monVars, lockVars, natVars, flagVars, locVars
  <2>2. Lives(c)'
    BY <1>23, <1>0 DEF OneInv, TInv, PortTypes, LoopTypes, ThreadTypes, Lives, Stopped, IsAlive, InList,
       MonPoll, MonGoto, ioVars, monVars, lockVars, natVars, flagVars, locVars
  <2>3. Starts(c)'
    BY <1>23, <1>0 DEF OneInv, TInv, PortTypes, LoopTypes, ThreadTypes, Starts, IsAlive, Lives, Stopped,
       MonPoll, MonGoto, ioVars, monVars, lockVars, natVars, flagVars, locVars
  <2>4. Listed'
    BY <1>23, <1>0 DEF OneInv, TInv, PortTypes, LoopTypes, ThreadTypes, Listed, InList, Lives, Stopped, IsAlive,
       MonPoll, MonGoto, ioVars, monVars, lockVars, natVars, flagVars, locVars
  <2>5. Listens(c)'
    BY <1>23, <1>0 DEF OneInv, TInv, PortTypes, LoopTypes, ThreadTypes, Listens, Lives, Stopped, IsAlive,
       MonPoll, MonGoto, ioVars, monVars, lockVars, natVars, flagVars, locVars
  <2>6. QED BY <2>1, <2>2, <2>3, <2>4, <2>5 DEF OneInv
<1>24. ASSUME NEW m \in Mons, MonSend(m) PROVE OneInv(c)'
  <2>1. Roles(c)'
    BY <1>24, <1>0 DEF OneInv, TInv, PortTypes, LoopTypes, ThreadTypes, Roles,
       MonSend, MonGoto, ioVars, monVars, lockVars, natVars, flagVars, locVars
  <2>2. Lives(c)'
    BY <1>24, <1>0 DEF OneInv, TInv, PortTypes, LoopTypes, ThreadTypes, Lives, Stopped, IsAlive, InList,
       MonSend, MonGoto, ioVars, monVars, lockVars, natVars, flagVars, locVars
  <2>3. Starts(c)'
    BY <1>24, <1>0 DEF OneInv, TInv, PortTypes, LoopTypes, ThreadTypes, Starts, IsAlive, Lives, Stopped,
       MonSend, MonGoto, ioVars, monVars, lockVars, natVars, flagVars, locVars
  <2>4. Listed'
    BY <1>24, <1>0 DEF OneInv, TInv, PortTypes, LoopTypes, ThreadTypes, Listed, InList, Lives, Stopped, IsAlive,
       MonSend, MonGoto, ioVars, monVars, lockVars, natVars, flagVars, locVars
  <2>5. Listens(c)'
    BY <1>24, <1>0 DEF OneInv, TInv, PortTypes, LoopTypes, ThreadTypes, Listens, Lives, Stopped, IsAlive,
       MonSend, MonGoto, ioVars, monVars, lockVars, natVars, flagVars, locVars
  <2>6. QED BY <2>1, <2>2, <2>3, <2>4, <2>5 DEF OneInv
<1>25. ASSUME NEW m \in Mons, MonReturn(m) PROVE OneInv(c)'
  <2>1. Roles(c)'
    BY <1>25, <1>0 DEF OneInv, TInv, PortTypes, LoopTypes, ThreadTypes, Roles,
       MonReturn, MonGoto, ioVars, monVars, lockVars, natVars, flagVars, locVars
  <2>2. Lives(c)'
    BY <1>25, <1>0 DEF OneInv, TInv, PortTypes, LoopTypes, ThreadTypes, Lives, Stopped, IsAlive, InList,
       MonReturn, MonGoto, ioVars, monVars, lockVars, natVars, flagVars, locVars
  <2>3. Starts(c)'
    BY <1>25, <1>0 DEF OneInv, TInv, PortTypes, LoopTypes, ThreadTypes, Starts, IsAlive, Lives, Stopped,
       MonReturn, MonGoto, ioVars, monVars, lockVars, natVars, flagVars, locVars
  <2>4. Listed'
    BY <1>25, <1>0 DEF OneInv, TInv, PortTypes, LoopTypes, ThreadTypes, Listed, InList, Lives, Stopped, IsAlive,
       MonReturn, MonGoto, ioVars, monVars, lockVars, natVars, flagVars, locVars
  <2>5. Listens(c)'
    BY <1>25, <1>0 DEF OneInv, TInv, PortTypes, LoopTypes, ThreadTypes, Listens, Lives, Stopped, IsAlive,
       MonReturn, MonGoto, ioVars, monVars, lockVars, natVars, flagVars, locVars
  <2>6. QED BY <2>1, <2>2, <2>3, <2>4, <2>5 DEF OneInv
<1>29. QED
  BY <1>1, <1>2, <1>3, <1>4, <1>5, <1>6, <1>7, <1>8, <1>9, <1>10, <1>11, <1>12, <1>13, <1>14, <1>15, <1>16, <1>17, <1>18, <1>19, <1>20, <1>21, <1>22, <1>23, <1>24, <1>25, <1>26, <1>27, <1>28
     DEF Next, Continue, Answer, Decide, Loop

LEMMA OneHolds ==
  ASSUME NEW c \in Apps, OneController(c)
  PROVE  Spec => []OneInv(c)
BY TypesHold, InitOne, StepOne, PTL DEF Spec

(* As long as one thread controls the port, the port has one event loop: a   *)
(* listener can be removed and added again any number of times, and the      *)
(* port closed, without two loops living side by side.                       *)
THEOREM OneEventLoop ==
  ASSUME NEW c \in Apps, OneController(c)
  PROVE  Spec => []OneMonitor
<1>1. OneInv(c) => OneMonitor
  BY DEF OneInv, Lives, OneMonitor
<1>2. QED BY <1>1, OneHolds, PTL

(* Under the same condition the event loop runs no listener but the one that *)
(* is set: removeEventListener() has waited for the one it has removed, if a *)
(* loop was running it.                                                      *)
THEOREM RemovedListenerRests ==
  ASSUME NEW c \in Apps, OneController(c)
  PROVE  Spec => []LoopRunsCurrentListener
<1>1. OneInv(c) => LoopRunsCurrentListener
  BY DEF OneInv, Listens, LoopRunsCurrentListener
<1>2. QED BY <1>1, OneHolds, PTL
=============================================================================
