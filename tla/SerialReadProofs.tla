--------------------------- MODULE SerialReadProofs ---------------------------
(***************************************************************************)
(* Proofs about SerialRead for any timeouts, thresholds, lengths, rounds    *)
(* and threads: a read stays within the array it was given, and one without *)
(* a timeout fills it; the terminal keeps the settings of the fields.       *)
(***************************************************************************)
EXTENDS SerialRead, TLAPS

USE TimeoutsAreTicks, ThresholdsAreNumbers, LengthsArePositive, RoundsArePositive

(* The part of TypeOK that the argument needs. *)
Types == /\ threshold \in Nat /\ vmin \in Nat /\ received \in Nat
         /\ call \in {"byte", "array", "terminated"} /\ pc \in Places
         /\ len \in Nat /\ Minimum \in Nat /\ total \in Nat
         /\ length \in Nat /\ bytes \in Nat /\ left \in Nat
         /\ inRead.min \in Nat
         /\ setting = [s \in Setters |-> setting[s]]
         /\ \A s \in Setters : setting[s].thresh \in Int

(* What a read knows at each place.  Before read_byte_array it has asked for *)
(* no more than the array holds; inside, bytes and left add up to what was   *)
(* asked; a terminated read asks byte by byte and stops before Minimum.      *)
Asked == /\ Minimum <= len
         /\ total < len
         /\ call # "terminated" => total = 0

Asking == /\ length = bytes + left
          /\ IF call = "terminated" THEN length = 1 ELSE length = Minimum

ReadInv == /\ pc \in {"ask", "clip"} => total = 0 /\ len > 0
           /\ pc \in {"start", "loop", "select", "read", "done"} => Asked
           /\ pc \in {"loop", "select", "read", "done"} => Asking
           /\ pc = "idle" => total = 0

IInv == Types /\ ReadInv

LEMMA SmallerFact == \A m, n \in Nat : /\ Smaller(m, n) \in Nat
                                       /\ Smaller(m, n) <= m /\ Smaller(m, n) <= n
BY DEF Smaller

LEMMA InitInv == Init => IInv
BY DEF Init, IInv, Types, ReadInv, Places, Settings, Idle

LEMMA StepInv == IInv /\ [Next]_vars => IInv'
<1> SUFFICES ASSUME IInv, [Next]_vars PROVE IInv'
    OBVIOUS
<1> USE SmallerFact DEF IInv, Types, ReadInv, Asked, Asking, Places
<1>1. CASE UNCHANGED vars
    BY <1>1 DEF vars, portVars, callVars, loopVars, timeVars
<1> USE DEF portVars, callVars, loopVars, timeVars
<1>2. ASSUME NEW kind \in {"byte", "array", "terminated"}, NEW room \in Lengths, Call(kind, room)
      PROVE  IInv'
    BY <1>2 DEF Call
<1>3. CASE AskAvailable
    <2>1. CASE threshold = 0
        <3>1. Minimum' \in Nat /\ Minimum' <= len
            <4>1. len \in Nat /\ len > 0 /\ received \in Nat
                BY <1>3 DEF AskAvailable
            <4>2. CASE received = 0
                <5>1. Minimum' = 1
                    BY <1>3, <2>1, <4>2 DEF AskAvailable
                <5>2. QED
                    BY <4>1, <5>1
            <4>3. CASE received # 0
                <5>1. Minimum' = Smaller(len, received)
                    BY <1>3, <2>1, <4>3 DEF AskAvailable
                <5>2. QED
                    BY <4>1, <5>1
            <4>4. QED
                BY <4>2, <4>3
        <3>2. pc' = "start"
            BY <1>3, <2>1 DEF AskAvailable
        <3>3. QED
            BY <1>3, <3>1, <3>2 DEF AskAvailable
    <2>2. CASE threshold # 0
        BY <1>3, <2>2 DEF AskAvailable
    <2>3. QED
        BY <2>1, <2>2
<1>4. CASE ClipToThreshold
    BY <1>4 DEF ClipToThreshold
<1>5. CASE Start
    BY <1>5 DEF Start
<1>6. CASE Loop
    BY <1>6 DEF Loop
<1>7. CASE Select
    <2>1. inRead'.min \in Nat
        BY <1>7 DEF Select
    <2>2. pc = "select" /\ pc' \in {"loop", "read"}
        BY <1>7 DEF Select
    <2>3. QED
        BY <1>7, <2>1, <2>2 DEF Select
<1>8. CASE Read
    <2>1. Smaller(Needed, received) \in Nat
        BY DEF Needed, Smaller
    <2>2. PICK n \in Smaller(Needed, received) .. Smaller(left, received) :
            bytes' = bytes + n /\ left' = left - n /\ received' = received - n
        BY <1>8 DEF Read
    <2>3. n \in Nat /\ n <= left /\ n <= received
        BY <2>1, <2>2 DEF Smaller
    <2>4. /\ bytes' \in Nat /\ left' \in Nat /\ received' \in Nat
          /\ bytes' + left' = bytes + left
        BY <2>2, <2>3
    <2>5. pc = "read" /\ pc' = "loop" /\ inRead' = [min |-> 0, time |-> 0]
        BY <1>8 DEF Read, LeaveRead
    <2>6. UNCHANGED <<portVars, callVars, length, setting>>
        BY <1>8 DEF Read
    <2>7. QED
        BY <2>4, <2>5, <2>6
<1>9. CASE ReadNothing
    BY <1>9 DEF ReadNothing, LeaveRead
<1>10. CASE Fail
    BY <1>10 DEF Fail, Return
<1>11. CASE Done
    <2>1. CASE Return
        BY <1>11, <2>1 DEF Done, Return
    <2>2. CASE /\ call = "terminated" /\ bytes > 0 /\ total + bytes < Minimum
               /\ total' = total + bytes
               /\ pc' = "start"
               /\ UNCHANGED <<call, len, Minimum, loopVars, timeVars, inRead, changed>>
        BY <1>11, <2>2 DEF Done
    <2>3. QED
        BY <1>11, <2>1, <2>2 DEF Done
<1>12. ASSUME NEW s \in Setters, SetTimeout(s) PROVE IInv'
    <2>1. PICK time \in Timeouts \cup {Disabled} :
            setting' = [setting EXCEPT ![s] = [time |-> time, thresh |-> threshold]]
        BY <1>12 DEF SetTimeout
    <2>2. UNCHANGED <<threshold, vmin, received, callVars, loopVars, inRead, pc>>
        BY <1>12 DEF SetTimeout
    <2>3. QED
        BY <2>1, <2>2
<1>13. ASSUME NEW s \in Setters, SetThreshold(s) PROVE IInv'
    <2>1. PICK thresh \in Thresholds \cup {0} :
            /\ threshold' = thresh
            /\ setting' = [setting EXCEPT ![s] = [time |-> timeout, thresh |-> thresh]]
        BY <1>13 DEF SetThreshold
    <2>2. UNCHANGED <<vmin, received, callVars, loopVars, inRead, pc>>
        BY <1>13 DEF SetThreshold
    <2>3. QED
        BY <2>1, <2>2
<1>14. ASSUME NEW s \in Setters, SetTerminal(s) PROVE IInv'
    <2>1. vmin' \in Nat
        <3>1. setting[s].thresh % 256 \in Nat
            OBVIOUS
        <3>2. vmin' = setting[s].thresh % 256 \/ vmin' = vmin
            BY <1>14 DEF SetTerminal
        <3>3. QED
            BY <3>1, <3>2
    <2>2. setting' = [setting EXCEPT ![s] = Idle]
        BY <1>14 DEF SetTerminal
    <2>3. UNCHANGED <<threshold, received, callVars, loopVars, inRead, pc>>
        BY <1>14 DEF SetTerminal
    <2>4. QED
        BY <2>1, <2>2, <2>3 DEF Idle
<1>15. CASE Arrive
    BY <1>15 DEF Arrive
<1>16. CASE HangUp
    BY <1>16 DEF HangUp
<1>17. CASE Tick
    BY <1>17 DEF Tick
<1>18. QED
    BY <1>1, <1>2, <1>3, <1>4, <1>5, <1>6, <1>7, <1>8, <1>9, <1>10, <1>11, <1>12,
       <1>13, <1>14, <1>15, <1>16, <1>17
    DEF Next, Go

LEMMA InvHolds == Spec => []IInv
BY InitInv, StepInv, PTL DEF Spec

(* No READ writes past the caller's array: read_byte_array's count of what   *)
(* is left, the threshold's clipping and the terminated read's position      *)
(* agree for every length, threshold and order of settings and bytes.        *)
THEOREM ReadsStayWithinArray == Spec => []WithinArray
<1>1. IInv => WithinArray
    BY DEF IInv, Types, ReadInv, Asked, Asking, WithinArray
<1>2. QED
    BY <1>1, InvHolds, PTL
-----------------------------------------------------------------------------
(* Types *)

(* The rest of TypeOK. *)
Ranges ==
  /\ timeout \in Timeouts \cup {Disabled} /\ threshold \in Thresholds \cup {0}
  /\ vmin \in 0 .. 255 /\ vtime \in 0 .. 255
  /\ received \in 0 .. Capacity
  /\ limit \in Timeouts \cup {Disabled} /\ count \in 0 .. Rounds
  /\ elapsed \in 0 .. Horizon /\ quiet \in 0 .. Horizon
  /\ inRead \in [min : 0 .. 255, time : 0 .. 255]
  /\ setting \in [Setters -> Settings]

Switches == hungup \in BOOLEAN /\ changed \in BOOLEAN

LEMMA Bytes == ASSUME NEW i \in Int PROVE i % 256 \in 0 .. 255
OBVIOUS

LEMMA Quotient == ASSUME NEW i \in Int, NEW w \in Nat \ {0} PROVE i \div w \in Int
OBVIOUS

(* What a setter hands to the terminal are numbers. *)
LEMMA SettingFits ==
  ASSUME Ranges, NEW s \in Setters
  PROVE  /\ setting[s].thresh % 256 \in 0 .. 255
         /\ (setting[s].time \div Tenth) % 256 \in 0 .. 255
<1>1. setting[s] \in Settings
    BY DEF Ranges
<1>2. setting[s].thresh \in Int /\ setting[s].time \in Int
    <2>1. CASE setting[s] = Idle
        BY <2>1 DEF Idle, Disabled
    <2>2. CASE setting[s] \in [time : Timeouts \cup {Disabled}, thresh : Thresholds \cup {0}]
        <3>1. setting[s].time \in Timeouts \cup {Disabled} /\ setting[s].thresh \in Thresholds \cup {0}
            BY <2>2
        <3>2. /\ \A time \in Timeouts : time \in Int
              /\ \A thresh \in Thresholds : thresh \in Int
              /\ Disabled \in Int /\ 0 \in Int
            BY HorizonIsTime DEF Disabled
        <3>3. QED
            BY <3>1, <3>2
    <2>3. QED
        BY <1>1, <2>1, <2>2 DEF Settings
<1>3. setting[s].time \div Tenth \in Int
    BY <1>2, TenthIsPositive, Quotient
<1>4. QED
    BY <1>2, <1>3, Bytes

LEMMA InitTypes == Init => Ranges /\ Switches
<1> SUFFICES ASSUME Init PROVE Ranges /\ Switches
    OBVIOUS
<1>1. Ranges
    BY CapacityIsPositive, HorizonIsTime DEF Init, Ranges, Settings, Idle
<1>2. hungup = FALSE /\ changed = FALSE
    BY DEF Init
<1>3. Switches
    BY <1>2 DEF Switches
<1>4. QED
    BY <1>1, <1>3

LEMMA StepRanges == IInv /\ Ranges /\ [Next]_vars => Ranges'
<1> SUFFICES ASSUME IInv, Ranges, [Next]_vars PROVE Ranges'
    OBVIOUS
<1> USE CapacityIsPositive, HorizonIsTime DEF Ranges
<1>1. CASE UNCHANGED vars
    BY <1>1 DEF vars, portVars, loopVars, timeVars
<1> USE DEF portVars, loopVars, timeVars
<1>2. ASSUME NEW kind \in {"byte", "array", "terminated"}, NEW room \in Lengths, Call(kind, room)
      PROVE  Ranges'
    BY <1>2 DEF Call
<1>3. CASE AskAvailable \/ ClipToThreshold
    BY <1>3 DEF AskAvailable, ClipToThreshold
<1>4. CASE Start
    BY <1>4 DEF Start
<1>5. CASE Loop
    <2>1. count' \in 0 .. Rounds
        BY <1>5 DEF Loop
    <2>2. QED
        BY <1>5, <2>1 DEF Loop
<1>6. CASE Select
    <2>1. /\ inRead' \in [min : 0 .. 255, time : 0 .. 255]
          /\ quiet' \in 0 .. Horizon
        BY <1>6 DEF Select
    <2>2. QED
        BY <1>6, <2>1 DEF Select
<1>7. CASE Read
    <2>1. received \in Nat /\ left \in Nat /\ Smaller(Needed, received) \in Nat
        BY DEF Needed, Smaller, IInv, Types
    <2>2. PICK n \in Smaller(Needed, received) .. Smaller(left, received) : received' = received - n
        BY <1>7 DEF Read
    <2>3. n \in Nat /\ n <= received
        BY <2>1, <2>2 DEF Smaller
    <2>4. received' \in 0 .. Capacity
        BY <2>1, <2>2, <2>3
    <2>5. QED
        BY <1>7, <2>4 DEF Read, LeaveRead
<1>8. CASE ReadNothing
    BY <1>8 DEF ReadNothing, LeaveRead
<1>9. CASE Fail
    BY <1>9 DEF Fail, Return
<1>10. CASE Done
    BY <1>10 DEF Done, Return
<1>11. ASSUME NEW s \in Setters, SetTimeout(s) PROVE Ranges'
    <2>1. PICK time \in Timeouts \cup {Disabled} :
            /\ timeout' = time
            /\ setting' = [setting EXCEPT ![s] = [time |-> time, thresh |-> threshold]]
        BY <1>11 DEF SetTimeout
    <2>2. [time |-> time, thresh |-> threshold] \in Settings
        BY DEF Settings
    <2>3. setting' \in [Setters -> Settings]
        BY <2>1, <2>2
    <2>4. QED
        BY <1>11, <2>1, <2>3 DEF SetTimeout
<1>12. ASSUME NEW s \in Setters, SetThreshold(s) PROVE Ranges'
    <2>1. PICK thresh \in Thresholds \cup {0} :
            /\ threshold' = thresh
            /\ setting' = [setting EXCEPT ![s] = [time |-> timeout, thresh |-> thresh]]
        BY <1>12 DEF SetThreshold
    <2>2. [time |-> timeout, thresh |-> thresh] \in Settings
        BY DEF Settings
    <2>3. setting' \in [Setters -> Settings]
        BY <2>1, <2>2
    <2>4. QED
        BY <1>12, <2>1, <2>3 DEF SetThreshold
<1>13. ASSUME NEW s \in Setters, SetTerminal(s) PROVE Ranges'
    <2>1. vmin' \in 0 .. 255 /\ vtime' \in 0 .. 255
        <3>1. /\ vmin' \in {vmin, setting[s].thresh % 256}
              /\ vtime' \in {vtime, 0, (setting[s].time \div Tenth) % 256}
            BY <1>13 DEF SetTerminal
        <3>2. /\ setting[s].thresh % 256 \in 0 .. 255
              /\ (setting[s].time \div Tenth) % 256 \in 0 .. 255
            BY SettingFits
        <3>3. vmin \in 0 .. 255 /\ vtime \in 0 .. 255 /\ 0 \in 0 .. 255
            OBVIOUS
        <3>4. QED
            <4> HIDE DEF Ranges
            <4>1. QED
                BY <3>1, <3>2, <3>3, ZenonT(40)
    <2>2. setting' = [setting EXCEPT ![s] = Idle] /\ Idle \in Settings
        BY <1>13 DEF SetTerminal, Settings
    <2>3. QED
        BY <1>13, <2>1, <2>2 DEF SetTerminal
<1>14. CASE Arrive
    BY <1>14 DEF Arrive
<1>15. CASE HangUp
    BY <1>15 DEF HangUp
<1>16. CASE Tick
    <2>1. elapsed' \in 0 .. Horizon /\ quiet' \in 0 .. Horizon
        BY <1>16 DEF Tick, Smaller
    <2>2. QED
        BY <1>16, <2>1 DEF Tick
<1> HIDE DEF Ranges, portVars, loopVars, timeVars
<1>17. QED
    BY <1>1, <1>2, <1>3, <1>4, <1>5, <1>6, <1>7, <1>8, <1>9, <1>10, <1>11, <1>12,
       <1>13, <1>14, <1>15, <1>16
    DEF Next, Go

LEMMA StepSwitches == Switches /\ [Next]_vars => Switches'
<1> SUFFICES ASSUME Switches, [Next]_vars PROVE Switches'
    OBVIOUS
<1> USE DEF Switches
<1>1. CASE UNCHANGED vars
    BY <1>1 DEF vars
<1>2. ASSUME NEW kind \in {"byte", "array", "terminated"}, NEW room \in Lengths, Call(kind, room)
      PROVE  Switches'
    BY <1>2 DEF Call
<1>3. CASE \/ AskAvailable \/ ClipToThreshold \/ Start \/ Loop \/ Select \/ Read
           \/ ReadNothing \/ Arrive \/ Tick
    BY <1>3 DEF AskAvailable, ClipToThreshold, Start, Loop, Select, Read, ReadNothing, Arrive, Tick
<1>4. CASE Fail
    BY <1>4 DEF Fail, Return
<1>5. CASE Done
    BY <1>5 DEF Done, Return
<1>6. ASSUME NEW s \in Setters, SetTimeout(s) \/ SetThreshold(s) PROVE Switches'
    BY <1>6 DEF SetTimeout, SetThreshold
<1>7. ASSUME NEW s \in Setters, SetTerminal(s) PROVE Switches'
    <2>1. changed' = (pc # "idle") \/ changed' = changed
        BY <1>7 DEF SetTerminal
    <2>2. changed' \in BOOLEAN
        BY <2>1
    <2>3. QED
        BY <1>7, <2>2 DEF SetTerminal
<1>8. CASE HangUp
    BY <1>8 DEF HangUp
<1> HIDE DEF Switches
<1>9. QED
    BY <1>1, <1>2, <1>3, <1>4, <1>5, <1>6, <1>7, <1>8 DEF Next, Go

LEMMA TypesHold == Spec => [](Ranges /\ Switches)
<1>1. Spec => []IInv
    BY InvHolds
<1>2. IInv /\ (Ranges /\ Switches) /\ [Next]_vars => (Ranges /\ Switches)'
    BY StepRanges, StepSwitches
<1>3. QED
    BY <1>1, <1>2, InitTypes, PTL DEF Spec

(* Every variable has its type: the terminal's VMIN and VTIME are bytes      *)
(* whatever is set, and the count of rounds never passes its bound.          *)
THEOREM TypeCorrect == Spec => []TypeOK
<1>1. IInv /\ Ranges /\ Switches => TypeOK
    BY DEF IInv, Types, Ranges, Switches, TypeOK
<1>2. QED
    BY <1>1, InvHolds, TypesHold, PTL
-----------------------------------------------------------------------------
(* A read without a timeout *)

(* Every round reads a byte at least, since SELECT has said that one waits   *)
(* and there is no other reader.                                             *)
RoundsCount ==
  /\ pc = "loop" => bytes >= count
  /\ pc \in {"select", "read"} => bytes + 1 >= count /\ bytes < length
  /\ pc = "read" => received > 0
  /\ pc = "done" => bytes >= length \/ bytes >= Rounds

RoundsInv == limit = Disabled /\ ~hungup => RoundsCount

LEMMA InitRounds == Init => RoundsInv
BY DEF Init, RoundsInv, RoundsCount

LEMMA StepRounds == IInv /\ Ranges /\ RoundsInv /\ [Next]_vars => RoundsInv'
<1> SUFFICES ASSUME IInv, Ranges, RoundsInv, [Next]_vars PROVE RoundsInv'
    OBVIOUS
<1> USE DEF RoundsInv, RoundsCount
<1>y. /\ received \in Nat /\ bytes \in Nat /\ left \in Nat /\ length \in Nat /\ count \in Nat
      /\ inRead.min \in Nat /\ vmin \in Nat
      /\ pc \in {"loop", "select", "read", "done"} => length = bytes + left
    BY DEF IInv, Types, ReadInv, Asking, Ranges
<1>1. CASE UNCHANGED vars
    BY <1>1 DEF vars, loopVars
<1> USE DEF loopVars
<1>2. ASSUME NEW kind \in {"byte", "array", "terminated"}, NEW room \in Lengths, Call(kind, room)
      PROVE  RoundsInv'
    BY <1>2 DEF Call
<1>3. CASE AskAvailable \/ ClipToThreshold
    BY <1>3 DEF AskAvailable, ClipToThreshold
<1>4. CASE Start
    BY <1>4 DEF Start
<1>5. CASE Loop
    <2> SUFFICES ASSUME limit = Disabled, ~hungup PROVE RoundsCount'
        BY <1>5 DEF Loop
    <2>1. bytes >= count /\ ~TimeIsUp
        BY <1>5 DEF Loop, TimeIsUp
    <2>2. UNCHANGED <<length, bytes, received>>
        BY <1>5 DEF Loop
    <2>3. \/ pc' = "select" /\ bytes < length /\ count' = count + 1
          \/ pc' = "done" /\ (bytes >= length \/ count = Rounds) /\ count' = count
        BY <1>5, <2>1 DEF Loop
    <2>4. QED
        BY <1>y, <2>1, <2>2, <2>3
<1>6. CASE Select
    <2> SUFFICES ASSUME limit = Disabled, ~hungup PROVE RoundsCount'
        BY <1>6 DEF Select
    <2>1. Ready /\ pc = "select" /\ pc' = "read"
        BY <1>6 DEF Select, TimeIsUp
    <2>2. received > 0
        BY <1>y, <2>1 DEF Ready
    <2>3. QED
        BY <1>6, <2>1, <2>2 DEF Select
<1>7. CASE Read
    <2> SUFFICES ASSUME limit = Disabled, ~hungup PROVE RoundsCount'
        BY <1>7 DEF Read
    <2>1. pc = "read" /\ pc' = "loop" /\ UNCHANGED count
        BY <1>7 DEF Read, LeaveRead
    <2>2. PICK n \in Smaller(Needed, received) .. Smaller(left, received) : bytes' = bytes + n
        BY <1>7 DEF Read
    <2>3. left > 0 /\ received > 0
        BY <1>y, <2>1
    <2>4. Needed > 0 /\ Needed \in Nat
        BY <1>y, <2>3 DEF Needed, Smaller
    <2>5. Smaller(Needed, received) \in Nat /\ Smaller(Needed, received) > 0
        BY <1>y, <2>3, <2>4 DEF Smaller
    <2>6. n \in Int /\ n > 0
        BY <1>y, <2>2, <2>5 DEF Smaller
    <2>7. QED
        BY <1>y, <2>1, <2>2, <2>6
<1>8. CASE ReadNothing
    BY <1>8 DEF ReadNothing
<1>9. CASE Fail
    BY <1>9 DEF Fail, Return
<1>10. CASE Done
    BY <1>10 DEF Done, Return
<1>11. ASSUME NEW s \in Setters, SetTimeout(s) \/ SetThreshold(s) \/ SetTerminal(s) PROVE RoundsInv'
    BY <1>11 DEF SetTimeout, SetThreshold, SetTerminal
<1>12. CASE Arrive
    BY <1>12, <1>y DEF Arrive
<1>13. CASE HangUp
    BY <1>13 DEF HangUp
<1>14. CASE Tick
    BY <1>14 DEF Tick
<1> HIDE DEF RoundsInv, RoundsCount, loopVars
<1>15. QED
    BY <1>1, <1>2, <1>3, <1>4, <1>5, <1>6, <1>7, <1>8, <1>9, <1>10, <1>11, <1>12,
       <1>13, <1>14
    DEF Next, Go

(* A read without a timeout that returns has filled its request, whoever     *)
(* changes VMIN, the timer and the threshold meanwhile.                      *)
THEOREM UntimedReadsAreFull == Spec => []UntimedReadFull
<1>1. Spec => []RoundsInv
    BY InitRounds, StepRounds, InvHolds, TypesHold, PTL DEF Spec
<1>2. IInv /\ RoundsInv => UntimedReadFull
    BY DEF IInv, Types, ReadInv, Asking, RoundsInv, RoundsCount, UntimedReadFull
<1>3. QED
    BY <1>1, <1>2, InvHolds, PTL
-----------------------------------------------------------------------------
(* The settings *)

OneSetter == \A r, s \in Setters : r = s

Agreed == /\ vmin = threshold % 256
          /\ vtime = (IF timeout = Disabled THEN 0 ELSE (timeout \div Tenth) % 256)

(* The fields are ahead of the terminal by the call that a setter is about   *)
(* to make.                                                                  *)
SetInv ==
  ~hungup => /\ (\A s \in Setters : setting[s] = Idle) => Agreed
             /\ \A s \in Setters : setting[s] # Idle
                  => setting[s] = [time |-> timeout, thresh |-> threshold]

LEMMA StepSet == OneSetter /\ Ranges /\ SetInv /\ [Next]_vars => SetInv'
<1> SUFFICES ASSUME OneSetter, Ranges, SetInv, [Next]_vars PROVE SetInv'
    OBVIOUS
<1>y. setting \in [Setters -> Settings]
    BY DEF Ranges
<1>r. ASSUME UNCHANGED <<portVars, setting>>, hungup => hungup' PROVE SetInv'
    BY <1>r DEF SetInv, Agreed, portVars
<1>1. CASE UNCHANGED vars
    BY <1>1, <1>r DEF vars
<1>2. ASSUME NEW kind \in {"byte", "array", "terminated"}, NEW room \in Lengths, Call(kind, room)
      PROVE  SetInv'
    BY <1>2, <1>r DEF Call
<1>3. CASE \/ AskAvailable \/ ClipToThreshold \/ Start \/ Loop \/ Select \/ Read
           \/ ReadNothing \/ Arrive \/ Tick \/ Fail \/ Done \/ HangUp
    BY <1>3, <1>r DEF AskAvailable, ClipToThreshold, Start, Loop, Select, Read, ReadNothing,
                      Arrive, Tick, Fail, Done, HangUp
<1>4. ASSUME NEW s \in Setters, SetTimeout(s) PROVE SetInv'
    <2>1. PICK time \in Timeouts \cup {Disabled} :
            /\ timeout' = time
            /\ setting' = [setting EXCEPT ![s] = [time |-> time, thresh |-> threshold]]
        BY <1>4 DEF SetTimeout
    <2>2. setting'[s] = [time |-> timeout', thresh |-> threshold'] /\ \A r \in Setters : r = s
        BY <1>4, <1>y, <2>1 DEF SetTimeout, OneSetter
    <2>3. setting'[s] # Idle
        BY <2>2, <1>4, ThresholdsAreNumbers DEF Idle, Ranges, SetTimeout
    <2>4. QED
        BY <2>2, <2>3 DEF SetInv
<1>5. ASSUME NEW s \in Setters, SetThreshold(s) PROVE SetInv'
    <2>1. PICK thresh \in Thresholds \cup {0} :
            /\ threshold' = thresh
            /\ setting' = [setting EXCEPT ![s] = [time |-> timeout, thresh |-> thresh]]
        BY <1>5 DEF SetThreshold
    <2>2. setting'[s] = [time |-> timeout', thresh |-> threshold'] /\ \A r \in Setters : r = s
        BY <1>5, <1>y, <2>1 DEF SetThreshold, OneSetter
    <2>3. setting'[s] # Idle
        BY <2>1, <2>2, ThresholdsAreNumbers DEF Idle
    <2>4. QED
        BY <2>2, <2>3 DEF SetInv
<1>6. ASSUME NEW s \in Setters, SetTerminal(s) PROVE SetInv'
    <2> SUFFICES ASSUME ~hungup' PROVE SetInv'
        BY DEF SetInv
    <2>1. ~hungup /\ UNCHANGED <<timeout, threshold>>
        BY <1>6 DEF SetTerminal
    <2>2. setting[s] = [time |-> timeout, thresh |-> threshold]
        BY <1>6, <2>1 DEF SetInv, SetTerminal
    <2>3. setting[s].time = timeout /\ setting[s].thresh = threshold
        BY <2>2
    <2>4. Agreed'
        BY <1>6, <2>1, <2>3 DEF SetTerminal, Agreed
    <2>5. setting'[s] = Idle /\ \A r \in Setters : r = s
        BY <1>6, <1>y DEF SetTerminal, OneSetter
    <2>6. QED
        BY <2>4, <2>5 DEF SetInv
<1>7. QED
    BY <1>1, <1>2, <1>3, <1>4, <1>5, <1>6 DEF Next, Go

(* With at most one thread that sets them, the terminal has the settings of  *)
(* the fields timeout and threshold whenever no set call is under way, up to *)
(* the widths of VMIN and VTIME.                                             *)
THEOREM SettingsArrive == ASSUME OneSetter PROVE Spec => []SettingsAgree
<1>1. Init => SetInv
    BY Bytes DEF Init, SetInv, Agreed, Idle
<1>2. Ranges /\ SetInv /\ [Next]_vars => SetInv'
    BY StepSet
<1>3. SetInv => SettingsAgree
    BY DEF SetInv, Agreed, SettingsAgree
<1>4. QED
    BY <1>1, <1>2, <1>3, TypesHold, PTL DEF Spec
===============================================================================
