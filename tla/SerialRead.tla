------------------------------ MODULE SerialRead ------------------------------
(***************************************************************************)
(* What a read of a serial port waits for: the methods of                   *)
(* SerialInputStream with the receive threshold, read_byte_array with its   *)
(* timeout, and the setters that store both in the port's fields and in the *)
(* terminal's VMIN and VTIME, where other threads may change them at any    *)
(* moment.                                                                 *)
(*                                                                         *)
(* The stream's methods are synchronized, so there is one reader.  Bytes    *)
(* are counted, their values matter only to the search for a terminator,    *)
(* which may end at any second or later byte.  Time passes in ticks.  The   *)
(* port stays open and no event listener interferes (PortMonitor has that). *)
(***************************************************************************)
EXTENDS Integers

CONSTANTS Setters,     \* threads that set the timeout and the threshold
          Timeouts,    \* the timeouts they enable, in ticks
          Thresholds,  \* the thresholds they enable
          Lengths,     \* the lengths applications ask for
          Tenth,       \* ticks in a tenth of a second, VTIME's unit
          Rounds,      \* how often read_byte_array tries; 20 in the code
          Capacity,    \* bytes the kernel keeps for the port (a bound)
          Horizon      \* ticks after which a clock stops (a bound)

ASSUME TimeoutsAreTicks == Timeouts \subseteq 0 .. Horizon
ASSUME ThresholdsAreNumbers == Thresholds \subseteq Nat
ASSUME LengthsArePositive == Lengths \subseteq Nat \ {0}
ASSUME TenthIsPositive == Tenth \in Nat \ {0}
ASSUME RoundsArePositive == Rounds \in Nat \ {0}
ASSUME CapacityIsPositive == Capacity \in Nat \ {0}
ASSUME HorizonIsTime == Horizon \in Nat

Disabled == -1     \* the field timeout after disableReceiveTimeout()

VARIABLES
  (* the port *)
  timeout,    \* the field, in ticks
  threshold,  \* the field
  vmin,       \* the terminal's c_cc[VMIN]
  vtime,      \* the terminal's c_cc[VTIME]
  received,   \* bytes that wait in the kernel
  hungup,     \* whether the device has gone
  (* the reader *)
  call,       \* "byte" for read(), "array" for read(b, off, len), "terminated"
  len,        \* the room in the caller's array
  Minimum,    \* read's variable of that name: how much to ask for
  total,      \* readTerminatedArray's variable
  length,     \* read_byte_array's argument, and its variables
  limit,
  bytes,
  left,
  count,
  elapsed,    \* now - start
  inRead,     \* what the READ under way waits for: VMIN, VTIME at its start
  quiet,      \* ticks since the last byte, or since the READ began
  changed,    \* whether the terminal's settings changed during the call
  pc,
  (* the setters *)
  setting     \* the arguments of the native call a setter is about to make, or Idle

portVars == <<timeout, threshold, vmin, vtime>>
callVars == <<call, len, Minimum, total>>
loopVars == <<length, limit, bytes, left, count>>
timeVars == <<elapsed, quiet>>
vars == <<portVars, received, hungup, callVars, loopVars, timeVars, inRead,
          changed, pc, setting>>

(*   idle     no read                                                       *)
(*   ask      read(b, off, len) is about to look at threshold               *)
(*   clip     it has found a threshold, and looks at it again               *)
(*   start    the native method is about to call read_byte_array            *)
(*   loop     at the head of its loop                                       *)
(*   select   waiting in SELECT                                             *)
(*   read     waiting in READ                                               *)
(*   done     read_byte_array returns bytes                                 *)
Places == {"idle", "ask", "clip", "start", "loop", "select", "read", "done"}

Idle == [time |-> Disabled, thresh |-> -1]

Settings == [time : Timeouts \cup {Disabled}, thresh : Thresholds \cup {0}] \cup {Idle}

TypeOK ==
  /\ timeout \in Timeouts \cup {Disabled} /\ threshold \in Thresholds \cup {0}
  /\ vmin \in 0 .. 255 /\ vtime \in 0 .. 255
  /\ received \in 0 .. Capacity /\ hungup \in BOOLEAN /\ changed \in BOOLEAN
  /\ call \in {"byte", "array", "terminated"}
  /\ len \in Nat /\ Minimum \in Nat /\ total \in Nat
  /\ length \in Nat /\ limit \in Timeouts \cup {Disabled}
  /\ bytes \in Nat /\ left \in Nat /\ count \in 0 .. Rounds
  /\ elapsed \in 0 .. Horizon /\ quiet \in 0 .. Horizon
  /\ inRead \in [min : 0 .. 255, time : 0 .. 255]
  /\ pc \in Places
  /\ setting \in [Setters -> Settings]

(* The port has just been opened: configure_port has set VMIN and VTIME to 0.*)
Init ==
  /\ timeout = Disabled /\ threshold = 0 /\ vmin = 0 /\ vtime = 0
  /\ received = 0 /\ hungup = FALSE /\ changed = FALSE
  /\ call = "byte" /\ len = 0 /\ Minimum = 0 /\ total = 0
  /\ length = 0 /\ limit = Disabled /\ bytes = 0 /\ left = 0 /\ count = 0
  /\ elapsed = 0 /\ quiet = 0 /\ inRead = [min |-> 0, time |-> 0]
  /\ pc = "idle"
  /\ setting = [s \in Setters |-> Idle]

Smaller(m, n) == IF m < n THEN m ELSE n

(* The call ends, and its local variables with it.                           *)
Return ==
  /\ pc' = "idle"
  /\ call' = "byte" /\ len' = 0 /\ Minimum' = 0 /\ total' = 0
  /\ length' = 0 /\ limit' = Disabled /\ bytes' = 0 /\ left' = 0 /\ count' = 0
  /\ elapsed' = 0 /\ quiet' = 0 /\ inRead' = [min |-> 0, time |-> 0]
  /\ changed' = FALSE
-----------------------------------------------------------------------------
(* The setters.  enableReceiveTimeout, disableReceiveTimeout and             *)
(* enableReceiveThreshold assign a field, then call                          *)
(* NativeEnableReceiveTimeoutThreshold with both.                            *)

SetTimeout(s) ==
  /\ setting[s] = Idle
  /\ \E time \in Timeouts \cup {Disabled} :
       /\ timeout' = time
       /\ setting' = [setting EXCEPT ![s] = [time |-> time, thresh |-> threshold]]
  /\ UNCHANGED <<threshold, vmin, vtime, received, hungup, callVars, loopVars,
                 timeVars, inRead, changed, pc>>

SetThreshold(s) ==
  /\ setting[s] = Idle
  /\ \E thresh \in Thresholds \cup {0} :
       /\ threshold' = thresh
       /\ setting' = [setting EXCEPT ![s] = [time |-> timeout, thresh |-> thresh]]
  /\ UNCHANGED <<timeout, vmin, vtime, received, hungup, callVars, loopVars,
                 timeVars, inRead, changed, pc>>

(* Faulty variant: VMIN is thought to be an int.                             *)
SetTerminalWide(s) ==
  /\ setting[s] # Idle
  /\ ~hungup
  /\ vmin' = setting[s].thresh
  /\ vtime' = IF setting[s].time = Disabled THEN 0 ELSE setting[s].time \div Tenth
  /\ changed' = (pc # "idle")
  /\ setting' = [setting EXCEPT ![s] = Idle]
  /\ UNCHANGED <<timeout, threshold, received, hungup, callVars, loopVars, timeVars,
                 inRead, pc>>

(* Faulty variant: disabling the timeout leaves the terminal's timer.        *)
SetTerminalKeepsTimer(s) ==
  /\ setting[s] # Idle
  /\ \/ /\ ~hungup
        /\ vmin' = setting[s].thresh % 256
        /\ vtime' = IF setting[s].time = Disabled THEN vtime
                    ELSE (setting[s].time \div Tenth) % 256
        /\ changed' = (pc # "idle")
     \/ /\ hungup
        /\ UNCHANGED <<vmin, vtime, changed>>
  /\ setting' = [setting EXCEPT ![s] = Idle]
  /\ UNCHANGED <<timeout, threshold, received, hungup, callVars, loopVars, timeVars,
                 inRead, pc>>

(* tcgetattr and tcsetattr: VMIN and VTIME are bytes, and VTIME is 0 for a   *)
(* timeout of less than a tenth of a second.  The call throws if the device  *)
(* has gone.                                                                 *)
SetTerminal(s) ==
  /\ setting[s] # Idle
  /\ \/ /\ ~hungup
        /\ vmin' = setting[s].thresh % 256
        /\ vtime' = IF setting[s].time = Disabled THEN 0
                    ELSE (setting[s].time \div Tenth) % 256
        /\ changed' = (pc # "idle")
     \/ /\ hungup
        /\ UNCHANGED <<vmin, vtime, changed>>
  /\ setting' = [setting EXCEPT ![s] = Idle]
  /\ UNCHANGED <<timeout, threshold, received, hungup, callVars, loopVars, timeVars,
                 inRead, pc>>
-----------------------------------------------------------------------------
(* SerialInputStream *)

(* read() asks for one byte; the other methods look at the threshold first.  *)
Call(kind, room) ==
  /\ pc = "idle"
  /\ call' = kind
  /\ len' = IF kind = "byte" THEN 1 ELSE room
  /\ Minimum' = IF kind = "byte" THEN 1 ELSE 0
  /\ pc' = IF kind = "byte" THEN "start" ELSE "ask"
  /\ UNCHANGED <<portVars, received, hungup, total, loopVars, timeVars, inRead,
                 changed, setting>>

(* Without a threshold: the bytes there are, or one.                         *)
AskAvailable ==
  /\ pc = "ask"
  /\ \/ /\ threshold = 0
        /\ Minimum' = IF received = 0 THEN 1 ELSE Smaller(len, received)
        /\ pc' = "start"
     \/ /\ threshold # 0
        /\ pc' = "clip"
        /\ UNCHANGED Minimum
  /\ UNCHANGED <<portVars, received, hungup, call, len, total, loopVars, timeVars,
                 inRead, changed, setting>>

(* Minimum = Math.min(Minimum, threshold)                                    *)
ClipToThreshold ==
  /\ pc = "clip"
  /\ Minimum' = Smaller(len, threshold)
  /\ pc' = "start"
  /\ UNCHANGED <<portVars, received, hungup, call, len, total, loopVars, timeVars,
                 inRead, changed, setting>>
-----------------------------------------------------------------------------
(* read_byte_array.  readByte and readArray call it once, readTerminatedArray *)
(* once for each byte, with a timeout of its own.                             *)

Start ==
  /\ pc = "start"
  /\ length' = IF call = "terminated" THEN 1 ELSE Minimum
  /\ limit' = IF call = "terminated" /\ total > 0 THEN limit ELSE timeout
  /\ bytes' = 0
  /\ left' = length'
  /\ count' = 0
  /\ elapsed' = 0
  /\ pc' = "loop"
  /\ UNCHANGED <<portVars, received, hungup, callVars, quiet, inRead, changed, setting>>

TimeIsUp == limit # Disabled /\ elapsed >= limit

(* Faulty variant: one round is thought to be enough.                        *)
LoopOnce ==
  /\ pc = "loop"
  /\ \/ /\ bytes < length
        /\ count = 0
        /\ count' = count + 1
        /\ pc' = IF TimeIsUp THEN "done" ELSE "select"
     \/ /\ bytes >= length \/ count > 0
        /\ pc' = "done"
        /\ UNCHANGED count
  /\ UNCHANGED <<portVars, received, hungup, callVars, length, limit, bytes, left,
                 timeVars, inRead, changed, setting>>

Loop ==
  /\ pc = "loop"
  /\ \/ /\ bytes < length
        /\ count < Rounds
        /\ count' = count + 1
        /\ pc' = IF TimeIsUp THEN "done" ELSE "select"
     \/ /\ bytes >= length \/ count = Rounds
        /\ pc' = "done"
        /\ UNCHANGED count
  /\ UNCHANGED <<portVars, received, hungup, callVars, length, limit, bytes, left,
                 timeVars, inRead, changed, setting>>

(* The terminal is ready for reading: VMIN bytes if there is no timer, else  *)
(* one (n_tty_poll of Linux); or the device has gone.                        *)
Ready == \/ hungup
         \/ received >= (IF vtime = 0 /\ vmin > 0 THEN vmin ELSE 1)

(* Faulty variant: SELECT is called without a timeout.                       *)
SelectForever ==
  /\ pc = "select"
  /\ Ready
  /\ inRead' = [min |-> vmin, time |-> vtime]
  /\ quiet' = 0
  /\ pc' = "read"
  /\ UNCHANGED <<portVars, received, hungup, callVars, loopVars, elapsed, changed,
                 setting>>

Select ==
  /\ pc = "select"
  /\ \/ /\ Ready
        /\ inRead' = [min |-> vmin, time |-> vtime]
        /\ quiet' = 0
        /\ pc' = "read"
     \/ /\ ~Ready
        /\ TimeIsUp
        /\ pc' = "loop"
        /\ UNCHANGED <<inRead, quiet>>
  /\ UNCHANGED <<portVars, received, hungup, callVars, loopVars, elapsed, changed,
                 setting>>

(* What READ waits for (termios(3)): VMIN bytes, or less if less was asked   *)
(* for, or the timer that runs from byte to byte; a terminal with VMIN 0     *)
(* waits for the timer at most.  FASYNC alone is set, so the file is not     *)
(* opened for non-blocking reads any more.                                   *)
Needed == IF inRead.min = 0 THEN 1 ELSE Smaller(inRead.min, left)

TimerExpired == /\ quiet >= Smaller(inRead.time * Tenth, Horizon)
                /\ inRead.time > 0 \/ inRead.min = 0
                /\ inRead.min = 0 \/ received > 0

LeaveRead == /\ pc' = "loop"
             /\ inRead' = [min |-> 0, time |-> 0]
             /\ quiet' = 0

(* Faulty variant: left is not counted down.                                 *)
ReadKeepsLeft ==
  /\ pc = "read"
  /\ ~hungup
  /\ received >= Needed \/ TimerExpired
  /\ \E n \in Smaller(Needed, received) .. Smaller(left, received) :
       /\ bytes' = bytes + n
       /\ received' = received - n
  /\ LeaveRead
  /\ UNCHANGED <<portVars, hungup, callVars, length, limit, left, count, elapsed,
                 changed, setting>>

Read ==
  /\ pc = "read"
  /\ ~hungup
  /\ received >= Needed \/ TimerExpired
  /\ \E n \in Smaller(Needed, received) .. Smaller(left, received) :
       /\ bytes' = bytes + n
       /\ left' = left - n
       /\ received' = received - n
  /\ LeaveRead
  /\ UNCHANGED <<portVars, hungup, callVars, length, limit, count, elapsed, changed,
                 setting>>

(* READ returns 0: usleep and another round.                                 *)
ReadNothing ==
  /\ pc = "read"
  /\ hungup
  /\ LeaveRead
  /\ UNCHANGED <<portVars, received, hungup, callVars, loopVars, elapsed, changed,
                 setting>>

(* FIONREAD, SELECT or READ fails, EINTR and EAGAIN of READ included: the    *)
(* call throws IOException; the bytes it has read are lost.                  *)
Fail ==
  /\ pc \in {"ask", "select", "read"}
  /\ Return
  /\ UNCHANGED <<portVars, received, hungup, setting>>

(* The terminated read goes on after a byte that did not end it; every other *)
(* read returns to its caller.                                               *)
Done ==
  /\ pc = "done"
  /\ LET read == total + bytes IN
       \/ /\ call = "terminated" /\ bytes > 0 /\ read < Minimum
          /\ total' = read
          /\ pc' = "start"
          /\ UNCHANGED <<call, len, Minimum, loopVars, timeVars, inRead, changed>>
       \/ /\ call # "terminated" \/ bytes = 0 \/ read >= Minimum \/ read > 1
          /\ Return
  /\ UNCHANGED <<portVars, received, hungup, setting>>
-----------------------------------------------------------------------------
(* The environment *)

Arrive ==
  /\ ~hungup
  /\ received < Capacity
  /\ received' = received + 1
  /\ quiet' = 0
  /\ UNCHANGED <<portVars, hungup, callVars, loopVars, elapsed, inRead, changed,
                 pc, setting>>

HangUp ==
  /\ ~hungup
  /\ hungup' = TRUE
  /\ received' = 0
  /\ UNCHANGED <<portVars, callVars, loopVars, timeVars, inRead, changed, pc, setting>>

(* Time counts while a read with a timeout, or the terminal's timer, runs.   *)
Tick ==
  /\ pc \in {"loop", "select", "read"}
  /\ elapsed' = IF limit = Disabled THEN 0 ELSE Smaller(elapsed + 1, Horizon)
  /\ quiet' = IF inRead.time = 0 THEN 0 ELSE Smaller(quiet + 1, Horizon)
  /\ UNCHANGED <<portVars, received, hungup, callVars, loopVars, inRead, changed,
                 pc, setting>>
-----------------------------------------------------------------------------
(* The reader's steps. *)
Go == AskAvailable \/ ClipToThreshold \/ Start \/ Loop \/ Select \/ Read \/ ReadNothing \/ Done

Next == \/ \E kind \in {"byte", "array", "terminated"}, room \in Lengths : Call(kind, room)
        \/ Go \/ Fail
        \/ \E s \in Setters : SetTimeout(s) \/ SetThreshold(s) \/ SetTerminal(s)
        \/ Arrive \/ HangUp \/ Tick

Spec == Init /\ [][Next]_vars

(* Threads run and time passes; no byte need ever arrive.                    *)
FairSpec == /\ Spec
            /\ WF_vars(Go) /\ WF_vars(Tick)
            /\ \A s \in Setters : WF_vars(SetTerminal(s))
-----------------------------------------------------------------------------
(* Properties *)

(* A READ never writes past the end of the caller's array, wherever in it    *)
(* earlier rounds and, in a terminated read, earlier bytes have left off,    *)
(* and whatever happens to the threshold while the read is under way.        *)
WithinArray == pc = "read" => total + bytes + left <= len

(* A read without a timeout that returns has read all it asked for, unless   *)
(* the device has gone: the rounds make up for a terminal that returns less, *)
(* because VMIN is only a byte or because the threshold was changed.  (For   *)
(* reads of at most Rounds bytes; a longer one may give up with less.)       *)
UntimedReadFull ==
  pc = "done" /\ limit = Disabled /\ ~hungup /\ length <= Rounds => bytes = length

(* When no setter is at work the terminal has the settings of the fields, up *)
(* to the widths of VMIN and VTIME.  (For one setting thread: of two, either *)
(* may hand the terminal a field that the other has just replaced.)          *)
SettingsAgree ==
  (\A s \in Setters : setting[s] = Idle) /\ ~hungup
    => /\ vmin = threshold % 256
       /\ vtime = (IF timeout = Disabled THEN 0 ELSE (timeout \div Tenth) % 256)

(* A read with a timeout returns, however the bytes arrive, and one without  *)
(* when its bytes are there, if VMIN is not more than them: unless another   *)
(* thread changes the settings under it.                                     *)
ReadsReturn ==
  /\ pc = "loop" /\ limit # Disabled ~> (pc \notin {"loop", "select", "read"} \/ changed)
  /\ pc = "select" /\ received >= left /\ vmin <= left ~> (pc # "select" \/ changed)

(* read "blocks until either threshold # of bytes or len bytes, whichever    *)
(* was lower", read() "until 1 byte": a read whose bytes are there returns.  *)
ServedReadReturns ==
  pc = "select" /\ bytes + received >= length ~> (pc # "select" \/ changed)
=============================================================================
