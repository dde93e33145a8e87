--------------------------- MODULE PortParameters ---------------------------
(***************************************************************************)
(* The settings of an open port: setSerialPortParams, setFlowControlMode,   *)
(* setEndOfInputChar, setBaudBase, setDivisor, setDTR, setRTS and setDSR,   *)
(* by several threads (Linux build).                                        *)
(*                                                                         *)
(* Each reads a word of the device, changes its copy and writes it back:    *)
(* the termios, the serial_struct of the UART, or the modem lines.  Only    *)
(* setSerialPortParams is synchronized, so that what another thread writes  *)
(* between the two may be undone.  Calls that throw before they write       *)
(* (arguments that make no sense, a device that has gone) change nothing;   *)
(* the getters only read.                                                  *)
(***************************************************************************)
EXTENDS TermiosCodes, FiniteSets

CONSTANTS Threads, null,
          Calls,      \* how many calls they make in all (a bound)
          Params,     \* the arguments of setSerialPortParams
          FlowModes,  \* the arguments of setFlowControlMode, sets of flags
          Chars,      \* end-of-input characters
          Bases,      \* baud bases
          Divisors,   \* the arguments of setDivisor
          SpdCust     \* whether ASYNC_SPD_CUST is set: setserial does that

ASSUME ParamsAreRecords ==
  Params \subseteq [speed : Int, dataBits : Int, stopBits : STRING, parity : STRING]
ASSUME CallsAreCounted == Calls \in Nat
ASSUME BasesAreNumbers == Bases \subseteq Int
ASSUME NullIsNoWord == null \notin [base : Int, divisor : Nat]
ASSUME CustIsBoolean == SpdCust \in BOOLEAN

Lines == {"DTR", "RTS"}       \* the modem lines that the computer drives

VARIABLES
  tty,       \* the device's termios
  uart,      \* its serial_struct: baud_base and custom_divisor
  lines,     \* the modem lines that are on
  fields,    \* RXTXPort's speed, dataBits, stopBits, parity
  flowmode,  \* RXTXPort's field
  at,        \* what each thread is about to do
  arg,       \* the argument of its call
  copy,      \* the word that it has read
  calls,     \* how many calls have begun
  (* history, to tell what the properties are about *)
  lost,      \* whether a write of the termios or the lines has undone another thread's
  flowRaced, \* whether two calls of setFlowControlMode have overlapped
  tuned,     \* the serial_struct that the last custom speed was set with
  wanted     \* the lines, as the calls asked for them

device == <<tty, uart, lines>>
port == <<fields, flowmode>>
history == <<lost, flowRaced, tuned, wanted>>
vars == <<device, port, at, arg, copy, calls, history>>

(*   idle      no call                                                      *)
(*   params    setSerialPortParams holds the port's monitor, about to read  *)
(*   hangup    a speed of 0: about to read the lines;  drop: to write them  *)
(*   rate      about to set the speed in the copy                           *)
(*   custom    has computed a divisor, about to write the UART              *)
(*   apply     about to write the termios;  store: to assign the fields     *)
(*   flow, flowApply, flowStore    setFlowControlMode                       *)
(*   charApply, baseApply, divisorApply, lineApply    the others, which are *)
(*             about to write                                               *)
ParamPlaces == {"params", "hangup", "drop", "rate", "custom", "apply", "store"}
FlowPlaces == {"flow", "flowApply", "flowStore"}
Places == {"idle", "charApply", "baseApply", "divisorApply", "lineApply"} \cup ParamPlaces \cup FlowPlaces

Termios == [baud : Speeds, csize : 5 .. 8, cflag : SUBSET {"CSTOPB", "PARENB", "PARODD", "CMSPAR", "CRTSCTS"},
            iflag : SUBSET {"IXON", "IXOFF"}, eof : Chars \cup {0}]

TypeOK ==
  /\ tty \in Termios
  /\ uart.base \in Bases \cup {115200} /\ uart.divisor \in Nat
  /\ lines \subseteq Lines /\ wanted \subseteq Lines
  /\ fields \in [speed : {q.speed : q \in Params} \cup {9600, 38400} , dataBits : 5 .. 8,
                 stopBits : {"1", "1.5", "2"}, parity : DOMAIN Parities]
  /\ flowmode \in FlowModes \cup {{}}
  /\ at \in [Threads -> Places] /\ calls \in 0 .. Calls
  /\ Cardinality({t \in Threads : at[t] \in ParamPlaces}) <= 1
  /\ lost \subseteq {"tty", "lines"}
  /\ flowRaced \in BOOLEAN

(* The port has just been opened, and the device configured.                *)
Init ==
  /\ tty = configured
  /\ uart = [base |-> 115200, divisor |-> 0]
  /\ lines = Lines /\ wanted = Lines        \* opening a tty raises both
  /\ fields = set_java_vars(tty)
  /\ flowmode = {}
  /\ at = [t \in Threads |-> "idle"]
  /\ arg = [t \in Threads |-> null]
  /\ copy = [t \in Threads |-> null]
  /\ calls = 0
  /\ lost = {} /\ flowRaced = FALSE /\ tuned = uart

Goto(t, place) == at' = [at EXCEPT ![t] = place]

Copy(t, word) == copy' = [copy EXCEPT ![t] = word]

(* The call returns or throws. *)
Return(t) == /\ Goto(t, "idle")
             /\ arg' = [arg EXCEPT ![t] = null]
             /\ Copy(t, null)

Begin(t, place, argument) == /\ at[t] = "idle"
                             /\ calls < Calls /\ calls' = calls + 1
                             /\ Goto(t, place)
                             /\ arg' = [arg EXCEPT ![t] = argument]

(* A write of word by t, which has read it as old, undoes what was written  *)
(* in between.                                                              *)
Note(word, now, old) == lost' = IF now = old THEN lost ELSE lost \cup {word}

(* The tty driver drops both lines when the speed becomes 0, and raises both *)
(* when it is another again (the lines of a port without unread input).      *)
HungUp(on, from, to) ==
  IF from # B0 /\ to = B0 THEN {} ELSE IF from = B0 /\ to # B0 THEN Lines ELSE on

tcsetattr(word) == /\ tty' = word
                   /\ lines' = HungUp(lines, tty.baud, word.baud)
-----------------------------------------------------------------------------
(* setSerialPortParams *)

ParamsCall(t) ==
  /\ \A u \in Threads : at[u] \notin ParamPlaces
  /\ \E q \in Params : Begin(t, "params", q)
  /\ UNCHANGED <<device, port, copy, history>>

(* Faulty variant: what the translations say of the arguments is ignored.   *)
ParamsReadUnchecked(t) ==
  /\ at[t] = "params"
  /\ Copy(t, [read |-> tty, uart |-> null, lines |-> null])
  /\ Goto(t, IF translate_speed(arg[t].speed) = B0 THEN "hangup" ELSE "rate")
  /\ UNCHANGED <<calls, device, port, arg, history>>

(* translate_speed, then set_port_params: tcgetattr and the translations.   *)
ParamsRead(t) ==
  /\ at[t] = "params"
  /\ \/ /\ translate_speed(arg[t].speed) >= 0 /\ ValidParams(arg[t])
        /\ Copy(t, [read |-> tty, uart |-> null, lines |-> null])
        /\ Goto(t, IF translate_speed(arg[t].speed) = B0 THEN "hangup" ELSE "rate")
        /\ UNCHANGED arg
     \/ Return(t)
  /\ UNCHANGED <<calls, device, port, history>>

(* TIOCMGET and TIOCMSET: "hang up the modem aka drop DTR".                 *)
HangupRead(t) ==
  /\ at[t] = "hangup"
  /\ Copy(t, [copy[t] EXCEPT !.lines = lines])
  /\ Goto(t, "drop")
  /\ UNCHANGED <<calls, device, port, arg, history>>

Hangup(t) ==
  /\ at[t] = "drop"
  /\ lines' = copy[t].lines \ {"DTR"}
  /\ wanted' = wanted \ {"DTR"}
  /\ Note("lines", lines, copy[t].lines)
  /\ Goto(t, "rate")
  /\ UNCHANGED <<calls, tty, uart, port, arg, copy, flowRaced, tuned>>

(* Faulty variant: 38400 is a speed like any other.                         *)
NativeSpeedPlain(rate) == translate_speed(rate)

(* cfsetispeed and cfsetospeed.  38400 is a custom speed, too; a speed they *)
(* do not know needs the UART, and throws if there is no TIOCGSERIAL.       *)
NativeSpeed(rate) ==
  IF translate_speed(rate) = B38400 THEN 38400 ELSE translate_speed(rate)

Rate(t) ==
  /\ at[t] = "rate"
  /\ \/ /\ cfsetspeed(NativeSpeed(arg[t].speed))
        /\ Goto(t, "apply")
        /\ UNCHANGED <<arg, copy>>
     \/ /\ ~cfsetspeed(NativeSpeed(arg[t].speed))
        /\ \/ /\ Copy(t, [copy[t] EXCEPT !.uart = uart])
              /\ Goto(t, "custom")
              /\ UNCHANGED arg
           \/ Return(t)
  /\ UNCHANGED <<calls, device, port, history>>

(* TIOCSSERIAL, which not every driver and not every user may do.           *)
Custom(t) ==
  /\ at[t] = "custom"
  /\ \/ /\ copy[t].uart.base >= 1
        /\ uart' = [copy[t].uart EXCEPT !.divisor = copy[t].uart.base \div NativeSpeed(arg[t].speed)]
        /\ Copy(t, [copy[t] EXCEPT !.uart = uart'])
        /\ Goto(t, "apply")
        /\ UNCHANGED arg
     \/ /\ Return(t)
        /\ UNCHANGED uart
  /\ UNCHANGED <<calls, tty, lines, port, history>>

Baud(t) == IF cfsetspeed(NativeSpeed(arg[t].speed)) THEN translate_speed(arg[t].speed) ELSE B38400

(* tcsetattr; what is asked of the lines goes by the speeds that Java gives. *)
Apply(t) ==
  /\ at[t] = "apply"
  /\ \/ /\ tcsetattr([Translated(copy[t].read, arg[t]) EXCEPT !.baud = Baud(t)])
        /\ wanted' = HungUp(wanted, fields.speed, arg[t].speed)
        /\ Note("tty", tty, copy[t].read)
        /\ Goto(t, "store")
        /\ UNCHANGED <<arg, copy>>
     \/ /\ Return(t)
        /\ UNCHANGED <<tty, lines, lost, wanted>>
  /\ UNCHANGED <<calls, uart, port, flowRaced, tuned>>

(* Faulty variant: 1.5 stop bits do not change the field dataBits.          *)
StoreAsAsked(t) ==
  /\ at[t] = "store"
  /\ fields' = arg[t]
  /\ tuned' = IF copy[t].uart = null THEN tuned ELSE copy[t].uart
  /\ Return(t)
  /\ UNCHANGED <<calls, device, flowmode, lost, flowRaced, wanted>>

(* The fields are assigned, and the port's monitor is released.             *)
Store(t) ==
  /\ at[t] = "store"
  /\ fields' = [arg[t] EXCEPT !.dataBits = IF arg[t].stopBits = "1.5" THEN 5 ELSE @]
  /\ tuned' = IF copy[t].uart = null THEN tuned ELSE copy[t].uart
  /\ Return(t)
  /\ UNCHANGED <<calls, device, flowmode, lost, flowRaced, wanted>>
-----------------------------------------------------------------------------
(* setFlowControlMode: not synchronized.  (It returns at once after the     *)
(* monitor thread has been interrupted.)                                    *)

FlowCall(t) ==
  /\ \E mode \in FlowModes : Begin(t, "flow", mode)
  /\ flowRaced' = (flowRaced \/ \E u \in Threads : at[u] \in FlowPlaces)
  /\ UNCHANGED <<device, port, copy, lost, tuned, wanted>>

FlowRead(t) ==
  /\ at[t] = "flow"
  /\ Copy(t, tty)
  /\ Goto(t, "flowApply")
  /\ UNCHANGED <<calls, device, port, arg, history>>

FlowApply(t) ==
  /\ at[t] = "flowApply"
  /\ \/ /\ tcsetattr(WithFlow(copy[t], arg[t]))
        /\ Note("tty", tty, copy[t])
        /\ Goto(t, "flowStore")
        /\ UNCHANGED <<arg, copy>>
     \/ /\ Return(t)
        /\ UNCHANGED <<tty, lines, lost>>
  /\ UNCHANGED <<calls, uart, port, flowRaced, tuned, wanted>>

FlowStore(t) ==
  /\ at[t] = "flowStore"
  /\ flowmode' = arg[t]
  /\ Return(t)
  /\ UNCHANGED <<calls, device, fields, history>>
-----------------------------------------------------------------------------
(* setEndOfInputChar *)

CharRead(t) ==
  /\ \E char \in Chars : Begin(t, "charApply", char)
  /\ Copy(t, tty)
  /\ UNCHANGED <<device, port, history>>

CharApply(t) ==
  /\ at[t] = "charApply"
  /\ tcsetattr([copy[t] EXCEPT !.eof = arg[t]])
  /\ Note("tty", tty, copy[t])
  /\ Return(t)
  /\ UNCHANGED <<calls, uart, port, flowRaced, tuned, wanted>>
-----------------------------------------------------------------------------
(* setBaudBase and setDivisor: TIOCGSERIAL and TIOCSSERIAL.                 *)

UartRead(t) ==
  /\ \/ \E base \in Bases : Begin(t, "baseApply", base)
     \/ \E divisor \in Divisors : Begin(t, "divisorApply", divisor)
  /\ Copy(t, uart)
  /\ UNCHANGED <<device, port, history>>

BaseApply(t) ==
  /\ at[t] = "baseApply"
  /\ uart' = IF arg[t] < 1 THEN uart ELSE [copy[t] EXCEPT !.base = arg[t]]
  /\ Return(t)
  /\ UNCHANGED <<calls, tty, lines, port, history>>

(* nativeSetDivisor does not look at its argument: it writes back what it   *)
(* has read, if there is a divisor at all.                                  *)
DivisorApply(t) ==
  /\ at[t] = "divisorApply"
  /\ uart' = IF copy[t].divisor < 1 THEN uart ELSE copy[t]
  /\ Return(t)
  /\ UNCHANGED <<calls, tty, lines, port, history>>
-----------------------------------------------------------------------------
(* setDTR, setRTS and setDSR.  DSR is not the computer's to set: the driver *)
(* ignores it and takes the two others from the word it is given.           *)

LineRead(t) ==
  /\ \E line \in Lines \cup {"DSR"}, state \in BOOLEAN :
       Begin(t, "lineApply", [line |-> line, state |-> state])
  /\ Copy(t, lines)
  /\ UNCHANGED <<device, port, history>>

(* Faulty variant: the word begins with no line set.                        *)
LineApplyAlone(t) ==
  /\ at[t] = "lineApply"
  /\ lines' = With({}, arg[t].line, arg[t].state) \cap Lines
  /\ wanted' = With(wanted, arg[t].line, arg[t].state) \cap Lines
  /\ Note("lines", lines, copy[t])
  /\ Return(t)
  /\ UNCHANGED <<calls, tty, uart, port, flowRaced, tuned>>

LineApply(t) ==
  /\ at[t] = "lineApply"
  /\ lines' = With(copy[t], arg[t].line, arg[t].state) \cap Lines
  /\ wanted' = With(wanted, arg[t].line, arg[t].state) \cap Lines
  /\ Note("lines", lines, copy[t])
  /\ Return(t)
  /\ UNCHANGED <<calls, tty, uart, port, flowRaced, tuned>>
-----------------------------------------------------------------------------
SetSerialPortParams(t) == \/ ParamsCall(t) \/ ParamsRead(t) \/ HangupRead(t) \/ Hangup(t)
                          \/ Rate(t) \/ Custom(t) \/ Apply(t) \/ Store(t)

SetFlowControlMode(t) == FlowCall(t) \/ FlowRead(t) \/ FlowApply(t) \/ FlowStore(t)

Next == \E t \in Threads :
  \/ SetSerialPortParams(t) \/ SetFlowControlMode(t)
  \/ CharRead(t) \/ CharApply(t)
  \/ UartRead(t) \/ BaseApply(t) \/ DivisorApply(t)
  \/ LineRead(t) \/ LineApply(t)

Spec == Init /\ [][Next]_vars
-----------------------------------------------------------------------------
(* Properties *)

Settled == \A t \in Threads : at[t] = "idle"

(* What getDataBits, getStopBits, getParity and getFlowControlMode say is   *)
(* what the device is set to, when no call is under way: whatever calls     *)
(* were refused half-way and however they interleaved, unless one wrote     *)
(* back a termios that another had changed since it was read, or two calls  *)
(* of setFlowControlMode overlapped.                                        *)
SettingsReported == Settled /\ "tty" \notin lost =>
  /\ tty.csize = fields.dataBits /\ Translated(tty, fields) = tty
  /\ ~flowRaced => WithFlow(tty, flowmode) = tty

(* The speed on the line; a divisor counts only with ASYNC_SPD_CUST.        *)
LineRate ==
  IF tty.baud = B38400 /\ SpdCust /\ uart.divisor > 0
  THEN uart.base \div uart.divisor
  ELSE get_java_baudrate(tty.baud)

(* A rate that the serial port can have: one with a code, or with           *)
(* ASYNC_SPD_CUST an integral part of the baud base, which is what 38400 has*)
(* to be then.  Numbers that are codes of other rates, such as 13 and 15,   *)
(* are taken for those.                                                    *)
Attainable(rate) ==
  IF SpdCust /\ ~cfsetspeed(NativeSpeed(rate))
  THEN ~cfsetspeed(rate) /\ tuned.base % rate = 0
  ELSE IsStandard(rate)

(* The device runs at the speed that getBaudRate reports, if it can run at  *)
(* that speed and no one has touched the divisor since: 38400 also after a  *)
(* custom speed, for which the code sets the same B38400.                   *)
RateReported ==
  Settled /\ "tty" \notin lost /\ Attainable(fields.speed) /\ (tty.baud = B38400 => uart = tuned)
    => LineRate = fields.speed

isDTR == "DTR" \in lines
isRTS == "RTS" \in lines

(* DTR and RTS are as the calls asked for, at every moment and however many *)
(* overlap: setDTR and setRTS change their own line only, setFlowControlMode*)
(* and setEndOfInputChar none, and setSerialPortParams both, when the speed *)
(* becomes 0 or ceases to be 0, but else none, whether it succeeds or not   *)
(* (a refused 0 may have dropped DTR).  Not after a call has written back a *)
(* word, of the lines or of the termios, that another had changed since it  *)
(* was read.                                                                *)
LinesKept == lost = {} => /\ isDTR <=> "DTR" \in wanted
                          /\ isRTS <=> "RTS" \in wanted

nativeGetDivisor == uart.divisor

(* "perform: set the Divisor for custom speeds" (nativeSetDivisor): when it *)
(* returns without an exception, the UART has that divisor.                 *)
DivisorSet == [][\A t \in Threads :
  DivisorApply(t) /\ copy[t].divisor >= 1 => nativeGetDivisor' = arg[t]]_vars
=============================================================================
