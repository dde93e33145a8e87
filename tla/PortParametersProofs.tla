------------------------ MODULE PortParametersProofs ------------------------
(***************************************************************************)
(* Proofs about PortParameters for any number of threads and calls, any     *)
(* arguments and any baud bases.                                            *)
(***************************************************************************)
EXTENDS PortParameters, FiniteSetTheorems, TLAPS

-----------------------------------------------------------------------------
(* The translations, as functions of the bits and flags they change          *)

ParityFlags == {"PARENB", "PARODD", "CMSPAR"}

Bits(q) == IF q.stopBits = "1.5" THEN 5 ELSE q.dataBits

Flags(f, q) == ((IF q.stopBits = "1" THEN f \ {"CSTOPB"} ELSE f \cup {"CSTOPB"}) \ ParityFlags)
               \cup Parities[q.parity]

Hardware(mode) == mode \cap {"RTSCTS_IN", "RTSCTS_OUT"} # {}

Xon(f, mode) == With(With(f, "IXOFF", "XONXOFF_IN" \in mode), "IXON", "XONXOFF_OUT" \in mode)

(* What the translations and setflowcontrol leave alone is left alone. *)
Agrees(word, q) == word.csize = Bits(q) /\ word.cflag = Flags(word.cflag, q)

Flows(word, mode) == /\ word.cflag = With(word.cflag, "CRTSCTS", Hardware(mode))
                     /\ word.iflag = Xon(word.iflag, mode)

-----------------------------------------------------------------------------
(* The inductive invariant *)

Uarts == [base : Bases \cup {115200}, divisor : Nat]

(* The speed code that the termios gets for rate, and the serial_struct that *)
(* goes with it: none unless the rate is a custom one.                       *)
BaudOf(rate) == IF cfsetspeed(NativeSpeed(rate)) THEN translate_speed(rate) ELSE B38400

Divides(u, rate) == u \in Uarts /\ u.base >= 1 /\ u.divisor = u.base \div NativeSpeed(rate)

Checked == {"hangup", "drop", "rate", "custom", "apply", "store"}

Copies == [read : Termios, uart : Uarts \cup {null}, lines : (SUBSET Lines) \cup {null}]

(* The argument and the copied word of a call, at each of its places. *)
HeldParams(t) ==
  /\ at[t] = "params" => arg[t] \in Params
  /\ at[t] \in Checked => /\ arg[t] \in Params /\ ValidParams(arg[t])
                          /\ translate_speed(arg[t].speed) >= 0
                          /\ copy[t] \in Copies
  /\ at[t] \in {"hangup", "drop", "rate"} => copy[t].uart = null
  /\ at[t] = "drop" => copy[t].lines \subseteq Lines
  /\ at[t] = "custom" => copy[t].uart \in Uarts /\ ~cfsetspeed(NativeSpeed(arg[t].speed))
  /\ at[t] \in {"apply", "store"} =>
       IF cfsetspeed(NativeSpeed(arg[t].speed)) THEN copy[t].uart = null
       ELSE Divides(copy[t].uart, arg[t].speed)

HeldOthers(t) ==
  /\ at[t] \in FlowPlaces => arg[t] \in FlowModes
  /\ at[t] = "flowApply" => copy[t] \in Termios
  /\ at[t] = "charApply" => arg[t] \in Chars /\ copy[t] \in Termios
  /\ at[t] = "baseApply" => arg[t] \in Bases /\ copy[t] \in Uarts
  /\ at[t] = "divisorApply" => copy[t] \in Uarts
  /\ at[t] = "lineApply" => copy[t] \subseteq Lines

Held == \A t \in Threads : HeldParams(t) /\ HeldOthers(t)

Fields == [speed : {q.speed : q \in Params} \cup {9600, 38400}, dataBits : 5 .. 8,
           stopBits : {"1", "1.5", "2"}, parity : DOMAIN Parities]

Types ==
  /\ tty \in Termios /\ uart \in Uarts /\ tuned \in Uarts
  /\ lines \subseteq Lines /\ wanted \subseteq Lines
  /\ fields \in Fields /\ flowmode \in FlowModes \cup {{}}
  /\ at \in [Threads -> Places] /\ calls \in 0 .. Calls
  /\ DOMAIN arg = Threads /\ DOMAIN copy = Threads
  /\ lost \subseteq {"tty", "lines"} /\ flowRaced \in BOOLEAN

(* setSerialPortParams is synchronized; setFlowControlMode is not, and       *)
(* flowRaced says whether that has been noticed.                             *)
Alone ==
  /\ \A t, u \in Threads : at[t] \in ParamPlaces /\ at[u] \in ParamPlaces => t = u
  /\ ~flowRaced => \A t, u \in Threads : at[t] \in FlowPlaces /\ at[u] \in FlowPlaces => t = u

(* Between the write of the device and the assignment of the fields, it is   *)
(* the argument that the device agrees with; before and after, the fields.   *)
Reported ==
  "tty" \notin lost =>
    /\ \A t \in Threads : at[t] = "store" => Agrees(tty, arg[t])
    /\ (\A t \in Threads : at[t] # "store") => Agrees(tty, fields)
    /\ ~flowRaced => /\ \A t \in Threads : at[t] = "flowStore" => Flows(tty, arg[t])
                     /\ (\A t \in Threads : at[t] # "flowStore") => Flows(tty, flowmode)

Timed ==
  "tty" \notin lost =>
    /\ \A t \in Threads : at[t] = "store" => tty.baud = BaudOf(arg[t].speed)
    /\ (\A t \in Threads : at[t] # "store") =>
         /\ tty.baud = BaudOf(fields.speed)
         /\ ~cfsetspeed(NativeSpeed(fields.speed)) => Divides(tuned, fields.speed)

FieldsFit == fields.dataBits = Bits(fields) /\ translate_speed(fields.speed) >= 0

Driven == lost = {} => lines = wanted

IInv == Types /\ Held /\ Alone /\ FieldsFit /\ Driven /\ Reported /\ Timed
-----------------------------------------------------------------------------
(* Lemmas about the conversions *)

LEMMA ParityFlagsOnly == \A p \in DOMAIN Parities : Parities[p] \subseteq ParityFlags
BY DEF Parities, ParityFlags

LEMMA FlagsAreFlags ==
  ASSUME NEW f \in SUBSET {"CSTOPB", "PARENB", "PARODD", "CMSPAR", "CRTSCTS"},
         NEW q, q.parity \in DOMAIN Parities
  PROVE  Flags(f, q) \subseteq {"CSTOPB", "PARENB", "PARODD", "CMSPAR", "CRTSCTS"}
BY ParityFlagsOnly DEF Flags, ParityFlags

(* Translating twice is translating once, ...                                *)
LEMMA FlagsTwice ==
  ASSUME NEW f, NEW q, q.parity \in DOMAIN Parities
  PROVE  Flags(Flags(f, q), q) = Flags(f, q)
<1>1. Parities[q.parity] \subseteq ParityFlags
  BY ParityFlagsOnly
<1>2. QED BY <1>1, "CSTOPB" \notin ParityFlags DEF Flags, ParityFlags

(* ... and the flow control's flag is none of the translations'.             *)
LEMMA FlagsAndFlow ==
  ASSUME NEW f, NEW q, NEW b \in BOOLEAN, q.parity \in DOMAIN Parities
  PROVE  /\ Flags(With(f, "CRTSCTS", b), q) = With(Flags(f, q), "CRTSCTS", b)
<1>1. Parities[q.parity] \subseteq ParityFlags
  BY ParityFlagsOnly
<1>2. "CRTSCTS" \notin ParityFlags \cup {"CSTOPB"}
  BY DEF ParityFlags
<1>3. QED BY <1>1, <1>2 DEF Flags, With

LEMMA FlowTwice ==
  ASSUME NEW f, NEW mode
  PROVE  /\ \A b \in BOOLEAN : With(With(f, "CRTSCTS", b), "CRTSCTS", b) = With(f, "CRTSCTS", b)
         /\ Xon(Xon(f, mode), mode) = Xon(f, mode)
BY DEF With, Xon

LEMMA Word ==
  ASSUME NEW w \in Termios
  PROVE  w = [baud |-> w.baud, csize |-> w.csize, cflag |-> w.cflag, iflag |-> w.iflag,
              eof |-> w.eof]
BY DEF Termios

(* An EXCEPT of two fields, field by field. *)
LEMMA TwoFields ==
  ASSUME NEW w \in Termios, NEW f, NEW i
  PROVE  [w EXCEPT !.cflag = f, !.iflag = i]
           = [baud |-> w.baud, csize |-> w.csize, cflag |-> f, iflag |-> i, eof |-> w.eof]
<1> DEFINE x == [w EXCEPT !.cflag = f, !.iflag = i]
<1>1. DOMAIN w = {"baud", "csize", "cflag", "iflag", "eof"}
  BY DEF Termios
<1>2. /\ x.baud = w.baud /\ x.csize = w.csize /\ x.cflag = f /\ x.iflag = i /\ x.eof = w.eof
      /\ DOMAIN x = {"baud", "csize", "cflag", "iflag", "eof"}
  BY <1>1
<1>3. x = [y \in DOMAIN x |-> x[y]]
  OBVIOUS
<1> HIDE DEF x
<1>4. x = [baud |-> x.baud, csize |-> x.csize, cflag |-> x.cflag, iflag |-> x.iflag,
           eof |-> x.eof]
  BY <1>2, <1>3
<1>5. x = [baud |-> w.baud, csize |-> w.csize, cflag |-> f, iflag |-> i, eof |-> w.eof]
  BY <1>2, <1>4
<1>6. QED BY <1>5 DEF x

LEMMA TranslatedWord ==
  ASSUME NEW w \in Termios, NEW q, ValidParams(q)
  PROVE  Translated(w, q) = [baud |-> w.baud, csize |-> Bits(q), cflag |-> Flags(w.cflag, q),
                             iflag |-> w.iflag, eof |-> w.eof]
<1>1. PICK wb, wc, wf, wi, we : w = [baud |-> wb, csize |-> wc, cflag |-> wf, iflag |-> wi, eof |-> we]
  BY Word
<1>2. translate_data_bits(w, q.dataBits)
        = [baud |-> wb, csize |-> q.dataBits, cflag |-> wf, iflag |-> wi, eof |-> we]
  BY <1>1 DEF translate_data_bits
<1>3. translate_stop_bits(translate_data_bits(w, q.dataBits), q.stopBits)
        = [baud |-> wb, csize |-> Bits(q),
           cflag |-> IF q.stopBits = "1" THEN wf \ {"CSTOPB"} ELSE wf \cup {"CSTOPB"},
           iflag |-> wi, eof |-> we]
  <2>1. CASE q.stopBits = "1"
    BY <1>2, <2>1 DEF translate_stop_bits, Bits
  <2>2. CASE q.stopBits = "2"
    BY <1>2, <2>2 DEF translate_stop_bits, Bits
  <2>3. CASE q.stopBits = "1.5"
    BY <1>2, <2>3 DEF translate_stop_bits, translate_data_bits, Bits
  <2>4. QED BY <2>1, <2>2, <2>3 DEF ValidParams
<1>4. QED BY <1>1, <1>3, SMTT(30) DEF Translated, translate_parity, Flags, ParityFlags

LEMMA TranslatedType ==
  ASSUME NEW w \in Termios, NEW q, ValidParams(q), NEW b \in Speeds
  PROVE  [Translated(w, q) EXCEPT !.baud = b] \in Termios
<1>1. Bits(q) \in 5 .. 8
  BY DEF ValidParams, Bits
<1>2. Flags(w.cflag, q) \in SUBSET {"CSTOPB", "PARENB", "PARODD", "CMSPAR", "CRTSCTS"}
  BY FlagsAreFlags DEF ValidParams, Termios
<1>3. [Translated(w, q) EXCEPT !.baud = b]
        = [baud |-> b, csize |-> Bits(q), cflag |-> Flags(w.cflag, q),
           iflag |-> w.iflag, eof |-> w.eof]
  BY TranslatedWord
<1>4. w.iflag \in SUBSET {"IXON", "IXOFF"} /\ w.eof \in Chars \cup {0}
  BY DEF Termios
<1>5. QED BY <1>1, <1>2, <1>3, <1>4 DEF Termios

LEMMA WithFlowWord ==
  ASSUME NEW w \in Termios, NEW mode
  PROVE  WithFlow(w, mode)
           = [baud |-> w.baud, csize |-> w.csize,
              cflag |-> With(w.cflag, "CRTSCTS", Hardware(mode)),
              iflag |-> Xon(w.iflag, mode), eof |-> w.eof]
<1>1. WithFlow(w, mode) = [w EXCEPT !.cflag = With(w.cflag, "CRTSCTS", Hardware(mode)),
                                    !.iflag = Xon(w.iflag, mode)]
  BY DEF WithFlow, Hardware, Xon, Termios
<1>2. QED BY <1>1, TwoFields

LEMMA WithFlowType ==
  ASSUME NEW w \in Termios, NEW mode
  PROVE  WithFlow(w, mode) \in Termios
<1>1. With(w.cflag, "CRTSCTS", Hardware(mode))
        \in SUBSET {"CSTOPB", "PARENB", "PARODD", "CMSPAR", "CRTSCTS"}
  BY DEF With, Termios
<1>2. Xon(w.iflag, mode) \in SUBSET {"IXON", "IXOFF"}
  BY DEF Xon, With, Termios
<1>3. w.baud \in Speeds /\ w.csize \in 5 .. 8 /\ w.eof \in Chars \cup {0}
  BY DEF Termios
<1>4. QED BY <1>1, <1>2, <1>3, WithFlowWord DEF Termios

(* Every speed code and every rate is a number. *)
LEMMA CodesAreSpeeds == Codes \subseteq Speeds
BY DEF Codes, Speeds, B0, CBAUDEX, LowRates, HighRates

LEMMA SpeedIsNumber ==
  ASSUME NEW rate \in Int
  PROVE  translate_speed(rate) \in Int
<1>1. Codes \subseteq Int
  BY CodesAreSpeeds DEF Speeds, CBAUDEX
<1>2. IsStandard(rate) => (CHOOSE code \in Codes : Coded(rate, code)) \in Codes
  BY Zenon DEF IsStandard
<1>3. CASE IsStandard(rate)
  BY <1>1, <1>2, <1>3 DEF translate_speed
<1>4. CASE ~IsStandard(rate)
  BY <1>4 DEF translate_speed
<1>5. QED BY <1>3, <1>4

LEMMA BaudIsSpeed == \A rate : BaudOf(rate) \in Speeds
<1>1. 38400 \notin Speeds /\ B38400 \in Speeds
  BY DEF Speeds, CBAUDEX, B38400
<1>2. QED BY <1>1 DEF BaudOf, cfsetspeed, NativeSpeed

LEMMA CustomIsPositive ==
  ASSUME NEW rate \in Int, translate_speed(rate) >= 0, ~cfsetspeed(NativeSpeed(rate))
  PROVE  NativeSpeed(rate) \in Nat /\ NativeSpeed(rate) > 0
<1>1. translate_speed(rate) \in Int
  BY SpeedIsNumber
<1>2. NativeSpeed(rate) \in Int /\ NativeSpeed(rate) >= 0
  BY <1>1 DEF NativeSpeed
<1>3. 0 \in Speeds
  BY DEF Speeds
<1>4. QED BY <1>2, <1>3 DEF cfsetspeed

(* get_java_baudrate undoes translate_speed. *)
LEMMA BaudBack ==
  ASSUME NEW rate, IsStandard(rate)
  PROVE  /\ get_java_baudrate(translate_speed(rate)) = rate
         /\ translate_speed(rate) \in Speeds
<1>1. \E code \in Codes : Coded(rate, code)
  BY DEF IsStandard
<1>2. PICK code \in Codes : Coded(rate, code) /\ translate_speed(rate) = code
  <2> DEFINE code == CHOOSE c \in Codes : Coded(rate, c)
  <2>1. code \in Codes /\ Coded(rate, code)
    BY <1>1, Zenon
  <2>2. translate_speed(rate) = code
    BY DEF translate_speed
  <2>3. QED BY <2>1, <2>2
<1>3. code \in Speeds
  BY CodesAreSpeeds
<1>4. DOMAIN LowRates = 1 .. 15 /\ DOMAIN HighRates = 1 .. 15
  BY DEF LowRates, HighRates
<1>5. get_java_baudrate(code) = rate
  <2>1. CASE rate = 0 /\ code = B0
    BY <1>4, <2>1, SMT DEF get_java_baudrate, B0, CBAUDEX
  <2>2. CASE code \in DOMAIN LowRates /\ LowRates[code] = rate
    BY <1>4, <2>2, SMT DEF get_java_baudrate, B0, CBAUDEX
  <2>3. CASE code - CBAUDEX \in DOMAIN HighRates /\ HighRates[code - CBAUDEX] = rate
    <3>1. code \in Int
      BY <1>3 DEF Speeds, CBAUDEX
    <3>2. code # 0 /\ code \notin 1 .. 15
      BY <1>4, <2>3, <3>1, SMT DEF CBAUDEX
    <3>3. QED BY <1>4, <2>3, <3>2, SMT DEF get_java_baudrate, B0
  <2>4. QED BY <1>2, <2>1, <2>2, <2>3 DEF Coded
<1>6. QED BY <1>2, <1>3, <1>5

(* The code is B0 for the speed 0 alone. *)
LEMMA ZeroCode ==
  ASSUME NEW rate \in Int, translate_speed(rate) >= 0
  PROVE  BaudOf(rate) = B0 <=> rate = B0
<1>1. IsStandard(0)
  BY DEF IsStandard, Codes, Coded, B0
<1>2. get_java_baudrate(0) = 0
  <2>1. DOMAIN LowRates = 1 .. 15 /\ DOMAIN HighRates = 1 .. 15
    BY DEF LowRates, HighRates
  <2>2. QED BY <2>1, SMT DEF get_java_baudrate, B0, CBAUDEX
<1>3. CASE IsStandard(rate)
  <2>1. translate_speed(rate) = 0 <=> rate = 0
    <3>1. ASSUME translate_speed(rate) = 0 PROVE rate = 0
      BY <1>2, <1>3, <3>1, BaudBack
    <3>2. translate_speed(0) = 0
      <4>1. \A code \in Codes : Coded(0, code) <=> code = 0
        BY DEF Codes, Coded, LowRates, HighRates, B0, CBAUDEX
      <4>2. 0 \in Codes
        BY DEF Codes, B0
      <4>3. (CHOOSE code \in Codes : Coded(0, code)) = 0
        BY <4>1, <4>2
      <4>4. QED BY <1>1, <4>3 DEF translate_speed
    <3>3. QED BY <3>1, <3>2
  <2>2. NativeSpeed(rate) = IF translate_speed(rate) = B38400 THEN 38400 ELSE translate_speed(rate)
    BY DEF NativeSpeed
  <2>3. translate_speed(rate) # B38400 => cfsetspeed(NativeSpeed(rate))
    BY <1>3, <2>2, BaudBack DEF cfsetspeed
  <2>4. B38400 # 0
    BY DEF B38400
  <2>5. \/ BaudOf(rate) = translate_speed(rate)
        \/ BaudOf(rate) = B38400 /\ translate_speed(rate) = B38400
    BY <2>3 DEF BaudOf, cfsetspeed
  <2>6. QED BY <2>1, <2>4, <2>5 DEF B0
<1>4. CASE ~IsStandard(rate)
  <2>1. rate # 0 /\ translate_speed(rate) = rate
    BY <1>1, <1>4 DEF translate_speed
  <2>2. BaudOf(rate) # 0
    BY <2>1 DEF BaudOf, B38400
  <2>3. QED BY <2>1, <2>2 DEF B0
<1>5. QED BY <1>3, <1>4

(* What tcsetattr does to the lines goes by whether the speeds are 0.        *)
LEMMA HungUpAlike ==
  ASSUME NEW on, NEW a, NEW b, NEW c, NEW d, a = B0 <=> c = B0, b = B0 <=> d = B0
  PROVE  HungUp(on, a, b) = HungUp(on, c, d)
BY DEF HungUp

LEMMA HungUpType ==
  ASSUME NEW on \in SUBSET Lines, NEW a, NEW b
  PROVE  HungUp(on, a, b) \subseteq Lines
BY DEF HungUp

(* Only 38400 has the code of 38400. *)
LEMMA OnlyCode ==
  ASSUME NEW rate, IsStandard(rate), translate_speed(rate) = B38400
  PROVE  rate = 38400
<1>1. get_java_baudrate(B38400) = 38400
  <2>1. 15 \in DOMAIN LowRates /\ LowRates[15] = 38400
    BY DEF LowRates
  <2>2. 15 - CBAUDEX \notin DOMAIN HighRates
    BY DEF HighRates, CBAUDEX
  <2>3. QED BY <2>1, <2>2, SMT DEF get_java_baudrate, B0, B38400
<1>2. QED BY <1>1, BaudBack

(* A divisor without a remainder gives the rate that was asked for. *)
LEMMA DivMod ==
  ASSUME NEW a \in Nat, NEW s \in Nat, s > 0
  PROVE  a = s * (a \div s) + (a % s) /\ a \div s \in Nat
OBVIOUS

LEMMA DivUnique ==
  ASSUME NEW q \in Nat, NEW s \in Nat, q > 0
  PROVE  (s * q) \div q = s
OBVIOUS

LEMMA Exact ==
  ASSUME NEW a \in Nat, NEW s \in Nat, s > 0, a > 0, a % s = 0
  PROVE  a \div s > 0 /\ a \div (a \div s) = s
<1> DEFINE q == a \div s
<1>1. q \in Nat /\ a = s * q
  BY DivMod
<1> HIDE DEF q
<1>2. q > 0
  BY <1>1
<1>3. a \div q = s
  BY <1>1, <1>2, DivUnique
<1>4. QED BY <1>2, <1>3 DEF q

LEMMA BaseIsInt == \A u \in Uarts : u.base \in Int
<1> SUFFICES ASSUME NEW u \in Uarts PROVE u.base \in Int
  OBVIOUS
<1>1. u.base \in Bases \cup {115200}
  BY DEF Uarts
<1>2. CASE u.base \in Bases
  BY <1>2, BasesAreNumbers
<1>3. CASE u.base = 115200
  BY <1>3, SMT
<1>4. QED BY <1>1, <1>2, <1>3

LEMMA QuotientIsNat ==
  ASSUME NEW a \in Nat, NEW b \in Nat, b > 0
  PROVE  a \div b \in Nat
OBVIOUS
-----------------------------------------------------------------------------
LEMMA InitInv == Init => IInv
<1> SUFFICES ASSUME Init PROVE IInv
  OBVIOUS
<1>1. tty = [baud |-> 13, csize |-> 8, cflag |-> {}, iflag |-> {}, eof |-> 0]
  BY DEF Init, configured, B9600
<1>2. ParityOf(tty) \in DOMAIN Parities /\ Parities[ParityOf(tty)] = {}
  <2>1. "NONE" \in DOMAIN Parities /\ Parities["NONE"] = tty.cflag \cap ParityFlags
    BY <1>1 DEF Parities
  <2>2. QED BY <1>1, <2>1 DEF ParityOf, ParityFlags
<1>3. fields = [speed |-> 9600, dataBits |-> 8, stopBits |-> "1", parity |-> ParityOf(tty)]
  <2>1. get_java_baudrate(13) = 9600
    <3>1. 13 \in DOMAIN LowRates /\ LowRates[13] = 9600
      BY DEF LowRates
    <3>2. 13 - CBAUDEX \notin DOMAIN HighRates
      BY DEF HighRates, CBAUDEX
    <3>3. QED BY <3>1, <3>2 DEF get_java_baudrate, B0
  <2>2. StopBitsOf(tty) = "1"
    BY <1>1 DEF StopBitsOf
  <2>3. QED BY <1>1, <2>1, <2>2 DEF Init, set_java_vars
<1>4. uart = [base |-> 115200, divisor |-> 0]
  BY DEF Init
<1>5. Types
  <2>1. 13 \in Speeds
    BY DEF Speeds
  <2>2. tty \in Termios
    BY <1>1, <2>1 DEF Termios
  <2>3. fields \in Fields
    BY <1>2, <1>3 DEF Fields
  <2>4. uart \in Uarts /\ tuned \in Uarts
    BY <1>4 DEF Init, Uarts
  <2>5. at \in [Threads -> Places] /\ calls \in 0 .. Calls
    BY CallsAreCounted DEF Init, Places
  <2>6. /\ lines \subseteq Lines /\ wanted \subseteq Lines /\ flowmode \in FlowModes \cup {{}}
        /\ lost \subseteq {"tty", "lines"}
    BY DEF Init
  <2>7. DOMAIN arg = Threads /\ DOMAIN copy = Threads
    BY DEF Init
  <2>8. flowRaced \in BOOLEAN
    <3>1. flowRaced = FALSE
      BY DEF Init
    <3>2. QED BY <3>1
  <2>9. QED BY <2>2, <2>3, <2>4, <2>5, <2>6, <2>7, <2>8 DEF Types
<1>6. Held /\ Alone /\ Driven
  BY DEF Init, Held, HeldParams, HeldOthers, Alone, Driven, Checked, ParamPlaces, FlowPlaces
<1>t. translate_speed(9600) = 13
  <2>1. \A code \in Codes : Coded(9600, code) <=> code = 13
    BY DEF Codes, Coded, LowRates, HighRates, B0, CBAUDEX
  <2>2. 13 \in Codes
    BY DEF Codes, LowRates
  <2>3. IsStandard(9600)
    BY <2>1, <2>2 DEF IsStandard
  <2>4. (CHOOSE code \in Codes : Coded(9600, code)) = 13
    BY <2>1, <2>2
  <2>5. QED BY <2>3, <2>4 DEF translate_speed
<1>7. FieldsFit
  BY <1>3, <1>t DEF FieldsFit, Bits
<1>8. Reported
  <2>1. Agrees(tty, fields)
    BY <1>1, <1>2, <1>3 DEF Agrees, Bits, Flags
  <2>2. Flows(tty, {})
    BY <1>1 DEF Flows, With, Hardware, Xon
  <2>3. QED BY <2>1, <2>2 DEF Init, Reported
<1>9. Timed
  <2>2. cfsetspeed(NativeSpeed(9600)) /\ BaudOf(9600) = 13
    BY <1>t DEF NativeSpeed, cfsetspeed, Speeds, B38400, BaudOf
  <2>3. QED BY <1>1, <1>3, <2>2 DEF Init, Timed
<1>10. QED BY <1>5, <1>6, <1>7, <1>8, <1>9 DEF IInv

LEMMA StepAlone == IInv /\ [Next]_vars => Alone'
<1> SUFFICES ASSUME Types, Alone, [Next]_vars PROVE Alone'
  BY DEF IInv
<1>0. at \in [Threads -> Places] /\ flowRaced \in BOOLEAN
  BY DEF Types
<1> HIDE DEF Types
<1> USE <1>0 DEF Alone, Places, ParamPlaces, FlowPlaces, Goto, Return, Begin, Copy, history
<1>1. CASE UNCHANGED vars
  BY <1>1 DEF vars
<1>2. ASSUME NEW t \in Threads, ParamsCall(t) PROVE Alone'
  BY <1>2 DEF ParamsCall
<1>3. ASSUME NEW t \in Threads, ParamsRead(t) \/ HangupRead(t) \/ Hangup(t)
      PROVE  Alone'
  BY <1>3 DEF ParamsRead, HangupRead, Hangup
<1>4. ASSUME NEW t \in Threads, Rate(t) \/ Custom(t) PROVE Alone'
  BY <1>4 DEF Rate, Custom
<1>5. ASSUME NEW t \in Threads, Apply(t) \/ Store(t) PROVE Alone'
  BY <1>5 DEF Apply, Store
<1>6. ASSUME NEW t \in Threads, FlowCall(t) PROVE Alone'
  <2>1. CASE flowRaced'
    BY <1>6, <2>1 DEF FlowCall
  <2>2. CASE ~flowRaced'
    <3>1. ~flowRaced /\ \A u \in Threads : at[u] \notin FlowPlaces
      BY Zenon, <1>0, <1>6, <2>2 DEF FlowCall
    <3>2. QED BY <1>6, <3>1 DEF FlowCall
  <2>3. QED BY <2>1, <2>2
<1>7. ASSUME NEW t \in Threads, FlowRead(t) \/ FlowApply(t) \/ FlowStore(t)
      PROVE  Alone'
  BY <1>7 DEF FlowRead, FlowApply, FlowStore
<1>8. ASSUME NEW t \in Threads, CharRead(t) \/ CharApply(t) PROVE Alone'
  BY <1>8 DEF CharRead, CharApply
<1>9. ASSUME NEW t \in Threads, UartRead(t) \/ BaseApply(t) \/ DivisorApply(t)
      PROVE  Alone'
  BY <1>9 DEF UartRead, BaseApply, DivisorApply
<1>10. ASSUME NEW t \in Threads, LineRead(t) \/ LineApply(t) PROVE Alone'
  BY <1>10 DEF LineRead, LineApply
<1> HIDE DEF Alone, Places, ParamPlaces, FlowPlaces, Goto, Return, Begin, Copy, history
<1>11. QED
  BY <1>1, <1>2, <1>3, <1>4, <1>5, <1>6, <1>7, <1>8, <1>9, <1>10
     DEF Next, SetSerialPortParams, SetFlowControlMode

LEMMA StepFields == IInv /\ [Next]_vars => FieldsFit'
<1> SUFFICES ASSUME Types, Held, FieldsFit, [Next]_vars PROVE FieldsFit'
  BY DEF IInv
<1> USE DEF Types, Held, HeldParams, FieldsFit, Bits, Checked, port
<1>1. CASE UNCHANGED vars
  BY <1>1 DEF vars
<1>2. ASSUME NEW t \in Threads, ParamsCall(t) \/ ParamsRead(t) \/ HangupRead(t) \/ Hangup(t) \/ Rate(t) \/ Custom(t) \/ Apply(t)
      PROVE  FieldsFit'
  BY <1>2 DEF ParamsCall, ParamsRead, HangupRead, Hangup, Rate, Custom, Apply
<1>3. ASSUME NEW t \in Threads, Store(t) PROVE FieldsFit'
  BY <1>3 DEF Store
<1>4. ASSUME NEW t \in Threads, FlowCall(t) \/ FlowRead(t) \/ FlowApply(t) \/ FlowStore(t)
      PROVE  FieldsFit'
  BY <1>4 DEF FlowCall, FlowRead, FlowApply, FlowStore
<1>5. ASSUME NEW t \in Threads, CharRead(t) \/ CharApply(t) \/ UartRead(t) \/ BaseApply(t) \/ DivisorApply(t) \/ LineRead(t) \/ LineApply(t)
      PROVE  FieldsFit'
  BY <1>5 DEF CharRead, CharApply, UartRead, BaseApply, DivisorApply, LineRead, LineApply
<1> HIDE DEF Types, Held, HeldParams, FieldsFit, Bits, Checked, port
<1>6. QED
  BY <1>1, <1>2, <1>3, <1>4, <1>5
     DEF Next, SetSerialPortParams, SetFlowControlMode

(* The word a thread of setSerialPortParams carries. *)
LEMMA CopyFields ==
  ASSUME NEW c \in Copies
  PROVE  /\ c.read \in Termios
         /\ \A l \in SUBSET Lines : /\ [c EXCEPT !.lines = l] \in Copies
                                    /\ [c EXCEPT !.lines = l].lines = l
                                    /\ [c EXCEPT !.lines = l].uart = c.uart
         /\ \A u \in Uarts : /\ [c EXCEPT !.uart = u] \in Copies
                             /\ [c EXCEPT !.uart = u].uart = u
BY DEF Copies

LEMMA Retuned ==
  ASSUME NEW u \in Uarts
  PROVE  /\ \A n \in Nat : /\ [u EXCEPT !.divisor = n] \in Uarts
                           /\ [u EXCEPT !.divisor = n].base = u.base
                           /\ [u EXCEPT !.divisor = n].divisor = n
         /\ \A b \in Bases : [u EXCEPT !.base = b] \in Uarts
BY DEF Uarts

(* TIOCSSERIAL for a custom speed. *)
LEMMA CustomDivides ==
  ASSUME NEW rate \in Int, translate_speed(rate) >= 0, ~cfsetspeed(NativeSpeed(rate)),
         NEW u \in Uarts, u.base >= 1
  PROVE  Divides([u EXCEPT !.divisor = u.base \div NativeSpeed(rate)], rate)
<1>1. NativeSpeed(rate) \in Nat /\ NativeSpeed(rate) > 0
  BY CustomIsPositive
<1>2. u.base \in Nat
  BY BaseIsInt
<1>3. u.base \div NativeSpeed(rate) \in Nat
  BY <1>1, <1>2, QuotientIsNat
<1>4. QED BY <1>3, Retuned DEF Divides

LEMMA StepTypes == IInv /\ [Next]_vars => Types'
<1> SUFFICES ASSUME Types, Held, [Next]_vars PROVE Types'
  BY DEF IInv
<1> USE DEF Types, Goto, Return, Begin, Copy, Note, device, port, history
<1>h. \A t \in Threads : HeldParams(t) /\ HeldOthers(t)
  BY DEF Held
<1>p. ParamPlaces \subseteq Places /\ FlowPlaces \subseteq Places
      /\ {"idle", "charApply", "baseApply", "divisorApply", "lineApply"} \subseteq Places
  BY DEF Places
<1>1. CASE UNCHANGED vars
  BY <1>1 DEF vars
<1>2. ASSUME NEW t \in Threads, ParamsCall(t) PROVE Types'
  BY <1>2, <1>p, CallsAreCounted DEF ParamsCall, ParamPlaces
<1>3. ASSUME NEW t \in Threads, ParamsRead(t) \/ HangupRead(t) PROVE Types'
  BY <1>3, <1>p DEF ParamsRead, HangupRead, ParamPlaces
<1>4. ASSUME NEW t \in Threads, Hangup(t) PROVE Types'
  BY <1>4, <1>h, <1>p DEF Hangup, HeldParams, ParamPlaces
<1>5. ASSUME NEW t \in Threads, Rate(t) PROVE Types'
  BY <1>5, <1>p DEF Rate, ParamPlaces
<1>6. ASSUME NEW t \in Threads, Custom(t) PROVE Types'
  <2>1. uart' \in Uarts
    <3>1. CASE uart' = uart
      BY <3>1
    <3>2. CASE /\ copy[t].uart.base >= 1
               /\ uart' = [copy[t].uart EXCEPT !.divisor = copy[t].uart.base
                                                             \div NativeSpeed(arg[t].speed)]
      <4>1. /\ arg[t].speed \in Int /\ translate_speed(arg[t].speed) >= 0
            /\ copy[t].uart \in Uarts /\ ~cfsetspeed(NativeSpeed(arg[t].speed))
        BY <1>6, <1>h, ParamsAreRecords DEF Custom, HeldParams, Checked
      <4>2. QED BY <3>2, <4>1, CustomDivides DEF Divides
    <3>3. QED BY <1>6, <3>1, <3>2 DEF Custom
  <2>2. QED BY <1>6, <1>p, <2>1 DEF Custom, ParamPlaces
<1>7. ASSUME NEW t \in Threads, Apply(t) PROVE Types'
  <2>1. tty' \in Termios
    <3>1. ValidParams(arg[t]) /\ copy[t].read \in Termios
      BY <1>7, <1>h, CopyFields DEF Apply, HeldParams, Checked
    <3>2. Baud(t) \in Speeds
      BY BaudIsSpeed DEF Baud, BaudOf
    <3>3. QED BY <1>7, <3>1, <3>2, TranslatedType DEF Apply, tcsetattr
  <2>2. lines' \subseteq Lines /\ wanted' \subseteq Lines
    BY <1>7, HungUpType DEF Apply, tcsetattr
  <2>3. QED BY <1>7, <1>p, <2>1, <2>2 DEF Apply, ParamPlaces
<1>8. ASSUME NEW t \in Threads, Store(t) PROVE Types'
  <2>1. arg[t] \in Params /\ ValidParams(arg[t]) /\ (copy[t].uart = null \/ copy[t].uart \in Uarts)
    BY <1>8, <1>h DEF Store, HeldParams, Checked, Divides
  <2>2. fields' \in Fields
    BY <1>8, <2>1, ParamsAreRecords DEF Store, Fields, ValidParams
  <2>3. tuned' \in Uarts
    BY <1>8, <2>1 DEF Store
  <2>4. QED BY <1>8, <1>p, <2>2, <2>3 DEF Store
<1>9. ASSUME NEW t \in Threads, FlowCall(t) PROVE Types'
  <2>1. flowRaced' \in BOOLEAN
    BY <1>9 DEF FlowCall
  <2>2. QED BY <1>9, <1>p, <2>1, CallsAreCounted DEF FlowCall, FlowPlaces
<1>10. ASSUME NEW t \in Threads, FlowRead(t) PROVE Types'
  BY <1>10, <1>p DEF FlowRead, FlowPlaces
<1>11. ASSUME NEW t \in Threads, FlowApply(t) PROVE Types'
  <2>1. copy[t] \in Termios
    BY <1>11, <1>h DEF FlowApply, HeldOthers
  <2>2. tty' \in Termios
    BY <1>11, <2>1, WithFlowType DEF FlowApply, tcsetattr
  <2>3. lines' \subseteq Lines
    BY <1>11, HungUpType DEF FlowApply, tcsetattr
  <2>4. QED BY <1>11, <1>p, <2>2, <2>3, ZenonT(40) DEF FlowApply, FlowPlaces
<1>12. ASSUME NEW t \in Threads, FlowStore(t) PROVE Types'
  BY <1>12, <1>h, <1>p DEF FlowStore, HeldOthers, FlowPlaces
<1>13. ASSUME NEW t \in Threads, CharRead(t) PROVE Types'
  BY <1>13, <1>p, CallsAreCounted DEF CharRead
<1>14. ASSUME NEW t \in Threads, CharApply(t) PROVE Types'
  <2>1. arg[t] \in Chars /\ copy[t] \in Termios
    BY <1>14, <1>h DEF CharApply, HeldOthers
  <2>2. tty' \in Termios
    BY <1>14, <2>1 DEF CharApply, tcsetattr, Termios
  <2>3. lines' \subseteq Lines
    BY <1>14, HungUpType DEF CharApply, tcsetattr
  <2>4. QED BY <1>14, <1>p, <2>2, <2>3 DEF CharApply
<1>15. ASSUME NEW t \in Threads, UartRead(t) PROVE Types'
  BY <1>15, <1>p, CallsAreCounted DEF UartRead
<1>16. ASSUME NEW t \in Threads, BaseApply(t) PROVE Types'
  <2>1. arg[t] \in Bases /\ copy[t] \in Uarts
    BY <1>16, <1>h DEF BaseApply, HeldOthers
  <2>2. uart' \in Uarts
    BY <1>16, <2>1, Retuned DEF BaseApply
  <2>3. QED BY <1>16, <1>p, <2>2 DEF BaseApply
<1>17. ASSUME NEW t \in Threads, DivisorApply(t) PROVE Types'
  BY <1>17, <1>h, <1>p DEF DivisorApply, HeldOthers
<1>18. ASSUME NEW t \in Threads, LineRead(t) PROVE Types'
  BY <1>18, <1>p, CallsAreCounted DEF LineRead
<1>19. ASSUME NEW t \in Threads, LineApply(t) PROVE Types'
  BY <1>19, <1>p DEF LineApply
<1> HIDE DEF Types, Goto, Return, Begin, Copy, Note, device, port, history
<1>20. QED
  BY <1>1, <1>2, <1>3, <1>4, <1>5, <1>6, <1>7, <1>8, <1>9, <1>10, <1>11, <1>12,
     <1>13, <1>14, <1>15, <1>16, <1>17, <1>18, <1>19
     DEF Next, SetSerialPortParams, SetFlowControlMode

LEMMA StepHeld == IInv /\ [Next]_vars => Held'
<1> SUFFICES ASSUME Types, Held, [Next]_vars PROVE Held'
  BY DEF IInv
<1>h. \A t \in Threads : HeldParams(t) /\ HeldOthers(t)
  BY DEF Held
<1>y. /\ tty \in Termios /\ uart \in Uarts /\ lines \subseteq Lines
      /\ at \in [Threads -> Places] /\ DOMAIN arg = Threads /\ DOMAIN copy = Threads
  BY DEF Types
<1> DEFINE Others(t) == \A u \in Threads \ {t} : arg'[u] = arg[u] /\ copy'[u] = copy[u]
<1>o. ASSUME NEW t \in Threads, NEW p, at' = [at EXCEPT ![t] = p], Others(t),
             HeldParams(t)', HeldOthers(t)'
      PROVE  Held'
  <2>1. ASSUME NEW u \in Threads, u # t PROVE HeldParams(u)' /\ HeldOthers(u)'
    <3>1. at'[u] = at[u] /\ arg'[u] = arg[u] /\ copy'[u] = copy[u]
      BY <1>o, <1>y, <2>1
    <3>2. QED BY <3>1, <1>h DEF HeldParams, HeldOthers
  <2>2. QED BY <1>o, <2>1 DEF Held
<1>i. ASSUME NEW t \in Threads, Return(t) PROVE Held'
  <2>1. at'[t] = "idle"
    BY <1>i, <1>y DEF Return, Goto
  <2>2. HeldParams(t)' /\ HeldOthers(t)'
    BY <2>1 DEF HeldParams, HeldOthers, Checked, FlowPlaces
  <2>3. Others(t)
    BY <1>i, <1>y DEF Return, Copy
  <2>4. QED BY <1>i, <1>o, <2>2, <2>3 DEF Return, Goto
<1>1. CASE UNCHANGED vars
  BY <1>1 DEF vars, Held, HeldParams, HeldOthers
<1>2. ASSUME NEW t \in Threads, ParamsCall(t) PROVE Held'
  <2>1. PICK q \in Params : Begin(t, "params", q)
    BY <1>2 DEF ParamsCall
  <2>2. Others(t)
    BY <1>2, <1>y, <2>1 DEF ParamsCall, Begin
  <2>3. at'[t] = "params" /\ arg'[t] = q
    BY <2>1, <1>y DEF Begin, Goto
  <2>4. HeldParams(t)' /\ HeldOthers(t)'
    BY <2>3 DEF HeldParams, HeldOthers, Checked, FlowPlaces
  <2>5. QED BY <1>o, <2>1, <2>2, <2>4 DEF Begin, Goto
<1>3. ASSUME NEW t \in Threads, ParamsRead(t) PROVE Held'
  <2>1. CASE Return(t)
    BY <1>i, <2>1
  <2>2. CASE ~Return(t)
    <3> DEFINE c == [read |-> tty, uart |-> null, lines |-> null]
    <3>1. /\ at[t] = "params" /\ translate_speed(arg[t].speed) >= 0 /\ ValidParams(arg[t])
          /\ Others(t) /\ copy'[t] = c /\ arg'[t] = arg[t]
          /\ \E p \in {"hangup", "rate"} : at' = [at EXCEPT ![t] = p]
      BY <1>3, <1>y, <2>2 DEF ParamsRead, Copy, Goto
    <3>2. c \in Copies /\ c.uart = null
      BY <1>y DEF Copies
    <3> HIDE DEF c
    <3>3. at'[t] \in {"hangup", "rate"} /\ arg'[t] = arg[t] /\ copy'[t] = c
      BY <3>1, <1>y
    <3>4. HeldParams(t)' /\ HeldOthers(t)'
      BY <1>h, <3>1, <3>2, <3>3 DEF HeldParams, HeldOthers, Checked, FlowPlaces
    <3>5. QED BY <1>o, <3>1, <3>4
  <2>3. QED BY <2>1, <2>2
<1>4. ASSUME NEW t \in Threads, HangupRead(t) PROVE Held'
  <2> DEFINE c == [copy[t] EXCEPT !.lines = lines]
  <2>1. /\ at[t] = "hangup" /\ at' = [at EXCEPT ![t] = "drop"]
        /\ Others(t) /\ copy'[t] = c /\ arg'[t] = arg[t]
    BY <1>4, <1>y DEF HangupRead, Copy, Goto
  <2>2. c \in Copies /\ c.uart = null /\ c.lines \subseteq Lines
    <3>1. copy[t] \in Copies /\ copy[t].uart = null
      BY <1>h, <2>1 DEF HeldParams, Checked
    <3>2. lines \in SUBSET Lines
      BY <1>y
    <3>3. c \in Copies /\ c.lines = lines /\ c.uart = copy[t].uart
      BY <3>1, <3>2, CopyFields
    <3>4. QED BY <3>1, <3>2, <3>3
  <2> HIDE DEF c
  <2>3. at'[t] = "drop" /\ arg'[t] = arg[t] /\ copy'[t] = c
    BY <2>1, <1>y
  <2>4. HeldParams(t)' /\ HeldOthers(t)'
    BY <1>h, <2>1, <2>2, <2>3 DEF HeldParams, HeldOthers, Checked, FlowPlaces
  <2>5. QED BY <1>o, <2>1, <2>4
<1>5. ASSUME NEW t \in Threads, Hangup(t) PROVE Held'
  <2>1. /\ at[t] = "drop" /\ at' = [at EXCEPT ![t] = "rate"]
        /\ Others(t) /\ copy'[t] = copy[t] /\ arg'[t] = arg[t]
    BY <1>5, <1>y DEF Hangup, Goto
  <2>2. at'[t] = "rate" /\ arg'[t] = arg[t] /\ copy'[t] = copy[t]
    BY <2>1, <1>y
  <2>3. HeldParams(t)' /\ HeldOthers(t)'
    BY <1>h, <2>1, <2>2 DEF HeldParams, HeldOthers, Checked, FlowPlaces
  <2>4. QED BY <1>o, <2>1, <2>3
<1>6. ASSUME NEW t \in Threads, Rate(t) PROVE Held'
  <2>0. at[t] = "rate"
    BY <1>6 DEF Rate
  <2>1. CASE Return(t)
    BY <1>i, <2>1
  <2>2. CASE cfsetspeed(NativeSpeed(arg[t].speed)) /\ ~Return(t)
    <3>1. /\ at' = [at EXCEPT ![t] = "apply"]
          /\ Others(t) /\ copy'[t] = copy[t] /\ arg'[t] = arg[t]
      BY <1>6, <1>y, <2>2 DEF Rate, Goto
    <3>2. at'[t] = "apply" /\ arg'[t] = arg[t] /\ copy'[t] = copy[t]
      BY <3>1, <1>y
    <3>3. HeldParams(t)' /\ HeldOthers(t)'
      BY <1>h, <2>0, <2>2, <3>2 DEF HeldParams, HeldOthers, Checked, FlowPlaces
    <3>4. QED BY <1>o, <3>1, <3>3
  <2>3. CASE ~cfsetspeed(NativeSpeed(arg[t].speed)) /\ ~Return(t)
    <3> DEFINE c == [copy[t] EXCEPT !.uart = uart]
    <3>1. /\ at' = [at EXCEPT ![t] = "custom"]
          /\ Others(t) /\ copy'[t] = c /\ arg'[t] = arg[t]
      BY <1>6, <1>y, <2>3 DEF Rate, Goto, Copy
    <3>2. c \in Copies /\ c.uart \in Uarts
      BY <1>h, <1>y, <2>0, CopyFields DEF HeldParams, Checked
    <3> HIDE DEF c
    <3>3. at'[t] = "custom" /\ arg'[t] = arg[t] /\ copy'[t] = c
      BY <3>1, <1>y
    <3>4. HeldParams(t)' /\ HeldOthers(t)'
      BY <1>h, <2>0, <2>3, <3>2, <3>3 DEF HeldParams, HeldOthers, Checked, FlowPlaces
    <3>5. QED BY <1>o, <3>1, <3>4
  <2>4. QED BY <2>1, <2>2, <2>3
<1>7. ASSUME NEW t \in Threads, Custom(t) PROVE Held'
  <2>1. CASE Return(t)
    BY <1>i, <2>1
  <2>2. CASE ~Return(t)
    <3> DEFINE w == [copy[t].uart EXCEPT !.divisor = copy[t].uart.base
                                                       \div NativeSpeed(arg[t].speed)]
               c == [copy[t] EXCEPT !.uart = w]
    <3>1. /\ at[t] = "custom" /\ at' = [at EXCEPT ![t] = "apply"] /\ copy[t].uart.base >= 1
          /\ Others(t) /\ copy'[t] = c /\ arg'[t] = arg[t]
      BY <1>7, <1>y, <2>2 DEF Custom, Goto, Copy
    <3>2. /\ arg[t].speed \in Int /\ translate_speed(arg[t].speed) >= 0
          /\ copy[t] \in Copies
          /\ copy[t].uart \in Uarts /\ ~cfsetspeed(NativeSpeed(arg[t].speed))
      BY <3>1, <1>h, ParamsAreRecords DEF HeldParams, Checked
    <3>3. Divides(w, arg[t].speed)
      BY <3>1, <3>2, CustomDivides
    <3> HIDE DEF w
    <3>4. c \in Copies /\ c.uart = w
      BY <3>2, <3>3, CopyFields DEF Divides
    <3> HIDE DEF c
    <3>5. at'[t] = "apply" /\ arg'[t] = arg[t] /\ copy'[t] = c
      BY <3>1, <1>y
    <3>6. HeldParams(t)' /\ HeldOthers(t)'
      BY <1>h, <3>1, <3>2, <3>3, <3>4, <3>5 DEF HeldParams, HeldOthers, Checked, FlowPlaces
    <3>7. QED BY <1>o, <3>1, <3>6
  <2>3. QED BY <2>1, <2>2
<1>8. ASSUME NEW t \in Threads, Apply(t) PROVE Held'
  <2>1. CASE Return(t)
    BY <1>i, <2>1
  <2>2. CASE ~Return(t)
    <3>1. /\ at[t] = "apply" /\ at' = [at EXCEPT ![t] = "store"]
          /\ Others(t) /\ copy'[t] = copy[t] /\ arg'[t] = arg[t]
      BY <1>8, <1>y, <2>2 DEF Apply, Goto
    <3>2. at'[t] = "store" /\ arg'[t] = arg[t] /\ copy'[t] = copy[t]
      BY <3>1, <1>y
    <3>3. HeldParams(t)' /\ HeldOthers(t)'
      BY <1>h, <3>1, <3>2 DEF HeldParams, HeldOthers, Checked, FlowPlaces
    <3>4. QED BY <1>o, <3>1, <3>3
  <2>3. QED BY <2>1, <2>2
<1>9. ASSUME NEW t \in Threads, FlowCall(t) PROVE Held'
  <2>1. PICK mode \in FlowModes : Begin(t, "flow", mode)
    BY <1>9 DEF FlowCall
  <2>2. Others(t)
    BY <1>9, <1>y, <2>1 DEF FlowCall, Begin
  <2>3. at'[t] = "flow" /\ arg'[t] = mode
    BY <2>1, <1>y DEF Begin, Goto
  <2>4. HeldParams(t)' /\ HeldOthers(t)'
    BY <2>3 DEF HeldParams, HeldOthers, Checked, FlowPlaces
  <2>5. QED BY <1>o, <2>1, <2>2, <2>4 DEF Begin, Goto
<1>10. ASSUME NEW t \in Threads, FlowRead(t) PROVE Held'
  <2>1. /\ at[t] = "flow" /\ at' = [at EXCEPT ![t] = "flowApply"]
        /\ Others(t) /\ copy'[t] = tty /\ arg'[t] = arg[t]
    BY <1>10, <1>y DEF FlowRead, Goto, Copy
  <2>2. at'[t] = "flowApply" /\ arg'[t] = arg[t] /\ copy'[t] = tty
    BY <2>1, <1>y
  <2>3. HeldParams(t)' /\ HeldOthers(t)'
    BY <1>h, <1>y, <2>1, <2>2 DEF HeldParams, HeldOthers, Checked, FlowPlaces
  <2>4. QED BY <1>o, <2>1, <2>3
<1>11. ASSUME NEW t \in Threads, FlowApply(t) PROVE Held'
  <2>1. CASE Return(t)
    BY <1>i, <2>1
  <2>2. CASE ~Return(t)
    <3>1. /\ at[t] = "flowApply" /\ at' = [at EXCEPT ![t] = "flowStore"]
          /\ Others(t) /\ copy'[t] = copy[t] /\ arg'[t] = arg[t]
      BY <1>11, <1>y, <2>2 DEF FlowApply, Goto
    <3>2. at'[t] = "flowStore" /\ arg'[t] = arg[t] /\ copy'[t] = copy[t]
      BY <3>1, <1>y
    <3>3. HeldParams(t)' /\ HeldOthers(t)'
      BY <1>h, <3>1, <3>2 DEF HeldParams, HeldOthers, Checked, FlowPlaces
    <3>4. QED BY <1>o, <3>1, <3>3
  <2>3. QED BY <2>1, <2>2
<1>12. ASSUME NEW t \in Threads, \/ Store(t) \/ FlowStore(t) \/ CharApply(t)
                                \/ BaseApply(t) \/ DivisorApply(t) \/ LineApply(t)
       PROVE  Held'
  BY <1>12, <1>i DEF Store, FlowStore, CharApply, BaseApply, DivisorApply, LineApply
<1>13. ASSUME NEW t \in Threads, CharRead(t) PROVE Held'
  <2>1. PICK char \in Chars : Begin(t, "charApply", char)
    BY <1>13 DEF CharRead
  <2>2. at'[t] = "charApply" /\ arg'[t] = char /\ copy'[t] = tty
    BY <1>13, <2>1, <1>y DEF CharRead, Begin, Goto, Copy
  <2>3. HeldParams(t)' /\ HeldOthers(t)'
    BY <1>y, <2>2 DEF HeldParams, HeldOthers, Checked, FlowPlaces
  <2>4. Others(t)
    BY <1>13, <1>y, <2>1 DEF CharRead, Begin, Copy
  <2>5. QED BY <1>o, <2>1, <2>3, <2>4 DEF Begin, Goto
<1>14. ASSUME NEW t \in Threads, UartRead(t) PROVE Held'
  <2>1. PICK p \in {"baseApply", "divisorApply"}, a \in Bases \cup Divisors :
          Begin(t, p, a) /\ (p = "baseApply" => a \in Bases)
    BY <1>14 DEF UartRead
  <2>2. at'[t] = p /\ arg'[t] = a /\ copy'[t] = uart
    BY <1>14, <2>1, <1>y DEF UartRead, Begin, Goto, Copy
  <2>3. HeldParams(t)' /\ HeldOthers(t)'
    BY <1>y, <2>1, <2>2 DEF HeldParams, HeldOthers, Checked, FlowPlaces
  <2>4. Others(t)
    BY <1>14, <1>y, <2>1 DEF UartRead, Begin, Copy
  <2>5. QED BY <1>o, <2>1, <2>3, <2>4 DEF Begin, Goto
<1>15. ASSUME NEW t \in Threads, LineRead(t) PROVE Held'
  <2>1. PICK a : Begin(t, "lineApply", a)
    BY <1>15 DEF LineRead
  <2>2. at'[t] = "lineApply" /\ copy'[t] = lines
    BY <1>15, <2>1, <1>y DEF LineRead, Begin, Goto, Copy
  <2>3. HeldParams(t)' /\ HeldOthers(t)'
    BY <1>y, <2>2 DEF HeldParams, HeldOthers, Checked, FlowPlaces
  <2>4. Others(t)
    BY <1>15, <1>y, <2>1 DEF LineRead, Begin, Copy
  <2>5. QED BY <1>o, <2>1, <2>3, <2>4 DEF Begin, Goto
<1>16. QED
  BY <1>1, <1>2, <1>3, <1>4, <1>5, <1>6, <1>7, <1>8, <1>9, <1>10, <1>11, <1>12,
     <1>13, <1>14, <1>15
     DEF Next, SetSerialPortParams, SetFlowControlMode

(* What the writes of the termios do to agreement. *)
LEMMA ApplyAgrees ==
  ASSUME NEW w \in Termios, NEW q, ValidParams(q), NEW b, NEW w2,
         w2 = [Translated(w, q) EXCEPT !.baud = b]
  PROVE  /\ Agrees(w2, q) /\ w2.baud = b
         /\ \A mode : Flows(w, mode) => Flows(w2, mode)
<1>0. q.parity \in DOMAIN Parities
  BY DEF ValidParams
<1>1. w2 = [baud |-> b, csize |-> Bits(q), cflag |-> Flags(w.cflag, q), iflag |-> w.iflag,
            eof |-> w.eof]
  BY TranslatedWord
<1>2. Agrees(w2, q)
  BY <1>0, <1>1, FlagsTwice DEF Agrees
<1>3. ASSUME NEW mode, Flows(w, mode) PROVE Flows(w2, mode)
  <2>1. Hardware(mode) \in BOOLEAN
    BY DEF Hardware
  <2>2. /\ w.cflag = With(w.cflag, "CRTSCTS", Hardware(mode))
        /\ w.iflag = Xon(w.iflag, mode)
    BY <1>3 DEF Flows
  <2>3. Flags(w.cflag, q) = With(Flags(w.cflag, q), "CRTSCTS", Hardware(mode))
    BY <1>0, <2>1, <2>2, FlagsAndFlow
  <2>4. QED BY <1>1, <2>2, <2>3 DEF Flows
<1>4. QED BY <1>1, <1>2, <1>3

LEMMA FlowAgrees ==
  ASSUME NEW w \in Termios, NEW mode, NEW w2, w2 = WithFlow(w, mode)
  PROVE  /\ Flows(w2, mode) /\ w2.baud = w.baud
         /\ \A q : q.parity \in DOMAIN Parities /\ Agrees(w, q) => Agrees(w2, q)
<1>0. Hardware(mode) \in BOOLEAN
  BY DEF Hardware
<1>1. w2 = [baud |-> w.baud, csize |-> w.csize,
            cflag |-> With(w.cflag, "CRTSCTS", Hardware(mode)),
            iflag |-> Xon(w.iflag, mode), eof |-> w.eof]
  BY WithFlowWord
<1>2. Flows(w2, mode)
  BY <1>0, <1>1, FlowTwice DEF Flows
<1>3. ASSUME NEW q, q.parity \in DOMAIN Parities, Agrees(w, q) PROVE Agrees(w2, q)
  <2>1. w.csize = Bits(q) /\ w.cflag = Flags(w.cflag, q)
    BY <1>3 DEF Agrees
  <2>2. Flags(With(w.cflag, "CRTSCTS", Hardware(mode)), q)
          = With(w.cflag, "CRTSCTS", Hardware(mode))
    BY <1>0, <1>3, <2>1, FlagsAndFlow
  <2>3. QED BY <1>1, <2>1, <2>2 DEF Agrees
<1>4. QED BY <1>1, <1>2, <1>3

LEMMA CharAgrees ==
  ASSUME NEW w \in Termios, NEW char, NEW w2, w2 = [w EXCEPT !.eof = char]
  PROVE  /\ w2.baud = w.baud
         /\ \A mode : Flows(w, mode) => Flows(w2, mode)
         /\ \A q : Agrees(w, q) => Agrees(w2, q)
<1>1. w2 = [baud |-> w.baud, csize |-> w.csize, cflag |-> w.cflag, iflag |-> w.iflag,
            eof |-> char]
  BY Word
<1>2. QED BY <1>1 DEF Flows, Agrees

LEMMA UartIsNoNull == null \notin Uarts
<1> SUFFICES ASSUME NEW u \in Uarts PROVE u # null
  OBVIOUS
<1>1. u.base \in Int /\ u.divisor \in Nat /\ u = [base |-> u.base, divisor |-> u.divisor]
  BY BaseIsInt DEF Uarts
<1>2. u \in [base : Int, divisor : Nat]
  BY <1>1
<1>3. QED BY <1>2, NullIsNoWord

LEMMA SameAgrees ==
  ASSUME NEW q, NEW r, Bits(r) = Bits(q), r.stopBits = q.stopBits, r.parity = q.parity, NEW w
  PROVE  Agrees(w, r) <=> Agrees(w, q)
BY DEF Agrees, Flags

(* Where a step leaves the threads, when it takes t from one place to        *)
(* another.                                                                  *)
LEMMA Moved ==
  ASSUME Types, NEW t \in Threads, NEW p, Goto(t, p)
  PROVE  at'[t] = p /\ \A u \in Threads \ {t} : at'[u] = at[u]
BY DEF Types, Goto

(* A word that was not changed since it was read. *)
LEMMA Unlost ==
  ASSUME NEW word, NEW now, NEW old, Note(word, now, old), word \notin lost'
  PROVE  word \notin lost /\ now = old
BY DEF Note

(* A step that writes neither the termios nor the fields, and takes no thread *)
(* to or from a place where a call has written one of them, disagrees with   *)
(* nothing that agreed before.                                               *)
LEMMA Rests ==
  ASSUME Types, Reported, NEW t \in Threads, NEW p, Goto(t, p),
         at[t] \notin {"store", "flowStore"}, p \notin {"store", "flowStore"},
         \A u \in Threads \ {t} : arg'[u] = arg[u],
         UNCHANGED <<tty, fields, flowmode>>,
         "tty" \in lost => "tty" \in lost', flowRaced => flowRaced'
  PROVE  Reported'
<1>1. at'[t] = p /\ \A u \in Threads \ {t} : at'[u] = at[u]
  BY Moved
<1>2. \A u \in Threads : /\ at'[u] = "store" <=> at[u] = "store"
                         /\ at'[u] = "flowStore" <=> at[u] = "flowStore"
                         /\ at[u] \in {"store", "flowStore"} => arg'[u] = arg[u]
  BY <1>1
<1>3. QED BY <1>2 DEF Reported

LEMMA StepReported == IInv /\ [Next]_vars => Reported'
<1> SUFFICES ASSUME Types, Held, Alone, Reported, [Next]_vars PROVE Reported'
  BY DEF IInv
<1>h. \A t \in Threads : HeldParams(t) /\ HeldOthers(t)
  BY DEF Held
<1>y. /\ tty \in Termios /\ fields \in Fields
      /\ at \in [Threads -> Places] /\ DOMAIN arg = Threads /\ DOMAIN copy = Threads
  BY DEF Types
<1>a. ASSUME NEW t \in Threads, at[t] \in ParamPlaces PROVE \A u \in Threads \ {t} : at[u] # "store"
  BY <1>a DEF Alone, ParamPlaces
<1>f. ASSUME NEW t \in Threads, at[t] \in FlowPlaces, ~flowRaced
      PROVE  \A u \in Threads \ {t} : at[u] # "flowStore"
  BY <1>f DEF Alone, FlowPlaces
<1>1. CASE UNCHANGED vars
  BY <1>1 DEF vars, device, port, history, Reported
<1>2. ASSUME NEW t \in Threads, \/ ParamsCall(t) \/ FlowCall(t) \/ CharRead(t)
                                \/ UartRead(t) \/ LineRead(t)
      PROVE  Reported'
  <2>1. PICK p \in {"params", "flow", "charApply", "baseApply", "divisorApply", "lineApply"} :
          \E a : Begin(t, p, a)
    BY <1>2 DEF ParamsCall, FlowCall, CharRead, UartRead, LineRead
  <2>2. UNCHANGED <<tty, fields, flowmode, lost>>
    BY <1>2 DEF ParamsCall, FlowCall, CharRead, UartRead, LineRead, device, port, history
  <2>5. flowRaced => flowRaced'
    <3>1. CASE FlowCall(t)
      BY <3>1, Zenon DEF FlowCall
    <3>2. CASE ~FlowCall(t)
      BY <1>2, <3>2 DEF ParamsCall, CharRead, UartRead, LineRead, history
    <3>3. QED BY <3>1, <3>2
  <2>3. /\ at[t] = "idle" /\ Goto(t, p)
        /\ \A u \in Threads \ {t} : arg'[u] = arg[u]
    BY <1>y, <2>1 DEF Begin
  <2>6. QED BY <2>2, <2>3, <2>5, Rests
<1>3. ASSUME NEW t \in Threads, \/ ParamsRead(t) \/ HangupRead(t) \/ Hangup(t) \/ Rate(t)
                                \/ Custom(t) \/ FlowRead(t)
                                \/ BaseApply(t) \/ DivisorApply(t) \/ LineApply(t)
      PROVE  Reported'
  <2>1. at[t] \notin {"store", "flowStore"}
    BY <1>3 DEF ParamsRead, HangupRead, Hangup, Rate, Custom, FlowRead, BaseApply,
                DivisorApply, LineApply
  <2>2. \A u \in Threads \ {t} : arg'[u] = arg[u]
    BY <1>3, <1>y DEF ParamsRead, HangupRead, Hangup, Rate, Custom, FlowRead, BaseApply,
                DivisorApply, LineApply, Return
  <2>3. \E p \in Places \ {"store", "flowStore"} : Goto(t, p)
    BY <1>3 DEF ParamsRead, HangupRead, Hangup, Rate, Custom, FlowRead, BaseApply,
                DivisorApply, LineApply, Return, Places, ParamPlaces, FlowPlaces
  <2>4. UNCHANGED <<tty, fields, flowmode, flowRaced>> /\ ("tty" \in lost => "tty" \in lost')
    BY <1>3 DEF ParamsRead, HangupRead, Hangup, Rate, Custom, FlowRead, BaseApply,
                DivisorApply, LineApply, device, port, history, Note
  <2>5. QED BY <2>1, <2>2, <2>3, <2>4, Rests
<1>4. ASSUME NEW t \in Threads, Apply(t) PROVE Reported'
  <2>0. at[t] = "apply" /\ UNCHANGED <<fields, flowmode, flowRaced>>
    BY <1>4 DEF Apply, port
  <2>1. CASE Return(t) /\ UNCHANGED <<tty, lost>>
    <3>1. Goto(t, "idle") /\ \A u \in Threads \ {t} : arg'[u] = arg[u]
      BY <1>y, <2>1 DEF Return
    <3>2. QED BY <2>0, <2>1, <3>1, Rests
  <2>2. CASE /\ tty' = [Translated(copy[t].read, arg[t]) EXCEPT !.baud = Baud(t)]
             /\ Note("tty", tty, copy[t].read) /\ Goto(t, "store") /\ UNCHANGED <<arg, copy>>
    <3> SUFFICES ASSUME "tty" \notin lost' PROVE Reported'
      BY DEF Reported
    <3>1. "tty" \notin lost /\ copy[t].read = tty
      BY <2>2 DEF Note
    <3>2. ValidParams(arg[t])
      BY <1>h, <2>0 DEF HeldParams, Checked
    <3>3. Agrees(tty', arg[t]) /\ \A mode : Flows(tty, mode) => Flows(tty', mode)
      BY <1>y, <2>2, <3>1, <3>2, ApplyAgrees
    <3>4. at'[t] = "store" /\ \A u \in Threads \ {t} : at'[u] = at[u]
      BY <2>2, Moved
    <3>5. \A u \in Threads : /\ at'[u] = "store" <=> u = t
                             /\ at'[u] = "flowStore" <=> at[u] = "flowStore"
      BY <1>a, <2>0, <3>4 DEF ParamPlaces
    <3>6. QED BY <2>0, <2>2, <3>1, <3>3, <3>5 DEF Reported
  <2>3. QED BY <1>4, <2>1, <2>2 DEF Apply, tcsetattr
<1>5. ASSUME NEW t \in Threads, Store(t) PROVE Reported'
  <2>0. /\ at[t] = "store" /\ UNCHANGED <<tty, flowmode, lost, flowRaced>> /\ Goto(t, "idle")
        /\ \A u \in Threads \ {t} : arg'[u] = arg[u]
        /\ fields' = [arg[t] EXCEPT !.dataBits = IF arg[t].stopBits = "1.5" THEN 5 ELSE @]
    BY <1>5, <1>y DEF Store, device, Return
  <2> SUFFICES ASSUME "tty" \notin lost PROVE Reported'
    BY <2>0 DEF Reported
  <2>1. arg[t] \in Params
    BY <1>h, <2>0 DEF HeldParams, Checked
  <2>2. /\ Bits(fields') = Bits(arg[t])
        /\ fields'.stopBits = arg[t].stopBits /\ fields'.parity = arg[t].parity
    BY <2>0, <2>1, ParamsAreRecords DEF Bits
  <2>3. Agrees(tty, arg[t])
    BY <2>0 DEF Reported
  <2>4. Agrees(tty, fields')
    BY <2>2, <2>3, SameAgrees
  <2>5. at'[t] = "idle" /\ \A u \in Threads \ {t} : at'[u] = at[u]
    BY <2>0, Moved
  <2>6. \A u \in Threads : /\ at'[u] # "store"
                           /\ at'[u] = "flowStore" <=> at[u] = "flowStore"
                           /\ at[u] = "flowStore" => arg'[u] = arg[u]
    BY <1>a, <2>0, <2>5 DEF ParamPlaces
  <2>7. QED BY <2>0, <2>4, <2>6 DEF Reported
<1>6. ASSUME NEW t \in Threads, FlowApply(t) PROVE Reported'
  <2>0. at[t] = "flowApply" /\ UNCHANGED <<fields, flowmode, flowRaced>>
    BY <1>6 DEF FlowApply, port
  <2>1. CASE Return(t) /\ UNCHANGED <<tty, lost>>
    <3>1. Goto(t, "idle") /\ \A u \in Threads \ {t} : arg'[u] = arg[u]
      BY <1>y, <2>1 DEF Return
    <3>2. QED BY <2>0, <2>1, <3>1, Rests
  <2>2. CASE /\ tty' = WithFlow(copy[t], arg[t])
             /\ Note("tty", tty, copy[t]) /\ Goto(t, "flowStore") /\ UNCHANGED <<arg, copy>>
    <3> SUFFICES ASSUME "tty" \notin lost' PROVE Reported'
      BY DEF Reported
    <3>1. "tty" \notin lost /\ copy[t] = tty
      BY <2>2 DEF Note
    <3>2. /\ Flows(tty', arg[t])
          /\ \A q : q.parity \in DOMAIN Parities /\ Agrees(tty, q) => Agrees(tty', q)
      BY <1>y, <2>2, <3>1, FlowAgrees
    <3>3. at'[t] = "flowStore" /\ \A u \in Threads \ {t} : at'[u] = at[u]
      BY <2>2, Moved
    <3>4. \A u \in Threads : at[u] = "store" => arg[u].parity \in DOMAIN Parities
      BY <1>h DEF HeldParams, Checked, ValidParams
    <3>5. fields.parity \in DOMAIN Parities
      BY <1>y DEF Fields
    <3>6. \A u \in Threads : at'[u] = "store" <=> at[u] = "store"
      BY <2>0, <3>3
    <3>7. /\ \A u \in Threads : at'[u] = "store" => Agrees(tty', arg'[u])
          /\ (\A u \in Threads : at'[u] # "store") => Agrees(tty', fields')
      BY <2>0, <2>2, <3>1, <3>2, <3>4, <3>5, <3>6 DEF Reported
    <3>8. ~flowRaced => \A u \in Threads : at'[u] = "flowStore" => u = t
      BY <1>f, <2>0, <3>3 DEF FlowPlaces
    <3>9. QED BY <2>0, <2>2, <3>2, <3>3, <3>7, <3>8 DEF Reported
  <2>3. QED BY <1>6, <2>1, <2>2 DEF FlowApply, tcsetattr
<1>7. ASSUME NEW t \in Threads, FlowStore(t) PROVE Reported'
  <2>0. /\ at[t] = "flowStore" /\ UNCHANGED <<tty, fields, lost, flowRaced>> /\ Goto(t, "idle")
        /\ \A u \in Threads \ {t} : arg'[u] = arg[u]
        /\ flowmode' = arg[t]
    BY <1>7, <1>y DEF FlowStore, device, history, Return
  <2> SUFFICES ASSUME "tty" \notin lost PROVE Reported'
    BY <2>0 DEF Reported
  <2>1. at'[t] = "idle" /\ \A u \in Threads \ {t} : at'[u] = at[u]
    BY <2>0, Moved
  <2>2. \A u \in Threads : /\ at'[u] = "store" <=> at[u] = "store"
                           /\ at[u] = "store" => arg'[u] = arg[u]
    BY <2>0, <2>1
  <2>3. ~flowRaced => Flows(tty, arg[t]) /\ \A u \in Threads : at'[u] # "flowStore"
    BY <1>f, <2>0, <2>1 DEF FlowPlaces, Reported
  <2>4. QED BY <2>0, <2>2, <2>3 DEF Reported
<1>8. ASSUME NEW t \in Threads, CharApply(t) PROVE Reported'
  <2>0. /\ at[t] = "charApply" /\ UNCHANGED <<fields, flowmode, flowRaced>> /\ Goto(t, "idle")
        /\ \A u \in Threads \ {t} : arg'[u] = arg[u]
        /\ tty' = [copy[t] EXCEPT !.eof = arg[t]] /\ Note("tty", tty, copy[t])
    BY <1>8, <1>y DEF CharApply, tcsetattr, port, Return
  <2> SUFFICES ASSUME "tty" \notin lost' PROVE Reported'
    BY DEF Reported
  <2>1. "tty" \notin lost /\ copy[t] = tty
    BY <2>0 DEF Note
  <2>2. /\ \A mode : Flows(tty, mode) => Flows(tty', mode)
        /\ \A q : Agrees(tty, q) => Agrees(tty', q)
    BY <1>y, <2>0, <2>1, CharAgrees
  <2>3. at'[t] = "idle" /\ \A u \in Threads \ {t} : at'[u] = at[u]
    BY <2>0, Moved
  <2>4. \A u \in Threads : /\ at'[u] = "store" <=> at[u] = "store"
                           /\ at'[u] = "flowStore" <=> at[u] = "flowStore"
                           /\ at[u] \in {"store", "flowStore"} => arg'[u] = arg[u]
    BY <2>0, <2>3
  <2>5. QED BY <2>0, <2>1, <2>2, <2>4 DEF Reported
<1>9. QED
  BY <1>1, <1>2, <1>3, <1>4, <1>5, <1>6, <1>7, <1>8
     DEF Next, SetSerialPortParams, SetFlowControlMode

LEMMA StepTimed == IInv /\ [Next]_vars => Timed'
<1> SUFFICES ASSUME Types, Held, Alone, Timed, [Next]_vars PROVE Timed'
  BY DEF IInv
<1>h. \A t \in Threads : HeldParams(t) /\ HeldOthers(t)
  BY DEF Held
<1>y. /\ tty \in Termios
      /\ at \in [Threads -> Places] /\ DOMAIN arg = Threads /\ DOMAIN copy = Threads
  BY DEF Types
<1>a. ASSUME NEW t \in Threads, at[t] \in ParamPlaces PROVE \A u \in Threads \ {t} : at[u] # "store"
  BY <1>a DEF Alone, ParamPlaces
<1>r. ASSUME NEW t \in Threads, NEW p, Goto(t, p), at[t] # "store", p # "store",
             \A u \in Threads \ {t} : arg'[u] = arg[u], UNCHANGED <<fields, tuned>>,
             "tty" \notin lost' => "tty" \notin lost /\ tty'.baud = tty.baud
      PROVE  Timed'
  <2>1. at'[t] = p /\ \A u \in Threads \ {t} : at'[u] = at[u]
    BY <1>r, Moved
  <2>2. \A u \in Threads : /\ at'[u] = "store" <=> at[u] = "store"
                           /\ at[u] = "store" => arg'[u] = arg[u]
    BY <1>r, <2>1
  <2>3. QED BY <1>r, <2>2 DEF Timed
<1>1. CASE UNCHANGED vars
  BY <1>1 DEF vars, device, port, history, Timed
<1>2. ASSUME NEW t \in Threads, \/ ParamsCall(t) \/ FlowCall(t) \/ CharRead(t)
                                \/ UartRead(t) \/ LineRead(t)
      PROVE  Timed'
  <2>1. PICK p \in {"params", "flow", "charApply", "baseApply", "divisorApply", "lineApply"} :
          \E a : Begin(t, p, a)
    BY <1>2 DEF ParamsCall, FlowCall, CharRead, UartRead, LineRead
  <2>2. UNCHANGED <<tty, fields, tuned, lost>>
    BY <1>2 DEF ParamsCall, FlowCall, CharRead, UartRead, LineRead, device, port, history
  <2>3. /\ at[t] = "idle" /\ Goto(t, p)
        /\ \A u \in Threads \ {t} : arg'[u] = arg[u]
    BY <1>y, <2>1 DEF Begin
  <2>4. QED BY <2>2, <2>3, <1>r
<1>3. ASSUME NEW t \in Threads, \/ ParamsRead(t) \/ HangupRead(t) \/ Hangup(t) \/ Rate(t)
                                \/ Custom(t) \/ FlowRead(t) \/ FlowStore(t)
                                \/ BaseApply(t) \/ DivisorApply(t) \/ LineApply(t)
      PROVE  Timed'
  <2>1. at[t] # "store"
    BY <1>3 DEF ParamsRead, HangupRead, Hangup, Rate, Custom, FlowRead, FlowStore, BaseApply,
                DivisorApply, LineApply
  <2>2. \A u \in Threads \ {t} : arg'[u] = arg[u]
    BY <1>3, <1>y DEF ParamsRead, HangupRead, Hangup, Rate, Custom, FlowRead, FlowStore,
                BaseApply, DivisorApply, LineApply, Return
  <2>3. \E p \in Places \ {"store"} : Goto(t, p)
    BY <1>3 DEF ParamsRead, HangupRead, Hangup, Rate, Custom, FlowRead, FlowStore, BaseApply,
                DivisorApply, LineApply, Return, Places, ParamPlaces, FlowPlaces
  <2>4. UNCHANGED <<tty, fields, tuned>> /\ ("tty" \in lost => "tty" \in lost')
    BY <1>3 DEF ParamsRead, HangupRead, Hangup, Rate, Custom, FlowRead, FlowStore, BaseApply,
                DivisorApply, LineApply, device, port, history, Note
  <2>5. QED BY <2>1, <2>2, <2>3, <2>4, <1>r
<1>4. ASSUME NEW t \in Threads, Apply(t) PROVE Timed'
  <2>0. at[t] = "apply" /\ UNCHANGED <<fields, tuned>>
    BY <1>4 DEF Apply, port
  <2>1. CASE Return(t) /\ UNCHANGED <<tty, lost>>
    <3>1. Goto(t, "idle") /\ \A u \in Threads \ {t} : arg'[u] = arg[u]
      BY <1>y, <2>1 DEF Return
    <3>2. QED BY <2>0, <2>1, <3>1, <1>r
  <2>2. CASE /\ tty' = [Translated(copy[t].read, arg[t]) EXCEPT !.baud = Baud(t)]
             /\ Note("tty", tty, copy[t].read) /\ Goto(t, "store") /\ UNCHANGED <<arg, copy>>
    <3> SUFFICES ASSUME "tty" \notin lost' PROVE Timed'
      BY DEF Timed
    <3>1. copy[t].read = tty
      BY <2>2 DEF Note
    <3>2. ValidParams(arg[t])
      BY <1>h, <2>0 DEF HeldParams, Checked
    <3>3. tty'.baud = BaudOf(arg[t].speed)
      <4>1. tty'.baud = Baud(t)
        BY <1>y, <2>2, <3>1, <3>2, ApplyAgrees
      <4>2. QED BY <4>1 DEF Baud, BaudOf
    <3>4. at'[t] = "store" /\ \A u \in Threads \ {t} : at'[u] = at[u]
      BY <2>2, Moved
    <3>5. \A u \in Threads : at'[u] = "store" <=> u = t
      BY <1>a, <2>0, <3>4 DEF ParamPlaces
    <3>6. QED BY <2>2, <3>3, <3>5 DEF Timed
  <2>3. QED BY <1>4, <2>1, <2>2 DEF Apply, tcsetattr
<1>5. ASSUME NEW t \in Threads, Store(t) PROVE Timed'
  <2>0. /\ at[t] = "store" /\ UNCHANGED <<tty, lost>> /\ Goto(t, "idle")
        /\ fields' = [arg[t] EXCEPT !.dataBits = IF arg[t].stopBits = "1.5" THEN 5 ELSE @]
        /\ tuned' = IF copy[t].uart = null THEN tuned ELSE copy[t].uart
    BY <1>5 DEF Store, device, Return
  <2> SUFFICES ASSUME "tty" \notin lost PROVE Timed'
    BY <2>0 DEF Timed
  <2>1. /\ arg[t] \in Params
        /\ IF cfsetspeed(NativeSpeed(arg[t].speed)) THEN copy[t].uart = null
           ELSE Divides(copy[t].uart, arg[t].speed)
    BY <1>h, <2>0 DEF HeldParams, Checked
  <2>2. fields'.speed = arg[t].speed
    BY <2>0, <2>1, ParamsAreRecords
  <2>3. tty.baud = BaudOf(arg[t].speed)
    BY <2>0 DEF Timed
  <2>4. ASSUME ~cfsetspeed(NativeSpeed(arg[t].speed)) PROVE Divides(tuned', arg[t].speed)
    <3>1. Divides(copy[t].uart, arg[t].speed)
      BY <2>1, <2>4
    <3>2. copy[t].uart # null
      BY <3>1, UartIsNoNull DEF Divides
    <3>3. QED BY <2>0, <3>1, <3>2
  <2>5. at'[t] = "idle" /\ \A u \in Threads \ {t} : at'[u] = at[u]
    BY <2>0, Moved
  <2>6. \A u \in Threads : at'[u] # "store"
    BY <1>a, <2>0, <2>5 DEF ParamPlaces
  <2>7. QED BY <2>0, <2>2, <2>3, <2>4, <2>6 DEF Timed
<1>6. ASSUME NEW t \in Threads, FlowApply(t) PROVE Timed'
  <2>0. at[t] = "flowApply" /\ UNCHANGED <<fields, tuned>>
    BY <1>6 DEF FlowApply, port
  <2>1. CASE Return(t) /\ UNCHANGED <<tty, lost>>
    <3>1. Goto(t, "idle") /\ \A u \in Threads \ {t} : arg'[u] = arg[u]
      BY <1>y, <2>1 DEF Return
    <3>2. QED BY <2>0, <2>1, <3>1, <1>r
  <2>2. CASE /\ tty' = WithFlow(copy[t], arg[t])
             /\ Note("tty", tty, copy[t]) /\ Goto(t, "flowStore") /\ UNCHANGED <<arg, copy>>
    <3>1. "tty" \notin lost' => "tty" \notin lost /\ copy[t] = tty
      BY <2>2 DEF Note
    <3>2. "tty" \notin lost' => tty'.baud = tty.baud
      BY <1>y, <2>2, <3>1, FlowAgrees
    <3>3. QED BY <1>r, <2>0, <2>2, <3>1, <3>2
  <2>3. QED BY <1>6, <2>1, <2>2 DEF FlowApply, tcsetattr
<1>7. ASSUME NEW t \in Threads, CharApply(t) PROVE Timed'
  <2>0. /\ at[t] = "charApply" /\ UNCHANGED <<fields, tuned>> /\ Goto(t, "idle")
        /\ \A u \in Threads \ {t} : arg'[u] = arg[u]
        /\ tty' = [copy[t] EXCEPT !.eof = arg[t]] /\ Note("tty", tty, copy[t])
    BY <1>7, <1>y DEF CharApply, tcsetattr, port, Return
  <2>1. "tty" \notin lost' => "tty" \notin lost /\ copy[t] = tty
    BY <2>0 DEF Note
  <2>2. "tty" \notin lost' => tty'.baud = tty.baud
    BY <1>y, <2>0, <2>1, CharAgrees
  <2>3. QED BY <1>r, <2>0, <2>1, <2>2
<1>8. QED
  BY <1>1, <1>2, <1>3, <1>4, <1>5, <1>6, <1>7
     DEF Next, SetSerialPortParams, SetFlowControlMode

(* The lines are those that were asked for: while none of the other calls    *)
(* has changed the speed, the driver sees 0 come and go as Java does.        *)
LEMMA StepDriven == IInv /\ [Next]_vars => Driven'
<1> SUFFICES ASSUME Types, Held, Alone, FieldsFit, Timed, Driven, [Next]_vars, lost' = {}
             PROVE  lines' = wanted'
  BY DEF IInv, Driven
<1>h. \A t \in Threads : HeldParams(t) /\ HeldOthers(t)
  BY DEF Held
<1>y. tty \in Termios /\ lines \subseteq Lines /\ wanted \subseteq Lines /\ fields \in Fields
  BY DEF Types
<1>n. ASSUME lost = {} PROVE lines = wanted
  BY <1>n DEF Driven
<1>1. CASE UNCHANGED vars
  BY <1>1, <1>n DEF vars, device, history
<1>2. ASSUME NEW t \in Threads,
             \/ ParamsCall(t) \/ ParamsRead(t) \/ HangupRead(t) \/ Rate(t) \/ Custom(t) \/ Store(t)
             \/ FlowCall(t) \/ FlowRead(t) \/ FlowStore(t) \/ CharRead(t)
             \/ UartRead(t) \/ BaseApply(t) \/ DivisorApply(t) \/ LineRead(t)
      PROVE  lines' = wanted'
  <2>1. UNCHANGED <<lines, wanted, lost>>
    BY <1>2 DEF ParamsCall, ParamsRead, HangupRead, Rate, Custom, Store, FlowCall, FlowRead,
                FlowStore, CharRead, UartRead, BaseApply, DivisorApply, LineRead, device, history
  <2>2. QED BY <1>n, <2>1
<1>3. ASSUME NEW t \in Threads, Hangup(t) PROVE lines' = wanted'
  BY <1>3, <1>n DEF Hangup, Note
<1>4. ASSUME NEW t \in Threads, Apply(t) PROVE lines' = wanted'
  <2>1. CASE UNCHANGED <<tty, lines, lost, wanted>>
    BY <1>n, <2>1
  <2>2. CASE /\ tcsetattr([Translated(copy[t].read, arg[t]) EXCEPT !.baud = Baud(t)])
             /\ wanted' = HungUp(wanted, fields.speed, arg[t].speed)
             /\ Note("tty", tty, copy[t].read)
    <3>1. lost = {} /\ copy[t].read = tty
      BY <2>2 DEF Note
    <3>2. arg[t] \in Params /\ ValidParams(arg[t]) /\ translate_speed(arg[t].speed) >= 0
      BY <1>4, <1>h DEF Apply, HeldParams, Checked
    <3>3. \A u \in Threads : at[u] # "store"
      BY <1>4 DEF Apply, Alone, ParamPlaces
    <3>4. tty.baud = BaudOf(fields.speed)
      BY <3>1, <3>3 DEF Timed
    <3>5. tty'.baud = BaudOf(arg[t].speed)
      <4>1. tty'.baud = Baud(t)
        BY <1>y, <2>2, <3>1, <3>2, ApplyAgrees DEF tcsetattr
      <4>2. QED BY <4>1 DEF Baud, BaudOf
    <3>6. fields.speed \in Int /\ arg[t].speed \in Int /\ translate_speed(fields.speed) >= 0
      BY <1>y, <3>2, ParamsAreRecords, SMT DEF Fields, FieldsFit
    <3>7. /\ tty.baud = B0 <=> fields.speed = B0
          /\ tty'.baud = B0 <=> arg[t].speed = B0
      BY <3>2, <3>4, <3>5, <3>6, ZeroCode
    <3>8. lines' = HungUp(lines, tty.baud, tty'.baud)
      BY <2>2 DEF tcsetattr
    <3>9. QED BY <1>n, <2>2, <3>1, <3>7, <3>8, HungUpAlike
  <2>3. QED BY <1>4, <2>1, <2>2 DEF Apply
<1>5. ASSUME NEW t \in Threads, FlowApply(t) PROVE lines' = wanted'
  <2>1. CASE UNCHANGED <<tty, lines, lost>>
    BY <1>n, <1>5, <2>1 DEF FlowApply
  <2>2. CASE tcsetattr(WithFlow(copy[t], arg[t])) /\ Note("tty", tty, copy[t])
    <3>1. lost = {} /\ copy[t] = tty
      BY <2>2 DEF Note
    <3>2. tty'.baud = tty.baud
      BY <1>y, <2>2, <3>1, FlowAgrees DEF tcsetattr
    <3>3. lines' = lines
      BY <2>2, <3>2 DEF tcsetattr, HungUp
    <3>4. QED BY <1>n, <1>5, <3>1, <3>3 DEF FlowApply
  <2>3. QED BY <1>5, <2>1, <2>2 DEF FlowApply
<1>6. ASSUME NEW t \in Threads, CharApply(t) PROVE lines' = wanted'
  <2>1. lost = {} /\ copy[t] = tty
    BY <1>6 DEF CharApply, Note
  <2>2. tty'.baud = tty.baud
    BY <1>y, <1>6, <2>1, CharAgrees DEF CharApply, tcsetattr
  <2>3. lines' = lines
    BY <1>6, <2>2 DEF CharApply, tcsetattr, HungUp
  <2>4. QED BY <1>n, <1>6, <2>1, <2>3 DEF CharApply
<1>7. ASSUME NEW t \in Threads, LineApply(t) PROVE lines' = wanted'
  BY <1>7, <1>n DEF LineApply, Note
<1>8. QED
  BY <1>1, <1>2, <1>3, <1>4, <1>5, <1>6, <1>7
     DEF Next, SetSerialPortParams, SetFlowControlMode

LEMMA InvHolds == Spec => []IInv
<1>1. IInv /\ [Next]_vars => IInv'
  BY StepTypes, StepHeld, StepAlone, StepFields, StepDriven, StepReported, StepTimed DEF IInv
<1>2. QED BY <1>1, InitInv, PTL DEF Spec
-----------------------------------------------------------------------------
(* The theorems *)

(* TypeOK, with mutual exclusion of the calls of setSerialPortParams, which  *)
(* hold the port's monitor from the call to the assignment of the fields.    *)
THEOREM TypeCorrect == Spec => []TypeOK
<1>1. IInv => TypeOK
  <2> SUFFICES ASSUME Types, Alone PROVE TypeOK
    BY DEF IInv
  <2>1. uart.base \in Bases \cup {115200} /\ uart.divisor \in Nat
    BY DEF Types, Uarts
  <2>2. Cardinality({t \in Threads : at[t] \in ParamPlaces}) <= 1
    <3> DEFINE S == {t \in Threads : at[t] \in ParamPlaces}
    <3>1. CASE S = {}
      BY <3>1, FS_EmptySet
    <3>2. CASE S # {}
      <4>1. PICK t : t \in S
        BY <3>2
      <4>2. S = {t}
        BY <4>1 DEF Alone
      <4> HIDE DEF S
      <4>3. Cardinality(S) = 1
        BY <4>2, FS_Singleton
      <4>4. QED BY <4>3 DEF S
    <3>3. QED BY <3>1, <3>2
  <2>3. fields \in [speed : {q.speed : q \in Params} \cup {9600, 38400} , dataBits : 5 .. 8,
                   stopBits : {"1", "1.5", "2"}, parity : DOMAIN Parities]
    BY SMT DEF Types, Fields
  <2>4. /\ tty \in Termios /\ lines \subseteq Lines /\ wanted \subseteq Lines
        /\ flowmode \in FlowModes \cup {{}} /\ at \in [Threads -> Places]
        /\ calls \in 0 .. Calls /\ lost \subseteq {"tty", "lines"}
    BY DEF Types
  <2>5. flowRaced \in BOOLEAN
    BY DEF Types
  <2>6. QED BY <2>1, <2>2, <2>3, <2>4, <2>5, SMT DEF TypeOK
<1>2. QED BY <1>1, InvHolds, PTL

(* LinesKept: DTR and RTS are as the calls asked for, with both dropped when *)
(* the speed becomes 0 and raised when it is another again, until a call has *)
(* written back a word that another had changed since it was read.           *)
THEOREM LinesAreKept == Spec => []LinesKept
<1>1. IInv => LinesKept
  BY DEF IInv, Driven, LinesKept, isDTR, isRTS
<1>2. QED BY <1>1, InvHolds, PTL

(* SettingsReported: between calls the getters say what the device is set    *)
(* to, unless a write of the termios has undone another's.                   *)
THEOREM SettingsAreReported == Spec => []SettingsReported
<1>1. IInv => SettingsReported
  <2> SUFFICES ASSUME Types, FieldsFit, Reported, Settled, "tty" \notin lost
               PROVE  /\ tty.csize = fields.dataBits /\ Translated(tty, fields) = tty
                      /\ ~flowRaced => WithFlow(tty, flowmode) = tty
    BY DEF IInv, SettingsReported
  <2>1. tty \in Termios /\ fields \in Fields
    BY DEF Types
  <2>2. Agrees(tty, fields) /\ (~flowRaced => Flows(tty, flowmode))
    BY DEF Reported, Settled
  <2>3. ValidParams(fields)
    BY <2>1 DEF Fields, ValidParams
  <2>4. tty = [baud |-> tty.baud, csize |-> tty.csize, cflag |-> tty.cflag,
               iflag |-> tty.iflag, eof |-> tty.eof]
    BY <2>1, Word
  <2>5. Translated(tty, fields) = tty
    BY <2>1, <2>2, <2>3, <2>4, TranslatedWord DEF Agrees
  <2>6. ~flowRaced => WithFlow(tty, flowmode) = tty
    BY <2>1, <2>2, <2>4, WithFlowWord DEF Flows
  <2>7. QED BY <2>2, <2>5, <2>6 DEF Agrees, FieldsFit
<1>2. QED BY <1>1, InvHolds, PTL

(* RateReported: between calls the line runs at the speed that getBaudRate   *)
(* says, unless a write of the termios has undone another's, the rate is     *)
(* none that the port can have, or the divisor was changed since.            *)
THEOREM RateIsReported == Spec => []RateReported
<1>1. IInv => RateReported
  <2> DEFINE s == fields.speed
  <2> SUFFICES ASSUME Types, FieldsFit, Timed, Settled, "tty" \notin lost, Attainable(s),
                      tty.baud = B38400 => uart = tuned
               PROVE  LineRate = s
    BY DEF IInv, RateReported
  <2>1. tty.baud = BaudOf(s) /\ (~cfsetspeed(NativeSpeed(s)) => Divides(tuned, s))
    BY DEF Timed, Settled
  <2>2. fields \in Fields /\ translate_speed(s) >= 0
    BY DEF Types, FieldsFit
  <2>3. s \in Int
    BY <2>2, ParamsAreRecords, SMT DEF Fields
  <2> HIDE DEF s
  <2>4. B38400 \in Speeds /\ 38400 \notin Speeds
    BY SMT DEF Speeds, B38400, CBAUDEX
  <2>5. CASE cfsetspeed(NativeSpeed(s))
    <3>1. translate_speed(s) # B38400 /\ tty.baud = translate_speed(s)
      BY <2>1, <2>4, <2>5 DEF NativeSpeed, cfsetspeed, BaudOf
    <3>2. IsStandard(s)
      BY <2>5 DEF Attainable
    <3>3. QED BY <3>1, <3>2, BaudBack DEF LineRate
  <2>6. CASE ~cfsetspeed(NativeSpeed(s)) /\ SpdCust
    <3>1. /\ ~cfsetspeed(s) /\ tuned.base % s = 0 /\ tty.baud = B38400
          /\ uart = tuned /\ Divides(uart, s)
      BY <2>1, <2>6 DEF Attainable, BaudOf
    <3>2. NativeSpeed(s) = s
      <4>1. CASE IsStandard(s)
        BY <2>6, <4>1, BaudBack, OnlyCode DEF NativeSpeed, cfsetspeed
      <4>2. CASE ~IsStandard(s)
        <5>1. translate_speed(s) = s
          BY <2>2, <2>3, <4>2 DEF translate_speed
        <5>2. QED BY <3>1, <5>1, <2>4 DEF NativeSpeed, cfsetspeed
      <4>3. QED BY <4>1, <4>2
    <3>3. s \in Nat /\ s > 0
      BY <2>2, <2>3, <2>6, <3>2, CustomIsPositive
    <3>4. uart.base \in Nat /\ uart.base > 0 /\ uart.divisor = uart.base \div s
      BY <3>1, <3>2, BaseIsInt DEF Divides
    <3>5. uart.divisor > 0 /\ uart.base \div uart.divisor = s
      BY <3>1, <3>3, <3>4, Exact
    <3>6. QED BY <2>6, <3>1, <3>5 DEF LineRate
  <2>7. CASE ~cfsetspeed(NativeSpeed(s)) /\ ~SpdCust
    <3>1. IsStandard(s) /\ tty.baud = B38400
      BY <2>1, <2>7 DEF Attainable, BaudOf
    <3>2. translate_speed(s) = B38400
      BY <2>7, <3>1, BaudBack DEF NativeSpeed, cfsetspeed
    <3>3. QED BY <2>7, <3>1, <3>2, BaudBack DEF LineRate
  <2>8. QED BY <2>5, <2>6, <2>7
<1>2. QED BY <1>1, InvHolds, PTL
=============================================================================
