--------------------------- MODULE WindowsTermios ---------------------------
(***************************************************************************)
(* The terminal that the Windows build emulates: how tcsetattr translates a *)
(* termios to the DCB of a COM port, and how tcgetattr reads it back.       *)
(*                                                                         *)
(* A termios is a record as in TermiosCodes; its baud is c_cflag & CBAUD,   *)
(* and ispeed is its c_ispeed and c_ospeed.  A DCB is a record; handshake   *)
(* is fOutxCtsFlow, and RTS_CONTROL_HANDSHAKE in fRtsControl.               *)
(***************************************************************************)
EXTENDS TermiosCodes

(* Rates that Linux has no codes for: B14400 .. B256000 are 8193 .. 8196.   *)
GlueRates == <<14400, 28800, 128000, 256000>>
Glue == 8192

(* The words are added up bit by bit: Ored is (a | b) & CBAUD, and CBAUD is *)
(* 8 + 4 + 2 + 1 for the code, CBAUDEX and Glue.                            *)
Bit(a, weight) == (a \div weight) % 2 = 1
Ored(a, b) == LET bit(weight) == IF Bit(a, weight) \/ Bit(b, weight) THEN weight ELSE 0
              IN  bit(1) + bit(2) + bit(4) + bit(8) + bit(CBAUDEX) + bit(Glue)
WithinCBAUD(a) == Ored(a, 0) = a

(* A number that is not in the table is taken for a custom speed, both ways.*)
CBR_to_B(rate) ==
  IF \E i \in DOMAIN GlueRates : GlueRates[i] = rate
  THEN Glue + CHOOSE i \in DOMAIN GlueRates : GlueRates[i] = rate
  ELSE translate_speed(rate)

B_to_CBR(code) ==
  CASE code \in Codes -> get_java_baudrate(code)
    [] code - Glue \in DOMAIN GlueRates -> GlueRates[code - Glue]
    [] OTHER -> code

(* Faulty variant: the old speed stays in c_cflag.                          *)
cfsetospeedOver(t, speed) == [t EXCEPT !.ispeed = speed, !.baud = Ored(@, speed)]

(* Faulty variant: a speed of 0 is set.                                     *)
cfsetospeedZero(t, speed) ==
  [t EXCEPT !.ispeed = speed,
            !.baud = IF ~WithinCBAUD(speed) THEN B38400 + CBAUDEX ELSE speed]

(* A custom speed is B38400 with CBAUDEX; a speed of 0 leaves 9600.         *)
cfsetospeed(t, speed) ==
  [t EXCEPT !.ispeed = speed,
            !.baud = IF ~WithinCBAUD(speed) THEN B38400 + CBAUDEX
                     ELSE IF speed # 0 THEN speed ELSE B9600]

(* What termios_to_DCB leaves in the termios: the speed counts if CBAUDEX is*)
(* set, or else the code.                                                   *)
Lasting(t) == IF ~Bit(t.baud, CBAUDEX) THEN [t EXCEPT !.ispeed = t.baud] ELSE t

termios_to_DCB(t) ==
  [BaudRate |-> B_to_CBR(Lasting(t).ispeed),
   ByteSize |-> t.csize,
   Parity |-> ParityOf(t),
   StopBits |-> StopBitsOf(t),
   handshake |-> "CRTSCTS" \in t.cflag,
   fOutX |-> "IXON" \in t.iflag,
   fInX |-> "IXOFF" \in t.iflag,
   EofChar |-> t.eof]

DCB_to_termios(dcb, t) ==
  LET speed == CBR_to_B(dcb.BaudRate)
  IN  [t EXCEPT !.ispeed = speed, !.baud = Ored(@, speed)]

(* tcgetattr, of the termios that was last set and the port's DCB.          *)
Got(t, dcb) ==
  LET stopBits == With(t.cflag, "CSTOPB", dcb.StopBits # "1")
      parity == (stopBits \ {"PARENB", "PARODD", "CMSPAR"}) \cup Parities[dcb.Parity]
      flags == [t EXCEPT !.iflag = With(With(@, "IXON", dcb.fOutX), "IXOFF", dcb.fInX),
                         !.csize = 5 + Ored(@ - 5, dcb.ByteSize - 5),
                         !.cflag = With(parity, "CRTSCTS", dcb.handshake),
                         !.eof = dcb.EofChar]
  IN  DCB_to_termios(dcb, flags)

(* init_termios: what serial_open sets.                                     *)
init_termios == [baud |-> B9600, ispeed |-> B9600, csize |-> 8, cflag |-> {}, iflag |-> {}, eof |-> 4]

(* set_port_params, as the Windows build does it.                           *)
WithParams(t, q) == cfsetospeed(Translated(t, q), CBR_to_B(q.speed))

(* The rate that the line has for a speed of the Java API: the numbers that *)
(* are codes of other rates are taken for those.                            *)
RateFor(speed) == IF speed = 0 THEN 9600 ELSE B_to_CBR(CBR_to_B(speed))
=============================================================================
