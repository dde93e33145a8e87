---------------------------- MODULE TermiosCodes ----------------------------
(***************************************************************************)
(* The conversions between the parameters of the Java API and the words of  *)
(* a termios: translate_speed, get_java_baudrate, translate_data_bits,      *)
(* translate_stop_bits, translate_parity and the ways back.                 *)
(*                                                                         *)
(* A termios is a record: baud is its speed code, csize the bits of CSIZE,  *)
(* cflag and iflag the sets of the other flags, eof its c_cc[VEOF].  A speed*)
(* code is the number that Linux gives it, since numbers that are not codes *)
(* are passed on as they are.                                              *)
(***************************************************************************)
EXTENDS Integers, Sequences

(* B50 .. B38400 are 1 .. 15, B57600 .. B4000000 are 4097 .. 4111; Linux has*)
(* no B14400, B28800, B128000 and B256000.                                  *)
LowRates == <<50, 75, 110, 134, 150, 200, 300, 600, 1200, 1800, 2400, 4800,
              9600, 19200, 38400>>
HighRates == <<57600, 115200, 230400, 460800, 500000, 576000, 921600, 1000000,
               1152000, 1500000, 2000000, 2500000, 3000000, 3500000, 4000000>>
CBAUDEX == 4096
B0 == 0
B9600 == 13
B38400 == 15

Coded(rate, code) ==
  \/ rate = 0 /\ code = B0
  \/ code \in DOMAIN LowRates /\ LowRates[code] = rate
  \/ code - CBAUDEX \in DOMAIN HighRates /\ HighRates[code - CBAUDEX] = rate

Codes == {B0} \cup DOMAIN LowRates \cup {CBAUDEX + i : i \in DOMAIN HighRates}

IsStandard(rate) == \E code \in Codes : Coded(rate, code)

(* A rate that has no code is its own code; -1 is an error.                 *)
translate_speed(rate) ==
  IF IsStandard(rate) THEN CHOOSE code \in Codes : Coded(rate, code)
  ELSE IF rate >= 0 THEN rate ELSE -1

get_java_baudrate(code) ==
  CASE code = B0 -> 0
    [] code \in DOMAIN LowRates -> LowRates[code]
    [] code - CBAUDEX \in DOMAIN HighRates -> HighRates[code - CBAUDEX]
    [] OTHER -> -1

(* cfsetispeed and cfsetospeed of glibc take the numbers within CBAUD,      *)
(* CBAUDEX itself, which is no rate's code (BOTHER), among them.            *)
Speeds == 0 .. 15 \cup CBAUDEX .. CBAUDEX + 15
cfsetspeed(code) == code \in Speeds

Parities == [NONE |-> {}, ODD |-> {"PARENB", "PARODD"}, EVEN |-> {"PARENB"},
             MARK |-> {"PARENB", "PARODD", "CMSPAR"}, SPACE |-> {"PARENB", "CMSPAR"}]

translate_data_bits(t, d) == [t EXCEPT !.csize = d]

(* 1.5 stop bits take 5 data bits, whatever was asked for.                  *)
translate_stop_bits(t, s) ==
  CASE s = "1"   -> [t EXCEPT !.cflag = @ \ {"CSTOPB"}]
    [] s = "1.5" -> translate_data_bits([t EXCEPT !.cflag = @ \cup {"CSTOPB"}], 5)
    [] s = "2"   -> [t EXCEPT !.cflag = @ \cup {"CSTOPB"}]

translate_parity(t, p) ==
  [t EXCEPT !.cflag = (@ \ {"PARENB", "PARODD", "CMSPAR"}) \cup Parities[p]]

(* What the translations accept; anything else is an error to them.         *)
ValidParams(q) ==
  /\ q.dataBits \in 5 .. 8
  /\ q.stopBits \in {"1", "1.5", "2"}
  /\ q.parity \in DOMAIN Parities

Translated(t, q) ==
  translate_parity(translate_stop_bits(translate_data_bits(t, q.dataBits), q.stopBits), q.parity)

(* The way back, in set_java_vars. *)
StopBitsOf(t) ==
  IF "CSTOPB" \notin t.cflag THEN "1" ELSE IF t.csize = 5 THEN "1.5" ELSE "2"

ParityOf(t) ==
  CHOOSE p \in DOMAIN Parities : Parities[p] = t.cflag \cap {"PARENB", "PARODD", "CMSPAR"}

set_java_vars(t) == [speed |-> get_java_baudrate(t.baud), dataBits |-> t.csize,
                     stopBits |-> StopBitsOf(t), parity |-> ParityOf(t)]

(* configure_port: how every device begins. *)
configured == [baud |-> B9600, csize |-> 8, cflag |-> {}, iflag |-> {}, eof |-> 0]

(* setflowcontrol.  HARDWARE_FLOW_CONTROL is CRTSCTS, one flag for both ways.*)
With(flags, flag, on) == IF on THEN flags \cup {flag} ELSE flags \ {flag}

WithFlow(t, mode) ==
  [t EXCEPT !.cflag = With(@, "CRTSCTS", mode \cap {"RTSCTS_IN", "RTSCTS_OUT"} # {}),
            !.iflag = With(With(@, "IXOFF", "XONXOFF_IN" \in mode),
                           "IXON", "XONXOFF_OUT" \in mode)]
=============================================================================
