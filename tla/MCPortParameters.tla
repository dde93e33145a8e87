-------------------------- MODULE MCPortParameters --------------------------
(* Two threads.  28800 is 115200 / 4 and has no code, 15 is the code of     *)
(* 38400, 0 hangs up; the last two sets of parameters are refused.          *)
EXTENDS PortParameters

P(b, d, s, p) == [speed |-> b, dataBits |-> d, stopBits |-> s, parity |-> p]

MCParams == {P(38400, 8, "1", "NONE"), P(28800, 7, "2", "EVEN"), P(0, 8, "1.5", "MARK"),
             P(15, 8, "1", "NONE"), P(-1, 8, "1", "NONE"), P(13, 9, "1", "NONE")}
MCFlowModes == {{}, {"RTSCTS_IN", "XONXOFF_OUT"}}
=============================================================================
