--------------------------- MODULE MCSerialEvents ---------------------------
(* The loop of one port whose device changes; or the loops of three ports   *)
(* enter and leave the list, one at a time, and their devices are quiet.    *)
EXTENDS SerialEvents

OneAtATime == ~raced
=============================================================================
