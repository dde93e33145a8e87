---------------------------- MODULE MCSerialRead ----------------------------
(* One thread reads, one sets.  A tick is 50 ms: a timeout of one tick is   *)
(* too short for VTIME.  A threshold of 257 is 1 in VMIN.                   *)
EXTENDS SerialRead
=============================================================================
