--------------------------- MODULE MCWindowsPorts ---------------------------
(* A custom speed and a hang-up, with different frames.                     *)
EXTENDS WindowsPorts, TLC

MCParams ==
  {[speed |-> 250000, dataBits |-> 6, stopBits |-> "1.5", parity |-> "SPACE"],
   [speed |-> 0, dataBits |-> 7, stopBits |-> "2", parity |-> "EVEN"]}

MCFlowModes == {{"RTSCTS_IN", "XONXOFF_OUT"}}

(* No property speaks of what follows two overlapping calls of add_port, or *)
(* a walk from an entry that has been freed.                                *)
OneAtATime == ~raced

Touched(n) == params[n] # set_java_vars(configured) \/ flow[n] # {} \/ half[n] # {}

(* The settings of one port at a time change, while at most one thread is   *)
(* opening another.                                                         *)
OneTouched ==
  /\ \A m, n \in Names : Touched(m) /\ Touched(n) => m = n
  /\ (\E n \in Names : Touched(n)) => \E t \in Threads : at[t] = "idle"

Swap == Permutations(Threads) \cup Permutations(Names)
=============================================================================
