-------------------------- MODULE MCPreopenedPorts --------------------------
(* Two threads and three devices, enough to lose an entry of the list.      *)
EXTENDS PreopenedPorts, TLC

Swap == Permutations(Threads) \cup Permutations(Nodes) \cup Permutations(Files)
=============================================================================
