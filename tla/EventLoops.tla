----------------------------- MODULE EventLoops -----------------------------
(***************************************************************************)
(* What the list master_index of event_info_structs is for its users: the   *)
(* event loops that run, in the order in which they have begun.             *)
(* SerialEvents, which has the list pointer by pointer, implements it as    *)
(* long as the loops enter and leave one at a time; PortMonitor, which has  *)
(* the list as a sequence, takes steps of it only.                          *)
(***************************************************************************)
EXTENDS Naturals, Sequences

CONSTANT Loops
VARIABLE order

Init == order = <<>>

Running(l) == \E i \in 1 .. Len(order) : order[i] = l

(* initialise_event_info_struct *)
Enter(l) ==
  /\ ~Running(l)
  /\ order' = Append(order, l)

(* finalize_event_info_struct *)
Leave(l) ==
  \E i \in 1 .. Len(order) :
    /\ order[i] = l
    /\ order' = SubSeq(order, 1, i - 1) \o SubSeq(order, i + 1, Len(order))

Next == \E l \in Loops : Enter(l) \/ Leave(l)

Spec == Init /\ [][Next]_order
=============================================================================
