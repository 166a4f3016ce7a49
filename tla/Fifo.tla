--------------------------------- MODULE Fifo --------------------------------
(***************************************************************************)
(* What a static queue promises tasks and interrupts: a bounded first in,  *)
(* first out queue whose operations are atomic.                            *)
(***************************************************************************)
EXTENDS Naturals, Sequences

CONSTANTS Items, Max

VARIABLE q

Init == q = <<>>

Send(x) == Len(q) < Max /\ q' = Append(q, x)

Receive == q # <<>> /\ q' = Tail(q)

Next == (\E x \in Items : Send(x)) \/ Receive

Spec == Init /\ [][Next]_q
=============================================================================
