----------------------------- MODULE KernelLock ------------------------------
(***************************************************************************)
(* The kernel lock as the API relies on it: taken and released in one      *)
(* step, by one owner at a time, and the processor changes hands only      *)
(* while it is free or as it is released by the SVC handler.               *)
(***************************************************************************)
CONSTANTS Tasks, None

VARIABLES owner, running

Init == owner = None /\ running \in Tasks

Acquire == owner = None /\ owner' = running /\ UNCHANGED running

Release == owner = running /\ owner' = None /\ UNCHANGED running

Switch == owner \in {None, running} /\ owner' = None /\ running' \in Tasks

Next == Acquire \/ Release \/ Switch

Spec == Init /\ [][Next]_<<owner, running>>
=============================================================================
