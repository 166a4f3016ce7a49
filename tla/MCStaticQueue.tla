---------------------------- MODULE MCStaticQueue ----------------------------
(* Interrupt levels for the runs of module StaticQueue. *)
EXTENDS StaticQueue

CONSTANTS kernelIsr, userIsr

Levels == [i \in Isrs |-> IF i = kernelIsr THEN 2 ELSE 3]
=============================================================================
