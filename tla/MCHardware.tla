------------------------------ MODULE MCHardware ------------------------------
(* Constants of the runs of module HardwareContext that a .cfg cannot write. *)
EXTENDS HardwareContext

\* Interrupt 16 is Critical, 17 at the level of the kernel.
UrgentLevels == [i \in Isrs |-> IF i = 16 THEN 1 ELSE KernelLevel]

\* As the examples of the repository configure theirs: Preemption::User.
UserLevels == [i \in Isrs |-> 3]

AllLow == [i \in Isrs |-> SubLow]
\* Interrupt 17 comes before PendSV and SysTick when they are pending too.
UrgentSubs == [i \in Isrs |-> 0]
=============================================================================
