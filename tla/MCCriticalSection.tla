--------------------------- MODULE MCCriticalSection --------------------------
(* Constants of the run of module CriticalSection that a .cfg cannot write. *)
EXTENDS CriticalSection

\* A pool of one event, which the section and user code compete for.
OneHandle == {Handle(EventType, 0)}

NoTimers == [x \in Timers |-> 0]
NoConditions == {}
=============================================================================
