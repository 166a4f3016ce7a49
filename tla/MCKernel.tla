------------------------------ MODULE MCKernel -------------------------------
(* Constants of the runs of module Kernel that a .cfg cannot write. *)
EXTENDS Kernel

CONSTANTS ev1, ev2, tm1, q1

WaitFor(objs, all, forever, t) ==
  [objs |-> objs, all |-> all, forever |-> forever, interval |-> t]

\* Safety: an event for ever, and the same event with a timeout.
SafetyConditions == {WaitFor(<<ev1>>, TRUE, TRUE, 0), WaitFor(<<ev1>>, FALSE, FALSE, 1)}

\* Objects: all of a queue, an auto-reset and a manual event and a timer; the
\* auto-reset event alone; the queue alone.
ObjectConditions ==
  {WaitFor(<<q1, ev1, ev2, tm1>>, TRUE, TRUE, 0), WaitFor(<<ev1>>, FALSE, TRUE, 0),
   WaitFor(<<q1>>, FALSE, TRUE, 0)}

AnyConditions == {WaitFor(<<ev1, ev2>>, FALSE, TRUE, 0)}

OneEvent == {WaitFor(<<ev1>>, TRUE, TRUE, 0)}

TimeoutOnly == {WaitFor(<<ev1>>, FALSE, FALSE, 0)}

NoConditions == {}

TimerIntervals == [x \in Timers |-> 1]
=============================================================================
