CONSTANTS
  ev1 = ev1
  ev2 = ev2
  tm1 = tm1
  q1 = q1
  MaxTasks = 3
  Interval = 1
  TimeMod = 4
  Events = {ev1, ev2}
  Manual = {ev2}
  Queues = {q1}
  QueueMax = 1
  Timers = {tm1}
  TimerInterval <- TimerIntervals
  Others = {}
  Ops = {"start", "create", "wait", "set", "reset", "send", "receive", "timerCreate", "timerDestroy", "timerStart", "timerRestart", "timerStop"}
  Priorities = {2}
  SleepTimes = {2}
  Conditions <- ObjectConditions
  MaxLockedTicks = 0
  BootTicks = 0
SPECIFICATION Spec
INVARIANT NoMissedWake
PROPERTY WakesConsume
