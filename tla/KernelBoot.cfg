CONSTANTS
  ev1 = ev1
  ev2 = ev2
  tm1 = tm1
  q1 = q1
  MaxTasks = 2
  Interval = 1
  TimeMod = 8
  Events = {}
  Manual = {}
  Queues = {}
  QueueMax = 1
  Timers = {}
  TimerInterval <- TimerIntervals
  Others = {}
  Ops = {"start", "create"}
  Priorities = {2}
  SleepTimes = {2}
  Conditions <- NoConditions
  MaxLockedTicks = 1
  BootTicks = 4
SPECIFICATION Spec
INVARIANT NoTaskBeforeStart
