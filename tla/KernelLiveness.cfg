CONSTANTS
  ev1 = ev1
  ev2 = ev2
  tm1 = tm1
  q1 = q1
  MaxTasks = 3
  Interval = 1
  TimeMod = 6
  Events = {ev1}
  Manual = {}
  Queues = {}
  QueueMax = 1
  Timers = {}
  TimerInterval <- TimerIntervals
  Others = {}
  Ops = {"start", "create", "sleep", "wait"}
  Priorities = {0, 3}
  SleepTimes = {2}
  Conditions <- TimeoutOnly
  MaxLockedTicks = 1
  BootTicks = 0
SPECIFICATION FairSpec
PROPERTIES SleepersWake RoundRobin InversionEnds
