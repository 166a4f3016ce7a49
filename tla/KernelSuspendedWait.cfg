CONSTANTS
  ev1 = ev1
  ev2 = ev2
  tm1 = tm1
  q1 = q1
  MaxTasks = 3
  Interval = 1
  TimeMod = 4
  Events = {ev1}
  Manual = {}
  Queues = {}
  QueueMax = 1
  Timers = {}
  TimerInterval <- TimerIntervals
  Others = {}
  Ops = {"start", "create", "wait", "suspend", "resume"}
  Priorities = {2}
  SleepTimes = {2}
  Conditions <- OneEvent
  MaxLockedTicks = 0
  BootTicks = 0
SPECIFICATION Spec
PROPERTY WaitEndsByTick
