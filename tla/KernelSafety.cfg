CONSTANTS
  ev1 = ev1
  ev2 = ev2
  tm1 = tm1
  q1 = q1
  MaxTasks = 3
  Interval = 1
  TimeMod = 4
  Events = {ev1}
  Manual = {}
  Queues = {}
  QueueMax = 1
  Timers = {}
  TimerInterval <- TimerIntervals
  Others = {}
  Ops = {"start", "create", "createSuspended", "terminate", "suspend", "resume", "sleep", "wait", "set"}
  Priorities = {0, 2}
  SleepTimes = {2}
  Conditions <- SafetyConditions
  MaxLockedTicks = 1
  BootTicks = 1
SPECIFICATION Spec
INVARIANTS TypeOK LockDiscipline ReadyListsSound WaitListSound NoLostTask RunningIsReady NoMissedWake SlotsSuffice
PROPERTIES CallsDoNotInvert ImplementsTaskLife
