CONSTANTS
  MaxTasks = 4
  Interval = 0
  TimeMod = 2
  Events <- OneHandle
  Manual = {}
  Queues = {}
  QueueMax = 0
  Timers = {}
  TimerInterval <- NoTimers
  Others = {}
  Ops = {"start", "create", "set", "reset"}
  Priorities = {2}
  SleepTimes = {}
  Conditions <- NoConditions
  MaxLockedTicks = 0
  BootTicks = 0
  SpinLock = 1
  MaxEvents = 1
  Names = {"name"}
SPECIFICATION CsFairSpec
INVARIANTS MutualExclusion NoLostWakeup EnterNeverFails
PROPERTY FreeSectionIsEntered
