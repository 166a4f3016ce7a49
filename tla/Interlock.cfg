CONSTANTS
  Tasks = {t1, t2, t3}
  None = none
  Isrs = {16, 17}
  IsrLevel <- UrgentLevels
  Sub <- UrgentSubs
  SectionLevel = 2
SPECIFICATION HwSpec
INVARIANTS LockCountsHolder RegistersFresh RunsWhole SavedWhole MaskFollowsTask HandlersFinish
PROPERTY ImplementsKernelLock
