CONSTANTS
  Tasks = {t1, t2}
  None = none
  Isrs = {16}
  IsrLevel <- UserLevels
  Sub <- AllLow
  SectionLevel = 2
SPECIFICATION HwSpec
INVARIANT HandlersFinish
