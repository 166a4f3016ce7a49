CONSTANTS
  kernelIsr = kernelIsr
  userIsr = userIsr
  Tasks = {t1, t2}
  Isrs = {kernelIsr}
  Level <- Levels
  Items = {a, b}
  Max = 3
SPECIFICATION Spec
INVARIANTS OneInside IndicesAgree ReceivesOldest RefusalsJust
PROPERTY ImplementsFifo
