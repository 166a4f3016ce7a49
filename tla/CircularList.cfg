CONSTANTS
  Items = {0, 1, 2, 3}
  MaxSize = 3
SPECIFICATION Spec
INVARIANTS TypeOK OneRing
PROPERTY ImplementsTaskRing
