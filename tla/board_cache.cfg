SPECIFICATION FairSpec
CONSTANTS
  Board = {b1, b2}
  Worker = {w1, w2}
  Timeout = 2
  Slow = 1
  MaxRows = 2
INVARIANTS
  TypeOK
PROPERTIES
  FailsOnlyYoung
  EventuallyNamed
