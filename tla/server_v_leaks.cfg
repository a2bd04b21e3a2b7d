SPECIFICATION Spec
CONSTANTS
  w1 = w1  w2 = w2  u1 = u1  u2 = u2  i1 = i1  i2 = i2  base = base
  Worker = {w1}
  Url = {u1, u2}
  BaseName <- SameBaseName
  ImageAt <- TwoImages
  Image = {i1, i2}
  None = None
  MaxRequests = 2
  MaxFaults = 1
INVARIANTS
  NothingLeaks
CHECK_DEADLOCK FALSE
