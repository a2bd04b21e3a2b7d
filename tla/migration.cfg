SPECIFICATION FairSpec
CONSTANTS
  t1 = t1  t2 = t2  p1 = p1  p2 = p2  w1 = w1  w2 = w2  a1 = a1
  None = None
  Thread = {t1, t2}
  Post = {p1, p2}
  Webm = {w1, w2}
  Alias = {a1}
  RefOf <- SmallRefOf
  WebmOf <- SmallWebmOf
  MaxFaults = 2
INVARIANTS
  TypeOK
  CopiedOnce
  CompleteWhenDone
PROPERTIES
  EventuallyDone
CHECK_DEADLOCK FALSE
