SPECIFICATION FairSpec
CONSTANTS
  b1 = b1  b2 = b2  t1 = t1  t2 = t2
  p1 = p1  p2 = p2  p3 = p3  n1 = n1  n2 = n2
  i1 = i1  i2 = i2  e1 = e1  cut = cut  none = none
  Board = {b1, b2}
  Thread = {t1, t2}
  Post = {p1, p3}
  Name = {n1, n2}
  Image = {i1}
  BoardOf <- TwoBoardOf
  ThreadOf <- CrossThreadOf
  NameOf <- CrossNameOf
  ImageOf <- CrossImageOf
  Listing <- CrossListing
  WebmPost = {p1, p3}
  Spoken = {t1, t2}
  Mentions = {}
  ErrorBody = {e1}
  Cut = cut
  Playable = {i1}
  None = none
  MayFailAt = {"fetch", "save"}
  MaxFaults = 1
PROPERTIES
  EventuallyArchived
