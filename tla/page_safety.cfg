SPECIFICATION PageSpec
CONSTANTS
  b1 = b1  b2 = b2  t1 = t1  t2 = t2
  p1 = p1  p2 = p2  p3 = p3  p4 = p4
  n1 = n1  n2 = n2  i1 = i1  i2 = i2
  Cut = Cut  None = None
  Board = {b1, b2}
  Thread = {t1, t2}
  Post = {p1, p2, p3, p4}
  Name = {n1, n2}
  Image = {i1, i2}
  BoardOf <- PageBoardOf
  ThreadOf <- BothThreadOf
  NameOf <- BothNameOf
  ImageOf <- BothImageOf
  Listing <- BothListing
  WebmPost = {p1, p2, p3, p4}
  Mentions = {}
  ErrorBody = {}
  SizeOf <- PageSizeOf
  SizeIn <- PageSizeIn
  MaxFaults = 1
  MaxPageFaults = 1
INVARIANTS
  PageTypeOK
  PageFindsFile
  PageListsReposts
  CountsPostsOnce
