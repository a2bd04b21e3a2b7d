SPECIFICATION Spec
CONSTANTS
  b1 = b1  b2 = b2  t1 = t1  t2 = t2
  p1 = p1  p2 = p2  p3 = p3  p4 = p4  p5 = p5
  n1 = n1  n2 = n2  n3 = n3  n4 = n4
  i1 = i1  i2 = i2  e1 = e1  e0 = e0
  Cut = Cut  None = None
  Board <- MCBoard
  Thread <- MCThread
  Post <- AgainPost
  Name <- ErrName
  Image <- MCImage
  BoardOf <- MCBoardOf
  ThreadOf <- AgainThreadOf
  NameOf <- AgainNameOf
  ImageOf <- AgainImageOf
  Listing <- AgainListing
  WebmPost <- AgainPost
  Mentions <- MCMentions
  ErrorBody <- MCErrorBody
  SizeOf <- ErrSizeOf
  SizeIn <- ErrSizeIn
  MaxFaults = 3
INVARIANTS
  NoLinkLoop
  AliasOfOriginal
