SPECIFICATION FairSpec
CONSTANTS
  MaxName = 9
  Modulus = 10
  MaxLength = 5
INVARIANTS
  TypeOK
  FoundIffPlain
  KeyAgrees
PROPERTIES
  Answered
CHECK_DEADLOCK FALSE
