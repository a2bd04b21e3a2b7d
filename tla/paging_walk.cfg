SPECIFICATION FairSpec
CONSTANTS
  Handler = {"board", "by_alias", "newest", "popular"}
  PerPage = 2
  MaxWebms <- FourOrFive
  MaxMoves = 2
INVARIANTS
  TypeOK
  MissesOnlyWhatMoved
  MissesOnlyTied
PROPERTIES
  ComesRound
CHECK_DEADLOCK FALSE
