SPECIFICATION ConsoleFairSpec
CONSTANTS
  Queries <- MCQueries
  ViewOf <- MCViewOf
  LastPage = 3
  MaxVersion = 2
  MaxMoves = 3
  MaxFaults = 1
INVARIANTS
  PagesAreNotMixed
  StreamFollowsSnapshot
PROPERTIES
  ListCatchesUp
  LoadMoreComesBack
CHECK_DEADLOCK FALSE
