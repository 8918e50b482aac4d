SPECIFICATION FairSpec
CONSTANTS
  MaxQueries = 2
  ChanBound = 2
INVARIANTS RowsOfAnnounced
PROPERTIES RunningEnds QueryDeleted
