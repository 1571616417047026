SPECIFICATION FairSpec
CONSTANTS
  SlotMinutes = 2
  DayLength = 6
  UtcOffset <- MCOffset
  Queries <- MCQueries
CHECK_DEADLOCK FALSE
INVARIANTS
  SearchAgrees
  OffersExactlyTheFreeStarts
PROPERTIES
  SearchEnds
