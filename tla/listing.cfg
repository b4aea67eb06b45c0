SPECIFICATION FairSpec
CONSTANTS
  Rows = {1, 2, 3, 4}
  PageLength = 2
  MaxVisits = 1
  MaxEdits = 1
  MaxScrolls = 2
  MaxMutations = 1
  MaxFaults = 1
  NoRequest = NoRequest
INVARIANTS
  TypeOK
  ListedOnce
  NothingSkipped
  NoMoreMeansAll
PROPERTIES
  RefinesListing
  CatchesUp
CHECK_DEADLOCK FALSE
