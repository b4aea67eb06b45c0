SPECIFICATION Spec
CONSTANTS
  Plans = {"planA", "planB"}
  Users = {"me", "ana", "rui"}
  Me = "me"
  Sorts = {"highest", "lowest"}
  FirstSort = "highest"
  Routes <- MCRoutes
  FirstRoutes <- MCFirstRoutes
  Ranking <- MCRanking
  Wages <- MCWages
  Listed <- MCListed
  Paid <- MCPaid
  Selling <- MCSelling
  WithPicture = {"planA"}
  MaxMoves = 1
  MaxTroubles = 1
  Cents = 2
  WordLimit = 8
  NoMoney = NoMoney
  NoUser = NoUser
  None = None
INVARIANTS
  TypeOK
  Settled
  SelectionAgrees
  TotalErrsLow
  SpinnerEnds
CHECK_DEADLOCK FALSE
