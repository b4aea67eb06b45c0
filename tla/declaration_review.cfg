SPECIFICATION Spec
CONSTANTS
  Statements <- MCStatements
  Types = {"deal", "ranking"}
  Incentives = {"d1", "r1", "d2", "r3", "d4"}
  IncentivesOf <- MCIncentivesOf
  Accepts = {"plan1", "plan2"}
  Accepted = {"plan3", "plan4"}
  Signed = {"plan3"}
  MaxRoutes = 2
  MaxClicks = 2
  MaxFaults = 1
  None = None
  Lists = {"dealCommissionings", "accumulatedDeals", "rankings", "collaborativeDealCommissionings"}
  DrainedLists = {"dealCommissionings", "accumulatedDeals"}
  AwaitedLists = {"dealCommissionings", "accumulatedDeals", "collaborativeDealCommissionings"}
  PanelLists = {"dealCommissionings", "rankings"}
  RowCounts <- MCRowCounts
  MaxRows = 4
  PageRows = 2
  MaxPresses = 2
INVARIANTS
  FullReviewBeforeSigning
CHECK_DEADLOCK FALSE
