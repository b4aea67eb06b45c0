SPECIFICATION Spec
CHECK_DEADLOCK FALSE
CONSTANTS
  Originals = {"sale1", "sale2"}
  Users <- MCUsers
  Targets = {"executivo"}
  Plans = {"executivos"}
  Periods = {"jul"}
  Variables = {"instaladas", "movel"}
  Contents = {"installed", "mobile"}
  PeriodOf <- MCPeriodOf
  Selects <- MCSelects
  SellerOf <- MCSellerOf
  Participants <- MCParticipants
  PlanVariables <- MCPlanVariables
  Override = {"executivos"}
  PapVariables = {}
  PapLeaders = {}
  TooLong = {}
  Hierarchies <- MCHierarchies
  CarrierRows <- MCSellerRows
  MaxMoves = 1
  MaxFaults = 1
  MaxPastes = 3
  Plan = "executivos"
  Period = "jul"
  RevenueVariable = "instaladas"
  NoContent = NoContent
  NoCsv = NoCsv
INVARIANTS
  TypeOK
  RestoreUndoes
PROPERTIES
  RevenueKept
  DisabledIsKept
