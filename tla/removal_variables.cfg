SPECIFICATION Spec
CHECK_DEADLOCK FALSE
CONSTANTS
  Originals = {"sale1", "sale2"}
  Users <- MCUsers
  Targets = {"executivo"}
  Plans = {"executivos"}
  Periods = {"jul"}
  Variables = {"instaladas", "movel"}
  Contents = {"installed", "mobile"}
  PeriodOf <- MCPeriodOf
  Selects <- MCSelects
  SellerOf <- MCSellerOf
  Participants <- MCParticipants
  PlanVariables <- MCPlanVariables
  Override = {"executivos"}
  PapVariables = {}
  PapLeaders = {}
  TooLong = {}
  Hierarchies <- MCHierarchies
  CarrierRows <- MCSellerRows
  MaxMoves = 0
  MaxFaults = 0
  MaxPastes = 1
  Plan = "executivos"
  Period = "jul"
  RevenueVariable = "instaladas"
  NoContent = NoContent
  NoCsv = NoCsv
PROPERTIES
  OnlyDoubledGo
