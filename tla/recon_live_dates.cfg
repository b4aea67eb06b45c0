SPECIFICATION FairSpec
CONSTANTS
  Originals = {"sale1"}
  Users <- MCUsers
  Targets = {"executivo"}
  Plans = {"executivos"}
  Periods = {"jul", "ago"}
  Variables = {"instaladas"}
  Contents = {"installed", "late"}
  PeriodOf <- MCPeriodOf
  Selects <- MCSelects
  SellerOf <- MCSellerOf
  Participants <- MCParticipants
  PlanVariables <- MCPlanVariables
  Override = {"executivos"}
  PapVariables = {}
  PapLeaders = {}
  TooLong = {}
  Hierarchies <- MCFixedHierarchy
  CarrierRows <- MCNone
  MaxMoves = 1
  MaxFaults = 0
  NoJob = NoJob
  NoTarget = NoTarget
  NoCsv = NoCsv
PROPERTIES
  EventuallyInLine
