SPECIFICATION Spec
CONSTANTS
  Originals = {"sale1", "sale2"}
  Users <- MCUsers
  Targets = {"executivo"}
  Plans = {"executivos"}
  Periods = {"jul", "ago"}
  Variables = {"instaladas"}
  Contents = {"installed", "late"}
  PeriodOf <- MCPeriodOf
  Selects <- MCSelects
  SellerOf <- MCSellerOf
  Participants <- MCParticipants
  PlanVariables <- MCPlanVariables
  Override = {"executivos"}
  PapVariables = {}
  PapLeaders = {}
  TooLong <- MCTooLong
  Hierarchies <- MCFixedHierarchy
  CarrierRows <- MCNone
  MaxMoves = 2
  MaxFaults = 0
  NoJob = NoJob
  NoTarget = NoTarget
  NoCsv = NoCsv
INVARIANTS
  TwoPassesAlign
