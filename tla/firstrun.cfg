SPECIFICATION Spec
CONSTANTS
  Originals = {"sale1", "sale2"}
  Users <- MCUsers
  Targets = {"executivo", "gerente"}
  Plans = {"executivos", "gerentes"}
  Periods = {"jul"}
  Variables = {"instaladas", "movel"}
  Contents = {"installed", "mobile"}
  PeriodOf <- MCPeriodOf
  Selects <- MCSelects
  SellerOf <- MCSellerOf
  Participants <- MCParticipants
  PlanVariables <- MCPlanVariables
  Override = {"executivos"}
  PapVariables = {}
  PapLeaders = {}
  TooLong <- MCTooLong
  Hierarchies <- MCHierarchies
  CarrierRows <- MCCarrierRows
  MaxMoves = 2
  MaxFaults = 1
  NoTarget = NoTarget
  NoCsv = NoCsv
INVARIANTS
  TypeOK
  PreflightIsCreated
  FirstRunCovers
  NothingOverExisting
  EachIdentityOnce
