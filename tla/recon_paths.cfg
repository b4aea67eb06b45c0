SPECIFICATION Spec
CONSTANTS
  Originals = {"sale1"}
  Users <- MCUsers
  Targets = {"gerente", "executivo"}
  Plans = {"gerentes", "executivos"}
  Periods = {"jul"}
  Variables = {"instaladas", "movel"}
  Contents = {"installed", "mobile"}
  PeriodOf <- MCPeriodOf
  Selects <- MCSelects
  SellerOf <- MCSellerOf
  Participants <- MCParticipants
  PlanVariables <- MCPlanVariables
  Override = {"executivos"}
  PapVariables <- MCPap
  PapLeaders = {"lider"}
  TooLong = {}
  Hierarchies <- MCPapHierarchies
  CarrierRows <- MCPathRows
  MaxMoves = 2
  MaxFaults = 0
  NoJob = NoJob
  NoTarget = NoTarget
  NoCsv = NoCsv
INVARIANTS
  CountedOnce
  PapCutHolds
