SPECIFICATION FairSpec
CONSTANTS
  Originals = {"sale1", "sale2"}
  Users <- MCUsers
  Targets = {"executivo"}
  Plans = {"executivos"}
  Periods = {"jul"}
  Variables = {"instaladas"}
  Contents = {"installed", "corrected"}
  PeriodOf <- MCPeriodOf
  Selects <- MCSelects
  SellerOf <- MCSellerOf
  Participants <- MCParticipants
  PlanVariables <- MCPlanVariables
  Override = {"executivos"}
  PapVariables = {}
  PapLeaders = {}
  TooLong = {}
  Hierarchies <- MCHierarchies
  CarrierRows <- MCCarrierRows
  MaxMoves = 2
  MaxFaults = 1
  NoJob = NoJob
  NoTarget = NoTarget
  NoCsv = NoCsv
INVARIANTS
  TypeOK
  TwoPassesAlign
  DeltaCloses
  QuietApplyMatchesReport
  VerifiedMeansInLine
PROPERTIES
  LegitimateMirrorStays
  RefinesLifecycle
  EventuallyInLine
