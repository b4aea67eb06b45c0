SPECIFICATION FairSpec
CONSTANTS
  Tokens = {"t1", "t2", "t3", "t4", "t5"}
  Clients = {"old", "new"}
  Default = "old"
  Crons = {"cron", "overrun"}
  Shells = {"shell"}
  Life = 4
  MaxMisses = 1
  MaxTroubles = 1
  MaxManuals = 2
  Dead = Dead
  NoToken = NoToken
  Empty = Empty
  NoFile = NoFile
INVARIANTS
  TypeOK
  ChainHeld
PROPERTIES
  RenewedForEver
