CONSTANTS
  Units <- MCUnits
  SideOf <- MCSideOf
  Kinds = {"wild", "pvp"}
  Forfeit = 2
  SeqWrap = 2
  Speed <- MCSpeed
  MaxHP = 1
  PlayerPlans <- MCPlayerPlans
  AiPlans <- MCAiPlans
  Cost <- MCCost
  Tax = 1
  Exert = 2
  ApTurn = 6
  MinCost = 2
  MaxStrides = 2
  MaxWindows = 3
  RoundCap = 2
  SurgeStart = 2
SPECIFICATION FairSpec
INVARIANTS
  TurnsWellFormed
PROPERTIES
  BattleEnds
  ImplementsTurnContract
CHECK_DEADLOCK FALSE
