CONSTANTS
  None = None
  Zones = {0, 1}
  Walkable <- MCWalkable
  Grass <- MCGrass
  Warps <- MCWarps
  Spawn <- MCSpawn
  Inputs = {"East"}
  Kinds = {"Enqueue", "SetMove", "Clear"}
  QueueCap = 1
  PendingCap = 3
  MaxSeq = 2
  MaxConns = 2
  MaxPages = 2
  MaxBattles = 1
SPECIFICATION FairSpec
INVARIANTS
  PredictionWellFormed
PROPERTIES
  HeldInBattle
  IntentsSettle
CHECK_DEADLOCK FALSE
