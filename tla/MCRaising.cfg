SPECIFICATION Spec
CONSTANTS
  g = g
  a = a
  m1 = m1
  Players = {g, a}
  Guests = {g}
  Monsters = {m1}
  Home <- MCHome
  Species = {"egg", "cub", "imp", "bear"}
  First = "egg"
  Tier <- MCTier
  Edges <- MCEdges
  MinGap = 2
  IdleGap = 2
  DailyCap = 1
  TickLen = 1
  Day = 5
  TrustK = 1
  MaxCount = 1
  MaxLevel = 2
  MaxChainSteps = 3
  MaxNow = 10
  MaxEvents = 2
INVARIANTS
  CreditIsEarned
  RevealsTellTheStory
PROPERTIES
  OfferedIsUntouched
  NoneIsMissed
CHECK_DEADLOCK FALSE
