SPECIFICATION Spec
CONSTANTS
  p1 = p1  p2 = p2  m1 = m1  m2 = m2  i1 = i1
  Players = {p1, p2}
  Accounts = {}
  Wild = Wild
  Monsters = {m1, m2}
  Unborn = Unborn
  Erased = Erased
  Items = {i1}
  MaxItemStack = 2
  MaxBalance = 2
  BuyPrice = 1
  SellPrice = 1
  HealCost = 1
  TradeTTL = 1
  Grace = 1
  MaxReward = 1
  MaxOffered = 2
  MaxTrades = 1
  MaxNow = 1
SYMMETRY Symmetry
INVARIANTS
  HoldingsBacked
PROPERTIES
  ImplementsEscrowContract
