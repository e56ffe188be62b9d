SPECIFICATION FairSpec
CONSTANTS
  g1 = g1  g2 = g2  a1 = a1  m1 = m1  m2 = m2
  Players = {g1, g2, a1}
  Accounts = {a1}
  Wild = Wild
  Monsters = {m1, m2}
  Unborn = Unborn
  Erased = Erased
  Items = {}
  MaxItemStack = 2
  MaxBalance = 1
  BuyPrice = 1
  SellPrice = 1
  HealCost = 1
  TradeTTL = 1
  Grace = 1
  MaxReward = 1
  MaxOffered = 1
  MaxTrades = 2
  MaxNow = 2
INVARIANTS
  OffersWellFormed
  MonstersCommittedOnce
  ErasedOwnsNothing
  GraceOffersNeverAccepted
PROPERTIES
  OfferResolved
