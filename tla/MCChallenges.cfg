SPECIFICATION ChallengesFairSpec
CONSTANTS
  g1 = g1
  g2 = g2
  g3 = g3
  a1 = a1
  a2 = a2
  Players = {g1, g2, g3, a1, a2}
  Accounts = {a1, a2}
  Wild = Wild
  ChallengeTTL = 1
  MaxChallenges = 2
  MaxNow = 1
INVARIANTS
  ChallengesWellFormed
  FightersAvailable
PROPERTIES
  RankedNeedsAccounts
  ChallengeEnds
