SPECIFICATION FairSpec
CONSTANTS
  Guests = {g}
  Holders = {a}
  MaxOnline = 1
  g = g  a = a
  Places <- MCPlaces
  Spawn <- MCSpawn
  TalkRange = 0
  Builds <- MCBuilds
  Prizes = {"present", "errand"}
  Nowhere = Nowhere
  End = End
INVARIANTS
  QuestsWellFormed
  PaidOnce
PROPERTIES
  CompletionsAreSeen
  NpcsWaitForTalkers
  NpcsComeHome
