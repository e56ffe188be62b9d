SPECIFICATION FairSpec
CONSTANTS
  g1 = g1
  a1 = a1
  Guests = {g1}
  Holders = {a1}
  Nobody = Nobody
  Tombstone = Tombstone
  ChunkRows = 1
  Cooldown = 1
  Probe = 2
  TTL = 2
  MaxRead = 2
  MaxStamps = 1
  LiveCap = 6
  MaxRows = 2
  MaxDeals = 2
  Lag = 1
INVARIANTS
  BundlesWellFormed
  SharesHold
PROPERTIES
  ErasedIsForgotten
