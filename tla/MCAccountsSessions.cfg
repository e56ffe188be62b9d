SPECIFICATION FairSpec
CONSTANTS
  g1 = g1
  a1 = a1
  a2 = a2
  c1 = c1
  c2 = c2
  k1 = k1
  s1 = s1
  s2 = s2
  Guests = {g1}
  Holders = {a1, a2}
  Sockets = {c1, c2}
  Codes = {k1}
  Saves = {s1, s2}
  None = None
  Unborn = Unborn
  Erased = Erased
  ClaimTTL = 1
  Grace = 1
  Early = 1
  Legacy = {a2}
  MaxNow = 2
INVARIANTS
  PresenceWellFormed
  SavesAreSafe
PROPERTIES
  OnlyErasureForgetsTabs
  RequestsEnd
