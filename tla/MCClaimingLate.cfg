SPECIFICATION ClaimSpec
CONSTANTS
  g1 = g1
  a1 = a1
  c1 = c1
  c2 = c2
  s1 = s1
  s2 = s2
  Guests = {g1}
  Holders = {a1}
  Guest = g1
  Holder = a1
  Sockets = {c1, c2}
  Codes = {1}
  Saves = {s1, s2}
  None = None
  Unborn = Unborn
  Erased = Erased
  ClaimTTL = 1
  Grace = 1
  Early = 0
  Legacy = {}
  MaxNow = 1
  MaxMints = 1
SYMMETRY Symmetry
INVARIANTS
  LateSuccessIsRecognised
