CONSTANTS
  Units <- MCUnits
  SideOf <- MCSideOf
  Kinds = {"wild", "pvp"}
  LastRound <- MCLastRound
  Forfeit = 2
  SeqWrap = 8
  Players = {"p", "q"}
  Walkers = {"p"}
  Ids = {1, 2}
  Format = 1
  MaxSeq = 2
SPECIFICATION FairSpec
INVARIANTS
  RowsWellFormed
  SettledAsPlayed
PROPERTIES
  LockedIsFielded
  StrikesAreDue
  BattlesEnd
CHECK_DEADLOCK FALSE
