SPECIFICATION FairSpec
CONSTANTS
  MaxAge = 2
  MinutesPerBar = 2
  ChopFilter = TRUE
  MaxTrades = 2
  LastBar = 2
INVARIANTS
  HeldCanLeave
  OwnedIsManaged
PROPERTIES
  EntriesRespectBlocks
  ClosingFinishes
