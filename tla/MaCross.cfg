SPECIFICATION FairSpec
CONSTANTS
  WinCount = 2
  LossCount = 1
  SameBarFlip = TRUE
  Mode = "verdict_transition"
  MaxBars = 4
  MaxTrades = 2
INVARIANTS
  MemoryIsRight
  TargetIsCurrent
PROPERTIES
  NoEntryWhileCooling
  EntriesFollowVerdicts
  ReplacementAwaitsBoundary
  OpposedIsClosed
