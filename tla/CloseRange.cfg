SPECIFICATION Spec
CONSTANTS
  MaxUnits = 3
  RecoveryAge = 2
  MaxHold = 3
  Mode = {"long", "short"}
  MinutesPerDay = 1
  Window = 0
  MaxTrades = 3
  LastDay = 4
CHECK_DEADLOCK FALSE
INVARIANTS
  NeverRaises
  OwnedIsManaged
  LadderIsWhole
  OpenedOnceIfKept
