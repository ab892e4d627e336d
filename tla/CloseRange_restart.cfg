SPECIFICATION Spec
CONSTANTS
  MaxUnits = 3
  RecoveryAge = 2
  MaxHold = 3
  Mode = {"long", "short"}
  MinutesPerDay = 2
  Window = 1
  MaxTrades = 3
  LastDay = 4
INVARIANT
  ClosedSlotIsBookkept
CHECK_DEADLOCK FALSE
