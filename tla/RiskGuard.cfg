SPECIFICATION Spec
CONSTANTS
  a = a
  b = b
  Slots = {a, b}
  NoSlot = NoSlot
  Asks = {1, 3}
  Leverages = {3}
  Prices = {1, 2}
  Results <- Losses
  Fees = {1}
  MaxPosition = 2
  MaxLeverage = 2
  MaxLoss = 2
  MaxOrders = 1
  MaxTotal = 3
  MaxMargin = 2
  Window = 2
  MaxEntryAge = 4
  MaxQuoteAge = 3
  DayTicks = 3
  LastTick = 5
  MaxBooked = 1
SYMMETRY SlotSymmetry
INVARIANTS
  WithinLimits
PROPERTIES
  SendsStandAfterAwaits
  BreakerHolds
