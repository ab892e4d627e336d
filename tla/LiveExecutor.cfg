SPECIFICATION Spec
CONSTANTS
  a = a
  b = b
  go = go
  flip = flip
  other = other
  t1 = t1
  t2 = t2
  t3 = t3
  Slots = {a, b}
  Trades = {t1, t2, t3}
  Decisions = {go, flip, other}
  DecisionSlot <- MCDecisionSlot
  DecisionSide <- MCDecisionSide
  Owners <- MCOwners
  OwnerOf <- MCOwnerOf
  BoundSlots = {b}
  NoTrade = NoTrade
  NoSlot = NoSlot
  NoDecision = NoDecision
  Manual = Manual
SYMMETRY TradeSymmetry
INVARIANTS
  MemoryMatchesLedger
  BookedOnce
  OneTradePerDecision
  AtMostOneUnbookedEntry
  OneRunningTradePerSlot
  BookedCloseIsReal
  ExternalCloseFoldedOnce
  OwedExitIsForHeldTrade
PROPERTIES
  AcceptedCloseNeverResent
  BookIsKept
