SPECIFICATION FairSpec
CONSTANTS
  a = a
  b = b
  go = go
  flip = flip
  other = other
  t1 = t1
  t2 = t2
  t3 = t3
  Slots = {a}
  Trades = {t1, t2}
  Decisions = {go, flip}
  DecisionSlot <- OneDecisionSlot
  DecisionSide <- OneDecisionSide
  Owners = {"ma"}
  OwnerOf <- OneOwnerOf
  BoundSlots = {}
  NoTrade = NoTrade
  NoSlot = NoSlot
  NoDecision = NoDecision
  Manual = Manual
PROPERTIES
  BegunCloseIsFinished
  VenueCloseReachesStrategy
