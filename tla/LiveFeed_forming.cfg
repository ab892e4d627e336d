SPECIFICATION Spec
CONSTANTS
  Spans = {2, 4}
  MaxGaps = 1
  Lookback = 2
  LastMinute = 5
INVARIANT
  OnlyClosedCandles
