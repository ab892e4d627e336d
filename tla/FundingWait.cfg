SPECIFICATION Spec
CONSTANTS
  Period = 2
  DayPeriods = 2
  LateWindow = 1
  MaxBars = 6
  LastMinute = 13
INVARIANTS
  FundedOnEvidence
  ModelIsSound
