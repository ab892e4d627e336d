SPECIFICATION FairBookSpec
CONSTANTS
  Processes = {job, command}
  Jobs = {job}
  Versions = {1, 2}
  Seed = 1
  Overlap = 1
  LastDay = 3
INVARIANTS
  DecisionsAreOfBook
PROPERTIES
  OneSourceAppends
  CatchesUp
