SPECIFICATION Spec
CONSTANTS
  first = first
  second = second
  Runs = {first, second}
  Setups <- MCSetups
  Tfs = {"4h"}
  Sizes = {1}
  Hold = 1
  MaxBars <- MCMaxBars
  Handled = {second}
  Places <- MCPlaces
CHECK_DEADLOCK FALSE
INVARIANTS
  DoneIsWhole
  FillsAreBelieved
PROPERTIES
  KeepsRecords
