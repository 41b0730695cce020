SPECIFICATION PageSpec
CONSTANTS
  MaxRuns = 2
  Units = 2
  MaxRetests = 2
INVARIANTS
  CardsAreReset
CHECK_DEADLOCK FALSE
