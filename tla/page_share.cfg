SPECIFICATION PageSpec
CONSTANTS
  MaxRuns = 2
  Units = 2
  MaxRetests = 2
INVARIANTS
  ShareEnabled
CHECK_DEADLOCK FALSE
