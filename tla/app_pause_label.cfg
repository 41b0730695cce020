SPECIFICATION Spec
CONSTANTS
  MaxRuns = 2
  Units = 2
  MaxRetests = 2
CHECK_DEADLOCK FALSE
INVARIANT PauseLabelTells
