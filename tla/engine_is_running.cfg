SPECIFICATION EngineSpec
CONSTANTS
  MaxRuns = 2
  Units = 2
CHECK_DEADLOCK FALSE
INVARIANT IsRunningTells
