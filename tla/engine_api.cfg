SPECIFICATION EngineSpec
CONSTANTS
  MaxRuns = 2
  Units = 2
INVARIANTS
  OverlapNeedsStop
  IdleIsUnlocked
PROPERTIES
  StopEndsRun
  RunsEnd
CHECK_DEADLOCK FALSE
