SPECIFICATION Spec
CONSTANTS
  Speeds = {1, 30, 180, 940, 2500}
  MaxBytes = 10737
  Delays = {10, 30}
  PauseTicks = 40
  MaxTicks = 90
CHECK_DEADLOCK FALSE
INVARIANT ProgressReaches100
