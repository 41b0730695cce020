SPECIFICATION Spec
CONSTANTS
  Speeds = {1, 940, 10000}
  MaxBytes = 10737
  Delays = {10, 30}
  PauseTicks = 40
  MaxTicks = 90
CHECK_DEADLOCK FALSE
INVARIANT FastLinksServed
