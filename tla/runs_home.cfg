SPECIFICATION Spec
CONSTANTS
  Speeds = {1, 180, 2147}
  MaxBytes = 10737
  Delays = {10, 30}
  PauseTicks = 40
  MaxTicks = 120
CHECK_DEADLOCK FALSE
INVARIANTS
  ExpectedIsExact
  BudgetKept
