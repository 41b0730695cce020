SPECIFICATION Spec
CONSTANTS
  Durations = {6}
  MaxTests = 2
CHECK_DEADLOCK FALSE
INVARIANTS
  UnloadedIsUnloaded
