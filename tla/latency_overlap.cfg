SPECIFICATION Spec
CONSTANTS
  Durations = {2}
  MaxTests = 2
CHECK_DEADLOCK FALSE
INVARIANTS
  LoadOverlapsProbes
