SPECIFICATION Spec
CONSTANTS
  N = 10
  MaxDrops = 2
  MaxFlight = 2
INVARIANT AllSentBeforeCounting
CHECK_DEADLOCK FALSE
