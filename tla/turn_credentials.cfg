SPECIFICATION Spec
CONSTANTS
  Limits = {60, 80}
  TTLs = {0, 1, 61}
  Steps = {20, 41}
  MaxNow = 122
  MaxBoots = 2
CHECK_DEADLOCK FALSE
INVARIANTS
  EmbeddedOffersAreServed
PROPERTIES
  AcceptedWhileTold
  LifetimeBounded
