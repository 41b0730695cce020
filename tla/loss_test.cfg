SPECIFICATION Spec
CONSTANTS
  N = 10
  MaxDrops = 2
  MaxFlight = 2
INVARIANTS
  LossIsReal
  ServerSawThem
  PatternWithinLoss
  CountingCloses
PROPERTIES
  SmallLossIsLoss
  TestReturns
CHECK_DEADLOCK FALSE
