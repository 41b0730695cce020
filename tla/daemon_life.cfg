SPECIFICATION DaemonSpec
CONSTANTS
  Requests = {r1, r2, r3, r4}
  HasGeoIP = TRUE
CHECK_DEADLOCK FALSE
INVARIANTS
  CutOnlyLate
PROPERTIES
  SignalStops
