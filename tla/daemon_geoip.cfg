SPECIFICATION DaemonSpec
CONSTANTS
  Requests = {r1}
  HasGeoIP = TRUE
CHECK_DEADLOCK FALSE
INVARIANTS
  AnsweredInFull
