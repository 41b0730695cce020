SPECIFICATION SharedSpec
CONSTANTS
  NaN = NaN
  Rtts <- MCRtts
  Transfers <- MCTransfers
  PacketTests <- MCPacketTests
  MaxSamples = 3
  MaxShared = 3
  Minutes <- MCMinutes
  Contexts <- MCContexts
CHECK_DEADLOCK FALSE
INVARIANTS
  SharedAsMeasured
