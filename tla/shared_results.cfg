SPECIFICATION SharedSpec
CONSTANTS
  NaN = NaN
  Rtts <- MCRtts
  Transfers <- MCTransfers
  PacketTests <- MCPacketTests
  MaxSamples = 7
  MaxShared = 3
  Minutes <- MCMinutes
  Contexts <- MCContexts
CHECK_DEADLOCK FALSE
INVARIANTS
  PercentileIsNearestRank
  SpikeDoesNotCount
  GradesFollow
  LinkKeepsMeasurements
