SPECIFICATION MCFairSpec
CONSTANTS
  Session = {s1}
  NoSession = NoSession
  IdleTimeout = 1
  MaxSessionTime = 3
  GatherTimeout = 1
  IceFailTime = 2
INVARIANTS
  ClosedForCause
PROPERTIES
  PeerEventuallyClosed
  LockReleased
  ImplementsRegistry
