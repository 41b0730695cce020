SPECIFICATION Spec
CONSTANTS
  Session = {s1}
  NoSession = NoSession
  IdleTimeout = 1
  MaxSessionTime = 3
  GatherTimeout = 1
  IceFailTime = 2
INVARIANT ShutdownClosesManager
