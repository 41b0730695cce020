SPECIFICATION Spec
CONSTANTS
  Session = {s1, s2}
  NoSession = NoSession
  IdleTimeout = 0
  MaxSessionTime = 1
  GatherTimeout = 0
  IceFailTime = 0
SYMMETRY Symmetry
INVARIANTS
  NoDoubleClose
  ListedIsOpen
  RemovedIsClosed
PROPERTIES
  ShutdownEmptiesMap
