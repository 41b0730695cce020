SPECIFICATION Spec
CONSTANTS
  Durations = {2, 6}
  MaxTests = 2
CHECK_DEADLOCK FALSE
INVARIANTS
  AllProbesMade
  LoadedUnderLoad
  EndedTestIsQuiet
