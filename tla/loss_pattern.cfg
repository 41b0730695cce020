SPECIFICATION PatternSpec
CONSTANTS
  MaxSent = 12
CHECK_DEADLOCK FALSE
INVARIANTS
  BurstsAreStretches
  TenthsShareLosses
  TypeTells
