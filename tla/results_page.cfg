SPECIFICATION PageSpec
CONSTANTS
  MaxRuns = 2
  Units = 2
  MaxRetests = 2
INVARIANTS
  OneRunAtATime
  AppKnows
  LinkIsOfOneTest
  CardsShowSummary
PROPERTIES
  TestEnds
CHECK_DEADLOCK FALSE
