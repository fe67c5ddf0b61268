SPECIFICATION FairSpec
CONSTANTS
  r1 = r1
  r2 = r2
  r3 = r3
  Requests <- ThreeRequests
  Size = 4
  TimesOut = {"arriving", "ingesting", "refreshing", "opening", "marking"}
CHECK_DEADLOCK FALSE
INVARIANTS TypeOK SomebodyCanGo
PROPERTIES StrandedOnlyInACrowd EveryRequestEnds
