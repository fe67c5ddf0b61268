SPECIFICATION Spec
CONSTANTS
  r1 = r1
  r2 = r2
  r3 = r3
  Requests <- TwoRequests
  Size = 2
  TimesOut = {"arriving", "ingesting", "refreshing", "opening", "marking"}
CHECK_DEADLOCK FALSE
INVARIANT EveryRunSettles
