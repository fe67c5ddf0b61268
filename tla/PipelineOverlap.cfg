SPECIFICATION FairSpec
CONSTANTS
  d1 = d1
  d2 = d2
  m1 = m1
  f1 = f1
  f2 = f2
  a1 = a1
  a2 = a2
  Docs <- OneDoc
  Matters <- OneMatterOnly
  MatterOf <- InOneMatter
  Edited = {}
  Pages <- SomePages
  Readable <- OneDoc
  Runs <- ThreeRuns
  FirstRun <- FirstRuns
  Faults = {"store", "ai", "db"}
  MaxCrashes = 1
  Overlap = TRUE
INVARIANT TypeOK
INVARIANT ReadyIsSearchable
INVARIANT RowHasObject
INVARIANT StrandedOnlyByCutOff
INVARIANT ReanalysisLeavesTitle
PROPERTY ImplementsSearchable
PROPERTY Settles
CHECK_DEADLOCK FALSE
