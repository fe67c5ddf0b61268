SPECIFICATION Spec
CONSTANTS
  d1 = d1
  d2 = d2
  m1 = m1
  f1 = f1
  f2 = f2
  a1 = a1
  a2 = a2
  Docs <- OneDoc
  Matters <- OneMatterOnly
  MatterOf <- InOneMatter
  Edited <- OneMatterOnly
  Pages <- SomePages
  Readable <- OneDoc
  Runs <- TwoRuns
  FirstRun <- FirstRuns
  Faults = {}
  MaxCrashes = 0
  Overlap = TRUE
INVARIANT NoDuplicateChunks
