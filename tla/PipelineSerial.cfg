SPECIFICATION Spec
CONSTANTS
  d1 = d1
  d2 = d2
  m1 = m1
  f1 = f1
  f2 = f2
  a1 = a1
  a2 = a2
  Docs <- BothDocs
  Matters <- OneMatterOnly
  MatterOf <- InOneMatter
  Edited <- OneMatterOnly
  Pages <- SomePages
  Readable <- BothDocs
  Runs <- BothUploadsOneAnalyze
  FirstRun <- FirstRuns
  Faults = {"store", "ai", "db"}
  MaxCrashes = 1
  Overlap = FALSE
INVARIANT NoDuplicateChunks
INVARIANT ReadyIsComplete
PROPERTY ImplementsLifecycle
PROPERTY RenamedLateOnlyByAnother
