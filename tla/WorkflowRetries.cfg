SPECIFICATION FairSpec
CONSTANTS
  w1 = w1
  w2 = w2
  t1 = t1
  t2 = t2
  b1 = b1
  b2 = b2
  Batches <- TwoBatches
  Workflows <- TwoWorkflows
  Attempts <- TwoAttempts
  Failing = {"validate", "checksum", "extract", "quality", "chunks", "embed", "index"}
  Slow = {"extract", "chunks", "embed", "index"}
  Overlap = FALSE
INVARIANTS TypeOK NoDuplicateChunks IndexedIsSettled
PROPERTIES VectorsStay ImplementsSearchable EveryWorkflowEnds
