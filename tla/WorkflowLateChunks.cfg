SPECIFICATION Spec
CONSTANTS
  w1 = w1
  w2 = w2
  t1 = t1
  t2 = t2
  b1 = b1
  b2 = b2
  Batches <- TwoBatches
  Workflows <- OneWorkflow
  Attempts <- TwoAttempts
  Failing = {}
  Slow = {"chunks"}
  Overlap = FALSE
INVARIANT ChunksStoredOnce
