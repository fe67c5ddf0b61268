SPECIFICATION Spec
CONSTANTS
  d1 = d1
  p1 = p1
  p2 = p2
  q1 = q1
  q2 = q2
  v1 = v1
  v2 = v2
  v3 = v3
  Docs <- OneDoc
  Passages <- TwoPassages
  DocOf <- InOneDoc
  Requests <- TwoRequests
  Reviews <- ThreeReviews
  Verdicts = {"APPROVED", "REJECTED"}
  TopK = 1
  Kinds <- AskThenAnything
INVARIANTS TypeOK StayedReadyComesUp GroundedInReady RecordedWhole DisagreeOnlyByOverlap
SYMMETRY ReviewSymmetry
