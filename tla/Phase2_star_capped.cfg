SPECIFICATION Spec
CONSTANTS
  Docs = {1, 2, 3, 4}
  Jaccard <- Star
  Length <- StarLength
  Threshold = 1
  SizeDiffPct = 10
  NoCap = NoCap
  MaxMatches = 1
  Workers = {w1, w2}
  Main = main
  FlushAt = 2
INVARIANTS
  CheckpointCovers
PROPERTIES
  SuccessIsComplete
