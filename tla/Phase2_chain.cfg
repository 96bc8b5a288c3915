SPECIFICATION FairSpec
CONSTANTS
  Docs = {1, 2, 3}
  Jaccard <- Chain
  Length <- ChainLength
  Threshold = 1
  SizeDiffPct = 10
  NoCap = NoCap
  MaxMatches = NoCap
  Workers = {w1, w2}
  Main = main
  FlushAt = 2
INVARIANTS
  TypeOK
  CheckpointCovers
  AdjacencyNeverDiverges
PROPERTIES
  SuccessIsComplete
  LedgerSpec
  RunEnds
