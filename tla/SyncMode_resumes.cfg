SPECIFICATION Spec
CONSTANTS
  Docs = {1, 2, 3, 4}
  Pairs <- Path
  SelfRows = {3}
  Filtered = {2}
  Databases <- Earlier
  WorkerCount = 2
  BatchSize = 2
  ChunkSize = 1
  ReportInterval = 2
  MaxFaults = 2
INVARIANTS
  TypeOK
  CheckpointNeverAhead
  CompletedSyncIsExact
PROPERTIES
  DemotedForParent
