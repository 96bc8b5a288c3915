SPECIFICATION Spec
CONSTANTS
  Docs = {1, 2, 3}
  Pairs <- Path
  Filtered = {}
  Cluster = {}
  ClusterMin = 3
  IndexBatch = 1
  BatchSize = 3
  MaxFaults = 2
  MaxManual = 0
  MaxResets = 0
  MaxCleanups = 0
INVARIANTS
  ClusterKeepsParent
CHECK_DEADLOCK FALSE
