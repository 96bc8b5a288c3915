SPECIFICATION Spec
CONSTANTS
  Docs = {1, 2, 3}
  Pairs <- Everybody
  Filtered = {}
  Cluster = {1, 2, 3}
  ClusterMin = 3
  IndexBatch = 2
  BatchSize = 3
  MaxFaults = 0
  MaxManual = 0
  MaxResets = 0
  MaxCleanups = 1
INVARIANTS
  ThinnedClusterKeepsParent
CHECK_DEADLOCK FALSE
