SPECIFICATION Spec
CONSTANTS
  Docs = {1, 2, 3}
  Pairs = {{1, 2}}
  Filtered = {}
  Cluster = {1, 2}
  ClusterMin = 2
  IndexBatch = 1
  BatchSize = 3
  MaxFaults = 0
  MaxManual = 0
  MaxResets = 0
  MaxCleanups = 0
INVARIANTS
  EdgesResolved
CHECK_DEADLOCK FALSE
