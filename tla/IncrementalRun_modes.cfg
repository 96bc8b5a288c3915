SPECIFICATION Spec
CONSTANTS
  Docs = {1, 2, 3, 4}
  Pairs <- Everybody
  Filtered = {4}
  Cluster = {1, 2, 3}
  ClusterMin = 3
  IndexBatch = 2
  BatchSize = 2
  MaxFaults = 1
  MaxManual = 2
  MaxResets = 1
  MaxCleanups = 1
INVARIANTS
  OneCanonicalParent
  SettledPairsRecorded
  RetryRestoresParent
PROPERTIES
  NoClusterDemoted
CHECK_DEADLOCK FALSE
