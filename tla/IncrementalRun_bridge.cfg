SPECIFICATION FairSpec
CONSTANTS
  Docs = {1, 2, 3, 4}
  Pairs <- Bridge
  Filtered = {}
  Cluster = {}
  ClusterMin = 3
  IndexBatch = 1
  BatchSize = 1
  MaxFaults = 2
  MaxManual = 0
  MaxResets = 0
  MaxCleanups = 0
INVARIANTS
  TypeOK
  OneCanonicalParent
  SettledPairsRecorded
  ChildHasRow
  RetryRestoresParent
PROPERTIES
  NoClusterDemoted
  EveryDocumentSettled
CHECK_DEADLOCK FALSE
