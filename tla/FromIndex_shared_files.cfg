SPECIFICATION Spec
CONSTANTS
  Docs = {1, 2, 3, 4}
  Bands = {1, 2, 3}
  Hashes = {3, 4, 5, 6}
  MinHashes <- Values
  BandHash <- HashOf
  Jaccard <- EqualValues
  Configs = {"seed 1", "seed 2"}
  None = None
  Signature <- Signatures
  Thresholds = {3, 4}
  Lost = Lost
  MinBands = 2
  ClusterMin = 3
  Overlap = 70
INVARIANTS
  TypeOK
  OneConfiguration
  BucketsExact
  ClustersAgree
  IndexOnlyRunIsExhaustive
CHECK_DEADLOCK FALSE
