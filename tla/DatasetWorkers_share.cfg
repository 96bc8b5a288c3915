SPECIFICATION FairSpec
CONSTANTS
  Workers = {w1, w2}
  Datasets = {"one", "two"}
  Docs = {1, 2}
  In <- Shared
  Weather <- Storms
  Nobody = Nobody
  Ghost = Ghost
  MaxTrouble = 1
INVARIANTS
  TypeOK
  RunsAlone
  NoLockLeaked
PROPERTIES
  WorkedOff
