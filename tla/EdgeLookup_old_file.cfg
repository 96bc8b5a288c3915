SPECIFICATION FairLookupSpec
CONSTANTS
  Docs = {1, 2, 3, 4}
  OldRows <- OldChain
  NewRows <- NewCycle
  BatchLimit = 2
  FlushEvery = 1
INVARIANTS
  TypeOK
  IndexTracksTable
  LookupsAgree
PROPERTIES
  LookupEnds
