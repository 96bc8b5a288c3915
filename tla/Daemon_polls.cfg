SPECIFICATION FairSpec
CONSTANTS
  BackoffTicks = 4
  Weather = {"ok", "corrupt", "failing", "down"}
  NoBackoff = NoBackoff
INVARIANTS
  BackoffRespected
PROPERTIES
  ResumesAfterRepair
  RunOnceEnds
