\* Crashes, shutdowns, failed and overtaken snapshots, malformed records.
SPECIFICATION FairSpec
CONSTANTS
  NoSnapshot = NoSnapshot
  Malformed = TRUE
  MaxLog = 4
  MaxStops = 3
INVARIANT StateMatchesPosition EffectsAtMostOnce
PROPERTY LiveEdge CatchesUp
CHECK_DEADLOCK FALSE
