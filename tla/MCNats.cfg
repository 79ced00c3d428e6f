\* Crashes, ack errors, failed snapshots, disconnects and ack timeouts.
SPECIFICATION FairSpec
CONSTANTS
  NoSnapshot = NoSnapshot
  Malformed = TRUE
  OtherShards = TRUE
  MaxAckPending = 2
  MaxStream = 3
  MaxStops = 2
  MaxLosses = 2
INVARIANT StateMatchesPosition EffectsAtMostOnce AppliedOrPending LiveEdge
PROPERTY CatchesUp
CHECK_DEADLOCK FALSE
