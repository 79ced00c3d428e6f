\* A lost delivery that a checkpoint overtakes.
SPECIFICATION Spec
CONSTANTS
  NoSnapshot = NoSnapshot
  Malformed = FALSE
  OtherShards = FALSE
  MaxAckPending = 2
  MaxStream = 3
  MaxStops = 1
  MaxLosses = 2
INVARIANT FileHasNoGap
CHECK_DEADLOCK FALSE
