\* A clean shutdown before the first record.
SPECIFICATION Spec
CONSTANTS
  NoSnapshot = NoSnapshot
  Malformed = FALSE
  MaxLog = 3
  MaxStops = 2
INVARIANT NoGap
CHECK_DEADLOCK FALSE
