\* A member's own event carries the watermark past its negative deadline.
SPECIFICATION Spec
CONSTANTS
  m1 = m1
  m2 = m2
  Member = {m1, m2}
  Behavior = {"a", "b", "c"}
  Events <- CepEvents
  Patterns <- ANotC
  Rules <- NoRules
  Configs <- Whole
  BucketSize = 2
  NoNum = NoNum
  NoWindow = NoWindow
  NoWait = NoWait
  NoTime = NoTime
  Lateness = 1
  DefaultMaxWindow = 8
  Redelivery = FALSE
  MaxEvents = 3
INVARIANT NegativeComplete
CHECK_DEADLOCK FALSE
