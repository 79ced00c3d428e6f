\* Sequence detection: positive and negative patterns, two members, restarts.
SPECIFICATION Spec
CONSTANTS
  m1 = m1
  m2 = m2
  Member = {m1, m2}
  Behavior = {"a", "b", "c"}
  Events <- CepEvents
  Patterns <- CepPatterns
  Rules <- NoRules
  Configs <- CepConfigs
  BucketSize = 2
  NoNum = NoNum
  NoWindow = NoWindow
  NoWait = NoWait
  NoTime = NoTime
  Lateness = 1
  DefaultMaxWindow = 8
  Redelivery = FALSE
  MaxEvents = 4
INVARIANT ParkedIsQueued NobodyOverdue PositiveExact NegativeSound SilentMemberFires SideOutputOnce OnlyRegisteredMatch
PROPERTY ReplayExact
CHECK_DEADLOCK FALSE
