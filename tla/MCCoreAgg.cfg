\* Window aggregation with late, out-of-order and redelivered events.
SPECIFICATION Spec
CONSTANTS
  m1 = m1
  m2 = m2
  Member = {m1}
  Behavior = {"trade"}
  Events <- AggEvents
  Patterns <- AggPatterns
  Rules <- AggRules
  Configs <- AggConfigs
  BucketSize = 2
  NoNum = NoNum
  NoWindow = NoWindow
  NoWait = NoWait
  NoTime = NoTime
  Lateness = 2
  DefaultMaxWindow = 8
  Redelivery = TRUE
  MaxEvents = 4
INVARIANT RulesExact AggregatesExact RedeliverySafe
CHECK_DEADLOCK FALSE
