\* Every shard count up to 12 over 12 key groups; two counted events of three
\* members with two publish errors; two stages of up to two events, with one
\* redelivery or one record stored in spite of an error.
SPECIFICATION PublishSpec
CONSTANTS
  NumKeyGroups = 12
  MaxShards = 12
  m1 = m1
  m2 = m2
  m3 = m3
  Checksum <- Checksums
  KeyHash <- KeyHashes
  Count = 2
  MaxPublishErrors = 2
  Stages = 2
  MaxPerStage = 2
  MaxAnomalies = 1
  NoDelivery = NoDelivery
INVARIANT RoutedInRange Contiguous Balanced NatsOwningShard StageExact
PROPERTY BenchRunEnds
CHECK_DEADLOCK FALSE
