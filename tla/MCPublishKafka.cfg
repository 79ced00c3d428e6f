\* A Kafka client that hashes the key, on a topic with one partition per shard.
SPECIFICATION PublishSpec
CONSTANTS
  NumKeyGroups = 12
  MaxShards = 12
  m1 = m1
  m2 = m2
  m3 = m3
  Checksum <- Checksums
  KeyHash <- KeyHashes
  Count = 2
  MaxPublishErrors = 2
  Stages = 2
  MaxPerStage = 2
  MaxAnomalies = 1
  NoDelivery = NoDelivery
INVARIANT OwningShard
CHECK_DEADLOCK FALSE
