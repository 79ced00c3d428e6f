------------------------------ MODULE Producer ------------------------------
(***************************************************************************)
(* cmd/event-producer with the two producers of the engine                 *)
(* (producer_nats.go, producer_kafka.go): one event of some member per     *)
(* tick, published synchronously, counted when the publish succeeds and    *)
(* dropped when it does not.                                               *)
(*                                                                         *)
(* A place is a shard's subject for NATS and a partition for Kafka; the    *)
(* process of shard s reads place s and no other.  The brokers and the     *)
(* Kafka client's choice of a partition are external: the client is built  *)
(* without a partitioner option, so it derives the partition from the      *)
(* record's key.                                                           *)
(***************************************************************************)
EXTENDS KeyGroup, Naturals

CONSTANTS Checksum,      \* [member -> CRC32 of its id]
          KeyHash,       \* [member -> the Kafka client's hash of the record key]
          Count,         \* COUNT; 0 runs until the process is cancelled
          MaxPublishErrors \* bound: publishes that fail

ASSUME CountAssumption == Count \in Nat /\ MaxPublishErrors \in Nat
ASSUME ChecksumAssumption == \A m \in DOMAIN Checksum : Checksum[m] \in Nat

VARIABLES backend,    \* BACKEND
          partitions, \* of the Kafka topic
          records,    \* what the broker has: [place, member]
          sent,       \* the loop's counter
          errors,     \* publishes that failed
          producing

producerVars == <<backend, partitions, records, sent, errors, producing>>

\* setupKafkaProducer creates the topic with NumShards partitions, but a topic
\* that exists already stays as it is.
TopicPartitions == {numShards, MaxShards}

ProducerInit ==
  /\ backend \in {"nats", "kafka"}
  /\ partitions \in TopicPartitions
  /\ records = {}
  /\ sent = 0
  /\ errors = 0
  /\ producing = TRUE

\* The bug of hashing a member to a shard without going through key groups.
NatsSubject_Direct(m) == Checksum[m] % numShards

\* The NATS producer's subject, by the shard it computes.
NatsSubject(m) == ShardOfMember(Checksum[m], numShards)

\* The partition of a record of the Kafka producer: Record.Partition is set to
\* the shard, and the client overrides it by the hash of Record.Key.
KafkaPartition(m) == KeyHash[m] % partitions

\* Where a published record is stored.
Place(m) == IF backend = "nats" THEN NatsSubject(m) ELSE KafkaPartition(m)

Store(m) == records' = records \cup {[place |-> Place(m), member |-> m]}

\* The loop's test, with sent already incremented.
Finished(n) == Count > 0 /\ n >= Count

\* One tick whose Publish succeeds.
PublishOk(m) ==
  /\ producing
  /\ Store(m)
  /\ sent' = sent + 1
  /\ producing' = ~Finished(sent')
  /\ UNCHANGED <<backend, partitions, errors>>

\* One tick whose Publish fails, before or after the broker stored the record:
\* logged, not counted, and the loop goes on with another event.
PublishFails(m) ==
  /\ producing
  /\ errors < MaxPublishErrors
  /\ errors' = errors + 1
  /\ Store(m) \/ UNCHANGED records
  /\ UNCHANGED <<backend, partitions, sent, producing>>

\* SIGINT or SIGTERM.
Cancelled ==
  /\ producing
  /\ producing' = FALSE
  /\ UNCHANGED <<backend, partitions, records, sent, errors>>

ProducerNext == Cancelled \/ \E m \in DOMAIN Checksum : PublishOk(m) \/ PublishFails(m)

-----------------------------------------------------------------------------
(* Properties. *)

\* A record lies where the shard that owns its member's key group reads.
WithOwner(r) == r.place \in DOMAIN assigned /\ KeyGroupOf(Checksum[r.member]) \in assigned[r.place]

\* Every record is where the shard reads to which the deployment assigned the
\* member's key group.
Routed == kg = NumKeyGroups => \A r \in records : WithOwner(r)

\* keygroup.go:3: "A member's events are processed by exactly one shard", and
\* producer_kafka.go: the partition is computed via ShardOfMember and
\* deterministic.  Not even on a topic with one partition per shard: the Kafka
\* client's partitioner decides otherwise.
OwningShard == partitions = numShards => Routed

\* What the NATS producer publishes does reach the owning shard: the subject
\* computed member by member agrees with the ranges dealt out to the shards.
NatsOwningShard == backend = "nats" => Routed
=============================================================================
