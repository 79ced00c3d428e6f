------------------------------ MODULE Publish ------------------------------
(***************************************************************************)
(* The publishing side: a deployment assigns its key groups to shards,     *)
(* then one of the two programs that publish events runs:                  *)
(* cmd/event-producer for any number of shards, or cmd/bench, which uses   *)
(* shard 0 of a stream or topic of its own.                                *)
(***************************************************************************)
EXTENDS Producer, Bench

VARIABLE who \* the program that runs

allVars == <<vars, producerVars, benchVars, who>>

PublishInit ==
  /\ who \in {"producer", "bench"}
  /\ Init
  /\ ProducerInit
  /\ BenchInit
  /\ who = "bench" => numShards = 1 /\ partitions = 1 /\ mq = backend
  /\ who = "producer" => mq = backend /\ consuming

Deploy == Assign /\ UNCHANGED <<producerVars, benchVars, who>>

Deployed(program) == kg = NumKeyGroups /\ who = program

Produce ==
  /\ Deployed("producer")
  /\ ProducerNext
  /\ UNCHANGED <<vars, benchVars, who>>

Measure(Step) ==
  /\ Deployed("bench")
  /\ Step
  /\ UNCHANGED <<vars, producerVars, who>>

PublishNext == Deploy \/ Produce \/ Measure(BenchNext)

\* franz-go settles every record, by RecordDeliveryTimeout at the latest.
KafkaSettles == mq = "kafka" /\ \E e \in pending : Acknowledge(e) \/ CountError(e)

\* The bench's goroutine runs on, and so does the consumer's, from adding a
\* sample to counting it and back to its test of the context.  A JetStream ack
\* may never come, and nothing need be published, stored or delivered.
PublishSpec ==
  /\ PublishInit
  /\ [][PublishNext]_allVars
  /\ WF_allVars(Deploy)
  /\ WF_allVars(Measure(BenchMain))
  /\ WF_allVars(Measure(CountProcessed))
  /\ WF_allVars(Measure(step = "stop" /\ ConsumerReturns))
  /\ WF_allVars(Measure(KafkaSettles))

\* Whatever failed, timed out or never came, the benchmark ends: the flush and
\* the drain loop have limits, and the consumer it then waits for returns.
BenchRunEnds == who = "bench" ~> step = "done"
=============================================================================
