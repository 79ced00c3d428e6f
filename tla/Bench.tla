------------------------------- MODULE Bench -------------------------------
(***************************************************************************)
(* cmd/bench in ladder mode: stages of asynchronous publishing, each       *)
(* followed by a flush and by a wait for the consumer to process what the  *)
(* stage sent, and at the end the wait for the consumer to return.  Four   *)
(* activities share state: the benchmark's goroutine, the client's         *)
(* callbacks that count failed publishes, the broker, and the consumer's   *)
(* goroutine that hands latencies to the collector.                        *)
(*                                                                         *)
(* An event is <<stage, n>>.  A delivery is <<event, k>>: k = 0 is the     *)
(* first, k > 0 the k-th redelivery of the run.  The collector's samples   *)
(* are deliveries, as each of them is measured.  The broker is external.   *)
(***************************************************************************)
EXTENDS Integers, Sequences, FiniteSets

CONSTANTS Stages,       \* RATES: number of stages of the ladder
          MaxPerStage,  \* bound: events of a stage
          MaxAnomalies, \* bound: redeliveries, records stored in spite of an error
          NoDelivery

ASSUME StagesAssumption == Stages \in Nat \ {0}
ASSUME MaxPerStageAssumption == MaxPerStage \in Nat
ASSUME MaxAnomaliesAssumption == MaxAnomalies \in Nat
ASSUME NoDeliveryAssumption == NoDelivery \notin (Nat \X Nat) \X Nat

VARIABLES mq,              \* BACKEND
          stage, step,     \* the stage and where main and runStage are in it
          produced,        \* events of the stage
          before,          \* pubErrsBefore and processedBefore
          okProduced,
          published,       \* history: every event handed to the client
          pending,         \* those without a callback so far
          failed,          \* those reported as failed (pub.errs counts them)
          stored,          \* those the broker has
          queue,           \* deliveries on their way to the consumer
          redelivered,     \* number of redeliveries
          consuming,       \* the consumer's Run has not returned
          durs,            \* collector.durs
          adding,          \* sample appended, processed not yet incremented
          processed,       \* collector.processed
          results          \* [foreign, missed, drained] of the stages so far

benchVars == <<mq, stage, step, produced, before, okProduced, published, pending, failed, stored,
               queue, redelivered, consuming, durs, adding, processed, results>>
stageVars == <<mq, stage, produced, before, okProduced, results>>
clientVars == <<published, pending, failed>>
brokerVars == <<stored, queue, redelivered>>
consumerVars == <<consuming, adding, processed>>

\* The consumer's set-up may fail, in which case Run has returned already.
BenchInit ==
  /\ mq \in {"nats", "kafka"}
  /\ stage = 1
  /\ step = "discard"
  /\ produced = 0
  /\ before = [errs |-> 0, processed |-> 0]
  /\ okProduced = 0
  /\ published = {}
  /\ pending = {}
  /\ failed = {}
  /\ stored = {}
  /\ queue = {}
  /\ redelivered = 0
  /\ consuming \in BOOLEAN
  /\ durs = {}
  /\ adding = NoDelivery
  /\ processed = 0
  /\ results = <<>>

-----------------------------------------------------------------------------
(* runStage and main. *)

DrainSegment == durs' = {}

\* What the tail of an earlier stage left is dropped.
Discard ==
  /\ step = "discard"
  /\ DrainSegment
  /\ step' = "counters"
  /\ UNCHANGED <<stageVars, clientVars, brokerVars, consumerVars>>

ReadCounters ==
  /\ step = "counters"
  /\ before' = [errs |-> Cardinality(failed), processed |-> processed]
  /\ produced' = 0
  /\ step' = "produce"
  /\ UNCHANGED <<mq, stage, okProduced, results, clientVars, brokerVars, consumerVars, durs>>

Publish ==
  /\ step = "produce"
  /\ produced < MaxPerStage
  /\ produced' = produced + 1
  /\ published' = published \cup {<<stage, produced'>>}
  /\ pending' = pending \cup {<<stage, produced'>>}
  /\ UNCHANGED <<mq, stage, step, before, okProduced, results, failed, brokerVars, consumerVars, durs>>

\* The stage's duration is over.
StopProducing ==
  /\ step = "produce"
  /\ step' = "flush"
  /\ UNCHANGED <<stageVars, clientVars, brokerVars, consumerVars, durs>>

\* The bug of a flush without the 30 seconds.
FlushReturns_Bug == pending = {}

\* The flush waits for every callback; that of setupNATS gives up after 30
\* seconds, because an ack may never come.
FlushReturns == pending = {} \/ mq = "nats"

Flush ==
  /\ step = "flush"
  /\ FlushReturns
  /\ okProduced' = produced - (Cardinality(failed) - before.errs)
  /\ step' = "drain"
  /\ UNCHANGED <<mq, stage, produced, before, results, clientVars, brokerVars, consumerVars, durs>>

\* What the drain loop tests: as many are counted as were acknowledged.
Caught == processed - before.processed >= okProduced

\* The test was false: the loop sleeps.
DrainSleep ==
  /\ step = "drain"
  /\ ~Caught
  /\ step' = "waiting"
  /\ UNCHANGED <<stageVars, clientVars, brokerVars, consumerVars, durs>>

\* The loop ends when its test is true, or, after a test that was not, with the
\* grace period.
WaitOver(drained) == IF drained THEN Caught ELSE step = "waiting"

\* The bug of a ladder that goes on after a stage that did not drain.
GoesOn_Bug(drained) == stage < Stages

\* main: the ladder stops after a stage that did not drain.
GoesOn(drained) == drained /\ stage < Stages

\* The samples that are not the first delivery of an event of this stage.
Foreign == {d \in durs : d[1][1] # stage \/ d[2] # 0}

\* The events of this stage that did not fail and are without a sample.
Missed == {e \in published \ failed : e[1] = stage /\ \A d \in durs : d[1] # e}

\* The segment is collected, and main goes on to the next stage, or stops the
\* consumer (also for a rate that fell short).
Collect(drained) ==
  /\ step \in {"drain", "waiting"}
  /\ WaitOver(drained)
  /\ results' = Append(results, [foreign |-> Cardinality(Foreign),
                                   missed  |-> Cardinality(Missed),
                                   drained |-> drained])
  /\ DrainSegment
  /\ \/ GoesOn(drained) /\ stage' = stage + 1 /\ step' = "discard"
     \/ step' = "stop" /\ UNCHANGED stage
  /\ UNCHANGED <<mq, produced, before, okProduced, clientVars, brokerVars, consumerVars>>

\* main receives from consumerDone and reports.
Report ==
  /\ step = "stop"
  /\ ~consuming
  /\ step' = "done"
  /\ UNCHANGED <<stageVars, clientVars, brokerVars, consumerVars, durs>>

BenchMain ==
  \/ Discard \/ ReadCounters \/ StopProducing \/ Flush \/ DrainSleep
  \/ Collect(TRUE) \/ Collect(FALSE)
  \/ Report

-----------------------------------------------------------------------------
(* The broker and the client's callbacks. *)

\* What the counters cannot tell apart: records that are stored although they
\* are counted as errors, and redeliveries.
Anomalies == Cardinality(stored \cap failed) + redelivered

\* The broker has a record, perhaps one whose publish was given up.
StoreRecord(e) ==
  /\ e \in published \ stored
  /\ e \in failed => Anomalies < MaxAnomalies
  /\ stored' = stored \cup {e}
  /\ queue' = queue \cup {<<e, 0>>}
  /\ UNCHANGED <<stageVars, step, clientVars, redelivered, consumerVars, durs>>

\* The callback of a record that is stored.
Acknowledge(e) ==
  /\ e \in pending \cap stored
  /\ pending' = pending \ {e}
  /\ UNCHANGED <<stageVars, step, published, failed, brokerVars, consumerVars, durs>>

\* The callback with an error, or an error of PublishAsync itself; the record
\* may be stored (a delivery timeout, a reconnection).
CountError(e) ==
  /\ e \in pending
  /\ e \in stored => Anomalies < MaxAnomalies
  /\ pending' = pending \ {e}
  /\ failed' = failed \cup {e}
  /\ UNCHANGED <<stageVars, step, published, brokerVars, consumerVars, durs>>

\* JetStream delivers again what has no ack when AckWait is over.  As any ack
\* may be lost on its way, that may be any record.
Redeliver(e) ==
  /\ mq = "nats"
  /\ consuming
  /\ Anomalies < MaxAnomalies
  /\ e \in stored
  /\ redelivered' = redelivered + 1
  /\ queue' = queue \cup {<<e, redelivered'>>}
  /\ UNCHANGED <<stageVars, step, clientVars, stored, consumerVars, durs>>

-----------------------------------------------------------------------------
(* The consumer's goroutine. *)

\* OnProcessed is collector.add: the sample, under the mutex, before any ack.
AddSample ==
  /\ consuming
  /\ adding = NoDelivery
  /\ \E d \in queue :
       /\ durs' = durs \cup {d}
       /\ adding' = d
       /\ queue' = queue \ {d}
  /\ UNCHANGED <<stageVars, step, clientVars, stored, redelivered, consuming, processed>>

\* The ack: sent, or (JetStream) an error, which ends Run.
Ack == UNCHANGED consuming \/ (mq = "nats" /\ consuming' = FALSE)

\* processed.Add(1), after the mutex was released, and the ack after it.
CountProcessed ==
  /\ adding # NoDelivery
  /\ processed' = processed + 1
  /\ adding' = NoDelivery
  /\ Ack
  /\ UNCHANGED <<stageVars, step, clientVars, stored, queue, redelivered, durs>>

\* Run returns: stopped by main, or (JetStream) by an error of the iterator.
ConsumerReturns ==
  /\ consuming
  /\ adding = NoDelivery
  /\ step = "stop" \/ mq = "nats"
  /\ consuming' = FALSE
  /\ UNCHANGED <<stageVars, step, clientVars, brokerVars, adding, processed, durs>>

BenchNext ==
  \/ BenchMain
  \/ Publish
  \/ \E e \in published : StoreRecord(e) \/ Acknowledge(e) \/ CountError(e) \/ Redeliver(e)
  \/ AddSample
  \/ CountProcessed
  \/ ConsumerReturns

-----------------------------------------------------------------------------
(* Properties. *)

\* A stage reports latencies of its own events, and when it says that it
\* drained it has all that did not fail, except for one sample, or one event,
\* per anomaly: the tail of one stage never spreads to the next ones, however
\* publishes, errors, late callbacks, deliveries and both halves of
\* collector.add interleave with runStage.
StageExact ==
  \A i \in DOMAIN results :
    /\ results[i].foreign <= Anomalies
    /\ results[i].drained => results[i].missed <= Anomalies
=============================================================================
