# A verification project for rule-engine

TLA+ models of the in-memory rule engine (`service/engine/core`), of its rule
conditions and rule store (`service/base/rule`, `service/bff/apis`) and of the
programs around it (`cmd/`), model-checked with TLC. Every safety property of
the passing runs is also a theorem checked by TLAPS: the copy-on-write snapshot
and what it refines; the engine's replay, deadlines, aggregates, rules and
sequence detection; both consumers; the compiler of rules and the rule store;
routing and publishing.

## 1. The system

An event names a member, a behavior, a time and some fields. Producers route it
by member to one of a fixed number of shards. A shard is one process with all
its state in memory: it consumes its part of the log (a Kafka partition or a
JetStream subject), folds each event into the member's state, decides which
rules and patterns match, and checkpoints itself to a file from which it
resumes after a crash. Rules and patterns are read from PostgreSQL at startup.

| Component | State | Operations | Where it is hard | What makes it correct |
|---|---|---|---|---|
| Shard state (`state.go`, `snapshot.go`) | array of key group maps, members, versions, epoch, frozen epoch | `memberForWrite`, `beginSnapshot`, `endSnapshot`, `encode`, `Restore` | one goroutine writes what another one reads, without a lock | what a snapshot reaches is never written; a member is cloned only while shared |
| Snapshotter (`consumer.go`) | done channel, time of the last start, `path.tmp`, `path` | `tick`, `drain`, `finish`, the background goroutine | failure or crash between encode, write and rename; shutdown while in flight | the file is the whole state at one event boundary; a snapshot ends; shutdown ends |
| Aggregation (`aggregation.go`) | buckets per behavior: count, sum, max, min, ids seen | `updateAggregations`, `pruneExpiredBuckets`, `computeBucketAggregation` | late, out-of-order and repeated events; the pruning boundary | a window aggregate equals a recomputation from the events |
| Sequence detection (`cep.go`, `negative_queue.go`) | progresses of a member, heap of negative deadlines | `AddPattern`, `processCEP`, `advanceProgress`, `sweepExpiredProgresses`, `drainNegativeMatches`, `rebuildNegativeDeadlines` | several boundaries in event time meet; deadlines of silent members; a heap that is not persisted | positive matches exact; negative matches sound, at most once, and never forgotten |
| Event processing (`core.go`, `eval.go`, `watermark.go`) | watermark, replaying | `ProcessEvent`, `BeginReplay`, `EndReplay` | order of its steps on the late and the on-time path | as above, on the composition |
| Consumers (`consumer_kafka.go`, `consumer_nats.go`) | position, replay target, replaying | `Run`: restore, replay, consume, drop, checkpoint, drain | crashes, redelivery, lost acks, malformed records, a live edge shared with other shards | state and position agree; effects at most once; everything is consumed |
| Routing (`keygroup.go`) | none | `KeyGroupOf`, `ShardOf` | integer division at the boundaries | every member has an existing shard; ranges contiguous and balanced |
| Producers (`producer_*.go`, `cmd/event-producer`) | the loop's counter, the topic it finds | `Publish`, the loop | an error for a record that was stored; a client that chooses the partition itself, on a topic with other partitions | a member's events reach the shard that owns its key group |
| Rule conditions (`rule/usecase`, `rule/model`) | the compiled closure | `Evaluate`, `Compile`, the comparators, `CollectAggregateKeys` | two implementations of one language on mixed types | they agree; every aggregate read has been preloaded |
| Rule store (`strategy.go`, `validate.go`, repository) and its API (`controller/rule.go`, `rule_admin.go`) | rows, an in-process cache | `Create`, `Update`, `SetStatus`, `ListActiveCompiled`, `invalidateCache` | fills and changes overlap; a reply is lost after the commit; an accepted rule that does not compile | when the cache may be stale; the retention covers every window |
| Engine process (`cmd/rule-engine-core`) and pattern store | the rules and patterns it loaded | `main`: load, register, run | rules change while it loads; one bad rule stops every engine | nothing active is left out; it starts once what is active is sound |
| Benchmark (`cmd/bench`) | the collector, the count of failed publishes, the stages | `runStage`, the callbacks, `collector.add` | three goroutines and two counters; failures and timeouts of the client; redelivery of what was counted | a stage is off by no more than the broker's anomalies; the run ends |
| Wiring, configuration, logging, report and percentiles | none of interest | delegation | - | not modelled |

Interactions: `Run` calls `ProcessEvent` and `tick` on one goroutine; `tick`
starts the snapshot goroutine, which shares memory with it by copy-on-write and
answers on a buffered channel; a consumer and the broker exchange messages and
acks; successive processes of a shard communicate through the snapshot file
and the log; producers and consumers agree on the routing function only. The
control plane and the engines share the two PostgreSQL tables, which an engine
reads once, at startup.

## 2. The modules

* `AtomicSnapshot` is the abstract specification of checkpointing: per-member
  state, a position, at most one snapshot in flight that *is* the state at an
  event boundary, a file that receives it in one step or not at all, crash and
  restore.
* `CowState` is the code's checkpointing at the level of its pointers. The heap
  is two functions from addresses to objects (`kgHeap`, `msHeap`), `live` and
  `frozen` are pointer arrays, and an allocation may return any address that
  neither array reaches: reuse after garbage collection is part of the model.
  `MemberForWrite` is `memberForWrite` with the write that follows it.
  `ProcessEvent`, `DrainWrite` and `StoreLastSeq` are the steps of an event
  that touch memory (its own member, the members whose deadline fires, the
  position), `TickFinish`/`TickBegin` and `DrainFinal`/`DrainFail`/`DrainDone`
  are `tick` and `drain`, `EncodeMember`, `EncodeDone`, `WriteTmpStart`,
  `WriteTmpEnd`, `Rename` and `SnapshotFails` are the goroutine (the main
  goroutine itself for the final snapshot), and `Crash`, `StartEmpty` and
  `Restore` the process. A member's contents are the set of positions folded
  into it; `lastSeq` also stands for the watermark, which is captured by value
  in the same place.
* `Aggregation` and `Cep` define the pure parts as operators named after the
  functions of the code: buckets in, buckets out; progresses and an event in,
  progresses, heap entries and matches out. The heap is the set of its entries
  (the drain's result does not depend on the order of entries with different
  ids). A condition is a behavior plus an optional join with the one bound
  variable. Float sums are integers; AVG is kept as its numerator and
  denominator.
* `Core` composes both into `ProcessEvent` (a late and an on-time action), with
  the watermark, replay and restart. `hist` is a history variable with every
  event processed and what came out; the properties compare it with reference
  definitions (`Reference`, `RefChain`, `Forbidden`) written over the history
  alone. `Restart` is a crash: `Restore` puts members and watermark back to any
  earlier position (the snapshot is atomic, which is what `CowState` shows),
  rebuilds the heap, and the log is processed again from there, in replay until
  its end. `Reconfigure` is a stop and a start with other rules or patterns
  (`conf`), with the restored state meeting patterns that are gone, patterns
  that are new, and buckets pruned for another window. `base` is the position
  at which `conf` took effect; a crash goes back no further, because the stop
  wrote a snapshot there.
* `KafkaConsumer` and `NatsConsumer` model `Run` of each backend through
  crashes and restarts. `ProcessEvent` is deterministic, so the engine is the
  sequence of positions folded into it; the asynchronous snapshot is the
  abstract one of `AtomicSnapshot`. The broker's side is external and modelled
  from the configuration the code asks for: Kafka keeps an ordered log and
  resets a position past its end to its start; JetStream filters one shared
  stream by subject, delivers in order up to `MaxAckPending`, and delivers an
  unacknowledged message again, behind newer ones (`Redeliver`, `Disconnect`,
  `AckTimeout`).
* `KeyGroup` is the routing arithmetic, with a small machine that assigns the
  key groups to the shards of a deployment one after the other.
* `Producer` extends it with `cmd/event-producer` and both `Publish` functions.
  `PublishOk` and `PublishFails` are one tick of the loop each; a failed publish
  may have stored its record, and its event is dropped, never published again.
  `Place` is the subject or the partition: the NATS producer uses the shard it
  computes; the Kafka client is built without a partitioner option and takes the
  hash of the record's key (external), modulo the partitions of a topic that may
  be older than the deployment. The process of shard s reads place s only.
* `Bench` is `cmd/bench` in ladder mode, on either backend: `Discard` to `Collect`
  are the steps of `runStage`, `Report` is `main` after it received from
  `consumerDone`, `Acknowledge` and `CountError` are the client's callbacks. On
  the consumer's goroutine `AddSample` and `CountProcessed` are the two halves of
  `collector.add`, which runs before the ack; so JetStream may deliver anything
  again (`Redeliver`), and it is sampled and counted again. `ConsumerReturns` and
  `Ack` are the ways `Run` ends, an error of the iterator or of an ack
  included. An event is its stage and number, a delivery the event and the
  number of the redelivery, a latency sample the delivery it was measured on.
  Fixed mode is a ladder of one stage.
* `Publish` composes `KeyGroup`, `Producer` and `Bench`: a deployment assigns its
  key groups, then one of the two programs runs, `cmd/bench` with one shard on a stream or topic
  of its own. A step of one leaves the variables of the others alone.
* `RuleStore` is the control plane. `HandleCreate`, `HandleUpdate` and
  `HandleSetStatus` are the HTTP handlers with any request; the statement on the
  table and `InvalidateCache` are two steps, and the reply to the statement may
  be lost in between, in which case the code returns before it invalidates.
  `LoaderMiss`, `LoaderQuery` and `LoaderStore` are `ListActiveCompiled`;
  `EngineLaunch` to `EngineStops` are `main` of an engine, which has its own
  usecase and cache. Requests that are refused, updates without a field and the
  reads change nothing and are no actions. A rule tree is its conditions, and
  each of those what validation, compilation and retention look at.
* `RuleEval` has the interpreter and the compiler of rule trees side by side. A
  value is its dynamic type, its number and what `%v` prints, because equality
  of non-numbers is decided on the printed form. A closure is the function from
  contexts to results that it is in the code, with the aggregates it looks up;
  each walk of a tree is one operator for a node (`EvalNode`, `CompileNode`,
  `KeysNode`) and a recursive function that applies it from the leaves up.
* `MCCowState`, `MCCore`, `MCRuleEval`, `MCRuleStore` and `MCPublish` hold the
  instances for TLC.
* `CowStateProofs`, `CoreProofs`, `SequenceProofs`, `KafkaConsumerProofs`,
  `NatsConsumerProofs`, `RuleEvalProofs`, `RuleStoreProofs` and `PublishProofs`
  hold the theorems.

Definitions whose name ends in a suffix such as `_Bug` or `_Skip` are mutants:
plausible mistakes in the definition that follows them. Nothing refers to them;
each makes TLC refute one property when it takes the place of the original.

## 3. The runs

| Run | Bounds | Checks |
|---|---|---|
| `MCCowState` | 2 members in 1 key group, 2 maps, 4 member objects, 2 events, 2 snapshots per process | `TypeOK`, `FileIsACut`, `FrozenUntouched`, `CloneOnlyShared`, `ImplementsAtomicSnapshot`, `SnapshotEnds`, `ShutdownTerminates` |
| `MCCoreAgg` | 8 events in 4 buckets, lateness 2, 3 rules, 1 pattern, 4 deliveries, repeats allowed, crashes anywhere, one start with fewer or more rules | `RulesExact`, `AggregatesExact`, `RedeliverySafe` |
| `MCCoreCep` | 6 patterns, 9 events of 2 members, lateness 1, 4 deliveries, crashes back to any position, one start with fewer or more patterns | `ParkedIsQueued`, `NobodyOverdue`, `PositiveExact`, `NegativeSound`, `SilentMemberFires`, `SideOutputOnce`, `OnlyRegisteredMatch`, `ReplayExact` |
| `MCCoreNeg` | 1 pattern, 3 deliveries | `NegativeComplete`: violated |
| `MCKafka` | 4 records, 3 stops | `StateMatchesPosition`, `EffectsAtMostOnce`, `LiveEdge`, `CatchesUp` |
| `MCKafkaFirst` | 3 records, 2 stops | `NoGap`: violated |
| `MCNats` | 3 messages, 2 pending, 2 stops, 2 losses | `StateMatchesPosition`, `EffectsAtMostOnce`, `AppliedOrPending`, `LiveEdge`, `CatchesUp` |
| `MCNatsGap` | 3 messages, 1 stop, 2 losses | `FileHasNoGap`: violated |
| `MCPublish` | 12 key groups, every shard count; 3 members, 2 counted events, 2 publish errors; 2 stages of up to 2 events, 1 redelivery or record stored in spite of its error | `RoutedInRange`, `Contiguous`, `Balanced`, `NatsOwningShard`, `StageExact`, `BenchRunEnds` |
| `MCPublishKafka` | the same | `OwningShard`: violated |
| `MCRuleStore` | 2 handlers, 1 loader, 2 rules, 4 rule trees, 3 statements, 1 fault, 1 engine stop | `StaleOnlyByOverlap`, `NothingSkipped`, `WindowsCovered`, `StartsOnceSound` |
| `MCRuleEval` | all trees up to two conditions under AND, OR, NOT over a pool of fields, operators and values | `CompiledAgrees`, `AggregatesPreloaded` |

*Why the bounds are enough.* `MCCowState`: copy-on-write has three kinds of
object (shared, already cloned, new), and one shared map with two members, of
which a snapshot may hold both, one or none, gives every combination; two
snapshots per process let a version lie on either side of a freeze; two events
are one before and one during a snapshot, each of which may write both members;
four member objects are the two live and the two frozen ones. The theorems remove
these bounds. `MCCoreAgg`: the longest rule window plus the lateness spans the whole
bucket range, so pruning, late events and boundary times all occur.
`MCCoreCep`: four deliveries are a three-state pattern plus the event that
passes its deadline, and the times of the events lie before, on and after the
deadlines and window ends; one of the three negative patterns is due before its
longest window is over, so its member's own event may find it due or swept. A crash may happen after any of them, and again
during replay. `MCRuleStore`: two changes that overlap, a cache fill around
either, and a third change to repair what the first broke. `MCPublish`: the tail
of a stage meets the stage after it, one event fails next to one that does not,
and one anomaly makes the bound of `StageExact` differ from none; two members
share a key group and the third is in another. The consumers: a snapshot, the crash after it, and a
second crash during replay. TLC stops when the bound on events, records or
stops is used up, so deadlock is not checked in these runs; that a shutdown
never hangs is `ShutdownTerminates`.

`MCCowState` compares states after dropping unreachable objects (`VIEW
Collected`): no action reads an unreachable object, no property of a behavior
speaks of one, and every step changes what the view keeps, so that two states it
identifies have the same futures, fair ones included.

*Fairness.* `CowState`: weak fairness of the snapshot goroutine (the Go
scheduler runs it and its I/O returns), of finishing an event, and of `drain`
once begun; nothing makes an event, a tick or a shutdown happen. The
consumers: weak fairness of starting (a supervisor restarts the process), of
the poll loop, and, for JetStream, of delivery and redelivery; stops and losses
are finitely many. Nothing is assumed of snapshots. `RuleStore`: weak fairness
of launching the engine (a supervisor) and of its two loads; no request, fill,
fault or stop is assumed to happen. `Bench`: weak fairness of the benchmark's
own goroutine, and of the consumer's from a sample to its count and, once main
has cancelled it, to its return. Of the client only that kgo settles every record
(`KafkaSettles`: `setupKafka` gives it a `RecordDeliveryTimeout`, and `Flush` there
has no limit of its own). Nothing is assumed of JetStream: an ack may never come,
and then only the 30 seconds of the flush end the stage. Neither publishing nor
storing nor delivery is assumed to make progress.

### What the violated properties show

* `NegativeComplete`. A negative state promises "otherwise emit a match when
  the deadline passes" (`cep/model/entity.go`). `processCEP` sweeps first:
  `sweepExpiredProgresses` deletes a parked progress as soon as the watermark
  is past the longest MaxWait since its start, which for a negative state with
  that MaxWait is the instant its deadline becomes due. When the event that
  moves the watermark is the member's own, the drain finds nothing and the
  match is lost. `SilentMemberFires` says exactly when: an instance that nothing
  aborts matches at the first position past its deadline, or, when the event there
  makes the sweep take it (`Sweeps`), never. So a member who stays silent keeps the
  promise, and so does a pattern with a MaxWait longer than that of its negative
  state until the watermark is past that one too.
* `NoGap`. Kafka offsets start at 0, and so does `lastSeq`. A snapshot taken
  before the first record is read back as "offset 0 was processed".
  `StateMatchesPosition` shows that offset 0 is the only record this can skip.
* `FileHasNoGap`. The NATS consumer stores the sequence of whatever message it
  handled last. After a lost delivery the newer message is handled first; a
  checkpoint at that moment is resumed past the missing one.
  `AppliedOrPending` shows that within one process nothing is forgotten, and
  `StateMatchesPosition` that without a loss the file is exact.

* `OwningShard`. "A member's events are processed by exactly one shard"
  (`keygroup.go`), and "Partition is computed via `ShardOfMember`"
  (`producer_kafka.go`). The Kafka producer does set `Record.Partition` to the
  shard, but franz-go looks at it only with a manual partitioner, and
  `cmd/event-producer` builds its client without one. A record goes to the partition
  its key hashes to, and the engine of another shard consumes it; two members of a
  key group are spread over shards. One partition per shard is enough for that; on
  a topic with more partitions than shards nobody may read the record at all.
  `NatsOwningShard` shows that the NATS producer keeps the promise.

### Preconditions worth knowing

Several passing properties hold only with a restriction that comes from the code:

* `RulesExact` and `AggregatesExact` speak of windows of at most the shortest
  retention any process of the shard has had (`Kept`: the longest rule window of
  its rule set), minus the allowed lateness: a rule added with a longer window
  than all before starts on buckets that were already pruned, and pruning uses
  the time of the event at hand, so an older on-time event may miss the far end
  of the longest window, and what is kept depends on the order of arrival.
* `PositiveExact` speaks of patterns whose later states all have a MaxWait: the
  sweep also removes a progress that waits, without a limit, on a last state
  once the earlier limits are over. It orders events by processing, not by event
  time: within the allowed lateness a pattern may complete with an event older
  than the one that started it.
* The pattern properties of `MCCoreCep` speak of events delivered once to a
  state that has not seen them. When a consumer delivers an event again, a
  progress id protects against a repeated start event only while the progress
  is in flight; `RedeliverySafe` says what remains: no event serves two states
  of an instance, and a start event matches at most once per delivery.
* `PositiveExact`, `NegativeSound` and `SilentMemberFires` speak of a pattern
  from the event at which it has been registered without interruption
  (`Since`). A pattern redefined under the same id is not modelled.
* `StaleOnlyByOverlap` names what may leave a stale rule set in the cache: a
  change between the query and the store of a fill, and a change whose reply
  was lost. Today's programs never meet the first: `cmd/apis` changes rules and
  never reads the cache, an engine fills it once and changes nothing.
* `StartsOnceSound` is about the recovery, because validation accepts what
  `Compile` refuses (an unknown operator or node type): one such active rule
  keeps every engine from starting until it is corrected.
* `OwningShard` and `NatsOwningShard` speak of a deployment all of whose key groups
  have been assigned, with the shard count the producer was given. A producer
  that runs with another count than the engines is not modelled.
* `StageExact` allows one foreign sample, or one missing event of a stage that says
  it drained, per anomaly, that is, per redelivery and per record stored although
  its publish counted as an error. The comment in `main.go` ("wait until the
  consumer has processed everything this stage sent") is true only without
  anomalies: the drain loop compares two counts, and what was counted twice, or
  counted although it was not waited for, stands in for what is missing. On the
  other hand no order of callbacks, samples and reads costs anything else.
* All properties on decisions speak of on-time events. One event far in the
  future makes every later event of the shard late until time catches up; the
  code puts no bound on `OccurredAt`.
* `LiveEdge` says for Kafka that every record up to the replay target is silent and
  every one past it takes effect, except past a target that is malformed: then the
  first good record after it is silent. For NATS it says that at most one message
  past the target is silent, which the shared stream makes possible (its last
  message may be another shard's); of messages up to the target it says nothing,
  as a redelivered one may come after the end of replay.
* In `Core` the end of replay is the end of the log (`EndReplay`). Where the
  consumers put it, a target read at startup, is `KafkaConsumer` and `NatsConsumer`;
  `SideOutputOnce` alone would not notice a replay that ends at another record.
* `EffectsAtMostOnce` has no counterpart "at least once": records that arrived
  while the process was down are replayed silently.

## 4. The proofs

None of the properties below is inductive: each theorem rests on a
strengthening, proved to hold initially and to be kept by every action, one
lemma per action or group of actions. What each strengthening adds, and why,
is said per module. The assumptions on the constants are the named ones
of the modules; TLC evaluates them on every instance.

### The snapshot (`CowStateProofs`)

Any members, key groups, hash and addresses, any bounds. Assumed: the hash maps
members to key groups, and the markers for nil, no image and a torn file are
not ordinary values.

| Theorem | Statement |
|---|---|
| `TypeCorrect` | `Spec => []TypeOK` |
| `Invariant` | `Spec => []Inv` |
| `FileAlwaysACut` | `Spec => []FileIsACut` |
| `FrozenNeverWritten` | `Spec => FrozenUntouched` |
| `OnlySharedIsCloned` | `Spec => CloneOnlyShared` |
| `Refinement` | `Spec => ImplementsAtomicSnapshot` |

`FrozenUntouched` needs to know which objects the frozen view reaches, and the
code only knows a number, the version. The strengthening `Inv` relates the two:

* `FrozenVersions`: while a snapshot is being encoded, every map and member the
  frozen view reaches has a version below `frozenEpoch`. So an object that
  `memberForWrite` writes in place (version not below it) is not reached, and
  one that it allocates is not reached because allocation returns addresses
  nothing reaches.
* `LiveVersions`: everything live has a version up to `epoch`, which is what
  makes `FrozenVersions` true at the instant of a freeze, as `freezeState` bumps
  the epoch first. `FrozenVersions` also says the converse for members, which
  gives `CloneOnlyShared`: a live member older than the freeze is still one the
  frozen view reaches.
* `ContentInv`: no position lies beyond the horizon of its place: `lastSeq`
  for a state at rest, one more inside an event, the captured position for the
  frozen view and the image, and the file's own position for the file.
* `ViewInv`: no two members share an object, and what has been encoded of a
  member is what the frozen view holds.
* `SnapshotInv` and `TmpComplete`: the encoder runs only on a frozen view, the
  freeze is the newest epoch, a dead process has nothing, and the file about to
  be renamed is complete.

The lemma on `MemberForWrite` (which addresses change, and to what) is used by
every theorem; the refinement is one step per action, mapping each to a step
of `AtomicSnapshot` or a stutter.

### The engine (`CoreProofs`)

Any events, patterns, rules, configurations, lateness and length of the run.
Assumed: patterns pass the checks of `AddPattern`, times are integers, the
lateness is not negative, a numeric field is an integer or missing, the rules are
finitely many, and an id stays with its event (the identity contract of
`behavior/model/entity.go`; `cmd/event-producer` gives every event an id of its own
and publishes it once).

| Theorem | Statement |
|---|---|
| `Invariant` | `Spec => []IInv` |
| `ReplayAlwaysExact` | `Spec => ReplayExact`, from `AtPosition`: members and watermark are those recorded for the position, also after a crash, a restore and a replay |
| `AlwaysParkedIsQueued` | `Spec => []ParkedIsQueued` |
| `NeverOverdue` | `Spec => []NobodyOverdue` |
| `SideOutputAlwaysOnce` | `Spec => []SideOutputOnce` |
| `OnlyRegisteredEverMatch` | `Spec => []OnlyRegisteredMatch` |
| `AlwaysLogged` | `Spec => []Logged(hist)`: every entry of the history is what `ProcessEvent` makes of its event on the entry before |
| `AlwaysAggregatesExact` | `Spec => []AggregatesExact` |
| `AlwaysRulesExact` | `Spec => []RulesExact` |

The heap of negative deadlines is not in a snapshot: `Restore` rebuilds it from
the members, while a running engine's heap also holds entries of progresses
that are long gone. Replay would differ from the first run if such an entry
could do anything. `DrainedByProgresses` and `DrainIgnoresStale` show that it
cannot: as long as every parked progress is queued (`HeapComplete`), what a
drain removes, advances and emits is a function of the progresses alone. So
`ProcessEvent` as a whole is a function `Outcome` of the event and of what a
snapshot holds. `IInv` then says that every entry of the history is
that outcome applied to the state recorded before it (`Explained`), that the
state at hand is the one recorded for its position (`AtPosition`,
`Positions`), and that every recorded state is one in which no deadline is
overdue (`RecordsSettled`, from `DrainSettles`). `SinkBehind` bounds what the
sink has been given by the furthest position reached, so that an output of a
replayed event is one that was given before or was never due.

`Explained` speaks of the newest entry only. `Logged` says the same of all of
them, and the exactness theorems start from it: they are statements about a
history of outcomes, whatever crashes and replays produced it, proved position by
position (`NumbersFromZero`: a set of numbers that contains 0 and every successor
contains them all).

*Aggregates.* An aggregate is exact although buckets are pruned by the time of
whatever event is at hand, events come late and out of order, and an event may be
given again:

* `BucketsExact`: a bucket that no pruning so far could have reached (`Retained`)
  holds exactly the events given for it, each once. The ids a bucket keeps make
  a repeated event a no-op (one id, one event), and pruning stays below `Retained`.
* `WatermarkCovers`: on an event on time, no earlier event of the shard was ahead
  of it by more than the lateness, so no pruning was ahead by more either.
* `WindowRetained`: hence each bucket of a window that, with the lateness, fits
  the shortest retention so far (`Kept`) is retained. This is where the
  restriction in the two properties is needed.
* `ComputeExact`: the buckets of a window part its events, and the count, the sum
  and the extrema of the parts are those of the whole. The sums fold over sets;
  they are taken apart element by element (`SubsetsFromEmpty`: a family of
  subsets of a finite set that contains the empty one and, with a subset, every
  one larger by an element, contains the whole).

`RulesExact` adds that `evaluateRules` compares this value with the threshold of
every rule of the process and of no other.

### Sequence detection (`SequenceProofs`)

| Theorem | Statement |
|---|---|
| `AlwaysRedeliverySafe` | `Spec => []RedeliverySafe`, for any number of deliveries of any event, in any order, with crashes anywhere |
| `AlwaysPositiveExact` | `Spec => []PositiveExact`, without redelivery |
| `AlwaysNegativeSound` | `Spec => []NegativeSound`, without redelivery |
| `AlwaysSilentMemberFires` | `Spec => []SilentMemberFires`, without redelivery |

*Events delivered again.* `RedeliverySafe` counts matches
per delivery and says that no event serves two states of one instance; the code
ensures it by the id of a progress and by its list of event ids, both of which
are gone once the progress is. The strengthening `Served` speaks of every
position of the history:

* `Behind`: a progress in flight has been served by as many different
  events, all on time and of its member, as it has taken steps, and all of them
  since its start was first given.
* `Counted`: the matches that began with an event, plus one if a progress that
  began with it is in flight, are at most the on-time deliveries of that event.
  A match alone would not be inductive: it is the progress in flight that turns
  into the next match without another delivery of its start.
* `Rested`: every match rests on a set of enough different events, its start
  among them, that its member was given since its start.

All three are about the history alone, which only grows and which a crash and a
replay leave as it was: `Explained` gives its newest entry as an `Outcome`,
and the lemma `EffectServed` says what such an outcome adds to each of the counts.

*Exactness.* The other three properties are about runs in which no event is given
twice (`Redelivery` is false; with it a start event may match once per delivery, as
section 3 says): no event has two positions in the history then (`OncePerEvent`).
They compare the engine with `RefChain`, which finds the positions of an instance by
looking at the whole history at once, whereas the engine goes through it event by
event, with a progress it may sweep. What ties the two together is `Follows`, which
says of an instance where the engine has to be after the first n positions:

* it holds the progress that the reference instance had after its last state up
  to n, has not matched, and nothing up to n has ended the wait for the next state
  (`InStep`); or it holds none, and
* the instance is lost (`Lost`): the reference never reaches a state, a forbidden
  event came, or the sweep took the progress; or
* it matched at the position where the reference reaches its last state
  (`Completed`); or
* it matched at the first position past its deadline, where the sweep did not
  take it, with no forbidden event up to there (`ElapsedAt`).

`PositionEffect` says what one position does to an instance: nothing if the event is
another member's or late, apart from the drain, and else one step of
`advanceProgress` between the sweep and the drain. `ReferenceStep` says where the
reference goes from the same position, so `Follows` goes from n to n + 1
(`FollowsWaiting`), beginning with the start event. `ChainExists` shows
that the recursion of `RefChain` has a solution at all. At the end of the history each
property is read off `Follows`. The event at which the sweep takes a progress is on
time, so not older than the watermark (`WatermarkGrows`), so past the window of the
next state itself: the reference does not reach that state either. That is why the
sweep never costs a positive match. For a negative pattern it may, which is
`NegativeComplete`: the only sweep that finds an instance past its deadline and not
yet drained is the one at the first position past it, and `SilentMemberFires` says
that it costs the match there and nowhere else. Together with `NegativeSound` this
settles the matches of every instance of a negative pattern.

### The consumers (`KafkaConsumerProofs`, `NatsConsumerProofs`)

Any length of the log or stream, any bounds on stops and losses.

| Module | Theorem | Statement |
|---|---|---|
| Kafka | `Invariant` | `Spec => []IInv` |
| | `StateAlwaysMatchesPosition` | `Spec => []StateMatchesPosition` |
| | `EffectsAlwaysAtMostOnce` | `Spec => []EffectsAtMostOnce` |
| | `AlwaysLiveEdge` | `Spec => LiveEdge` |
| NATS | `Invariant` | `Spec => []IInv` |
| | `AlwaysAppliedOrPending` | `Spec => []AppliedOrPending` |
| | `StateAlwaysMatchesPosition` | `Spec => []StateMatchesPosition` |
| | `EffectsAlwaysAtMostOnce` | `Spec => []EffectsAtMostOnce` |
| | `AlwaysLiveEdge` | `Spec => []LiveEdge` |

*Kafka.* The properties speak of the process and of the file; the snapshot in
flight is in between, so `SnapshotsExact` says the same of it. `Position` ties the
client's position to `lastSeq`: nothing but malformed records lies between
them, and the exactness of a state leaves out offset 0, which `NoGap` is about.
Effects happen once because whatever was emitted lies within the replay of the
process at hand, or behind its position (`EffectsBehind`). A process in replay
has not polled a good record at or past its target, and one that does not replay is
past it (`ReplayEdge`), which is `LiveEdge` for the next record.

*NATS.* Without an order of delivery there are two arguments. What holds
always: a good message of the shard between the consumer's start and the next
delivery is applied or unacknowledged (`Pending`), and nothing refers to a message
that is not in the stream (`Bounded`). What holds until the first loss,
`losses = 0 => Lossless`: what is unacknowledged is what is on its way, in
order, and all the shard owns between `lastSeq` and the next delivery
(`InOrder`). So what was applied is everything of the shard up to `lastSeq`, in
the process, the snapshot in flight and the file, and what was emitted is an
increasing sequence behind it.

### The rule store (`RuleStoreProofs`)

Any rules, trees, handlers and loaders, any number of statements, faults and stops.
Assumed: a window, in minutes, fits a `time.Duration`, and the rows of the
migration are ones the handlers would accept.

| Theorem | Statement |
|---|---|
| `Invariant` | `Spec => []IInv` |
| `AlwaysStaleOnlyByOverlap` | `Spec => []StaleOnlyByOverlap` |
| `AlwaysNothingSkipped` | `Spec => []NothingSkipped` |
| `AlwaysWindowsCovered` | `Spec => []WindowsCovered` |

`FillVersions` says of a fill in progress that the set it carries is the current
one if no statement came after its query, `CacheVersions` that no statement came
after a set was stored, unless a handler is still to invalidate it or a reply was lost. `EngineLoaded` says what an engine that got past
its load holds: every active rule of the table it read, compiled, and the
longest of their windows. That `Compile` reaches every window that retention
counts is the lemma `CompiledSet`, `MaxOfBounded` gives the maximum.

### Rule conditions (`RuleEvalProofs`)

| Theorem | Statement |
|---|---|
| `AlwaysCompiledAgrees` | `Spec => []CompiledAgrees` |
| `AlwaysAggregatesPreloaded` | `Spec => []AggregatesPreloaded` |

Any set of trees that contains their subtrees, of any depth and number of children,
any operators, values and contexts. Assumed: nesting ends, that is, each tree has a
depth and its children a smaller one, as a tree read from JSON has. So a set that
contains a tree whenever it contains its children contains every tree
(`TreeInduction`). By it, the three recursive functions have values
(`WalkExists`), and a closure agrees with its tree: for a condition because the
comparator chosen from the operator alone answers what `evalCondition` decides
on the values (`ComparatorAgrees`) and because the window it drops is one that
`Resolve` ignores (`WindowKept`), for an inner node because both stop at the same
child. `EveryTreeAgrees` holds of trees, without the state machine.

### Routing and publishing (`PublishProofs`)

| Theorem | Statement |
|---|---|
| `MemberRouted` | every checksum has an existing shard |
| `AlwaysRouted`, `AlwaysContiguous` | `Spec => []RoutedInRange`, `Spec => []Contiguous` |
| `AlwaysBalanced` | `Spec => []Balanced` |
| `NatsAlwaysOwningShard` | `PublishSpec => []NatsOwningShard` |
| `StageAlwaysExact` | `PublishSpec => []StageExact` |

Any number of key groups and any shard count up to it. Ranges and balance
follow from the monotonicity of the rounded-down quotient: a shard owns the groups
from one rounded-up quotient to the next, and two such differences differ by one at
most. The publishing theorems are about the composition; `DeployProjects` shows
that the deployment in it is still the one of `KeyGroup`. The producer's invariant
(`Placed`) ties a stored record to the place of its member, and the deployment's to
the ranges dealt out, so the shard computed for one member is the one whose range
has its key group.

`StageExact` compares two counts with two sets. `BenchInv` relates them:

* `Settled`, `Numbered`: what was published is outstanding, stored or failed, and
  belongs to the stages so far.
* `Counted`: every delivery is on its way, or sampled and about to be counted, or
  counted, and there are as many as records stored and redeliveries.
* `Credited`: a stage begins only after the count made up for all that was published,
  failures apart. From the two, what is missing is bounded by the anomalies
  (`LittleIsLeft`, `FewAreMissed`: cardinalities of finite sets, taken apart).
* `Sampled`: a stored event of the stage is on its way to the collector, or there.
* `Tailed`: deliveries and samples of earlier stages, redeliveries, and events of
  earlier stages that may yet be stored, are together no more than the anomalies.
  This is what a segment may hold that is not its stage's own.
* `Reported`: the rows written so far keep their bounds as anomalies grow.

### What is only model-checked

* Liveness (`SnapshotEnds`, `ShutdownTerminates`, `CatchesUp`, `StartsOnceSound`,
  `BenchRunEnds`): liveness under fairness is out of the provers' reach, and so is
  ENABLED.
* The four violated properties: the runs hold their counterexamples.

## 5. Not modelled

* Router, dependency wiring, configuration, logging, database handle: plumbing
  without state of their own. The API's reads (`Get`, `List`) change nothing;
  `Get`'s 404 is never reached, because the repository answers a missing row
  with an error.
* Of `cmd/bench`: the percentiles of `stats.go`, target rates, profiling and the
  report. Its loading of rules is that of the engine.
* JSON in the repositories: what is stored is what is read back.
* Retention in the brokers, which would remove records a restart still needs.
* franz-go's partitioner: its result is any function of the key.
* gob's encoding of values: the encoder succeeds or fails.

## 6. What is next

Every safety property of a passing run is proved. What would add to the project:

* Exactness under redelivery. `RedeliverySafe` bounds the matches of a start event by
  its deliveries; an exact count would need a reference in which an instance is a
  delivery of its start, and `Follows` for each of them.
* The engine and the consumers in one module. `ReplayExact` and
  `StateMatchesPosition` meet at the position, informally: the consumers treat the
  engine as the sequence folded into it.
