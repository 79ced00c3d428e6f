---------------------------- MODULE NatsConsumer ----------------------------
(***************************************************************************)
(* NATSConsumer.Run (consumer_nats.go): the lifecycle of KafkaConsumer     *)
(* over a JetStream stream that all shards share.  An ephemeral consumer   *)
(* filters this shard's subject from the checkpointed sequence on,         *)
(* delivers in order, and delivers again what was not acknowledged: after  *)
(* a disconnect that lost messages on the way, or after a lost ack, the    *)
(* second delivery comes behind newer messages.                            *)
(*                                                                         *)
(* As in KafkaConsumer the engine's state is the sequence of positions     *)
(* folded into it and the snapshot is the atomic one of CowState.          *)
(***************************************************************************)
EXTENDS Integers, Sequences, FiniteSetsExt

CONSTANTS NoSnapshot,    \* no snapshot file, or none in flight
          Malformed,     \* may a message fail decodeEvent?
          OtherShards,   \* do other shards publish to the stream?
          MaxAckPending, \* cfg.MaxAckPending
          MaxStream,     \* bound: messages in the stream
          MaxStops,      \* bound: crashes, ack errors and shutdowns
          MaxLosses      \* bound: disconnects, stalls, lost acks; 0 is a perfect network

ASSUME BoundsAssumption == /\ MaxStream \in Nat
                           /\ MaxStops \in Nat
                           /\ MaxLosses \in Nat
                           /\ MaxAckPending \in Nat \ {0}

VARIABLES stream,     \* messages [own, good]; the sequence number is the index
          up,         \* is the process running?
          next,       \* JetStream: first sequence not yet delivered
          unacked,    \* JetStream: delivered, neither acked nor terminated
          queue,      \* messages on their way to iter.Next, in arrival order
          applied,    \* sequences folded into the engine's state, in order
          lastSeq,    \* Core.lastSeq
          target,     \* targetSeq: last sequence of the whole stream at startup
          replaying,
          inflight,   \* the snapshot in flight
          file,       \* the snapshot file
          emitted,    \* sequences whose side effects happened, in order
          start,      \* startSeq of this process
          stops, losses

server == <<next, unacked, queue>>
engine == <<applied, lastSeq, replaying, inflight>>
vars == <<stream, up, server, engine, target, file, emitted, start, stops, losses>>

Own(s) == stream[s].own
Good(s) == stream[s].good
OwnFrom(n) == {s \in n..Len(stream) : Own(s)}

Init ==
  /\ stream = <<>>
  /\ up = FALSE
  /\ next = 1
  /\ unacked = {}
  /\ queue = <<>>
  /\ applied = <<>>
  /\ lastSeq = 0
  /\ target = 0
  /\ replaying = FALSE
  /\ inflight = NoSnapshot
  /\ file = NoSnapshot
  /\ emitted = <<>>
  /\ start = 1
  /\ stops = 0
  /\ losses = 0

Publish ==
  /\ Len(stream) < MaxStream
  /\ \E own \in {TRUE} \cup {~OtherShards}, good \in {TRUE} \cup {~Malformed} :
       /\ own \/ good
       /\ stream' = Append(stream, [own |-> own, good |-> good])
  /\ UNCHANGED <<up, server, engine, target, file, emitted, start, stops, losses>>

\* Where a restarted process resumes: LastSeq is the last sequence processed.
StartSeq == IF file = NoSnapshot THEN 1 ELSE file.lastSeq + 1

\* Steps 1-3 of Run: restore, replay target, a fresh ephemeral consumer.
Start ==
  /\ ~up
  /\ up' = TRUE
  /\ applied' = IF file = NoSnapshot THEN <<>> ELSE file.applied
  /\ lastSeq' = IF file = NoSnapshot THEN 0 ELSE file.lastSeq
  /\ start' = StartSeq
  /\ next' = StartSeq
  /\ unacked' = {}
  /\ queue' = <<>>
  /\ target' = Len(stream)
  /\ replaying' = (target' > 0 /\ StartSeq <= target')
  /\ inflight' = NoSnapshot
  /\ UNCHANGED <<stream, file, emitted, stops, losses>>

(* JetStream, as the consumer's configuration makes it behave. *)

Deliver ==
  /\ up
  /\ OwnFrom(next) # {}
  /\ Cardinality(unacked) < MaxAckPending
  /\ LET s == Min(OwnFrom(next)) IN
       /\ next' = s + 1
       /\ unacked' = unacked \cup {s}
       /\ queue' = Append(queue, s)
  /\ UNCHANGED <<stream, up, engine, target, file, emitted, start, stops, losses>>

\* The ack wait of a message is over.
Redeliver ==
  /\ up
  /\ \E s \in unacked :
       /\ \A i \in DOMAIN queue : queue[i] # s
       /\ queue' = Append(queue, s)
  /\ UNCHANGED <<stream, up, next, unacked, engine, target, file, emitted, start, stops, losses>>

\* A disconnect loses what was on its way.
Disconnect ==
  /\ up
  /\ losses < MaxLosses
  /\ queue # <<>>
  /\ queue' = <<>>
  /\ losses' = losses + 1
  /\ UNCHANGED <<stream, up, next, unacked, engine, target, file, emitted, start, stops>>

\* The process stalls past the ack wait of a message it has not reached yet.
AckTimeout ==
  /\ up
  /\ losses < MaxLosses
  /\ \E i \in DOMAIN queue :
       /\ queue[i] \in unacked
       /\ queue' = Append(queue, queue[i])
  /\ losses' = losses + 1
  /\ UNCHANGED <<stream, up, next, unacked, engine, target, file, emitted, start, stops>>

(* The main loop. *)

\* Side effects of the event at s: silent while replaying.
Emit(s) == emitted' = IF replaying THEN emitted ELSE Append(emitted, s)

\* The bug of re-enabling side effects one message early.
EndsReplay_Bug(s) == s >= target - 1

\* The bug of waiting for a message well after the target.
EndsReplay_Late(s) == s > target + 1

EndsReplay(s) == s >= target

\* The bug of a checkpoint that only covers the message before.
Checkpoint_Bug(a, n) == [applied |-> a, lastSeq |-> IF n = 0 THEN 0 ELSE n - 1]

\* What beginSnapshot freezes.
Checkpoint(a, n) == [applied |-> a, lastSeq |-> n]

\* tick: nothing happens unless the interval is over and no snapshot is in
\* flight; then one is begun with the state just reached.
Tick(a, n) ==
  inflight' \in (IF inflight = NoSnapshot
                 THEN {NoSnapshot, Checkpoint(a, n)} ELSE {inflight})

\* The bug of taking a sequence below lastSeq for one already applied.
Consume_SkipOld ==
  /\ up
  /\ queue # <<>>
  /\ Good(Head(queue))
  /\ LET s == Head(queue)
         a == IF s > lastSeq THEN Append(applied, s) ELSE applied IN
       /\ applied' = a
       /\ lastSeq' = IF s > lastSeq THEN s ELSE lastSeq
       /\ Emit(s)
       /\ replaying' = (replaying /\ ~EndsReplay(s))
       /\ Tick(a, lastSeq')
       /\ unacked' = unacked \ {s}
  /\ queue' = Tail(queue)
  /\ UNCHANGED <<stream, up, next, target, file, start, stops, losses>>

\* A message that decodes: ProcessEvent, side effects, Ack, lastSeq, the end of
\* replay, tick.  The ack may be lost on the way.
Consume ==
  /\ up
  /\ queue # <<>>
  /\ Good(Head(queue))
  /\ LET s == Head(queue)
         a == Append(applied, s) IN
       /\ applied' = a
       /\ lastSeq' = s
       /\ Emit(s)
       /\ replaying' = (replaying /\ ~EndsReplay(s))
       /\ Tick(a, s)
       /\ \/ unacked' = unacked \ {s} /\ UNCHANGED losses
          \/ /\ losses < MaxLosses
             /\ losses' = losses + 1
             /\ UNCHANGED unacked
  /\ queue' = Tail(queue)
  /\ UNCHANGED <<stream, up, next, target, file, start, stops>>

\* A malformed message is terminated; the loop continues at once.
Terminate ==
  /\ up
  /\ queue # <<>>
  /\ ~Good(Head(queue))
  /\ unacked' = unacked \ {Head(queue)}
  /\ queue' = Tail(queue)
  /\ UNCHANGED <<stream, up, next, engine, target, file, emitted, start, stops, losses>>

\* Ack returns an error: Run ends there, with the event applied and its side
\* effects done, and no final snapshot.
AckError ==
  /\ up
  /\ stops < MaxStops
  /\ queue # <<>>
  /\ Good(Head(queue))
  /\ Emit(Head(queue))
  /\ up' = FALSE
  /\ stops' = stops + 1
  /\ UNCHANGED <<stream, server, engine, target, file, start, losses>>

\* The background goroutine renames the file into place, or fails.
EndSnapshot ==
  /\ up
  /\ inflight # NoSnapshot
  /\ file' \in {file, inflight}
  /\ inflight' = NoSnapshot
  /\ UNCHANGED <<stream, up, server, applied, lastSeq, replaying, target, emitted, start, stops, losses>>

\* The iterator is closed: drain, then the final snapshot (or its failure).
Shutdown ==
  /\ up
  /\ stops < MaxStops
  /\ inflight = NoSnapshot
  /\ file' \in {file, Checkpoint(applied, lastSeq)}
  /\ up' = FALSE
  /\ stops' = stops + 1
  /\ UNCHANGED <<stream, server, engine, target, emitted, start, losses>>

Crash ==
  /\ up
  /\ stops < MaxStops
  /\ up' = FALSE
  /\ stops' = stops + 1
  /\ UNCHANGED <<stream, server, engine, target, file, emitted, start, losses>>

Next ==
  \/ Publish
  \/ Start
  \/ Deliver
  \/ Redeliver
  \/ Disconnect
  \/ AckTimeout
  \/ Consume
  \/ Terminate
  \/ AckError
  \/ EndSnapshot
  \/ Shutdown
  \/ Crash

Spec == Init /\ [][Next]_vars

\* A supervisor restarts the process, JetStream delivers and redelivers, and
\* the loop keeps calling iter.Next.  Losses and crashes are finitely many.
FairSpec ==
  /\ Spec
  /\ WF_vars(Start)
  /\ WF_vars(Deliver)
  /\ WF_vars(Redeliver)
  /\ WF_vars(Consume \/ Terminate)

-----------------------------------------------------------------------------
(* Properties. *)

Elems(s) == {s[i] : i \in DOMAIN s}
Increasing(s) == \A i, j \in DOMAIN s : i < j => s[i] < s[j]

\* Each good message of this shard up to n, once and in order, nothing else.
Exact(a, n) ==
  /\ Increasing(a)
  /\ Elems(a) = {s \in 1..n : Own(s) /\ Good(s)}

\* As long as nothing was lost, state and position agree in every running
\* process and in every file, whatever crashes and ack errors happen.
StateMatchesPosition ==
  losses = 0 => /\ up => Exact(applied, lastSeq)
                /\ file # NoSnapshot => Exact(file.applied, file.lastSeq)

\* As long as nothing was lost, a side effect never happens twice.
EffectsAtMostOnce == losses = 0 => Increasing(emitted)

\* Whatever is lost, a message of this shard that was due to this process is
\* applied or still pending at the server, which will deliver it again.
AppliedOrPending ==
  up => \A s \in start..(next - 1) :
          Own(s) /\ Good(s) => s \in Elems(applied) \/ s \in unacked

\* snapshot.go: "we replay from exactly LastSeq+1 -- no gap".
FileHasNoGap ==
  file # NoSnapshot =>
    \A s \in 1..file.lastSeq : Own(s) /\ Good(s) => s \in Elems(file.applied)

\* Replay ends at the live edge: a message past the last one at startup has its
\* side effects, except the first that this process applies from there on (when
\* the last one at startup is another shard's, malformed or overtaken).
LiveEdge ==
  up => \A r, s \in Elems(applied) :
          r > target /\ r \notin Elems(emitted) /\ s > target /\ s \notin Elems(emitted) => r = s

\* Once the crashes and losses are over, every message due to the last process
\* is eventually applied.
CatchesUp ==
  <>[](\A s \in OwnFrom(start) : Good(s) => s \in Elems(applied))
=============================================================================
