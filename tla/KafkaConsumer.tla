---------------------------- MODULE KafkaConsumer ----------------------------
(***************************************************************************)
(* KafkaConsumer.Run (consumer_kafka.go) with the lifecycle of consumer.go: *)
(* restore, replay up to the end of the log at startup, poll, checkpoint,  *)
(* shut down or crash, start again.  One partition, whose records stay.    *)
(*                                                                         *)
(* ProcessEvent is deterministic, so the engine's state is abstracted to   *)
(* the sequence of offsets folded into it.  The asynchronous snapshot is   *)
(* the one CowState shows to be atomic: it is begun with the state at an   *)
(* event boundary and reaches the file whole, or fails.                    *)
(***************************************************************************)
EXTENDS Integers, Sequences, FiniteSets

CONSTANTS NoSnapshot,  \* no snapshot file, or none in flight
          Malformed,   \* may the log hold records decodeEvent rejects?
          MaxLog,      \* bound: records in the partition
          MaxStops     \* bound: crashes and shutdowns

ASSUME NoSnapshotAssumption == NoSnapshot \notin [applied : Seq(Nat), lastSeq : Nat]
ASSUME MaxLogAssumption == MaxLog \in Nat
ASSUME MaxStopsAssumption == MaxStops \in Nat
ASSUME MalformedAssumption == Malformed \in BOOLEAN

VARIABLES log,        \* records of the partition: TRUE decodes, FALSE does not
          up,         \* is the process running?
          next,       \* offset of the next record a poll returns
          applied,    \* offsets folded into the engine's state, in order
          lastSeq,    \* Core.lastSeq
          target,     \* targetOffset: end of the log at startup, minus one
          replaying,
          inflight,   \* the snapshot in flight
          file,       \* the snapshot file
          emitted,    \* offsets whose side effects happened, in order
          stops       \* crashes and shutdowns so far

procVars == <<next, applied, lastSeq, target, replaying, inflight>>
vars == <<log, up, procVars, file, emitted, stops>>

Good(o) == log[o + 1]
Snap == [applied |-> applied, lastSeq |-> lastSeq]

Init ==
  /\ log = <<>>
  /\ up = FALSE
  /\ next = 0
  /\ applied = <<>>
  /\ lastSeq = 0
  /\ target = -1
  /\ replaying = FALSE
  /\ inflight = NoSnapshot
  /\ file = NoSnapshot
  /\ emitted = <<>>
  /\ stops = 0

\* A producer appends a record.
Produce ==
  /\ Len(log) < MaxLog
  /\ \E good \in {TRUE} \cup {~Malformed} : log' = Append(log, good)
  /\ UNCHANGED <<up, procVars, file, emitted, stops>>

\* The bug of adding one to a position that already is the next one.
StartOffset_Skip == IF file = NoSnapshot THEN 0 ELSE file.lastSeq + 2

\* Where a restarted process resumes: LastSeq is the last offset processed.
StartOffset == IF file = NoSnapshot THEN 0 ELSE file.lastSeq + 1

\* Steps 1-3 of Run: restore, replay target, pinned start offset.
Start ==
  /\ ~up
  /\ up' = TRUE
  /\ applied' = IF file = NoSnapshot THEN <<>> ELSE file.applied
  /\ lastSeq' = IF file = NoSnapshot THEN 0 ELSE file.lastSeq
  /\ next' = StartOffset
  /\ target' = Len(log) - 1
  /\ replaying' = (target' >= 0 /\ StartOffset <= target')
  /\ inflight' = NoSnapshot
  /\ UNCHANGED <<log, file, emitted, stops>>

\* The bug of a replay that stops one record early.
CaughtUp_Bug(o) == o >= target - 1

\* The bug of waiting for a record after the target.
CaughtUp_Late(o) == o > target

\* The record that ends replay.
CaughtUp(o) == o >= target

\* EachRecord on a record that decodes: ProcessEvent and its side effects,
\* lastSeq, and the end of replay once the target is crossed.
Consume ==
  /\ up
  /\ next < Len(log)
  /\ Good(next)
  /\ applied' = Append(applied, next)
  /\ lastSeq' = next
  /\ emitted' = IF replaying THEN emitted ELSE Append(emitted, next)
  /\ replaying' = (replaying /\ ~CaughtUp(next))
  /\ next' = next + 1
  /\ UNCHANGED <<log, up, target, inflight, file, stops>>

\* EachRecord on a malformed record: dropped before lastSeq and replay.
DropMalformed ==
  /\ up
  /\ next < Len(log)
  /\ ~Good(next)
  /\ next' = next + 1
  /\ UNCHANGED <<log, up, applied, lastSeq, target, replaying, inflight, file, emitted, stops>>

\* A fetch past the end of the log is out of range: the client falls back to
\* the start of the partition.
OffsetReset ==
  /\ up
  /\ next > Len(log)
  /\ next' = 0
  /\ UNCHANGED <<log, up, applied, lastSeq, target, replaying, inflight, file, emitted, stops>>

\* The bug of pairing a state with the position of the next record.
BeginSnapshot_Bug ==
  /\ up
  /\ inflight = NoSnapshot
  /\ inflight' = [Snap EXCEPT !.lastSeq = @ + 1]
  /\ UNCHANGED <<log, up, next, applied, lastSeq, target, replaying, file, emitted, stops>>

\* tick, the interval being over and nothing in flight.
BeginSnapshot ==
  /\ up
  /\ inflight = NoSnapshot
  /\ inflight' = Snap
  /\ UNCHANGED <<log, up, next, applied, lastSeq, target, replaying, file, emitted, stops>>

\* The background goroutine renames the file into place, or fails.
EndSnapshot ==
  /\ up
  /\ inflight # NoSnapshot
  /\ file' \in {file, inflight}
  /\ inflight' = NoSnapshot
  /\ UNCHANGED <<log, up, next, applied, lastSeq, target, replaying, emitted, stops>>

\* The context is cancelled: records already fetched are not processed; drain
\* waits for the snapshot in flight and writes the final one (or fails to).
Shutdown ==
  /\ up
  /\ stops < MaxStops
  /\ inflight = NoSnapshot
  /\ file' \in {file, Snap}
  /\ up' = FALSE
  /\ stops' = stops + 1
  /\ UNCHANGED <<log, procVars, emitted>>

Crash ==
  /\ up
  /\ stops < MaxStops
  /\ up' = FALSE
  /\ stops' = stops + 1
  /\ UNCHANGED <<log, procVars, file, emitted>>

Next ==
  \/ Produce
  \/ Start
  \/ Consume
  \/ DropMalformed
  \/ OffsetReset
  \/ BeginSnapshot
  \/ EndSnapshot
  \/ Shutdown
  \/ Crash

Spec == Init /\ [][Next]_vars

\* A supervisor restarts the process, and the loop keeps polling: franz-go
\* retries fetches by itself.  Crashes and shutdowns are finitely many.
FairSpec ==
  /\ Spec
  /\ WF_vars(Start)
  /\ WF_vars(Consume \/ DropMalformed)

-----------------------------------------------------------------------------
(* Properties. *)

Range0(s) == {s[i] : i \in DOMAIN s}
Increasing(s) == \A i, j \in DOMAIN s : i < j => s[i] < s[j]

\* A snapshot s holds each good record up to its position, once and in order,
\* and nothing else -- except that offset 0 may be missing.
ExactPrefix(s) ==
  /\ Increasing(s.applied)
  /\ Range0(s.applied) \subseteq {o \in 0..s.lastSeq : o < Len(log) /\ Good(o)}
  /\ {o \in 1..s.lastSeq : o < Len(log) /\ Good(o)} \subseteq Range0(s.applied)

\* Whatever crashes, restarts, failed or overtaken snapshots happened, the
\* running state and the file reflect exactly the records up to their position;
\* the only record that can ever be skipped is the one at offset 0.
StateMatchesPosition ==
  /\ up => ExactPrefix(Snap)
  /\ file # NoSnapshot => ExactPrefix(file)

\* snapshot.go: "on restart we replay from exactly LastSeq+1 -- no gap, no
\* double application".
NoGap ==
  up => \A o \in 0..(next - 1) : o < Len(log) /\ Good(o) => o \in Range0(applied)

\* A side effect never happens twice: whatever was emitted before a crash is
\* inside the replay of the next process.
EffectsAtMostOnce == Increasing(emitted)

\* A poll at or past the target has met a good record (the end of an empty log
\* has no record to meet).
PassedTarget == target < 0 \/ \E q \in target..(next - 1) : Good(q)

\* Replay ends at the end of the log as it was at startup: a record up to there
\* is folded in without side effects, and one past it has its side effects at
\* once, unless no good record was met from the target on: DropMalformed does
\* not look at the target, so after a malformed record there the next good one
\* may be silent.
LiveEdge ==
  [][up /\ applied' # applied =>
       /\ next <= target => UNCHANGED emitted
       /\ next > target /\ PassedTarget => emitted' = Append(emitted, next)]_vars

\* Once the crashes are over the consumer catches up: every good record after
\* the first is eventually part of the state, for good.
CatchesUp ==
  <>[](\A o \in 1..(Len(log) - 1) : Good(o) => o \in Range0(applied))
=============================================================================
