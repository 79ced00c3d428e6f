------------------------- MODULE KafkaConsumerProofs -------------------------
(***************************************************************************)
(* The lifecycle of KafkaConsumer.Run proved correct for a log of any      *)
(* length and any number of crashes and shutdowns: what the running state  *)
(* and the snapshot file hold (StateMatchesPosition), that no side effect  *)
(* is repeated (EffectsAtMostOnce) and where replay ends (LiveEdge).       *)
(*                                                                         *)
(* None of the three is inductive.  The running process needs a relation   *)
(* between lastSeq and the offset the next poll returns (Position), every  *)
(* snapshot must be as exact as the running state, the one in flight       *)
(* included (SnapshotsExact), the offsets already emitted must lie inside  *)
(* the replay of the process at hand, or behind its position               *)
(* (EffectsBehind), and a process that does not replay must be past its    *)
(* target (ReplayEdge).                                                    *)
(***************************************************************************)
EXTENDS KafkaConsumer, TLAPS

Snapshot == [applied : Seq(Nat), lastSeq : Nat]

Typed ==
  /\ log \in Seq(BOOLEAN)
  /\ up \in BOOLEAN
  /\ next \in Nat
  /\ applied \in Seq(Nat)
  /\ lastSeq \in Nat
  /\ target \in Int
  /\ replaying \in BOOLEAN
  /\ inflight \in Snapshot \cup {NoSnapshot}
  /\ file \in Snapshot \cup {NoSnapshot}
  /\ emitted \in Seq(Nat)
  /\ stops \in Nat

\* ExactPrefix with the log as a parameter: a holds the good records of l up
\* to n, once and in order, and nothing else, except that 0 may be missing.
\* The position n is that of a record, or still 0.
Exact(l, a, n) ==
  /\ n = 0 \/ n < Len(l)
  /\ Increasing(a)
  /\ \A o \in Range0(a) : o \in 0..n /\ o < Len(l) /\ l[o + 1]
  /\ \A o \in 1..n : o < Len(l) /\ l[o + 1] => o \in Range0(a)

\* Every snapshot, in flight or on disk, is exact.
SnapshotsExact ==
  /\ inflight # NoSnapshot => Exact(log, inflight.applied, inflight.lastSeq)
  /\ file # NoSnapshot => Exact(log, file.applied, file.lastSeq)

\* The poll position is past lastSeq with only malformed records between, or
\* nothing was processed at all; it is past the end of the log only after a
\* restart on an empty log (then the client resets it).
Position ==
  /\ lastSeq < next \/ (next = 0 /\ lastSeq = 0 /\ applied = <<>>)
  /\ next <= Len(log) \/ (next = 1 /\ Len(log) = 0)
  /\ \A o \in (lastSeq + 1)..(next - 1) : o < Len(log) => ~log[o + 1]

\* What was emitted is a record of the log; a replaying process will not emit
\* up to its target, and any other process is past what was emitted.
EffectsBehind ==
  /\ Increasing(emitted)
  /\ \A o \in Range0(emitted) : /\ o < Len(log)
                                /\ IF replaying THEN o <= target ELSE o < next

\* The target is a record of the log, or -1.  While replaying, no good record at
\* or past it has been polled; a process that does not replay is past it.
ReplayEdge ==
  /\ target < Len(log)
  /\ IF replaying THEN target >= 0 /\ \A q \in target..(next - 1) : ~log[q + 1]
     ELSE up => target < next

IInv ==
  /\ Typed
  /\ Exact(log, applied, lastSeq)
  /\ SnapshotsExact
  /\ Position
  /\ EffectsBehind
  /\ ReplayEdge

-----------------------------------------------------------------------------
(* Sequences of offsets. *)

\* Processing a record adds its offset to those folded in, or emitted.
LEMMA AppendRange ==
  ASSUME NEW a \in Seq(Nat), NEW e \in Nat
  PROVE  /\ Append(a, e) \in Seq(Nat)
         /\ Range0(Append(a, e)) = Range0(a) \cup {e}
<1> DEFINE b == Append(a, e)
<1>1. /\ b \in Seq(Nat)
      /\ DOMAIN a = 1..Len(a)
      /\ DOMAIN b = 1..(Len(a) + 1)
      /\ Len(a) \in Nat
      /\ \A i \in 1..Len(a) : b[i] = a[i]
      /\ b[Len(a) + 1] = e
  OBVIOUS
<1>2. ASSUME NEW x \in Range0(a) \cup {e} PROVE x \in Range0(b)
  <2>1. CASE x = e
    BY <1>1, <2>1 DEF Range0
  <2>2. CASE x \in Range0(a)
    <3>1. PICK i \in DOMAIN a : x = a[i]
      BY <2>2 DEF Range0
    <3>2. i \in DOMAIN b /\ b[i] = x
      BY <1>1, <3>1
    <3> QED
      BY <3>2 DEF Range0
  <2> QED
    BY <1>2, <2>1, <2>2
<1>3. ASSUME NEW x \in Range0(b) PROVE x \in Range0(a) \cup {e}
  <2>1. PICK i \in DOMAIN b : x = b[i]
    BY <1>3 DEF Range0
  <2>2. CASE i = Len(a) + 1
    BY <1>1, <2>1, <2>2
  <2>3. CASE i # Len(a) + 1
    <3>1. i \in DOMAIN a /\ x = a[i]
      BY <1>1, <2>1, <2>3
    <3> QED
      BY <3>1 DEF Range0
  <2> QED
    BY <2>2, <2>3
<1> QED
  BY <1>1, <1>2, <1>3

\* The offsets stay in order when a later one is added.
LEMMA AppendIncreasing ==
  ASSUME NEW a \in Seq(Nat), NEW e \in Nat, Increasing(a),
         \A x \in Range0(a) : x < e
  PROVE  Increasing(Append(a, e))
<1> DEFINE b == Append(a, e)
<1>1. /\ DOMAIN a = 1..Len(a)
      /\ DOMAIN b = 1..(Len(a) + 1)
      /\ Len(a) \in Nat
      /\ \A i \in 1..Len(a) : b[i] = a[i]
      /\ b[Len(a) + 1] = e
  OBVIOUS
<1>2. \A i \in DOMAIN a : a[i] \in Range0(a)
  BY DEF Range0
<1>3. ASSUME NEW i \in DOMAIN b, NEW j \in DOMAIN b, i < j PROVE b[i] < b[j]
  <2>1. i \in DOMAIN a
    BY <1>1, <1>3
  <2>2. CASE j = Len(a) + 1
    BY <1>1, <1>2, <2>1, <2>2
  <2>3. CASE j # Len(a) + 1
    <3>1. j \in DOMAIN a
      BY <1>1, <2>3
    <3> QED
      BY <1>1, <1>3, <2>1, <3>1 DEF Increasing
  <2> QED
    BY <2>2, <2>3
<1> QED
  BY <1>3 DEF Increasing

\* Nothing folded in yet: the state of a process without a snapshot file.
LEMMA EmptyExact ==
  ASSUME NEW l \in Seq(BOOLEAN)
  PROVE  Exact(l, <<>>, 0) /\ Range0(<<>>) = {} /\ Increasing(<<>>)
<1>1. DOMAIN <<>> = {}
  OBVIOUS
<1>2. Range0(<<>>) = {} /\ Increasing(<<>>)
  BY <1>1 DEF Range0, Increasing
<1> QED
  BY <1>2 DEF Exact

\* A state or a snapshot stays exact when a producer appends to the log.
LEMMA ExactGrows ==
  ASSUME NEW l \in Seq(BOOLEAN), NEW b \in BOOLEAN,
         NEW a \in Seq(Nat), NEW n \in Nat, Exact(l, a, n)
  PROVE  Exact(Append(l, b), a, n)
<1>1. /\ Len(Append(l, b)) = Len(l) + 1
      /\ Len(l) \in Nat
      /\ \A o \in Nat : o < Len(l) => Append(l, b)[o + 1] = l[o + 1]
  OBVIOUS
<1> QED
  BY <1>1 DEF Exact

\* ProcessEvent on the next good record keeps the state exact, when only
\* malformed records were dropped since the last one.
LEMMA ExactConsume ==
  ASSUME NEW l \in Seq(BOOLEAN), NEW a \in Seq(Nat), NEW n \in Nat, NEW m \in Nat,
         Exact(l, a, n),
         m < Len(l), l[m + 1],
         n < m \/ (m = 0 /\ n = 0 /\ a = <<>>),
         \A o \in (n + 1)..(m - 1) : o < Len(l) => ~l[o + 1]
  PROVE  Exact(l, Append(a, m), m)
<1>1. Append(a, m) \in Seq(Nat) /\ Range0(Append(a, m)) = Range0(a) \cup {m}
  BY AppendRange
<1>2. Len(l) \in Nat
  OBVIOUS
<1>3. \A x \in Range0(a) : x < m
  <2>1. CASE n < m
    BY <2>1 DEF Exact
  <2>2. CASE m = 0 /\ n = 0 /\ a = <<>>
    BY <2>2, EmptyExact
  <2> QED
    BY <2>1, <2>2
<1>4. Increasing(Append(a, m))
  BY <1>3, AppendIncreasing DEF Exact
<1>5. \A o \in Range0(Append(a, m)) : o \in 0..m /\ o < Len(l) /\ l[o + 1]
  BY <1>1, <1>2, <1>3 DEF Exact
<1>6. ASSUME NEW o \in 1..m, o < Len(l), l[o + 1] PROVE o \in Range0(Append(a, m))
  BY <1>1, <1>6 DEF Exact
<1> QED
  BY <1>4, <1>5, <1>6 DEF Exact

-----------------------------------------------------------------------------
(* The inductive invariant. *)

\* Before anything is produced or started.
LEMMA InitIInv == Init => IInv
<1> SUFFICES ASSUME Init PROVE IInv
  OBVIOUS
<1> USE DEF Init
<1>1. <<>> \in Seq(BOOLEAN) /\ <<>> \in Seq(Nat) /\ Len(<<>>) = 0
  OBVIOUS
<1>2. Exact(<<>>, <<>>, 0) /\ Range0(<<>>) = {} /\ Increasing(<<>>)
  BY <1>1, EmptyExact
<1>3. Typed
  <2>1. up \in BOOLEAN /\ replaying \in BOOLEAN
    BY Zenon
  <2>2. -1 \in Int /\ 0 \in Nat
    OBVIOUS
  <2> QED
    BY <1>1, <2>1, <2>2, Zenon DEF Typed
<1> QED
  BY <1>1, <1>2, <1>3 DEF IInv, SnapshotsExact, Position, EffectsBehind, ReplayEdge

\* An append by a producer disturbs nothing the process or a file relies on.
LEMMA ProduceIInv == IInv /\ Produce => IInv'
<1> SUFFICES ASSUME IInv, Produce PROVE IInv'
  OBVIOUS
<1> USE DEF Produce, procVars
<1>1. Typed
  BY DEF IInv
<1>2. PICK b \in BOOLEAN : log' = Append(log, b)
  BY MalformedAssumption
<1>3. /\ Len(log') = Len(log) + 1
      /\ Len(log) \in Nat
      /\ \A o \in Nat : o < Len(log) => log'[o + 1] = log[o + 1]
  BY <1>1, <1>2 DEF Typed
<1>4. Typed'
  BY <1>1, <1>2 DEF Typed
<1>5. Exact(log, applied, lastSeq)'
  BY <1>1, <1>2, ExactGrows DEF IInv, Typed
<1>6. SnapshotsExact'
  BY <1>1, <1>2, ExactGrows DEF IInv, Typed, SnapshotsExact, Snapshot
<1>7. Position'
  BY <1>1, <1>3 DEF IInv, Typed, Position
<1>8. EffectsBehind'
  <2>1. \A o \in Range0(emitted) : o \in Nat
    BY <1>1 DEF Typed, Range0
  <2> QED
    BY <1>1, <1>3, <2>1 DEF IInv, Typed, EffectsBehind
<1>9. ReplayEdge'
  <2>1. replaying => \A q \in target..(next - 1) : q < Len(log) /\ q \in Nat
    BY <1>1, <1>3 DEF IInv, Typed, Position, ReplayEdge
  <2> QED
    BY <1>1, <1>3, <2>1 DEF IInv, Typed, ReplayEdge
<1> QED
  BY <1>4, <1>5, <1>6, <1>7, <1>8, <1>9 DEF IInv

\* Restore, replay target and start offset: the restored state is exact, and
\* what earlier processes emitted lies within the replay, or behind it.
LEMMA StartIInv == IInv /\ Start => IInv'
<1> SUFFICES ASSUME IInv, Start PROVE IInv'
  OBVIOUS
<1> USE DEF Start, StartOffset
<1>1. Typed
  BY DEF IInv
<1>2. Len(log) \in Nat
  BY <1>1 DEF Typed
<1>3. Typed'
  BY <1>1, <1>2 DEF Typed, Snapshot
<1>4. Exact(log, applied, lastSeq)'
  <2>1. CASE file = NoSnapshot
    BY <1>1, <2>1, EmptyExact DEF Typed
  <2>2. CASE file # NoSnapshot
    BY <2>2 DEF IInv, SnapshotsExact
  <2> QED
    BY <2>1, <2>2
<1>5. SnapshotsExact'
  BY DEF IInv, SnapshotsExact
<1>6. Position'
  <2>1. CASE file = NoSnapshot
    BY <1>2, <2>1 DEF Position
  <2>2. CASE file # NoSnapshot
    <3>1. file.lastSeq \in Nat
      BY <1>1, <2>2 DEF Typed, Snapshot
    <3>2. lastSeq' = file.lastSeq /\ next' = file.lastSeq + 1
      BY <2>2
    <3>3. file.lastSeq = 0 \/ file.lastSeq < Len(log)
      BY <2>2 DEF IInv, SnapshotsExact, Exact
    <3> QED
      BY <1>2, <3>1, <3>2, <3>3 DEF Position
  <2> QED
    BY <2>1, <2>2
<1>7. EffectsBehind'
  <2>1. \A o \in Range0(emitted) : o \in Nat /\ o < Len(log)
    BY <1>1 DEF IInv, EffectsBehind, Typed, Range0
  <2>2. next' \in Nat
    BY <1>3 DEF Typed
  <2>3. /\ target' = Len(log) - 1
        /\ replaying' => target' >= 0 /\ next' <= target'
        /\ ~replaying' => ~(target' >= 0 /\ next' <= target')
    OBVIOUS
  <2>4. ASSUME NEW o \in Range0(emitted)
        PROVE  IF replaying' THEN o <= target' ELSE o < next'
    BY <1>2, <2>1, <2>2, <2>3
  <2> QED
    BY <2>1, <2>4 DEF IInv, EffectsBehind
<1>8. ReplayEdge'
  <2>1. next' \in Nat
    BY <1>3 DEF Typed
  <2>2. /\ target' = Len(log) - 1
        /\ replaying' => target' >= 0 /\ next' <= target'
        /\ ~replaying' => ~(target' >= 0 /\ next' <= target')
    OBVIOUS
  <2> QED
    BY <1>2, <2>1, <2>2 DEF ReplayEdge
<1> QED
  BY <1>3, <1>4, <1>5, <1>6, <1>7, <1>8 DEF IInv

\* A record that decodes: folded in after the last one, and emitted unless the
\* replay still covers it.
LEMMA ConsumeIInv == IInv /\ Consume => IInv'
<1> SUFFICES ASSUME IInv, Consume PROVE IInv'
  OBVIOUS
<1> USE DEF Consume, Good, CaughtUp
<1>1. Typed
  BY DEF IInv
<1>2. Len(log) \in Nat
  BY <1>1 DEF Typed
<1>3. /\ applied' \in Seq(Nat)
      /\ Range0(applied') = Range0(applied) \cup {next}
  BY <1>1, AppendRange DEF Typed
<1>4. ~replaying => /\ emitted' \in Seq(Nat)
                    /\ Range0(emitted') = Range0(emitted) \cup {next}
  BY <1>1, AppendRange DEF Typed
<1>5. Typed'
  BY <1>1, <1>3, <1>4 DEF Typed
<1>6. Exact(log, applied, lastSeq)'
  BY <1>1, ExactConsume DEF IInv, Typed, Position
<1>7. SnapshotsExact'
  BY DEF IInv, SnapshotsExact
<1>8. Position'
  BY <1>1, <1>2 DEF IInv, Typed, Position
<1>9. EffectsBehind'
  <2>1. \A o \in Range0(emitted) : o \in Nat
    <3>1. emitted \in Seq(Nat)
      BY <1>1 DEF Typed
    <3>2. \A i \in DOMAIN emitted : emitted[i] \in Nat
      BY <3>1
    <3> QED
      BY <3>2 DEF Range0
  <2>2. CASE replaying
    BY <1>1, <1>2, <2>1, <2>2 DEF IInv, Typed, EffectsBehind
  <2>3. CASE ~replaying
    <3>1. Increasing(emitted')
      BY <1>1, <2>3, AppendIncreasing DEF IInv, Typed, EffectsBehind
    <3>2. /\ next \in Nat /\ next < Len(log) /\ ~replaying' /\ log' = log /\ next' = next + 1
          /\ \A o \in Range0(emitted) : o < Len(log) /\ o < next
      BY <1>1, <2>3 DEF IInv, Typed, EffectsBehind
    <3>3. \A o \in Range0(emitted') : o < Len(log') /\ o < next'
      BY <1>2, <1>4, <2>1, <2>3, <3>2
    <3> QED
      BY <3>1, <3>2, <3>3 DEF EffectsBehind
  <2> QED
    BY <1>1, <2>2, <2>3 DEF Typed
<1>10. ReplayEdge'
  <2>1. CASE replaying
    <3>1. /\ target \in Int /\ next \in Nat /\ target < Len(log) /\ target >= 0
          /\ next' = next + 1
      BY <1>1, <2>1 DEF IInv, Typed, ReplayEdge
    <3>2. IF replaying' THEN next < target ELSE next >= target
      <4>1. replaying' <=> ~(next >= target)
        BY <2>1, Zenon
      <4> QED
        BY <3>1, <4>1
    <3> QED
      BY <3>1, <3>2 DEF ReplayEdge
  <2>2. CASE ~replaying
    BY <1>1, <2>2 DEF IInv, Typed, ReplayEdge
  <2> QED
    BY <1>1, <2>1, <2>2 DEF Typed
<1> QED
  BY <1>5, <1>6, <1>7, <1>8, <1>9, <1>10 DEF IInv

\* A malformed record: only the poll position moves.
LEMMA DropIInv == IInv /\ DropMalformed => IInv'
<1> SUFFICES ASSUME IInv, DropMalformed PROVE IInv'
  OBVIOUS
<1> USE DEF DropMalformed, Good
<1>1. Typed
  BY DEF IInv
<1>2. Len(log) \in Nat
  BY <1>1 DEF Typed
<1>3. Typed'
  BY <1>1 DEF Typed
<1>4. Exact(log, applied, lastSeq)' /\ SnapshotsExact'
  BY DEF IInv, SnapshotsExact
<1>5. Position'
  BY <1>1, <1>2 DEF IInv, Typed, Position
<1>6. EffectsBehind'
  <2>1. \A o \in Range0(emitted) : o \in Nat
    BY <1>1 DEF Typed, Range0
  <2> QED
    BY <1>1, <1>2, <2>1 DEF IInv, Typed, EffectsBehind
<1>7. ReplayEdge'
  BY <1>1, <1>2 DEF IInv, Typed, ReplayEdge
<1> QED
  BY <1>3, <1>4, <1>5, <1>6, <1>7 DEF IInv

\* The client falls back to the start of the partition only while the log is
\* empty, when nothing was folded in or emitted.
LEMMA ResetIInv == IInv /\ OffsetReset => IInv'
<1> SUFFICES ASSUME IInv, OffsetReset PROVE IInv'
  OBVIOUS
<1> USE DEF OffsetReset
<1>1. Typed
  BY DEF IInv
<1>2. next = 1 /\ Len(log) = 0
  BY <1>1 DEF IInv, Typed, Position
<1>3. Range0(applied) = {} /\ Range0(emitted) = {}
  <2>1. \A o \in Range0(applied) : o < 0 /\ o \in 0..lastSeq
    BY <1>2 DEF IInv, Exact
  <2>2. \A o \in Range0(emitted) : o < 0 /\ o \in Nat
    BY <1>1, <1>2 DEF IInv, EffectsBehind, Typed, Range0
  <2> QED
    BY <1>1, <2>1, <2>2 DEF Typed
<1>4. applied = <<>>
  <2>1. DOMAIN applied = {}
    BY <1>3 DEF Range0
  <2> QED
    BY <1>1, <2>1 DEF Typed
<1>5. Typed'
  BY <1>1 DEF Typed
<1>6. Exact(log, applied, lastSeq)' /\ SnapshotsExact'
  BY DEF IInv, SnapshotsExact
<1>7. Position'
  BY <1>1, <1>2, <1>4 DEF IInv, Typed, Position, Exact
<1>8. EffectsBehind'
  BY <1>1, <1>3 DEF IInv, Typed, EffectsBehind
<1>9. ReplayEdge'
  <2>1. target \in Int /\ target < 0 /\ next' = 0
    BY <1>1, <1>2 DEF IInv, Typed, ReplayEdge
  <2>2. ~replaying
    BY <2>1 DEF IInv, ReplayEdge
  <2> QED
    BY <2>1, <2>2 DEF IInv, ReplayEdge
<1> QED
  BY <1>5, <1>6, <1>7, <1>8, <1>9 DEF IInv

\* A snapshot is begun with the running state, and the file is replaced by it,
\* by the final one of a shutdown, or not at all.
LEMMA CheckpointIInv ==
  IInv /\ (BeginSnapshot \/ EndSnapshot \/ Shutdown \/ Crash) => IInv'
<1> SUFFICES ASSUME IInv, BeginSnapshot \/ EndSnapshot \/ Shutdown \/ Crash
             PROVE  IInv'
  OBVIOUS
<1>1. Typed
  BY DEF IInv
<1>2. /\ Snap \in Snapshot
      /\ Snap.applied = applied
      /\ Snap.lastSeq = lastSeq
  BY <1>1 DEF Typed, Snap, Snapshot
<1>3. /\ UNCHANGED <<log, next, applied, lastSeq, target, replaying, emitted>>
      /\ up' \in BOOLEAN /\ (up' => up)
      /\ stops' \in Nat
      /\ inflight' \in {inflight, Snap, NoSnapshot}
      /\ file' \in {file, inflight, Snap}
  <2>1. CASE BeginSnapshot
    BY <1>1, <2>1 DEF Typed, BeginSnapshot
  <2>2. CASE EndSnapshot
    BY <1>1, <2>2 DEF Typed, EndSnapshot
  <2>3. CASE Shutdown
    <3>1. up' \in BOOLEAN
      BY <2>3, Zenon DEF Shutdown
    <3> QED
      BY <1>1, <2>3, <3>1 DEF Typed, Shutdown, procVars
  <2>4. CASE Crash
    <3>1. up' \in BOOLEAN
      BY <2>4, Zenon DEF Crash
    <3> QED
      BY <1>1, <2>4, <3>1 DEF Typed, Crash, procVars
  <2> QED
    BY <2>1, <2>2, <2>3, <2>4
<1>4. Typed'
  BY <1>1, <1>2, <1>3 DEF Typed
<1>5. SnapshotsExact'
  <2>1. inflight' # NoSnapshot => Exact(log', inflight'.applied, inflight'.lastSeq)
    BY <1>2, <1>3 DEF IInv, SnapshotsExact
  <2>2. file' # NoSnapshot => Exact(log', file'.applied, file'.lastSeq)
    BY <1>2, <1>3 DEF IInv, SnapshotsExact
  <2> QED
    BY <2>1, <2>2 DEF SnapshotsExact
<1>6. Exact(log, applied, lastSeq)' /\ Position' /\ EffectsBehind' /\ ReplayEdge'
  BY <1>3 DEF IInv, Position, EffectsBehind, ReplayEdge
<1> QED
  BY <1>4, <1>5, <1>6 DEF IInv

\* The invariant holds throughout.
THEOREM Invariant == Spec => []IInv
<1>1. IInv /\ [Next]_vars => IInv'
  <2> SUFFICES ASSUME IInv, [Next]_vars PROVE IInv'
    OBVIOUS
  <2>1. CASE Next
    BY <2>1, ProduceIInv, StartIInv, ConsumeIInv, DropIInv, ResetIInv, CheckpointIInv
       DEF Next
  <2>2. CASE UNCHANGED vars
    BY <2>2 DEF vars, procVars, IInv, Typed, SnapshotsExact, Position,
                EffectsBehind, ReplayEdge
  <2> QED
    BY <2>1, <2>2
<1> QED
  BY InitIInv, <1>1, PTL DEF Spec

-----------------------------------------------------------------------------
(* The properties of the runs. *)

\* For any log and any crashes, shutdowns and failed snapshots, the state of a
\* running process and the snapshot file reflect exactly the good records up to
\* their LastSeq, offset 0 excepted.
THEOREM StateAlwaysMatchesPosition == Spec => []StateMatchesPosition
<1>1. IInv => StateMatchesPosition
  <2> SUFFICES ASSUME IInv PROVE StateMatchesPosition
    OBVIOUS
  <2>1. \A s : Exact(log, s.applied, s.lastSeq) => ExactPrefix(s)
    BY DEF Exact, ExactPrefix, Good
  <2>2. Exact(log, Snap.applied, Snap.lastSeq)
    BY DEF IInv, Snap
  <2> QED
    BY <2>1, <2>2 DEF IInv, SnapshotsExact, StateMatchesPosition
<1> QED
  BY <1>1, Invariant, PTL

\* No side effect is repeated: the replay of a restarted process covers
\* everything an earlier process emitted.
THEOREM EffectsAlwaysAtMostOnce == Spec => []EffectsAtMostOnce
<1>1. IInv => EffectsAtMostOnce
  BY DEF IInv, EffectsBehind, EffectsAtMostOnce
<1> QED
  BY <1>1, Invariant, PTL

\* A record up to the replay target is folded in silently, whatever happened
\* before, and one past it has its side effects unless every record polled from
\* the target on was malformed.
THEOREM AlwaysLiveEdge == Spec => LiveEdge
<1> DEFINE Edge == up /\ applied' # applied =>
                     /\ next <= target => UNCHANGED emitted
                     /\ next > target /\ PassedTarget => emitted' = Append(emitted, next)
<1>1. IInv /\ [Next]_vars => [Edge]_vars
  <2> SUFFICES ASSUME IInv, Next, up, applied' # applied PROVE Edge
    OBVIOUS
  <2>1. Consume
    BY DEF Next, Produce, Start, DropMalformed, OffsetReset, BeginSnapshot, EndSnapshot,
           Shutdown, Crash, procVars
  <2>2. next \in Nat /\ target \in Int /\ replaying \in BOOLEAN
    BY DEF IInv, Typed
  <2>3. next <= target => replaying
    BY <2>2 DEF IInv, ReplayEdge
  <2>4. PassedTarget => ~replaying
    BY <2>2 DEF IInv, ReplayEdge, PassedTarget, Good
  <2> QED
    BY <2>1, <2>3, <2>4 DEF Consume
<1> QED
  BY <1>1, Invariant, PTL DEF Spec, LiveEdge
=============================================================================
