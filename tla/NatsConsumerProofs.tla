------------------------- MODULE NatsConsumerProofs -------------------------
(***************************************************************************)
(* NATSConsumer.Run proved correct for any stream, any number of stops and *)
(* losses and any MaxAckPending.  Whatever is lost, a message due to the   *)
(* process is applied or pending (AppliedOrPending) and at most one        *)
(* message past the live edge is silent (LiveEdge).  As long as nothing    *)
(* was lost, state and file are exact (StateMatchesPosition) and no side   *)
(* effect is repeated (EffectsAtMostOnce).                                 *)
(*                                                                         *)
(* The argument for the lossless part is the relation InOrder between the  *)
(* server and the process: what is unacknowledged is what is on its way,   *)
(* in order, and it is everything this shard owns between LastSeq and the  *)
(* next delivery, malformed messages already terminated excepted.  So a    *)
(* redelivery cannot happen and the head of the queue is always the next   *)
(* message to apply.                                                       *)
(***************************************************************************)
EXTENDS NatsConsumer, TLAPS, WellFoundedInduction

Snapshot == [applied : Seq(Nat), lastSeq : Nat]

Typed ==
  /\ stream \in Seq([own : BOOLEAN, good : BOOLEAN])
  /\ up \in BOOLEAN
  /\ next \in Nat
  /\ unacked \subseteq Nat
  /\ queue \in Seq(Nat)
  /\ applied \in Seq(Nat)
  /\ lastSeq \in Nat
  /\ target \in Nat
  /\ replaying \in BOOLEAN
  /\ inflight \in Snapshot \cup {NoSnapshot}
  /\ file \in Snapshot \cup {NoSnapshot}
  /\ emitted \in Seq(Nat)
  /\ start \in Nat
  /\ stops \in Nat
  /\ losses \in Nat

\* A state a at position n mentions messages of a stream of length len only.
Within(len, a, n) == n <= len /\ \A s \in Elems(a) : s \in 1..len

\* Nothing refers to a message that is not in the stream.
Bounded ==
  /\ 1 <= start /\ start <= next /\ next <= Len(stream) + 1
  /\ \A s \in unacked : s \in 1..Len(stream)
  /\ \A s \in Elems(queue) : s \in 1..Len(stream)
  /\ \A s \in Elems(emitted) : s \in 1..Len(stream)
  /\ Within(Len(stream), applied, lastSeq)
  /\ inflight # NoSnapshot => Within(Len(stream), inflight.applied, inflight.lastSeq)
  /\ file # NoSnapshot => Within(Len(stream), file.applied, file.lastSeq)

\* The part of AppliedOrPending a process keeps even when it is down.
Pending ==
  \A s \in start..(next - 1) :
    stream[s].own /\ stream[s].good => s \in Elems(applied) \/ s \in unacked

\* A replaying process has applied nothing past its target; afterwards at most
\* one message past it is silent.
ReplayEdge ==
  /\ replaying => \A s \in Elems(applied) : s <= target
  /\ \A r, s \in Elems(applied) :
       r > target /\ r \notin Elems(emitted) /\ s > target /\ s \notin Elems(emitted)
         => r = s

\* Exact with the stream as a parameter.
ExactIn(st, a, n) ==
  /\ n <= Len(st)
  /\ Increasing(a)
  /\ \A s \in Elems(a) : s \in 1..n /\ st[s].own /\ st[s].good
  /\ \A s \in 1..n : st[s].own /\ st[s].good => s \in Elems(a)

\* As long as nothing was lost, every snapshot is exact.
SnapshotsExact ==
  /\ inflight # NoSnapshot => ExactIn(stream, inflight.applied, inflight.lastSeq)
  /\ file # NoSnapshot => ExactIn(stream, file.applied, file.lastSeq)

\* As long as nothing was lost, what is on its way is what was delivered and
\* is not processed yet, in order.
InOrder ==
  /\ ExactIn(stream, applied, lastSeq)
  /\ lastSeq < next
  /\ Increasing(queue)
  /\ unacked = Elems(queue)
  /\ \A s \in Elems(queue) : s \in (lastSeq + 1)..(next - 1) /\ stream[s].own
  /\ \A s \in (lastSeq + 1)..(next - 1) :
       stream[s].own /\ stream[s].good => s \in Elems(queue)

\* What was emitted is within the replay of a replaying process, and behind the
\* position of any other.
EffectsBehind ==
  \A s \in Elems(emitted) : IF replaying THEN s <= target ELSE s <= lastSeq

Lossless ==
  /\ SnapshotsExact
  /\ Increasing(emitted)
  /\ up => InOrder /\ EffectsBehind

IInv ==
  /\ Typed
  /\ Bounded
  /\ Pending
  /\ ReplayEdge
  /\ losses = 0 => Lossless

-----------------------------------------------------------------------------
(* Sequences of positions, and the next message of the shard. *)

\* A message that is delivered, applied or emitted joins the others.
LEMMA AppendElems ==
  ASSUME NEW a \in Seq(Nat), NEW e \in Nat
  PROVE  /\ Append(a, e) \in Seq(Nat)
         /\ Elems(Append(a, e)) = Elems(a) \cup {e}
<1> DEFINE b == Append(a, e)
<1>1. /\ b \in Seq(Nat)
      /\ DOMAIN a = 1..Len(a)
      /\ DOMAIN b = 1..(Len(a) + 1)
      /\ Len(a) \in Nat
      /\ \A i \in 1..Len(a) : b[i] = a[i]
      /\ b[Len(a) + 1] = e
  OBVIOUS
<1>2. ASSUME NEW x \in Elems(a) \cup {e} PROVE x \in Elems(b)
  <2>1. CASE x = e
    BY <1>1, <2>1 DEF Elems
  <2>2. CASE x \in Elems(a)
    <3>1. PICK i \in DOMAIN a : x = a[i]
      BY <2>2 DEF Elems
    <3>2. i \in DOMAIN b /\ b[i] = x
      BY <1>1, <3>1
    <3> QED
      BY <3>2 DEF Elems
  <2> QED
    BY <1>2, <2>1, <2>2
<1>3. ASSUME NEW x \in Elems(b) PROVE x \in Elems(a) \cup {e}
  <2>1. PICK i \in DOMAIN b : x = b[i]
    BY <1>3 DEF Elems
  <2>2. CASE i = Len(a) + 1
    BY <1>1, <2>1, <2>2
  <2>3. CASE i # Len(a) + 1
    <3>1. i \in DOMAIN a /\ x = a[i]
      BY <1>1, <2>1, <2>3
    <3> QED
      BY <3>1 DEF Elems
  <2> QED
    BY <2>2, <2>3
<1> QED
  BY <1>1, <1>2, <1>3

\* The order is kept when a later position is added.
LEMMA AppendIncreasing ==
  ASSUME NEW a \in Seq(Nat), NEW e \in Nat, Increasing(a),
         \A x \in Elems(a) : x < e
  PROVE  Increasing(Append(a, e))
<1> DEFINE b == Append(a, e)
<1>1. /\ DOMAIN a = 1..Len(a)
      /\ DOMAIN b = 1..(Len(a) + 1)
      /\ Len(a) \in Nat
      /\ \A i \in 1..Len(a) : b[i] = a[i]
      /\ b[Len(a) + 1] = e
  OBVIOUS
<1>2. \A i \in DOMAIN a : a[i] \in Elems(a)
  BY DEF Elems
<1>3. ASSUME NEW i \in DOMAIN b, NEW j \in DOMAIN b, i < j PROVE b[i] < b[j]
  <2>1. i \in DOMAIN a
    BY <1>1, <1>3
  <2>2. CASE j = Len(a) + 1
    BY <1>1, <1>2, <2>1, <2>2
  <2>3. CASE j # Len(a) + 1
    <3>1. j \in DOMAIN a
      BY <1>1, <2>3
    <3> QED
      BY <1>1, <1>3, <2>1, <3>1 DEF Increasing
  <2> QED
    BY <2>2, <2>3
<1> QED
  BY <1>3 DEF Increasing

\* iter.Next takes the head off the queue.
LEMMA HeadTail ==
  ASSUME NEW q \in Seq(Nat), q # <<>>
  PROVE  /\ Head(q) \in Elems(q)
         /\ Tail(q) \in Seq(Nat)
         /\ Elems(q) = {Head(q)} \cup Elems(Tail(q))
         /\ \A x \in Elems(q) : x \in Nat
<1>1. /\ Len(q) \in Nat \ {0}
      /\ DOMAIN q = 1..Len(q)
      /\ Tail(q) \in Seq(Nat)
      /\ DOMAIN Tail(q) = 1..(Len(q) - 1)
      /\ \A i \in 1..(Len(q) - 1) : Tail(q)[i] = q[i + 1]
      /\ Head(q) = q[1]
  OBVIOUS
<1>2. ASSUME NEW x \in Elems(Tail(q)) PROVE x \in Elems(q)
  <2>1. PICK i \in DOMAIN Tail(q) : x = Tail(q)[i]
    BY <1>2 DEF Elems
  <2>2. i + 1 \in DOMAIN q /\ x = q[i + 1]
    BY <1>1, <2>1
  <2> QED
    BY <2>2 DEF Elems
<1>3. ASSUME NEW x \in Elems(q) PROVE x = Head(q) \/ x \in Elems(Tail(q))
  <2>1. PICK i \in DOMAIN q : x = q[i]
    BY <1>3 DEF Elems
  <2>2. CASE i = 1
    BY <1>1, <2>1, <2>2
  <2>3. CASE i # 1
    <3>1. i - 1 \in DOMAIN Tail(q) /\ x = Tail(q)[i - 1]
      BY <1>1, <2>1, <2>3
    <3> QED
      BY <3>1 DEF Elems
  <2> QED
    BY <2>2, <2>3
<1>4. Head(q) \in Elems(q)
  BY <1>1 DEF Elems
<1>5. \A x \in Elems(q) : x \in Nat
  BY DEF Elems
<1> QED
  BY <1>1, <1>2, <1>3, <1>4, <1>5

\* The head of an ordered queue comes before the rest.
LEMMA HeadSmallest ==
  ASSUME NEW q \in Seq(Nat), q # <<>>, Increasing(q)
  PROVE  /\ \A x \in Elems(Tail(q)) : Head(q) < x
         /\ Increasing(Tail(q))
<1>1. /\ Len(q) \in Nat \ {0}
      /\ DOMAIN q = 1..Len(q)
      /\ DOMAIN Tail(q) = 1..(Len(q) - 1)
      /\ \A i \in 1..(Len(q) - 1) : Tail(q)[i] = q[i + 1]
      /\ Head(q) = q[1]
  OBVIOUS
<1>2. ASSUME NEW x \in Elems(Tail(q)) PROVE Head(q) < x
  <2>1. PICK i \in DOMAIN Tail(q) : x = Tail(q)[i]
    BY <1>2 DEF Elems
  <2>2. i + 1 \in DOMAIN q /\ 1 \in DOMAIN q /\ 1 < i + 1 /\ x = q[i + 1]
    BY <1>1, <2>1
  <2> QED
    BY <1>1, <2>2 DEF Increasing
<1>3. ASSUME NEW i \in DOMAIN Tail(q), NEW j \in DOMAIN Tail(q), i < j
      PROVE  Tail(q)[i] < Tail(q)[j]
  <2>1. i + 1 \in DOMAIN q /\ j + 1 \in DOMAIN q /\ i + 1 < j + 1
    BY <1>1, <1>3
  <2> QED
    BY <1>1, <2>1 DEF Increasing
<1> QED
  BY <1>2, <1>3 DEF Increasing

\* A fresh process: nothing applied, nothing on its way.
LEMMA EmptyElems ==
  Elems(<<>>) = {} /\ Increasing(<<>>) /\ <<>> \in Seq(Nat)
<1>1. DOMAIN <<>> = {} /\ <<>> \in Seq(Nat)
  OBVIOUS
<1> QED
  BY <1>1 DEF Elems, Increasing

\* JetStream delivers the first message of the shard from next on.
LEMMA FirstOwn ==
  ASSUME Typed, OwnFrom(next) # {}
  PROVE  LET s == Min(OwnFrom(next)) IN
           /\ s \in next..Len(stream)
           /\ stream[s].own
           /\ \A r \in next..(s - 1) : ~stream[r].own
<1> DEFINE S == OwnFrom(next)
<1>1. next \in Nat /\ Len(stream) \in Nat
  BY DEF Typed
<1>2. S \in SUBSET Nat
  BY <1>1 DEF OwnFrom
<1>3. \E x \in S : \A y \in S : x <= y
  <2>1. PICK x \in S : \A y \in S : <<y, x>> \notin OpToRel(<, Nat)
    BY <1>2, WFMin, NatLessThanWellFounded
  <2>2. \A y \in S : ~(y < x)
    BY <1>2, <2>1 DEF OpToRel
  <2> QED
    BY <1>2, <2>2
<1>4. Min(S) \in S /\ \A y \in S : Min(S) <= y
  BY <1>3 DEF Min
<1>5. \A r \in next..(Min(S) - 1) : r \notin S
  BY <1>1, <1>2, <1>4
<1>6. Min(S) \in next..Len(stream) /\ stream[Min(S)].own
  BY <1>4 DEF OwnFrom, Own
<1>7. \A r \in next..(Min(S) - 1) : r \in next..Len(stream)
  BY <1>1, <1>6
<1>8. \A r \in next..(Min(S) - 1) : ~stream[r].own
  BY <1>5, <1>7 DEF OwnFrom, Own
<1> QED
  BY <1>6, <1>8

\* A state or a snapshot stays exact when a message is published.
LEMMA ExactGrows ==
  ASSUME NEW st \in Seq([own : BOOLEAN, good : BOOLEAN]),
         NEW m \in [own : BOOLEAN, good : BOOLEAN],
         NEW a \in Seq(Nat), NEW n \in Nat
  PROVE  /\ Within(Len(st), a, n) => Within(Len(st) + 1, a, n)
         /\ ExactIn(st, a, n) => ExactIn(Append(st, m), a, n)
<1>1. /\ Len(Append(st, m)) = Len(st) + 1
      /\ Len(st) \in Nat
      /\ \A s \in 1..Len(st) : Append(st, m)[s] = st[s]
  OBVIOUS
<1>2. ASSUME ExactIn(st, a, n) PROVE ExactIn(Append(st, m), a, n)
  <2>1. \A s \in 1..n : s \in 1..Len(st)
    BY <1>1, <1>2 DEF ExactIn
  <2> QED
    BY <1>1, <1>2, <2>1 DEF ExactIn
<1> QED
  BY <1>1, <1>2 DEF Within

\* ProcessEvent on the next good message of the shard keeps the state exact.
LEMMA ExactConsume ==
  ASSUME NEW st \in Seq([own : BOOLEAN, good : BOOLEAN]),
         NEW a \in Seq(Nat), NEW n \in Nat, ExactIn(st, a, n),
         NEW s \in (n + 1)..Len(st), st[s].own, st[s].good,
         \A r \in (n + 1)..(s - 1) : ~(st[r].own /\ st[r].good)
  PROVE  ExactIn(st, Append(a, s), s)
<1>1. s \in Nat /\ n < s /\ s <= Len(st)
  OBVIOUS
<1>2. Append(a, s) \in Seq(Nat) /\ Elems(Append(a, s)) = Elems(a) \cup {s}
  BY <1>1, AppendElems
<1>3. \A x \in Elems(a) : x < s /\ x \in 1..s
  BY <1>1 DEF ExactIn
<1>4. Increasing(Append(a, s))
  BY <1>1, <1>3, AppendIncreasing DEF ExactIn
<1>5. \A x \in Elems(Append(a, s)) : x \in 1..s /\ st[x].own /\ st[x].good
  BY <1>1, <1>2, <1>3 DEF ExactIn
<1>6. ASSUME NEW x \in 1..s, st[x].own, st[x].good PROVE x \in Elems(Append(a, s))
  BY <1>1, <1>2, <1>6 DEF ExactIn
<1> QED
  BY <1>1, <1>4, <1>5, <1>6 DEF ExactIn

-----------------------------------------------------------------------------
(* The inductive invariant. *)

\* An empty stream and no process.
LEMMA InitIInv == Init => IInv
<1> SUFFICES ASSUME Init PROVE IInv
  OBVIOUS
<1> USE DEF Init
<1>1. /\ <<>> \in Seq([own : BOOLEAN, good : BOOLEAN])
      /\ Len(<<>>) = 0
  OBVIOUS
<1>2. Typed
  <2>1. up \in BOOLEAN /\ replaying \in BOOLEAN
    BY Zenon
  <2>2. 0 \in Nat /\ 1 \in Nat
    OBVIOUS
  <2> QED
    BY <1>1, <2>1, <2>2, EmptyElems, Zenon DEF Typed
<1>3. Bounded
  BY <1>1, EmptyElems DEF Bounded, Within
<1>4. Pending /\ ReplayEdge
  BY EmptyElems DEF Pending, ReplayEdge
<1>5. Lossless
  BY EmptyElems DEF Lossless, SnapshotsExact
<1> QED
  BY <1>2, <1>3, <1>4, <1>5 DEF IInv

\* Publishing, to this shard or another, disturbs nothing.
LEMMA PublishIInv == IInv /\ Publish => IInv'
<1> SUFFICES ASSUME IInv, Publish PROVE IInv'
  OBVIOUS
<1>1. Typed /\ Bounded /\ Pending /\ ReplayEdge
  BY DEF IInv
<1>2. PICK m \in [own : BOOLEAN, good : BOOLEAN] : stream' = Append(stream, m)
  BY DEF Publish
<1>3. UNCHANGED <<up, next, unacked, queue, applied, lastSeq, replaying, inflight,
                  target, file, emitted, start, stops, losses>>
  BY DEF Publish, server, engine
<1>4. /\ Len(stream') = Len(stream) + 1
      /\ Len(stream) \in Nat
      /\ \A s \in 1..Len(stream) : stream'[s] = stream[s]
  BY <1>1, <1>2 DEF Typed
<1>5. Typed'
  BY <1>1, <1>2, <1>3 DEF Typed
<1>6. Bounded'
  <2>1. Within(Len(stream'), applied, lastSeq)
    BY <1>1, <1>2, <1>4, ExactGrows DEF Typed, Bounded
  <2>2. inflight # NoSnapshot => Within(Len(stream'), inflight.applied, inflight.lastSeq)
    BY <1>1, <1>2, <1>4, ExactGrows DEF Typed, Bounded, Snapshot
  <2>3. file # NoSnapshot => Within(Len(stream'), file.applied, file.lastSeq)
    BY <1>1, <1>2, <1>4, ExactGrows DEF Typed, Bounded, Snapshot
  <2> QED
    BY <1>1, <1>3, <1>4, <2>1, <2>2, <2>3 DEF Typed, Bounded
<1>7. \A s \in Nat : s >= 1 /\ s < next => s \in 1..Len(stream) /\ stream'[s] = stream[s]
  BY <1>1, <1>4 DEF Typed, Bounded
<1>8. Pending'
  <2>1. \A s \in start..(next - 1) : s \in Nat /\ s >= 1 /\ s < next
    BY <1>1 DEF Typed, Bounded
  <2>2. \A s \in start..(next - 1) : stream'[s] = stream[s]
    BY <1>7, <2>1
  <2> QED
    BY <1>1, <1>3, <2>2 DEF Pending
<1>9. ReplayEdge'
  BY <1>1, <1>3 DEF ReplayEdge
<1>10. ASSUME losses = 0 PROVE Lossless'
  <2>1. Lossless
    BY <1>10 DEF IInv
  <2>2. SnapshotsExact'
    <3>1. inflight # NoSnapshot => ExactIn(stream', inflight.applied, inflight.lastSeq)
      BY <1>1, <1>2, <2>1, ExactGrows DEF Typed, Lossless, SnapshotsExact, Snapshot
    <3>2. file # NoSnapshot => ExactIn(stream', file.applied, file.lastSeq)
      BY <1>1, <1>2, <2>1, ExactGrows DEF Typed, Lossless, SnapshotsExact, Snapshot
    <3> QED
      BY <1>3, <3>1, <3>2 DEF SnapshotsExact
  <2>3. ASSUME up PROVE InOrder' /\ EffectsBehind'
    <3>1. InOrder /\ EffectsBehind
      BY <2>1, <2>3 DEF Lossless
    <3>2. ExactIn(stream', applied, lastSeq)
      BY <1>1, <1>2, <3>1, ExactGrows DEF Typed, InOrder
    <3>3. \A s \in (lastSeq + 1)..(next - 1) : stream'[s] = stream[s]
      BY <1>1, <1>7 DEF Typed
    <3>4. InOrder'
      BY <1>3, <3>1, <3>2, <3>3 DEF InOrder
    <3> QED
      BY <1>3, <3>1, <3>4 DEF EffectsBehind
  <2> QED
    BY <1>3, <2>1, <2>2, <2>3 DEF Lossless
<1> QED
  BY <1>3, <1>5, <1>6, <1>8, <1>9, <1>10 DEF IInv

\* Restore, replay target, ephemeral consumer: nothing is on its way, and what
\* earlier processes emitted is within the replay or behind it.
LEMMA StartIInv == IInv /\ Start => IInv'
<1> SUFFICES ASSUME IInv, Start PROVE IInv'
  OBVIOUS
<1>1. Typed /\ Bounded
  BY DEF IInv
<1>2. Len(stream) \in Nat
  BY <1>1 DEF Typed
<1>3. /\ UNCHANGED <<stream, file, emitted, stops, losses>>
      /\ inflight' = NoSnapshot
      /\ queue' = <<>>
      /\ unacked' = {}
      /\ target' = Len(stream)
      /\ start' = next'
  BY DEF Start
<1>4. /\ applied' \in Seq(Nat)
      /\ lastSeq' \in Nat
      /\ lastSeq' + 1 = next'
      /\ Within(Len(stream), applied', lastSeq')
      /\ losses = 0 => ExactIn(stream, applied', lastSeq')
  <2>1. CASE file = NoSnapshot
    <3>1. applied' = <<>> /\ lastSeq' = 0 /\ next' = 1
      BY <2>1 DEF Start, StartSeq
    <3> QED
      BY <1>2, <3>1, EmptyElems DEF Within, ExactIn
  <2>2. CASE file # NoSnapshot
    <3>1. applied' = file.applied /\ lastSeq' = file.lastSeq /\ next' = file.lastSeq + 1
      BY <2>2 DEF Start, StartSeq
    <3>2. file.applied \in Seq(Nat) /\ file.lastSeq \in Nat
      BY <1>1, <2>2 DEF Typed, Snapshot
    <3> QED
      BY <1>1, <2>2, <3>1, <3>2 DEF IInv, Bounded, Lossless, SnapshotsExact
  <2> QED
    BY <2>1, <2>2
<1>5. /\ replaying' \in BOOLEAN
      /\ replaying' => next' <= target'
      /\ ~replaying' => ~(target' > 0 /\ next' <= target')
  BY DEF Start
<1>6. up' \in BOOLEAN
  BY Zenon DEF Start
<1>7. Typed'
  <2>1. start' \in Nat /\ next' \in Nat /\ target' \in Nat /\ unacked' \subseteq Nat
    BY <1>2, <1>3, <1>4
  <2> QED
    BY <1>1, <1>3, <1>4, <1>5, <1>6, <2>1, EmptyElems, Zenon DEF Typed
<1>8. Bounded'
  BY <1>1, <1>2, <1>3, <1>4, EmptyElems DEF Bounded, Within
<1>9. Pending'
  <2>1. start'..(next' - 1) = {}
    BY <1>3, <1>4
  <2> QED
    BY <2>1 DEF Pending
<1>10. ReplayEdge'
  BY <1>2, <1>3, <1>4 DEF ReplayEdge, Within
<1>11. ASSUME losses = 0 PROVE Lossless'
  <2>1. Lossless
    BY <1>11 DEF IInv
  <2>2. SnapshotsExact' /\ Increasing(emitted')
    BY <1>3, <2>1 DEF Lossless, SnapshotsExact
  <2>3. InOrder'
    <3>1. (lastSeq' + 1)..(next' - 1) = {} /\ lastSeq' < next'
      BY <1>4
    <3>2. ExactIn(stream', applied', lastSeq')
      BY <1>3, <1>4, <1>11
    <3> QED
      BY <1>3, <3>1, <3>2, EmptyElems DEF InOrder
  <2>4. ASSUME NEW s \in Elems(emitted')
        PROVE  IF replaying' THEN s <= target' ELSE s <= lastSeq'
    <3>1. s \in 1..Len(stream)
      BY <1>1, <1>3 DEF Bounded
    <3> QED
      BY <1>2, <1>3, <1>4, <1>5, <3>1
  <2> QED
    BY <2>2, <2>3, <2>4 DEF Lossless, EffectsBehind
<1> QED
  BY <1>3, <1>7, <1>8, <1>9, <1>10, <1>11 DEF IInv

\* JetStream delivers the next message of the shard: it is pending and last in
\* the queue.
LEMMA DeliverIInv == IInv /\ Deliver => IInv'
<1> SUFFICES ASSUME IInv, Deliver PROVE IInv'
  OBVIOUS
<1>1. Typed /\ Bounded /\ Pending /\ ReplayEdge
  BY DEF IInv
<1>2. PICK s : /\ s = Min(OwnFrom(next))
               /\ next' = s + 1
               /\ unacked' = unacked \cup {s}
               /\ queue' = Append(queue, s)
  BY DEF Deliver
<1>3. /\ s \in next..Len(stream)
      /\ stream[s].own
      /\ \A r \in next..(s - 1) : ~stream[r].own
  BY <1>1, <1>2, FirstOwn DEF Deliver
<1>4. UNCHANGED <<stream, up, applied, lastSeq, replaying, inflight, target, file,
                  emitted, start, stops, losses>>
  BY DEF Deliver, engine
<1>5. /\ Len(stream) \in Nat /\ next \in Nat /\ start \in Nat /\ lastSeq \in Nat
      /\ 1 <= start /\ start <= next /\ s \in Nat /\ next <= s /\ s <= Len(stream)
  BY <1>1, <1>3 DEF Typed, Bounded
<1>6. queue' \in Seq(Nat) /\ Elems(queue') = Elems(queue) \cup {s}
  BY <1>1, <1>2, <1>5, AppendElems DEF Typed
<1>7. Typed'
  <2>1. s + 1 \in Nat /\ unacked \cup {s} \subseteq Nat
    BY <1>1, <1>5 DEF Typed
  <2> QED
    BY <1>1, <1>2, <1>4, <1>6, <2>1, Zenon DEF Typed
<1>8. Bounded'
  BY <1>1, <1>2, <1>4, <1>5, <1>6 DEF Bounded
<1>9. Pending'
  <2>1. ASSUME NEW r \in start..s, stream[r].own, stream[r].good
        PROVE  r \in Elems(applied) \/ r \in unacked \cup {s}
    <3>1. CASE r < next
      BY <1>1, <1>5, <2>1, <3>1 DEF Pending
    <3>2. CASE r >= next /\ r < s
      BY <1>3, <1>5, <2>1, <3>2
    <3> QED
      BY <1>5, <3>1, <3>2
  <2>2. start..(next' - 1) = start..s
    BY <1>2, <1>5
  <2> QED
    BY <1>2, <1>4, <2>1, <2>2 DEF Pending
<1>10. ReplayEdge'
  BY <1>1, <1>4 DEF ReplayEdge
<1>11. ASSUME losses = 0 PROVE Lossless'
  <2>1. Lossless
    BY <1>11 DEF IInv
  <2>2. InOrder /\ EffectsBehind
    BY <2>1 DEF Lossless, Deliver
  <2>3. Increasing(queue')
    <3>1. \A x \in Elems(queue) : x < s
      BY <1>5, <2>2 DEF InOrder
    <3> QED
      BY <1>1, <1>2, <1>5, <2>2, <3>1, AppendIncreasing DEF InOrder, Typed
  <2>4. \A r \in Elems(queue') : r \in (lastSeq + 1)..s /\ stream[r].own
    BY <1>3, <1>5, <1>6, <2>2 DEF InOrder
  <2>5. ASSUME NEW r \in (lastSeq + 1)..s, stream[r].own, stream[r].good
        PROVE  r \in Elems(queue')
    BY <1>3, <1>5, <1>6, <2>2, <2>5 DEF InOrder
  <2>6. (lastSeq + 1)..(next' - 1) = (lastSeq + 1)..s /\ lastSeq < next'
    BY <1>2, <1>5, <2>2 DEF InOrder
  <2>7. InOrder'
    BY <1>2, <1>4, <1>6, <2>2, <2>3, <2>4, <2>5, <2>6 DEF InOrder
  <2> QED
    BY <1>4, <2>1, <2>2, <2>7 DEF Lossless, SnapshotsExact, EffectsBehind
<1> QED
  BY <1>4, <1>7, <1>8, <1>9, <1>10, <1>11 DEF IInv

\* The queue of a disconnect or of a second delivery: no more than what was
\* delivered.  Without a loss there is no second delivery at all.
LEMMA DeliverAgainIInv == IInv /\ (Redeliver \/ Disconnect \/ AckTimeout) => IInv'
<1> SUFFICES ASSUME IInv, Redeliver \/ Disconnect \/ AckTimeout PROVE IInv'
  OBVIOUS
<1>1. Typed /\ Bounded /\ Pending /\ ReplayEdge
  BY DEF IInv
<1>2. /\ UNCHANGED <<stream, up, next, unacked, applied, lastSeq, replaying, inflight,
                     target, file, emitted, start, stops>>
      /\ losses' \in Nat
  <2>1. losses \in Nat
    BY <1>1 DEF Typed
  <2>2. CASE Redeliver
    BY <2>1, <2>2 DEF Redeliver, engine
  <2>3. CASE Disconnect
    BY <2>1, <2>3 DEF Disconnect, engine
  <2>4. CASE AckTimeout
    BY <2>1, <2>4 DEF AckTimeout, engine
  <2> QED
    BY <2>2, <2>3, <2>4
<1>3. losses' # 0
  <2>1. CASE Redeliver
    <3>1. PICK s \in unacked : \A i \in DOMAIN queue : queue[i] # s
      BY <2>1 DEF Redeliver
    <3>2. s \notin Elems(queue)
      BY <3>1 DEF Elems
    <3>3. losses # 0
      BY <2>1, <3>1, <3>2 DEF IInv, Lossless, InOrder, Redeliver
    <3> QED
      BY <2>1, <3>3 DEF Redeliver
  <2>2. CASE Disconnect \/ AckTimeout
    BY <1>1, <2>2 DEF Typed, Disconnect, AckTimeout
  <2> QED
    BY <2>1, <2>2
<1>4. queue' \in Seq(Nat) /\ \A s \in Elems(queue') : s \in 1..Len(stream)
  <2>1. CASE Disconnect
    BY <2>1, EmptyElems DEF Disconnect
  <2>2. CASE Redeliver \/ AckTimeout
    <3>1. PICK s \in unacked : queue' = Append(queue, s)
      BY <2>2 DEF Redeliver, AckTimeout
    <3>2. s \in Nat /\ s \in 1..Len(stream)
      BY <1>1 DEF Typed, Bounded
    <3> QED
      BY <1>1, <3>1, <3>2, AppendElems DEF Typed, Bounded
  <2> QED
    BY <2>1, <2>2
<1>5. Typed'
  BY <1>1, <1>2, <1>4 DEF Typed
<1>6. Bounded'
  BY <1>1, <1>2, <1>4 DEF Bounded
<1>7. Pending' /\ ReplayEdge'
  BY <1>1, <1>2 DEF Pending, ReplayEdge
<1> QED
  BY <1>3, <1>5, <1>6, <1>7 DEF IInv

\* ProcessEvent, Ack, lastSeq, end of replay and tick: the message is applied
\* before it leaves the pending ones, and it is the next one unless something
\* was lost.
LEMMA ConsumeIInv == IInv /\ Consume => IInv'
<1> SUFFICES ASSUME IInv, Consume PROVE IInv'
  OBVIOUS
<1>1. Typed /\ Bounded /\ Pending /\ ReplayEdge
  BY DEF IInv
<1> DEFINE s == Head(queue)
<1>2. /\ queue # <<>>
      /\ up
      /\ stream[s].good
      /\ applied' = Append(applied, s)
      /\ lastSeq' = s
      /\ emitted' = IF replaying THEN emitted ELSE Append(emitted, s)
      /\ queue' = Tail(queue)
      /\ unacked \ {s} \subseteq unacked'
      /\ unacked' \subseteq unacked
      /\ UNCHANGED <<stream, up, next, target, file, start, stops>>
  BY DEF Consume, Good, Emit
<1>3. /\ inflight' \in {inflight, NoSnapshot, Checkpoint(applied', lastSeq')}
      /\ replaying' = (replaying /\ ~EndsReplay(s))
      /\ losses' \in {losses, losses + 1}
      /\ losses' = 0 => losses = 0 /\ unacked' = unacked \ {s}
  BY <1>1 DEF Consume, Tick, Typed
<1>4. /\ s \in Elems(queue)
      /\ queue' \in Seq(Nat)
      /\ Elems(queue) = {s} \cup Elems(queue')
  BY <1>1, <1>2, HeadTail DEF Typed
<1>5. s \in 1..Len(stream) /\ s \in Nat /\ Len(stream) \in Nat
  <2>1. s \in 1..Len(stream)
    BY <1>1, <1>4, Zenon DEF Bounded
  <2>2. Len(stream) \in Nat
    BY <1>1 DEF Typed
  <2> QED
    BY <2>1, <2>2
<1>6. applied' \in Seq(Nat) /\ Elems(applied') = Elems(applied) \cup {s}
  BY <1>1, <1>2, <1>5, AppendElems DEF Typed
<1>7. /\ emitted' \in Seq(Nat)
      /\ Elems(emitted') = IF replaying THEN Elems(emitted) ELSE Elems(emitted) \cup {s}
  BY <1>1, <1>2, <1>5, AppendElems DEF Typed
<1>8. /\ Checkpoint(applied', lastSeq') \in Snapshot
      /\ Checkpoint(applied', lastSeq').applied = applied'
      /\ Checkpoint(applied', lastSeq').lastSeq = lastSeq'
  BY <1>2, <1>5, <1>6 DEF Checkpoint, Snapshot
<1>9. replaying' \in BOOLEAN /\ up' \in BOOLEAN
  BY <1>1, <1>2, <1>3 DEF Typed
<1>10. Typed'
  <2>1. inflight' \in Snapshot \cup {NoSnapshot}
    BY <1>1, <1>3, <1>8 DEF Typed
  <2>2. lastSeq' \in Nat /\ losses' \in Nat /\ unacked' \subseteq Nat
    BY <1>1, <1>2, <1>3, <1>5 DEF Typed
  <2> QED
    BY <1>1, <1>2, <1>4, <1>6, <1>7, <1>9, <2>1, <2>2 DEF Typed
<1>11. Bounded'
  <2>1. Within(Len(stream), applied', lastSeq')
    BY <1>1, <1>2, <1>5, <1>6 DEF Bounded, Within
  <2>2. inflight' # NoSnapshot => Within(Len(stream), inflight'.applied, inflight'.lastSeq)
    BY <1>1, <1>3, <1>8, <2>1 DEF Bounded
  <2>3. \A r \in Elems(queue') \cup Elems(emitted') \cup unacked' : r \in 1..Len(stream)
    BY <1>1, <1>2, <1>4, <1>5, <1>7 DEF Bounded
  <2> QED
    BY <1>1, <1>2, <2>1, <2>2, <2>3 DEF Bounded
<1>12. Pending'
  BY <1>1, <1>2, <1>6 DEF Pending
<1>13. ReplayEdge'
  <2>1. CASE replaying
    <3>1. \A r \in Elems(applied) : r <= target
      BY <1>1, <2>1 DEF ReplayEdge
    <3>2. replaying' => ~(s >= target)
      BY <1>3, Zenon DEF EndsReplay
    <3>3. replaying' => s <= target
      BY <1>1, <1>5, <3>2 DEF Typed
    <3>4. \A r \in Elems(applied) : r \in Nat
      BY <1>1 DEF Typed, Elems
    <3>5. \A r \in Elems(applied') : r > target => r = s
      BY <1>1, <1>6, <3>1, <3>4 DEF Typed
    <3> QED
      BY <1>2, <1>6, <3>1, <3>3, <3>5 DEF ReplayEdge
  <2>2. CASE ~replaying
    BY <1>1, <1>2, <1>3, <1>6, <1>7, <2>2 DEF ReplayEdge
  <2> QED
    BY <1>1, <2>1, <2>2 DEF Typed
<1>14. ASSUME losses' = 0 PROVE Lossless'
  <2>1. Lossless /\ InOrder /\ EffectsBehind
    BY <1>2, <1>3, <1>14 DEF IInv, Lossless
  <2>2. unacked' = unacked \ {s}
    BY <1>3, <1>14
  <2>3. Increasing(queue') /\ \A r \in Elems(queue') : s < r
    BY <1>1, <1>2, <2>1, HeadSmallest DEF Typed, InOrder
  <2>4. /\ s \in (lastSeq + 1)..(next - 1) /\ stream[s].own
        /\ next \in Nat /\ lastSeq \in Nat /\ next <= Len(stream) + 1
    BY <1>1, <1>4, <2>1 DEF InOrder, Typed, Bounded
  <2>5. ASSUME NEW r \in (lastSeq + 1)..(s - 1)
        PROVE  ~(stream[r].own /\ stream[r].good)
    <3>1. r \in (lastSeq + 1)..(next - 1) /\ r < s /\ r \in Nat
      BY <2>4
    <3>2. r \notin Elems(queue)
      BY <1>4, <1>5, <2>3, <3>1
    <3> QED
      BY <2>1, <3>1, <3>2 DEF InOrder
  <2>6. ExactIn(stream, applied', lastSeq')
    <3>1. s \in (lastSeq + 1)..Len(stream)
      BY <1>5, <2>4
    <3> QED
      BY <1>1, <1>2, <2>1, <2>4, <2>5, <3>1, ExactConsume DEF Typed, InOrder
  <2>7. s \notin Elems(queue')
    BY <1>5, <2>3
  <2>8. InOrder'
    <3>1. \A r \in Elems(queue') : r \in (s + 1)..(next - 1) /\ stream[r].own
      BY <1>4, <1>5, <2>1, <2>3, <2>4 DEF InOrder
    <3>2. ASSUME NEW r \in (s + 1)..(next - 1), stream[r].own, stream[r].good
          PROVE  r \in Elems(queue')
      <4>1. r \in (lastSeq + 1)..(next - 1) /\ r # s
        BY <1>5, <2>4
      <4> QED
        BY <1>4, <2>1, <3>2, <4>1 DEF InOrder
    <3>3. unacked' = Elems(queue')
      BY <1>4, <2>1, <2>2, <2>7 DEF InOrder
    <3>4. s < next
      BY <1>5, <2>4
    <3> QED
      BY <1>2, <2>3, <2>6, <3>1, <3>2, <3>3, <3>4 DEF InOrder
  <2>9. SnapshotsExact'
    <3>1. inflight' # NoSnapshot => ExactIn(stream, inflight'.applied, inflight'.lastSeq)
      BY <1>3, <1>8, <2>1, <2>6 DEF Lossless, SnapshotsExact
    <3> QED
      BY <1>2, <2>1, <3>1 DEF Lossless, SnapshotsExact
  <2>10. Increasing(emitted') /\ EffectsBehind'
    <3>0. \A r \in Elems(emitted) : r \in Nat
      BY <1>1 DEF Typed, Elems
    <3>1. CASE replaying
      <4>1. emitted' = emitted /\ \A r \in Elems(emitted) : r <= target
        BY <1>2, <2>1, <3>1 DEF EffectsBehind
      <4>2. ~replaying' => s >= target
        BY <1>3, <3>1, Zenon DEF EndsReplay
      <4>3. ~replaying' => \A r \in Elems(emitted) : r <= s
        BY <1>1, <1>5, <3>0, <4>1, <4>2 DEF Typed
      <4> QED
        BY <1>2, <2>1, <4>1, <4>3 DEF Lossless, EffectsBehind
    <3>2. CASE ~replaying
      <4>1. \A r \in Elems(emitted) : r < s
        BY <1>5, <2>1, <2>4, <3>0, <3>2 DEF EffectsBehind
      <4>2. Increasing(emitted')
        BY <1>1, <1>2, <1>5, <2>1, <3>2, <4>1, AppendIncreasing DEF Typed, Lossless
      <4>3. ~replaying'
        BY <1>3, <3>2
      <4>4. \A r \in Elems(emitted') : r <= s
        BY <1>5, <1>7, <3>0, <3>2, <4>1
      <4> QED
        BY <1>2, <4>2, <4>3, <4>4 DEF EffectsBehind
    <3> QED
      BY <1>1, <3>1, <3>2 DEF Typed
  <2> QED
    BY <2>8, <2>9, <2>10 DEF Lossless
<1> QED
  BY <1>10, <1>11, <1>12, <1>13, <1>14 DEF IInv

\* A malformed message is terminated: it leaves the queue and the pending ones.
LEMMA TerminateIInv == IInv /\ Terminate => IInv'
<1> SUFFICES ASSUME IInv, Terminate PROVE IInv'
  OBVIOUS
<1>1. Typed /\ Bounded /\ Pending /\ ReplayEdge
  BY DEF IInv
<1> DEFINE s == Head(queue)
<1>2. /\ queue # <<>>
      /\ up
      /\ ~stream[s].good
      /\ unacked' = unacked \ {s}
      /\ queue' = Tail(queue)
      /\ UNCHANGED <<stream, up, next, applied, lastSeq, replaying, inflight, target,
                     file, emitted, start, stops, losses>>
  BY DEF Terminate, Good, engine
<1>3. /\ s \in Elems(queue)
      /\ queue' \in Seq(Nat)
      /\ Elems(queue) = {s} \cup Elems(queue')
      /\ \A x \in Elems(queue) : x \in Nat
  BY <1>1, <1>2, HeadTail DEF Typed
<1>4. Typed'
  BY <1>1, <1>2, <1>3 DEF Typed
<1>5. Bounded'
  BY <1>1, <1>2, <1>3 DEF Bounded
<1>6. Pending'
  BY <1>1, <1>2 DEF Pending
<1>7. ReplayEdge'
  BY <1>1, <1>2 DEF ReplayEdge
<1>8. ASSUME losses = 0 PROVE Lossless'
  <2>1. Lossless /\ InOrder /\ EffectsBehind
    BY <1>2, <1>8 DEF IInv, Lossless
  <2>2. Increasing(queue') /\ \A r \in Elems(queue') : s < r
    BY <1>1, <1>2, <2>1, HeadSmallest DEF Typed, InOrder
  <2>3. s \notin Elems(queue')
    <3>1. s \in Nat
      BY <1>3
    <3> QED
      BY <2>2, <3>1
  <2>4. unacked' = Elems(queue')
    BY <1>2, <1>3, <2>1, <2>3 DEF InOrder
  <2>5. \A r \in (lastSeq + 1)..(next - 1) :
          stream[r].own /\ stream[r].good => r \in Elems(queue')
    BY <1>2, <1>3, <2>1 DEF InOrder
  <2>6. InOrder'
    BY <1>2, <1>3, <2>1, <2>2, <2>4, <2>5 DEF InOrder
  <2> QED
    BY <1>2, <2>1, <2>6 DEF Lossless, SnapshotsExact, EffectsBehind
<1> QED
  BY <1>2, <1>4, <1>5, <1>6, <1>7, <1>8 DEF IInv

\* Ack fails: the side effects of the message at hand are out, the process is
\* gone and the next one replays that message.
LEMMA AckErrorIInv == IInv /\ AckError => IInv'
<1> SUFFICES ASSUME IInv, AckError PROVE IInv'
  OBVIOUS
<1>1. Typed /\ Bounded /\ Pending /\ ReplayEdge
  BY DEF IInv
<1> DEFINE s == Head(queue)
<1>2. /\ queue # <<>>
      /\ up
      /\ emitted' = IF replaying THEN emitted ELSE Append(emitted, s)
      /\ UNCHANGED <<stream, next, unacked, queue, applied, lastSeq, replaying,
                     inflight, target, file, start, losses>>
  BY DEF AckError, Emit, server, engine
<1>3. up' \in BOOLEAN /\ ~up'
  BY Zenon DEF AckError
<1>4. s \in Elems(queue) /\ \A x \in Elems(queue) : x \in Nat
  BY <1>1, <1>2, HeadTail DEF Typed
<1>5. s \in 1..Len(stream) /\ s \in Nat
  <2>1. s \in 1..Len(stream)
    BY <1>1, <1>4, Zenon DEF Bounded
  <2>2. Len(stream) \in Nat
    BY <1>1 DEF Typed
  <2> QED
    BY <2>1, <2>2
<1>6. /\ emitted' \in Seq(Nat)
      /\ Elems(emitted') = IF replaying THEN Elems(emitted) ELSE Elems(emitted) \cup {s}
  BY <1>1, <1>2, <1>5, AppendElems DEF Typed
<1>7. Typed'
  <2>1. stops' \in Nat
    BY <1>1 DEF Typed, AckError
  <2> QED
    BY <1>1, <1>2, <1>3, <1>6, <2>1 DEF Typed
<1>8. Bounded'
  <2>1. \A r \in Elems(emitted') : r \in 1..Len(stream)
    BY <1>1, <1>5, <1>6 DEF Bounded
  <2> QED
    BY <1>1, <1>2, <2>1 DEF Bounded
<1>9. Pending' /\ ReplayEdge'
  BY <1>1, <1>2, <1>6 DEF Pending, ReplayEdge
<1>10. ASSUME losses = 0 PROVE Lossless'
  <2>1. Lossless /\ InOrder /\ EffectsBehind
    BY <1>2, <1>10 DEF IInv, Lossless
  <2>2. Increasing(emitted')
    <3>1. CASE replaying
      BY <1>2, <2>1, <3>1 DEF Lossless
    <3>2. CASE ~replaying
      <4>1. s \in (lastSeq + 1)..(next - 1)
        BY <1>4, <2>1, Zenon DEF InOrder
      <4>2. lastSeq < s /\ lastSeq \in Nat
        BY <1>1, <1>5, <4>1 DEF Typed
      <4>3. \A r \in Elems(emitted) : r \in Nat
        BY <1>1 DEF Typed, Elems
      <4>4. \A r \in Elems(emitted) : r < s
        BY <1>5, <2>1, <3>2, <4>2, <4>3 DEF EffectsBehind
      <4> QED
        BY <1>1, <1>2, <1>5, <2>1, <3>2, <4>4, AppendIncreasing DEF Typed, Lossless
    <3> QED
      BY <1>1, <3>1, <3>2 DEF Typed
  <2> QED
    BY <1>2, <1>3, <2>1, <2>2 DEF Lossless, SnapshotsExact
<1> QED
  BY <1>2, <1>7, <1>8, <1>9, <1>10 DEF IInv

\* The file is replaced by the snapshot in flight, by the final one of a
\* shutdown, or not at all.
LEMMA CheckpointIInv == IInv /\ (EndSnapshot \/ Shutdown \/ Crash) => IInv'
<1> SUFFICES ASSUME IInv, EndSnapshot \/ Shutdown \/ Crash PROVE IInv'
  OBVIOUS
<1>1. Typed /\ Bounded /\ Pending /\ ReplayEdge
  BY DEF IInv
<1> DEFINE c == Checkpoint(applied, lastSeq)
<1>2. c \in Snapshot /\ c.applied = applied /\ c.lastSeq = lastSeq
  BY <1>1 DEF Typed, Checkpoint, Snapshot
<1>3. /\ UNCHANGED <<stream, next, unacked, queue, applied, lastSeq, replaying, target,
                     emitted, start, losses>>
      /\ up
      /\ inflight' \in {inflight, NoSnapshot}
      /\ file' \in {file, inflight, c}
      /\ stops' \in Nat
  BY <1>1 DEF EndSnapshot, Shutdown, Crash, server, engine, Typed
<1>4. up' \in BOOLEAN
  <2>1. CASE EndSnapshot
    BY <1>1, <2>1 DEF EndSnapshot, Typed
  <2>2. CASE Shutdown \/ Crash
    BY <2>2, Zenon DEF Shutdown, Crash
  <2> QED
    BY <2>1, <2>2
<1>5. Typed'
  <2>1. file' \in Snapshot \cup {NoSnapshot} /\ inflight' \in Snapshot \cup {NoSnapshot}
    BY <1>1, <1>2, <1>3 DEF Typed
  <2> QED
    BY <1>1, <1>3, <1>4, <2>1 DEF Typed
<1>6. Bounded'
  <2>1. file' # NoSnapshot => Within(Len(stream), file'.applied, file'.lastSeq)
    BY <1>1, <1>2, <1>3 DEF Bounded
  <2>2. inflight' # NoSnapshot => Within(Len(stream), inflight'.applied, inflight'.lastSeq)
    BY <1>1, <1>3 DEF Bounded
  <2> QED
    BY <1>1, <1>3, <2>1, <2>2 DEF Bounded
<1>7. Pending' /\ ReplayEdge'
  BY <1>1, <1>3 DEF Pending, ReplayEdge
<1>8. ASSUME losses = 0 PROVE Lossless'
  <2>1. Lossless /\ InOrder /\ EffectsBehind
    BY <1>3, <1>8 DEF IInv, Lossless
  <2>2. file' # NoSnapshot => ExactIn(stream, file'.applied, file'.lastSeq)
    BY <1>2, <1>3, <2>1 DEF Lossless, SnapshotsExact, InOrder
  <2>3. inflight' # NoSnapshot => ExactIn(stream, inflight'.applied, inflight'.lastSeq)
    BY <1>3, <2>1 DEF Lossless, SnapshotsExact
  <2>4. SnapshotsExact'
    BY <1>3, <2>2, <2>3 DEF SnapshotsExact
  <2>5. InOrder' /\ EffectsBehind'
    BY <1>3, <2>1 DEF InOrder, EffectsBehind
  <2> QED
    BY <1>3, <2>1, <2>4, <2>5 DEF Lossless
<1> QED
  BY <1>3, <1>5, <1>6, <1>7, <1>8 DEF IInv

\* The invariant holds throughout.
THEOREM Invariant == Spec => []IInv
<1>1. IInv /\ [Next]_vars => IInv'
  <2> SUFFICES ASSUME IInv, [Next]_vars PROVE IInv'
    OBVIOUS
  <2>1. CASE Next
    BY <2>1, PublishIInv, StartIInv, DeliverIInv, DeliverAgainIInv, ConsumeIInv,
       TerminateIInv, AckErrorIInv, CheckpointIInv DEF Next
  <2>2. CASE UNCHANGED vars
    <3>1. UNCHANGED <<stream, up, next, unacked, queue, applied, lastSeq, replaying,
                      inflight, target, file, emitted, start, stops, losses>>
      BY <2>2 DEF vars, server, engine
    <3> QED
      BY <3>1 DEF IInv, Typed, Bounded, Pending, ReplayEdge, Lossless, SnapshotsExact,
                  InOrder, EffectsBehind
  <2> QED
    BY <2>1, <2>2
<1> QED
  BY InitIInv, <1>1, PTL DEF Spec

-----------------------------------------------------------------------------
(* The properties of the runs. *)

\* Whatever disconnects, stalls and lost acks happen, a message that was due to
\* the running process is applied, or JetStream still has it pending.
THEOREM AlwaysAppliedOrPending == Spec => []AppliedOrPending
<1>1. IInv => AppliedOrPending
  BY DEF IInv, Pending, AppliedOrPending, Own, Good
<1> QED
  BY <1>1, Invariant, PTL

\* Past the live edge at most the first message is silent, also under losses.
THEOREM AlwaysLiveEdge == Spec => []LiveEdge
<1>1. IInv => LiveEdge
  BY DEF IInv, ReplayEdge, LiveEdge
<1> QED
  BY <1>1, Invariant, PTL

\* Without losses the running state and the file hold exactly the shard's good
\* messages up to LastSeq, whatever crashes and ack errors happened.
THEOREM StateAlwaysMatchesPosition == Spec => []StateMatchesPosition
<1>1. IInv => StateMatchesPosition
  <2> SUFFICES ASSUME IInv, losses = 0
               PROVE  /\ up => Exact(applied, lastSeq)
                      /\ file # NoSnapshot => Exact(file.applied, file.lastSeq)
    BY DEF StateMatchesPosition
  <2>1. \A a, n : ExactIn(stream, a, n) => Exact(a, n)
    BY DEF ExactIn, Exact, Own, Good
  <2> QED
    BY <2>1 DEF IInv, Lossless, InOrder, SnapshotsExact
<1> QED
  BY <1>1, Invariant, PTL

\* Without losses no side effect is repeated, by crashes and ack errors neither.
THEOREM EffectsAlwaysAtMostOnce == Spec => []EffectsAtMostOnce
<1>1. IInv => EffectsAtMostOnce
  BY DEF IInv, Lossless, EffectsAtMostOnce
<1> QED
  BY <1>1, Invariant, PTL
=============================================================================
