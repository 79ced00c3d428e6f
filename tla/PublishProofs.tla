--------------------------- MODULE PublishProofs ---------------------------
(***************************************************************************)
(* Routing and publishing proved for any members, checksums, key groups,   *)
(* shards, counts, stages and anomalies.  Of keygroup.go: every member is  *)
(* routed to a shard that exists, the key groups of a shard are one        *)
(* contiguous range, and no shard has two more than another.  Of the       *)
(* producers: what cmd/event-producer publishes by NATS lies with the      *)
(* shard that owns the member's key group (NatsOwningShard); what it       *)
(* publishes by Kafka does not, as a run shows.  Of the benchmark: what a  *)
(* stage reports is off by no more than the records stored in spite of an  *)
(* error and the redeliveries there were (StageExact).                     *)
(***************************************************************************)
EXTENDS Publish, TLAPS, FiniteSetTheorems

-----------------------------------------------------------------------------
(* keygroup.go. *)

\* Integer division by the number of key groups.
LEMMA Division ==
  ASSUME NEW a \in Nat
  PROVE  /\ a \div NumKeyGroups \in Nat
         /\ NumKeyGroups * (a \div NumKeyGroups) <= a
         /\ a < NumKeyGroups * (a \div NumKeyGroups) + NumKeyGroups
         /\ a % NumKeyGroups \in 0..(NumKeyGroups - 1)
BY NumKeyGroupsAssumption

\* Multiplying by a positive number keeps the order.
LEMMA TimesMonotone ==
  ASSUME NEW a \in Int, NEW b \in Int, NEW c \in Nat, a <= b
  PROVE  a * c <= b * c
OBVIOUS

\* A key group is assigned to a shard that exists.
LEMMA ShardOfRange ==
  ASSUME NEW g \in 0..(NumKeyGroups - 1), NEW n \in Nat \ {0}
  PROVE  ShardOf(g, n) \in 0..(n - 1)
<1> DEFINE N == NumKeyGroups
           q == (g * n) \div N
<1>1. N \in Nat \ {0} /\ g * n \in Nat
  BY NumKeyGroupsAssumption
<1>2. q \in Nat /\ N * q <= g * n
  BY <1>1, Division
<1>3. g * n < N * n
  BY <1>1
<1>4. ASSUME q >= n PROVE FALSE
  <2>1. N * n <= N * q
    BY <1>1, <1>2, <1>4, TimesMonotone
  <2> QED
    BY <1>1, <1>2, <1>3, <2>1
<1> QED
  BY <1>2, <1>4 DEF ShardOf

\* A larger key group never belongs to an earlier shard.
LEMMA ShardOfMonotone ==
  ASSUME NEW g \in Nat, NEW h \in Nat, g <= h, NEW n \in Nat \ {0}
  PROVE  ShardOf(g, n) <= ShardOf(h, n)
<1> DEFINE N == NumKeyGroups
           p == (g * n) \div N
           q == (h * n) \div N
<1>1. N \in Nat \ {0} /\ g * n \in Nat /\ h * n \in Nat /\ g * n <= h * n
  BY NumKeyGroupsAssumption, TimesMonotone
<1>2. p \in Nat /\ N * p <= g * n /\ q \in Nat /\ h * n < N * q + N
  BY <1>1, Division
<1>3. ASSUME p >= q + 1 PROVE FALSE
  <2>1. N * (q + 1) <= N * p
    BY <1>1, <1>2, <1>3, TimesMonotone
  <2>2. N * (q + 1) = N * q + N
    BY <1>1, <1>2
  <2> QED
    BY <1>1, <1>2, <2>1, <2>2
<1> QED
  BY <1>2, <1>3 DEF ShardOf

-----------------------------------------------------------------------------
(* The assignment. *)

\* What has been assigned so far is what ShardOf says of the key groups so far.
AssignInv ==
  /\ numShards \in 1..MaxShards
  /\ kg \in 0..NumKeyGroups
  /\ assigned = [s \in 0..(numShards - 1) |->
                   {g \in 0..(kg - 1) : ShardOf(g, numShards) = s}]

\* One key group more.
LEMMA AssignKeeps == AssignInv /\ [Assign]_vars => AssignInv'
<1> USE NumKeyGroupsAssumption, MaxShardsAssumption
<1> SUFFICES ASSUME AssignInv, Assign PROVE AssignInv'
  BY DEF AssignInv, vars
<1>1. kg \in 0..(NumKeyGroups - 1) /\ kg' = kg + 1 /\ numShards' = numShards
      /\ numShards \in Nat \ {0}
  BY DEF AssignInv, Assign
<1>2. ShardOf(kg, numShards) \in 0..(numShards - 1)
  BY <1>1, ShardOfRange
<1> DEFINE t == ShardOf(kg, numShards)
<1>3. t \in DOMAIN assigned /\ DOMAIN assigned = 0..(numShards - 1)
  BY <1>2 DEF AssignInv
<1> HIDE DEF t
<1>4. assigned' = [s \in 0..(numShards - 1) |->
                    IF s = t THEN assigned[s] \cup {kg} ELSE assigned[s]]
  BY <1>3 DEF Assign, t
<1>5. ASSUME NEW s \in 0..(numShards - 1)
      PROVE  assigned'[s] = {g \in 0..(kg' - 1) : ShardOf(g, numShards) = s}
  <2>1. assigned[s] = {g \in 0..(kg - 1) : ShardOf(g, numShards) = s}
    BY <1>5 DEF AssignInv
  <2>2. 0..(kg' - 1) = (0..(kg - 1)) \cup {kg}
    BY <1>1
  <2> QED
    BY <1>4, <2>1, <2>2 DEF t
<1> QED
  BY <1>1, <1>4, <1>5 DEF AssignInv

\* The assignment starts empty and grows by one key group at a time.
LEMMA AssignInvariant == Spec => []AssignInv
<1>1. Init => AssignInv
  BY NumKeyGroupsAssumption, MaxShardsAssumption DEF Init, AssignInv
<1> QED
  BY <1>1, AssignKeeps, PTL DEF Spec

\* Whatever a member's checksum, its events go to a shard that exists.
THEOREM MemberRouted ==
  ASSUME NEW c \in Nat, NEW n \in Nat \ {0}
  PROVE  ShardOfMember(c, n) \in 0..(n - 1)
BY Division, ShardOfRange DEF ShardOfMember, KeyGroupOf

\* The same as an invariant of every deployment.
THEOREM AlwaysRouted == Spec => []RoutedInRange
<1>1. AssignInv => RoutedInRange
  BY MemberRouted, NumKeyGroupsAssumption, MaxShardsAssumption DEF AssignInv, RoutedInRange
<1> QED
  BY <1>1, AssignInvariant, PTL

\* The key groups of a shard are contiguous and in shard order.
THEOREM AlwaysContiguous == Spec => []Contiguous
<1>1. AssignInv => Contiguous
  <2> SUFFICES ASSUME AssignInv, NEW s \in DOMAIN assigned, NEW t \in DOMAIN assigned,
                      NEW g \in assigned[s], NEW h \in assigned[t], s < t
               PROVE  g < h
    BY DEF Contiguous
  <2>1. /\ s \in Nat /\ t \in Nat /\ g \in Nat /\ h \in Nat
        /\ ShardOf(g, numShards) = s /\ ShardOf(h, numShards) = t
        /\ numShards \in Nat \ {0}
    BY MaxShardsAssumption, NumKeyGroupsAssumption DEF AssignInv
  <2>2. h <= g => t <= s
    BY <2>1, ShardOfMonotone
  <2> QED
    BY <2>1, <2>2
<1> QED
  BY <1>1, AssignInvariant, PTL

-----------------------------------------------------------------------------
(* The balance. *)

\* c is x / n rounded up.
IsCeiling(x, n, c) == c \in Nat /\ x <= n * c /\ n * c <= x + n - 1

\* There is one.
LEMMA Ceiling ==
  ASSUME NEW x \in Nat, NEW n \in Nat \ {0}
  PROVE  \E c : IsCeiling(x, n, c)
<1> DEFINE c == (x + n - 1) \div n
<1>1. /\ c \in Nat
      /\ n * c <= x + n - 1
      /\ x + n - 1 < n * c + n
  OBVIOUS
<1>2. n * c \in Nat
  BY <1>1
<1> HIDE DEF c
<1>3. x <= n * c
  BY <1>1, <1>2
<1> QED
  BY <1>1, <1>3 DEF IsCeiling

\* A factor is not larger when the product is not.
LEMMA TimesCancel ==
  ASSUME NEW a \in Int, NEW b \in Int, NEW n \in Nat \ {0}, n * a < n * b
  PROVE  a < b
<1>1. ASSUME b <= a PROVE FALSE
  <2>1. b * n <= a * n
    BY <1>1, TimesMonotone
  <2>2. b * n = n * b /\ a * n = n * a /\ n * a \in Int /\ n * b \in Int
    OBVIOUS
  <2> QED
    BY <2>1, <2>2
<1> QED
  BY <1>1

\* The key groups of shard s out of n.
GroupsOf(s, n) == {g \in 0..(NumKeyGroups - 1) : ShardOf(g, n) = s}

\* They are those from the ceiling of s N / n up to the one of
\* (s + 1) N / n.
LEMMA ShardRange ==
  ASSUME NEW n \in Nat \ {0}, n <= NumKeyGroups, NEW s \in 0..(n - 1),
         NEW a, NEW b,
         IsCeiling(s * NumKeyGroups, n, a), IsCeiling((s + 1) * NumKeyGroups, n, b)
  PROVE  GroupsOf(s, n) = a..(b - 1)
<1> DEFINE N == NumKeyGroups
<1>1. N \in Nat \ {0} /\ s \in Nat /\ s * N \in Nat /\ (s + 1) * N = s * N + N
  BY NumKeyGroupsAssumption
<1>2. /\ a \in Nat /\ n * a \in Nat /\ s * N <= n * a /\ n * a <= s * N + n - 1
      /\ b \in Nat /\ n * b \in Nat /\ (s + 1) * N <= n * b /\ n * b <= (s + 1) * N + n - 1
  BY DEF IsCeiling
<1>3. ASSUME NEW g \in Nat
      PROVE  ShardOf(g, n) = s <=> s * N <= n * g /\ n * g < s * N + N
  <2> DEFINE q == (g * n) \div N
  <2>1. g * n \in Nat /\ n * g = g * n
    OBVIOUS
  <2>2. q \in Nat /\ N * q <= n * g /\ n * g < N * q + N
    BY <1>1, <2>1, Division
  <2>3. N * q = q * N /\ q * N \in Nat
    BY <1>1, <2>2
  <2>4. ShardOf(g, n) = q
    BY DEF ShardOf
  <2> HIDE DEF q
  <2>5. CASE q = s
    BY <2>2, <2>3, <2>4, <2>5
  <2>6. CASE q < s
    <3>1. (q + 1) * N <= s * N
      BY <1>1, <2>2, <2>6, TimesMonotone
    <3>2. (q + 1) * N = q * N + N
      BY <1>1, <2>2
    <3> QED
      BY <1>1, <2>1, <2>2, <2>3, <2>4, <2>6, <3>1, <3>2
  <2>7. CASE q > s
    <3>1. (s + 1) * N <= q * N
      BY <1>1, <2>2, <2>7, TimesMonotone
    <3> QED
      BY <1>1, <2>1, <2>2, <2>3, <2>4, <2>7, <3>1
  <2> QED
    BY <1>1, <2>2, <2>5, <2>6, <2>7
<1>4. ASSUME NEW g \in Nat
      PROVE  s * N <= n * g <=> a <= g
  <2>1. n * g \in Nat /\ n * (g + 1) = n * g + n
    OBVIOUS
  <2>2. ASSUME a <= g PROVE s * N <= n * g
    <3>1. a * n <= g * n
      BY <1>2, <2>2, TimesMonotone
    <3> QED
      BY <1>1, <1>2, <2>1, <3>1
  <2>3. ASSUME s * N <= n * g PROVE a <= g
    <3>1. n * a < n * (g + 1)
      BY <1>1, <1>2, <2>1, <2>3
    <3>2. a < g + 1
      BY <1>2, <3>1, TimesCancel
    <3> QED
      BY <1>2, <3>2
  <2> QED
    BY <2>2, <2>3
<1>5. ASSUME NEW g \in Nat
      PROVE  n * g < s * N + N <=> g < b
  <2>1. n * g \in Nat /\ n * (g + 1) = n * g + n
    OBVIOUS
  <2>2. ASSUME n * g < s * N + N PROVE g < b
    <3>1. n * g < n * b
      BY <1>1, <1>2, <2>1, <2>2
    <3> QED
      BY <1>2, <3>1, TimesCancel
  <2>3. ASSUME g < b PROVE n * g < s * N + N
    <3>1. (g + 1) * n <= b * n
      BY <1>2, <2>3, TimesMonotone
    <3>2. n * (g + 1) <= n * b
      BY <1>2, <3>1
    <3> QED
      BY <1>1, <1>2, <2>1, <3>2
  <2> QED
    BY <2>2, <2>3
<1>6. b <= N
  <2>1. (s + 1) * N <= n * N
    BY <1>1, TimesMonotone
  <2>2. n * N \in Nat /\ n * (N + 1) = n * N + n
    BY <1>1
  <2>3. n * b < n * (N + 1)
    BY <1>1, <1>2, <2>1, <2>2
  <2>4. b < N + 1
    BY <1>1, <1>2, <2>3, TimesCancel
  <2> QED
    BY <1>1, <1>2, <2>4
<1>7. ASSUME NEW g \in Nat PROVE ShardOf(g, n) = s <=> a <= g /\ g < b
  BY <1>3, <1>4, <1>5
<1> QED
  BY <1>1, <1>2, <1>6, <1>7 DEF GroupsOf

\* ShardOf gives no shard two key groups more than another.
THEOREM AlwaysBalanced == Spec => []Balanced
<1>1. AssignInv => Balanced
  <2> SUFFICES ASSUME AssignInv, kg = NumKeyGroups,
                      NEW s \in DOMAIN assigned, NEW t \in DOMAIN assigned
               PROVE  Cardinality(assigned[s]) <= Cardinality(assigned[t]) + 1
    BY DEF Balanced
  <2> DEFINE N == NumKeyGroups
             n == numShards
             Size(x) == Cardinality(assigned[x])
  <2>1. /\ N \in Nat \ {0} /\ n \in Nat \ {0} /\ n <= N
        /\ DOMAIN assigned = 0..(n - 1)
        /\ \A x \in 0..(n - 1) : assigned[x] = GroupsOf(x, n)
    BY NumKeyGroupsAssumption, MaxShardsAssumption DEF AssignInv, GroupsOf
  <2>2. ASSUME NEW x \in 0..(n - 1)
        PROVE  Size(x) \in Nat /\ n * Size(x) >= N - n + 1 /\ n * Size(x) <= N + n - 1
    <3>1. x * N \in Nat /\ (x + 1) * N \in Nat /\ (x + 1) * N = x * N + N
      BY <2>1
    <3>2. PICK a : IsCeiling(x * N, n, a)
      BY <2>1, <3>1, Ceiling
    <3>3. PICK b : IsCeiling((x + 1) * N, n, b)
      BY <2>1, <3>1, Ceiling
    <3>4. assigned[x] = a..(b - 1)
      BY <2>1, <2>2, <3>2, <3>3, ShardRange
    <3>5. /\ a \in Nat /\ n * a \in Nat /\ x * N <= n * a /\ n * a <= x * N + n - 1
          /\ b \in Nat /\ n * b \in Nat /\ (x + 1) * N <= n * b /\ n * b <= (x + 1) * N + n - 1
      BY <2>1, <3>2, <3>3 DEF IsCeiling
    <3>6. a <= b
      <4>1. n * (b + 1) = n * b + n
        BY <2>1, <3>5
      <4>2. n * a < n * (b + 1)
        BY <2>1, <3>1, <3>5, <4>1
      <4> QED
        BY <2>1, <3>5, <4>2, TimesCancel
    <3>7. Size(x) = b - a
      <4>1. Cardinality(a..(b - 1)) = IF a > b - 1 THEN 0 ELSE b - 1 - a + 1
        BY <3>5, FS_Interval
      <4> QED
        BY <3>4, <3>5, <3>6, <4>1
    <3>8. n * (b - a) = n * b - n * a
      BY <2>1, <3>5
    <3> QED
      BY <2>1, <3>1, <3>5, <3>6, <3>7, <3>8
  <2> HIDE DEF Size
  <2>3. n * Size(s) < n * (Size(t) + 2)
    <3>1. /\ Size(t) \in Nat /\ n * Size(t) >= N - n + 1
          /\ Size(s) \in Nat /\ n * Size(s) <= N + n - 1
      BY <2>1, <2>2
    <3>2. n * (Size(t) + 2) = n * Size(t) + 2 * n /\ n * Size(t) \in Nat /\ n * Size(s) \in Nat
      BY <2>1, <3>1
    <3> DEFINE least == n * Size(t)
               most == n * Size(s)
    <3>3. \A l, g \in Nat : l >= N - n + 1 /\ g <= N + n - 1 => g < l + 2 * n
      BY <2>1
    <3>4. most < least + 2 * n
      <4> HIDE DEF least, most
      <4> QED
        BY <3>1, <3>2, <3>3 DEF least, most
    <3> QED
      BY <3>2, <3>4
  <2>4. Size(s) < Size(t) + 2
    <3>1. Size(s) \in Nat /\ Size(t) + 2 \in Nat /\ n \in Nat \ {0}
      BY <2>1, <2>2
    <3> HIDE DEF Size, n
    <3> QED
      BY <2>3, <3>1, TimesCancel
  <2>5. Size(s) <= Size(t) + 1
    <3>1. Size(s) \in Nat /\ Size(t) \in Nat
      BY <2>1, <2>2
    <3>2. \A a, b \in Nat : a < b + 2 => a <= b + 1
      OBVIOUS
    <3> HIDE DEF Size
    <3> QED
      BY <2>4, <3>1, <3>2
  <2> QED
    BY <2>5 DEF Size
<1> QED
  BY <1>1, AssignInvariant, PTL

-----------------------------------------------------------------------------
(* The deployment. *)

\* Every step of the composition assigns a key group or leaves the deployment.
LEMMA DeployProjects == PublishSpec => Spec
<1>1. PublishInit => Init
  BY DEF PublishInit
<1>2. [PublishNext]_allVars => [Assign]_vars
  BY DEF PublishNext, Deploy, Produce, Measure, allVars
<1> QED
  BY <1>1, <1>2, PTL DEF PublishSpec, Spec

-----------------------------------------------------------------------------
(* cmd/event-producer. *)

\* Every record lies where the producer's choice for its member puts it.
Placed ==
  \A r \in records : r.member \in DOMAIN Checksum /\ r.place = Place(r.member)

\* A tick of the loop, and its cancellation.
LEMMA ProducerKeeps ==
  ASSUME Placed, ProducerNext, UNCHANGED numShards
  PROVE  Placed'
<1>1. UNCHANGED <<backend, partitions>>
  BY DEF ProducerNext, PublishOk, PublishFails, Cancelled
<1>2. \A k : Place(k)' = Place(k)
  BY <1>1 DEF Place, NatsSubject, KafkaPartition, ShardOfMember, ShardOf, KeyGroupOf
<1>3. ASSUME NEW m \in DOMAIN Checksum, Store(m) PROVE Placed'
  <2> DEFINE new == [place |-> Place(m), member |-> m]
  <2>1. records' = records \cup {new}
    BY <1>3 DEF Store
  <2>2. new.member = m /\ new.place = Place(m)
    OBVIOUS
  <2> HIDE DEF new
  <2> QED
    BY <1>2, <2>1, <2>2 DEF Placed
<1>4. CASE UNCHANGED records
  BY <1>2, <1>4 DEF Placed
<1> QED
  BY <1>3, <1>4 DEF ProducerNext, PublishOk, PublishFails, Cancelled

\* The composition: the deployment and the benchmark leave the producer alone.
LEMMA ProducerInvariant == PublishSpec => []Placed
<1>1. PublishInit => Placed
  BY DEF PublishInit, ProducerInit, Placed
<1>2. Placed /\ [PublishNext]_allVars => Placed'
  <2> SUFFICES ASSUME Placed, [PublishNext]_allVars PROVE Placed'
    OBVIOUS
  <2>1. UNCHANGED numShards
    BY DEF PublishNext, Deploy, Produce, Measure, allVars, vars, Assign
  <2>2. CASE Produce
    BY <2>1, <2>2, ProducerKeeps DEF Produce
  <2>3. CASE UNCHANGED producerVars
    <3>1. UNCHANGED <<backend, partitions, records>>
      BY <2>3 DEF producerVars
    <3> QED
      BY <2>1, <3>1 DEF Placed, Place, NatsSubject, KafkaPartition, ShardOfMember, ShardOf,
                        KeyGroupOf
  <2> QED
    BY <2>2, <2>3 DEF PublishNext, Deploy, Measure, allVars
<1> QED
  BY <1>1, <1>2, PTL DEF PublishSpec

\* What the NATS producer publishes lies on the subject of the shard to which the
\* deployment assigned the member's key group, whatever the members' checksums.
THEOREM NatsAlwaysOwningShard == PublishSpec => []NatsOwningShard
<1>1. AssignInv /\ Placed => NatsOwningShard
  <2> SUFFICES ASSUME AssignInv, Placed, backend = "nats", kg = NumKeyGroups, NEW r \in records
               PROVE  WithOwner(r)
    BY DEF NatsOwningShard, Routed
  <2> DEFINE c == Checksum[r.member]
  <2>1. c \in Nat /\ r.place = ShardOfMember(c, numShards)
    BY ChecksumAssumption DEF Placed, Place, NatsSubject
  <2> HIDE DEF c
  <2>2. numShards \in Nat \ {0}
    BY MaxShardsAssumption, NumKeyGroupsAssumption DEF AssignInv
  <2>3. r.place \in 0..(numShards - 1)
    BY <2>1, <2>2, MemberRouted
  <2>4. KeyGroupOf(c) \in 0..(NumKeyGroups - 1)
    BY <2>1, Division DEF KeyGroupOf
  <2>5. ShardOf(KeyGroupOf(c), numShards) = r.place
    BY <2>1 DEF ShardOfMember
  <2>6. /\ r.place \in DOMAIN assigned
        /\ assigned[r.place] = {g \in 0..(kg - 1) : ShardOf(g, numShards) = r.place}
    BY <2>3 DEF AssignInv
  <2>7. KeyGroupOf(c) \in assigned[r.place]
    BY <2>4, <2>5, <2>6
  <2> QED
    BY <2>6, <2>7 DEF WithOwner, c
<1> QED
  BY <1>1, ProducerInvariant, DeployProjects, AssignInvariant, PTL

-----------------------------------------------------------------------------
(* cmd/bench. *)

Event == Nat \X Nat
Delivery == Event \X Nat
Row == [foreign : Nat, missed : Nat, drained : BOOLEAN]

BenchTyped ==
  /\ stage \in Nat \ {0}
  /\ step \in {"discard", "counters", "produce", "flush", "drain", "waiting", "stop", "done"}
  /\ produced \in Nat
  /\ before.errs \in Nat /\ before.processed \in Nat
  /\ okProduced \in Int
  /\ processed \in Nat
  /\ redelivered \in Nat
  /\ published \subseteq Event /\ IsFiniteSet(published)
  /\ queue \subseteq Delivery /\ IsFiniteSet(queue)
  /\ durs \subseteq Delivery /\ IsFiniteSet(durs)
  /\ adding \in Delivery \cup {NoDelivery}
  /\ results \in Seq(Row)

\* An event is in flight, stored or failed.
Settled ==
  /\ published = pending \cup stored \cup failed
  /\ pending \cap failed = {}

\* Events belong to the stages so far, deliveries to stored events.
Numbered ==
  /\ \A e \in published :
       /\ e[1] <= stage
       /\ e[1] = stage => step \notin {"discard", "counters"} /\ e[2] <= produced
  /\ \A d \in queue : d[1] \in stored /\ d[2] <= redelivered

\* Every delivery is on its way, or sampled and about to be counted, or counted.
Counted ==
  processed + Cardinality(queue) + (IF adding = NoDelivery THEN 0 ELSE 1)
    = Cardinality(stored) + redelivered

\* What is neither counted nor failed is what the stage at hand may wait for.
Credited ==
  /\ step \in {"discard", "counters"} =>
       Cardinality(published) <= processed + Cardinality(failed)
  /\ step \in {"produce", "flush"} =>
       Cardinality(published) <= before.processed + before.errs + produced
  /\ step \in {"drain", "waiting"} =>
       Cardinality(published) <= before.processed + okProduced + Cardinality(failed)

Running == step \notin {"stop", "done"}

\* A stored event of the stage is on its way to the collector, or there.
Sampled ==
  Running => \A e \in stored : e[1] = stage => \E d \in queue \cup durs : d[1] = e

\* The samples that are foreign, or will be.
Strays == {d \in queue \cup durs : d[1][1] # stage \/ d[2] # 0}

\* The events of earlier stages that may yet be stored and sampled.
Late == {e \in pending \ stored : e[1] # stage}

\* There are no more of both than the counters were deceived by.
Tailed == Running => Cardinality(Strays) + Cardinality(Late) <= Anomalies

Truthful(row) == row.foreign <= Anomalies /\ (row.drained => row.missed <= Anomalies)

Reported == \A i \in 1..Len(results) : Truthful(results[i])

BenchInv ==
  /\ BenchTyped /\ Settled /\ Numbered /\ Counted
  /\ Credited /\ Sampled /\ Tailed /\ Reported

\* The sizes of the sets of events.
LEMMA Sizes ==
  ASSUME BenchTyped, Settled
  PROVE  /\ pending \subseteq published /\ stored \subseteq published /\ failed \subseteq published
         /\ IsFiniteSet(pending) /\ IsFiniteSet(stored) /\ IsFiniteSet(failed)
         /\ IsFiniteSet(stored \cap failed)
         /\ Cardinality(published) \in Nat /\ Cardinality(stored) \in Nat
         /\ Cardinality(failed) \in Nat /\ Cardinality(stored \cap failed) \in Nat
         /\ Cardinality(queue) \in Nat
<1>1. pending \subseteq published /\ stored \subseteq published /\ failed \subseteq published
  BY DEF Settled
<1>2. IsFiniteSet(pending) /\ IsFiniteSet(stored) /\ IsFiniteSet(failed)
      /\ IsFiniteSet(stored \cap failed)
  BY <1>1, FS_Subset DEF BenchTyped
<1> QED
  BY <1>1, <1>2, FS_CardinalityType DEF BenchTyped

\* Anomalies are never undone.
LEMMA AnomaliesGrow ==
  ASSUME BenchTyped, Settled, stored \subseteq stored', failed \subseteq failed',
         IsFiniteSet(stored'), redelivered' \in Nat, redelivered <= redelivered'
  PROVE  Anomalies \in Nat /\ Anomalies' \in Nat /\ Anomalies <= Anomalies'
<1>1. IsFiniteSet(stored' \cap failed') /\ stored \cap failed \subseteq stored' \cap failed'
  BY FS_Subset
<1>2. Cardinality(stored \cap failed) <= Cardinality(stored' \cap failed')
      /\ Cardinality(stored \cap failed) \in Nat /\ Cardinality(stored' \cap failed') \in Nat
  BY <1>1, FS_Subset, FS_CardinalityType, Sizes
<1> QED
  BY <1>2 DEF Anomalies, BenchTyped

\* What has been reported stays truthful as anomalies are added.
LEMMA StaysReported ==
  ASSUME BenchTyped, Reported, UNCHANGED results,
         Anomalies \in Nat, Anomalies' \in Nat, Anomalies <= Anomalies'
  PROVE  Reported'
<1>1. \A i \in 1..Len(results) : results[i].foreign \in Nat /\ results[i].missed \in Nat
  <2> SUFFICES ASSUME NEW i \in 1..Len(results)
               PROVE  results[i].foreign \in Nat /\ results[i].missed \in Nat
    OBVIOUS
  <2>1. results[i] \in Row
    BY DEF BenchTyped
  <2> QED
    BY <2>1 DEF Row
<1> DEFINE a == Anomalies
           b == Anomalies'
<1>2. \A x \in Nat : x <= a => x <= b
  OBVIOUS
<1> HIDE DEF a, b
<1>3. \A i \in 1..Len(results) : Truthful(results[i])'
  BY <1>1, <1>2 DEF Reported, Truthful, a, b
<1> QED
  BY <1>3 DEF Reported

\* Two sets of events of which one excludes what the other one has.
LEMMA UnionSize ==
  ASSUME NEW S, NEW T, IsFiniteSet(S), IsFiniteSet(T)
  PROVE  /\ Cardinality(S \cup T) = Cardinality(S) + Cardinality(T) - Cardinality(S \cap T)
         /\ Cardinality(S) \in Nat /\ Cardinality(T) \in Nat
         /\ Cardinality(S \cap T) \in Nat /\ Cardinality(S \cup T) \in Nat
BY FS_Union, FS_Intersection, FS_CardinalityType

\* When the consumer has counted all that did not fail, few deliveries and
\* unsettled events are left.
LEMMA LittleIsLeft ==
  ASSUME BenchTyped, Settled, Counted,
         Cardinality(published) <= processed + Cardinality(failed)
  PROVE  Cardinality(queue) + Cardinality(pending \ stored) <= Anomalies
<1> DEFINE open == pending \ stored
           known == stored \cup failed
<1>1. /\ IsFiniteSet(stored) /\ IsFiniteSet(failed) /\ IsFiniteSet(open)
      /\ Cardinality(queue) \in Nat
  BY Sizes, FS_Subset
<1>2. /\ Cardinality(known) = Cardinality(stored) + Cardinality(failed)
                              - Cardinality(stored \cap failed)
      /\ Cardinality(stored) \in Nat /\ Cardinality(failed) \in Nat
      /\ Cardinality(stored \cap failed) \in Nat /\ Cardinality(known) \in Nat
  BY <1>1, UnionSize
<1>3. /\ IsFiniteSet(known)
      /\ published = open \cup known
      /\ open \cap known = {}
  BY <1>1, FS_Union DEF Settled
<1>4. /\ Cardinality(published) = Cardinality(open) + Cardinality(known)
      /\ Cardinality(open) \in Nat
  <2>1. Cardinality(open \cap known) = 0
    BY <1>3, FS_EmptySet
  <2> HIDE DEF open, known
  <2>2. /\ Cardinality(open \cup known)
             = Cardinality(open) + Cardinality(known) - Cardinality(open \cap known)
        /\ Cardinality(open) \in Nat /\ Cardinality(known) \in Nat
    BY <1>1, <1>3, UnionSize
  <2>3. Cardinality(published) = Cardinality(open \cup known)
    BY <1>3
  <2> QED
    BY <2>1, <2>2, <2>3
<1> HIDE DEF open, known
<1>5. processed + Cardinality(queue) <= Cardinality(stored) + redelivered
  BY <1>1, <1>2 DEF Counted, BenchTyped
<1>6. Cardinality(queue) + Cardinality(open) <= Cardinality(stored \cap failed) + redelivered
  <2>1. \A s, f, b, k, o, p, q, r, n \in Nat :
          k = s + f - b /\ n = o + k /\ n <= p + f /\ p + q <= s + r => q + o <= b + r
    OBVIOUS
  <2>2. redelivered \in Nat /\ processed \in Nat /\ Cardinality(published) \in Nat
    BY <1>2, <1>4 DEF BenchTyped
  <2> QED
    BY <1>1, <1>2, <1>4, <1>5, <2>1, <2>2
<1> QED
  BY <1>6 DEF open, Anomalies

\* The events that did not fail and whose first delivery the consumer has not
\* taken: as few.
LEMMA FewAreMissed ==
  ASSUME BenchTyped, Settled, Counted,
         Cardinality(published) <= processed + Cardinality(failed),
         NEW M, M \subseteq published \ failed,
         \A e \in M \cap stored : \E d \in queue : d[1] = e
  PROVE  Cardinality(M) <= Anomalies /\ Cardinality(M) \in Nat
<1> DEFINE waiting == {d[1] : d \in queue}
           done == stored \ waiting
           gone == done \cup failed
<1>1. /\ IsFiniteSet(stored) /\ IsFiniteSet(failed) /\ IsFiniteSet(published)
      /\ IsFiniteSet(queue) /\ Cardinality(queue) \in Nat
      /\ stored \subseteq published /\ failed \subseteq published
  BY Sizes DEF BenchTyped
<1>2. IsFiniteSet(waiting) /\ Cardinality(waiting) <= Cardinality(queue)
      /\ Cardinality(waiting) \in Nat
  <2> DEFINE f == [d \in queue |-> d[1]]
  <2>1. f \in Surjection(queue, waiting)
    BY DEF Surjection
  <2> HIDE DEF f, waiting
  <2> QED
    BY <1>1, <2>1, FS_Surjection, FS_CardinalityType
<1>3. /\ IsFiniteSet(done) /\ Cardinality(done) \in Nat /\ Cardinality(stored) \in Nat
      /\ Cardinality(done) >= Cardinality(stored) - Cardinality(queue)
  <2>1. IsFiniteSet(done) /\ Cardinality(done) = Cardinality(stored) - Cardinality(stored \cap waiting)
    BY <1>1, FS_Difference
  <2>2. Cardinality(stored \cap waiting) <= Cardinality(waiting)
        /\ Cardinality(stored \cap waiting) \in Nat
    BY <1>2, FS_Subset, FS_CardinalityType
  <2> QED
    BY <1>1, <1>2, <2>1, <2>2, FS_CardinalityType
<1>4. /\ Cardinality(gone) = Cardinality(done) + Cardinality(failed) - Cardinality(done \cap failed)
      /\ Cardinality(failed) \in Nat /\ Cardinality(gone) \in Nat
      /\ Cardinality(done \cap failed) \in Nat
  <2> HIDE DEF done
  <2> QED
    BY <1>1, <1>3, UnionSize
<1>5. /\ Cardinality(done \cap failed) <= Cardinality(stored \cap failed)
      /\ Cardinality(stored \cap failed) \in Nat
  <2>1. done \cap failed \subseteq stored \cap failed
    OBVIOUS
  <2> QED
    BY <2>1, Sizes, FS_Subset
<1>6. M \subseteq published /\ M \cap gone = {} /\ IsFiniteSet(M) /\ IsFiniteSet(gone)
      /\ M \cup gone \subseteq published
  <2>1. \A e \in M \cap stored : e \in waiting
    OBVIOUS
  <2>2. IsFiniteSet(M) /\ IsFiniteSet(gone)
    BY <1>1, <1>3, FS_Subset, FS_Union
  <2> QED
    BY <1>1, <2>1, <2>2
<1>7. /\ Cardinality(M) + Cardinality(gone) <= Cardinality(published)
      /\ Cardinality(M) \in Nat /\ Cardinality(published) \in Nat
  <2>1. Cardinality(M \cap gone) = 0
    BY <1>6, FS_EmptySet
  <2>2. Cardinality(M \cup gone) <= Cardinality(published) /\ Cardinality(published) \in Nat
    BY <1>1, <1>6, FS_Subset, FS_CardinalityType
  <2> HIDE DEF gone
  <2>3. /\ Cardinality(M \cup gone)
             = Cardinality(M) + Cardinality(gone) - Cardinality(M \cap gone)
        /\ Cardinality(M) \in Nat /\ Cardinality(gone) \in Nat
    BY <1>6, UnionSize
  <2> QED
    BY <2>1, <2>2, <2>3
<1> HIDE DEF waiting, done, gone
<1>8. processed + Cardinality(queue) <= Cardinality(stored) + redelivered
  BY <1>1, <1>3 DEF Counted, BenchTyped
<1>9. Cardinality(M) <= Cardinality(stored \cap failed) + redelivered
  <2>1. \A m, d, f, df, sf, g, p, s, q, n, k \in Nat :
          /\ m + g <= p /\ g = d + f - df /\ df <= sf
          /\ p <= n + f /\ n + q <= s + k /\ d >= s - q
          => m <= sf + k
    OBVIOUS
  <2>2. processed \in Nat /\ redelivered \in Nat
    BY DEF BenchTyped
  <2> QED
    BY <1>1, <1>3, <1>4, <1>5, <1>7, <1>8, <2>1, <2>2
<1> QED
  BY <1>7, <1>9 DEF Anomalies

-----------------------------------------------------------------------------
(* runStage and main. *)

\* No event of the stage before its first publish.
LEMMA StageIsNew ==
  ASSUME BenchInv, step \in {"discard", "counters"}
  PROVE  \A e \in published : e[1] # stage
BY DEF BenchInv, Numbered

\* The steps of runStage that neither publish nor collect.
LEMMA DiscardKeeps ==
  ASSUME BenchInv, Discard
  PROVE  BenchInv'
<1>1. /\ step = "discard" /\ step' = "counters" /\ durs' = {}
      /\ UNCHANGED <<stage, produced, before, okProduced, results, published, pending, failed,
                     stored, queue, redelivered, adding, processed>>
  BY DEF Discard, DrainSegment, stageVars, clientVars, brokerVars, consumerVars
<1>2. BenchTyped' /\ Settled' /\ Numbered' /\ Counted' /\ Credited'
  BY <1>1, FS_EmptySet DEF BenchInv, BenchTyped, Settled, Numbered, Counted, Credited
<1>3. Sampled'
  <2>1. stored \subseteq published
    BY DEF BenchInv, Settled
  <2> QED
    BY <1>1, <2>1, StageIsNew DEF Sampled
<1>4. Tailed'
  <2>1. Strays' \subseteq Strays /\ Late' = Late /\ Anomalies' = Anomalies
    BY <1>1 DEF Strays, Late, Anomalies
  <2>2. IsFiniteSet(queue \cup durs) /\ Strays \subseteq queue \cup durs
    BY FS_Union DEF BenchInv, BenchTyped, Strays
  <2>3. Cardinality(Strays') <= Cardinality(Strays)
        /\ Cardinality(Strays) \in Nat /\ Cardinality(Strays') \in Nat
    BY <2>1, <2>2, FS_Subset, FS_CardinalityType
  <2>4. Cardinality(Late) \in Nat
    <3>1. Late \subseteq pending
      BY DEF Late
    <3> QED
      BY <3>1, Sizes, FS_Subset, FS_CardinalityType DEF BenchInv
  <2>5. Cardinality(Strays) + Cardinality(Late) <= Anomalies /\ Anomalies \in Nat
    BY <1>1, Sizes DEF BenchInv, Tailed, Running, Anomalies, BenchTyped
  <2> QED
    BY <2>1, <2>3, <2>4, <2>5 DEF Tailed
<1>5. Reported'
  BY <1>1 DEF BenchInv, Reported, Truthful, Anomalies
<1> QED
  BY <1>2, <1>3, <1>4, <1>5 DEF BenchInv

LEMMA ReadCountersKeeps ==
  ASSUME BenchInv, ReadCounters
  PROVE  BenchInv'
<1>1. /\ step = "counters" /\ step' = "produce" /\ produced' = 0
      /\ before' = [errs |-> Cardinality(failed), processed |-> processed]
      /\ UNCHANGED <<stage, okProduced, results, published, pending, failed, stored, queue,
                     redelivered, adding, processed, durs>>
  BY DEF ReadCounters, clientVars, brokerVars, consumerVars
<1>2. before'.errs = Cardinality(failed) /\ before'.processed = processed
      /\ Cardinality(failed) \in Nat /\ processed \in Nat /\ Cardinality(published) \in Nat
  BY <1>1, Sizes DEF BenchInv, BenchTyped
<1>3. BenchTyped' /\ Settled' /\ Counted'
  BY <1>1, <1>2 DEF BenchInv, BenchTyped, Settled, Counted
<1>4. Numbered'
  BY <1>1, StageIsNew DEF BenchInv, Numbered
<1>5. Credited'
  BY <1>1, <1>2 DEF BenchInv, Credited
<1>6. Sampled' /\ Tailed' /\ Reported'
  BY <1>1 DEF BenchInv, Sampled, Tailed, Reported, Truthful, Strays, Late, Anomalies, Running
<1> QED
  BY <1>3, <1>4, <1>5, <1>6 DEF BenchInv

LEMMA QuietKeeps ==
  ASSUME BenchInv, StopProducing \/ DrainSleep \/ Report \/ ConsumerReturns \/ UNCHANGED benchVars
  PROVE  BenchInv'
<1>1. UNCHANGED <<stage, produced, before, okProduced, results, published, pending, failed,
                  stored, queue, redelivered, adding, processed, durs>>
  BY DEF StopProducing, DrainSleep, Report, ConsumerReturns, benchVars, stageVars, clientVars,
         brokerVars, consumerVars
<1>2. \/ step = "produce" /\ step' = "flush"
      \/ step = "drain" /\ step' = "waiting"
      \/ step = "stop" /\ step' = "done"
      \/ step' = step
  BY DEF StopProducing, DrainSleep, Report, ConsumerReturns, benchVars
<1>3. BenchTyped' /\ Settled' /\ Numbered' /\ Counted' /\ Credited'
  BY <1>1, <1>2 DEF BenchInv, BenchTyped, Settled, Numbered, Counted, Credited
<1>4. Sampled' /\ Tailed' /\ Reported'
  BY <1>1, <1>2 DEF BenchInv, Sampled, Tailed, Reported, Truthful, Strays, Late, Anomalies, Running
<1> QED
  BY <1>3, <1>4 DEF BenchInv

\* Errors subtracted from the stage are errors subtracted from the credit.
LEMMA FlushKeeps ==
  ASSUME BenchInv, Flush
  PROVE  BenchInv'
<1>1. /\ step = "flush" /\ step' = "drain"
      /\ okProduced' = produced - (Cardinality(failed) - before.errs)
      /\ UNCHANGED <<stage, produced, before, results, published, pending, failed,
                     stored, queue, redelivered, adding, processed, durs>>
  BY DEF Flush, clientVars, brokerVars, consumerVars
<1>2. Cardinality(failed) \in Nat /\ before.errs \in Nat /\ produced \in Nat
      /\ before.processed \in Nat /\ Cardinality(published) \in Nat
  BY Sizes DEF BenchInv, BenchTyped
<1>3. okProduced' \in Int
  BY <1>1, <1>2
<1>4. Credited'
  <2>1. Cardinality(published) <= before.processed + before.errs + produced
    BY <1>1 DEF BenchInv, Credited
  <2>2. Cardinality(published) <= before.processed + okProduced' + Cardinality(failed)
    BY <1>1, <1>2, <2>1
  <2> QED
    BY <1>1, <2>2 DEF Credited
<1>5. BenchTyped' /\ Settled' /\ Numbered' /\ Counted'
  BY <1>1, <1>3 DEF BenchInv, BenchTyped, Settled, Numbered, Counted
<1>6. Sampled' /\ Tailed' /\ Reported'
  BY <1>1 DEF BenchInv, Sampled, Tailed, Reported, Truthful, Strays, Late, Anomalies, Running
<1> QED
  BY <1>4, <1>5, <1>6 DEF BenchInv

\* One more event in flight.
LEMMA PublishKeeps ==
  ASSUME BenchInv, Publish
  PROVE  BenchInv'
<1> DEFINE e == <<stage, produced + 1>>
<1>1. /\ step = "produce" /\ produced' = produced + 1
      /\ published' = published \cup {e} /\ pending' = pending \cup {e}
      /\ UNCHANGED <<stage, step, before, okProduced, results, failed, stored, queue,
                     redelivered, adding, processed, durs>>
  BY DEF Publish, brokerVars, consumerVars
<1>2. stage \in Nat /\ produced \in Nat /\ IsFiniteSet(published)
      /\ before.processed \in Nat /\ before.errs \in Nat
      /\ published \subseteq Event
  BY DEF BenchInv, BenchTyped
<1>3. e \in Event /\ e[1] = stage /\ e[2] = produced + 1
  BY <1>2 DEF Event
<1> HIDE DEF e
<1>4. e \notin published
  BY <1>2, <1>3 DEF BenchInv, Numbered, Event
<1>5. IsFiniteSet(published') /\ Cardinality(published') = Cardinality(published) + 1
      /\ Cardinality(published) \in Nat
  BY <1>1, <1>2, <1>4, FS_AddElement, FS_CardinalityType
<1>6. BenchTyped'
  BY <1>1, <1>2, <1>3, <1>5 DEF BenchInv, BenchTyped
<1>7. Settled'
  BY <1>1, <1>4 DEF BenchInv, Settled
<1>8. Numbered'
  <2>1. \A x \in published : x[2] \in Nat
    BY <1>2 DEF Event
  <2>2. \A x \in published : x[1] <= stage /\ (x[1] = stage => x[2] <= produced)
    BY DEF BenchInv, Numbered
  <2>3. \A x \in published' : x[1] <= stage /\ (x[1] = stage => x[2] <= produced + 1)
    BY <1>1, <1>2, <1>3, <2>1, <2>2
  <2>4. \A d \in queue : d[1] \in stored /\ d[2] <= redelivered
    BY DEF BenchInv, Numbered
  <2> QED
    BY <1>1, <2>3, <2>4 DEF Numbered
<1>9. Credited'
  <2>1. Cardinality(published) <= before.processed + before.errs + produced
    BY <1>1 DEF BenchInv, Credited
  <2>2. Cardinality(published') <= before.processed + before.errs + produced'
    BY <1>1, <1>2, <1>5, <2>1
  <2> QED
    BY <1>1, <2>2 DEF Credited
<1>10. Late' = Late
  BY <1>1, <1>3 DEF Late
<1>11. Counted' /\ Sampled' /\ Tailed' /\ Reported'
  BY <1>1, <1>10
    DEF BenchInv, Counted, Sampled, Tailed, Reported, Truthful, Strays, Anomalies, Running
<1> QED
  BY <1>6, <1>7, <1>8, <1>9, <1>11 DEF BenchInv

\* The segment is reported.  Few of its samples are foreign, as Tailed says of
\* all that were ever on their way; and when the stage drained few of its events
\* are missed, and little is left for the next one.
LEMMA CollectKeeps ==
  ASSUME BenchInv, NEW drained \in BOOLEAN, Collect(drained)
  PROVE  BenchInv'
<1> DEFINE row == [foreign |-> Cardinality(Foreign), missed |-> Cardinality(Missed),
                   drained |-> drained]
<1>1. /\ step \in {"drain", "waiting"} /\ WaitOver(drained)
      /\ results' = Append(results, row)
      /\ durs' = {}
      /\ \/ drained /\ stage' = stage + 1 /\ step' = "discard"
         \/ step' = "stop" /\ stage' = stage
      /\ UNCHANGED <<produced, before, okProduced, published, pending, failed,
                     stored, queue, redelivered, adding, processed>>
  BY DEF Collect, GoesOn, DrainSegment, clientVars, brokerVars, consumerVars
<1>2. /\ stage \in Nat \ {0} /\ processed \in Nat /\ before.processed \in Nat /\ okProduced \in Int
      /\ IsFiniteSet(queue) /\ IsFiniteSet(durs) /\ IsFiniteSet(published)
      /\ Cardinality(published) \in Nat /\ Cardinality(failed) \in Nat
      /\ Anomalies \in Nat /\ Running
  BY <1>1, Sizes DEF BenchInv, BenchTyped, Anomalies, Running
<1>3. ASSUME drained PROVE Cardinality(published) <= processed + Cardinality(failed)
  <2>1. Cardinality(published) <= before.processed + okProduced + Cardinality(failed)
    BY <1>1 DEF BenchInv, Credited
  <2>2. processed - before.processed >= okProduced
    BY <1>1, <1>3 DEF WaitOver, Caught
  <2> QED
    BY <1>2, <2>1, <2>2
<1>4. Cardinality(Foreign) \in Nat /\ Cardinality(Foreign) <= Anomalies
  <2>1. Foreign \subseteq Strays /\ Strays \subseteq queue \cup durs
    BY DEF Foreign, Strays
  <2>2. IsFiniteSet(Strays)
    BY <1>2, <2>1, FS_Union, FS_Subset
  <2>3. Late \subseteq pending
    BY DEF Late
  <2>4. Cardinality(Late) \in Nat
    BY <2>3, Sizes, FS_Subset, FS_CardinalityType DEF BenchInv
  <2>5. /\ Cardinality(Foreign) <= Cardinality(Strays)
        /\ Cardinality(Foreign) \in Nat /\ Cardinality(Strays) \in Nat
    BY <2>1, <2>2, FS_Subset, FS_CardinalityType
  <2>6. Cardinality(Strays) + Cardinality(Late) <= Anomalies
    BY <1>2 DEF BenchInv, Tailed
  <2> QED
    BY <1>2, <2>4, <2>5, <2>6
<1>5. Cardinality(Missed) \in Nat /\ (drained => Cardinality(Missed) <= Anomalies)
  <2>1. Missed \subseteq published \ failed
    BY DEF Missed
  <2>2. Cardinality(Missed) \in Nat
    BY <1>2, <2>1, FS_Subset, FS_CardinalityType
  <2>3. \A e \in Missed \cap stored : \E d \in queue : d[1] = e
    BY <1>2 DEF BenchInv, Sampled, Missed
  <2>4. ASSUME drained PROVE Cardinality(Missed) <= Anomalies
    <3> DEFINE m == Missed
    <3>1. m \subseteq published \ failed /\ \A e \in m \cap stored : \E d \in queue : d[1] = e
      BY <2>1, <2>3
    <3> HIDE DEF m
    <3>2. Cardinality(m) <= Anomalies
      BY <1>3, <2>4, <3>1, FewAreMissed DEF BenchInv
    <3> QED
      BY <3>2 DEF m
  <2> QED
    BY <2>2, <2>4
<1>6. row \in Row /\ Truthful(row)
  BY <1>4, <1>5 DEF Row, Truthful
<1>7. results' \in Seq(Row) /\ Reported'
  <2> HIDE DEF row
  <2>1. results \in Seq(Row)
    BY DEF BenchInv, BenchTyped
  <2>2. /\ results' \in Seq(Row) /\ Len(results) \in Nat /\ Len(results') = Len(results) + 1
        /\ \A i \in 1..Len(results) : results'[i] = results[i]
        /\ results'[Len(results) + 1] = row
    BY <1>1, <1>6, <2>1
  <2>3. \A i \in 1..Len(results') : Truthful(results'[i])
    BY <1>6, <2>2 DEF BenchInv, Reported
  <2>4. Anomalies' = Anomalies
    BY <1>1 DEF Anomalies
  <2> QED
    BY <2>2, <2>3, <2>4 DEF Reported, Truthful
<1>8. BenchTyped'
  BY <1>1, <1>2, <1>7, FS_EmptySet DEF BenchInv, BenchTyped
<1>9. Settled' /\ Counted'
  BY <1>1 DEF BenchInv, Settled, Counted
<1>10. Numbered'
  <2>1. \A e \in published : e[1] \in Nat
    BY DEF BenchInv, BenchTyped, Event
  <2> QED
    BY <1>1, <1>2, <2>1 DEF BenchInv, Numbered
<1>11. CASE step' = "stop"
  BY <1>7, <1>8, <1>9, <1>10, <1>11 DEF BenchInv, Credited, Sampled, Tailed, Running
<1>12. CASE drained /\ stage' = stage + 1 /\ step' = "discard"
  <2>1. Credited'
    BY <1>1, <1>3, <1>12 DEF Credited
  <2>2. \A e \in published : e[1] # stage + 1
    <3>1. \A e \in published : e[1] \in Nat /\ e[1] <= stage
      BY DEF BenchInv, BenchTyped, Event, Numbered
    <3> QED
      BY <1>2, <3>1
  <2>3. Sampled'
    BY <1>1, <1>12, <2>2 DEF BenchInv, Settled, Sampled
  <2>4. Tailed'
    <3>1. Strays' \subseteq queue /\ Late' \subseteq pending \ stored /\ Anomalies' = Anomalies
      BY <1>1 DEF Strays, Late, Anomalies
    <3>2. Cardinality(queue) + Cardinality(pending \ stored) <= Anomalies
      BY <1>3, <1>12, LittleIsLeft DEF BenchInv
    <3>3. IsFiniteSet(pending \ stored)
      BY Sizes, FS_Subset DEF BenchInv
    <3>4. /\ Cardinality(Strays') <= Cardinality(queue)
          /\ Cardinality(Late') <= Cardinality(pending \ stored)
          /\ Cardinality(Strays') \in Nat /\ Cardinality(queue) \in Nat
          /\ Cardinality(Late') \in Nat /\ Cardinality(pending \ stored) \in Nat
      BY <1>2, <3>1, <3>3, FS_Subset, FS_CardinalityType
    <3> QED
      BY <1>2, <3>1, <3>2, <3>4 DEF Tailed
  <2> QED
    BY <1>7, <1>8, <1>9, <1>10, <2>1, <2>3, <2>4 DEF BenchInv
<1> QED
  BY <1>1, <1>11, <1>12

-----------------------------------------------------------------------------
(* The broker, the client's callbacks and the consumer. *)

\* The sizes that Tailed adds up.
LEMMA TailSizes ==
  ASSUME BenchTyped, Settled
  PROVE  /\ IsFiniteSet(Strays) /\ Cardinality(Strays) \in Nat
         /\ IsFiniteSet(Late) /\ Cardinality(Late) \in Nat
         /\ Anomalies \in Nat
<1>1. Strays \subseteq queue \cup durs /\ Late \subseteq pending
  BY DEF Strays, Late
<1>2. IsFiniteSet(queue \cup durs) /\ IsFiniteSet(pending)
  BY FS_Union, Sizes DEF BenchTyped
<1>3. Anomalies \in Nat
  BY Sizes DEF Anomalies, BenchTyped
<1>4. IsFiniteSet(Strays) /\ IsFiniteSet(Late)
  BY <1>1, <1>2, FS_Subset
<1> QED
  BY <1>3, <1>4, FS_CardinalityType

\* A delivery more is at most a stray more.
LEMMA OneMore ==
  ASSUME BenchTyped, Settled, NEW d, queue' = queue \cup {d}, UNCHANGED <<durs, stage>>
  PROVE  /\ Strays' = IF d[1][1] # stage \/ d[2] # 0 THEN Strays \cup {d} ELSE Strays
         /\ Cardinality(Strays') \in Nat
         /\ Cardinality(Strays') <= Cardinality(Strays) + 1
<1>1. Strays' = IF d[1][1] # stage \/ d[2] # 0 THEN Strays \cup {d} ELSE Strays
  BY DEF Strays
<1>2. Cardinality(Strays) \in Nat /\ IsFiniteSet(Strays)
  BY TailSizes
<1>3. /\ Cardinality(Strays \cup {d}) \in Nat
      /\ Cardinality(Strays \cup {d}) <= Cardinality(Strays) + 1
  <2>1. CASE d \in Strays
    <3>1. Strays \cup {d} = Strays
      BY <2>1
    <3> QED
      BY <1>2, <3>1
  <2>2. CASE d \notin Strays
    <3>1. Cardinality(Strays \cup {d}) = Cardinality(Strays) + 1
      BY <1>2, <2>2, FS_AddElement
    <3> QED
      BY <1>2, <3>1
  <2> QED
    BY <2>1, <2>2
<1> QED
  BY <1>1, <1>2, <1>3

\* A first delivery.  It is a stray when the event belongs to an earlier stage,
\* and then it was among the late ones, or it had failed and is an anomaly now.
LEMMA StoreRecordKeeps ==
  ASSUME BenchInv, NEW e \in published, StoreRecord(e)
  PROVE  BenchInv'
<1> DEFINE d == <<e, 0>>
<1>1. /\ e \notin stored /\ stored' = stored \cup {e} /\ queue' = queue \cup {d}
      /\ UNCHANGED <<stage, step, produced, before, okProduced, results, published, pending,
                     failed, redelivered, adding, processed, durs>>
  BY DEF StoreRecord, stageVars, clientVars, consumerVars
<1>2. d[1] = e /\ d[2] = 0 /\ d \in Delivery
  BY DEF BenchInv, BenchTyped, Delivery
<1> HIDE DEF d
<1>3. BenchTyped /\ Settled /\ IsFiniteSet(stored) /\ IsFiniteSet(queue) /\ redelivered \in Nat
      /\ Cardinality(stored) \in Nat /\ Cardinality(queue) \in Nat /\ processed \in Nat
  BY Sizes DEF BenchInv, BenchTyped
<1>4. d \notin queue
  BY <1>1, <1>2 DEF BenchInv, Numbered
<1>5. /\ IsFiniteSet(stored') /\ Cardinality(stored') = Cardinality(stored) + 1
      /\ IsFiniteSet(queue') /\ Cardinality(queue') = Cardinality(queue) + 1
  BY <1>1, <1>3, <1>4, FS_AddElement
<1>6. BenchTyped'
  BY <1>1, <1>2, <1>5 DEF BenchInv, BenchTyped
<1>7. Settled'
  BY <1>1 DEF BenchInv, Settled
<1>8. Numbered'
  BY <1>1, <1>2, <1>3 DEF BenchInv, Numbered
<1>9. Counted'
  <2>1. processed + Cardinality(queue) + (IF adding = NoDelivery THEN 0 ELSE 1)
          = Cardinality(stored) + redelivered
    BY DEF BenchInv, Counted
  <2>2. processed + Cardinality(queue') + (IF adding = NoDelivery THEN 0 ELSE 1)
          = Cardinality(stored') + redelivered
    BY <1>3, <1>5, <2>1
  <2> QED
    BY <1>1, <2>2 DEF Counted
<1>10. Credited'
  BY <1>1 DEF BenchInv, Credited
<1>11. Sampled'
  BY <1>1, <1>2 DEF BenchInv, Sampled, Running
<1>12. Anomalies \in Nat /\ Anomalies' \in Nat /\ Anomalies <= Anomalies'
  BY <1>1, <1>3, <1>5, AnomaliesGrow
<1>13. Tailed'
  <2> SUFFICES ASSUME Running
               PROVE  Cardinality(Strays') + Cardinality(Late') <= Anomalies'
    BY <1>1 DEF Tailed, Running
  <2>1. Cardinality(Strays) + Cardinality(Late) <= Anomalies
    BY DEF BenchInv, Tailed
  <2>2. /\ Strays' = IF e[1] # stage THEN Strays \cup {d} ELSE Strays
        /\ Cardinality(Strays') \in Nat /\ Cardinality(Strays') <= Cardinality(Strays) + 1
    BY <1>1, <1>2, <1>3, OneMore
  <2>3. /\ IsFiniteSet(Strays) /\ Cardinality(Strays) \in Nat
        /\ IsFiniteSet(Late) /\ Cardinality(Late) \in Nat
    BY <1>3, TailSizes
  <2>4. Late' = Late \ {e}
    BY <1>1 DEF Late
  <2>5. CASE e[1] = stage
    <3>1. Strays' = Strays /\ Late' = Late
      BY <2>2, <2>4, <2>5 DEF Late
    <3> QED
      BY <1>12, <2>1, <2>3, <3>1
  <2>6. CASE e \in Late
    <3>1. Cardinality(Late') = Cardinality(Late) - 1
      BY <2>3, <2>4, <2>6, FS_RemoveElement
    <3> QED
      BY <1>12, <2>1, <2>2, <2>3, <3>1
  <2>7. CASE e[1] # stage /\ e \notin Late
    <3>1. e \in failed
      BY <1>1, <2>7 DEF BenchInv, Settled, Late
    <3>2. stored' \cap failed' = (stored \cap failed) \cup {e} /\ e \notin stored \cap failed
      BY <1>1, <3>1
    <3>3. /\ Cardinality(stored' \cap failed') = Cardinality(stored \cap failed) + 1
          /\ Cardinality(stored \cap failed) \in Nat
      BY <1>3, <3>2, Sizes, FS_AddElement
    <3>4. Anomalies' = Anomalies + 1
      BY <1>1, <1>3, <3>3 DEF Anomalies
    <3>5. Late' = Late
      BY <2>4, <2>7
    <3> QED
      BY <1>12, <2>1, <2>2, <2>3, <3>4, <3>5
  <2> QED
    BY <2>5, <2>6, <2>7
<1>14. Reported'
  BY <1>1, <1>3, <1>12, StaysReported DEF BenchInv
<1> QED
  BY <1>6, <1>7, <1>8, <1>9, <1>10, <1>11, <1>13, <1>14 DEF BenchInv

\* The callback of a stored record: nothing the invariant counts.
LEMMA AcknowledgeKeeps ==
  ASSUME BenchInv, NEW e \in published, Acknowledge(e)
  PROVE  BenchInv'
<1>1. /\ e \in stored /\ pending' = pending \ {e}
      /\ UNCHANGED <<stage, step, produced, before, okProduced, results, published, failed,
                     stored, queue, redelivered, adding, processed, durs>>
  BY DEF Acknowledge, stageVars, brokerVars, consumerVars
<1>2. Late' = Late
  BY <1>1 DEF Late
<1>3. BenchTyped' /\ Settled' /\ Numbered' /\ Counted' /\ Credited'
  BY <1>1 DEF BenchInv, BenchTyped, Settled, Numbered, Counted, Credited
<1>4. Sampled' /\ Tailed' /\ Reported'
  BY <1>1, <1>2 DEF BenchInv, Sampled, Tailed, Reported, Truthful, Strays, Anomalies, Running
<1> QED
  BY <1>3, <1>4 DEF BenchInv

\* A callback with an error: the credit of later tests.
LEMMA CountErrorKeeps ==
  ASSUME BenchInv, NEW e \in published, CountError(e)
  PROVE  BenchInv'
<1>1. /\ e \in pending /\ pending' = pending \ {e} /\ failed' = failed \cup {e}
      /\ UNCHANGED <<stage, step, produced, before, okProduced, results, published,
                     stored, queue, redelivered, adding, processed, durs>>
  BY DEF CountError, stageVars, brokerVars, consumerVars
<1>2. /\ BenchTyped /\ Settled /\ e \notin failed /\ IsFiniteSet(failed) /\ IsFiniteSet(stored)
      /\ redelivered \in Nat /\ Cardinality(failed) \in Nat /\ Cardinality(published) \in Nat
      /\ processed \in Nat /\ before.processed \in Nat /\ okProduced \in Int
  BY <1>1, Sizes DEF BenchInv, BenchTyped, Settled
<1>3. Cardinality(failed') = Cardinality(failed) + 1
  BY <1>1, <1>2, FS_AddElement
<1>4. BenchTyped' /\ Settled' /\ Numbered' /\ Counted'
  BY <1>1 DEF BenchInv, BenchTyped, Settled, Numbered, Counted
<1>5. Credited'
  <2>1. step \in {"discard", "counters"} => Cardinality(published) <= processed + Cardinality(failed')
    BY <1>2, <1>3 DEF BenchInv, Credited
  <2>2. step \in {"drain", "waiting"} =>
          Cardinality(published) <= before.processed + okProduced + Cardinality(failed')
    BY <1>2, <1>3 DEF BenchInv, Credited
  <2> QED
    BY <1>1, <2>1, <2>2 DEF BenchInv, Credited
<1>6. Sampled'
  BY <1>1 DEF BenchInv, Sampled, Running
<1>7. Anomalies \in Nat /\ Anomalies' \in Nat /\ Anomalies <= Anomalies'
  BY <1>1, <1>2, AnomaliesGrow
<1>8. Tailed'
  <2> SUFFICES ASSUME Running
               PROVE  Cardinality(Strays') + Cardinality(Late') <= Anomalies'
    BY <1>1 DEF Tailed, Running
  <2>1. Strays' = Strays /\ Late' \subseteq Late
    BY <1>1 DEF Strays, Late
  <2>2. /\ Cardinality(Strays) \in Nat /\ Cardinality(Late) \in Nat /\ Cardinality(Late') \in Nat
        /\ Cardinality(Late') <= Cardinality(Late)
    BY <1>2, <2>1, TailSizes, FS_Subset, FS_CardinalityType
  <2>3. Cardinality(Strays) + Cardinality(Late) <= Anomalies
    BY DEF BenchInv, Tailed
  <2> QED
    BY <1>7, <2>1, <2>2, <2>3
<1>9. Reported'
  BY <1>1, <1>2, <1>7, StaysReported DEF BenchInv
<1> QED
  BY <1>4, <1>5, <1>6, <1>8, <1>9 DEF BenchInv

\* Another delivery of a stored event: a stray, and an anomaly.
LEMMA RedeliverKeeps ==
  ASSUME BenchInv, NEW e \in published, Redeliver(e)
  PROVE  BenchInv'
<1> DEFINE d == <<e, redelivered + 1>>
<1>1. /\ e \in stored /\ redelivered' = redelivered + 1 /\ queue' = queue \cup {d}
      /\ UNCHANGED <<stage, step, produced, before, okProduced, results, published, pending,
                     failed, stored, adding, processed, durs>>
  BY DEF Redeliver, stageVars, clientVars, consumerVars
<1>2. BenchTyped /\ Settled /\ IsFiniteSet(stored) /\ IsFiniteSet(queue) /\ redelivered \in Nat
      /\ Cardinality(stored) \in Nat /\ Cardinality(queue) \in Nat /\ processed \in Nat
      /\ Cardinality(stored \cap failed) \in Nat
  BY Sizes DEF BenchInv, BenchTyped
<1>3. d[1] = e /\ d[2] = redelivered + 1 /\ d \in Delivery
  BY <1>2 DEF BenchTyped, Delivery
<1> HIDE DEF d
<1>4. d \notin queue
  BY <1>2, <1>3 DEF BenchInv, Numbered
<1>5. IsFiniteSet(queue') /\ Cardinality(queue') = Cardinality(queue) + 1
  BY <1>1, <1>2, <1>4, FS_AddElement
<1>6. BenchTyped'
  <2>1. queue' \subseteq Delivery /\ redelivered' \in Nat
    BY <1>1, <1>2, <1>3 DEF BenchTyped
  <2> QED
    BY <1>1, <1>2, <1>5, <2>1 DEF BenchTyped
<1>7. Numbered'
  <2>1. queue \subseteq Delivery
    BY <1>2 DEF BenchTyped
  <2>2. \A x \in queue : x[2] \in Nat
    BY <2>1 DEF Delivery
  <2>3. \A x \in queue' : x[1] \in stored /\ x[2] <= redelivered'
    BY <1>1, <1>2, <1>3, <2>2 DEF BenchInv, Numbered
  <2> QED
    BY <1>1, <2>3 DEF BenchInv, Numbered
<1>8. Counted'
  <2>1. processed + Cardinality(queue) + (IF adding = NoDelivery THEN 0 ELSE 1)
          = Cardinality(stored) + redelivered
    BY DEF BenchInv, Counted
  <2>2. processed + Cardinality(queue') + (IF adding = NoDelivery THEN 0 ELSE 1)
          = Cardinality(stored) + redelivered'
    BY <1>1, <1>2, <1>5, <2>1
  <2> QED
    BY <1>1, <2>2 DEF Counted
<1>9. Settled' /\ Credited' /\ Sampled'
  BY <1>1 DEF BenchInv, Settled, Credited, Sampled, Running
<1>10. Anomalies \in Nat /\ Anomalies' = Anomalies + 1
  BY <1>1, <1>2 DEF Anomalies
<1>11. Tailed'
  <2> SUFFICES ASSUME Running
               PROVE  Cardinality(Strays') + Cardinality(Late') <= Anomalies'
    BY <1>1 DEF Tailed, Running
  <2>1. Late' = Late
    BY <1>1 DEF Late
  <2>2. /\ Cardinality(Strays) \in Nat /\ Cardinality(Late) \in Nat
        /\ Cardinality(Strays') \in Nat /\ Cardinality(Strays') <= Cardinality(Strays) + 1
    BY <1>1, <1>2, TailSizes, OneMore
  <2>3. Cardinality(Strays) + Cardinality(Late) <= Anomalies
    BY DEF BenchInv, Tailed
  <2> QED
    BY <1>10, <2>1, <2>2, <2>3
<1>12. Reported'
  BY <1>1, <1>2, <1>10, StaysReported DEF BenchInv
<1> QED
  BY <1>6, <1>7, <1>8, <1>9, <1>11, <1>12 DEF BenchInv

\* The consumer takes a delivery and appends its sample.
LEMMA AddSampleKeeps ==
  ASSUME BenchInv, AddSample
  PROVE  BenchInv'
<1>1. PICK d \in queue : durs' = durs \cup {d} /\ adding' = d /\ queue' = queue \ {d}
  BY DEF AddSample
<1>2. /\ adding = NoDelivery
      /\ UNCHANGED <<stage, step, produced, before, okProduced, results, published, pending,
                     failed, stored, redelivered, processed>>
  BY DEF AddSample, stageVars, clientVars
<1>3. /\ d \in Delivery /\ IsFiniteSet(queue) /\ IsFiniteSet(durs)
      /\ Cardinality(queue) \in Nat /\ processed \in Nat
  BY Sizes DEF BenchInv, BenchTyped
<1>4. /\ IsFiniteSet(queue') /\ Cardinality(queue') = Cardinality(queue) - 1
      /\ IsFiniteSet(durs')
  BY <1>1, <1>3, FS_RemoveElement, FS_AddElement
<1>5. adding' # NoDelivery
  BY <1>1, <1>3, NoDeliveryAssumption DEF Delivery, Event
<1>6. BenchTyped'
  BY <1>1, <1>2, <1>3, <1>4 DEF BenchInv, BenchTyped
<1>7. Counted'
  <2>1. processed + Cardinality(queue) + 0 = Cardinality(stored) + redelivered
    BY <1>2 DEF BenchInv, Counted
  <2>2. processed + Cardinality(queue') + 1 = Cardinality(stored) + redelivered
    BY <1>3, <1>4, <2>1
  <2> QED
    BY <1>2, <1>5, <2>2 DEF Counted
<1>8. queue' \cup durs' = queue \cup durs
  BY <1>1
<1>9. Settled' /\ Numbered' /\ Credited'
  BY <1>1, <1>2 DEF BenchInv, Settled, Numbered, Credited
<1>10. Sampled' /\ Tailed' /\ Reported'
  BY <1>2, <1>8
    DEF BenchInv, Sampled, Tailed, Reported, Truthful, Strays, Late, Anomalies, Running
<1> QED
  BY <1>6, <1>7, <1>9, <1>10 DEF BenchInv

\* The consumer counts the delivery, after the mutex was released.
LEMMA CountProcessedKeeps ==
  ASSUME BenchInv, CountProcessed
  PROVE  BenchInv'
<1>1. /\ adding # NoDelivery /\ processed' = processed + 1 /\ adding' = NoDelivery
      /\ UNCHANGED <<stage, step, produced, before, okProduced, results, published, pending,
                     failed, stored, queue, redelivered, durs>>
  BY DEF CountProcessed, stageVars, clientVars
<1>2. /\ processed \in Nat /\ Cardinality(queue) \in Nat
      /\ Cardinality(published) \in Nat /\ Cardinality(failed) \in Nat
  BY Sizes DEF BenchInv, BenchTyped
<1>3. Counted'
  <2>1. processed + Cardinality(queue) + 1 = Cardinality(stored) + redelivered
    BY <1>1 DEF BenchInv, Counted
  <2>2. processed' + Cardinality(queue) + 0 = Cardinality(stored) + redelivered
    BY <1>1, <1>2, <2>1
  <2> QED
    BY <1>1, <2>2 DEF Counted
<1>4. Credited'
  <2>1. Cardinality(published) <= processed + Cardinality(failed)
          => Cardinality(published) <= processed' + Cardinality(failed)
    BY <1>1, <1>2
  <2> QED
    BY <1>1, <2>1 DEF BenchInv, Credited
<1>5. BenchTyped' /\ Settled' /\ Numbered'
  BY <1>1, <1>2 DEF BenchInv, BenchTyped, Settled, Numbered
<1>6. Sampled' /\ Tailed' /\ Reported'
  BY <1>1 DEF BenchInv, Sampled, Tailed, Reported, Truthful, Strays, Late, Anomalies, Running
<1> QED
  BY <1>3, <1>4, <1>5, <1>6 DEF BenchInv

\* The composition: the deployment and the producer leave the benchmark alone.
LEMMA BenchInvariant == PublishSpec => []BenchInv
<1>1. PublishInit => BenchInv
  <2> SUFFICES ASSUME BenchInit PROVE BenchInv
    BY DEF PublishInit
  <2>1. /\ stage = 1 /\ step = "discard" /\ produced = 0
        /\ before = [errs |-> 0, processed |-> 0]
        /\ okProduced = 0 /\ published = {} /\ pending = {} /\ failed = {} /\ stored = {}
        /\ queue = {} /\ redelivered = 0 /\ durs = {} /\ adding = NoDelivery
        /\ processed = 0 /\ results = <<>>
    BY DEF BenchInit
  <2>2. IsFiniteSet({}) /\ Cardinality({}) = 0
    BY FS_EmptySet
  <2>3. before.errs = 0 /\ before.processed = 0
    BY <2>1
  <2>4. BenchTyped
    BY <2>1, <2>2, <2>3 DEF BenchTyped
  <2>5. Settled /\ Numbered /\ Counted /\ Credited /\ Sampled
    BY <2>1, <2>2 DEF Settled, Numbered, Counted, Credited, Sampled
  <2>6. Tailed
    <3>1. Strays = {} /\ Late = {} /\ stored \cap failed = {}
      BY <2>1 DEF Strays, Late
    <3> QED
      BY <2>1, <2>2, <3>1 DEF Tailed, Anomalies
  <2>7. Reported
    BY <2>1 DEF Reported
  <2> QED
    BY <2>4, <2>5, <2>6, <2>7 DEF BenchInv
<1>2. BenchInv /\ [PublishNext]_allVars => BenchInv'
  <2> SUFFICES ASSUME BenchInv, [PublishNext]_allVars PROVE BenchInv'
    OBVIOUS
  <2>1. CASE BenchNext
    <3>1. CASE \E e \in published :
                  StoreRecord(e) \/ Acknowledge(e) \/ CountError(e) \/ Redeliver(e)
      BY <3>1, StoreRecordKeeps, AcknowledgeKeeps, CountErrorKeeps, RedeliverKeeps
    <3>2. CASE Collect(TRUE) \/ Collect(FALSE)
      BY <3>2, CollectKeeps
    <3>3. CASE Discard \/ ReadCounters \/ Flush \/ Publish \/ AddSample \/ CountProcessed
      BY <3>3, DiscardKeeps, ReadCountersKeeps, FlushKeeps, PublishKeeps, AddSampleKeeps,
         CountProcessedKeeps
    <3>4. CASE StopProducing \/ DrainSleep \/ Report \/ ConsumerReturns
      BY <3>4, QuietKeeps
    <3> QED
      BY <2>1, <3>1, <3>2, <3>3, <3>4 DEF BenchNext, BenchMain
  <2>2. CASE UNCHANGED benchVars
    BY <2>2, QuietKeeps
  <2> QED
    BY <2>1, <2>2 DEF PublishNext, Deploy, Produce, Measure, allVars
<1> QED
  BY <1>1, <1>2, PTL DEF PublishSpec

\* For any ladder, any number of events, errors and redeliveries, the foreign
\* samples a stage reports, and the events it misses although it says that it
\* drained, are no more than the records stored in spite of an error and the
\* redeliveries: with none of these, a stage that drained reports the latencies
\* of exactly its own events that did not fail.
THEOREM StageAlwaysExact == PublishSpec => []StageExact
<1>1. BenchInv => StageExact
  <2> SUFFICES ASSUME BenchInv, NEW i \in DOMAIN results
               PROVE  /\ results[i].foreign <= Anomalies
                      /\ results[i].drained => results[i].missed <= Anomalies
    BY DEF StageExact
  <2>1. i \in 1..Len(results)
    BY DEF BenchInv, BenchTyped
  <2> QED
    BY <2>1 DEF BenchInv, Reported, Truthful
<1> QED
  BY <1>1, BenchInvariant, PTL
=============================================================================
