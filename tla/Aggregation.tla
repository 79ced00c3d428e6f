---------------------------- MODULE Aggregation ----------------------------
(***************************************************************************)
(* The time-bucketed aggregation of one behavior of one member             *)
(* (aggregation.go).  Buckets are a function from aligned start times to   *)
(* pre-aggregated data; a bucket carries the event ids it has counted, the *)
(* basis of idempotency.  One numeric field is modelled; NoNum is a field  *)
(* that is absent or not numeric.                                          *)
(***************************************************************************)
EXTENDS Integers, FiniteSetsExt

CONSTANTS BucketSize, \* bucketSize, in time units
          NoNum,      \* the event has no numeric value in the field
          NoWindow    \* an aggregate key without a window

ASSUME BucketSizeAssumption == BucketSize \in Nat \ {0}

\* The aggregations a rule may name.
Aggregations == {"COUNT", "SUM", "AVG", "MAX", "MIN"}

NoBuckets == [ts \in {} |-> 0]

AlignBucket(t) == t - (t % BucketSize)

NewBucketData == [count |-> 0, sum |-> 0, max |-> NoNum, min |-> NoNum, ids |-> {}]

Larger(cur, v) == IF cur = NoNum \/ (v # NoNum /\ v > cur) THEN v ELSE cur
Smaller(cur, v) == IF cur = NoNum \/ (v # NoNum /\ v < cur) THEN v ELSE cur

\* The bug of a bucket that forgets the ids it counted before.
CountInto_Bug(b, id, v) ==
  [count |-> b.count + 1,
   sum   |-> IF v = NoNum THEN b.sum ELSE b.sum + v,
   max   |-> IF v = NoNum THEN b.max ELSE Larger(b.max, v),
   min   |-> IF v = NoNum THEN b.min ELSE Smaller(b.min, v),
   ids   |-> {id}]

\* One event counted into a bucket that has not seen its id.
CountInto(b, id, v) ==
  [count |-> b.count + 1,
   sum   |-> IF v = NoNum THEN b.sum ELSE b.sum + v,
   max   |-> IF v = NoNum THEN b.max ELSE Larger(b.max, v),
   min   |-> IF v = NoNum THEN b.min ELSE Smaller(b.min, v),
   ids   |-> b.ids \cup {id}]

\* The bug of a cutoff one bucket too high.
PruneExpiredBuckets_Bug(buckets, at, maxWindow) ==
  [ts \in {x \in DOMAIN buckets : x > AlignBucket(at - maxWindow)} |-> buckets[ts]]

PruneExpiredBuckets(buckets, at, maxWindow) ==
  [ts \in {x \in DOMAIN buckets : x >= AlignBucket(at - maxWindow)} |-> buckets[ts]]

\* updateAggregations: a known id changes nothing, not even the pruning.
UpdateAggregations(buckets, id, at, v, maxWindow) ==
  LET ts == AlignBucket(at)
      b == IF ts \in DOMAIN buckets THEN buckets[ts] ELSE NewBucketData
  IN IF id \in b.ids
     THEN buckets
     ELSE PruneExpiredBuckets(
            [x \in DOMAIN buckets \cup {ts} |->
               IF x = ts THEN CountInto(b, id, v) ELSE buckets[x]],
            at, maxWindow)

\* computeBucketAggregation: the buckets whose start lies in
\* [align(now - window), align(now)], folded.  AVG is kept as the pair
\* <<sum, count>> of its quotient; MAX and MIN of nothing are 0.
ComputeBucketAggregation(buckets, agg, window, now) ==
  LET since == IF window = NoWindow THEN 0 ELSE AlignBucket(now - window)
      hit == {ts \in DOMAIN buckets : since <= ts /\ ts <= AlignBucket(now)}
      count == MapThenSumSet(LAMBDA ts : buckets[ts].count, hit)
      sum == MapThenSumSet(LAMBDA ts : buckets[ts].sum, hit)
      maxs == {buckets[ts].max : ts \in hit} \ {NoNum}
      mins == {buckets[ts].min : ts \in hit} \ {NoNum}
  IN CASE agg = "COUNT" -> count
       [] agg = "SUM" -> sum
       [] agg = "AVG" -> IF count = 0 THEN <<0, 1>> ELSE <<sum, count>>
       [] agg = "MAX" -> IF maxs = {} THEN 0 ELSE Max(maxs)
       [] agg = "MIN" -> IF mins = {} THEN 0 ELSE Min(mins)
       [] OTHER -> 0
=============================================================================
