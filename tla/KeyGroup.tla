------------------------------ MODULE KeyGroup ------------------------------
(***************************************************************************)
(* The two-level routing of keygroup.go: a member hashes to one of         *)
(* NumKeyGroups key groups for ever, and a key group maps to a shard by    *)
(* kg * numShards / NumKeyGroups.  Producers (producer_kafka.go,           *)
(* producer_nats.go) use it to choose partition or subject; a shard reads  *)
(* only its own.                                                           *)
(*                                                                         *)
(* The state machine walks the key groups in order for a fixed number of   *)
(* shards, counting the groups each shard receives, the way a deployment   *)
(* assigns them.                                                           *)
(***************************************************************************)
EXTENDS Integers, FiniteSets

CONSTANTS NumKeyGroups, \* 1024 in the code
          MaxShards     \* bound: shard counts considered

ASSUME NumKeyGroupsAssumption == NumKeyGroups \in Nat \ {0}
ASSUME MaxShardsAssumption == MaxShards \in 1..NumKeyGroups

VARIABLES numShards, \* the deployment's shard count
          kg,        \* next key group to assign
          assigned   \* [shard -> its key groups]

vars == <<numShards, kg, assigned>>

\* The bug of dividing by the last key group instead of their number.
ShardOf_Bug(g, n) == (g * n) \div (NumKeyGroups - 1)

\* The bug of fixed-size ranges: groups per shard rounded down first.
ShardOf_Uneven(g, n) ==
  LET size == NumKeyGroups \div n IN IF g \div size < n THEN g \div size ELSE n - 1

\* The bug of dealing the key groups out in turn.
ShardOf_Modulo(g, n) == g % n

\* ShardOf: proportional ranges.
ShardOf(g, n) == (g * n) \div NumKeyGroups

\* KeyGroupOf: the checksum reduced modulo the number of groups.
KeyGroupOf(checksum) == checksum % NumKeyGroups

ShardOfMember(checksum, n) == ShardOf(KeyGroupOf(checksum), n)

Init ==
  /\ numShards \in 1..MaxShards
  /\ kg = 0
  /\ assigned = [s \in 0..(numShards - 1) |-> {}]

Assign ==
  /\ kg < NumKeyGroups
  /\ assigned' = [s \in DOMAIN assigned \cup {ShardOf(kg, numShards)} |->
                    IF s = ShardOf(kg, numShards)
                    THEN (IF s \in DOMAIN assigned THEN assigned[s] ELSE {}) \cup {kg}
                    ELSE assigned[s]]
  /\ kg' = kg + 1
  /\ UNCHANGED numShards

Spec == Init /\ [][Assign]_vars

\* Whatever the checksum, a member's events go to a shard that exists.
RoutedInRange ==
  \A c \in 0..(2 * NumKeyGroups) : ShardOfMember(c, numShards) \in 0..(numShards - 1)

\* Each shard's key groups are one contiguous range, in shard order: a larger
\* key group never belongs to an earlier shard.
Contiguous ==
  \A s, t \in DOMAIN assigned : \A g \in assigned[s], h \in assigned[t] :
    s < t => g < h

\* Once all are assigned no shard has more than one key group more than another
\* (in particular no shard is left without any).
Balanced ==
  kg = NumKeyGroups =>
    \A s, t \in DOMAIN assigned : Cardinality(assigned[s]) <= Cardinality(assigned[t]) + 1
=============================================================================
