------------------------------- MODULE MCCore -------------------------------
(* TLC instances of Core: small event pools and pattern sets. *)
EXTENDS Core, TLC

CONSTANTS m1, m2

Ev(m, b, v, t) == [id |-> <<m, b, v, t>>, member |-> m, behavior |-> b, val |-> v, at |-> t]

St(b, joins, binds, wait) ==
  [behavior |-> b, joins |-> joins, binds |-> binds, wait |-> wait, negative |-> FALSE]
Not(b, joins, wait) ==
  [behavior |-> b, joins |-> joins, binds |-> FALSE, wait |-> wait, negative |-> TRUE]

NoRules == {}
Whole == {[rules |-> Rules, patterns |-> DOMAIN Patterns]}

(* Aggregation: one member, one behavior, four buckets of two time units.    *)
AggEvents == {Ev(m1, "trade", 1, t) : t \in {0, 1, 4, 5, 7}}
               \cup {Ev(m1, "trade", 3, t) : t \in {3, 6}}
               \cup {Ev(m1, "trade", NoNum, 5)}
AggRules == {[id |-> 1, behavior |-> "trade", agg |-> "COUNT", window |-> 2, min |-> 2],
             [id |-> 2, behavior |-> "trade", agg |-> "SUM", window |-> 3, min |-> 4],
             [id |-> 3, behavior |-> "trade", agg |-> "MAX", window |-> 5, min |-> 3]}

(* Redelivery of the events of a sequence.                                    *)
AggPatterns == [p \in {"tt"} |-> <<St("trade", FALSE, FALSE, NoWait), St("trade", FALSE, FALSE, 3)>>]
(* The process is started with all the rules, or without the longest.         *)
AggConfigs == {[rules |-> {r \in Rules : r.id \in ids}, patterns |-> {"tt"}] : ids \in {1..3, 1..2}}

(* Patterns: a then b with the bound value; a, b, c; a not followed by c; two *)
(* three-state patterns that end in a negative state, one with the deadline   *)
(* before the end of its longest window; an instant match.                    *)
(* The second member keeps the shard's time going.                            *)
CepEvents == {Ev(m1, "a", 1, t) : t \in {0, 2}}
               \cup {Ev(m1, "b", 1, t) : t \in {2, 5}}
               \cup {Ev(m1, "c", 1, t) : t \in {2, 4}}
               \cup {Ev(m1, "b", 2, 1)} \cup {Ev(m2, "a", 1, t) : t \in {3, 6}}
CepPatterns ==
  [p \in {"ab", "abc", "aNotC", "abNotC", "acNotB", "b"} |->
     CASE p = "ab" -> <<St("a", FALSE, TRUE, NoWait), St("b", TRUE, FALSE, 2)>>
       [] p = "abc" -> <<St("a", FALSE, FALSE, NoWait), St("b", FALSE, TRUE, 2), St("c", TRUE, FALSE, 3)>>
       [] p = "aNotC" -> <<St("a", FALSE, FALSE, NoWait), Not("c", FALSE, 2)>>
       [] p = "abNotC" -> <<St("a", FALSE, FALSE, NoWait), St("b", FALSE, FALSE, 2), Not("c", FALSE, 4)>>
       [] p = "acNotB" -> <<St("a", FALSE, FALSE, NoWait), St("c", FALSE, FALSE, 3), Not("b", FALSE, 2)>>
       [] p = "b" -> <<St("b", FALSE, FALSE, NoWait)>>]

CepConfigs == {[rules |-> {}, patterns |-> ps] :
                 ps \in {DOMAIN CepPatterns, {"ab", "abNotC", "b"}}}

(* The single pattern of the run that looks at one claim.                     *)
ANotC == [p \in {"aNotC"} |-> CepPatterns["aNotC"]]
=============================================================================
