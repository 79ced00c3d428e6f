---------------------------- MODULE MCRuleStore ----------------------------
(* The TLC instance of RuleStore: a seeded rule, two more ids, and four trees. *)
EXTENDS RuleStore, TLC

Cond(field, safe, knownOp, window) ==
  [field |-> field, aggregate |-> TRUE, safe |-> safe, knownOp |-> knownOp, window |-> window]
Tree(conds) == [conds |-> conds, wellFormed |-> TRUE]

Short == Tree({Cond("Trade:COUNT", TRUE, TRUE, [value |-> 5, unit |-> "minutes"])})
Long == Tree({Cond("Trade:COUNT", TRUE, TRUE, [value |-> 24, unit |-> "hours"]),
              [field |-> "amount", aggregate |-> FALSE, safe |-> FALSE, knownOp |-> TRUE,
               window |-> NoWindow]})
Unknown == Tree({Cond("Trade:SUM:amount", TRUE, FALSE, NoWindow)})
Unsafe == Tree({Cond("Trade:MEDIAN:amount", FALSE, TRUE, NoWindow)})

MCNodes == {Short, Long, Unknown, Unsafe}
MCSeed == [i \in {1} |-> [label |-> "a", node |-> Short, status |-> Active]]
MCPatterns == {[id |-> "ok", active |-> TRUE, decodes |-> TRUE, registrable |-> TRUE],
               [id |-> "off", active |-> FALSE, decodes |-> TRUE, registrable |-> FALSE]}
=============================================================================
