------------------------------ MODULE RuleEval ------------------------------
(***************************************************************************)
(* Rule conditions: the interpreter of usecase/rule.go, the compiler to    *)
(* closures of usecase/compile.go, and the aggregate keys a rule set       *)
(* preloads (model/entity.go, preloaded_context.go).                       *)
(*                                                                         *)
(* A value is [t, n, show]: its dynamic type, its number if it has one,    *)
(* and what fmt's %v prints, which is what strings are compared by.        *)
(* Results are "T", "F" and "E" (an error).  A closure is the function     *)
(* from contexts to results that it is, with the aggregates it looks up.   *)
(*                                                                         *)
(* Each of the three walks of a tree is one operator on a node and what    *)
(* the walk made of its children, and a recursive function that applies it *)
(* from the leaves up.                                                     *)
(***************************************************************************)
EXTENDS Integers, Sequences, FiniteSets

CONSTANTS Nodes,     \* rule trees, each with its subtrees
          Depth,     \* [Nodes -> Nat]: a tree is read from JSON, its nesting ends
          Contexts   \* [fields, vars, aggs]: functions from names to values

ASSUME TreesAssumption ==
  /\ Depth \in [Nodes -> Nat]
  /\ \A nd \in Nodes : /\ nd.children \in Seq(Nodes)
                       /\ \A i \in DOMAIN nd.children : Depth[nd.children[i]] < Depth[nd]

VARIABLES node, ctx,
          compiled,  \* NotYet, CompileError or the closure
          direct,    \* "none" or what Evaluate returned
          run        \* "none" or what the closure returned

vars == <<node, ctx, compiled, direct, run>>

NotYet == [k |-> "not yet"]
CompileError == [k |-> "error"]

Nil == [t |-> "nil", n |-> 0, show |-> "<nil>"]
IsNum(v) == v.t = "num"
Lookup(f, name) == IF name \in DOMAIN f THEN f[name] ELSE Nil

NumOps == {">", "<", ">=", "<="}
EqOps == {"=", "==", "!="}
Bool(b) == IF b THEN "T" ELSE "F"
Negate(r) == CASE r = "T" -> "F" [] r = "F" -> "T" [] OTHER -> "E"

Compare(op, a, b) ==
  CASE op = ">" -> a > b [] op = "<" -> a < b [] op = ">=" -> a >= b
    [] op = "<=" -> a <= b [] op \in {"=", "=="} -> a = b [] op = "!=" -> a # b

\* PreloadedEvalContext.Resolve: a plain field, or the preloaded aggregate of
\* this field and window; nil when there is none.
Resolve(c, field, window) ==
  IF field.kind = "agg" THEN Lookup(c.aggs, <<field.name, window>>)
  ELSE Lookup(c.fields, field.name)

\* resolveValue and buildLHSResolver.
ResolveLHS(c, field, window) ==
  IF field.kind = "var" THEN Lookup(c.vars, field.name) ELSE Resolve(c, field, window)

\* resolveRHS and buildRHSResolver: an unbound reference stands for its own text.
ResolveRHS(c, value) ==
  IF value.t = "ref" /\ value.name \in DOMAIN c.vars THEN c.vars[value.name] ELSE value

\* evalIn and cmpIn: membership by what is printed.
InList(a, list) ==
  IF list.t # "list" THEN "E"
  ELSE Bool(\E i \in DOMAIN list.items : list.items[i].show = a.show)

\* evalCondition.
EvalCondition(nd, c) ==
  LET a == ResolveLHS(c, nd.field, nd.window)
      b == ResolveRHS(c, nd.value)
  IN CASE nd.op = "IN" -> InList(a, b)
       [] nd.op = "NOT_IN" -> Negate(InList(a, b))
       [] nd.op \notin {"IN", "NOT_IN"} /\ IsNum(a) /\ IsNum(b) ->
            IF nd.op \in NumOps \cup EqOps THEN Bool(Compare(nd.op, a.n, b.n)) ELSE "E"
       [] OTHER ->
            IF nd.op \in EqOps THEN Bool((a.show = b.show) <=> (nd.op # "!=")) ELSE "E"

\* The first answer of a sequence that ends a conjunction (or disjunction).
FirstOther(rs, neutral) ==
  LET stop == {i \in DOMAIN rs : rs[i] # neutral}
  IN IF stop = {} THEN neutral ELSE rs[CHOOSE i \in stop : \A j \in stop : i <= j]

\* What a walk f made of the children of a node.
OnChildren(f, nd) == [i \in DOMAIN nd.children |-> f[nd.children[i]]]

\* evalAnd, evalOr, evalNot: AND stops at the first child that is not true, OR at
\* the first that is not false.
EvalNode(nd, results, c) ==
  CASE nd.type = "AND" -> FirstOther(results, "T")
    [] nd.type = "OR" -> FirstOther(results, "F")
    [] nd.type = "NOT" -> IF Len(nd.children) # 1 THEN "E" ELSE Negate(results[1])
    [] nd.type = "CONDITION" -> EvalCondition(nd, c)
    [] OTHER -> "E"

Evaluate(tree, c) ==
  LET e[nd \in Nodes] == EvalNode(nd, OnChildren(e, nd), c)
  IN e[tree]

\* The bug of a comparator for equality that skips the numeric path.
BuildComparator_Bug(op) ==
  CASE op \in {"IN", "NOT_IN"} -> [k |-> "in", op |-> op]
    [] op \in NumOps -> [k |-> "num", op |-> op]
    [] op \in EqOps -> [k |-> "str", op |-> op]
    [] OTHER -> CompileError

\* buildComparator: fixed at compile time by the operator alone.
BuildComparator(op) ==
  CASE op \in {"IN", "NOT_IN"} -> [k |-> "in", op |-> op]
    [] op \in NumOps -> [k |-> "num", op |-> op]
    [] op \in EqOps -> [k |-> "numOrStr", op |-> op]
    [] OTHER -> CompileError

\* A comparator applied: numericOrStringCmp and cmpIn.
Apply(cmp, a, b) ==
  CASE cmp.k = "in" -> IF cmp.op = "IN" THEN InList(a, b) ELSE Negate(InList(a, b))
    [] cmp.k # "in" /\ cmp.k # "str" /\ IsNum(a) /\ IsNum(b) -> Bool(Compare(cmp.op, a.n, b.n))
    [] cmp.k = "num" /\ ~(IsNum(a) /\ IsNum(b)) -> "E"
    [] OTHER -> Bool((a.show = b.show) <=> (cmp.op # "!="))

\* compileCondition: the window is looked at for an aggregate only.
CompileCondition(nd) ==
  LET cmp == BuildComparator(nd.op)
      window == IF nd.field.kind = "agg" THEN nd.window ELSE 0
  IN IF cmp = CompileError THEN CompileError
     ELSE [k |-> "closure",
           run |-> [c \in Contexts |->
                      Apply(cmp, ResolveLHS(c, nd.field, window), ResolveRHS(c, nd.value))],
           reads |-> IF nd.field.kind = "agg" THEN {<<nd.field.name, window>>} ELSE {}]

\* compileAnd, compileOr, compileNot: an error in any child is one of the tree; what
\* the closure does with the answers of its children.
Combine(type, results) ==
  CASE type = "AND" -> FirstOther(results, "T")
    [] type = "OR" -> FirstOther(results, "F")
    [] type = "NOT" -> Negate(results[1])

CompileNode(nd, subs) ==
  CASE nd.type \in {"AND", "OR", "NOT"} ->
         IF \/ nd.type = "NOT" /\ Len(nd.children) # 1
            \/ \E i \in DOMAIN subs : subs[i] = CompileError
         THEN CompileError
         ELSE [k |-> "closure",
               run |-> [c \in Contexts |->
                          Combine(nd.type, [i \in DOMAIN subs |-> subs[i].run[c]])],
               reads |-> UNION {subs[i].reads : i \in DOMAIN subs}]
    [] nd.type = "CONDITION" -> CompileCondition(nd)
    [] OTHER -> CompileError

Compile(tree) ==
  LET f[nd \in Nodes] == CompileNode(nd, OnChildren(f, nd))
  IN f[tree]

\* The bug of keying the preloaded aggregates by field alone.
AggregateKey_Bug(nd) == <<nd.field.name, 0>>

\* CacheKey: the field and its window.
AggregateKey(nd) == <<nd.field.name, nd.window>>

KeysNode(nd, keys) ==
  IF nd.type = "CONDITION"
  THEN IF nd.field.kind = "agg" THEN {AggregateKey(nd)} ELSE {}
  ELSE UNION {keys[i] : i \in DOMAIN keys}

CollectAggregateKeys(tree) ==
  LET f[nd \in Nodes] == KeysNode(nd, OnChildren(f, nd))
  IN f[tree]

-----------------------------------------------------------------------------
Init == /\ node \in Nodes
        /\ ctx \in Contexts
        /\ compiled = NotYet
        /\ direct = "none"
        /\ run = "none"

CompileRule == /\ compiled = NotYet
               /\ compiled' = Compile(node)
               /\ UNCHANGED <<node, ctx, direct, run>>

EvaluateRule == /\ direct = "none"
                /\ direct' = Evaluate(node, ctx)
                /\ UNCHANGED <<node, ctx, compiled, run>>

RunCompiled == /\ compiled \notin {NotYet, CompileError}
               /\ run = "none"
               /\ run' = compiled.run[ctx]
               /\ UNCHANGED <<node, ctx, compiled, direct>>

Next == CompileRule \/ EvaluateRule \/ RunCompiled

Spec == Init /\ [][Next]_vars

\* A rule that compiles answers, on every context, exactly what the interpreter
\* answers on its tree: the same truth value, and an error on the same events.
CompiledAgrees == run # "none" /\ direct # "none" => run = direct

\* Every aggregate the closure looks up is among the keys collected from the
\* tree, so evaluateRules has computed it: no rule reads a missing aggregate.
AggregatesPreloaded ==
  compiled \notin {NotYet, CompileError} =>
    compiled.reads \subseteq CollectAggregateKeys(node)
=============================================================================
