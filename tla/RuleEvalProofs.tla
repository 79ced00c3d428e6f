--------------------------- MODULE RuleEvalProofs ---------------------------
(***************************************************************************)
(* The compiler of rule trees against the interpreter, proved for any set  *)
(* of trees of any depth, any operators and values and any contexts.       *)
(*                                                                         *)
(* A tree is walked from the leaves up, so the proofs go by induction over *)
(* trees: a set that contains a tree whenever it contains its children     *)
(* contains every tree (TreeInduction), because the children are less      *)
(* deep.  The same argument gives the recursive functions of RuleEval      *)
(* their values (WalkExists), node by node.                                *)
(***************************************************************************)
EXTENDS RuleEval, TLAPS, WellFoundedInduction

-----------------------------------------------------------------------------
(* Induction over trees. *)

\* A set of numbers that contains 0 and every successor contains them all.
LEMMA NumbersFromZero ==
  ASSUME NEW P, 0 \in P, \A n \in Nat : n \in P => n + 1 \in P
  PROVE  Nat \subseteq P
<1> DEFINE Bad == Nat \ P
<1>1. ASSUME Bad # {} PROVE FALSE
  <2>1. PICK n \in Bad : \A k \in Bad : <<k, n>> \notin OpToRel(<, Nat)
    BY <1>1, WFMin, NatLessThanWellFounded
  <2>2. n \in Nat /\ n # 0
    OBVIOUS
  <2>3. n - 1 \in Nat /\ n - 1 < n /\ n - 1 + 1 = n
    BY <2>2
  <2>4. n - 1 \in Bad
    BY <2>2, <2>3
  <2> QED
    BY <2>1, <2>2, <2>3, <2>4 DEF OpToRel
<1> QED
  BY <1>1

\* The trees that are less than n deep.
UpTo(n) == {nd \in Nodes : Depth[nd] < n}

\* The children of a tree are trees, and less deep.
LEMMA Children ==
  ASSUME NEW nd \in Nodes, NEW i \in DOMAIN nd.children
  PROVE  /\ nd.children[i] \in Nodes
         /\ Depth[nd] \in Nat /\ Depth[nd.children[i]] \in Nat
         /\ Depth[nd.children[i]] < Depth[nd]
<1>1. nd.children \in Seq(Nodes) /\ Depth[nd.children[i]] < Depth[nd]
  BY TreesAssumption
<1>2. nd.children[i] \in Nodes
  BY <1>1
<1> QED
  BY <1>1, <1>2, TreesAssumption

\* A set of trees that contains every tree whose children it contains, contains
\* every tree.
LEMMA TreeInduction ==
  ASSUME NEW P, \A nd \in Nodes : (\A i \in DOMAIN nd.children : nd.children[i] \in P) => nd \in P
  PROVE  Nodes \subseteq P
<1> DEFINE Q == {n \in Nat : UpTo(n) \subseteq P}
<1>1. 0 \in Q
  BY TreesAssumption DEF UpTo
<1>2. ASSUME NEW n \in Nat, n \in Q PROVE n + 1 \in Q
  <2>1. ASSUME NEW nd \in UpTo(n + 1) PROVE nd \in P
    <3>1. nd \in Nodes /\ Depth[nd] < n + 1
      BY DEF UpTo
    <3>2. ASSUME NEW i \in DOMAIN nd.children PROVE nd.children[i] \in P
      <4>1. nd.children[i] \in UpTo(n)
        BY <3>1, Children DEF UpTo
      <4> QED
        BY <1>2, <4>1
    <3> QED
      BY <3>1, <3>2
  <2> QED
    BY <2>1
<1> HIDE DEF Q
<1>3. Nat \subseteq Q
  BY <1>1, <1>2, NumbersFromZero
<1>4. ASSUME NEW nd \in Nodes PROVE nd \in P
  <2>1. Depth[nd] + 1 \in Nat /\ nd \in UpTo(Depth[nd] + 1)
    BY TreesAssumption DEF UpTo
  <2> QED
    BY <1>3, <2>1 DEF Q
<1> QED
  BY <1>4

-----------------------------------------------------------------------------
(* The three walks of a tree. *)

\* What a walk does at a node with the results of its children.
Step(walk, c, nd, rs) ==
  IF walk = "evaluate" THEN EvalNode(nd, rs, c)
  ELSE IF walk = "compile" THEN CompileNode(nd, rs)
  ELSE KeysNode(nd, rs)

\* f is the result of a walk for every tree of S.
Walked(walk, c, S, f) == f = [nd \in S |-> Step(walk, c, nd, OnChildren(f, nd))]

\* Results of one walk for different depths agree.
LEMMA WalksAgree ==
  ASSUME NEW walk, NEW c, NEW n \in Nat, NEW m \in Nat,
         NEW f, Walked(walk, c, UpTo(n), f), NEW g, Walked(walk, c, UpTo(m), g)
  PROVE  \A nd \in Nodes : nd \in UpTo(n) /\ nd \in UpTo(m) => f[nd] = g[nd]
<1> DEFINE P == {nd \in Nodes : nd \in UpTo(n) /\ nd \in UpTo(m) => f[nd] = g[nd]}
<1>1. ASSUME NEW nd \in Nodes, \A i \in DOMAIN nd.children : nd.children[i] \in P,
             nd \in UpTo(n), nd \in UpTo(m)
      PROVE  f[nd] = g[nd]
  <2>1. ASSUME NEW i \in DOMAIN nd.children PROVE f[nd.children[i]] = g[nd.children[i]]
    <3>1. nd.children[i] \in UpTo(n) /\ nd.children[i] \in UpTo(m)
      BY <1>1, Children DEF UpTo
    <3> QED
      BY <1>1, <3>1
  <2>2. OnChildren(f, nd) = OnChildren(g, nd)
    BY <2>1 DEF OnChildren
  <2>3. f[nd] = Step(walk, c, nd, OnChildren(f, nd)) /\ g[nd] = Step(walk, c, nd, OnChildren(g, nd))
    BY <1>1 DEF Walked
  <2> QED
    BY <2>2, <2>3
<1>2. \A nd \in Nodes : (\A i \in DOMAIN nd.children : nd.children[i] \in P) => nd \in P
  BY <1>1
<1> HIDE DEF P
<1>3. Nodes \subseteq P
  BY <1>2, TreeInduction
<1> QED
  BY <1>3 DEF P

\* A walk has a result for the trees up to every depth: one level more is one step
\* from the results of the levels below.
LEMMA WalkUpTo ==
  ASSUME NEW walk, NEW c, NEW n \in Nat
  PROVE  \E f : Walked(walk, c, UpTo(n), f)
<1> DEFINE P == {k \in Nat : \E f : Walked(walk, c, UpTo(k), f)}
<1>1. 0 \in P
  <2> DEFINE f == [nd \in UpTo(0) |-> {}]
  <2>1. UpTo(0) = {}
    BY TreesAssumption DEF UpTo
  <2>2. Walked(walk, c, UpTo(0), f)
    BY <2>1 DEF Walked
  <2> HIDE DEF f
  <2> QED
    BY <2>2
<1>2. ASSUME NEW k \in Nat, k \in P PROVE k + 1 \in P
  <2>1. PICK f : Walked(walk, c, UpTo(k), f)
    BY <1>2
  <2> DEFINE g == [nd \in UpTo(k + 1) |-> Step(walk, c, nd, OnChildren(f, nd))]
  <2>2. ASSUME NEW nd \in UpTo(k + 1) PROVE OnChildren(f, nd) = OnChildren(g, nd)
    <3>1. ASSUME NEW i \in DOMAIN nd.children
          PROVE  f[nd.children[i]] = g[nd.children[i]]
      <4>1. nd \in Nodes /\ Depth[nd] < k + 1
        BY DEF UpTo
      <4>2. nd.children[i] \in UpTo(k) /\ nd.children[i] \in UpTo(k + 1)
        BY <4>1, Children DEF UpTo
      <4>3. f[nd.children[i]] = Step(walk, c, nd.children[i], OnChildren(f, nd.children[i]))
        BY <2>1, <4>2 DEF Walked
      <4> QED
        BY <4>2, <4>3
    <3> HIDE DEF g
    <3> QED
      BY <3>1 DEF OnChildren
  <2>3. \A nd \in UpTo(k + 1) : Step(walk, c, nd, OnChildren(f, nd))
                              = Step(walk, c, nd, OnChildren(g, nd))
    BY <2>2
  <2>4. Walked(walk, c, UpTo(k + 1), g)
    BY <2>3, Zenon DEF Walked
  <2> HIDE DEF g
  <2> QED
    BY <2>4
<1> HIDE DEF P
<1>3. n \in P
  BY <1>1, <1>2, NumbersFromZero
<1> QED
  BY <1>3 DEF P

\* A walk has a result for every tree.
LEMMA WalkExists ==
  ASSUME NEW walk, NEW c
  PROVE  \E f : Walked(walk, c, Nodes, f)
<1> DEFINE sol(n) == CHOOSE f : Walked(walk, c, UpTo(n), f)
           h == [nd \in Nodes |-> sol(Depth[nd] + 1)[nd]]
<1>1. \A n \in Nat : Walked(walk, c, UpTo(n), sol(n))
  BY WalkUpTo, Zenon
<1> HIDE DEF sol
<1>2. ASSUME NEW nd \in Nodes PROVE h[nd] = Step(walk, c, nd, OnChildren(h, nd))
  <2> DEFINE n == Depth[nd] + 1
  <2>1. n \in Nat /\ nd \in UpTo(n)
    BY TreesAssumption DEF UpTo
  <2>2. ASSUME NEW i \in DOMAIN nd.children
        PROVE  sol(n)[nd.children[i]] = h[nd.children[i]]
    <3> DEFINE kid == nd.children[i]
               m == Depth[kid] + 1
    <3>1. kid \in Nodes /\ m \in Nat /\ kid \in UpTo(n) /\ kid \in UpTo(m)
      BY Children DEF UpTo
    <3> HIDE DEF m, kid, n
    <3>2. sol(n)[kid] = sol(m)[kid]
      BY <1>1, <2>1, <3>1, WalksAgree
    <3> QED
      BY <3>1, <3>2 DEF m, kid
  <2>3. h[nd] = sol(n)[nd]
    OBVIOUS
  <2> HIDE DEF h, n
  <2>4. OnChildren(sol(n), nd) = OnChildren(h, nd)
    BY <2>2 DEF OnChildren
  <2>5. sol(n)[nd] = Step(walk, c, nd, OnChildren(sol(n), nd))
    BY <1>1, <2>1 DEF Walked
  <2> QED
    BY <2>3, <2>4, <2>5
<1>3. h = [nd \in Nodes |-> h[nd]]
  OBVIOUS
<1> HIDE DEF h
<1>4. Walked(walk, c, Nodes, h)
  BY <1>2, <1>3, Zenon DEF Walked
<1> QED
  BY <1>4

\* Evaluate at a node, from its answers for the children.
LEMMA EvaluateSteps ==
  ASSUME NEW nd \in Nodes, NEW c, NEW rs,
         rs = [i \in DOMAIN nd.children |-> Evaluate(nd.children[i], c)]
  PROVE  Evaluate(nd, c) = EvalNode(nd, rs, c)
<1> DEFINE e == CHOOSE f : f = [x \in Nodes |-> EvalNode(x, OnChildren(f, x), c)]
<1>1. PICK f : Walked("evaluate", c, Nodes, f)
  BY WalkExists
<1>2. \A x, r : Step("evaluate", c, x, r) = EvalNode(x, r, c)
  BY DEF Step
<1>3. f = [x \in Nodes |-> EvalNode(x, OnChildren(f, x), c)]
  BY <1>1, <1>2 DEF Walked
<1>4. e = [x \in Nodes |-> EvalNode(x, OnChildren(e, x), c)]
  BY <1>3, Zenon
<1>5. \A x : Evaluate(x, c) = e[x]
  BY Zenon DEF Evaluate
<1> HIDE DEF e
<1>6. rs = OnChildren(e, nd)
  BY <1>5 DEF OnChildren
<1> QED
  BY <1>4, <1>5, <1>6

\* Compile at a node, from the closures of the children.
LEMMA CompileSteps ==
  ASSUME NEW nd \in Nodes, NEW rs,
         rs = [i \in DOMAIN nd.children |-> Compile(nd.children[i])]
  PROVE  Compile(nd) = CompileNode(nd, rs)
<1> DEFINE e == CHOOSE f : f = [x \in Nodes |-> CompileNode(x, OnChildren(f, x))]
<1>1. PICK f : Walked("compile", {}, Nodes, f)
  BY WalkExists
<1>2. \A x, r : Step("compile", {}, x, r) = CompileNode(x, r)
  BY DEF Step
<1>3. f = [x \in Nodes |-> CompileNode(x, OnChildren(f, x))]
  BY <1>1, <1>2 DEF Walked
<1>4. e = [x \in Nodes |-> CompileNode(x, OnChildren(e, x))]
  BY <1>3, Zenon
<1>5. \A x : Compile(x) = e[x]
  BY Zenon DEF Compile
<1> HIDE DEF e
<1>6. rs = OnChildren(e, nd)
  BY <1>5 DEF OnChildren
<1> QED
  BY <1>4, <1>5, <1>6

\* CollectAggregateKeys at a node, from the keys of the children.
LEMMA KeysSteps ==
  ASSUME NEW nd \in Nodes, NEW rs,
         rs = [i \in DOMAIN nd.children |-> CollectAggregateKeys(nd.children[i])]
  PROVE  CollectAggregateKeys(nd) = KeysNode(nd, rs)
<1> DEFINE e == CHOOSE f : f = [x \in Nodes |-> KeysNode(x, OnChildren(f, x))]
<1>1. PICK f : Walked("keys", {}, Nodes, f)
  BY WalkExists
<1>2. \A x, r : Step("keys", {}, x, r) = KeysNode(x, r)
  BY DEF Step
<1>3. f = [x \in Nodes |-> KeysNode(x, OnChildren(f, x))]
  BY <1>1, <1>2 DEF Walked
<1>4. e = [x \in Nodes |-> KeysNode(x, OnChildren(e, x))]
  BY <1>3, Zenon
<1>5. \A x : CollectAggregateKeys(x) = e[x]
  BY Zenon DEF CollectAggregateKeys
<1> HIDE DEF e
<1>6. rs = OnChildren(e, nd)
  BY <1>5 DEF OnChildren
<1> QED
  BY <1>4, <1>5, <1>6

-----------------------------------------------------------------------------
(* Closure and tree. *)

\* The window that a closure keeps is the one that Resolve looks at.
LEMMA WindowKept ==
  ASSUME NEW nd, NEW c, NEW window, window = IF nd.field.kind = "agg" THEN nd.window ELSE 0
  PROVE  ResolveLHS(c, nd.field, window) = ResolveLHS(c, nd.field, nd.window)
BY DEF ResolveLHS, Resolve

\* The comparator chosen for an operator answers what evalCondition does with it:
\* it goes by the kinds of the values at hand, whatever they are.
LEMMA ComparatorAgrees ==
  ASSUME NEW op, NEW cmp, cmp = BuildComparator(op), cmp # CompileError, NEW a, NEW b,
         NEW answer,
         answer = CASE op = "IN" -> InList(a, b)
                    [] op = "NOT_IN" -> Negate(InList(a, b))
                    [] op \notin {"IN", "NOT_IN"} /\ IsNum(a) /\ IsNum(b) ->
                         IF op \in NumOps \cup EqOps THEN Bool(Compare(op, a.n, b.n)) ELSE "E"
                    [] OTHER ->
                         IF op \in EqOps THEN Bool((a.show = b.show) <=> (op # "!=")) ELSE "E"
  PROVE  Apply(cmp, a, b) = answer
<1>1. CASE op \in {"IN", "NOT_IN"}
  <2>1. cmp = [k |-> "in", op |-> op]
    BY <1>1 DEF BuildComparator, NumOps, EqOps
  <2> QED
    BY <1>1, <2>1 DEF Apply
<1>2. CASE op \in NumOps
  <2>1. cmp = [k |-> "num", op |-> op]
    BY <1>2 DEF BuildComparator, NumOps, EqOps
  <2>2. op \notin EqOps /\ op \notin {"IN", "NOT_IN"}
    BY <1>2 DEF NumOps, EqOps
  <2>3. CASE IsNum(a) /\ IsNum(b)
    BY <1>2, <2>1, <2>2, <2>3 DEF Apply
  <2>4. CASE ~(IsNum(a) /\ IsNum(b))
    BY <1>2, <2>1, <2>2, <2>4 DEF Apply
  <2> QED
    BY <2>3, <2>4
<1>3. CASE op \in EqOps
  <2>1. cmp = [k |-> "numOrStr", op |-> op]
    BY <1>3 DEF BuildComparator, NumOps, EqOps
  <2>2. op \notin {"IN", "NOT_IN"}
    BY <1>3 DEF EqOps
  <2>3. CASE IsNum(a) /\ IsNum(b)
    BY <1>3, <2>1, <2>2, <2>3 DEF Apply
  <2>4. CASE ~(IsNum(a) /\ IsNum(b))
    BY <1>3, <2>1, <2>2, <2>4 DEF Apply
  <2> QED
    BY <2>3, <2>4
<1> QED
  BY <1>1, <1>2, <1>3 DEF BuildComparator

\* What the closure of a tree owes the tree.
Agrees(nd) ==
  Compile(nd) # CompileError =>
    /\ Compile(nd).k = "closure"
    /\ \A c \in Contexts : Compile(nd).run[c] = Evaluate(nd, c)
    /\ Compile(nd).reads \subseteq CollectAggregateKeys(nd)

\* A condition's closure.
LEMMA ConditionAgrees ==
  ASSUME NEW nd \in Nodes, nd.type = "CONDITION"
  PROVE  Agrees(nd)
<1> DEFINE window == IF nd.field.kind = "agg" THEN nd.window ELSE 0
           cmp == BuildComparator(nd.op)
           compiled_ == CompileCondition(nd)
<1>1. Compile(nd) = CompileCondition(nd)
  BY CompileSteps DEF CompileNode
<1>2. \A c : Evaluate(nd, c) = EvalCondition(nd, c)
  BY EvaluateSteps DEF EvalNode
<1>3. CollectAggregateKeys(nd) = IF nd.field.kind = "agg" THEN {AggregateKey(nd)} ELSE {}
  BY KeysSteps DEF KeysNode
<1> SUFFICES ASSUME Compile(nd) # CompileError
             PROVE  /\ Compile(nd).k = "closure"
                    /\ \A c \in Contexts : Compile(nd).run[c] = Evaluate(nd, c)
                    /\ Compile(nd).reads \subseteq CollectAggregateKeys(nd)
  BY DEF Agrees
<1>4. cmp # CompileError
  BY <1>1 DEF CompileCondition
<1>5. Compile(nd) =
        [k |-> "closure",
         run |-> [c \in Contexts |->
                    Apply(cmp, ResolveLHS(c, nd.field, window), ResolveRHS(c, nd.value))],
         reads |-> IF nd.field.kind = "agg" THEN {<<nd.field.name, window>>} ELSE {}]
  BY <1>1, <1>4 DEF CompileCondition
<1>6. ASSUME NEW c \in Contexts
      PROVE  Apply(cmp, ResolveLHS(c, nd.field, window), ResolveRHS(c, nd.value))
               = EvalCondition(nd, c)
  <2>1. ResolveLHS(c, nd.field, window) = ResolveLHS(c, nd.field, nd.window)
    BY WindowKept
  <2> QED
    BY <1>4, <2>1, ComparatorAgrees DEF EvalCondition
<1>7. Compile(nd).reads \subseteq CollectAggregateKeys(nd)
  BY <1>3, <1>5 DEF AggregateKey
<1> HIDE DEF cmp, window
<1> QED
  BY <1>2, <1>5, <1>6, <1>7

\* A conjunction, a disjunction or a negation of trees that agree with theirs.
LEMMA InnerAgrees ==
  ASSUME NEW nd \in Nodes, nd.type \in {"AND", "OR", "NOT"},
         \A i \in DOMAIN nd.children : Agrees(nd.children[i])
  PROVE  Agrees(nd)
<1> DEFINE subs == [i \in DOMAIN nd.children |-> Compile(nd.children[i])]
           keys == [i \in DOMAIN nd.children |-> CollectAggregateKeys(nd.children[i])]
           answers(c) == [i \in DOMAIN nd.children |-> Evaluate(nd.children[i], c)]
<1>1. Compile(nd) = CompileNode(nd, subs)
  BY CompileSteps
<1>2. \A c : Evaluate(nd, c) = EvalNode(nd, answers(c), c)
  BY EvaluateSteps
<1>3. CollectAggregateKeys(nd) = UNION {keys[i] : i \in DOMAIN keys}
  <2>1. CollectAggregateKeys(nd) = KeysNode(nd, keys)
    BY KeysSteps
  <2> QED
    BY <2>1 DEF KeysNode
<1>4. DOMAIN subs = DOMAIN nd.children /\ DOMAIN keys = DOMAIN nd.children
  OBVIOUS
<1> SUFFICES ASSUME Compile(nd) # CompileError
             PROVE  /\ Compile(nd).k = "closure"
                    /\ \A c \in Contexts : Compile(nd).run[c] = Evaluate(nd, c)
                    /\ Compile(nd).reads \subseteq CollectAggregateKeys(nd)
  BY DEF Agrees
<1> HIDE DEF subs, keys
<1>5. /\ nd.type = "NOT" => Len(nd.children) = 1
      /\ \A i \in DOMAIN nd.children : subs[i] # CompileError
  BY <1>1, <1>4 DEF CompileNode
<1>6. Compile(nd) =
        [k |-> "closure",
         run |-> [c \in Contexts |-> Combine(nd.type, [i \in DOMAIN subs |-> subs[i].run[c]])],
         reads |-> UNION {subs[i].reads : i \in DOMAIN subs}]
  BY <1>1, <1>4, <1>5 DEF CompileNode
<1>7. ASSUME NEW i \in DOMAIN nd.children
      PROVE  /\ \A c \in Contexts : subs[i].run[c] = Evaluate(nd.children[i], c)
             /\ subs[i].reads \subseteq keys[i]
  BY <1>5 DEF Agrees, subs, keys
<1>8. ASSUME NEW c \in Contexts
      PROVE  Combine(nd.type, [i \in DOMAIN subs |-> subs[i].run[c]]) = Evaluate(nd, c)
  <2>1. [i \in DOMAIN subs |-> subs[i].run[c]] = answers(c)
    BY <1>4, <1>7
  <2> HIDE DEF answers
  <2>2. Combine(nd.type, answers(c)) = EvalNode(nd, answers(c), c)
    BY <1>5 DEF Combine, EvalNode
  <2> QED
    BY <1>2, <2>1, <2>2
<1>9. Compile(nd).reads \subseteq CollectAggregateKeys(nd)
  BY <1>3, <1>4, <1>6, <1>7
<1> QED
  BY <1>6, <1>8, <1>9

\* Every tree and its closure.
LEMMA EveryTreeAgrees == \A nd \in Nodes : Agrees(nd)
<1> DEFINE P == {nd \in Nodes : Agrees(nd)}
<1>1. ASSUME NEW nd \in Nodes, \A i \in DOMAIN nd.children : nd.children[i] \in P
      PROVE  nd \in P
  <2>1. CASE nd.type = "CONDITION"
    BY <2>1, ConditionAgrees
  <2>2. CASE nd.type \in {"AND", "OR", "NOT"}
    BY <1>1, <2>2, InnerAgrees
  <2>3. CASE nd.type \notin {"CONDITION", "AND", "OR", "NOT"}
    <3>1. Compile(nd) = CompileError
      BY <2>3, CompileSteps DEF CompileNode
    <3> QED
      BY <3>1 DEF Agrees
  <2> QED
    BY <2>1, <2>2, <2>3
<1> HIDE DEF P
<1>2. Nodes \subseteq P
  BY <1>1, TreeInduction
<1> QED
  BY <1>2 DEF P

-----------------------------------------------------------------------------
(* The theorems. *)

\* What the variables of the three operations hold.
IInv ==
  /\ node \in Nodes /\ ctx \in Contexts
  /\ compiled \in {NotYet, CompileError, Compile(node)}
  /\ direct \in {"none", Evaluate(node, ctx)}
  /\ run # "none" =>
       compiled \notin {NotYet, CompileError} /\ run = compiled.run[ctx]

LEMMA Invariant == Spec => []IInv
<1>1. Init => IInv
  BY DEF Init, IInv
<1>2. IInv /\ [Next]_vars => IInv'
  <2> SUFFICES ASSUME IInv, [Next]_vars PROVE IInv'
    OBVIOUS
  <2>1. CASE CompileRule
    BY <2>1 DEF CompileRule, IInv, NotYet, CompileError
  <2>2. CASE EvaluateRule
    BY <2>2 DEF EvaluateRule, IInv
  <2>3. CASE RunCompiled
    BY <2>3 DEF RunCompiled, IInv
  <2>4. CASE UNCHANGED vars
    BY <2>4 DEF vars, IInv
  <2> QED
    BY <2>1, <2>2, <2>3, <2>4 DEF Next
<1> QED
  BY <1>1, <1>2, PTL DEF Spec

\* Compile and Evaluate: whatever the tree and the context, a rule that compiles
\* answers what the interpreter answers, errors included.
THEOREM AlwaysCompiledAgrees == Spec => []CompiledAgrees
<1>1. IInv => CompiledAgrees
  <2> SUFFICES ASSUME IInv, run # "none", direct # "none" PROVE run = direct
    BY DEF CompiledAgrees
  <2>1. compiled = Compile(node) /\ compiled # CompileError
    BY DEF IInv
  <2> QED
    BY <2>1, EveryTreeAgrees DEF IInv, Agrees
<1> QED
  BY <1>1, Invariant, PTL

\* CollectAggregateKeys and buildLHSResolver: the closure of a tree of any depth
\* looks up no aggregate that was not collected from the tree.
THEOREM AlwaysAggregatesPreloaded == Spec => []AggregatesPreloaded
<1>1. IInv => AggregatesPreloaded
  BY EveryTreeAgrees DEF IInv, Agrees, AggregatesPreloaded
<1> QED
  BY <1>1, Invariant, PTL
=============================================================================
