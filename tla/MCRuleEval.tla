----------------------------- MODULE MCRuleEval -----------------------------
(* TLC instance of RuleEval: conditions over every operator, trees of depth   *)
(* two and, below a NOT, three.                                               *)
EXTENDS RuleEval

Num(i, s) == [t |-> "num", n |-> i, show |-> s]
Str(s) == [t |-> "str", n |-> 0, show |-> s]
Ref(x) == [t |-> "ref", n |-> 0, show |-> "$x", name |-> x]
List(items) == [t |-> "list", n |-> 0, show |-> "list", items |-> items]

Field(k, x) == [kind |-> k, name |-> x]
NoField == Field("field", "none")

Cond(f, op, v, w) ==
  [type |-> "CONDITION", children |-> <<>>, field |-> f, op |-> op, value |-> v, window |-> w]
Tree(t, cs) ==
  [type |-> t, children |-> cs, field |-> NoField, op |-> "", value |-> Nil, window |-> 0]

\* An int and a float64 of one value, which %v prints differently.
Million == Num(1000000, "1000000")
MillionFloat == Num(1000000, "1e+06")

Values == {Num(1, "1"), Num(2, "2"), Million, Str("1"), Ref("x"), List(<<Str("1"), Num(2, "2")>>)}
Conds == {Cond(f, op, v, 5) :
            f \in {Field("field", "amount"), Field("var", "x"), Field("agg", "sum")},
            op \in {">", "<=", "=", "==", "!=", "IN", "NOT_IN", "LIKE"}, v \in Values}
FewConds == {Cond(Field("field", "amount"), op, Num(1, "1"), 0) : op \in {">", "=", "LIKE"}}
              \cup {Cond(Field("agg", "sum"), ">", Num(1, "1"), w) : w \in {5, 60}}
Pairs == {Tree(t, <<a, b>>) : t \in {"AND", "OR", "NOT"}, a \in FewConds, b \in FewConds}

MCNodes == Conds \cup FewConds \cup Pairs
             \cup {Tree("NOT", <<c>>) : c \in Conds \cup Pairs}
             \cup {Tree(t, <<>>) : t \in {"AND", "OR", "NOT", "XOR"}}

MCDepth ==
  [nd \in MCNodes |-> IF nd.children = <<>> THEN 0 ELSE IF nd \in Pairs THEN 1 ELSE 2]

MCContexts ==
  {[fields |-> f, vars |-> x, aggs |-> g] :
     f \in {[n \in {} |-> Nil], [n \in {"amount"} |-> Num(1, "1")], [n \in {"amount"} |-> Str("1")],
           [n \in {"amount"} |-> MillionFloat]},
     x \in {[n \in {} |-> Nil], [n \in {"x"} |-> Num(2, "2")]},
     g \in {[k \in {<<"sum", 5>>} |-> Num(2, "2")], [k \in {<<"sum", 5>>, <<"sum", 60>>} |-> Num(0, "0")]}}
=============================================================================
