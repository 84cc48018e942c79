---------------------------- MODULE ExpressionTree ----------------------------
(***************************************************************************)
(* Expressions and what they mean.  An expression is a record with a kind: *)
(* "bool" with its value; "compare" with id, op and value; "not" with arg; *)
(* "or" and "and" with args, the head and the tail as one sequence.        *)
(***************************************************************************)
EXTENDS Integers, Sequences

CONSTANTS
  Symbols,  \* the symbols of a text
  Longs,    \* the number x3::long_ reads from each symbol that is one
  MaxDepth  \* bound: how deep an expression nests

ASSUME DepthAssumption == MaxDepth \in Nat

Identifiers == {"event", "file", "process", "pid", "uid", "gid"}

Values ==
  [type : {"bool"}, of : BOOLEAN]
    \union [type : {"long"}, of : {Longs[n] : n \in DOMAIN Longs}]
    \union [type : {"string"}, of : Seq(Symbols)]

Leaves ==
  [kind : {"bool"}, value : BOOLEAN]
    \union [kind : {"compare"}, id : Identifiers, op : {"EQ", "NEQ"}, value : Values]

\* An operand, or what is built of the operands in S.
Over(S) ==
  Leaves \union [kind : {"not"}, arg : S] \union [kind : {"or", "and"}, args : Seq(S) \ {<<>>}]

trees[depth \in 0 .. MaxDepth] == IF depth = 0 THEN Leaves ELSE Over(trees[depth - 1])

Trees == trees[MaxDepth]

Comparisons(x) ==
  LET comparisons[y \in Trees] ==
        CASE y.kind = "bool" -> {}
          [] y.kind = "compare" -> {y}
          [] y.kind = "not" -> comparisons[y.arg]
          [] OTHER -> UNION {comparisons[y.args[i]] : i \in DOMAIN y.args}
  IN  comparisons[x]

\* The textbook meaning of an expression, given the truth of its comparisons.
Holds(x, truth) ==
  LET holds[y \in Trees] ==
        CASE y.kind = "bool" -> y.value
          [] y.kind = "compare" -> truth[y]
          [] y.kind = "not" -> ~holds[y.arg]
          [] y.kind = "or" -> \E i \in DOMAIN y.args : holds[y.args[i]]
          [] OTHER -> \A i \in DOMAIN y.args : holds[y.args[i]]
  IN  holds[x]
=============================================================================
