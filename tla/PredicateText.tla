----------------------------- MODULE PredicateText -----------------------------
(***************************************************************************)
(* The text of --expr: the grammar of Boost.Spirit X3 that reads it, and   *)
(* the printer.                                                            *)
(*                                                                         *)
(* A text is a sequence of symbols, blanks between them being skipped: the *)
(* operators, the names, a number, either quotation mark, or a word that   *)
(* stands only inside quotation marks, where any other symbol may too.     *)
(* X3 tries alternatives in their order and repeats as often as it can;    *)
(* expect[] turns a failure behind it into an exception.                   *)
(*                                                                         *)
(* Each rule is an operator from a text and a position to a match (a tree  *)
(* and the next position), to no match or to an exception.  The rules that *)
(* are recursive take as read the function that Parse makes of them all.   *)
(***************************************************************************)
EXTENDS ExpressionTree, SequencesExt

Bools == {"true", "false"}
Operators == {"==", "!="}
Single == "'"
Double == "\""
End == "end of text"

ASSUME TextAssumption ==
  DOMAIN Longs \intersect (Bools \union {Single, Double, End}) = {}

ASSUME SymbolsAssumption ==
  Bools \union Operators \union Identifiers \union DOMAIN Longs
    \union {"(", ")", "!", "&&", "||", Single} \subseteq Symbols

(* ------------------------------ the grammar ----------------------------- *)

No == [is |-> "no"]
Throws == [is |-> "throws"]
Ok(tree, next) == [is |-> "ok", tree |-> tree, next |-> next]

Expect(r) == IF r.is = "no" THEN Throws ELSE r

At(t, i) == IF i <= Len(t) THEN t[i] ELSE End

\* Not empty, up to the next mark of the same kind.
Quoted(t, i) ==
  LET ends == {j \in i + 2 .. Len(t) : t[j] = t[i] /\ \A k \in i + 1 .. j - 1 : t[k] # t[i]}
  IN  IF At(t, i) \notin {Single, Double} \/ ends = {}
        THEN No
        ELSE LET j == CHOOSE e \in ends : TRUE
             IN  Ok([type |-> "string", of |-> SubSeq(t, i + 1, j - 1)], j + 1)

Value(t, i) ==
  CASE At(t, i) \in Bools -> Ok([type |-> "bool", of |-> t[i] = "true"], i + 1)
    [] At(t, i) \in DOMAIN Longs -> Ok([type |-> "long", of |-> Longs[t[i]]], i + 1)
    [] OTHER -> Quoted(t, i)

Operator(sign) == IF sign = "==" THEN "EQ" ELSE "NEQ"

\* comparison_operation behind an identifier: an operator and a value.
Operation(t, i) ==
  LET v == Value(t, i + 2)
  IN  IF At(t, i + 1) \in Operators /\ v.is = "ok"
        THEN Ok([kind |-> "compare", id |-> t[i], op |-> Operator(t[i + 1]), value |-> v.tree], v.next)
        ELSE No

Comparison(t, i) == IF At(t, i) \in Identifiers THEN Expect(Operation(t, i)) ELSE No

\* r, and behind it a parenthesis.
Closed(t, r) ==
  IF r.is = "ok"
    THEN IF At(t, r.next) = ")" THEN Ok(r.tree, r.next + 1) ELSE No
    ELSE r

\* bool_, a comparison or a disjunction in parentheses.
Primary(t, i, read) ==
  CASE At(t, i) \in Bools -> Ok([kind |-> "bool", value |-> t[i] = "true"], i + 1)
    [] At(t, i) = "(" ->
         LET c == Closed(t, Comparison(t, i + 1))
         IN  IF c.is # "no" THEN c ELSE Closed(t, read["or", i + 1])
    [] OTHER -> No

Negated(r) == IF r.is = "ok" THEN Ok([kind |-> "not", arg |-> r.tree], r.next) ELSE r

Unary(t, i, read) ==
  IF At(t, i) = "!" THEN Negated(Expect(read["primary", i + 1])) ELSE read["primary", i]

Sign(kind) == IF kind = "or" THEN "||" ELSE "&&"

Operand(kind) == IF kind = "or" THEN "and" ELSE "not"

\* disjunctive_expr or conjunctive_expr: an operand and the repetition behind it,
\* which is a sign and, expected, the same again.
Level(t, kind, i, read) ==
  LET r == read[Operand(kind), i]
      rest == Expect(read[kind, r.next + 1])
  IN  CASE r.is # "ok" -> r
        [] r.is = "ok" /\ At(t, r.next) # Sign(kind) ->
             Ok([kind |-> kind, args |-> <<r.tree>>], r.next)
        [] r.is = "ok" /\ At(t, r.next) = Sign(kind) ->
             IF rest.is = "ok"
               THEN Ok([kind |-> kind, args |-> <<r.tree>> \o rest.tree.args], rest.next)
               ELSE rest

Rules == {"or", "and", "not", "primary"}

\* What each rule makes of the text from each position on.
Parse(t) ==
  LET read[p \in Rules \X (1 .. Len(t) + 1)] ==
        CASE p[1] = "primary" -> Primary(t, p[2], read)
          [] p[1] = "not" -> Unary(t, p[2], read)
          [] OTHER -> Level(t, p[1], p[2], read)
  IN  read

(* ------------------------------ the printer ----------------------------- *)

ParenthesizeThree(args, s) == IF Len(args) > 2 THEN <<"(">> \o s \o <<")">> ELSE s

Parenthesize(args, s) == IF Len(args) > 1 THEN <<"(">> \o s \o <<")">> ELSE s

PrintBool(b) == <<IF b THEN "true" ELSE "false">>

PrintValue(v) ==
  CASE v.type = "string" -> <<Single>> \o v.of \o <<Single>>
    [] v.type = "bool" -> PrintBool(v.of)
    [] v.type = "long" -> <<CHOOSE n \in DOMAIN Longs : Longs[n] = v.of>>

\* The operands' texts, with signs between them.
Listed(kind, texts) ==
  FlattenSeq([i \in DOMAIN texts |-> IF i = 1 THEN texts[i] ELSE <<Sign(kind)>> \o texts[i]])

PrintTree(x) ==
  LET print[y \in Trees] ==
        CASE y.kind = "bool" -> PrintBool(y.value)
          [] y.kind = "compare" ->
               <<"(", y.id, IF y.op = "EQ" THEN "==" ELSE "!=">> \o PrintValue(y.value) \o <<")">>
          [] y.kind = "not" -> <<"!">> \o print[y.arg]
          [] OTHER -> Parenthesize(y.args, Listed(y.kind, [i \in DOMAIN y.args |-> print[y.args[i]]]))
  IN  print[x]

(* ------------------------------- meanings ------------------------------- *)

\* The value that t[i .. j] spells, if it does.
Spelled(t, i, j) ==
  LET of == SubSeq(t, i + 1, j - 1)
  IN  (IF i = j /\ t[i] \in Bools THEN {[type |-> "bool", of |-> t[i] = "true"]} ELSE {})
        \union (IF i = j /\ t[i] \in DOMAIN Longs THEN {[type |-> "long", of |-> Longs[t[i]]]} ELSE {})
        \union (IF i + 1 < j /\ t[i] = t[j] /\ t[i] \in {Single, Double} /\ \A k \in i + 1 .. j - 1 : t[k] # t[i]
                  THEN {[type |-> "string", of |-> of]} ELSE {})

\* The comparison that t[i .. j] is, if it is one.
Atoms(t, i, j) ==
  IF i + 4 <= j /\ t[i] = "(" /\ t[i + 1] \in Identifiers /\ t[i + 2] \in Operators /\ t[j] = ")"
    THEN {[kind |-> "compare", id |-> t[i + 1], op |-> Operator(t[i + 2]), value |-> v] :
            v \in Spelled(t, i + 3, j - 1)}
    ELSE {}

AllAtoms(t) == UNION {Atoms(t, i, j) : i, j \in DOMAIN t}

\* Every way to tell which comparisons are true.
Worlds(t) == [AllAtoms(t) -> BOOLEAN]

\* All meanings of t[i .. j] as what a rule derives, each the set of the worlds in
\* which it holds: || binds weaker than &&, and ! stands before a primary alone.
Meanings(t) ==
  LET means[p \in Rules \X (DOMAIN t) \X (DOMAIN t)] ==
        LET i == p[2]
            j == p[3]
            Cuts(sign) == {n \in i + 1 .. j - 1 : t[n] = sign}
        IN  CASE p[1] = "or" ->
                   means["and", i, j]
                     \union UNION {{a \union b : a \in means["and", i, k - 1], b \in means["or", k + 1, j]} :
                                    k \in Cuts("||")}
              [] p[1] = "and" ->
                   means["not", i, j]
                     \union UNION {{a \intersect b : a \in means["not", i, k - 1], b \in means["and", k + 1, j]} :
                                    k \in Cuts("&&")}
              [] p[1] = "not" ->
                   means["primary", i, j]
                     \union (IF i < j /\ t[i] = "!"
                               THEN {Worlds(t) \ a : a \in means["primary", i + 1, j]} ELSE {})
              [] OTHER ->
                   {{w \in Worlds(t) : w[c]} : c \in Atoms(t, i, j)}
                     \union (IF i = j /\ t[i] \in Bools THEN {IF t[i] = "true" THEN Worlds(t) ELSE {}} ELSE {})
                     \union (IF i + 1 < j /\ t[i] = "(" /\ t[j] = ")"
                               THEN means["or", i + 1, j - 1] ELSE {})
  IN  means

Meaning(x, t) == {w \in Worlds(t) : Holds(x, w)}
=============================================================================
