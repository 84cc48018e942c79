---------------------------- MODULE MCPredicateText ----------------------------
(***************************************************************************)
(* Every text of up to five symbols; expressions of the grammar with up to *)
(* three operands, negations and parentheses; and some of these with a     *)
(* symbol missing or replaced by a sign, a parenthesis or a quotation      *)
(* mark.                                                                   *)
(***************************************************************************)
EXTENDS Predicate

MCLongs == [n \in {"5"} |-> 5]

Letters == {"(", ")", "||", "&&", "!", "true", "file", "==", "5", "'"}

MCSymbols == Letters \union Bools \union Operators \union Identifiers \union {"a", "b", Double}

Short == UNION {[1 .. n -> Letters] : n \in 0 .. 5}

Compared == {<<"(", "file", "==", Double, "a", Single, "b", Double, ")">>,
             <<"(", "pid", "!=", "5", ")">>,
             <<"(", "uid", "==", "true", ")">>,
             <<"(", "process", "==", Single, "||", Single, ")">>}

Simple == {<<"(", "pid", "!=", "5", ")">>, <<"(", "uid", "==", "5", ")">>, <<"true">>}

Negations(P) == P \union {<<"!">> \o p : p \in P}

Parenthesized(P) == {<<"(">> \o p \o <<")">> : p \in P}

Joined(P, Q) == {p \o s \o q : p \in P, s \in {<<"||">>, <<"&&">>}, q \in Q}

Pairs == Joined(Negations(Simple), Negations(Simple))

Triples == Joined(Pairs, Simple) \union Joined(Negations(Parenthesized(Joined(Simple, Simple))), Simple)

Doubled == Negations(Parenthesized(Negations(Parenthesized(Negations(Simple)))))

MCAccesses ==
  {[code |-> 1, mask |-> {"open"}, file |-> <<"a">>, exe |-> <<"a">>, comm |-> <<"a">>,
    pid |-> 7, pgid |-> 5, uid |-> 1, gid |-> 3, alive |-> 3, linked |-> TRUE]}

Faulty(t) ==
  {RemoveAt(t, i) : i \in DOMAIN t}
    \union {ReplaceAt(t, i, s) : i \in DOMAIN t, s \in {"||", "!", "(", ")", Single}}

MCTexts ==
  Short \union Triples \union Doubled \union Joined(Compared, Compared)
    \union UNION {Faulty(t) : t \in Negations(Compared) \union Joined(Simple, Simple) \union Doubled}
=============================================================================
