----------------------------- MODULE MCPredicate -----------------------------
(***************************************************************************)
(* Expressions of the grammar: each identifier compared alone and in pairs *)
(* with the others; over three comparisons, one ill-typed, conjunctions    *)
(* and disjunctions of up to two unary operands, with parenthesised        *)
(* disjunctions below a negation; and none.                                *)
(*                                                                         *)
(* Accesses by a process that lives or ends before one of the lookups: one *)
(* whose identifiers differ between the sources, and one, Kin, for which   *)
(* all of them may be shared; and to a file whose path is found or not.    *)
(***************************************************************************)
EXTENDS Predicate

MCLongs ==
  [n \in {"-1", "3", "5", "7", "32"} |->
     CASE n = "-1" -> -1 [] n = "3" -> 3 [] n = "5" -> 5 [] n = "7" -> 7 [] n = "32" -> 32]

MCSymbols ==
  DOMAIN MCLongs \union Bools \union Operators \union Identifiers
    \union {"(", ")", "||", "&&", "!", Single, Double, "/home/a", "/bin/cat"}

Compared(id, op, value) == <<"(", id, op>> \o value \o <<")">>

String(word) == <<Double, word, Double>>

Core == {Compared("file", "==", String("/home/a")),
         Compared("pid", "!=", <<"7">>),
         Compared("file", "==", <<"5">>)}

Alone == Core \union {Compared("process", "==", String("/bin/cat")),
                      Compared("uid", "!=", <<"-1">>),
                      Compared("gid", "==", <<"3">>),
                      Compared("event", "!=", <<"32">>)}

Pairs == {a \o s \o b : a, b \in Alone, s \in {<<"&&">>, <<"||">>}}

Primaries == Core \union {<<"true">>}

Unaries == Primaries \union {<<"!">> \o p : p \in Primaries}

Conjunctions == Unaries \union {u \o <<"&&">> \o v : u, v \in Unaries}

Disjunctions == Conjunctions \union {c \o <<"||">> \o u : c \in Conjunctions, u \in Unaries}

Nested == {<<"!", "(">> \o d \o <<")", "&&">> \o p : d \in Disjunctions, p \in Primaries}

MCTexts == {<<>>} \union Alone \union Pairs \union Disjunctions \union Nested

Access == [code |-> 1, mask |-> {"open", "close"}, file |-> <<"/home/a">>, exe |-> <<"/bin/cat">>,
           comm |-> <<"cat">>, pid |-> 7, pgid |-> 5, uid |-> 1, gid |-> 3, alive |-> 3, linked |-> TRUE]

Kin == [Access EXCEPT !.code = 32, !.mask = {"open"}, !.comm = Access.exe, !.pgid = Access.gid, !.uid = 15]

MCAccesses ==
  {[a EXCEPT !.alive = n] : a \in {Access, Kin}, n \in 0 .. 3}
    \union {[Access EXCEPT !.mask = {"close"}, !.file = <<"/home/b">>, !.linked = b] : b \in BOOLEAN}
=============================================================================
