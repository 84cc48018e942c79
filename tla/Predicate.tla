------------------------------ MODULE Predicate ------------------------------
(***************************************************************************)
(* The predicate of the command line: lsp::predicate::CmdlExpression, made *)
(* from a text, and asked about the events that the two sources make of a  *)
(* file access, each with an evaluator of its own (LsprobeEvent and        *)
(* FanotifyEvent).                                                         *)
(*                                                                         *)
(* The parser accepts any value for any identifier, so an evaluator may    *)
(* meet a comparison whose value has the wrong type: boost::get throws out *)
(* of the filter, unless && and || stop before they reach it.              *)
(***************************************************************************)
EXTENDS PredicateText, LsprobeEvent, FanotifyEvent

CONSTANTS
  Texts,    \* the values of --expr tried
  Accesses  \* the file accesses both sources observe

ASSUME PredicateAssumption ==
  /\ \A t \in Texts : t \in Seq(Symbols) /\ 6 * Len(t) <= MaxDepth
  /\ \A a \in Accesses : {a.uid, a.gid} \subseteq 0 .. Limit - 1 /\ a.pgid \in Nat /\ a.alive \in Nat

VARIABLES
  text,     \* the constructor's argument, without its blanks
  blank,    \* the argument is not empty, but blanks are all it has
  result,   \* "new", and of the constructor: "empty", "parsed" or "throws"
  expr,     \* _expr
  printed,  \* what the printer made of it
  access,   \* an access
  verdict   \* of each source's filter: "none" yet, "yes", "no" or "throws"

vars == <<text, blank, result, expr, printed, access, verdict>>

Sources == {"lsp", "fan"}

\* evaluate<T>, which each event type specialises.
Evaluate(s, x, a) ==
  IF s = "lsp" THEN lspEvaluate(x, lspEvent(a)) ELSE fanEvaluate(x, fanEvent(a))

\* CmdlExpression::operator()
Passes(s) == IF result = "empty" THEN "yes" ELSE Evaluate(s, expr, access)

(* -------------------------------- the spec ------------------------------ *)

Init ==
  /\ text \in Texts
  /\ blank \in {b \in BOOLEAN : b => text = <<>>}
  /\ result = "new"
  /\ expr = [kind |-> "or", args |-> <<[kind |-> "bool", value |-> FALSE]>>]
  /\ printed = <<>>
  /\ access \in Accesses
  /\ verdict = [s \in Sources |-> "none"]

Empty == text = <<>> /\ ~blank

WholePrefix(r) == r.is = "ok"

\* The parser may succeed on a prefix.
Whole(r) == r.is = "ok" /\ r.next = Len(text) + 1

\* The constructor.  What it throws ends main.
Construct ==
  /\ result = "new"
  /\ LET r == Parse(text)["or", 1]
     IN  CASE Empty -> result' = "empty" /\ UNCHANGED <<expr, printed>>
           [] ~Empty /\ Whole(r) -> /\ result' = "parsed"
                                    /\ expr' = r.tree
                                    /\ printed' = PrintTree(r.tree)
           [] ~Empty /\ ~Whole(r) -> result' = "throws" /\ UNCHANGED <<expr, printed>>
  /\ UNCHANGED <<text, blank, access, verdict>>

\* lsp::filter asks the predicate about an event of its source.
Judge(s) ==
  /\ result \in {"empty", "parsed"}
  /\ verdict[s] = "none"
  /\ verdict' = [verdict EXCEPT ![s] = Passes(s)]
  /\ UNCHANGED <<text, blank, result, expr, printed, access>>

Next == Construct \/ \E s \in Sources : Judge(s)

Spec == Init /\ [][Next]_vars

(* ------------------------------ properties ------------------------------ *)

(* What each identifier stands for at a source, and the type of its values. *)

TypeOf(id) == IF id \in {"file", "process"} THEN "string" ELSE "long"

lspObserved(e) ==
  [event |-> e.code, file |-> e.filename, process |-> e.process,
   pid |-> e.pcred.tgid, uid |-> e.pcred.uid, gid |-> e.pcred.gid]

fanObserved(e) ==
  [event |-> e.code, file |-> e.filename, process |-> e.process,
   pid |-> e.pid, uid |-> e.uid, gid |-> e.gid]

EventOf(s, a) == IF s = "lsp" THEN lspObserved(lspEvent(a)) ELSE fanObserved(fanEvent(a))

WellTyped(c) == c.value.type = TypeOf(c.id)

Matches(c, e) == (e[c.id] = c.value.of) = (c.op = "EQ")

\* Only what parses is printed, as a disjunction of conjunctions; verdicts and the
\* identifiers of both events are in the ranges of their types.
TypeOK ==
  /\ blank \in BOOLEAN
  /\ result \in {"new", "empty", "parsed", "throws"}
  /\ result = "parsed" => expr.kind = "or" /\ \A i \in DOMAIN expr.args : expr.args[i].kind = "and"
  /\ result = "parsed" <=> printed # <<>>
  /\ verdict \in [Sources -> {"none", "yes", "no", "throws"}]
  /\ \A s \in Sources : {EventOf(s, access).uid, EventOf(s, access).gid} \subseteq 0 .. Limit - 1

\* The constructor accepts a text exactly if the grammar derives all of it, however
\* its alternatives are ordered and its repetitions cut off; the grammar is
\* unambiguous and the tree means what it derives.  Every other text throws, and
\* only the empty one leaves the predicate empty: one of blanks is refused.
ParsesRight ==
  /\ result = "parsed" => text # <<>> /\ Meanings(text)["or", 1, Len(text)] = {Meaning(expr, text)}
  /\ result = "throws" => IF text = <<>> THEN blank ELSE Meanings(text)["or", 1, Len(text)] = {}
  /\ result = "empty" => text = <<>> /\ ~blank

\* What the printer cannot render: a single quotation mark in a string, and a
\* negation directly below another, whose parentheses it drops.
Renderable ==
  /\ \A c \in Comparisons(expr) : c.value.type = "string" => ~Single \in Range(c.value.of)
  /\ \A i \in 1 .. Len(printed) - 1 : <<printed[i], printed[i + 1]>> # <<"!", "!">>

\* The debug message shows the predicate that was read: but for those two cases
\* the constructor would read it as one that means the same.
ReadsBack ==
  (result = "parsed" /\ Renderable) =>
    LET r == Parse(printed)["or", 1]
    IN  /\ r.is = "ok" /\ r.next = Len(printed) + 1
        /\ Comparisons(r.tree) = Comparisons(expr)
        /\ Meaning(r.tree, text) = Meaning(expr, text)

Readings(x, e) ==
  {t \in [Comparisons(x) -> BOOLEAN] : \A c \in Comparisons(x) : WellTyped(c) => t[c] = Matches(c, e)}

\* A verdict is what the expression means, and would mean however its ill-typed
\* comparisons were read: the evaluator throws rather than guess, and only an
\* ill-typed comparison makes it throw.
VerdictSound ==
  result = "parsed" =>
    \A s \in Sources :
      LET readings == Readings(expr, EventOf(s, access))
      IN  /\ verdict[s] = "yes" => \A t \in readings : Holds(expr, t)
          /\ verdict[s] = "no" => \A t \in readings : ~Holds(expr, t)
          /\ verdict[s] = "throws" => \E c \in Comparisons(expr) : ~WellTyped(c)

\* What makes an identifier stand for the same at both sources: the codes are the
\* same numbers, the path was found, the command name is the full path and the group
\* that of the process, and the process was still there; uid_t(-1) is the only user.
Shared(id, a) ==
  CASE id = "event" -> <<a.mask, a.code>> \in {<<{"open"}, FanOpen>>, <<{"close"}, FanClose>>}
    [] id = "file" -> a.linked
    [] id = "process" -> a.comm = a.exe /\ a.alive >= 3
    [] id = "pid" -> TRUE
    [] id = "uid" -> a.uid = Limit - 1
    [] id = "gid" -> a.pgid = a.gid /\ a.alive >= 1

\* Each source has a copy of the evaluator, an event and lookups of its own.  They
\* judge an access alike, throwing alike too, whenever the sources share what the
\* well-typed comparisons of the expression look at: no copy differs in an
\* identifier, an operator or a loop, and no lookup disturbs what it is not for.
SameAccessSameVerdict ==
  (/\ \A c \in Comparisons(expr) : WellTyped(c) => Shared(c.id, access)
   /\ \A s \in Sources : verdict[s] # "none") => verdict["lsp"] = verdict["fan"]

\* The expression that is one comparison: the grammar has no other root.
Sole(c) == [kind |-> "or", args |-> <<[kind |-> "and", args |-> <<c>>]>>]

\* An access as the usage text describes its identifiers.
Described(s, a) ==
  [event |-> EventOf(s, a).event, file |-> a.file, process |-> a.exe, pid |-> a.pid,
   uid |-> a.uid, gid |-> a.gid]

\* The usage text: process is the full path of the process, uid its user and gid
\* its group, whatever the source.
UsageHolds ==
  result = "parsed" =>
    \A s \in Sources, c \in Comparisons(expr) :
      (expr = Sole(c) /\ WellTyped(c) /\ verdict[s] # "none") =>
        verdict[s] = Truth(Matches(c, Described(s, access)))
=============================================================================
