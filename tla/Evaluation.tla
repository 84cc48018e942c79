------------------------------ MODULE Evaluation ------------------------------
(***************************************************************************)
(* What the two copies of CmdlExpressionEvaluator are written with: the    *)
(* result of a bool expression, which may throw instead; and an operand of *)
(* the variant with the type that boost::get asks for.                     *)
(***************************************************************************)
EXTENDS ExpressionTree

AsLong(n) == [type |-> "long", of |-> n]

AsString(s) == [type |-> "string", of |-> s]

Truth(b) == IF b THEN "yes" ELSE "no"

Negate(t) == CASE t = "yes" -> "no" [] t = "no" -> "yes" [] t = "throws" -> "throws"

\* A loop that goes on while the result is neutral.
Until(results, neutral) ==
  IF \A i \in DOMAIN results : results[i] = neutral
    THEN neutral
    ELSE results[CHOOSE i \in DOMAIN results :
                   results[i] # neutral /\ \A j \in 1 .. i - 1 : results[j] = neutral]
=============================================================================
