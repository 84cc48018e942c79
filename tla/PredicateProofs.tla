--------------------------- MODULE PredicateProofs ---------------------------
(***************************************************************************)
(* The predicate's theorems.                                               *)
(*                                                                         *)
(* The library's induction theorems take operators, which the provers      *)
(* cannot supply; Induction takes a set.  With it the levels of trees are  *)
(* shown to exist, then induction and recursion over trees, and then that  *)
(* each recursive function of the model satisfies its own equation: the    *)
(* evaluator and the meaning of an expression, the parser and the meanings *)
(* that the grammar gives a text, and the printer.  From the equations     *)
(* follow, for texts of any length, accesses of any kind and identifiers   *)
(* of any width,                                                           *)
(*                                                                         *)
(*   - that a verdict is what the expression means, and the same from both *)
(*     evaluators (EvaluateSound, EvaluateAgrees);                         *)
(*   - that the parser reads exactly what the grammar derives: a match is  *)
(*     derived (ReadIsDerived), what is derived is matched (DerivedIsRead);*)
(*   - that the printed text of an expression is read back as one that     *)
(*     means the same (PrintedIsRead), with at most twice its depth.       *)
(***************************************************************************)
EXTENDS Predicate, SequenceTheorems, FiniteSetTheorems, TLAPS

(* ------------------------------- induction ------------------------------ *)

\* Induction over the natural numbers for a set: were m outside it, adding one
\* would embed those of 0 .. m inside it into themselves without 0.
LEMMA Induction ==
  ASSUME NEW T, 0 \in T, \A n \in Nat : n \in T => n + 1 \in T
  PROVE  \A n \in Nat : n \in T
<1> SUFFICES ASSUME NEW m \in Nat, m \notin T PROVE FALSE
  OBVIOUS
<1> DEFINE A == {k \in 0 .. m : k \in T}
           f == [k \in A |-> k + 1]
<1>1. IsFiniteSet(A)
  <2>1. IsFiniteSet(0 .. m) /\ A \in SUBSET (0 .. m)
    BY FS_Interval
  <2> QED
    BY <2>1, FS_Subset
<1>2. f \in Injection(A, A \ {0})
  <2>1. \A k \in A : k + 1 \in A \ {0}
    OBVIOUS
  <2>2. \A k, l \in A : f[k] = f[l] => k = l
    OBVIOUS
  <2> QED
    BY <2>1, <2>2 DEF Injection, IsInjective
<1>3. 0 \in A
  OBVIOUS
<1> HIDE DEF A, f
<1>4. /\ IsFiniteSet(A \ {0}) /\ Cardinality(A \ {0}) = Cardinality(A) - 1
      /\ Cardinality(A) \in Nat
  BY <1>1, <1>3, FS_RemoveElement, FS_CardinalityType
<1>5. Cardinality(A) <= Cardinality(A \ {0})
  BY <1>1, <1>2, <1>4, FS_Injection
<1> QED
  BY <1>4, <1>5

(* --------------------------------- trees -------------------------------- *)

\* The levels of trees are what their definition says.
LEMMA TreesAre ==
  /\ trees[0] = Leaves
  /\ \A d \in Nat : d < MaxDepth => trees[d + 1] = Over(trees[d])
<1> DEFINE T == {n \in Nat : \E h : h = [d \in 0 .. n |-> IF d = 0 THEN Leaves ELSE Over(h[d - 1])]}
<1>1. 0 \in T
  <2> DEFINE h == [d \in 0 .. 0 |-> Leaves]
  <2>1. h = [d \in 0 .. 0 |-> IF d = 0 THEN Leaves ELSE Over(h[d - 1])]
    OBVIOUS
  <2> QED
    BY <2>1
<1>2. ASSUME NEW n \in Nat, n \in T PROVE n + 1 \in T
  <2>1. PICK h : h = [d \in 0 .. n |-> IF d = 0 THEN Leaves ELSE Over(h[d - 1])]
    BY <1>2
  <2> DEFINE g == [d \in 0 .. n + 1 |-> IF d \in 0 .. n THEN h[d] ELSE Over(h[n])]
             r == [d \in 0 .. n + 1 |-> IF d = 0 THEN Leaves ELSE Over(g[d - 1])]
  <2>2. ASSUME NEW d \in 0 .. n + 1 PROVE g[d] = r[d]
    <3>1. CASE d = 0
      BY <2>1, <3>1
    <3>2. CASE d \in 1 .. n
      <4>1. d \in 0 .. n /\ d - 1 \in 0 .. n /\ d # 0
        BY <3>2
      <4>2. h[d] = Over(h[d - 1])
        BY <2>1, <4>1
      <4> QED
        BY <4>1, <4>2
    <3>3. CASE d = n + 1
      <4>1. d \notin 0 .. n /\ d - 1 = n /\ n \in 0 .. n /\ n \in 0 .. n + 1 /\ d # 0
        BY <3>3
      <4> QED
        BY <4>1
    <3> QED
      BY <3>1, <3>2, <3>3
  <2>3. g = r
    BY <2>2
  <2> HIDE DEF g
  <2>4. g = [d \in 0 .. n + 1 |-> IF d = 0 THEN Leaves ELSE Over(g[d - 1])]
    BY <2>3
  <2> QED
    BY <2>4
<1>3. MaxDepth \in T
  <2> HIDE DEF T
  <2> QED
    BY <1>1, <1>2, Induction, DepthAssumption
<1>4. trees = [d \in 0 .. MaxDepth |-> IF d = 0 THEN Leaves ELSE Over(trees[d - 1])]
  BY <1>3 DEF trees
<1> QED
  BY <1>4, DepthAssumption

\* The operands of an expression.
Below(x) ==
  CASE x.kind = "not" -> {x.arg}
    [] x.kind \in {"or", "and"} -> {x.args[i] : i \in DOMAIN x.args}
    [] OTHER -> {}

\* What a tree over S is.
LEMMA Kinds ==
  ASSUME NEW S, NEW x \in Over(S)
  PROVE  /\ x.kind \in {"bool", "compare", "not", "or", "and"}
         /\ x.kind \in {"bool", "compare"} <=> x \in Leaves
         /\ x.kind = "bool" => x.value \in BOOLEAN
         /\ x.kind = "compare" => x.id \in Identifiers /\ x.op \in {"EQ", "NEQ"}
         /\ x.kind = "not" => x.arg \in S
         /\ x.kind \in {"or", "and"} => x.args \in Seq(S) /\ Len(x.args) \in Nat \ {0}
  BY EmptySeq DEF Over, Leaves

\* What the operands of a row are.
LEMMA OperandsOf ==
  ASSUME NEW S, NEW x \in Over(S)
  PROVE  Below(x) \subseteq S /\ (x \in Leaves => Below(x) = {})
  BY Kinds, LenProperties, ElementOfSeq DEF Below

\* Every level is part of the last one.
LEMMA TreesGrow == \A d \in 0 .. MaxDepth : trees[d] \subseteq Trees
<1>1. ASSUME NEW R, NEW S, R \subseteq S PROVE Over(R) \subseteq Over(S)
  BY <1>1, SeqMonotonic DEF Over
<1> DEFINE T == {n \in Nat : n < MaxDepth => trees[n] \subseteq trees[n + 1]}
<1>2. 0 \in T
  BY TreesAre DEF Over
<1>3. ASSUME NEW n \in Nat, n \in T PROVE n + 1 \in T
  <2> SUFFICES ASSUME n + 1 < MaxDepth PROVE trees[n + 1] \subseteq trees[n + 1 + 1]
    OBVIOUS
  <2>1. trees[n] \subseteq trees[n + 1]
    BY <1>3, DepthAssumption
  <2>2. trees[n + 1] = Over(trees[n]) /\ trees[n + 1 + 1] = Over(trees[n + 1])
    BY TreesAre, DepthAssumption
  <2> QED
    BY <1>1, <2>1, <2>2
<1>4. \A n \in Nat : n < MaxDepth => trees[n] \subseteq trees[n + 1]
  <2> HIDE DEF T
  <2>1. \A n \in Nat : n \in T
    BY <1>2, <1>3, Induction
  <2> QED
    BY <2>1 DEF T
<1> DEFINE U == {n \in Nat : n <= MaxDepth => trees[MaxDepth - n] \subseteq Trees}
<1>5. 0 \in U
  BY DepthAssumption DEF Trees
<1>6. ASSUME NEW n \in Nat, n \in U PROVE n + 1 \in U
  <2> SUFFICES ASSUME n + 1 <= MaxDepth PROVE trees[MaxDepth - (n + 1)] \subseteq Trees
    OBVIOUS
  <2> DEFINE m == MaxDepth - (n + 1)
  <2>1. m \in Nat /\ m < MaxDepth /\ m + 1 = MaxDepth - n /\ n <= MaxDepth
    BY DepthAssumption
  <2>2. trees[m + 1] \subseteq Trees
    BY <1>6, <2>1
  <2> QED
    BY <1>4, <2>1, <2>2
<1>7. \A n \in Nat : n \in U
  <2> HIDE DEF U
  <2> QED
    BY <1>5, <1>6, Induction
<1> SUFFICES ASSUME NEW d \in 0 .. MaxDepth PROVE trees[d] \subseteq Trees
  OBVIOUS
<1>8. MaxDepth - d \in Nat /\ MaxDepth - d <= MaxDepth /\ MaxDepth - (MaxDepth - d) = d
  BY DepthAssumption
<1> QED
  BY <1>7, <1>8

\* A tree is a leaf or is built of trees.
LEMMA TreeOverTrees == Trees \subseteq Over(Trees)
<1>1. CASE MaxDepth = 0
  BY <1>1, TreesAre DEF Trees, Over
<1>2. CASE MaxDepth # 0
  <2> DEFINE m == MaxDepth - 1
  <2>1. m \in Nat /\ m < MaxDepth /\ m + 1 = MaxDepth /\ m \in 0 .. MaxDepth
    BY <1>2, DepthAssumption
  <2>2. Trees = Over(trees[m]) /\ trees[m] \subseteq Trees
    BY <2>1, TreesAre, TreesGrow DEF Trees
  <2> QED
    BY <2>2, SeqMonotonic DEF Over
<1> QED
  BY <1>1, <1>2

\* What is on the levels, and below it.
LEMMA LevelsBelow ==
  /\ \A x \in trees[0] : x \in Trees /\ Below(x) = {}
  /\ \A n \in Nat : n + 1 <= MaxDepth =>
       \A x \in trees[n + 1] : x \in Trees /\ Below(x) \subseteq trees[n]
<1>1. trees[0] \subseteq Trees /\ trees[0] = Leaves
  BY TreesAre, TreesGrow, DepthAssumption
<1>2. \A x \in Leaves : Below(x) = {}
  BY OperandsOf DEF Over
<1>3. ASSUME NEW n \in Nat, n + 1 <= MaxDepth
      PROVE  trees[n + 1] \subseteq Trees /\ trees[n + 1] = Over(trees[n])
  BY <1>3, TreesAre, TreesGrow, DepthAssumption
<1> QED
  BY <1>1, <1>2, <1>3, OperandsOf

\* Induction over trees: what holds of a tree if it holds of its operands.
LEMMA TreeInduction ==
  ASSUME NEW P, \A x \in Trees : Below(x) \subseteq P => x \in P
  PROVE  Trees \subseteq P
<1> DEFINE T == {n \in Nat : n <= MaxDepth => trees[n] \subseteq P}
<1>1. 0 \in T
  BY LevelsBelow
<1>2. ASSUME NEW n \in Nat, n \in T PROVE n + 1 \in T
  <2> SUFFICES ASSUME n + 1 <= MaxDepth, NEW x \in trees[n + 1] PROVE x \in P
    OBVIOUS
  <2> QED
    BY <1>2, LevelsBelow, DepthAssumption
<1>3. MaxDepth \in T
  <2> HIDE DEF T
  <2> QED
    BY <1>1, <1>2, Induction, DepthAssumption
<1> QED
  BY <1>3, DepthAssumption DEF Trees

\* Recursion over trees: a definition whose value at a tree depends on those at its
\* operands alone has a solution.
LEMMA Recursion ==
  ASSUME NEW V, NEW v \in V, NEW F \in [[Trees -> V] -> [Trees -> V]],
         \A f, g \in [Trees -> V], x \in Trees :
           (\A y \in Below(x) : f[y] = g[y]) => F[f][x] = F[g][x]
  PROVE  \E f \in [Trees -> V] : f = F[f]
<1> DEFINE T == {n \in Nat : n <= MaxDepth => \E f \in [Trees -> V] : \A x \in trees[n] : F[f][x] = f[x]}
<1>1. 0 \in T
  <2> DEFINE f == [x \in Trees |-> v]
  <2>1. f \in [Trees -> V] /\ F[f] \in [Trees -> V]
    OBVIOUS
  <2> HIDE DEF f
  <2>2. \A x \in trees[0] : F[F[f]][x] = F[f][x]
    BY <2>1, LevelsBelow
  <2> QED
    BY <2>1, <2>2
<1>2. ASSUME NEW n \in Nat, n \in T PROVE n + 1 \in T
  <2> SUFFICES ASSUME n + 1 <= MaxDepth
               PROVE  \E f \in [Trees -> V] : \A x \in trees[n + 1] : F[f][x] = f[x]
    OBVIOUS
  <2>1. PICK f \in [Trees -> V] : \A x \in trees[n] : F[f][x] = f[x]
    BY <1>2, DepthAssumption
  <2>2. F[f] \in [Trees -> V]
    OBVIOUS
  <2>3. \A x \in trees[n + 1] : F[F[f]][x] = F[f][x]
    BY <2>1, <2>2, LevelsBelow
  <2> QED
    BY <2>2, <2>3
<1>3. MaxDepth \in T
  <2> HIDE DEF T
  <2> QED
    BY <1>1, <1>2, Induction, DepthAssumption
<1>4. PICK f \in [Trees -> V] : \A x \in Trees : F[f][x] = f[x]
  BY <1>3, DepthAssumption DEF Trees
<1>5. F[f] \in [Trees -> V]
  OBVIOUS
<1>6. f = F[f]
  BY <1>4, <1>5
<1> QED
  BY <1>6

(* ------------------------------ definitions ----------------------------- *)

Verdicts == {"yes", "no", "throws"}

\* What a tree consists of.
LEMMA Parts ==
  ASSUME NEW x \in Trees
  PROVE  /\ x.kind \in {"bool", "compare", "not", "or", "and"}
         /\ x.kind = "bool" => x.value \in BOOLEAN
         /\ x.kind = "compare" => x.id \in Identifiers /\ x.op \in {"EQ", "NEQ"}
         /\ x.kind = "not" => x.arg \in Trees /\ x.arg \in Below(x)
         /\ x.kind \in {"or", "and"} =>
              /\ x.args \in Seq(Trees) /\ Len(x.args) \in Nat \ {0} /\ DOMAIN x.args = 1 .. Len(x.args)
              /\ \A i \in DOMAIN x.args : x.args[i] \in Trees /\ x.args[i] \in Below(x)
<1>1. x \in Over(Trees)
  BY TreeOverTrees
<1> QED
  BY <1>1, Kinds, LenProperties, ElementOfSeq DEF Below

\* The loop stops at the first result that is not neutral.
LEMMA UntilIs ==
  ASSUME NEW n \in Nat, NEW r, DOMAIN r = 1 .. n, NEW neutral
  PROVE  \/ Until(r, neutral) = neutral /\ \A i \in 1 .. n : r[i] = neutral
         \/ \E i \in 1 .. n : r[i] # neutral /\ Until(r, neutral) = r[i]
<1> DEFINE First(i) == r[i] # neutral /\ \A j \in 1 .. i - 1 : r[j] = neutral
           T == {m \in Nat : m <= n => (\A i \in 1 .. m : r[i] = neutral) \/ \E i \in 1 .. m : First(i)}
<1>1. 0 \in T
  OBVIOUS
<1>2. ASSUME NEW m \in Nat, m \in T PROVE m + 1 \in T
  <2> SUFFICES ASSUME m + 1 <= n, ~ \E i \in 1 .. m + 1 : First(i)
               PROVE  \A i \in 1 .. m + 1 : r[i] = neutral
    OBVIOUS
  <2>1. \A i \in 1 .. m : r[i] = neutral
    <3>1. \A i \in 1 .. m : i \in 1 .. m + 1
      OBVIOUS
    <3> QED
      BY <1>2, <3>1
  <2>2. ~First(m + 1)
    OBVIOUS
  <2>3. r[m + 1] = neutral
    BY <2>1, <2>2
  <2> QED
    BY <2>1, <2>3
<1>3. n \in T
  <2> HIDE DEF T
  <2> QED
    BY <1>1, <1>2, Induction
<1>4. CASE \A i \in 1 .. n : r[i] = neutral
  BY <1>4 DEF Until
<1>5. CASE \E i \in 1 .. n : First(i)
  <2>1. ~ \A i \in 1 .. n : r[i] = neutral
    BY <1>5
  <2> DEFINE i == CHOOSE k \in 1 .. n : First(k)
  <2>2. i \in 1 .. n /\ First(i)
    BY <1>5
  <2>3. Until(r, neutral) = r[i]
    BY <2>1 DEF Until
  <2> QED
    BY <2>2, <2>3
<1> QED
  BY <1>3, <1>4, <1>5

\* A loop over verdicts ends with a verdict.
LEMMA UntilType ==
  ASSUME NEW n \in Nat, NEW r \in [1 .. n -> Verdicts], NEW neutral \in Verdicts
  PROVE  Until(r, neutral) \in Verdicts
  BY UntilIs

\* What a comparison comes to at a source that observes e.
Compare(c, e) == IF WellTyped(c) THEN Truth(Matches(c, e)) ELSE "throws"

\* Leaves have a verdict and negations keep to them.
LEMMA LeafVerdicts ==
  /\ \A t \in Verdicts : Negate(t) \in Verdicts
  /\ \A c, e : Compare(c, e) \in Verdicts
  /\ \A b : Truth(b) \in Verdicts
  BY DEF Verdicts, Negate, Compare, Truth

\* The comparisons of lsprobe_event.cpp look at the member their identifier stands for.
LEMMA lspCompareIs ==
  ASSUME NEW e, NEW c, c.id \in Identifiers, c.op \in {"EQ", "NEQ"}
  PROVE  lspCompare(c, e) = Compare(c, lspObserved(e))
<1> DEFINE m == lspMember(e, c.id)
           o == lspObserved(e)
<1>1. m.type = TypeOf(c.id) /\ m.of = o[c.id]
  BY DEF lspMember, lspObserved, TypeOf, Identifiers, AsLong, AsString
<1>2. lspCompare(c, e) = IF c.value.type = m.type THEN Truth((m.of = c.value.of) # (c.op = "NEQ")) ELSE "throws"
  BY DEF lspCompare
<1> HIDE DEF m, o
<1>3. ((m.of = c.value.of) # (c.op = "NEQ")) = Matches(c, o)
  BY <1>1 DEF Matches
<1> QED
  BY <1>1, <1>2, <1>3 DEF Compare, WellTyped, o

\* The comparisons of fanotify_event.cpp look at the member their identifier stands for.
LEMMA fanCompareIs ==
  ASSUME NEW e, NEW c, c.id \in Identifiers, c.op \in {"EQ", "NEQ"}
  PROVE  fanCompare(c, e) = Compare(c, fanObserved(e))
<1> DEFINE m == fanMember(e, c.id)
           o == fanObserved(e)
<1>1. m.type = TypeOf(c.id) /\ m.of = o[c.id]
  BY DEF fanMember, fanObserved, TypeOf, Identifiers, AsLong, AsString
<1>2. fanCompare(c, e) = IF c.value.type = m.type THEN Truth((m.of = c.value.of) # (c.op = "NEQ")) ELSE "throws"
  BY DEF fanCompare
<1> HIDE DEF m, o
<1>3. ((m.of = c.value.of) # (c.op = "NEQ")) = Matches(c, o)
  BY <1>1 DEF Matches
<1> QED
  BY <1>1, <1>2, <1>3 DEF Compare, WellTyped, o

\* The evaluator of lsprobe_event.cpp computes what its cases say.
LEMMA lspEvaluateIs ==
  ASSUME NEW e
  PROVE  \A x \in Trees :
           LET results == [i \in DOMAIN x.args |-> lspEvaluate(x.args[i], e)]
           IN  /\ x.kind = "bool" => lspEvaluate(x, e) = Truth(x.value)
               /\ x.kind = "compare" => lspEvaluate(x, e) = lspCompare(x, e)
               /\ x.kind = "not" => lspEvaluate(x, e) = Negate(lspEvaluate(x.arg, e))
               /\ x.kind = "or" => lspEvaluate(x, e) = Until(results, "no")
               /\ x.kind = "and" => lspEvaluate(x, e) = Until(results, "yes")
<1> DEFINE V == Verdicts
           Cases(f, y) ==
             CASE y.kind = "bool" -> Truth(y.value)
               [] y.kind = "compare" -> lspCompare(y, e)
               [] y.kind = "not" -> Negate(f[y.arg])
               [] y.kind = "or" -> Until([i \in DOMAIN y.args |-> f[y.args[i]]], "no")
               [] OTHER -> Until([i \in DOMAIN y.args |-> f[y.args[i]]], "yes")
           S(f) == [y \in Trees |-> Cases(f, y)]
           F == [f \in [Trees -> V] |-> S(f)]
           q == CHOOSE f : f = S(f)
<1>1. ASSUME NEW f \in [Trees -> V], NEW y \in Trees PROVE Cases(f, y) \in V
  <2>1. CASE y.kind = "bool"
    BY <2>1, LeafVerdicts
  <2>2. CASE y.kind = "compare"
    BY <2>2, Parts, LeafVerdicts, lspCompareIs
  <2>3. CASE y.kind = "not"
    BY <2>3, Parts, LeafVerdicts
  <2>4. CASE y.kind \in {"or", "and"}
    <3> DEFINE r == [i \in DOMAIN y.args |-> f[y.args[i]]]
    <3>1. r \in [1 .. Len(y.args) -> V] /\ Len(y.args) \in Nat
      BY <2>4, Parts
    <3>2. Until(r, "no") \in V /\ Until(r, "yes") \in V
      BY <3>1, UntilType DEF Verdicts
    <3> QED
      BY <2>4, <3>2
  <2> QED
    BY <2>1, <2>2, <2>3, <2>4, Parts
<1>2. ASSUME NEW f \in [Trees -> V], NEW g \in [Trees -> V], NEW y \in Trees,
             \A z \in Below(y) : f[z] = g[z]
      PROVE  Cases(f, y) = Cases(g, y)
  <2>1. CASE y.kind \in {"bool", "compare"}
    BY <2>1
  <2>2. CASE y.kind = "not"
    BY <1>2, <2>2, Parts
  <2>3. CASE y.kind \in {"or", "and"}
    <3>1. [i \in DOMAIN y.args |-> f[y.args[i]]] = [i \in DOMAIN y.args |-> g[y.args[i]]]
      BY <1>2, <2>3, Parts
    <3> QED
      BY <2>3, <3>1
  <2> QED
    BY <2>1, <2>2, <2>3, Parts
<1>3. \A x : lspEvaluate(x, e) = q[x]
  BY DEF lspEvaluate
<1>4. q = S(q)
  <2> HIDE DEF Cases
  <2>1. F \in [[Trees -> V] -> [Trees -> V]]
    BY <1>1
  <2>2. \A f, g \in [Trees -> V], x \in Trees :
          (\A y \in Below(x) : f[y] = g[y]) => F[f][x] = F[g][x]
    BY <1>2
  <2>3. "yes" \in V
    BY DEF Verdicts
  <2>4. \A f \in [Trees -> V] : F[f] = S(f)
    OBVIOUS
  <2> HIDE DEF F, S, V
  <2>5. \E f \in [Trees -> V] : f = F[f]
    BY <2>1, <2>2, <2>3, Recursion
  <2> QED
    BY <2>4, <2>5
<1> HIDE DEF q
<1> TAKE x \in Trees
<1>5. lspEvaluate(x, e) = Cases(q, x)
  BY <1>3, <1>4
<1>6. [i \in DOMAIN x.args |-> lspEvaluate(x.args[i], e)] = [i \in DOMAIN x.args |-> q[x.args[i]]]
  BY <1>3
<1> QED
  BY <1>3, <1>5, <1>6

\* The evaluator of fanotify_event.cpp computes what its cases say.
LEMMA fanEvaluateIs ==
  ASSUME NEW e
  PROVE  \A x \in Trees :
           LET results == [i \in DOMAIN x.args |-> fanEvaluate(x.args[i], e)]
           IN  /\ x.kind = "bool" => fanEvaluate(x, e) = Truth(x.value)
               /\ x.kind = "compare" => fanEvaluate(x, e) = fanCompare(x, e)
               /\ x.kind = "not" => fanEvaluate(x, e) = Negate(fanEvaluate(x.arg, e))
               /\ x.kind = "or" => fanEvaluate(x, e) = Until(results, "no")
               /\ x.kind = "and" => fanEvaluate(x, e) = Until(results, "yes")
<1> DEFINE V == Verdicts
           Cases(f, y) ==
             CASE y.kind = "bool" -> Truth(y.value)
               [] y.kind = "compare" -> fanCompare(y, e)
               [] y.kind = "not" -> Negate(f[y.arg])
               [] y.kind = "or" -> Until([i \in DOMAIN y.args |-> f[y.args[i]]], "no")
               [] OTHER -> Until([i \in DOMAIN y.args |-> f[y.args[i]]], "yes")
           S(f) == [y \in Trees |-> Cases(f, y)]
           F == [f \in [Trees -> V] |-> S(f)]
           q == CHOOSE f : f = S(f)
<1>1. ASSUME NEW f \in [Trees -> V], NEW y \in Trees PROVE Cases(f, y) \in V
  <2>1. CASE y.kind = "bool"
    BY <2>1, LeafVerdicts
  <2>2. CASE y.kind = "compare"
    BY <2>2, Parts, LeafVerdicts, fanCompareIs
  <2>3. CASE y.kind = "not"
    BY <2>3, Parts, LeafVerdicts
  <2>4. CASE y.kind \in {"or", "and"}
    <3> DEFINE r == [i \in DOMAIN y.args |-> f[y.args[i]]]
    <3>1. r \in [1 .. Len(y.args) -> V] /\ Len(y.args) \in Nat
      BY <2>4, Parts
    <3>2. Until(r, "no") \in V /\ Until(r, "yes") \in V
      BY <3>1, UntilType DEF Verdicts
    <3> QED
      BY <2>4, <3>2
  <2> QED
    BY <2>1, <2>2, <2>3, <2>4, Parts
<1>2. ASSUME NEW f \in [Trees -> V], NEW g \in [Trees -> V], NEW y \in Trees,
             \A z \in Below(y) : f[z] = g[z]
      PROVE  Cases(f, y) = Cases(g, y)
  <2>1. CASE y.kind \in {"bool", "compare"}
    BY <2>1
  <2>2. CASE y.kind = "not"
    BY <1>2, <2>2, Parts
  <2>3. CASE y.kind \in {"or", "and"}
    <3>1. [i \in DOMAIN y.args |-> f[y.args[i]]] = [i \in DOMAIN y.args |-> g[y.args[i]]]
      BY <1>2, <2>3, Parts
    <3> QED
      BY <2>3, <3>1
  <2> QED
    BY <2>1, <2>2, <2>3, Parts
<1>3. \A x : fanEvaluate(x, e) = q[x]
  BY DEF fanEvaluate
<1>4. q = S(q)
  <2> HIDE DEF Cases
  <2>1. F \in [[Trees -> V] -> [Trees -> V]]
    BY <1>1
  <2>2. \A f, g \in [Trees -> V], x \in Trees :
          (\A y \in Below(x) : f[y] = g[y]) => F[f][x] = F[g][x]
    BY <1>2
  <2>3. "yes" \in V
    BY DEF Verdicts
  <2>4. \A f \in [Trees -> V] : F[f] = S(f)
    OBVIOUS
  <2> HIDE DEF F, S, V
  <2>5. \E f \in [Trees -> V] : f = F[f]
    BY <2>1, <2>2, <2>3, Recursion
  <2> QED
    BY <2>4, <2>5
<1> HIDE DEF q
<1> TAKE x \in Trees
<1>5. fanEvaluate(x, e) = Cases(q, x)
  BY <1>3, <1>4
<1>6. [i \in DOMAIN x.args |-> fanEvaluate(x.args[i], e)] = [i \in DOMAIN x.args |-> q[x.args[i]]]
  BY <1>3
<1> QED
  BY <1>3, <1>5, <1>6

\* Both evaluators compute what those cases say of what their source observes.
LEMMA EvaluateIs ==
  ASSUME NEW s \in Sources, NEW a
  PROVE  \A x \in Trees :
           LET results == [i \in DOMAIN x.args |-> Evaluate(s, x.args[i], a)]
           IN  /\ x.kind = "bool" => Evaluate(s, x, a) = Truth(x.value)
               /\ x.kind = "compare" => Evaluate(s, x, a) = Compare(x, EventOf(s, a))
               /\ x.kind = "not" => Evaluate(s, x, a) = Negate(Evaluate(s, x.arg, a))
               /\ x.kind = "or" => Evaluate(s, x, a) = Until(results, "no")
               /\ x.kind = "and" => Evaluate(s, x, a) = Until(results, "yes")
<1>1. CASE s = "lsp"
  <2>1. \A x : Evaluate(s, x, a) = lspEvaluate(x, lspEvent(a))
    BY <1>1 DEF Evaluate
  <2>2. EventOf(s, a) = lspObserved(lspEvent(a))
    BY <1>1 DEF EventOf
  <2> TAKE x \in Trees
  <2>3. [i \in DOMAIN x.args |-> Evaluate(s, x.args[i], a)]
          = [i \in DOMAIN x.args |-> lspEvaluate(x.args[i], lspEvent(a))]
    BY <2>1
  <2>4. x.kind = "compare" => lspCompare(x, lspEvent(a)) = Compare(x, lspObserved(lspEvent(a)))
    BY Parts, lspCompareIs
  <2> QED
    BY <2>1, <2>2, <2>3, <2>4, lspEvaluateIs
<1>2. CASE s = "fan"
  <2>1. \A x : Evaluate(s, x, a) = fanEvaluate(x, fanEvent(a))
    BY <1>2 DEF Evaluate
  <2>2. EventOf(s, a) = fanObserved(fanEvent(a))
    BY <1>2 DEF EventOf
  <2> TAKE x \in Trees
  <2>3. [i \in DOMAIN x.args |-> Evaluate(s, x.args[i], a)]
          = [i \in DOMAIN x.args |-> fanEvaluate(x.args[i], fanEvent(a))]
    BY <2>1
  <2>4. x.kind = "compare" => fanCompare(x, fanEvent(a)) = Compare(x, fanObserved(fanEvent(a)))
    BY Parts, fanCompareIs
  <2> QED
    BY <2>1, <2>2, <2>3, <2>4, fanEvaluateIs
<1> QED
  BY <1>1, <1>2 DEF Sources

\* Every expression is "yes", "no" or throws.
LEMMA EvaluateType ==
  ASSUME NEW s \in Sources, NEW a
  PROVE  \A x \in Trees : Evaluate(s, x, a) \in Verdicts
<1> DEFINE P == {x \in Trees : Evaluate(s, x, a) \in Verdicts}
<1>1. ASSUME NEW x \in Trees, Below(x) \subseteq P PROVE Evaluate(s, x, a) \in Verdicts
  <2>0. CASE x.kind = "bool"
    <3>1. Evaluate(s, x, a) = Truth(x.value)
      BY <2>0, EvaluateIs
    <3> QED
      BY <3>1, LeafVerdicts
  <2>1. CASE x.kind = "compare"
    <3>1. Evaluate(s, x, a) = Compare(x, EventOf(s, a))
      BY <2>1, EvaluateIs
    <3> QED
      BY <3>1, LeafVerdicts
  <2>2. CASE x.kind = "not"
    BY <1>1, <2>2, EvaluateIs, LeafVerdicts, Parts
  <2>3. CASE x.kind \in {"or", "and"}
    <3> DEFINE r == [i \in DOMAIN x.args |-> Evaluate(s, x.args[i], a)]
    <3>1. r \in [1 .. Len(x.args) -> Verdicts] /\ Len(x.args) \in Nat
      BY <1>1, <2>3, Parts
    <3>2. Until(r, "no") \in Verdicts /\ Until(r, "yes") \in Verdicts
      BY <3>1, UntilType DEF Verdicts
    <3> QED
      BY <2>3, <3>2, EvaluateIs
  <2> QED
    BY <2>0, <2>1, <2>2, <2>3, Parts
<1>2. Trees \subseteq P
  <2>1. \A x \in Trees : Below(x) \subseteq P => x \in P
    BY <1>1
  <2> HIDE DEF P
  <2> QED
    BY <2>1, TreeInduction
<1> QED
  BY <1>2

\* The comparisons of a tree.
LEMMA ComparisonsAre ==
  \A x \in Trees :
    /\ x.kind = "bool" => Comparisons(x) = {}
    /\ x.kind = "compare" => Comparisons(x) = {x}
    /\ x.kind = "not" => Comparisons(x) = Comparisons(x.arg)
    /\ x.kind \in {"or", "and"} =>
         Comparisons(x) = UNION {Comparisons(x.args[i]) : i \in DOMAIN x.args}
<1> DEFINE V == SUBSET Trees
           Cases(f, y) ==
             CASE y.kind = "bool" -> {}
               [] y.kind = "compare" -> {y}
               [] y.kind = "not" -> f[y.arg]
               [] OTHER -> UNION {f[y.args[i]] : i \in DOMAIN y.args}
           S(f) == [y \in Trees |-> Cases(f, y)]
           F == [f \in [Trees -> V] |-> S(f)]
           q == CHOOSE f : f = S(f)
<1>1. ASSUME NEW f \in [Trees -> V], NEW y \in Trees PROVE Cases(f, y) \in V
  <2>1. CASE y.kind \in {"bool", "compare"}
    BY <2>1
  <2>2. CASE y.kind = "not"
    BY <2>2, Parts
  <2>3. CASE y.kind \in {"or", "and"}
    <3>1. \A i \in DOMAIN y.args : f[y.args[i]] \subseteq Trees
      BY <2>3, Parts
    <3> QED
      BY <2>3, <3>1
  <2> QED
    BY <2>1, <2>2, <2>3, Parts
<1>2. ASSUME NEW f \in [Trees -> V], NEW g \in [Trees -> V], NEW y \in Trees,
             \A z \in Below(y) : f[z] = g[z]
      PROVE  Cases(f, y) = Cases(g, y)
  <2>1. CASE y.kind \in {"bool", "compare"}
    BY <2>1
  <2>2. CASE y.kind = "not"
    BY <1>2, <2>2, Parts
  <2>3. CASE y.kind \in {"or", "and"}
    <3>1. \A i \in DOMAIN y.args : f[y.args[i]] = g[y.args[i]]
      BY <1>2, <2>3, Parts
    <3>2. {f[y.args[i]] : i \in DOMAIN y.args} = {g[y.args[i]] : i \in DOMAIN y.args}
      BY <3>1
    <3> QED
      BY <2>3, <3>2
  <2> QED
    BY <2>1, <2>2, <2>3, Parts
<1>3. \A x : Comparisons(x) = q[x]
  BY DEF Comparisons
<1>4. q = S(q)
  <2> HIDE DEF Cases
  <2>1. F \in [[Trees -> V] -> [Trees -> V]]
    BY <1>1
  <2>2. \A f, g \in [Trees -> V], x \in Trees :
          (\A y \in Below(x) : f[y] = g[y]) => F[f][x] = F[g][x]
    BY <1>2
  <2>3. {} \in V
    OBVIOUS
  <2>4. \A f \in [Trees -> V] : F[f] = S(f)
    OBVIOUS
  <2> HIDE DEF F, S, V
  <2>5. \E f \in [Trees -> V] : f = F[f]
    BY <2>1, <2>2, <2>3, Recursion
  <2> QED
    BY <2>4, <2>5
<1> HIDE DEF q
<1> TAKE x \in Trees
<1>5. Comparisons(x) = Cases(q, x)
  BY <1>3, <1>4
<1>6. {Comparisons(x.args[i]) : i \in DOMAIN x.args} = {q[x.args[i]] : i \in DOMAIN x.args}
  BY <1>3
<1> QED
  BY <1>3, <1>5, <1>6

\* The truth of a tree, for any truth of comparisons.
LEMMA HoldsIs ==
  ASSUME NEW truth
  PROVE  \A x \in Trees :
           /\ x.kind = "bool" => (Holds(x, truth) <=> x.value)
           /\ x.kind = "compare" => (Holds(x, truth) <=> truth[x])
           /\ x.kind = "not" => (Holds(x, truth) <=> ~Holds(x.arg, truth))
           /\ x.kind = "or" => (Holds(x, truth) <=> \E i \in DOMAIN x.args : Holds(x.args[i], truth))
           /\ x.kind = "and" => (Holds(x, truth) <=> \A i \in DOMAIN x.args : Holds(x.args[i], truth))
<1> DEFINE V == BOOLEAN \union {truth[y] : y \in Trees}
           Cases(f, y) ==
             CASE y.kind = "bool" -> y.value
               [] y.kind = "compare" -> truth[y]
               [] y.kind = "not" -> ~f[y.arg]
               [] y.kind = "or" -> \E i \in DOMAIN y.args : f[y.args[i]]
               [] OTHER -> \A i \in DOMAIN y.args : f[y.args[i]]
           S(f) == [y \in Trees |-> Cases(f, y)]
           F == [f \in [Trees -> V] |-> S(f)]
           q == CHOOSE f : f = S(f)
<1>1. ASSUME NEW f \in [Trees -> V], NEW y \in Trees PROVE Cases(f, y) \in V
  BY Parts
<1>2. ASSUME NEW f \in [Trees -> V], NEW g \in [Trees -> V], NEW y \in Trees,
             \A z \in Below(y) : f[z] = g[z]
      PROVE  Cases(f, y) = Cases(g, y)
  <2>1. CASE y.kind \in {"bool", "compare"}
    BY <2>1
  <2>2. CASE y.kind = "not"
    BY <1>2, <2>2, Parts
  <2>3. CASE y.kind \in {"or", "and"}
    <3>1. \A i \in DOMAIN y.args : f[y.args[i]] = g[y.args[i]]
      BY <1>2, <2>3, Parts
    <3> QED
      BY <2>3, <3>1
  <2> QED
    BY <2>1, <2>2, <2>3, Parts
<1>3. \A x : Holds(x, truth) = q[x]
  BY DEF Holds
<1>4. q = S(q)
  <2> HIDE DEF Cases
  <2>1. F \in [[Trees -> V] -> [Trees -> V]]
    BY <1>1
  <2>2. \A f, g \in [Trees -> V], x \in Trees :
          (\A y \in Below(x) : f[y] = g[y]) => F[f][x] = F[g][x]
    BY <1>2
  <2>3. TRUE \in V
    OBVIOUS
  <2>4. \A f \in [Trees -> V] : F[f] = S(f)
    OBVIOUS
  <2> HIDE DEF F, S, V
  <2>5. \E f \in [Trees -> V] : f = F[f]
    BY <2>1, <2>2, <2>3, Recursion
  <2> QED
    BY <2>4, <2>5
<1> HIDE DEF q
<1> TAKE x \in Trees
<1>5. Holds(x, truth) = Cases(q, x)
  <2> HIDE DEF Cases
  <2> QED
    BY <1>3, <1>4
<1>6. CASE x.kind \in {"bool", "compare"}
  BY <1>5, <1>6
<1>7. CASE x.kind = "not"
  BY <1>3, <1>5, <1>7
<1>8. CASE x.kind = "or"
  BY <1>3, <1>5, <1>8
<1>9. CASE x.kind = "and"
  BY <1>3, <1>5, <1>9
<1> QED
  BY <1>6, <1>7, <1>8, <1>9, Parts

(* ------------------------------- verdicts ------------------------------- *)

\* Whatever the ill-typed comparisons are taken for, a subtree that is "yes" holds,
\* one that is "no" does not, and one that throws has an ill-typed comparison.
LEMMA EvaluateSound ==
  ASSUME NEW s \in Sources, NEW a, NEW root \in Trees, NEW t \in Readings(root, EventOf(s, a))
  PROVE  \A x \in Trees :
           Comparisons(x) \subseteq Comparisons(root) =>
             /\ Evaluate(s, x, a) = "yes" => Holds(x, t)
             /\ Evaluate(s, x, a) = "no" => ~Holds(x, t)
             /\ Evaluate(s, x, a) = "throws" => \E c \in Comparisons(x) : ~WellTyped(c)
<1> DEFINE Sound(x) ==
             /\ Evaluate(s, x, a) = "yes" => Holds(x, t)
             /\ Evaluate(s, x, a) = "no" => ~Holds(x, t)
             /\ Evaluate(s, x, a) = "throws" => \E c \in Comparisons(x) : ~WellTyped(c)
           P == {x \in Trees : Comparisons(x) \subseteq Comparisons(root) => Sound(x)}
<1>1. ASSUME NEW x \in Trees, Below(x) \subseteq P, Comparisons(x) \subseteq Comparisons(root)
      PROVE  Sound(x)
  <2>1. CASE x.kind = "bool"
    <3>1. Evaluate(s, x, a) = Truth(x.value)
      BY <2>1, EvaluateIs
    <3>2. (Holds(x, t) <=> x.value) /\ x.value \in BOOLEAN
      BY <2>1, HoldsIs, Parts
    <3> QED
      BY <3>1, <3>2 DEF Truth
  <2>2. CASE x.kind = "compare"
    <3>1. Evaluate(s, x, a) = Compare(x, EventOf(s, a)) /\ Comparisons(x) = {x}
      BY <2>2, EvaluateIs, ComparisonsAre
    <3>2. Holds(x, t) <=> t[x]
      BY <2>2, HoldsIs
    <3>3. WellTyped(x) => t[x] = Matches(x, EventOf(s, a))
      BY <1>1, <3>1 DEF Readings
    <3> QED
      BY <3>1, <3>2, <3>3 DEF Compare, Truth
  <2>3. CASE x.kind = "not"
    <3>1. Evaluate(s, x, a) = Negate(Evaluate(s, x.arg, a))
      BY <2>3, EvaluateIs
    <3>2. x.arg \in Trees /\ x.arg \in P /\ Comparisons(x) = Comparisons(x.arg)
      BY <1>1, <2>3, ComparisonsAre, Parts
    <3>3. Evaluate(s, x.arg, a) \in Verdicts
      BY <3>2, EvaluateType
    <3>4. Holds(x, t) <=> ~Holds(x.arg, t)
      BY <2>3, HoldsIs
    <3>5. Sound(x.arg)
      BY <1>1, <3>2
    <3> QED
      BY <3>1, <3>2, <3>3, <3>4, <3>5 DEF Negate, Verdicts
  <2>4. CASE x.kind \in {"or", "and"}
    <3> DEFINE n == Len(x.args)
               r == [i \in DOMAIN x.args |-> Evaluate(s, x.args[i], a)]
    <3>1. n \in Nat /\ DOMAIN x.args = 1 .. n /\ DOMAIN r = 1 .. n
      BY <2>4, Parts
    <3>2. ASSUME NEW i \in 1 .. n
          PROVE  /\ Comparisons(x.args[i]) \subseteq Comparisons(x)
                 /\ r[i] = Evaluate(s, x.args[i], a) /\ r[i] \in Verdicts
                 /\ Sound(x.args[i])
      <4>1. x.args[i] \in P /\ x.args[i] \in Trees
        BY <1>1, <2>4, <3>1, Parts
      <4>2. Comparisons(x.args[i]) \subseteq Comparisons(x)
        BY <2>4, <3>1, ComparisonsAre
      <4> QED
        BY <1>1, <3>1, <4>1, <4>2, EvaluateType
    <3>3. CASE x.kind = "or"
      <4>1. Evaluate(s, x, a) = Until(r, "no")
        BY <3>3, EvaluateIs
      <4>2. Holds(x, t) <=> \E i \in 1 .. n : Holds(x.args[i], t)
        BY <3>1, <3>3, HoldsIs
      <4> HIDE DEF r, n
      <4>3. CASE Until(r, "no") = "no" /\ \A i \in 1 .. n : r[i] = "no"
        BY <3>2, <4>1, <4>2, <4>3
      <4>4. CASE \E i \in 1 .. n : r[i] # "no" /\ Until(r, "no") = r[i]
        BY <3>2, <4>1, <4>2, <4>4 DEF Verdicts
      <4> QED
        BY <3>1, <4>3, <4>4, UntilIs
    <3>4. CASE x.kind = "and"
      <4>1. Evaluate(s, x, a) = Until(r, "yes")
        BY <3>4, EvaluateIs
      <4>2. Holds(x, t) <=> \A i \in 1 .. n : Holds(x.args[i], t)
        BY <3>1, <3>4, HoldsIs
      <4> HIDE DEF r, n
      <4>3. CASE Until(r, "yes") = "yes" /\ \A i \in 1 .. n : r[i] = "yes"
        BY <3>2, <4>1, <4>2, <4>3
      <4>4. CASE \E i \in 1 .. n : r[i] # "yes" /\ Until(r, "yes") = r[i]
        BY <3>2, <4>1, <4>2, <4>4 DEF Verdicts
      <4> QED
        BY <3>1, <4>3, <4>4, UntilIs
    <3> QED
      BY <2>4, <3>3, <3>4
  <2> QED
    BY <2>1, <2>2, <2>3, <2>4, Parts
<1>2. Trees \subseteq P
  <2>1. \A x \in Trees : Below(x) \subseteq P => x \in P
    BY <1>1
  <2> HIDE DEF P
  <2> QED
    BY <2>1, TreeInduction
<1> QED
  BY <1>2

\* The two evaluators agree on an access if the sources' events agree in what the
\* well-typed comparisons of the expression look at.
LEMMA EvaluateAgrees ==
  ASSUME NEW a, NEW C, \A c \in C : WellTyped(c) => EventOf("lsp", a)[c.id] = EventOf("fan", a)[c.id]
  PROVE  \A x \in Trees : Comparisons(x) \subseteq C => Evaluate("lsp", x, a) = Evaluate("fan", x, a)
<1> DEFINE P == {x \in Trees : Comparisons(x) \subseteq C => Evaluate("lsp", x, a) = Evaluate("fan", x, a)}
<1>1. ASSUME NEW x \in Trees, Below(x) \subseteq P, Comparisons(x) \subseteq C
      PROVE  Evaluate("lsp", x, a) = Evaluate("fan", x, a)
  <2>1. CASE x.kind = "bool"
    BY <2>1, EvaluateIs DEF Sources
  <2>2. CASE x.kind = "compare"
    <3>1. Evaluate("lsp", x, a) = Compare(x, EventOf("lsp", a)) /\ Evaluate("fan", x, a) = Compare(x, EventOf("fan", a))
      BY <2>2, EvaluateIs DEF Sources
    <3>2. WellTyped(x) => EventOf("lsp", a)[x.id] = EventOf("fan", a)[x.id]
      BY <1>1, <2>2, ComparisonsAre
    <3> QED
      BY <3>1, <3>2 DEF Compare, Matches
  <2>3. CASE x.kind = "not"
    <3>1. Evaluate("lsp", x, a) = Negate(Evaluate("lsp", x.arg, a)) /\ Evaluate("fan", x, a) = Negate(Evaluate("fan", x.arg, a))
      BY <2>3, EvaluateIs DEF Sources
    <3>2. Evaluate("lsp", x.arg, a) = Evaluate("fan", x.arg, a)
      BY <1>1, <2>3, ComparisonsAre, Parts
    <3> QED
      BY <3>1, <3>2
  <2>4. CASE x.kind \in {"or", "and"}
    <3> DEFINE R(s) == [i \in DOMAIN x.args |-> Evaluate(s, x.args[i], a)]
    <3>1. ASSUME NEW i \in DOMAIN x.args PROVE Evaluate("lsp", x.args[i], a) = Evaluate("fan", x.args[i], a)
      <4>1. x.args[i] \in P
        BY <1>1, <2>4, Parts
      <4>2. Comparisons(x.args[i]) \subseteq C
        BY <1>1, <2>4, ComparisonsAre
      <4> QED
        BY <4>1, <4>2
    <3>2. R("lsp") = R("fan")
      BY <3>1
    <3>3. CASE x.kind = "or"
      <4>1. Evaluate("lsp", x, a) = Until(R("lsp"), "no") /\ Evaluate("fan", x, a) = Until(R("fan"), "no")
        BY <3>3, EvaluateIs DEF Sources
      <4> QED
        BY <3>2, <4>1
    <3>4. CASE x.kind = "and"
      <4>1. Evaluate("lsp", x, a) = Until(R("lsp"), "yes") /\ Evaluate("fan", x, a) = Until(R("fan"), "yes")
        BY <3>4, EvaluateIs DEF Sources
      <4> QED
        BY <3>2, <4>1
    <3> QED
      BY <2>4, <3>3, <3>4
  <2> QED
    BY <2>1, <2>2, <2>3, <2>4, Parts
<1>2. Trees \subseteq P
  <2>1. \A x \in Trees : Below(x) \subseteq P => x \in P
    BY <1>1
  <2> HIDE DEF P
  <2> QED
    BY <2>1, TreeInduction
<1> QED
  BY <1>2

(* ------------------------------- the parser ----------------------------- *)

\* Parse's domain, and an order in which every match needs only smaller ones.
Places(t) == Rules \X (1 .. Len(t) + 1)

Rank(rule) ==
  IF rule = "primary" THEN 0 ELSE IF rule = "not" THEN 1 ELSE IF rule = "and" THEN 2 ELSE 3

Height(t, p) == 4 * (Len(t) + 1 - p[2]) + Rank(p[1])

\* What a rule makes of the text from a position on, given what the others make.
Reading(t, read, p) ==
  CASE p[1] = "primary" -> Primary(t, p[2], read)
    [] p[1] = "not" -> Unary(t, p[2], read)
    [] OTHER -> Level(t, p[1], p[2], read)

\* A match takes at least one symbol and stays inside the text.
Moves(t, i, r) ==
  /\ r.is \in {"no", "throws", "ok"}
  /\ r.is = "ok" => r.next \in i + 1 .. Len(t) + 1

\* The parts of a match, and that the other results are none.
LEMMA OkIs ==
  ASSUME NEW x, NEW n
  PROVE  /\ Ok(x, n).is = "ok" /\ Ok(x, n).tree = x /\ Ok(x, n).next = n
         /\ No.is = "no" /\ Throws.is = "throws"
  BY DEF Ok, No, Throws

\* A string goes from its mark to the next one of its kind.
LEMMA QuotedIs ==
  ASSUME NEW t, Len(t) \in Nat, NEW i \in Nat \ {0}
  PROVE  \/ Quoted(t, i) = No
         \/ /\ i <= Len(t) /\ t[i] \in {Single, Double}
            /\ \E j \in i + 2 .. Len(t) :
                 /\ t[j] = t[i] /\ \A k \in i + 1 .. j - 1 : t[k] # t[i]
                 /\ Quoted(t, i) = Ok([type |-> "string", of |-> SubSeq(t, i + 1, j - 1)], j + 1)
<1> DEFINE ends == {j \in i + 2 .. Len(t) : t[j] = t[i] /\ \A k \in i + 1 .. j - 1 : t[k] # t[i]}
           j == CHOOSE e \in ends : TRUE
<1>1. CASE At(t, i) \notin {Single, Double} \/ ends = {}
  BY <1>1 DEF Quoted
<1>2. CASE At(t, i) \in {Single, Double} /\ ends # {}
  <2>1. Quoted(t, i) = Ok([type |-> "string", of |-> SubSeq(t, i + 1, j - 1)], j + 1)
    BY <1>2 DEF Quoted
  <2>2. j \in ends
    BY <1>2
  <2> HIDE DEF j
  <2>3. i <= Len(t) /\ t[i] \in {Single, Double}
    BY <1>2, <2>2 DEF At
  <2> QED
    BY <2>1, <2>2, <2>3
<1> QED
  BY <1>1, <1>2

\* A value takes at least one symbol.
LEMMA ValueMoves ==
  ASSUME NEW t, Len(t) \in Nat, NEW i \in Nat \ {0}
  PROVE  /\ Value(t, i).is \in {"no", "ok"}
         /\ Value(t, i).is = "ok" => Value(t, i).next \in i + 1 .. Len(t) + 1
<1>1. CASE At(t, i) \in Bools \union DOMAIN Longs
  <2>1. i <= Len(t)
    BY <1>1, TextAssumption DEF At, Bools, End
  <2>2. \E v : Value(t, i) = Ok(v, i + 1)
    BY <1>1 DEF Value
  <2> QED
    BY <2>1, <2>2, OkIs
<1>2. CASE At(t, i) \notin Bools \union DOMAIN Longs
  <2>1. Value(t, i) = Quoted(t, i)
    BY <1>2 DEF Value
  <2>2. CASE Quoted(t, i) = No
    BY <2>1, <2>2, OkIs
  <2>3. CASE \E j \in i + 2 .. Len(t) :
               Quoted(t, i) = Ok([type |-> "string", of |-> SubSeq(t, i + 1, j - 1)], j + 1)
    BY <2>1, <2>3, OkIs
  <2>4. \/ Quoted(t, i) = No
        \/ \E j \in i + 2 .. Len(t) :
             Quoted(t, i) = Ok([type |-> "string", of |-> SubSeq(t, i + 1, j - 1)], j + 1)
    BY QuotedIs
  <2> QED
    BY <2>2, <2>3, <2>4
<1> QED
  BY <1>1, <1>2

\* So does a comparison, in parentheses or not.
LEMMA ComparisonMoves ==
  ASSUME NEW t, Len(t) \in Nat, NEW i \in Nat \ {0}
  PROVE  Moves(t, i, Comparison(t, i)) /\ Moves(t, i, Closed(t, Comparison(t, i)))
<1> DEFINE v == Value(t, i + 2)
           c == Comparison(t, i)
<1>1. Moves(t, i, c)
  <2>1. CASE At(t, i) \notin Identifiers
    BY <2>1, OkIs DEF Comparison, Moves
  <2>2. CASE At(t, i) \in Identifiers /\ ~(At(t, i + 1) \in Operators /\ v.is = "ok")
    <3>1. c = Throws
      BY <2>2, OkIs DEF Comparison, Operation, Expect
    <3> QED
      BY <3>1, OkIs DEF Moves
  <2>3. CASE At(t, i) \in Identifiers /\ At(t, i + 1) \in Operators /\ v.is = "ok"
    <3>1. \E x : c = Ok(x, v.next)
      BY <2>3, OkIs DEF Comparison, Operation, Expect
    <3>2. v.next \in i + 2 + 1 .. Len(t) + 1
      BY <2>3, ValueMoves
    <3> QED
      BY <3>1, <3>2, OkIs DEF Moves
  <2> QED
    BY <2>1, <2>2, <2>3
<1> HIDE DEF c
<1>2. Moves(t, i, Closed(t, c))
  <2>1. CASE c.is # "ok"
    BY <1>1, <2>1 DEF Closed
  <2>2. CASE c.is = "ok" /\ At(t, c.next) # ")"
    BY <2>2, OkIs DEF Closed, Moves
  <2>3. CASE c.is = "ok" /\ At(t, c.next) = ")"
    <3>1. Closed(t, c) = Ok(c.tree, c.next + 1)
      BY <2>3 DEF Closed
    <3>2. c.next <= Len(t) /\ c.next \in i + 1 .. Len(t) + 1
      BY <1>1, <2>3 DEF Moves, At, End
    <3> QED
      BY <3>1, <3>2, OkIs DEF Moves
  <2> QED
    BY <2>1, <2>2, <2>3
<1> QED
  BY <1>1, <1>2 DEF c

\* A rule looks only at smaller places, and keeps to Moves if the others do there.
LEMMA ReadingStep ==
  ASSUME NEW t, Len(t) \in Nat, NEW f, NEW g, NEW p \in Places(t),
         \A q \in Places(t) : Height(t, q) < Height(t, p) => f[q] = g[q] /\ Moves(t, q[2], f[q])
  PROVE  Reading(t, f, p) = Reading(t, g, p) /\ Moves(t, p[2], Reading(t, f, p))
<1> DEFINE i == p[2]
<1>0. i \in 1 .. Len(t) + 1 /\ p[1] \in Rules /\ p = <<p[1], i>>
  BY DEF Places
<1>1. ASSUME NEW rule \in Rules, NEW j \in 1 .. Len(t) + 1,
             4 * (Len(t) + 1 - j) + Rank(rule) < 4 * (Len(t) + 1 - i) + Rank(p[1])
      PROVE  f[rule, j] = g[rule, j] /\ Moves(t, j, f[rule, j])
  <2>1. <<rule, j>> \in Places(t) /\ Height(t, <<rule, j>>) < Height(t, p)
    BY <1>1 DEF Places, Height
  <2> QED
    BY <2>1
<1> HIDE DEF i
<1>2. CASE p[1] = "primary"
  <2>1. Reading(t, f, p) = Primary(t, i, f) /\ Reading(t, g, p) = Primary(t, i, g)
    BY <1>2 DEF Reading, i
  <2>2. CASE At(t, i) \in Bools
    <3> DEFINE x == [kind |-> "bool", value |-> t[i] = "true"]
    <3>1. Primary(t, i, f) = Ok(x, i + 1) /\ Primary(t, i, g) = Ok(x, i + 1)
      BY <2>2 DEF Primary, Bools
    <3> HIDE DEF x
    <3>2. i <= Len(t)
      BY <1>0, <2>2 DEF At, Bools, End
    <3> QED
      BY <1>0, <2>1, <3>1, <3>2, OkIs DEF Moves, i
  <2>3. CASE At(t, i) = "("
    <3>1. i <= Len(t)
      BY <1>0, <2>3 DEF At, End
    <3> DEFINE c == Closed(t, Comparison(t, i + 1))
               Then(h) == IF c.is # "no" THEN c ELSE Closed(t, h["or", i + 1])
    <3>2. Primary(t, i, f) = Then(f) /\ Primary(t, i, g) = Then(g)
      BY <2>3 DEF Primary, Bools
    <3>3. Moves(t, i + 1, c)
      BY <1>0, ComparisonMoves
    <3>4. f["or", i + 1] = g["or", i + 1] /\ Moves(t, i + 1, f["or", i + 1])
      <4>1. i + 1 \in 1 .. Len(t) + 1 /\ "or" \in Rules
        BY <1>0, <3>1 DEF Rules
      <4>2. 4 * (Len(t) + 1 - (i + 1)) + Rank("or") < 4 * (Len(t) + 1 - i) + Rank(p[1])
        BY <1>0, <1>2 DEF Rank
      <4> QED
        BY <1>1, <4>1, <4>2
    <3> HIDE DEF c
    <3>5. ASSUME NEW r, Moves(t, i + 1, r) PROVE Moves(t, i, Closed(t, r))
      <4>1. CASE r.is = "ok" /\ At(t, r.next) = ")"
        <5>1. r.next <= Len(t)
          BY <1>0, <3>5, <4>1 DEF Moves, At, End
        <5> QED
          BY <1>0, <3>5, <4>1, <5>1, OkIs DEF Moves, Closed
      <4>2. CASE r.is = "ok" /\ At(t, r.next) # ")"
        BY <4>2, OkIs DEF Closed, Moves
      <4>3. CASE r.is # "ok"
        BY <3>5, <4>3 DEF Closed, Moves
      <4> QED
        BY <4>1, <4>2, <4>3
    <3>6. Moves(t, i, c)
      BY <1>0, <3>3 DEF Moves
    <3> QED
      BY <2>1, <3>2, <3>4, <3>5, <3>6 DEF i
  <2>4. CASE At(t, i) \notin Bools /\ At(t, i) # "("
    <3>1. Primary(t, i, f) = No /\ Primary(t, i, g) = No
      BY <2>4 DEF Primary
    <3> QED
      BY <2>1, <3>1, OkIs DEF Moves
  <2> QED
    BY <2>2, <2>3, <2>4
<1>3. CASE p[1] = "not"
  <2>1. Reading(t, f, p) = Unary(t, i, f) /\ Reading(t, g, p) = Unary(t, i, g)
    BY <1>3 DEF Reading, i
  <2>2. CASE At(t, i) = "!"
    <3>1. i <= Len(t)
      BY <1>0, <2>2 DEF At, End
    <3>2. f["primary", i + 1] = g["primary", i + 1] /\ Moves(t, i + 1, f["primary", i + 1])
      <4>1. i + 1 \in 1 .. Len(t) + 1 /\ "primary" \in Rules
        BY <1>0, <3>1 DEF Rules
      <4>2. 4 * (Len(t) + 1 - (i + 1)) + Rank("primary") < 4 * (Len(t) + 1 - i) + Rank(p[1])
        BY <1>0, <1>3 DEF Rank
      <4> QED
        BY <1>1, <4>1, <4>2
    <3> DEFINE r == f["primary", i + 1]
    <3>3. Unary(t, i, f) = Negated(Expect(r)) /\ Unary(t, i, g) = Negated(Expect(r))
      BY <2>2, <3>2 DEF Unary
    <3>4. Moves(t, i + 1, r)
      BY <3>2
    <3> HIDE DEF r
    <3>5. Moves(t, i, Negated(Expect(r)))
      BY <1>0, <3>4, OkIs DEF Moves, Negated, Expect
    <3> QED
      BY <2>1, <3>3, <3>5 DEF i
  <2>3. CASE At(t, i) # "!"
    <3>1. f["primary", i] = g["primary", i] /\ Moves(t, i, f["primary", i])
      <4>1. i \in 1 .. Len(t) + 1 /\ "primary" \in Rules
        BY <1>0 DEF Rules
      <4>2. 4 * (Len(t) + 1 - i) + Rank("primary") < 4 * (Len(t) + 1 - i) + Rank(p[1])
        BY <1>0, <1>3 DEF Rank
      <4> QED
        BY <1>1, <4>1, <4>2
    <3> QED
      BY <2>1, <2>3, <3>1 DEF Unary, i
  <2> QED
    BY <2>2, <2>3
<1>4. CASE p[1] \in {"or", "and"}
  <2> DEFINE kind == p[1]
             r == f[Operand(kind), i]
             s == f[kind, r.next + 1]
             Rest(h) == Expect(h[kind, r.next + 1])
             Then(rest) ==
               CASE r.is # "ok" -> r
                 [] r.is = "ok" /\ At(t, r.next) # Sign(kind) ->
                      Ok([kind |-> kind, args |-> <<r.tree>>], r.next)
                 [] r.is = "ok" /\ At(t, r.next) = Sign(kind) ->
                      IF rest.is = "ok"
                        THEN Ok([kind |-> kind, args |-> <<r.tree>> \o rest.tree.args], rest.next)
                        ELSE rest
  <2>1. f[Operand(kind), i] = g[Operand(kind), i] /\ Moves(t, i, r)
    <3>1. i \in 1 .. Len(t) + 1 /\ Operand(kind) \in Rules
      BY <1>0 DEF Rules, Operand
    <3>2. 4 * (Len(t) + 1 - i) + Rank(Operand(kind)) < 4 * (Len(t) + 1 - i) + Rank(kind)
      <4>1. Rank(Operand(kind)) \in 0 .. 3 /\ Rank(kind) \in 0 .. 3 /\ Rank(Operand(kind)) < Rank(kind)
        BY <1>4 DEF Rank, Operand
      <4> QED
        BY <1>0, <4>1
    <3> QED
      BY <1>1, <3>1, <3>2
  <2>2. Reading(t, f, p) = Then(Rest(f)) /\ Reading(t, g, p) = Then(Rest(g))
    <3>1. Reading(t, f, p) = Level(t, kind, i, f) /\ Reading(t, g, p) = Level(t, kind, i, g)
      BY <1>4 DEF Reading, i
    <3>2. Level(t, kind, i, f) = Then(Rest(f))
      BY DEF Level
    <3>3. Level(t, kind, i, g) = Then(Rest(g))
      <4>1. r = g[Operand(kind), i]
        BY <2>1
      <4> HIDE DEF r
      <4> QED
        BY <4>1 DEF Level
    <3> QED
      BY <3>1, <3>2, <3>3
  <2> HIDE DEF r
  <2>3. ASSUME r.is = "ok", At(t, r.next) = Sign(kind)
        PROVE  f[kind, r.next + 1] = g[kind, r.next + 1] /\ Moves(t, r.next + 1, s) /\ r.next \in i + 1 .. Len(t)
    <3> DEFINE n == r.next
    <3>1. n \in i + 1 .. Len(t)
      <4>1. n \in i + 1 .. Len(t) + 1
        BY <2>1, <2>3 DEF Moves
      <4>2. At(t, n) # End
        BY <2>3 DEF Sign, End
      <4> HIDE DEF n
      <4> QED
        BY <1>0, <4>1, <4>2 DEF At
    <3> HIDE DEF n
    <3>2. n + 1 \in 1 .. Len(t) + 1 /\ kind \in Rules
      BY <1>0, <3>1
    <3>3. 4 * (Len(t) + 1 - (n + 1)) + Rank(kind) < 4 * (Len(t) + 1 - i) + Rank(kind)
      <4>1. Rank(kind) \in 0 .. 3
        BY DEF Rank
      <4> HIDE DEF kind
      <4> QED
        BY <1>0, <3>1, <4>1
    <3> QED
      BY <1>1, <3>1, <3>2, <3>3 DEF n
  <2> HIDE DEF kind
  <2>4. CASE r.is # "ok"
    BY <2>1, <2>2, <2>4 DEF i
  <2>5. CASE r.is = "ok" /\ At(t, r.next) # Sign(kind)
    <3> DEFINE x == [kind |-> kind, args |-> <<r.tree>>]
    <3>1. Then(Rest(f)) = Ok(x, r.next) /\ Then(Rest(g)) = Ok(x, r.next)
      BY <2>5
    <3> HIDE DEF x, Then, Rest
    <3>2. r.next \in i + 1 .. Len(t) + 1
      BY <2>1, <2>5 DEF Moves
    <3>3. Moves(t, i, Ok(x, r.next))
      BY <3>2, OkIs DEF Moves
    <3> QED
      BY <2>2, <3>1, <3>3 DEF i
  <2>6. CASE r.is = "ok" /\ At(t, r.next) = Sign(kind)
    <3>1. Rest(f) = Rest(g) /\ Rest(f) = Expect(s)
      BY <2>3, <2>6
    <3>2. Moves(t, r.next + 1, s) /\ r.next \in i + 1 .. Len(t)
      BY <2>3, <2>6
    <3> HIDE DEF s, Rest
    <3>3. Moves(t, i, Expect(s))
      BY <1>0, <3>2, OkIs DEF Moves, Expect
    <3> DEFINE e == Expect(s)
    <3>4. Moves(t, i, Then(e))
      <4> HIDE DEF e
      <4>1. CASE e.is = "ok"
        <5>1. \E x : Then(e) = Ok(x, e.next)
          BY <2>6, <4>1
        <5> HIDE DEF Then
        <5> QED
          BY <3>3, <4>1, <5>1, OkIs DEF Moves, e
      <4>2. CASE e.is # "ok"
        <5>1. Then(e) = e
          BY <2>6, <4>2
        <5> QED
          BY <3>3, <5>1 DEF e
      <4> QED
        BY <4>1, <4>2
    <3> HIDE DEF Then
    <3> QED
      BY <2>2, <3>1, <3>4 DEF i
  <2> QED
    BY <2>4, <2>5, <2>6
<1> QED
  BY <1>0, <1>2, <1>3, <1>4 DEF Rules

\* Parse computes what the rules say, and its matches move.
LEMMA ParseIs ==
  ASSUME NEW t, Len(t) \in Nat
  PROVE  \A p \in Places(t) : Parse(t)[p] = Reading(t, Parse(t), p) /\ Moves(t, p[2], Parse(t)[p])
<1> DEFINE D == Places(t)
           S(f) == [p \in Rules \X (1 .. Len(t) + 1) |->
                     CASE p[1] = "primary" -> Primary(t, p[2], f)
                       [] p[1] = "not" -> Unary(t, p[2], f)
                       [] OTHER -> Level(t, p[1], p[2], f)]
           q == CHOOSE f : f = S(f)
           T == {k \in Nat : \E f : \A p \in D :
                   Height(t, p) < k => f[p] = Reading(t, f, p) /\ Moves(t, p[2], f[p])}
<1>0. \A p \in D : Height(t, p) \in Nat /\ Height(t, p) < 4 * Len(t) + 4
  BY DEF Places, Height, Rank, Rules
<1>1. 0 \in T
  BY <1>0
<1>2. ASSUME NEW k \in Nat, k \in T PROVE k + 1 \in T
  <2>1. PICK f : \A p \in D : Height(t, p) < k => f[p] = Reading(t, f, p) /\ Moves(t, p[2], f[p])
    BY <1>2
  <2> DEFINE g == [p \in D |-> Reading(t, f, p)]
  <2>2. \A p \in D : g[p] = Reading(t, f, p)
    OBVIOUS
  <2> HIDE DEF g
  <2>3. ASSUME NEW p \in D, Height(t, p) < k + 1
        PROVE  Reading(t, f, p) = Reading(t, g, p) /\ Moves(t, p[2], Reading(t, f, p))
    <3>1. \A r \in D : Height(t, r) < Height(t, p) => f[r] = g[r] /\ Moves(t, r[2], f[r])
      <4> SUFFICES ASSUME NEW r \in D, Height(t, r) < Height(t, p)
                   PROVE  f[r] = g[r] /\ Moves(t, r[2], f[r])
        OBVIOUS
      <4>1. Height(t, r) < k
        BY <1>0, <2>3
      <4> QED
        BY <2>1, <2>2, <4>1
    <3> QED
      BY <3>1, ReadingStep
  <2>4. \A p \in D : Height(t, p) < k + 1 => g[p] = Reading(t, g, p) /\ Moves(t, p[2], g[p])
    BY <2>2, <2>3
  <2> QED
    BY <2>4
<1>3. \A k \in Nat : k \in T
  <2> HIDE DEF T
  <2> QED
    BY <1>1, <1>2, Induction
<1>4. PICK f : \A p \in D : f[p] = Reading(t, f, p) /\ Moves(t, p[2], f[p])
  <2>1. 4 * Len(t) + 4 \in T
    BY <1>3
  <2> QED
    BY <1>0, <2>1
<1>5. \E g : g = S(g)
  <2> DEFINE g == [p \in D |-> f[p]]
  <2>1. \A p \in D : g[p] = f[p]
    OBVIOUS
  <2>2. \A p \in D : Reading(t, f, p) = Reading(t, g, p)
    <3> HIDE DEF g
    <3> QED
      BY <1>4, <2>1, ReadingStep
  <2>3. g = [p \in D |-> Reading(t, g, p)]
    <3>1. g = [p \in D |-> g[p]]
      OBVIOUS
    <3> HIDE DEF g
    <3>2. \A p \in D : g[p] = Reading(t, g, p)
      BY <1>4, <2>1, <2>2
    <3> QED
      BY <3>1, <3>2
  <2> HIDE DEF g
  <2>4. g = S(g)
    BY <2>3 DEF Reading, Places
  <2> QED
    BY <2>4
<1>6. q = S(q)
  <2> HIDE DEF S
  <2> QED
    BY <1>5
<1>7. Parse(t) = q
  BY DEF Parse
<1> HIDE DEF q
<1>8. \A p \in D : q[p] = Reading(t, q, p)
  BY <1>6 DEF Reading, Places
<1> DEFINE U == {k \in Nat : \A p \in D : Height(t, p) < k => Moves(t, p[2], q[p])}
<1>9. 0 \in U
  BY <1>0
<1>10. ASSUME NEW k \in Nat, k \in U PROVE k + 1 \in U
  <2> SUFFICES ASSUME NEW p \in D, Height(t, p) < k + 1 PROVE Moves(t, p[2], q[p])
    OBVIOUS
  <2>1. \A r \in D : Height(t, r) < Height(t, p) => Moves(t, r[2], q[r])
    <3> SUFFICES ASSUME NEW r \in D, Height(t, r) < Height(t, p) PROVE Moves(t, r[2], q[r])
      OBVIOUS
    <3>1. Height(t, r) < k
      BY <1>0
    <3> QED
      BY <1>10, <3>1
  <2>2. Moves(t, p[2], Reading(t, q, p))
    BY <2>1, ReadingStep
  <2> QED
    BY <1>8, <2>2
<1>11. \A k \in Nat : k \in U
  <2> HIDE DEF U
  <2> QED
    BY <1>9, <1>10, Induction
<1>12. \A p \in D : Moves(t, p[2], q[p])
  <2>1. 4 * Len(t) + 4 \in U
    <3> HIDE DEF U
    <3> QED
      BY <1>11
  <2> QED
    BY <1>0, <2>1
<1> QED
  BY <1>7, <1>8, <1>12

(* ------------------------------- meanings ------------------------------- *)

\* Meanings' domain, and an order in which every meaning needs only smaller ones.
Spans(t) == Rules \X (DOMAIN t) \X (DOMAIN t)

Size(p) == 4 * (IF p[2] < p[3] THEN p[3] - p[2] ELSE 0) + Rank(p[1])

\* What a rule derives from a part of the text, given what the others derive.
Deriving(t, means, p) ==
  LET i == p[2]
      j == p[3]
      Cuts(sign) == {n \in i + 1 .. j - 1 : t[n] = sign}
  IN  CASE p[1] = "or" ->
             means["and", i, j]
               \union UNION {{a \union b : a \in means["and", i, k - 1], b \in means["or", k + 1, j]} :
                              k \in Cuts("||")}
        [] p[1] = "and" ->
             means["not", i, j]
               \union UNION {{a \intersect b : a \in means["not", i, k - 1], b \in means["and", k + 1, j]} :
                              k \in Cuts("&&")}
        [] p[1] = "not" ->
             means["primary", i, j]
               \union (IF i < j /\ t[i] = "!"
                         THEN {Worlds(t) \ a : a \in means["primary", i + 1, j]} ELSE {})
        [] OTHER ->
             {{w \in Worlds(t) : w[c]} : c \in Atoms(t, i, j)}
               \union (IF i = j /\ t[i] \in Bools THEN {IF t[i] = "true" THEN Worlds(t) ELSE {}} ELSE {})
               \union (IF i + 1 < j /\ t[i] = "(" /\ t[j] = ")"
                         THEN means["or", i + 1, j - 1] ELSE {})

\* The same, from a meaning's side.
Derives(t, means, rule, i, j, m) ==
  CASE rule = "or" ->
         \/ m \in means["and", i, j]
         \/ \E k \in i + 1 .. j - 1 : \E a \in means["and", i, k - 1], b \in means["or", k + 1, j] :
              t[k] = "||" /\ m = a \union b
    [] rule = "and" ->
         \/ m \in means["not", i, j]
         \/ \E k \in i + 1 .. j - 1 : \E a \in means["not", i, k - 1], b \in means["and", k + 1, j] :
              t[k] = "&&" /\ m = a \intersect b
    [] rule = "not" ->
         \/ m \in means["primary", i, j]
         \/ i < j /\ t[i] = "!" /\ \E a \in means["primary", i + 1, j] : m = Worlds(t) \ a
    [] rule = "primary" ->
         \/ \E c \in Atoms(t, i, j) : m = {w \in Worlds(t) : w[c]}
         \/ i = j /\ t[i] \in Bools /\ m = IF t[i] = "true" THEN Worlds(t) ELSE {}
         \/ i + 1 < j /\ t[i] = "(" /\ t[j] = ")" /\ m \in means["or", i + 1, j - 1]

\* Derives, rule by rule.
LEMMA DerivesIs ==
  ASSUME NEW t, NEW f, NEW rule \in Rules, NEW i, NEW j, NEW m
  PROVE  m \in Deriving(t, f, <<rule, i, j>>) <=> Derives(t, f, rule, i, j, m)
<1> DEFINE p == <<rule, i, j>>
           Cuts(sign) == {n \in i + 1 .. j - 1 : t[n] = sign}
<1>0. p[1] = rule /\ p[2] = i /\ p[3] = j
  OBVIOUS
<1>1. CASE rule = "or"
  <2> DEFINE Joined(k) == {a \union b : a \in f["and", i, k - 1], b \in f["or", k + 1, j]}
  <2>1. Deriving(t, f, p) =
          f["and", i, j]
            \union UNION {Joined(k) : k \in Cuts("||")}
    BY <1>1 DEF Deriving
  <2>2. m \in Deriving(t, f, p) <=>
          \/ m \in f["and", i, j]
          \/ \E k \in Cuts("||") : m \in Joined(k)
    <3> HIDE DEF Joined, Cuts, p
    <3> QED
      BY <2>1
  <2>6. \A k : m \in Joined(k) <=> \E a \in f["and", i, k - 1], b \in f["or", k + 1, j] : m = a \union b
    OBVIOUS
  <2>3. \A k \in Cuts("||") : k \in i + 1 .. j - 1 /\ t[k] = "||"
    OBVIOUS
  <2>4. \A k \in i + 1 .. j - 1 : t[k] = "||" => k \in Cuts("||")
    OBVIOUS
  <2> HIDE DEF p, Cuts, Joined
  <2>5. Derives(t, f, rule, i, j, m) <=>
          \/ m \in f["and", i, j]
          \/ \E k \in i + 1 .. j - 1 : \E a \in f["and", i, k - 1], b \in f["or", k + 1, j] :
               t[k] = "||" /\ m = a \union b
    BY <1>1 DEF Derives
  <2> QED
    BY <2>2, <2>3, <2>4, <2>5, <2>6 DEF p
<1>2. CASE rule = "and"
  <2> DEFINE Joined(k) == {a \intersect b : a \in f["not", i, k - 1], b \in f["and", k + 1, j]}
  <2>1. Deriving(t, f, p) =
          f["not", i, j]
            \union UNION {Joined(k) : k \in Cuts("&&")}
    BY <1>2 DEF Deriving
  <2>2. m \in Deriving(t, f, p) <=>
          \/ m \in f["not", i, j]
          \/ \E k \in Cuts("&&") : m \in Joined(k)
    <3> HIDE DEF Joined, Cuts, p
    <3> QED
      BY <2>1
  <2>6. \A k : m \in Joined(k) <=> \E a \in f["not", i, k - 1], b \in f["and", k + 1, j] : m = a \intersect b
    OBVIOUS
  <2>3. \A k \in Cuts("&&") : k \in i + 1 .. j - 1 /\ t[k] = "&&"
    OBVIOUS
  <2>4. \A k \in i + 1 .. j - 1 : t[k] = "&&" => k \in Cuts("&&")
    OBVIOUS
  <2> HIDE DEF p, Cuts, Joined
  <2>5. Derives(t, f, rule, i, j, m) <=>
          \/ m \in f["not", i, j]
          \/ \E k \in i + 1 .. j - 1 : \E a \in f["not", i, k - 1], b \in f["and", k + 1, j] :
               t[k] = "&&" /\ m = a \intersect b
    BY <1>2 DEF Derives
  <2> QED
    BY <2>2, <2>3, <2>4, <2>5, <2>6 DEF p
<1>3. CASE rule = "not"
  <2>1. Deriving(t, f, p) =
          f["primary", i, j]
            \union (IF i < j /\ t[i] = "!"
                      THEN {Worlds(t) \ a : a \in f["primary", i + 1, j]} ELSE {})
    BY <1>3 DEF Deriving
  <2> HIDE DEF p
  <2> QED
    BY <1>3, <2>1 DEF Derives, p
<1>4. CASE rule = "primary"
  <2>1. Deriving(t, f, p) =
          {{w \in Worlds(t) : w[c]} : c \in Atoms(t, i, j)}
            \union (IF i = j /\ t[i] \in Bools THEN {IF t[i] = "true" THEN Worlds(t) ELSE {}} ELSE {})
            \union (IF i + 1 < j /\ t[i] = "(" /\ t[j] = ")"
                      THEN f["or", i + 1, j - 1] ELSE {})
    BY <1>4 DEF Deriving
  <2> HIDE DEF p
  <2> QED
    BY <1>4, <2>1 DEF Derives, p
<1> QED
  BY <1>1, <1>2, <1>3, <1>4 DEF Rules

\* A rule's meanings depend on those of smaller spans only.
LEMMA DerivingStep ==
  ASSUME NEW t, Len(t) \in Nat, DOMAIN t = 1 .. Len(t), NEW f, NEW g, NEW p \in Spans(t),
         \A q \in Spans(t) : Size(q) < Size(p) => f[q] = g[q]
  PROVE  Deriving(t, f, p) = Deriving(t, g, p)
<1> DEFINE i == p[2]
           j == p[3]
           rule == p[1]
<1>0. rule \in Rules /\ i \in 1 .. Len(t) /\ j \in 1 .. Len(t) /\ p = <<rule, i, j>>
  BY DEF Spans
<1>1. ASSUME NEW r \in Rules, NEW k \in 1 .. Len(t), NEW l \in 1 .. Len(t), Size(<<r, k, l>>) < Size(p)
      PROVE  f[r, k, l] = g[r, k, l]
  BY <1>1 DEF Spans
<1> HIDE DEF i, j, rule
<1>2. /\ Size(p) = 4 * (IF i < j THEN j - i ELSE 0) + Rank(rule)
      /\ \A r, k, l : Size(<<r, k, l>>) = 4 * (IF k < l THEN l - k ELSE 0) + Rank(r)
  BY DEF Size, i, j, rule
<1>3. Rank("primary") = 0 /\ Rank("not") = 1 /\ Rank("and") = 2 /\ Rank("or") = 3
  BY DEF Rank
<1>4. {"primary", "not", "and", "or"} = Rules
  BY DEF Rules
<1>5. CASE rule = "or"
  <2>1. f["and", i, j] = g["and", i, j]
    <3>1. Size(<<"and", i, j>>) < Size(p)
      BY <1>0, <1>2, <1>3, <1>5
    <3> QED
      BY <1>0, <1>1, <1>4, <3>1
  <2>2. ASSUME NEW k \in i + 1 .. j - 1
        PROVE  f["and", i, k - 1] = g["and", i, k - 1] /\ f["or", k + 1, j] = g["or", k + 1, j]
    <3>1. k - 1 \in 1 .. Len(t) /\ k + 1 \in 1 .. Len(t)
      BY <1>0
    <3>2. Size(<<"and", i, k - 1>>) < Size(p) /\ Size(<<"or", k + 1, j>>) < Size(p)
      BY <1>0, <1>2, <1>3, <1>5
    <3> QED
      BY <1>0, <1>1, <1>4, <3>1, <3>2
  <2>3. ASSUME NEW m PROVE Derives(t, f, rule, i, j, m) <=> Derives(t, g, rule, i, j, m)
    BY <1>5, <2>1, <2>2 DEF Derives
  <2>4. \A m : m \in Deriving(t, f, p) <=> m \in Deriving(t, g, p)
    BY <1>0, <2>3, DerivesIs
  <2> QED
    BY <2>4
<1>6. CASE rule = "and"
  <2>1. f["not", i, j] = g["not", i, j]
    <3>1. Size(<<"not", i, j>>) < Size(p)
      BY <1>0, <1>2, <1>3, <1>6
    <3> QED
      BY <1>0, <1>1, <1>4, <3>1
  <2>2. ASSUME NEW k \in i + 1 .. j - 1
        PROVE  f["not", i, k - 1] = g["not", i, k - 1] /\ f["and", k + 1, j] = g["and", k + 1, j]
    <3>1. k - 1 \in 1 .. Len(t) /\ k + 1 \in 1 .. Len(t)
      BY <1>0
    <3>2. Size(<<"not", i, k - 1>>) < Size(p) /\ Size(<<"and", k + 1, j>>) < Size(p)
      BY <1>0, <1>2, <1>3, <1>6
    <3> QED
      BY <1>0, <1>1, <1>4, <3>1, <3>2
  <2>3. ASSUME NEW m PROVE Derives(t, f, rule, i, j, m) <=> Derives(t, g, rule, i, j, m)
    BY <1>6, <2>1, <2>2 DEF Derives
  <2>4. \A m : m \in Deriving(t, f, p) <=> m \in Deriving(t, g, p)
    BY <1>0, <2>3, DerivesIs
  <2> QED
    BY <2>4
<1>7. CASE rule = "not"
  <2>1. f["primary", i, j] = g["primary", i, j]
    <3>1. Size(<<"primary", i, j>>) < Size(p)
      BY <1>0, <1>2, <1>3, <1>7
    <3> QED
      BY <1>0, <1>1, <1>4, <3>1
  <2>2. ASSUME i < j PROVE f["primary", i + 1, j] = g["primary", i + 1, j]
    <3>1. i + 1 \in 1 .. Len(t)
      BY <1>0, <2>2
    <3>2. Size(<<"primary", i + 1, j>>) < Size(p)
      BY <1>0, <1>2, <1>3, <1>7, <2>2
    <3> QED
      BY <1>0, <1>1, <1>4, <3>1, <3>2
  <2> QED
    <3>1. \A m : Derives(t, f, rule, i, j, m) <=> Derives(t, g, rule, i, j, m)
      BY <1>0, <1>7, <2>1, <2>2 DEF Derives
    <3>2. \A m : m \in Deriving(t, f, p) <=> m \in Deriving(t, g, p)
      BY <1>0, <3>1, DerivesIs
    <3> QED
      BY <3>2
<1>8. CASE rule = "primary"
  <2>1. ASSUME i + 1 < j PROVE f["or", i + 1, j - 1] = g["or", i + 1, j - 1]
    <3>1. i + 1 \in 1 .. Len(t) /\ j - 1 \in 1 .. Len(t)
      BY <1>0, <2>1
    <3>2. Size(<<"or", i + 1, j - 1>>) < Size(p)
      BY <1>0, <1>2, <1>3, <1>8, <2>1
    <3> QED
      BY <1>0, <1>1, <1>4, <3>1, <3>2
  <2> QED
    <3>1. \A m : Derives(t, f, rule, i, j, m) <=> Derives(t, g, rule, i, j, m)
      BY <1>0, <1>8, <2>1 DEF Derives
    <3>2. \A m : m \in Deriving(t, f, p) <=> m \in Deriving(t, g, p)
      BY <1>0, <3>1, DerivesIs
    <3> QED
      BY <3>2
<1> QED
  BY <1>0, <1>5, <1>6, <1>7, <1>8 DEF Rules

\* Meanings computes what the rules derive.
LEMMA MeaningsAre ==
  ASSUME NEW t, Len(t) \in Nat, DOMAIN t = 1 .. Len(t)
  PROVE  \A rule \in Rules, i, j \in 1 .. Len(t) : \A m :
           m \in Meanings(t)[rule, i, j] <=> Derives(t, Meanings(t), rule, i, j, m)
<1> DEFINE D == Spans(t)
           S(f) == [p \in Rules \X (DOMAIN t) \X (DOMAIN t) |-> Deriving(t, f, p)]
           q == CHOOSE f : f = S(f)
           T == {k \in Nat : \E f : \A p \in D : Size(p) < k => f[p] = Deriving(t, f, p)}
<1>0. \A p \in D : Size(p) \in Nat /\ Size(p) < 4 * Len(t) + 4
  <2> SUFFICES ASSUME NEW p \in D PROVE Size(p) \in Nat /\ Size(p) < 4 * Len(t) + 4
    OBVIOUS
  <2>1. p[2] \in 1 .. Len(t) /\ p[3] \in 1 .. Len(t) /\ Rank(p[1]) \in 0 .. 3
    BY DEF Spans, Rank
  <2> QED
    BY <2>1 DEF Size
<1>1. 0 \in T
  BY <1>0
<1>2. ASSUME NEW k \in Nat, k \in T PROVE k + 1 \in T
  <2>1. PICK f : \A p \in D : Size(p) < k => f[p] = Deriving(t, f, p)
    BY <1>2
  <2> DEFINE g == [p \in D |-> Deriving(t, f, p)]
  <2>2. \A p \in D : g[p] = Deriving(t, f, p)
    OBVIOUS
  <2> HIDE DEF g
  <2>3. ASSUME NEW p \in D, Size(p) < k + 1 PROVE Deriving(t, f, p) = Deriving(t, g, p)
    <3>1. \A r \in D : Size(r) < Size(p) => f[r] = g[r]
      BY <1>0, <2>1, <2>2, <2>3
    <3> QED
      BY <3>1, DerivingStep
  <2>4. \A p \in D : Size(p) < k + 1 => g[p] = Deriving(t, g, p)
    BY <2>2, <2>3
  <2> QED
    BY <2>4
<1>3. \A k \in Nat : k \in T
  <2> HIDE DEF T
  <2> QED
    BY <1>1, <1>2, Induction
<1>4. PICK f : \A p \in D : f[p] = Deriving(t, f, p)
  <2>1. 4 * Len(t) + 4 \in T
    <3> HIDE DEF T
    <3> QED
      BY <1>3
  <2> QED
    BY <1>0, <2>1
<1>5. \E g : g = S(g)
  <2> DEFINE g == [p \in D |-> f[p]]
  <2>1. \A p \in D : g[p] = f[p]
    OBVIOUS
  <2>2. g = [p \in D |-> g[p]]
    OBVIOUS
  <2> HIDE DEF g
  <2>3. \A p \in D : Deriving(t, f, p) = Deriving(t, g, p)
    BY <2>1, DerivingStep
  <2>4. g = [p \in D |-> Deriving(t, g, p)]
    BY <1>4, <2>1, <2>2, <2>3
  <2> QED
    BY <2>4 DEF Spans
<1>6. q = S(q)
  <2> HIDE DEF S
  <2> QED
    BY <1>5
<1>7. Meanings(t) = q
  BY DEF Meanings, Deriving
<1> HIDE DEF q
<1>8. \A p \in D : q[p] = Deriving(t, q, p)
  BY <1>6 DEF Spans
<1> SUFFICES ASSUME NEW rule \in Rules, NEW i \in 1 .. Len(t), NEW j \in 1 .. Len(t), NEW m
             PROVE  m \in q[rule, i, j] <=> Derives(t, q, rule, i, j, m)
  BY <1>7
<1>9. <<rule, i, j>> \in D
  BY DEF Spans
<1> QED
  BY <1>8, <1>9, DerivesIs

\* All meanings of t[i .. j] as rule, and how they come about.
Means(t, rule, i, j) == Meanings(t)[rule, i, j]

\* The meanings that each rule derives from a part of the text.
LEMMA MeansAre ==
  ASSUME NEW t, Len(t) \in Nat, DOMAIN t = 1 .. Len(t), NEW i \in 1 .. Len(t), NEW j \in 1 .. Len(t), NEW m
  PROVE  /\ m \in Means(t, "or", i, j) <=>
              \/ m \in Means(t, "and", i, j)
              \/ \E k \in i + 1 .. j - 1 : \E a \in Means(t, "and", i, k - 1), b \in Means(t, "or", k + 1, j) :
                   t[k] = "||" /\ m = a \union b
         /\ m \in Means(t, "and", i, j) <=>
              \/ m \in Means(t, "not", i, j)
              \/ \E k \in i + 1 .. j - 1 : \E a \in Means(t, "not", i, k - 1), b \in Means(t, "and", k + 1, j) :
                   t[k] = "&&" /\ m = a \intersect b
         /\ m \in Means(t, "not", i, j) <=>
              \/ m \in Means(t, "primary", i, j)
              \/ i < j /\ t[i] = "!" /\ \E a \in Means(t, "primary", i + 1, j) : m = Worlds(t) \ a
         /\ m \in Means(t, "primary", i, j) <=>
              \/ \E c \in Atoms(t, i, j) : m = {w \in Worlds(t) : w[c]}
              \/ i = j /\ t[i] \in Bools /\ m = IF t[i] = "true" THEN Worlds(t) ELSE {}
              \/ i + 1 < j /\ t[i] = "(" /\ t[j] = ")" /\ m \in Means(t, "or", i + 1, j - 1)
<1>1. \A rule \in Rules : m \in Means(t, rule, i, j) <=> Derives(t, Meanings(t), rule, i, j, m)
  BY MeaningsAre DEF Means
<1>2. "or" \in Rules /\ "and" \in Rules /\ "not" \in Rules /\ "primary" \in Rules
  BY DEF Rules
<1>3. m \in Means(t, "or", i, j) <=>
        \/ m \in Means(t, "and", i, j)
        \/ \E k \in i + 1 .. j - 1 : \E a \in Means(t, "and", i, k - 1), b \in Means(t, "or", k + 1, j) :
             t[k] = "||" /\ m = a \union b
  BY <1>1, <1>2 DEF Derives, Means
<1>4. m \in Means(t, "and", i, j) <=>
        \/ m \in Means(t, "not", i, j)
        \/ \E k \in i + 1 .. j - 1 : \E a \in Means(t, "not", i, k - 1), b \in Means(t, "and", k + 1, j) :
             t[k] = "&&" /\ m = a \intersect b
  BY <1>1, <1>2 DEF Derives, Means
<1>5. m \in Means(t, "not", i, j) <=>
        \/ m \in Means(t, "primary", i, j)
        \/ i < j /\ t[i] = "!" /\ \E a \in Means(t, "primary", i + 1, j) : m = Worlds(t) \ a
  BY <1>1, <1>2 DEF Derives, Means
<1>6. m \in Means(t, "primary", i, j) <=>
        \/ \E c \in Atoms(t, i, j) : m = {w \in Worlds(t) : w[c]}
        \/ i = j /\ t[i] \in Bools /\ m = IF t[i] = "true" THEN Worlds(t) ELSE {}
        \/ i + 1 < j /\ t[i] = "(" /\ t[j] = ")" /\ m \in Means(t, "or", i + 1, j - 1)
  BY <1>1, <1>2 DEF Derives, Means
<1> QED
  BY <1>3, <1>4, <1>5, <1>6

(* -------------------------------- symbols ------------------------------- *)

\* The positions and symbols of a text.
LEMMA TextIs ==
  ASSUME NEW t \in Seq(Symbols)
  PROVE  /\ Len(t) \in Nat /\ DOMAIN t = 1 .. Len(t)
         /\ \A i \in 1 .. Len(t) : t[i] \in Symbols
  BY LenProperties, ElementOfSeq

\* A value that is read is one, and the text spells it.
LEMMA ValueSpells ==
  ASSUME NEW t \in Seq(Symbols), NEW i \in Nat \ {0}, Value(t, i).is = "ok"
  PROVE  LET v == Value(t, i)
         IN  v.tree \in Values /\ v.tree \in Spelled(t, i, v.next - 1)
<1>0. Len(t) \in Nat /\ DOMAIN t = 1 .. Len(t)
  BY TextIs
<1>1. CASE At(t, i) \in Bools
  <2> DEFINE x == [type |-> "bool", of |-> t[i] = "true"]
  <2>1. Value(t, i) = Ok(x, i + 1)
    BY <1>1, TextAssumption DEF Value
  <2>2. i <= Len(t) /\ t[i] \in Bools /\ i + 1 - 1 = i
    BY <1>0, <1>1 DEF At, Bools, End
  <2>3. x \in Values
    BY DEF Values
  <2>4. x \in Spelled(t, i, i)
    BY <2>2 DEF Spelled
  <2> HIDE DEF x
  <2> QED
    BY <2>1, <2>2, <2>3, <2>4, OkIs
<1>2. CASE At(t, i) \in DOMAIN Longs /\ At(t, i) \notin Bools
  <2> DEFINE x == [type |-> "long", of |-> Longs[t[i]]]
  <2>1. Value(t, i) = Ok(x, i + 1)
    BY <1>2 DEF Value
  <2>2. i <= Len(t) /\ t[i] \in DOMAIN Longs /\ i + 1 - 1 = i
    BY <1>0, <1>2, TextAssumption DEF At
  <2>3. x \in Values
    BY <2>2 DEF Values
  <2>4. x \in Spelled(t, i, i)
    BY <2>2 DEF Spelled
  <2> HIDE DEF x
  <2> QED
    BY <2>1, <2>2, <2>3, <2>4, OkIs
<1>3. CASE At(t, i) \notin DOMAIN Longs /\ At(t, i) \notin Bools
  <2>1. Value(t, i) = Quoted(t, i)
    BY <1>3 DEF Value
  <2>2. Quoted(t, i) # No
    BY <2>1, OkIs
  <2>3. PICK j \in i + 2 .. Len(t) :
          /\ t[j] = t[i] /\ \A k \in i + 1 .. j - 1 : t[k] # t[i]
          /\ Quoted(t, i) = Ok([type |-> "string", of |-> SubSeq(t, i + 1, j - 1)], j + 1)
    BY <1>0, <2>2, QuotedIs
  <2>4. i <= Len(t) /\ t[i] \in {Single, Double}
    BY <1>0, <2>2, QuotedIs
  <2> DEFINE s == SubSeq(t, i + 1, j - 1)
             x == [type |-> "string", of |-> s]
  <2>5. x \in Values
    <3>1. s \in Seq(Symbols)
      BY <1>0, SubSeqProperties
    <3> HIDE DEF s
    <3> QED
      BY <3>1 DEF Values
  <2>6. x \in Spelled(t, i, j) /\ j + 1 - 1 = j
    BY <2>3, <2>4 DEF Spelled
  <2>7. Value(t, i) = Ok(x, j + 1)
    BY <2>1, <2>3
  <2> HIDE DEF x
  <2> QED
    BY <2>5, <2>6, <2>7, OkIs
<1> QED
  BY <1>1, <1>2, <1>3

\* A value that the text spells is read.
LEMMA SpelledIsRead ==
  ASSUME NEW t \in Seq(Symbols), NEW i \in 1 .. Len(t), NEW j \in 1 .. Len(t),
         NEW v \in Spelled(t, i, j)
  PROVE  Value(t, i) = Ok(v, j + 1)
<1>0. Len(t) \in Nat /\ At(t, i) = t[i]
  BY TextIs DEF At
<1>1. CASE i = j /\ t[i] \in Bools /\ v = [type |-> "bool", of |-> t[i] = "true"]
  <2> DEFINE b == [type |-> "bool", of |-> t[i] = "true"]
  <2>1. Value(t, i) = Ok(b, i + 1)
    BY <1>0, <1>1, TextAssumption DEF Value
  <2> HIDE DEF b
  <2>2. v = b
    BY <1>1 DEF b
  <2> QED
    BY <1>1, <2>1, <2>2
<1>2. CASE i = j /\ t[i] \in DOMAIN Longs /\ v = [type |-> "long", of |-> Longs[t[i]]]
  <2>1. t[i] \notin Bools
    BY <1>2, TextAssumption
  <2> QED
    BY <1>0, <1>2, <2>1 DEF Value
<1>3. CASE /\ i + 1 < j /\ t[i] = t[j] /\ t[i] \in {Single, Double}
           /\ \A k \in i + 1 .. j - 1 : t[k] # t[i]
           /\ v = [type |-> "string", of |-> SubSeq(t, i + 1, j - 1)]
  <2> DEFINE ends == {m \in i + 2 .. Len(t) : t[m] = t[i] /\ \A k \in i + 1 .. m - 1 : t[k] # t[i]}
             first == CHOOSE e \in ends : TRUE
  <2>1. t[i] \notin Bools /\ t[i] \notin DOMAIN Longs
    BY <1>3, TextAssumption DEF Bools, Single, Double
  <2>2. j \in ends
    BY <1>0, <1>3
  <2>3. ASSUME NEW m \in ends PROVE m = j
    <3>1. ~(m < j)
      BY <1>3
    <3>2. ~(j < m)
      BY <1>3
    <3> QED
      BY <3>1, <3>2
  <2>4. first = j
    BY <2>2, <2>3
  <2>5. Quoted(t, i) = Ok([type |-> "string", of |-> SubSeq(t, i + 1, first - 1)], first + 1)
    BY <1>0, <1>3, <2>2 DEF Quoted
  <2> HIDE DEF first, ends
  <2>6. Value(t, i) = Quoted(t, i)
    BY <1>0, <2>1 DEF Value
  <2> QED
    BY <1>3, <2>4, <2>5, <2>6
<1>4. \/ i = j /\ t[i] \in Bools /\ v = [type |-> "bool", of |-> t[i] = "true"]
      \/ i = j /\ t[i] \in DOMAIN Longs /\ v = [type |-> "long", of |-> Longs[t[i]]]
      \/ /\ i + 1 < j /\ t[i] = t[j] /\ t[i] \in {Single, Double}
         /\ \A k \in i + 1 .. j - 1 : t[k] # t[i]
         /\ v = [type |-> "string", of |-> SubSeq(t, i + 1, j - 1)]
  BY DEF Spelled
<1> QED
  BY <1>1, <1>2, <1>3, <1>4

\* A comparison that is read in parentheses is one, and the text has it there.
LEMMA ComparisonIsAtom ==
  ASSUME NEW t \in Seq(Symbols), NEW i \in 1 .. Len(t), t[i] = "(",
         Closed(t, Comparison(t, i + 1)).is = "ok"
  PROVE  LET c == Closed(t, Comparison(t, i + 1))
         IN  c.tree \in Leaves /\ c.tree.kind = "compare" /\ c.tree \in Atoms(t, i, c.next - 1)
<1> DEFINE c == Comparison(t, i + 1)
           v == Value(t, i + 1 + 2)
           x == [kind |-> "compare", id |-> t[i + 1], op |-> Operator(t[i + 1 + 1]), value |-> v.tree]
<1>0. Len(t) \in Nat /\ i + 1 \in Nat \ {0} /\ i + 3 \in Nat \ {0} /\ i + 1 + 2 = i + 3 /\ i + 1 + 1 = i + 2
  BY TextIs
<1>1. c.is = "ok" /\ At(t, c.next) = ")" /\ Closed(t, c) = Ok(c.tree, c.next + 1)
  <2> HIDE DEF c
  <2>1. c.is = "ok"
    BY DEF Closed, c
  <2>2. At(t, c.next) = ")"
    BY <2>1, OkIs DEF Closed, c
  <2> QED
    BY <2>1, <2>2 DEF Closed
<1>2. At(t, i + 1) \in Identifiers /\ Operation(t, i + 1).is = "ok" /\ c = Operation(t, i + 1)
  BY <1>1, OkIs DEF Comparison, Expect
<1>3. At(t, i + 1 + 1) \in Operators /\ v.is = "ok" /\ Operation(t, i + 1) = Ok([x EXCEPT !.id = t[i + 1]], v.next)
  <2>1. At(t, i + 1 + 1) \in Operators /\ v.is = "ok"
    BY <1>2, OkIs DEF Operation
  <2> QED
    BY <2>1 DEF Operation
<1>4. v.tree \in Values /\ v.tree \in Spelled(t, i + 3, v.next - 1) /\ v.next \in i + 4 .. Len(t) + 1
  <2>1. v = Value(t, i + 3)
    BY <1>0
  <2> HIDE DEF v, c
  <2>2. v.is = "ok" /\ Value(t, i + 3).is = "ok"
    BY <1>3, <2>1
  <2>3. v.next \in i + 3 + 1 .. Len(t) + 1
    BY <1>0, <2>1, <2>2, ValueMoves
  <2>4. v.tree \in Values /\ v.tree \in Spelled(t, i + 3, v.next - 1)
    BY <1>0, <2>1, <2>2, ValueSpells
  <2> QED
    BY <1>0, <2>3, <2>4
<1> HIDE DEF v
<1>5. t[i + 1] \in Identifiers /\ t[i + 2] \in Operators /\ t[v.next] = ")" /\ v.next <= Len(t)
  <2>1. c.next = v.next
    BY <1>2, <1>3, OkIs
  <2>2. At(t, i + 1) = t[i + 1] /\ At(t, i + 2) = t[i + 2]
    BY <1>0, <1>4 DEF At
  <2>3. v.next <= Len(t)
    <3>1. At(t, v.next) = ")"
      BY <1>1, <2>1
    <3> QED
      BY <1>0, <1>4, <3>1 DEF At, End
  <2> QED
    BY <1>0, <1>1, <1>2, <1>3, <2>1, <2>2, <2>3 DEF At
<1>6. c.tree = x /\ c.next = v.next /\ Closed(t, c) = Ok(x, v.next + 1)
  <2>1. [x EXCEPT !.id = t[i + 1]] = x
    OBVIOUS
  <2> HIDE DEF x
  <2> QED
    BY <1>1, <1>2, <1>3, <2>1, OkIs
<1>7. x \in Leaves /\ x.kind = "compare"
  BY <1>4, <1>5 DEF Leaves, Operator
<1>8. x \in Atoms(t, i, v.next)
  <2>1. i + 4 <= v.next
    BY <1>0, <1>4
  <2> QED
    BY <1>0, <1>4, <1>5, <2>1 DEF Atoms
<1> HIDE DEF x
<1>9. Closed(t, c).tree = x /\ Closed(t, c).next - 1 = v.next
  <2>1. Closed(t, c).tree = x /\ Closed(t, c).next = v.next + 1
    BY <1>6, OkIs
  <2> QED
    BY <1>0, <1>4, <2>1
<1> HIDE DEF c
<1>10. Closed(t, c).tree \in Atoms(t, i, Closed(t, c).next - 1)
  BY <1>8, <1>9
<1> QED
  BY <1>7, <1>9, <1>10 DEF c

\* A comparison that the text has is read there.
LEMMA AtomIsRead ==
  ASSUME NEW t \in Seq(Symbols), NEW i \in 1 .. Len(t), NEW j \in 1 .. Len(t),
         NEW c \in Atoms(t, i, j)
  PROVE  t[i] = "(" /\ Closed(t, Comparison(t, i + 1)) = Ok(c, j + 1)
<1>0. Len(t) \in Nat
  BY TextIs
<1>1. /\ i + 4 <= j /\ t[i] = "(" /\ t[i + 1] \in Identifiers /\ t[i + 2] \in Operators /\ t[j] = ")"
      /\ \E v \in Spelled(t, i + 3, j - 1) :
           c = [kind |-> "compare", id |-> t[i + 1], op |-> Operator(t[i + 2]), value |-> v]
  BY DEF Atoms
<1>2. PICK v \in Spelled(t, i + 3, j - 1) :
        c = [kind |-> "compare", id |-> t[i + 1], op |-> Operator(t[i + 2]), value |-> v]
  BY <1>1
<1>3. Value(t, i + 3) = Ok(v, j)
  <2>1. i + 3 \in 1 .. Len(t) /\ j - 1 \in 1 .. Len(t) /\ j - 1 + 1 = j
    BY <1>0, <1>1
  <2> QED
    BY <2>1, SpelledIsRead
<1>4. /\ At(t, i + 1) = t[i + 1] /\ At(t, i + 2) = t[i + 2] /\ At(t, j) = t[j]
      /\ i + 1 + 1 = i + 2 /\ i + 1 + 2 = i + 3
  BY <1>0, <1>1 DEF At
<1>5. Operation(t, i + 1) = Ok(c, j)
  BY <1>1, <1>2, <1>3, <1>4, OkIs DEF Operation
<1>6. Comparison(t, i + 1) = Ok(c, j)
  BY <1>1, <1>4, <1>5, OkIs DEF Comparison, Expect
<1> QED
  BY <1>1, <1>4, <1>6, OkIs DEF Closed

(* ------------------------------ expressions ----------------------------- *)

\* Every level is part of the higher ones.
LEMMA LevelsGrow ==
  ASSUME NEW a \in 0 .. MaxDepth, NEW b \in 0 .. MaxDepth, a <= b
  PROVE  trees[a] \subseteq trees[b]
<1>1. ASSUME NEW R, NEW S, R \subseteq S PROVE Over(R) \subseteq Over(S)
  BY <1>1, SeqMonotonic DEF Over
<1> DEFINE T == {n \in Nat : n < MaxDepth => trees[n] \subseteq trees[n + 1]}
<1>2. 0 \in T
  BY TreesAre DEF Over
<1>3. ASSUME NEW n \in Nat, n \in T PROVE n + 1 \in T
  <2> SUFFICES ASSUME n + 1 < MaxDepth PROVE trees[n + 1] \subseteq trees[n + 1 + 1]
    OBVIOUS
  <2>1. trees[n] \subseteq trees[n + 1]
    BY <1>3, DepthAssumption
  <2>2. trees[n + 1] = Over(trees[n]) /\ trees[n + 1 + 1] = Over(trees[n + 1])
    BY TreesAre, DepthAssumption
  <2> QED
    BY <1>1, <2>1, <2>2
<1>4. \A n \in Nat : n < MaxDepth => trees[n] \subseteq trees[n + 1]
  <2> HIDE DEF T
  <2>1. \A n \in Nat : n \in T
    BY <1>2, <1>3, Induction
  <2> QED
    BY <2>1 DEF T
<1> DEFINE U == {n \in Nat : a + n <= MaxDepth => trees[a] \subseteq trees[a + n]}
<1>5. 0 \in U
  OBVIOUS
<1>6. ASSUME NEW n \in Nat, n \in U PROVE n + 1 \in U
  <2> SUFFICES ASSUME a + (n + 1) <= MaxDepth PROVE trees[a] \subseteq trees[a + (n + 1)]
    OBVIOUS
  <2> DEFINE m == a + n
  <2>1. m \in Nat /\ m < MaxDepth /\ a + (n + 1) = m + 1
    BY DepthAssumption
  <2>2. trees[a] \subseteq trees[m]
    BY <1>6, <2>1, DepthAssumption
  <2> HIDE DEF m
  <2> QED
    BY <1>4, <2>1, <2>2
<1>7. \A n \in Nat : n \in U
  <2> HIDE DEF U
  <2> QED
    BY <1>5, <1>6, Induction
<1>8. b - a \in Nat /\ a + (b - a) = b
  BY DepthAssumption
<1> QED
  BY <1>7, <1>8, DepthAssumption

\* A row of one operand compares what the operand does and holds where it does.
LEMMA LoneHolds ==
  ASSUME NEW x \in Trees, NEW y \in Trees, y.kind \in {"or", "and"}, y.args = <<x>>
  PROVE  /\ Comparisons(y) = Comparisons(x)
         /\ \A w : Holds(y, w) <=> Holds(x, w)
<1>1. y \in Trees /\ y.kind \in {"or", "and"} /\ DOMAIN y.args = {1} /\ y.args[1] = x
  OBVIOUS
<1>2. Comparisons(y) = Comparisons(x)
  <2>1. Comparisons(y) = UNION {Comparisons(y.args[i]) : i \in DOMAIN y.args}
    BY <1>1, ComparisonsAre
  <2>2. {Comparisons(y.args[i]) : i \in DOMAIN y.args} = {Comparisons(x)}
    BY <1>1
  <2> QED
    BY <2>1, <2>2
<1>3. \A w : Holds(y, w) <=> Holds(x, w)
  BY <1>1, HoldsIs
<1> QED
  BY <1>2, <1>3

\* So it means the same.
LEMMA LoneMeans ==
  ASSUME NEW kind \in {"or", "and"}, NEW x \in Trees, NEW t,
         [kind |-> kind, args |-> <<x>>] \in Trees
  PROVE  /\ Comparisons([kind |-> kind, args |-> <<x>>]) = Comparisons(x)
         /\ Meaning([kind |-> kind, args |-> <<x>>], t) = Meaning(x, t)
<1> DEFINE y == [kind |-> kind, args |-> <<x>>]
<1>1. y \in Trees /\ y.kind \in {"or", "and"} /\ y.args = <<x>>
  OBVIOUS
<1> HIDE DEF y
<1>2. Comparisons(y) = Comparisons(x) /\ \A w : Holds(y, w) <=> Holds(x, w)
  BY <1>1, LoneHolds
<1> QED
  BY <1>2 DEF Meaning, y

\* A row compares what its first operand and the rest do, and holds where either does
\* or where both do.
LEMMA LongerHolds ==
  ASSUME NEW x \in Trees, NEW y \in Trees, NEW z \in Trees,
         z.kind \in {"or", "and"}, y.kind = z.kind, y.args = <<x>> \o z.args
  PROVE  /\ Comparisons(y) = Comparisons(x) \union Comparisons(z)
         /\ z.kind = "or" => \A w : Holds(y, w) <=> (Holds(x, w) \/ Holds(z, w))
         /\ z.kind = "and" => \A w : Holds(y, w) <=> (Holds(x, w) /\ Holds(z, w))
<1> DEFINE n == Len(z.args)
<1>0. z.args \in Seq(Trees) /\ n \in Nat /\ DOMAIN z.args = 1 .. n
  BY Parts
<1>1. y \in Trees /\ y.kind = z.kind /\ y.args = <<x>> \o z.args
  OBVIOUS
<1>2. DOMAIN y.args = 1 .. n + 1 /\ y.args[1] = x /\ \A i \in 1 .. n : y.args[i + 1] = z.args[i]
  <2>1. <<x>> \in Seq(Trees) /\ Len(<<x>>) = 1 /\ <<x>>[1] = x
    OBVIOUS
  <2>2. Len(y.args) = n + 1 /\ y.args \in Seq(Trees) /\ DOMAIN y.args = 1 .. Len(y.args)
    BY <1>0, <1>1, <2>1, ConcatProperties, LenProperties
  <2>3. y.args[1] = x
    BY <1>0, <1>1, <2>1, ConcatProperties
  <2>4. ASSUME NEW i \in 1 .. n PROVE y.args[i + 1] = z.args[i]
    <3>1. i + 1 \in 1 .. Len(<<x>>) + Len(z.args) /\ i + 1 > Len(<<x>>) /\ i + 1 - Len(<<x>>) = i
      BY <1>0, <2>1
    <3> QED
      BY <1>0, <1>1, <2>1, <3>1, ConcatProperties
  <2> QED
    BY <2>2, <2>3, <2>4
<1> HIDE DEF n
<1>3. /\ \E k \in DOMAIN y.args : y.args[k] = x
      /\ \A i \in DOMAIN z.args : \E k \in DOMAIN y.args : y.args[k] = z.args[i]
  <2>1. ASSUME NEW i \in 1 .. n PROVE \E k \in 1 .. n + 1 : y.args[k] = z.args[i]
    <3>1. i + 1 \in 1 .. n + 1
      BY <1>0
    <3> QED
      BY <1>2, <3>1
  <2>2. 1 \in 1 .. n + 1
    BY <1>0
  <2> QED
    BY <1>0, <1>2, <2>1, <2>2
<1>4. \A k \in DOMAIN y.args : y.args[k] = x \/ \E i \in DOMAIN z.args : y.args[k] = z.args[i]
  <2> SUFFICES ASSUME NEW k \in 1 .. n + 1, k # 1 PROVE \E i \in 1 .. n : y.args[k] = z.args[i]
    BY <1>0, <1>2
  <2>1. k - 1 \in 1 .. n /\ (k - 1) + 1 = k
    BY <1>0
  <2> QED
    BY <1>2, <2>1
<1>5. Comparisons(y) = Comparisons(x) \union Comparisons(z)
  <2>1. Comparisons(y) = UNION {Comparisons(y.args[i]) : i \in DOMAIN y.args}
    BY <1>1, ComparisonsAre
  <2>2. Comparisons(z) = UNION {Comparisons(z.args[i]) : i \in DOMAIN z.args}
    BY ComparisonsAre
  <2>3. ASSUME NEW c PROVE c \in Comparisons(y) <=> c \in Comparisons(x) \union Comparisons(z)
    <3>1. c \in Comparisons(y) <=> \E i \in DOMAIN y.args : c \in Comparisons(y.args[i])
      BY <2>1
    <3>2. c \in Comparisons(z) <=> \E i \in DOMAIN z.args : c \in Comparisons(z.args[i])
      BY <2>2
    <3> QED
      BY <1>3, <1>4, <3>1, <3>2
  <2> QED
    BY <2>3
<1>6. ASSUME z.kind = "or", NEW w PROVE Holds(y, w) <=> (Holds(x, w) \/ Holds(z, w))
  <2>1. Holds(y, w) <=> \E i \in DOMAIN y.args : Holds(y.args[i], w)
    BY <1>1, <1>6, HoldsIs
  <2>2. Holds(z, w) <=> \E i \in DOMAIN z.args : Holds(z.args[i], w)
    BY <1>6, HoldsIs
  <2> QED
    BY <1>3, <1>4, <2>1, <2>2
<1>7. ASSUME z.kind = "and", NEW w PROVE Holds(y, w) <=> (Holds(x, w) /\ Holds(z, w))
  <2>1. Holds(y, w) <=> \A i \in DOMAIN y.args : Holds(y.args[i], w)
    BY <1>1, <1>7, HoldsIs
  <2>2. Holds(z, w) <=> \A i \in DOMAIN z.args : Holds(z.args[i], w)
    BY <1>7, HoldsIs
  <2> QED
    BY <1>3, <1>4, <2>1, <2>2
<1> QED
  BY <1>5, <1>6, <1>7

\* So it means their union or what they have in common.
LEMMA LongerMeans ==
  ASSUME NEW x \in Trees, NEW y \in Trees, NEW z \in Trees, NEW t,
         z.kind \in {"or", "and"}, y.kind = z.kind, y.args = <<x>> \o z.args
  PROVE  /\ Comparisons(y) = Comparisons(x) \union Comparisons(z)
         /\ z.kind = "or" => Meaning(y, t) = Meaning(x, t) \union Meaning(z, t)
         /\ z.kind = "and" => Meaning(y, t) = Meaning(x, t) \intersect Meaning(z, t)
<1>1. /\ Comparisons(y) = Comparisons(x) \union Comparisons(z)
      /\ z.kind = "or" => \A w : Holds(y, w) <=> (Holds(x, w) \/ Holds(z, w))
      /\ z.kind = "and" => \A w : Holds(y, w) <=> (Holds(x, w) /\ Holds(z, w))
  BY LongerHolds
<1> QED
  BY <1>1 DEF Meaning

(* ---------------------------- rule by rule ------------------------------ *)

\* What a rule makes of the text from position i on, by the rules.
Result(t, rule, i) == Parse(t)[rule, i]

\* Each rule's result is what its operator makes of the others' results.
LEMMA ParseRules ==
  ASSUME NEW t, Len(t) \in Nat, NEW i \in 1 .. Len(t) + 1
  PROVE  /\ Result(t, "primary", i) = Primary(t, i, Parse(t))
         /\ Result(t, "not", i) = Unary(t, i, Parse(t))
         /\ \A kind \in {"or", "and"} : Result(t, kind, i) = Level(t, kind, i, Parse(t))
         /\ \A rule \in Rules : Moves(t, i, Result(t, rule, i))
<1>1. \A rule \in Rules : <<rule, i>> \in Places(t)
  BY DEF Places
<1>2. \A rule \in Rules : Result(t, rule, i) = Reading(t, Parse(t), <<rule, i>>) /\ Moves(t, i, Result(t, rule, i))
  BY <1>1, ParseIs DEF Result
<1>3. /\ Reading(t, Parse(t), <<"primary", i>>) = Primary(t, i, Parse(t))
      /\ Reading(t, Parse(t), <<"not", i>>) = Unary(t, i, Parse(t))
      /\ \A kind \in {"or", "and"} : Reading(t, Parse(t), <<kind, i>>) = Level(t, kind, i, Parse(t))
  BY DEF Reading
<1> QED
  BY <1>2, <1>3 DEF Rules

\* The three outcomes of looking for a closing parenthesis.
LEMMA ClosedIs ==
  ASSUME NEW t, NEW r
  PROVE  /\ r.is = "ok" /\ At(t, r.next) = ")" => Closed(t, r) = Ok(r.tree, r.next + 1)
         /\ r.is = "ok" /\ At(t, r.next) # ")" => Closed(t, r) = No
         /\ r.is # "ok" => Closed(t, r) = r
  BY DEF Closed

\* What bool_, a parenthesis and any other symbol are to the rule of primaries.
LEMMA PrimaryIs ==
  ASSUME NEW t, Len(t) \in Nat, NEW i \in 1 .. Len(t) + 1
  PROVE  LET c == Closed(t, Comparison(t, i + 1))
             p == Result(t, "primary", i)
         IN  /\ At(t, i) \in Bools =>
                  i <= Len(t) /\ t[i] = At(t, i) /\ p = Ok([kind |-> "bool", value |-> t[i] = "true"], i + 1)
             /\ At(t, i) = "(" =>
                  /\ i <= Len(t) /\ t[i] = "("
                  /\ c.is # "no" => p = c
                  /\ c.is = "no" => p = Closed(t, Result(t, "or", i + 1))
             /\ At(t, i) \notin Bools /\ At(t, i) # "(" => p = No
<1> DEFINE c == Closed(t, Comparison(t, i + 1))
           p == Result(t, "primary", i)
<1>1. p = Primary(t, i, Parse(t))
  BY ParseRules
<1>2. ASSUME At(t, i) \in Bools \union {"("} PROVE i <= Len(t) /\ t[i] = At(t, i)
  BY <1>2 DEF At, Bools, End
<1>3. ASSUME At(t, i) \in Bools
      PROVE  p = Ok([kind |-> "bool", value |-> t[i] = "true"], i + 1)
  <2> DEFINE x == [kind |-> "bool", value |-> t[i] = "true"]
  <2>1. Primary(t, i, Parse(t)) = Ok(x, i + 1)
    BY <1>3 DEF Primary, Bools
  <2> QED
    BY <1>1, <2>1
<1>4. ASSUME At(t, i) = "("
      PROVE  /\ c.is # "no" => p = c
             /\ c.is = "no" => p = Closed(t, Result(t, "or", i + 1))
  BY <1>1, <1>4 DEF Primary, Bools, Result
<1>5. ASSUME At(t, i) \notin Bools, At(t, i) # "(" PROVE p = No
  BY <1>1, <1>5 DEF Primary
<1> HIDE DEF c, p
<1> QED
  BY <1>2, <1>3, <1>4, <1>5 DEF c, p

\* What a negation sign and any other symbol are to the rule of negations.
LEMMA UnaryIs ==
  ASSUME NEW t, Len(t) \in Nat, NEW i \in 1 .. Len(t) + 1
  PROVE  LET r == Result(t, "primary", i + 1)
             n == Result(t, "not", i)
         IN  /\ At(t, i) # "!" => n = Result(t, "primary", i)
             /\ At(t, i) = "!" =>
                  /\ i <= Len(t) /\ t[i] = "!"
                  /\ r.is = "ok" => n = Ok([kind |-> "not", arg |-> r.tree], r.next)
                  /\ r.is # "ok" => n.is = "throws"
<1> DEFINE r == Result(t, "primary", i + 1)
           n == Result(t, "not", i)
<1>1. n = Unary(t, i, Parse(t))
  BY ParseRules
<1>2. At(t, i) # "!" => n = Result(t, "primary", i)
  BY <1>1 DEF Unary, Result
<1>3. ASSUME At(t, i) = "!"
      PROVE  /\ i <= Len(t) /\ t[i] = "!"
             /\ r.is = "ok" => n = Ok([kind |-> "not", arg |-> r.tree], r.next)
             /\ r.is # "ok" => n.is = "throws"
  <2>1. i <= Len(t) /\ t[i] = "!"
    BY <1>3 DEF At, End
  <2>2. n = Negated(Expect(r))
    BY <1>1, <1>3 DEF Unary, Result
  <2>3. Moves(t, i + 1, r)
    <3>1. i + 1 \in 1 .. Len(t) + 1 /\ "primary" \in Rules
      BY <2>1 DEF Rules
    <3> QED
      BY <3>1, ParseRules
  <2> HIDE DEF r, n
  <2> QED
    BY <2>1, <2>2, <2>3, OkIs DEF Negated, Expect, Moves
<1> QED
  BY <1>2, <1>3

\* Without a sign in front, an operand of a conjunction is a primary.
LEMMA NoNegation ==
  ASSUME NEW t, Len(t) \in Nat, NEW i \in 1 .. Len(t) + 1, At(t, i) # "!"
  PROVE  Result(t, "not", i) = Result(t, "primary", i)
<1>1. Result(t, "not", i) = Unary(t, i, Parse(t))
  BY ParseRules
<1> QED
  BY <1>1 DEF Unary, Result

\* A negation that nothing follows throws.
LEMMA NothingNegated ==
  ASSUME NEW t, Len(t) \in Nat, NEW i \in 1 .. Len(t) + 1, At(t, i) = "!",
         Result(t, "primary", i + 1).is # "ok"
  PROVE  Result(t, "not", i).is = "throws"
<1> DEFINE r == Result(t, "primary", i + 1)
<1>1. Result(t, "not", i) = Negated(Expect(r))
  <2>1. Result(t, "not", i) = Unary(t, i, Parse(t))
    BY ParseRules
  <2> QED
    BY <2>1 DEF Unary, Result
<1>2. i + 1 \in 1 .. Len(t) + 1 /\ "primary" \in Rules
  BY DEF At, End, Rules
<1>3. Moves(t, i + 1, r)
  BY <1>2, ParseRules
<1> HIDE DEF r
<1> QED
  BY <1>1, <1>3, OkIs DEF r, Negated, Expect, Moves

\* How a repetition ends, goes on and fails.
LEMMA LevelIs ==
  ASSUME NEW t, Len(t) \in Nat, NEW i \in 1 .. Len(t) + 1, NEW kind \in {"or", "and"}
  PROVE  LET r == Result(t, Operand(kind), i)
             s == Result(t, kind, r.next + 1)
             l == Result(t, kind, i)
         IN  /\ r.is # "ok" => l = r
             /\ r.is = "ok" /\ At(t, r.next) # Sign(kind) =>
                  l = Ok([kind |-> kind, args |-> <<r.tree>>], r.next)
             /\ r.is = "ok" /\ At(t, r.next) = Sign(kind) =>
                  /\ r.next \in i + 1 .. Len(t) /\ t[r.next] = Sign(kind)
                  /\ s.is = "ok" => l = Ok([kind |-> kind, args |-> <<r.tree>> \o s.tree.args], s.next)
                  /\ s.is # "ok" => l.is = "throws"
<1> DEFINE r == Result(t, Operand(kind), i)
           s == Result(t, kind, r.next + 1)
           l == Result(t, kind, i)
           Then(rest) ==
             CASE r.is # "ok" -> r
               [] r.is = "ok" /\ At(t, r.next) # Sign(kind) ->
                    Ok([kind |-> kind, args |-> <<r.tree>>], r.next)
               [] r.is = "ok" /\ At(t, r.next) = Sign(kind) ->
                    IF rest.is = "ok"
                      THEN Ok([kind |-> kind, args |-> <<r.tree>> \o rest.tree.args], rest.next)
                      ELSE rest
<1>1. l = Then(Expect(s))
  <2>1. l = Level(t, kind, i, Parse(t))
    BY ParseRules
  <2>2. Level(t, kind, i, Parse(t)) = Then(Expect(s))
    BY DEF Level, Result
  <2> QED
    BY <2>1, <2>2
<1>2. Moves(t, i, r)
  <2>1. Operand(kind) \in Rules
    BY DEF Operand, Rules
  <2> QED
    BY <2>1, ParseRules
<1>3. kind \in Rules
  BY DEF Rules
<1> HIDE DEF r
<1>4. CASE r.is # "ok"
  BY <1>1, <1>4 DEF r
<1>5. CASE r.is = "ok" /\ At(t, r.next) # Sign(kind)
  BY <1>1, <1>5 DEF r
<1>6. CASE r.is = "ok" /\ At(t, r.next) = Sign(kind)
  <2> DEFINE n == r.next
  <2>1. n \in i + 1 .. Len(t) /\ t[n] = Sign(kind)
    <3>1. n \in i + 1 .. Len(t) + 1 /\ At(t, n) = Sign(kind) /\ Sign(kind) # End
      BY <1>2, <1>6 DEF Moves, Sign, End
    <3> HIDE DEF n
    <3> QED
      BY <3>1 DEF At
  <2>2. Moves(t, n + 1, s)
    <3>1. n + 1 \in 1 .. Len(t) + 1
      BY <2>1
    <3> QED
      BY <1>3, <3>1, ParseRules
  <2> HIDE DEF s, l
  <2>3. l = IF Expect(s).is = "ok"
              THEN Ok([kind |-> kind, args |-> <<r.tree>> \o Expect(s).tree.args], Expect(s).next)
              ELSE Expect(s)
    BY <1>1, <1>6
  <2>4. s.is = "ok" => l = Ok([kind |-> kind, args |-> <<r.tree>> \o s.tree.args], s.next)
    BY <2>3 DEF Expect
  <2>5. s.is # "ok" => l.is = "throws"
    BY <2>2, <2>3, OkIs DEF Expect, Moves
  <2> QED
    BY <1>6, <2>1, <2>4, <2>5 DEF r, s, l
<1> QED
  BY <1>4, <1>5, <1>6

(* ------------------------------ shapes ---------------------------------- *)

\* The expressions that n symbols can spell.
Conjunctions(n) == [kind : {"and"}, args : Seq(trees[2 * n - 2]) \ {<<>>}]

Disjunctions(n) == [kind : {"or"}, args : Seq(Conjunctions(n)) \ {<<>>}]

Shapes(rule, n) ==
  IF rule = "or" THEN Disjunctions(n) ELSE IF rule = "and" THEN Conjunctions(n) ELSE trees[2 * n - 2]

\* A row's shape is a row of its operands' shapes.
LEMMA ShapesOfLevel ==
  ASSUME NEW kind \in {"or", "and"}, NEW n
  PROVE  Shapes(kind, n) = [kind : {kind}, args : Seq(Shapes(Operand(kind), n)) \ {<<>>}]
<1>1. CASE kind = "or"
  BY <1>1 DEF Shapes, Operand, Disjunctions
<1>2. CASE kind = "and"
  BY <1>2 DEF Shapes, Operand, Conjunctions
<1> QED
  BY <1>1, <1>2

\* More symbols can spell what fewer can.
LEMMA ShapesGrow ==
  ASSUME NEW n \in Nat \ {0}, NEW m \in Nat \ {0}, n <= m, 2 * m <= MaxDepth, NEW rule \in Rules
  PROVE  Shapes(rule, n) \subseteq Shapes(rule, m)
<1>1. trees[2 * n - 2] \subseteq trees[2 * m - 2]
  BY LevelsGrow, DepthAssumption
<1>2. Conjunctions(n) \subseteq Conjunctions(m)
  <2> DEFINE A == trees[2 * n - 2]
             B == trees[2 * m - 2]
  <2> HIDE DEF A, B
  <2>1. Seq(A) \subseteq Seq(B)
    BY <1>1, SeqMonotonic DEF A, B
  <2> QED
    BY <2>1 DEF Conjunctions, A, B
<1>3. Disjunctions(n) \subseteq Disjunctions(m)
  <2>1. Seq(Conjunctions(n)) \subseteq Seq(Conjunctions(m))
    BY <1>2, SeqMonotonic
  <2> QED
    BY <2>1 DEF Disjunctions
<1> QED
  BY <1>1, <1>2, <1>3 DEF Shapes

\* What n symbols can spell is a tree less deep than twice n.
LEMMA ShapesAreTrees ==
  ASSUME NEW n \in Nat \ {0}, 2 * n <= MaxDepth, NEW rule \in Rules
  PROVE  Shapes(rule, n) \subseteq trees[2 * n] /\ Shapes(rule, n) \subseteq Trees
<1> DEFINE a == 2 * n - 2
<1>1. a \in Nat /\ a < MaxDepth /\ a + 1 < MaxDepth /\ a + 1 + 1 = 2 * n
  BY DepthAssumption
<1>2. trees[a + 1] = Over(trees[a]) /\ trees[a + 1 + 1] = Over(trees[a + 1])
  BY <1>1, TreesAre, DepthAssumption
<1>3. /\ a \in 0 .. MaxDepth /\ a + 1 \in 0 .. MaxDepth /\ a + 1 + 1 \in 0 .. MaxDepth
      /\ a <= a + 1 + 1 /\ a + 1 <= a + 1 + 1
  BY <1>1, DepthAssumption
<1>4. trees[a] \subseteq trees[a + 1 + 1] /\ trees[a + 1] \subseteq trees[a + 1 + 1]
  BY <1>3, LevelsGrow
<1>5. Conjunctions(n) \subseteq trees[a + 1]
  BY <1>2 DEF Conjunctions, Over
<1>6. Disjunctions(n) \subseteq trees[a + 1 + 1]
  <2> HIDE DEF a
  <2>1. Seq(Conjunctions(n)) \subseteq Seq(trees[a + 1])
    BY <1>5, SeqMonotonic
  <2> QED
    BY <1>2, <2>1 DEF Disjunctions, Over
<1>7. Shapes(rule, n) \subseteq trees[a + 1 + 1]
  BY <1>4, <1>5, <1>6 DEF Shapes
<1>8. trees[a + 1 + 1] \subseteq Trees
  BY <1>3, TreesGrow
<1> HIDE DEF a
<1> QED
  BY <1>1, <1>7, <1>8

(* ------------------------- what is read is derived ---------------------- *)

\* A match has the shape of its rule, compares what the text compares and means
\* what the rule derives from the symbols it took.
Derived(t, rule, i, r) ==
  r.is = "ok" =>
    /\ r.tree \in Shapes(rule, r.next - i)
    /\ Comparisons(r.tree) \subseteq AllAtoms(t)
    /\ Meaning(r.tree, t) \in Means(t, rule, i, r.next - 1)

\* Before the end stands a symbol of the text.
LEMMA AtInside ==
  ASSUME NEW t, NEW i, At(t, i) # End
  PROVE  i <= Len(t) /\ t[i] = At(t, i)
  BY DEF At

\* That all matches before one are such.
DerivedBefore(t, rule, i) ==
  \A q \in Places(t) : Height(t, q) < Height(t, <<rule, i>>) => Derived(t, q[1], q[2], Result(t, q[1], q[2]))

\* A match is derived if those before it are, one case for each rule and outcome.
LEMMA DerivedStep ==
  ASSUME NEW t \in Seq(Symbols), 2 * Len(t) <= MaxDepth, NEW rule \in Rules, NEW i \in 1 .. Len(t) + 1,
         DerivedBefore(t, rule, i)
  PROVE  Derived(t, rule, i, Result(t, rule, i))
<1> DEFINE l == Result(t, rule, i)
<1>0. Len(t) \in Nat /\ DOMAIN t = 1 .. Len(t)
  BY TextIs
<1>1. ASSUME NEW r \in Rules, NEW j \in 1 .. Len(t) + 1,
             4 * (Len(t) + 1 - j) + Rank(r) < 4 * (Len(t) + 1 - i) + Rank(rule)
      PROVE  Derived(t, r, j, Result(t, r, j))
  <2>1. <<r, j>> \in Places(t) /\ Height(t, <<r, j>>) < Height(t, <<rule, i>>)
    BY <1>1 DEF Places, Height
  <2> QED
    BY <2>1 DEF DerivedBefore
<1>2. Rank("primary") = 0 /\ Rank("not") = 1 /\ Rank("and") = 2 /\ Rank("or") = 3
  BY DEF Rank
<1>3. /\ {"primary", "not", "and", "or"} = Rules
      /\ \A r \in Rules, j \in 1 .. Len(t) + 1 : Moves(t, j, Result(t, r, j))
  BY <1>0, ParseRules DEF Rules
<1>4. \A r, j : r.is # "ok" => Derived(t, rule, j, r)
  BY DEF Derived
<1>5. ASSUME NEW r \in Rules, NEW j \in 1 .. Len(t), NEW k \in j .. Len(t) + 1, j < k
      PROVE  /\ k - j \in Nat \ {0} /\ 2 * (k - j) <= MaxDepth /\ k - 1 \in j .. Len(t) /\ k - 1 \in 1 .. Len(t)
             /\ Shapes(r, k - j) \subseteq Trees
  <2>1. k - j \in Nat \ {0} /\ k - j <= Len(t) /\ k - 1 \in j .. Len(t) /\ k - 1 \in 1 .. Len(t)
    BY <1>0, <1>5
  <2>2. 2 * (k - j) <= MaxDepth
    BY <1>0, <2>1, DepthAssumption
  <2> QED
    BY <2>1, <2>2, ShapesAreTrees
<1> HIDE DEF l
<1> SUFFICES Derived(t, rule, i, l)
  BY DEF l
<1>6. CASE rule = "primary"
  <2>1. CASE At(t, i) \in Bools
    <3> DEFINE b == (t[i] = "true")
               x == [kind |-> "bool", value |-> b]
    <3>1. i <= Len(t) /\ t[i] \in Bools /\ l = Ok(x, i + 1)
      BY <1>0, <1>6, <2>1, PrimaryIs DEF l
    <3>2. x \in Leaves /\ x.kind = "bool" /\ x.value = b /\ b \in BOOLEAN
      BY DEF Leaves
    <3>3. x \in trees[0] /\ x \in Trees
      BY <3>2, TreesAre, LevelsBelow
    <3> HIDE DEF x, b
    <3>4. x \in Shapes("primary", 1)
      BY <3>3 DEF Shapes
    <3>5. Comparisons(x) = {}
      BY <3>2, <3>3, ComparisonsAre
    <3>6. \A w : Holds(x, w) <=> b
      BY <3>2, <3>3, HoldsIs
    <3>7. Meaning(x, t) = IF t[i] = "true" THEN Worlds(t) ELSE {}
      BY <3>6 DEF Meaning, b
    <3>8. Meaning(x, t) \in Means(t, "primary", i, i)
      <4>1. i \in 1 .. Len(t)
        BY <1>0, <3>1
      <4> QED
        BY <1>0, <3>1, <3>7, <4>1, MeansAre
    <3>9. l.tree = x /\ l.next - i = 1 /\ l.next - 1 = i
      <4>1. l.tree = x /\ l.next = i + 1
        BY <3>1, OkIs
      <4> QED
        BY <1>0, <4>1
    <3> QED
      BY <1>6, <3>4, <3>5, <3>8, <3>9 DEF Derived
  <2>2. CASE At(t, i) = "("
    <3> DEFINE c == Closed(t, Comparison(t, i + 1))
               r == Result(t, "or", i + 1)
    <3>1. i \in 1 .. Len(t) /\ t[i] = "(" /\ i + 1 \in 1 .. Len(t) + 1
      <4>1. i <= Len(t) /\ t[i] = "("
        BY <1>0, <2>2, AtInside DEF End
      <4> QED
        BY <1>0, <4>1
    <3>2. CASE c.is = "ok"
      <4> DEFINE n == c.next
                 x == c.tree
      <4>1. l = c
        BY <1>0, <1>6, <2>2, <3>2, PrimaryIs DEF l
      <4>2. x \in Leaves /\ x.kind = "compare" /\ x \in Atoms(t, i, n - 1)
        BY <3>1, <3>2, ComparisonIsAtom
      <4>3. n \in i + 2 .. Len(t) + 1
        BY <1>0, <3>1, <3>2, ComparisonMoves DEF Moves
      <4> HIDE DEF n, x, c
      <4>4. x \in Trees
        BY <4>2, TreesAre, LevelsBelow
      <4>5. n - i \in Nat \ {0} /\ 2 * (n - i) <= MaxDepth /\ n - 1 \in i .. Len(t) /\ n - 1 \in 1 .. Len(t)
        BY <1>0, <3>1, <4>3, DepthAssumption
      <4>6. x \in Shapes("primary", n - i)
        <5>1. trees[0] \subseteq trees[2 * (n - i) - 2]
          BY <4>5, LevelsGrow, DepthAssumption
        <5> QED
          BY <4>2, <5>1, TreesAre DEF Shapes
      <4>7. Comparisons(x) = {x} /\ x \in AllAtoms(t)
        BY <1>0, <3>1, <4>2, <4>4, <4>5, ComparisonsAre DEF AllAtoms
      <4>8. \A w : Holds(x, w) <=> w[x]
        BY <4>2, <4>4, HoldsIs
      <4>9. Meaning(x, t) = {w \in Worlds(t) : w[x]}
        BY <4>8 DEF Meaning
      <4>10. Meaning(x, t) \in Means(t, "primary", i, n - 1)
        <5> DEFINE j == n - 1
        <5>1. j \in 1 .. Len(t) /\ x \in Atoms(t, i, j)
          BY <4>2, <4>5
        <5> HIDE DEF j
        <5>2. Meaning(x, t) \in Means(t, "primary", i, j)
          BY <1>0, <3>1, <4>9, <5>1, MeansAre
        <5> QED
          BY <5>2 DEF j
      <4> QED
        BY <1>6, <4>1, <4>6, <4>7, <4>10 DEF Derived, n, x
    <3>3. CASE c.is = "no"
      <4>1. l = Closed(t, r)
        BY <1>0, <1>6, <2>2, <3>3, PrimaryIs DEF l
      <4>2. Derived(t, "or", i + 1, r) /\ Moves(t, i + 1, r)
        <5>1. 4 * (Len(t) + 1 - (i + 1)) + Rank("or") < 4 * (Len(t) + 1 - i) + Rank(rule)
          BY <1>0, <1>2, <1>6
        <5> QED
          BY <1>1, <1>3, <3>1, <5>1
      <4>3. CASE r.is = "ok" /\ At(t, r.next) = ")"
        <5> DEFINE n == r.next
                   x == r.tree
        <5>1. l = Ok(x, n + 1) /\ n \in i + 2 .. Len(t) + 1
          <6>1. l = Ok(x, n + 1)
            BY <4>1, <4>3, ClosedIs
          <6>2. n \in i + 1 + 1 .. Len(t) + 1
            BY <4>2, <4>3 DEF Moves
          <6> HIDE DEF n
          <6> QED
            BY <1>0, <6>1, <6>2
        <5>2. /\ x \in Shapes("or", n - (i + 1)) /\ Comparisons(x) \subseteq AllAtoms(t)
              /\ Meaning(x, t) \in Means(t, "or", i + 1, n - 1)
          BY <4>2, <4>3 DEF Derived
        <5>3. At(t, n) = ")"
          BY <4>3
        <5> HIDE DEF n, x, r
        <5>4. n \in i + 2 .. Len(t) /\ t[n] = ")"
          BY <1>0, <5>1, <5>3 DEF At, End
        <5> DEFINE d == n - (i + 1)
                   e == n + 1 - i
        <5>5. d \in Nat \ {0} /\ 2 * d <= MaxDepth /\ 2 * e - 2 <= MaxDepth /\ 2 * d <= 2 * e - 2 /\ e \in Nat
          BY <1>0, <3>1, <5>4, DepthAssumption
        <5>6. x \in Shapes("primary", e)
          <6>1. Shapes("or", d) \subseteq trees[2 * d]
            BY <1>3, <5>5, ShapesAreTrees
          <6>2. trees[2 * d] \subseteq trees[2 * e - 2]
            BY <5>5, LevelsGrow, DepthAssumption
          <6> QED
            BY <5>2, <6>1, <6>2 DEF Shapes
        <5>7. Meaning(x, t) \in Means(t, "primary", i, n)
          <6>1. i + 1 < n
            BY <1>0, <3>1, <5>4
          <6>2. n \in 1 .. Len(t)
            BY <1>0, <3>1, <5>4
          <6> QED
            BY <1>0, <3>1, <5>2, <5>4, <6>1, <6>2, MeansAre
        <5>8. l.tree = x /\ l.next - i = e /\ l.next - 1 = n
          <6>1. l.tree = x /\ l.next = n + 1
            BY <5>1, OkIs
          <6> QED
            BY <1>0, <5>4, <6>1
        <5> HIDE DEF e, d
        <5> QED
          BY <1>6, <5>2, <5>6, <5>7, <5>8 DEF Derived
      <4>4. CASE ~(r.is = "ok" /\ At(t, r.next) = ")")
        <5>1. Closed(t, r).is # "ok"
          <6> HIDE DEF r
          <6>1. CASE r.is # "ok"
            BY <6>1, ClosedIs
          <6>2. CASE r.is = "ok" /\ At(t, r.next) # ")"
            BY <6>2, ClosedIs, OkIs
          <6> QED
            BY <4>4, <6>1, <6>2
        <5> QED
          BY <1>4, <4>1, <5>1
      <4> QED
        BY <4>3, <4>4
    <3>4. CASE c.is \notin {"ok", "no"}
      <4>1. l = c
        BY <1>0, <1>6, <2>2, <3>4, PrimaryIs DEF l
      <4> QED
        BY <1>4, <3>4, <4>1
    <3> QED
      BY <3>2, <3>3, <3>4
  <2>3. CASE At(t, i) \notin Bools /\ At(t, i) # "("
    <3>1. l = No
      BY <1>0, <1>6, <2>3, PrimaryIs DEF l
    <3> QED
      BY <1>4, <3>1, OkIs
  <2> QED
    BY <2>1, <2>2, <2>3
<1>7. CASE rule = "not"
  <2>1. CASE At(t, i) # "!"
    <3>1. l = Result(t, "primary", i)
      <4>1. Result(t, "not", i) = Result(t, "primary", i)
        BY <1>0, <2>1, NoNegation
      <4> QED
        BY <1>7, <4>1 DEF l
    <3>2. Derived(t, "primary", i, l)
      BY <1>0, <1>1, <1>2, <1>3, <1>7, <3>1
    <3>3. Moves(t, i, l)
      BY <1>3, <1>7 DEF l
    <3>4. ASSUME l.is = "ok" PROVE Meaning(l.tree, t) \in Means(t, "not", i, l.next - 1)
      <4> DEFINE n == l.next
      <4>1. n \in i + 1 .. Len(t) + 1
        BY <3>3, <3>4 DEF Moves
      <4>2. Meaning(l.tree, t) \in Means(t, "primary", i, n - 1)
        BY <3>2, <3>4 DEF Derived
      <4>3. i \in 1 .. Len(t) /\ n - 1 \in 1 .. Len(t)
        BY <1>0, <4>1
      <4> HIDE DEF n
      <4> QED
        BY <1>0, <4>2, <4>3, MeansAre DEF n
    <3> QED
      BY <1>7, <3>2, <3>4 DEF Derived, Shapes
  <2>2. CASE At(t, i) = "!"
    <3> DEFINE r == Result(t, "primary", i + 1)
    <3>1. i \in 1 .. Len(t) /\ t[i] = "!" /\ i + 1 \in 1 .. Len(t) + 1
      <4>1. i <= Len(t) /\ t[i] = "!"
        BY <1>0, <2>2, AtInside DEF End
      <4> QED
        BY <1>0, <4>1
    <3>2. Derived(t, "primary", i + 1, r) /\ Moves(t, i + 1, r)
      <4>1. 4 * (Len(t) + 1 - (i + 1)) + Rank("primary") < 4 * (Len(t) + 1 - i) + Rank(rule)
        BY <1>0, <1>2, <1>7
      <4> QED
        BY <1>1, <1>3, <3>1, <4>1
    <3>3. CASE r.is = "ok"
      <4> DEFINE n == r.next
                 x == r.tree
                 y == [kind |-> "not", arg |-> x]
                 d == n - (i + 1)
                 e == n - i
      <4>1. l = Ok(y, n) /\ n \in i + 2 .. Len(t) + 1
        <5>1. l = Ok(y, n)
          BY <1>0, <1>7, <2>2, <3>3, UnaryIs DEF l
        <5>2. n \in i + 1 + 1 .. Len(t) + 1
          BY <3>2, <3>3 DEF Moves
        <5> HIDE DEF n
        <5> QED
          BY <1>0, <5>1, <5>2
      <4>2. /\ x \in Shapes("primary", d) /\ Comparisons(x) \subseteq AllAtoms(t)
            /\ Meaning(x, t) \in Means(t, "primary", i + 1, n - 1)
        BY <3>2, <3>3 DEF Derived
      <4>3. y.kind = "not" /\ y.arg = x
        OBVIOUS
      <4> HIDE DEF n, x, r
      <4>4. /\ d \in Nat \ {0} /\ 2 * d - 2 \in Nat /\ 2 * d - 2 < MaxDepth /\ 2 * d - 2 + 1 <= 2 * e - 2
            /\ 2 * e <= MaxDepth /\ e \in Nat \ {0}
        BY <1>0, <3>1, <4>1, DepthAssumption
      <4>5. y \in trees[2 * d - 2 + 1]
        <5>1. x \in trees[2 * d - 2]
          BY <4>2 DEF Shapes
        <5>2. y \in Over(trees[2 * d - 2])
          BY <5>1 DEF Over
        <5> QED
          BY <4>4, <5>2, TreesAre
      <4>6. y \in Shapes("not", e)
        <5>1. trees[2 * d - 2 + 1] \subseteq trees[2 * e - 2]
          BY SMTT(30), <4>4, LevelsGrow, DepthAssumption
        <5> QED
          BY <4>5, <5>1 DEF Shapes
      <4> HIDE DEF y
      <4>7. y \in Trees
        BY <1>3, <4>4, <4>6, ShapesAreTrees
      <4>8. Comparisons(y) = Comparisons(x) /\ \A w : Holds(y, w) <=> ~Holds(x, w)
        BY <4>3, <4>7, ComparisonsAre, HoldsIs
      <4>9. Meaning(y, t) = Worlds(t) \ Meaning(x, t)
        BY <4>8 DEF Meaning
      <4>10. Meaning(y, t) \in Means(t, "not", i, n - 1)
        <5>1. i < n - 1 /\ n - 1 \in 1 .. Len(t)
          BY <1>0, <3>1, <4>1
        <5> QED
          BY <1>0, <3>1, <4>2, <4>9, <5>1, MeansAre
      <4>11. l.tree = y /\ l.next = n
        BY <4>1, OkIs
      <4> QED
        BY <1>7, <4>2, <4>6, <4>8, <4>10, <4>11 DEF Derived
    <3>4. CASE r.is # "ok"
      <4>1. Result(t, "not", i).is = "throws"
        BY <1>0, <2>2, <3>4, NothingNegated
      <4> QED
        BY <1>4, <1>7, <4>1 DEF l
    <3> QED
      BY <3>3, <3>4
  <2> QED
    BY <2>1, <2>2
<1>8. CASE rule \in {"or", "and"}
  <2> DEFINE op == Operand(rule)
             r == Result(t, op, i)
             s == Result(t, rule, r.next + 1)
  <2>1. Derived(t, op, i, r) /\ Moves(t, i, r) /\ op \in Rules
    <3>1. op \in Rules /\ Rank(op) < Rank(rule) /\ Rank(op) \in Nat /\ Rank(rule) \in Nat
      <4>1. CASE rule = "or"
        BY <1>2, <1>3, <4>1 DEF Operand
      <4>2. CASE rule = "and"
        BY <1>2, <1>3, <4>2 DEF Operand
      <4> QED
        BY <1>8, <4>1, <4>2
    <3>2. 4 * (Len(t) + 1 - i) + Rank(op) < 4 * (Len(t) + 1 - i) + Rank(rule)
      BY <1>0, <3>1
    <3> QED
      BY <1>1, <1>3, <3>1, <3>2
  <2>2. CASE r.is # "ok"
    <3>1. l = r
      BY <1>0, <1>8, <2>2, LevelIs DEF l
    <3> QED
      BY <1>4, <2>2, <3>1
  <2>3. CASE r.is = "ok" /\ At(t, r.next) # Sign(rule)
    <3> DEFINE n == r.next
               x == r.tree
               y == [kind |-> rule, args |-> <<x>>]
    <3>1. l = Ok(y, n)
      BY <1>0, <1>8, <2>3, LevelIs DEF l
    <3>2. n \in i + 1 .. Len(t) + 1
      BY <2>1, <2>3 DEF Moves
    <3>3. /\ x \in Shapes(op, n - i) /\ Comparisons(x) \subseteq AllAtoms(t)
          /\ Meaning(x, t) \in Means(t, op, i, n - 1)
      BY <2>1, <2>3 DEF Derived
    <3> HIDE DEF n, x, r
    <3>4. i \in 1 .. Len(t) /\ n \in i .. Len(t) + 1 /\ i < n /\ n - 1 \in 1 .. Len(t)
      BY <1>0, <3>2
    <3>5. y \in Shapes(rule, n - i)
      <4> DEFINE e == n - i
      <4>1. <<x>> \in Seq(Shapes(op, e)) \ {<<>>}
        BY <3>3
      <4> HIDE DEF e
      <4>2. Shapes(rule, e) = [kind : {rule}, args : Seq(Shapes(op, e)) \ {<<>>}]
        BY <1>8, ShapesOfLevel
      <4> HIDE DEF op
      <4>3. y \in Shapes(rule, e)
        BY <4>1, <4>2
      <4> QED
        BY <4>3 DEF e
    <3>6. x \in Trees /\ y \in Trees
      BY <1>5, <2>1, <3>3, <3>4, <3>5
    <3>7. Comparisons(y) = Comparisons(x) /\ Meaning(y, t) = Meaning(x, t)
      BY <1>8, <3>6, LoneMeans
    <3> HIDE DEF y
    <3>8. Meaning(y, t) \in Means(t, rule, i, n - 1)
      <4>1. CASE rule = "or"
        BY <1>0, <3>3, <3>4, <3>7, <4>1, MeansAre DEF Operand
      <4>2. CASE rule = "and"
        BY <1>0, <3>3, <3>4, <3>7, <4>2, MeansAre DEF Operand
      <4> QED
        BY <1>8, <4>1, <4>2
    <3>9. l.tree = y /\ l.next = n
      BY <3>1, OkIs
    <3> QED
      BY <3>3, <3>5, <3>7, <3>8, <3>9 DEF Derived
  <2>4. CASE r.is = "ok" /\ At(t, r.next) = Sign(rule)
    <3> DEFINE n == r.next
               x == r.tree
    <3>1. /\ n \in i + 1 .. Len(t) /\ t[n] = Sign(rule)
          /\ s.is = "ok" => l = Ok([kind |-> rule, args |-> <<x>> \o s.tree.args], s.next)
          /\ s.is # "ok" => l.is = "throws"
      BY <1>0, <1>8, <2>4, LevelIs DEF l
    <3>2. CASE s.is # "ok"
      BY <1>4, <3>1, <3>2
    <3>3. CASE s.is = "ok"
      <4> DEFINE m == s.next
                 z == s.tree
                 y == [kind |-> rule, args |-> <<x>> \o z.args]
      <4>1. l = Ok(y, m)
        BY <3>1, <3>3
      <4>2. Derived(t, rule, n + 1, s) /\ Moves(t, n + 1, s)
        <5>1. n + 1 \in 1 .. Len(t) + 1
          BY <1>0, <3>1
        <5>2. 4 * (Len(t) + 1 - (n + 1)) + Rank(rule) < 4 * (Len(t) + 1 - i) + Rank(rule)
          <6>1. Rank(rule) \in Nat
            BY <1>2, <1>8
          <6> HIDE DEF n
          <6> QED
            BY <1>0, <3>1, <6>1
        <5> QED
          BY <1>1, <1>3, <5>1, <5>2
      <4>3. m \in n + 2 .. Len(t) + 1
        <5>1. m \in n + 1 + 1 .. Len(t) + 1
          BY <3>3, <4>2 DEF Moves
        <5> HIDE DEF n, m
        <5> QED
          BY <1>0, <3>1, <5>1
      <4>4. /\ z \in Shapes(rule, m - (n + 1)) /\ Comparisons(z) \subseteq AllAtoms(t)
            /\ Meaning(z, t) \in Means(t, rule, n + 1, m - 1)
        BY <3>3, <4>2 DEF Derived
      <4>5. /\ x \in Shapes(op, n - i) /\ Comparisons(x) \subseteq AllAtoms(t)
            /\ Meaning(x, t) \in Means(t, op, i, n - 1)
        BY <2>1, <2>4 DEF Derived
      <4>6. t[n] = Sign(rule) /\ n \in i + 1 .. Len(t)
        BY <3>1
      <4> HIDE DEF n, x, r, m, z, s
      <4> DEFINE a == n - i
                 b == m - (n + 1)
                 e == m - i
      <4>7. /\ a \in Nat \ {0} /\ b \in Nat \ {0} /\ e \in Nat \ {0} /\ a <= e /\ b <= e /\ 2 * e <= MaxDepth
            /\ 2 * a <= MaxDepth /\ 2 * b <= MaxDepth
            /\ i \in 1 .. Len(t) /\ m - 1 \in 1 .. Len(t) /\ n \in i + 1 .. m - 1 - 1
        BY <1>0, <4>3, <4>6, DepthAssumption
      <4>8. x \in Shapes(op, e) /\ z \in Shapes(rule, e)
        <5> HIDE DEF a, b, e
        <5>1. Shapes(op, a) \subseteq Shapes(op, e) /\ Shapes(rule, b) \subseteq Shapes(rule, e)
          BY <2>1, <4>7, ShapesGrow
        <5> QED
          BY <4>4, <4>5, <5>1 DEF a, b
      <4>9. z.kind = rule /\ z.args \in Seq(Shapes(op, e))
        <5> HIDE DEF e
        <5>1. Shapes(rule, e) = [kind : {rule}, args : Seq(Shapes(op, e)) \ {<<>>}]
          BY <1>8, ShapesOfLevel
        <5> HIDE DEF op
        <5> QED
          BY <4>8, <5>1
      <4>10. y \in Shapes(rule, e)
        <5>1. <<x>> \o z.args \in Seq(Shapes(op, e)) \ {<<>>}
          <6> HIDE DEF e, op
          <6>1. <<x>> \in Seq(Shapes(op, e)) /\ Len(<<x>>) = 1
            BY <4>8
          <6>2. <<x>> \o z.args \in Seq(Shapes(op, e)) /\ Len(<<x>> \o z.args) = 1 + Len(z.args)
            BY <4>9, <6>1, ConcatProperties
          <6>3. Len(z.args) \in Nat
            BY <4>9, LenProperties
          <6>4. <<x>> \o z.args # <<>>
            BY <6>2, <6>3, EmptySeq
          <6> QED
            BY <6>2, <6>4
        <5> HIDE DEF e
        <5>2. Shapes(rule, e) = [kind : {rule}, args : Seq(Shapes(op, e)) \ {<<>>}]
          BY <1>8, ShapesOfLevel
        <5> HIDE DEF op
        <5> QED
          BY <5>1, <5>2
      <4>11. x \in Trees /\ z \in Trees /\ y \in Trees
        <5> HIDE DEF e, y
        <5> QED
          BY <2>1, <4>7, <4>8, <4>10, ShapesAreTrees
      <4>12. /\ Comparisons(y) = Comparisons(x) \union Comparisons(z)
             /\ rule = "or" => Meaning(y, t) = Meaning(x, t) \union Meaning(z, t)
             /\ rule = "and" => Meaning(y, t) = Meaning(x, t) \intersect Meaning(z, t)
        <5>1. z.kind = rule /\ y.kind = rule /\ y.args = <<x>> \o z.args
          BY <4>9
        <5> HIDE DEF y
        <5>2. x \in Trees /\ y \in Trees /\ z \in Trees
          BY <4>11
        <5>3. z.kind \in {"or", "and"} /\ y.kind = z.kind
          BY <1>8, <5>1
        <5>4. /\ Comparisons(y) = Comparisons(x) \union Comparisons(z)
              /\ z.kind = "or" => Meaning(y, t) = Meaning(x, t) \union Meaning(z, t)
              /\ z.kind = "and" => Meaning(y, t) = Meaning(x, t) \intersect Meaning(z, t)
          BY <5>1, <5>2, <5>3, LongerMeans
        <5> QED
          BY <5>1, <5>4
      <4> HIDE DEF y
      <4>13. Meaning(y, t) \in Means(t, rule, i, m - 1)
        <5> DEFINE j == m - 1
        <5>1. j \in 1 .. Len(t) /\ n \in i + 1 .. j - 1 /\ i \in 1 .. Len(t)
          BY <4>7
        <5>2. Meaning(z, t) \in Means(t, rule, n + 1, j) /\ Meaning(x, t) \in Means(t, op, i, n - 1)
          BY <4>4, <4>5
        <5> HIDE DEF j
        <5>3. Meaning(y, t) \in Means(t, rule, i, j)
          <6>1. CASE rule = "or"
            <7>1. t[n] = "||" /\ op = "and" /\ Meaning(y, t) = Meaning(x, t) \union Meaning(z, t)
              BY <4>6, <4>12, <6>1 DEF Sign, Operand
            <7> HIDE DEF op
            <7>2. \E a1 \in Means(t, "and", i, n - 1), b1 \in Means(t, "or", n + 1, j) :
                    t[n] = "||" /\ Meaning(y, t) = a1 \union b1
              BY <5>2, <6>1, <7>1
            <7> QED
              BY SMTT(30), <1>0, <5>1, <6>1, <7>2, MeansAre
          <6>2. CASE rule = "and"
            <7>1. t[n] = "&&" /\ op = "not" /\ Meaning(y, t) = Meaning(x, t) \intersect Meaning(z, t)
              BY <4>6, <4>12, <6>2 DEF Sign, Operand
            <7> HIDE DEF op
            <7>2. \E a1 \in Means(t, "not", i, n - 1), b1 \in Means(t, "and", n + 1, j) :
                    t[n] = "&&" /\ Meaning(y, t) = a1 \intersect b1
              BY <5>2, <6>2, <7>1
            <7> QED
              BY SMTT(30), <1>0, <5>1, <6>2, <7>2, MeansAre
          <6> QED
            BY <1>8, <6>1, <6>2
        <5> QED
          BY <5>3 DEF j
      <4>14. l.tree = y /\ l.next = m
        BY <4>1, OkIs
      <4> QED
        BY <4>4, <4>5, <4>10, <4>12, <4>13, <4>14 DEF Derived
    <3> QED
      BY <3>2, <3>3
  <2> QED
    BY <2>2, <2>3, <2>4
<1> QED
  BY <1>6, <1>7, <1>8 DEF Rules

\* Whatever a rule reads, the grammar derives.
LEMMA ReadIsDerived ==
  ASSUME NEW t \in Seq(Symbols), 2 * Len(t) <= MaxDepth
  PROVE  \A rule \in Rules, i \in 1 .. Len(t) + 1 : Derived(t, rule, i, Result(t, rule, i))
<1> DEFINE U == {k \in Nat : \A p \in Places(t) : Height(t, p) < k => Derived(t, p[1], p[2], Result(t, p[1], p[2]))}
<1>0. Len(t) \in Nat
  BY TextIs
<1>1. \A p \in Places(t) : Height(t, p) \in Nat /\ Height(t, p) < 4 * Len(t) + 4
  BY <1>0 DEF Places, Height, Rank, Rules
<1>2. 0 \in U
  BY <1>1
<1>3. ASSUME NEW k \in Nat, k \in U PROVE k + 1 \in U
  <2> SUFFICES ASSUME NEW p \in Places(t), Height(t, p) < k + 1 PROVE Derived(t, p[1], p[2], Result(t, p[1], p[2]))
    OBVIOUS
  <2>1. \A q \in Places(t) : Height(t, q) < Height(t, p) => Derived(t, q[1], q[2], Result(t, q[1], q[2]))
    <3> SUFFICES ASSUME NEW q \in Places(t), Height(t, q) < Height(t, p)
                 PROVE  Derived(t, q[1], q[2], Result(t, q[1], q[2]))
      OBVIOUS
    <3>1. Height(t, q) < k
      BY <1>1
    <3> QED
      BY <1>3, <3>1
  <2>2. p = <<p[1], p[2]>> /\ p[1] \in Rules /\ p[2] \in 1 .. Len(t) + 1
    BY DEF Places
  <2>3. DerivedBefore(t, p[1], p[2])
    BY <2>1, <2>2 DEF DerivedBefore
  <2> QED
    BY <2>2, <2>3, DerivedStep
<1>4. \A k \in Nat : k \in U
  <2> HIDE DEF U
  <2> QED
    BY <1>2, <1>3, Induction
<1>5. 4 * Len(t) + 4 \in U
  <2> HIDE DEF U
  <2> QED
    BY <1>0, <1>4
<1> SUFFICES ASSUME NEW rule \in Rules, NEW i \in 1 .. Len(t) + 1
             PROVE  Derived(t, rule, i, Result(t, rule, i))
  OBVIOUS
<1>6. <<rule, i>> \in Places(t)
  BY DEF Places
<1> QED
  BY <1>1, <1>5, <1>6

(* ------------------------- what is derived is read ---------------------- *)

\* A part of the text that a rule derives starts as one, and the rule reads it with
\* that meaning unless its repetition goes on behind it.
Found(t, rule, i, j, m) ==
  /\ i <= j /\ t[i] \in Bools \union {"(", "!"} /\ (rule = "primary" => t[i] # "!")
  /\ (rule \in {"or", "and"} => At(t, j + 1) # "&&") /\ (rule = "or" => At(t, j + 1) # "||") =>
       \E x : Result(t, rule, i) = Ok(x, j + 1) /\ Meaning(x, t) = m

\* That all parts smaller than one are such.
FoundBefore(t, rule, i, j) ==
  \A r \in Rules, k, l \in 1 .. Len(t) :
    Size(<<r, k, l>>) < Size(<<rule, i, j>>) => \A m \in Means(t, r, k, l) : Found(t, r, k, l, m)

\* A derivation is found if the smaller ones are, one case for each production.
LEMMA FoundStep ==
  ASSUME NEW t \in Seq(Symbols), 2 * Len(t) <= MaxDepth, NEW rule \in Rules,
         NEW i \in 1 .. Len(t), NEW j \in 1 .. Len(t), FoundBefore(t, rule, i, j),
         NEW m \in Means(t, rule, i, j)
  PROVE  Found(t, rule, i, j, m)
<1>0. Len(t) \in Nat /\ DOMAIN t = 1 .. Len(t)
  BY TextIs
<1>1. \A r \in Rules, k, l \in 1 .. Len(t) :
        4 * (IF k < l THEN l - k ELSE 0) + Rank(r) < 4 * (IF i < j THEN j - i ELSE 0) + Rank(rule)
          => \A n \in Means(t, r, k, l) : Found(t, r, k, l, n)
  BY DEF FoundBefore, Size
<1>2. Rank("primary") = 0 /\ Rank("not") = 1 /\ Rank("and") = 2 /\ Rank("or") = 3
  BY DEF Rank
<1>3. "primary" \in Rules /\ "not" \in Rules /\ "and" \in Rules /\ "or" \in Rules
  BY DEF Rules
<1>4. \A k \in 1 .. Len(t) : At(t, k) = t[k]
  BY <1>0 DEF At
\* What is read is a tree.
<1>5. ASSUME NEW r \in Rules, NEW k \in 1 .. Len(t), NEW l \in k .. Len(t), NEW x, Result(t, r, k) = Ok(x, l + 1)
      PROVE  x \in Trees /\ (r \in {"or", "and"} => x.kind = r)
  <2> DEFINE d == l + 1 - k
  <2>1. d \in Nat \ {0} /\ d <= Len(t)
    BY <1>0
  <2>2. 2 * d <= MaxDepth
    BY <1>0, <2>1, DepthAssumption
  <2>3. k \in 1 .. Len(t) + 1
    BY <1>0
  <2>4. Derived(t, r, k, Result(t, r, k))
    BY <2>3, ReadIsDerived
  <2>5. x \in Shapes(r, d)
    BY <1>5, <2>4, OkIs DEF Derived
  <2> HIDE DEF d
  <2>6. x \in Trees
    BY <2>1, <2>2, <2>5, ShapesAreTrees
  <2>7. r \in {"or", "and"} => x.kind = r
    BY <2>5 DEF Shapes, Disjunctions, Conjunctions
  <2> QED
    BY <2>6, <2>7
<1>6. CASE rule = "primary"
  <2>1. ASSUME NEW c \in Atoms(t, i, j), m = {w \in Worlds(t) : w[c]}
        PROVE  Found(t, rule, i, j, m)
    <3>1. t[i] = "(" /\ Closed(t, Comparison(t, i + 1)) = Ok(c, j + 1)
      BY <2>1, AtomIsRead
    <3>2. i + 4 <= j /\ c.kind = "compare"
      BY <2>1 DEF Atoms
    <3>3. Result(t, "primary", i) = Ok(c, j + 1)
      <4>1. i \in 1 .. Len(t) + 1 /\ At(t, i) = "("
        BY <1>0, <1>4, <3>1
      <4>2. Closed(t, Comparison(t, i + 1)).is # "no"
        BY <3>1, OkIs
      <4>3. Result(t, "primary", i) = Closed(t, Comparison(t, i + 1))
        BY <1>0, <4>1, <4>2, PrimaryIs
      <4> QED
        BY <3>1, <4>3
    <3>4. c \in Trees
      <4>1. j \in i .. Len(t)
        BY <1>0, <3>2
      <4> QED
        BY <1>3, <1>5, <3>3, <4>1
    <3>5. \A w : Holds(c, w) <=> w[c]
      BY <3>2, <3>4, HoldsIs
    <3>6. Meaning(c, t) = m
      BY <2>1, <3>5 DEF Meaning
    <3>7. i <= j
      BY <3>2
    <3> QED
      BY <1>6, <3>1, <3>3, <3>6, <3>7 DEF Found
  <2>2. ASSUME i = j, t[i] \in Bools, m = IF t[i] = "true" THEN Worlds(t) ELSE {}
        PROVE  Found(t, rule, i, j, m)
    <3> DEFINE b == (t[i] = "true")
               x == [kind |-> "bool", value |-> b]
    <3>1. Result(t, "primary", i) = Ok(x, j + 1)
      <4>1. i \in 1 .. Len(t) + 1 /\ At(t, i) \in Bools
        BY <1>0, <1>4, <2>2
      <4> QED
        BY <1>0, <2>2, <4>1, PrimaryIs
    <3>2. x \in Leaves /\ x.kind = "bool" /\ x.value = b
      BY DEF Leaves
    <3> HIDE DEF x, b
    <3>3. x \in Trees
      BY <3>2, TreesAre, LevelsBelow
    <3>4. \A w : Holds(x, w) <=> b
      BY <3>2, <3>3, HoldsIs
    <3>5. Meaning(x, t) = m
      BY <2>2, <3>4 DEF Meaning, b
    <3>6. i <= j /\ t[i] # "!"
      BY <1>0, <2>2 DEF Bools
    <3> QED
      BY <1>6, <2>2, <3>1, <3>5, <3>6 DEF Found
  <2>3. ASSUME i + 1 < j, t[i] = "(", t[j] = ")", m \in Means(t, "or", i + 1, j - 1)
        PROVE  Found(t, rule, i, j, m)
    <3> DEFINE k == i + 1
               l == j - 1
    <3>1. k \in 1 .. Len(t) /\ l \in 1 .. Len(t) /\ l + 1 = j /\ i <= j
      BY <1>0, <2>3
    <3>2. 4 * (IF k < l THEN l - k ELSE 0) + Rank("or") < 4 * (IF i < j THEN j - i ELSE 0) + Rank(rule)
      BY <1>0, <1>2, <1>6, <2>3
    <3> HIDE DEF k, l
    <3>3. Found(t, "or", k, l, m)
      BY <1>1, <1>3, <2>3, <3>1, <3>2 DEF k, l
    <3>4. PICK x : Result(t, "or", k) = Ok(x, j) /\ Meaning(x, t) = m
      BY <1>4, <2>3, <3>1, <3>3 DEF Found
    <3>5. Closed(t, Comparison(t, k)) = No
      <4>1. At(t, k) \notin Identifiers
        BY <1>4, <3>1, <3>3 DEF Found, Identifiers, Bools
      <4> QED
        BY <4>1, OkIs DEF Comparison, Closed
    <3>6. Closed(t, Ok(x, j)) = Ok(x, j + 1)
      BY <1>4, <2>3, OkIs DEF Closed
    <3>7. Result(t, "primary", i) = Ok(x, j + 1)
      <4>1. i \in 1 .. Len(t) + 1 /\ At(t, i) = "("
        BY <1>0, <1>4, <2>3
      <4>2. Closed(t, Comparison(t, i + 1)).is = "no"
        BY <3>5, OkIs DEF k
      <4>3. Result(t, "primary", i) = Closed(t, Result(t, "or", i + 1))
        BY <1>0, <4>1, <4>2, PrimaryIs
      <4> QED
        BY <3>4, <3>6, <4>3 DEF k
    <3> QED
      BY <1>6, <2>3, <3>1, <3>4, <3>7 DEF Found
  <2> QED
    BY <1>0, <1>6, <2>1, <2>2, <2>3, MeansAre
<1>7. CASE rule = "not"
  <2>1. ASSUME m \in Means(t, "primary", i, j) PROVE Found(t, rule, i, j, m)
    <3>1. Found(t, "primary", i, j, m)
      <4> DEFINE d == IF i < j THEN j - i ELSE 0
      <4>1. d \in Int
        BY <1>0
      <4> HIDE DEF d
      <4>2. 4 * d + Rank("primary") < 4 * d + Rank(rule)
        BY <1>2, <1>7, <4>1
      <4> QED
        BY <1>1, <1>3, <2>1, <4>2 DEF d
    <3>2. Result(t, "not", i) = Result(t, "primary", i)
      <4>1. i \in 1 .. Len(t) + 1 /\ At(t, i) # "!"
        BY <1>0, <1>4, <3>1 DEF Found
      <4> QED
        BY <1>0, <4>1, NoNegation
    <3> QED
      BY <1>7, <3>1, <3>2 DEF Found
  <2>2. ASSUME i < j, t[i] = "!", NEW a \in Means(t, "primary", i + 1, j), m = Worlds(t) \ a
        PROVE  Found(t, rule, i, j, m)
    <3> DEFINE k == i + 1
    <3>1. k \in 1 .. Len(t) /\ j \in k .. Len(t) /\ i <= j
      BY <1>0, <2>2
    <3>2. 4 * (IF k < j THEN j - k ELSE 0) + Rank("primary") < 4 * (IF i < j THEN j - i ELSE 0) + Rank(rule)
      BY <1>0, <1>2, <1>7, <2>2
    <3> HIDE DEF k
    <3>3. Found(t, "primary", k, j, a)
      BY <1>1, <1>3, <2>2, <3>1, <3>2 DEF k
    <3>4. PICK x : Result(t, "primary", k) = Ok(x, j + 1) /\ Meaning(x, t) = a
      BY <3>3 DEF Found
    <3> DEFINE y == [kind |-> "not", arg |-> x]
    <3>5. Result(t, "not", i) = Ok(y, j + 1)
      <4>1. i \in 1 .. Len(t) + 1 /\ At(t, i) = "!"
        BY <1>0, <1>4, <2>2
      <4>2. Result(t, "primary", i + 1).is = "ok" /\ Result(t, "primary", i + 1).tree = x
            /\ Result(t, "primary", i + 1).next = j + 1
        BY <3>4, OkIs DEF k
      <4> QED
        BY <1>0, <4>1, <4>2, UnaryIs
    <3>6. y.kind = "not" /\ y.arg = x
      OBVIOUS
    <3> HIDE DEF y
    <3>7. x \in Trees /\ y \in Trees
      <4>1. j \in i .. Len(t)
        BY <1>0, <2>2
      <4> QED
        BY <1>3, <1>5, <3>1, <3>4, <3>5, <4>1
    <3>8. \A w : Holds(y, w) <=> ~Holds(x, w)
      BY <3>6, <3>7, HoldsIs
    <3>9. Meaning(y, t) = m
      BY <2>2, <3>4, <3>8 DEF Meaning
    <3> QED
      BY <1>7, <2>2, <3>1, <3>5, <3>9 DEF Found
  <2> QED
    BY <1>0, <1>7, <2>1, <2>2, MeansAre
<1>8. CASE rule \in {"or", "and"}
  <2> DEFINE op == Operand(rule)
  <2>0. /\ op \in Rules /\ Rank(op) < Rank(rule) /\ Rank(op) \in Nat /\ Rank(rule) \in Nat
        /\ op # "or" /\ (op = "and" <=> rule = "or")
        /\ op = "not" <=> rule = "and"
        /\ Sign(rule) = IF rule = "or" THEN "||" ELSE "&&"
    BY <1>2, <1>3, <1>8 DEF Operand, Sign
  <2> HIDE DEF op
  <2>1. ASSUME m \in Means(t, op, i, j) PROVE Found(t, rule, i, j, m)
    <3>1. Found(t, op, i, j, m)
      BY <1>0, <1>1, <2>0, <2>1
    <3> SUFFICES ASSUME At(t, j + 1) # "&&", rule = "or" => At(t, j + 1) # "||"
                 PROVE  \E x : Result(t, rule, i) = Ok(x, j + 1) /\ Meaning(x, t) = m
      BY <1>8, <3>1 DEF Found
    <3>2. PICK x : Result(t, op, i) = Ok(x, j + 1) /\ Meaning(x, t) = m
      BY <2>0, <3>1 DEF Found
    <3> DEFINE y == [kind |-> rule, args |-> <<x>>]
    <3>3. Result(t, rule, i) = Ok(y, j + 1)
      <4>1. i \in 1 .. Len(t) + 1
        BY <1>0
      <4>2. Result(t, op, i).is = "ok" /\ Result(t, op, i).tree = x /\ Result(t, op, i).next = j + 1
        BY <3>2, OkIs
      <4>3. At(t, j + 1) # Sign(rule)
        BY <1>8, <2>0
      <4>4. Result(t, op, i).is = "ok" /\ At(t, Result(t, op, i).next) # Sign(rule)
        BY <4>2, <4>3
      <4>5. Result(t, rule, i) =
              Ok([kind |-> rule, args |-> <<Result(t, op, i).tree>>], Result(t, op, i).next)
        BY <1>0, <1>8, <4>1, <4>4, LevelIs DEF op
      <4> QED
        BY <4>2, <4>5
    <3>4. x \in Trees /\ y \in Trees
      <4>1. j \in i .. Len(t)
        BY <1>0, <3>1 DEF Found
      <4> HIDE DEF y
      <4> QED
        BY <1>5, <2>0, <3>2, <3>3, <4>1
    <3>5. Meaning(y, t) = m
      BY <1>8, <3>2, <3>4, LoneMeans
    <3> HIDE DEF y
    <3> QED
      BY <3>3, <3>5
  <2>2. ASSUME NEW k \in i + 1 .. j - 1, t[k] = Sign(rule),
               NEW a \in Means(t, op, i, k - 1), NEW b \in Means(t, rule, k + 1, j),
               rule = "or" => m = a \union b, rule = "and" => m = a \intersect b
        PROVE  Found(t, rule, i, j, m)
    <3> DEFINE before == k - 1
               after == k + 1
    <3>1. /\ before \in 1 .. Len(t) /\ after \in 1 .. Len(t) /\ before \in i .. Len(t) /\ k \in 1 .. Len(t)
          /\ before + 1 = k /\ i <= j
      BY <1>0
    <3>2. /\ 4 * (IF i < before THEN before - i ELSE 0) + Rank(op) < 4 * (IF i < j THEN j - i ELSE 0) + Rank(rule)
          /\ 4 * (IF after < j THEN j - after ELSE 0) + Rank(rule) < 4 * (IF i < j THEN j - i ELSE 0) + Rank(rule)
      BY <1>0, <2>0
    <3> HIDE DEF before, after
    <3>3. Found(t, op, i, before, a) /\ Found(t, rule, after, j, b)
      BY <1>1, <2>0, <2>2, <3>1, <3>2 DEF before, after
    <3> SUFFICES ASSUME At(t, j + 1) # "&&", rule = "or" => At(t, j + 1) # "||"
                 PROVE  \E x : Result(t, rule, i) = Ok(x, j + 1) /\ Meaning(x, t) = m
      <4>1. t[i] \in Bools \union {"(", "!"} /\ rule # "primary"
        BY <1>8, <3>3 DEF Found
      <4> QED
        BY <1>8, <3>1, <4>1 DEF Found
    <3>4. PICK x : Result(t, op, i) = Ok(x, k) /\ Meaning(x, t) = a
      <4>1. At(t, before + 1) = Sign(rule)
        BY <1>4, <2>2, <3>1
      <4>2. \E x : Result(t, op, i) = Ok(x, before + 1) /\ Meaning(x, t) = a
        BY <1>8, <2>0, <3>3, <4>1 DEF Found
      <4> QED
        BY <3>1, <4>2
    <3>5. PICK z : Result(t, rule, after) = Ok(z, j + 1) /\ Meaning(z, t) = b
      BY <1>8, <3>3 DEF Found
    <3> DEFINE y == [kind |-> rule, args |-> <<x>> \o z.args]
    <3>6. Result(t, rule, i) = Ok(y, j + 1)
      <4>1. i \in 1 .. Len(t) + 1
        BY <1>0
      <4>2. Result(t, op, i).is = "ok" /\ Result(t, op, i).tree = x /\ Result(t, op, i).next = k
        BY <3>4, OkIs
      <4>3. At(t, k) = Sign(rule)
        BY <1>4, <2>2, <3>1
      <4>4. /\ Result(t, rule, k + 1).is = "ok" /\ Result(t, rule, k + 1).tree = z
            /\ Result(t, rule, k + 1).next = j + 1
        BY <3>5, OkIs DEF after
      <4> DEFINE q == Result(t, Operand(rule), i)
                 s == Result(t, rule, q.next + 1)
                 l == Result(t, rule, i)
      <4>5. q.is = "ok" /\ At(t, q.next) = Sign(rule)
        BY <4>2, <4>3 DEF op
      <4>6. s.is = "ok" => l = Ok([kind |-> rule, args |-> <<q.tree>> \o s.tree.args], s.next)
        <5> HIDE DEF l
        <5>1. /\ q.next \in i + 1 .. Len(t) /\ t[q.next] = Sign(rule)
              /\ s.is = "ok" => l = Ok([kind |-> rule, args |-> <<q.tree>> \o s.tree.args], s.next)
              /\ s.is # "ok" => l.is = "throws"
          BY <1>0, <1>8, <4>1, <4>5, LevelIs DEF l
        <5> QED
          BY <5>1
      <4>7. q.tree = x /\ s.is = "ok" /\ s.tree = z /\ s.next = j + 1
        BY <4>2, <4>4 DEF op
      <4> HIDE DEF q, s
      <4> QED
        BY <4>6, <4>7
    <3>7. y.kind = rule /\ y.args = <<x>> \o z.args
      OBVIOUS
    <3> HIDE DEF y
    <3>8. x \in Trees /\ y \in Trees /\ z \in Trees /\ z.kind = rule
      <4>1. j \in i .. Len(t) /\ j \in after .. Len(t)
        BY <1>0, <3>1, <3>3 DEF Found
      <4>2. Result(t, op, i) = Ok(x, before + 1)
        BY <3>1, <3>4
      <4> QED
        BY <1>5, <1>8, <2>0, <3>1, <3>5, <3>6, <4>1, <4>2
    <3>9. /\ z.kind = "or" => Meaning(y, t) = Meaning(x, t) \union Meaning(z, t)
          /\ z.kind = "and" => Meaning(y, t) = Meaning(x, t) \intersect Meaning(z, t)
      <4>1. z.kind \in {"or", "and"} /\ y.kind = z.kind
        BY <1>8, <3>7, <3>8
      <4>2. x \in Trees /\ y \in Trees /\ z \in Trees
        BY <3>8
      <4> QED
        BY SMTT(30), <3>7, <4>1, <4>2, LongerMeans
    <3>10. Meaning(y, t) = m
      BY <1>8, <2>2, <3>4, <3>5, <3>8, <3>9
    <3> QED
      BY <3>6, <3>10
  <2>3. CASE rule = "or"
    <3>1. \/ m \in Means(t, "and", i, j)
          \/ \E k \in i + 1 .. j - 1 : \E a \in Means(t, "and", i, k - 1), b \in Means(t, "or", k + 1, j) :
               t[k] = "||" /\ m = a \union b
      BY <1>0, <2>3, MeansAre
    <3> QED
      BY <2>0, <2>1, <2>2, <2>3, <3>1
  <2>4. CASE rule = "and"
    <3>1. \/ m \in Means(t, "not", i, j)
          \/ \E k \in i + 1 .. j - 1 : \E a \in Means(t, "not", i, k - 1), b \in Means(t, "and", k + 1, j) :
               t[k] = "&&" /\ m = a \intersect b
      BY <1>0, <2>4, MeansAre
    <3> QED
      BY <2>0, <2>1, <2>2, <2>4, <3>1
  <2> QED
    BY <1>8, <2>3, <2>4
<1> QED
  BY <1>6, <1>7, <1>8 DEF Rules

\* Whatever the grammar derives, its rule reads.
LEMMA DerivedIsRead ==
  ASSUME NEW t \in Seq(Symbols), 2 * Len(t) <= MaxDepth
  PROVE  \A rule \in Rules, i, j \in 1 .. Len(t) : \A m \in Means(t, rule, i, j) : Found(t, rule, i, j, m)
<1> DEFINE All(r, i, j) == \A m \in Means(t, r, i, j) : Found(t, r, i, j, m)
           U == {k \in Nat : \A r \in Rules, i, j \in 1 .. Len(t) : Size(<<r, i, j>>) < k => All(r, i, j)}
<1>0. Len(t) \in Nat
  BY TextIs
<1>1. \A r \in Rules, i, j \in 1 .. Len(t) : Size(<<r, i, j>>) \in Nat /\ Size(<<r, i, j>>) < 4 * Len(t) + 4
  <2> SUFFICES ASSUME NEW r \in Rules, NEW i \in 1 .. Len(t), NEW j \in 1 .. Len(t)
               PROVE  Size(<<r, i, j>>) \in Nat /\ Size(<<r, i, j>>) < 4 * Len(t) + 4
    OBVIOUS
  <2>1. Rank(r) \in 0 .. 3
    BY DEF Rank
  <2>2. Size(<<r, i, j>>) = 4 * (IF i < j THEN j - i ELSE 0) + Rank(r)
    BY DEF Size
  <2> QED
    BY <1>0, <2>1, <2>2
<1>2. 0 \in U
  BY <1>1
<1>3. ASSUME NEW k \in Nat, k \in U PROVE k + 1 \in U
  <2> SUFFICES ASSUME NEW r \in Rules, NEW i \in 1 .. Len(t), NEW j \in 1 .. Len(t),
                      Size(<<r, i, j>>) < k + 1
               PROVE  All(r, i, j)
    OBVIOUS
  <2>1. FoundBefore(t, r, i, j)
    <3> SUFFICES ASSUME NEW r2 \in Rules, NEW i2 \in 1 .. Len(t), NEW j2 \in 1 .. Len(t),
                        Size(<<r2, i2, j2>>) < Size(<<r, i, j>>)
                 PROVE  All(r2, i2, j2)
      BY DEF FoundBefore
    <3> HIDE DEF All
    <3>1. Size(<<r2, i2, j2>>) < k
      BY <1>1
    <3> QED
      BY <1>3, <3>1
  <2> QED
    BY <2>1, FoundStep
<1>4. \A k \in Nat : k \in U
  <2> HIDE DEF U
  <2> QED
    BY <1>2, <1>3, Induction
<1>5. 4 * Len(t) + 4 \in U
  <2> HIDE DEF U
  <2> QED
    BY <1>0, <1>4
<1>6. \A r \in Rules, i, j \in 1 .. Len(t) : All(r, i, j)
  <2> HIDE DEF All
  <2> QED
    BY <1>1, <1>5
<1> QED
  BY <1>6

\* The parser decides whether the grammar derives all of a text, and if it does, the
\* tree has the one meaning of the text.
LEMMA ParserIsRight ==
  ASSUME NEW t \in Seq(Symbols), 2 * Len(t) <= MaxDepth, t # <<>>
  PROVE  LET r == Result(t, "or", 1)
         IN  /\ r.is = "ok" /\ r.next = Len(t) + 1 => Means(t, "or", 1, Len(t)) = {Meaning(r.tree, t)}
             /\ ~(r.is = "ok" /\ r.next = Len(t) + 1) => Means(t, "or", 1, Len(t)) = {}
<1> DEFINE n == Len(t)
           r == Result(t, "or", 1)
<1>0. n \in Nat \ {0} /\ 1 \in 1 .. n /\ n \in 1 .. n /\ 1 \in 1 .. n + 1 /\ "or" \in Rules
  BY TextIs, EmptySeq DEF Rules
<1>1. At(t, n + 1) = End
  BY <1>0 DEF At
<1>2. \A m \in Means(t, "or", 1, n) : \E x : r = Ok(x, n + 1) /\ Meaning(x, t) = m
  <2> SUFFICES ASSUME NEW m \in Means(t, "or", 1, n) PROVE \E x : r = Ok(x, n + 1) /\ Meaning(x, t) = m
    OBVIOUS
  <2>1. Found(t, "or", 1, n, m)
    BY <1>0, DerivedIsRead
  <2>2. At(t, n + 1) # "&&" /\ At(t, n + 1) # "||"
    BY <1>1 DEF End
  <2> QED
    BY <2>1, <2>2 DEF Found
<1>3. ASSUME r.is = "ok", r.next = n + 1 PROVE Meaning(r.tree, t) \in Means(t, "or", 1, n)
  <2>1. Derived(t, "or", 1, r)
    BY <1>0, ReadIsDerived
  <2>2. n + 1 - 1 = n
    BY <1>0
  <2> QED
    BY <1>3, <2>1, <2>2 DEF Derived
<1> HIDE DEF n, r
<1>4. \A m \in Means(t, "or", 1, n) : r.is = "ok" /\ r.next = n + 1 /\ Meaning(r.tree, t) = m
  BY <1>2, OkIs
<1>5. r.is = "ok" /\ r.next = n + 1 => Means(t, "or", 1, n) = {Meaning(r.tree, t)}
  BY <1>3, <1>4
<1>6. ~(r.is = "ok" /\ r.next = n + 1) => Means(t, "or", 1, n) = {}
  BY <1>4
<1> QED
  BY <1>5, <1>6 DEF n, r

(* ------------------------------ the printer ----------------------------- *)

\* Concatenation, as an operator that the provers do not look into.
Cat(a, b) == a \o b

\* Concatenation, as far as the printer's proofs use it.
LEMMA CatIs ==
  ASSUME NEW S
  PROVE  \A a, b \in Seq(S) :
           /\ Cat(a, b) \in Seq(S)
           /\ \A c \in Seq(S) : Cat(Cat(a, b), c) = Cat(a, Cat(b, c))
  BY DEF Cat

\* h[i] is the first i sequences of q, one after the other.
Running(q, k, h, S) ==
  /\ h \in [1 .. k -> Seq(S)]
  /\ h[1] = q[1]
  /\ \A i \in 1 .. k - 1 : h[i + 1] = Cat(h[i], q[i + 1])

\* The sums of the first texts of a list exist.
LEMMA RunningExists ==
  ASSUME NEW S, NEW n \in Nat \ {0}, NEW q, \A i \in 1 .. n : q[i] \in Seq(S)
  PROVE  \E h : Running(q, n, h, S)
<1> DEFINE T == {k \in Nat : 1 <= k /\ k <= n => \E h : Running(q, k, h, S)}
<1>1. 0 \in T
  OBVIOUS
<1>2. ASSUME NEW k \in Nat, k \in T PROVE k + 1 \in T
  <2> SUFFICES ASSUME k + 1 <= n PROVE \E h : Running(q, k + 1, h, S)
    OBVIOUS
  <2>0. k + 1 \in 1 .. n /\ 1 \in 1 .. n
    OBVIOUS
  <2>1. CASE k = 0
    <3> DEFINE h == [i \in 1 .. 1 |-> q[1]]
    <3>1. h \in [1 .. 1 -> Seq(S)] /\ h[1] = q[1]
      BY <2>0
    <3> HIDE DEF h
    <3>2. Running(q, 1, h, S)
      BY <3>1 DEF Running
    <3> QED
      BY <2>1, <3>2
  <2>2. CASE k # 0
    <3>1. PICK g : Running(q, k, g, S)
      BY <1>2, <2>2
    <3> DEFINE last == Cat(g[k], q[k + 1])
               h == [i \in 1 .. k + 1 |-> IF i = k + 1 THEN last ELSE g[i]]
    <3>2. k \in 1 .. k /\ g[k] \in Seq(S) /\ q[k + 1] \in Seq(S)
      BY <2>0, <2>2, <3>1 DEF Running
    <3>3. last \in Seq(S)
      BY <3>2, CatIs
    <3>4. h[k + 1] = last /\ \A i \in 1 .. k : h[i] = g[i]
      <4> HIDE DEF last
      <4> QED
        OBVIOUS
    <3> HIDE DEF last
    <3>5. h \in [1 .. k + 1 -> Seq(S)]
      BY <3>1, <3>3 DEF Running
    <3> HIDE DEF h
    <3>6. h[1] = q[1]
      BY <2>2, <3>1, <3>4 DEF Running
    <3>7. ASSUME NEW i \in 1 .. k + 1 - 1 PROVE h[i + 1] = Cat(h[i], q[i + 1])
      <4>1. CASE i = k
        BY <3>2, <3>4, <4>1 DEF last
      <4>2. CASE i # k
        <5>1. i \in 1 .. k - 1 /\ i + 1 \in 1 .. k /\ i \in 1 .. k
          BY <4>2
        <5> QED
          BY <3>1, <3>4, <5>1 DEF Running
      <4> QED
        BY <4>1, <4>2
    <3>8. \A i \in 1 .. k + 1 - 1 : h[i + 1] = Cat(h[i], q[i + 1])
      BY <3>7
    <3> HIDE DEF T
    <3>9. Running(q, k + 1, h, S)
      BY <3>5, <3>6, <3>8 DEF Running
    <3> QED
      BY <3>9
  <2> QED
    BY <2>1, <2>2
<1> HIDE DEF T
<1>3. n \in T
  BY <1>1, <1>2, Induction
<1> QED
  BY <1>3 DEF T

\* Flattening concatenates one sequence after the other.
LEMMA FlattenIs ==
  ASSUME NEW S, NEW q \in Seq(Seq(S)), q # <<>>
  PROVE  \E f : Running(q, Len(q), f, S) /\ FlattenSeq(q) = f[Len(q)]
<1> DEFINE n == Len(q)
<1>0. n \in Nat \ {0} /\ \A i \in 1 .. n : q[i] \in Seq(S)
  BY EmptySeq, ElementOfSeq
<1> HIDE DEF n
<1>4. PICK h : Running(q, n, h, S)
  BY <1>0, RunningExists
<1> DEFINE Step(f) == [i \in 1 .. n |-> IF i = 1 THEN q[i] ELSE Cat(f[i - 1], q[i])]
           flatten == CHOOSE f : f = Step(f)
<1>5. FlattenSeq(q) = flatten[n]
  BY <1>0 DEF FlattenSeq, n, Cat
<1>6. h = Step(h)
  <2>1. ASSUME NEW i \in 1 .. n PROVE h[i] = Step(h)[i]
    <3>1. CASE i = 1
      BY <1>4, <3>1 DEF Running
    <3>2. CASE i # 1
      <4> DEFINE j == i - 1
      <4>1. j \in 1 .. n - 1 /\ j + 1 = i
        BY <1>0, <3>2
      <4>2. h[j + 1] = Cat(h[j], q[j + 1])
        BY <1>4, <4>1 DEF Running
      <4> QED
        BY <3>2, <4>1, <4>2
    <3> QED
      BY <3>1, <3>2
  <2> HIDE DEF Step
  <2>2. Step(h) = [i \in 1 .. n |-> Step(h)[i]] /\ h = [i \in 1 .. n |-> h[i]]
    BY <1>4 DEF Step, Running
  <2> QED
    BY <2>1, <2>2
<1>7. flatten = Step(flatten)
  <2> HIDE DEF Step
  <2> QED
    BY <1>6
<1> HIDE DEF flatten
<1> DEFINE U == {k \in Nat : 1 <= k /\ k <= n => flatten[k] = h[k]}
<1>8. 0 \in U
  OBVIOUS
<1>9. ASSUME NEW k \in Nat, k \in U PROVE k + 1 \in U
  <2> SUFFICES ASSUME k + 1 <= n PROVE flatten[k + 1] = h[k + 1]
    OBVIOUS
  <2>1. flatten[k + 1] = Step(flatten)[k + 1] /\ h[k + 1] = Step(h)[k + 1]
    BY <1>6, <1>7
  <2>2. CASE k = 0
    BY <1>0, <2>1, <2>2
  <2>3. CASE k # 0
    <3> DEFINE j == k + 1
    <3>1. flatten[k] = h[k] /\ j \in 1 .. n /\ j # 1 /\ j - 1 = k
      BY <1>0, <1>9, <2>3
    <3> HIDE DEF j, U
    <3>2. Step(flatten)[j] = Cat(flatten[j - 1], q[j]) /\ Step(h)[j] = Cat(h[j - 1], q[j])
      BY <3>1
    <3> HIDE DEF Step
    <3> QED
      BY <2>1, <3>1, <3>2 DEF j
  <2> QED
    BY <2>2, <2>3
<1>10. n \in U
  <2> HIDE DEF U
  <2> QED
    BY <1>0, <1>8, <1>9, Induction
<1>11. FlattenSeq(q) = h[n]
  BY <1>0, <1>5, <1>10
<1> QED
  BY <1>4, <1>11 DEF n

\* The texts p are those of the n texts q with a before them and s in front of the first.
Precedes(p, q, n, a, s, S) ==
  /\ p[1] = a
  /\ p[2] = Cat(s, q[1])
  /\ \A i \in 1 .. n - 1 : p[i + 2] = q[i + 1] /\ q[i + 1] \in Seq(S)

\* Then the sum of p is a, then s, then the sum of q.
LEMMA RunningBehind ==
  ASSUME NEW S, NEW n \in Nat \ {0}, NEW m, m = n + 1, NEW p, NEW q, NEW f, NEW g,
         NEW a \in Seq(S), NEW s \in Seq(S),
         Running(p, m, f, S), Running(q, n, g, S),
         Precedes(p, q, n, a, s, S)
  PROVE  f[m] = Cat(a, Cat(s, g[n]))
<1> DEFINE T == {k \in Nat : 1 <= k /\ k <= n => f[k + 1] = Cat(a, Cat(s, g[k]))}
<1>1. 0 \in T
  OBVIOUS
<1>2. ASSUME NEW k \in Nat, k \in T PROVE k + 1 \in T
  <2> DEFINE j == k + 1
             l == k + 2
  <2> SUFFICES ASSUME j <= n PROVE f[l] = Cat(a, Cat(s, g[j]))
    OBVIOUS
  <2>1. k # 0 => f[j] = Cat(a, Cat(s, g[k]))
    BY <1>2
  <2>2. j \in 1 .. n /\ j + 1 = l /\ (k # 0 => k \in 1 .. n - 1 /\ k \in 1 .. n)
    OBVIOUS
  <2> HIDE DEF T, j, l
  <2>3. f[l] = Cat(f[j], p[l])
    <3>1. \A i \in 1 .. n + 1 - 1 : f[i + 1] = Cat(f[i], p[i + 1])
      BY DEF Running
    <3>2. j \in 1 .. n + 1 - 1
      BY <2>2
    <3> QED
      BY <2>2, <3>1, <3>2
  <2>4. CASE k = 0
    <3>1. f[1] = a /\ g[1] = q[1] /\ j = 1 /\ l = 2
      BY <2>4 DEF Running, Precedes, j, l
    <3> QED
      BY <2>3, <3>1 DEF Precedes
  <2>5. CASE k # 0
    <3> DEFINE b == g[k]
               c == q[j]
    <3>1. p[l] = c /\ c \in Seq(S)
      <4>1. p[k + 2] = q[k + 1] /\ q[k + 1] \in Seq(S)
        BY <2>2, <2>5 DEF Precedes
      <4> QED
        BY <4>1 DEF j, l
    <3>2. g[j] = Cat(b, c)
      <4>1. g[k + 1] = Cat(g[k], q[k + 1])
        BY <2>2, <2>5 DEF Running
      <4> QED
        BY <4>1 DEF j
    <3>3. b \in Seq(S)
      BY <2>2, <2>5 DEF Running
    <3> HIDE DEF b, c
    <3>4. Cat(Cat(a, Cat(s, b)), c) = Cat(a, Cat(s, Cat(b, c)))
      BY <3>1, <3>3, CatIs
    <3>5. f[j] = Cat(a, Cat(s, b))
      BY <2>1, <2>5 DEF b
    <3> QED
      BY <2>3, <3>1, <3>2, <3>4, <3>5
  <2> QED
    BY <2>4, <2>5
<1> HIDE DEF T
<1>3. n \in T
  BY <1>1, <1>2, Induction
<1> QED
  BY <1>3 DEF T

\* The list of one text, and of one text and others.
LEMMA ListedIs ==
  ASSUME NEW S, NEW kind, Sign(kind) \in S
  PROVE  /\ \A a \in Seq(S) : Listed(kind, <<a>>) = a
         /\ \A q \in Seq(Seq(S)) \ {<<>>} : Listed(kind, q) \in Seq(S)
         /\ \A a \in Seq(S), q \in Seq(Seq(S)) \ {<<>>} :
              Listed(kind, <<a>> \o q) = a \o (<<Sign(kind)>> \o Listed(kind, q))
<1> DEFINE sign == <<Sign(kind)>>
           Marked(q) == [i \in DOMAIN q |-> IF i = 1 THEN q[i] ELSE sign \o q[i]]
<1>0. sign \in Seq(S)
  OBVIOUS
<1>1. \A q : Listed(kind, q) = FlattenSeq(Marked(q))
  BY DEF Listed
<1> HIDE DEF sign
<1>2. ASSUME NEW q \in Seq(Seq(S)), q # <<>>
      PROVE  /\ Marked(q) \in Seq(Seq(S)) \ {<<>>} /\ Len(Marked(q)) = Len(q) /\ Len(q) \in Nat \ {0}
             /\ DOMAIN q = 1 .. Len(q)
  <2>1. Len(q) \in Nat \ {0} /\ DOMAIN q = 1 .. Len(q) /\ \A i \in 1 .. Len(q) : q[i] \in Seq(S)
    BY <1>2, EmptySeq, LenProperties, ElementOfSeq
  <2>2. \A i \in 1 .. Len(q) : sign \o q[i] \in Seq(S)
    BY <1>0, <2>1, ConcatProperties
  <2>3. Marked(q) \in [1 .. Len(q) -> Seq(S)]
    BY <2>1, <2>2
  <2>4. Marked(q) \in Seq(Seq(S)) /\ Len(Marked(q)) = Len(q)
    <3> DEFINE m == Marked(q)
               k == Len(q)
    <3>1. k \in Nat /\ m \in [1 .. k -> Seq(S)]
      BY <2>1, <2>3
    <3> HIDE DEF m, k
    <3>2. m \in Seq(Seq(S)) /\ Len(m) = k
      BY <3>1
    <3> QED
      BY <3>2 DEF m, k
  <2> QED
    BY <2>1, <2>4, EmptySeq
<1>3. ASSUME NEW a \in Seq(S) PROVE Listed(kind, <<a>>) = a
  <2> DEFINE q == <<a>>
  <2>1. q \in Seq(Seq(S)) /\ q # <<>> /\ Len(q) = 1 /\ q[1] = a
    OBVIOUS
  <2> HIDE DEF q
  <2>2. Marked(q)[1] = a
    BY <1>2, <2>1
  <2>3. Marked(q) \in Seq(Seq(S)) /\ Marked(q) # <<>> /\ Len(Marked(q)) = 1
    BY <1>2, <2>1
  <2> HIDE DEF Marked
  <2>4. FlattenSeq(Marked(q)) = a
    <3>1. PICK f : Running(Marked(q), 1, f, S) /\ FlattenSeq(Marked(q)) = f[1]
      BY <2>3, FlattenIs
    <3> QED
      BY <2>2, <3>1 DEF Running
  <2> QED
    BY <1>1, <2>4 DEF q
<1>4. ASSUME NEW q \in Seq(Seq(S)), q # <<>> PROVE Listed(kind, q) \in Seq(S)
  <2>1. Marked(q) \in Seq(Seq(S)) /\ Marked(q) # <<>> /\ Len(Marked(q)) \in Nat \ {0}
    BY <1>2, <1>4
  <2> HIDE DEF Marked
  <2>2. PICK f : Running(Marked(q), Len(Marked(q)), f, S) /\ FlattenSeq(Marked(q)) = f[Len(Marked(q))]
    BY <2>1, FlattenIs
  <2>3. FlattenSeq(Marked(q)) \in Seq(S)
    <3> DEFINE n == Len(Marked(q))
    <3>1. f \in [1 .. n -> Seq(S)] /\ n \in 1 .. n
      BY <2>1, <2>2 DEF Running
    <3> HIDE DEF n
    <3>2. f[n] \in Seq(S)
      BY <3>1
    <3> QED
      BY <2>2, <3>2 DEF n
  <2> QED
    BY <1>1, <2>3
<1>5. ASSUME NEW a \in Seq(S), NEW q \in Seq(Seq(S)), q # <<>>
      PROVE  Listed(kind, <<a>> \o q) = a \o (sign \o Listed(kind, q))
  <2> DEFINE p == <<a>> \o q
             n == Len(q)
  <2>1. /\ p \in Seq(Seq(S)) /\ p # <<>> /\ Len(p) = n + 1 /\ p[1] = a /\ n \in Nat \ {0}
        /\ \A i \in 1 .. n : p[i + 1] = q[i] /\ q[i] \in Seq(S)
    <3>1. <<a>> \in Seq(Seq(S)) /\ Len(<<a>>) = 1 /\ <<a>>[1] = a
      OBVIOUS
    <3>2. n \in Nat \ {0}
      BY <1>2, <1>5
    <3>3. /\ p \in Seq(Seq(S)) /\ Len(p) = 1 + n
          /\ \A i \in 1 .. 1 + n : p[i] = IF i <= 1 THEN <<a>>[i] ELSE q[i - 1]
      BY <3>1, ConcatProperties
    <3> HIDE DEF p, n
    <3>4. \A i \in 1 .. n : q[i] \in Seq(S)
      BY ElementOfSeq DEF n
    <3>5. p # <<>>
      BY <3>2, <3>3, EmptySeq
    <3>6. ASSUME NEW i \in 1 .. n PROVE p[i + 1] = q[i]
      <4>1. i + 1 \in 1 .. 1 + n /\ ~(i + 1 <= 1) /\ i + 1 - 1 = i
        BY <3>2
      <4> QED
        BY <3>3, <4>1
    <3> QED
      BY <3>1, <3>2, <3>3, <3>4, <3>5, <3>6
  <2>2. /\ Marked(p) \in Seq(Seq(S)) /\ Marked(p) # <<>> /\ Len(Marked(p)) = n + 1 /\ DOMAIN p = 1 .. n + 1
        /\ Marked(q) \in Seq(Seq(S)) /\ Marked(q) # <<>> /\ Len(Marked(q)) = n /\ DOMAIN q = 1 .. n
    <3> HIDE DEF p, Marked
    <3> QED
      BY <1>2, <1>5, <2>1
  <2> HIDE DEF p, n
  <2>3. /\ Marked(p)[1] = a /\ Marked(p)[2] = Cat(sign, Marked(q)[1])
        /\ \A i \in 1 .. n - 1 : Marked(p)[i + 1 + 1] = Marked(q)[i + 1]
    <3>1. Marked(p)[1] = a /\ Marked(p)[2] = Cat(sign, p[2]) /\ Marked(q)[1] = q[1] /\ p[2] = q[1]
      BY <2>1, <2>2 DEF Cat
    <3>2. ASSUME NEW i \in 1 .. n - 1 PROVE Marked(p)[i + 1 + 1] = Marked(q)[i + 1]
      <4>1. i + 1 + 1 \in DOMAIN p /\ i + 1 + 1 # 1 /\ i + 1 \in DOMAIN q /\ i + 1 # 1 /\ i + 1 \in 1 .. n
        BY <2>1, <2>2
      <4>2. p[i + 1 + 1] = q[i + 1]
        BY <2>1, <4>1
      <4> QED
        BY <4>1, <4>2
    <3> QED
      BY <3>1, <3>2
  <2>4. \A i \in 1 .. n : Marked(q)[i] \in Seq(S)
    BY <2>2, ElementOfSeq
  <2> HIDE DEF Marked
  <2>5. PICK f : Running(Marked(p), n + 1, f, S) /\ FlattenSeq(Marked(p)) = f[n + 1]
    <3> HIDE DEF Marked
    <3> QED
      BY <2>2, FlattenIs
  <2>6. PICK g : Running(Marked(q), n, g, S) /\ FlattenSeq(Marked(q)) = g[n]
    <3> HIDE DEF Marked
    <3> QED
      BY <2>2, FlattenIs
  <2>7. \A i \in 1 .. n - 1 : Marked(p)[i + 2] = Marked(q)[i + 1] /\ Marked(q)[i + 1] \in Seq(S)
    <3> TAKE i \in 1 .. n - 1
    <3>1. i + 1 \in 1 .. n /\ i + 1 + 1 = i + 2
      BY <2>1
    <3> QED
      BY <2>3, <2>4, <3>1
  <2>8. f[n + 1] = Cat(a, Cat(sign, g[n]))
    <3> DEFINE P == Marked(p)
               Q == Marked(q)
    <3>1. P[1] = a /\ P[2] = Cat(sign, Q[1]) /\ Running(P, n + 1, f, S) /\ Running(Q, n, g, S)
      BY <2>3, <2>5, <2>6
    <3>2. \A i \in 1 .. n - 1 : P[i + 2] = Q[i + 1] /\ Q[i + 1] \in Seq(S)
      BY <2>7
    <3> DEFINE m == n + 1
    <3>3. n \in Nat \ {0} /\ m = n + 1 /\ Running(P, m, f, S) /\ Running(Q, n, g, S)
      BY <2>1, <3>1
    <3> HIDE DEF P, Q, m
    <3>4. a \in Seq(S) /\ sign \in Seq(S)
      BY <1>0, <1>5
    <3>5. Precedes(P, Q, n, a, sign, S)
      BY <3>1, <3>2 DEF Precedes
    <3>6. f[m] = Cat(a, Cat(sign, g[n]))
      BY <3>3, <3>4, <3>5, RunningBehind
    <3> QED
      BY <3>3, <3>6
  <2> QED
    BY <1>1, <2>5, <2>6, <2>8 DEF p, Cat
<1> QED
  BY <1>3, <1>4, <1>5 DEF sign

\* A row of operands' texts with signs between them.
Row(x) == Listed(x.kind, [i \in DOMAIN x.args |-> PrintTree(x.args[i])])

\* The texts are sequences of symbols.
LEMMA PrintTypes ==
  /\ \A v \in Values : PrintValue(v) \in Seq(Symbols)
  /\ \A x \in Trees : x.kind = "compare" =>
       <<"(", x.id, IF x.op = "EQ" THEN "==" ELSE "!=">> \o PrintValue(x.value) \o <<")">> \in Seq(Symbols)
  /\ \A b : PrintBool(b) \in Seq(Symbols)
  /\ \A args : \A s \in Seq(Symbols) : Parenthesize(args, s) \in Seq(Symbols)
  /\ \A s \in Seq(Symbols) : <<"!">> \o s \in Seq(Symbols)
  /\ Sign("or") \in Symbols /\ Sign("and") \in Symbols
<1>0. {"true", "false", "(", ")", "!", "&&", "||", "==", "!=", Single} \union Identifiers \union DOMAIN Longs
         \subseteq Symbols
  BY SymbolsAssumption DEF Bools, Operators
<1> HIDE DEF Single
<1>1. /\ <<"(">> \in Seq(Symbols) /\ <<")">> \in Seq(Symbols) /\ <<"!">> \in Seq(Symbols)
      /\ <<Single>> \in Seq(Symbols)
  BY <1>0
<1>2. \A b : PrintBool(b) \in Seq(Symbols)
  BY <1>0 DEF PrintBool
<1>3. ASSUME NEW v \in Values PROVE PrintValue(v) \in Seq(Symbols)
  <2>1. CASE v.type = "string"
    <3>1. v.of \in Seq(Symbols)
      BY <2>1 DEF Values
    <3>2. PrintValue(v) = <<Single>> \o v.of \o <<Single>>
      BY <2>1 DEF PrintValue
    <3> DEFINE a == <<Single>>
               b == v.of
    <3>3. a \in Seq(Symbols) /\ b \in Seq(Symbols)
      BY <1>1, <3>1
    <3> HIDE DEF a, b
    <3>4. a \o b \o a \in Seq(Symbols)
      BY <3>3
    <3> QED
      BY <3>2, <3>4 DEF a, b
  <2>2. CASE v.type = "bool"
    BY <1>2, <2>2 DEF PrintValue
  <2>3. CASE v.type = "long"
    <3> DEFINE n == CHOOSE n \in DOMAIN Longs : Longs[n] = v.of
    <3>1. \E m \in DOMAIN Longs : Longs[m] = v.of
      BY <2>3 DEF Values
    <3>2. n \in DOMAIN Longs
      BY <3>1
    <3>3. PrintValue(v) = <<n>>
      BY <2>3 DEF PrintValue
    <3> HIDE DEF n
    <3> QED
      BY <1>0, <3>2, <3>3
  <2> QED
    BY <2>1, <2>2, <2>3 DEF Values
<1>4. ASSUME NEW x \in Trees, x.kind = "compare"
      PROVE  <<"(", x.id, IF x.op = "EQ" THEN "==" ELSE "!=">> \o PrintValue(x.value) \o <<")">> \in Seq(Symbols)
  <2> DEFINE a == <<"(", x.id, IF x.op = "EQ" THEN "==" ELSE "!=">>
             b == PrintValue(x.value)
             c == <<")">>
  <2>1. x.id \in Identifiers /\ x.value \in Values
    <3>1. x \in Leaves
      BY <1>4, TreeOverTrees, Kinds
    <3> QED
      BY <1>4, <3>1 DEF Leaves
  <2>2. a \in Seq(Symbols)
    BY <1>0, <2>1
  <2>3. b \in Seq(Symbols) /\ c \in Seq(Symbols)
    BY <1>1, <1>3, <2>1
  <2> HIDE DEF a, b, c
  <2>4. a \o b \o c \in Seq(Symbols)
    BY <2>2, <2>3
  <2> QED
    BY <2>4 DEF a, b, c
<1>5. ASSUME NEW s \in Seq(Symbols), NEW args PROVE Parenthesize(args, s) \in Seq(Symbols)
  <2> DEFINE a == <<"(">>
             c == <<")">>
  <2>1. a \in Seq(Symbols) /\ c \in Seq(Symbols)
    BY <1>1
  <2> HIDE DEF a, c
  <2>2. a \o s \o c \in Seq(Symbols)
    BY <2>1
  <2> QED
    BY <2>2 DEF Parenthesize, a, c
<1>6. ASSUME NEW s \in Seq(Symbols) PROVE <<"!">> \o s \in Seq(Symbols)
  BY <1>1
<1> QED
  BY <1>0, <1>2, <1>3, <1>4, <1>5, <1>6 DEF Sign

\* The printer computes what its cases say.
LEMMA PrintTreeIs ==
  \A x \in Trees :
    /\ x.kind = "bool" => PrintTree(x) = PrintBool(x.value)
    /\ x.kind = "compare" => PrintTree(x) =
         <<"(", x.id, IF x.op = "EQ" THEN "==" ELSE "!=">> \o PrintValue(x.value) \o <<")">>
    /\ x.kind = "not" => PrintTree(x) = <<"!">> \o PrintTree(x.arg)
    /\ x.kind \in {"or", "and"} => PrintTree(x) = Parenthesize(x.args, Row(x))
<1> DEFINE V == Seq(Symbols)
           Texted(f, y) == [i \in DOMAIN y.args |-> f[y.args[i]]]
           Compared(y) == <<"(", y.id, IF y.op = "EQ" THEN "==" ELSE "!=">> \o PrintValue(y.value) \o <<")">>
           Not(s) == <<"!">> \o s
           Cases(f, y) ==
             CASE y.kind = "bool" -> PrintBool(y.value)
               [] y.kind = "compare" -> Compared(y)
               [] y.kind = "not" -> Not(f[y.arg])
               [] OTHER -> Parenthesize(y.args, Listed(y.kind, Texted(f, y)))
           S(f) == [y \in Trees |-> Cases(f, y)]
           F == [f \in [Trees -> V] |-> S(f)]
           q == CHOOSE f : f = S(f)
<1>3. \A x : PrintTree(x) = q[x]
  BY DEF PrintTree
<1>0. /\ \A y \in Trees : y.kind = "compare" => Compared(y) \in V
      /\ \A s \in V : Not(s) \in V
  BY PrintTypes
<1> HIDE DEF V, Compared, Not
<1>1. ASSUME NEW f \in [Trees -> V], NEW y \in Trees PROVE Cases(f, y) \in V
  <2>1. CASE y.kind = "bool"
    BY <2>1, PrintTypes DEF V
  <2>2. CASE y.kind = "compare"
    BY <1>0, <2>2
  <2>3. CASE y.kind = "not"
    BY <1>0, <2>3, Parts
  <2>4. CASE y.kind \in {"or", "and"}
    <3> DEFINE r == Texted(f, y)
    <3>1. r \in [1 .. Len(y.args) -> V] /\ Len(y.args) \in Nat \ {0}
      BY <2>4, Parts
    <3>2. r \in Seq(V) /\ r # <<>>
      <4> DEFINE n == Len(y.args)
      <4>1. r \in [1 .. n -> V] /\ n \in Nat \ {0}
        BY <3>1
      <4> HIDE DEF r, n
      <4>2. r \in Seq(V) /\ Len(r) = n
        BY <4>1
      <4> QED
        BY <4>1, <4>2, EmptySeq
    <3> HIDE DEF r
    <3>3. Listed(y.kind, r) \in V
      BY <2>4, <3>2, ListedIs, PrintTypes DEF V
    <3> QED
      BY <2>4, <3>3, PrintTypes DEF V, r
  <2> QED
    BY <2>1, <2>2, <2>3, <2>4, Parts
<1>2. ASSUME NEW f \in [Trees -> V], NEW g \in [Trees -> V], NEW y \in Trees,
             \A z \in Below(y) : f[z] = g[z]
      PROVE  Cases(f, y) = Cases(g, y)
  <2>1. CASE y.kind \in {"bool", "compare"}
    BY <2>1
  <2>2. CASE y.kind = "not"
    BY <1>2, <2>2, Parts
  <2>3. CASE y.kind \in {"or", "and"}
    <3>1. Texted(f, y) = Texted(g, y)
      BY <1>2, <2>3, Parts
    <3> QED
      BY <2>3, <3>1
  <2> QED
    BY <2>1, <2>2, <2>3, Parts
<1>4. q = S(q)
  <2> HIDE DEF Cases
  <2>1. F \in [[Trees -> V] -> [Trees -> V]]
    BY <1>1
  <2>2. \A f, g \in [Trees -> V], x \in Trees :
          (\A y \in Below(x) : f[y] = g[y]) => F[f][x] = F[g][x]
    BY <1>2
  <2>3. <<>> \in V
    BY DEF V
  <2>4. \A f \in [Trees -> V] : F[f] = S(f)
    OBVIOUS
  <2> HIDE DEF F, S
  <2>5. \E f \in [Trees -> V] : f = F[f]
    BY <2>1, <2>2, <2>3, Recursion
  <2> QED
    BY <2>4, <2>5
<1> HIDE DEF q
<1> TAKE x \in Trees
<1>5. PrintTree(x) = Cases(q, x)
  <2> HIDE DEF Cases
  <2> QED
    BY <1>3, <1>4
<1>6. [i \in DOMAIN x.args |-> PrintTree(x.args[i])] = Texted(q, x)
  BY <1>3
<1>7. Row(x) = Listed(x.kind, Texted(q, x))
  BY <1>6 DEF Row
<1> HIDE DEF Texted
<1> QED
  BY <1>3, <1>5, <1>7 DEF Compared, Not

\* What it makes of a tree is a text.
LEMMA PrintTreeType == \A x \in Trees : PrintTree(x) \in Seq(Symbols)
<1> DEFINE V == Seq(Symbols)
           P == {x \in Trees : PrintTree(x) \in V}
<1>1. ASSUME NEW x \in Trees, Below(x) \subseteq P PROVE PrintTree(x) \in V
  <2>1. CASE x.kind = "bool"
    BY <2>1, PrintTreeIs, PrintTypes
  <2>2. CASE x.kind = "compare"
    BY <2>2, PrintTreeIs, PrintTypes
  <2>3. CASE x.kind = "not"
    <3>1. x.arg \in P
      BY <1>1, <2>3, Parts
    <3> HIDE DEF V
    <3> QED
      BY <2>3, <3>1, PrintTreeIs, PrintTypes DEF V
  <2>4. CASE x.kind \in {"or", "and"}
    <3> DEFINE r == [i \in DOMAIN x.args |-> PrintTree(x.args[i])]
    <3>1. r \in Seq(V) /\ r # <<>>
      <4> DEFINE n == Len(x.args)
      <4>1. r \in [1 .. n -> V] /\ n \in Nat \ {0}
        BY <1>1, <2>4, Parts
      <4> HIDE DEF r, n, V
      <4>2. r \in Seq(V) /\ Len(r) = n
        BY <4>1
      <4> QED
        BY <4>1, <4>2, EmptySeq
    <3>2. Listed(x.kind, r) \in V
      <4> HIDE DEF r
      <4> QED
        BY <2>4, <3>1, ListedIs, PrintTypes
    <3>3. Row(x) \in V
      BY <3>2 DEF Row
    <3>4. PrintTree(x) = Parenthesize(x.args, Row(x))
      BY <2>4, PrintTreeIs
    <3> QED
      BY <3>3, <3>4, PrintTypes
  <2> QED
    BY <2>1, <2>2, <2>3, <2>4, Parts
<1>2. Trees \subseteq P
  <2>1. \A x \in Trees : Below(x) \subseteq P => x \in P
    BY <1>1
  <2> HIDE DEF P
  <2> QED
    BY <2>1, TreeInduction
<1> QED
  BY <1>2

\* An expression without its first operand.
Rest(x) == [kind |-> x.kind, args |-> Tail(x.args)]

\* The operands behind the first are a row of their own.
LEMMA RestIs ==
  ASSUME NEW x \in Trees, x.kind \in {"or", "and"}, Len(x.args) # 1
  PROVE  /\ Rest(x) \in Trees /\ Rest(x).kind = x.kind /\ Len(Rest(x).args) = Len(x.args) - 1
         /\ x.args = <<x.args[1]>> \o Rest(x).args
         /\ \A i \in 1 .. Len(x.args) - 1 : Rest(x).args[i] = x.args[i + 1]
<1> DEFINE s == x.args
           r == Tail(s)
<1>1. Len(s) \in Nat /\ Len(s) > 1 /\ s \in Seq(Trees) /\ s # <<>>
  <2>1. Len(s) \in Nat \ {0} /\ Len(s) # 1 /\ s \in Seq(Trees)
    BY Parts
  <2>2. Len(<<>>) = 0
    OBVIOUS
  <2> HIDE DEF s
  <2>3. s # <<>>
    BY <2>1, <2>2
  <2>4. Len(s) > 1
    <3> DEFINE n == Len(s)
    <3>1. n \in Nat \ {0} /\ n # 1
      BY <2>1
    <3> HIDE DEF n
    <3>2. n > 1
      BY <3>1
    <3> QED
      BY <3>2 DEF n
  <2> QED
    BY <2>1, <2>3, <2>4
<1>2. PICK S : s \in Seq(S) /\ Over(S) \subseteq Trees
  <2>1. MaxDepth # 0
    BY TreesAre, Kinds DEF Trees, Over, Leaves
  <2> DEFINE m == MaxDepth - 1
  <2>2. m \in Nat /\ m < MaxDepth /\ m + 1 = MaxDepth
    BY <2>1, DepthAssumption
  <2>3. Trees = Over(trees[m])
    BY <2>2, TreesAre DEF Trees
  <2>4. s \in Seq(trees[m])
    BY <2>3, Kinds
  <2> QED
    BY <2>3, <2>4
<1>3. r \in Seq(S) /\ Len(r) = Len(s) - 1 /\ \A i \in 1 .. Len(r) : r[i] = s[i + 1]
  BY <1>1, <1>2, HeadTailProperties
<1> HIDE DEF s, r
<1>4. r # <<>>
  BY <1>1, <1>3, EmptySeq
<1>5. Rest(x).kind = x.kind /\ Rest(x).args = r
  BY DEF Rest, r, s
<1>6. Rest(x) \in Trees
  <2>1. Rest(x) \in [kind : {"or", "and"}, args : Seq(S) \ {<<>>}]
    BY <1>3, <1>4 DEF Rest, r, s
  <2> QED
    BY <1>2, <2>1 DEF Over
<1>7. s = <<s[1]>> \o r
  <2>1. s[1] \in S
    BY <1>1, <1>2, ElementOfSeq
  <2>2. <<s[1]>> \in Seq(S) /\ Len(<<s[1]>>) = 1 /\ <<s[1]>>[1] = s[1]
    BY <2>1
  <2> DEFINE h == <<s[1]>>
             c == h \o r
  <2>3. c \in Seq(S) /\ Len(c) = 1 + Len(r) /\ \A i \in 1 .. 1 + Len(r) : c[i] = IF i <= 1 THEN h[i] ELSE r[i - 1]
    BY <1>3, <2>2, ConcatProperties
  <2> HIDE DEF h, c
  <2>4. Len(c) = Len(s)
    BY <1>1, <1>3, <2>3
  <2>5. ASSUME NEW i \in 1 .. Len(s) PROVE s[i] = c[i]
    <3>1. CASE i = 1
      BY <1>1, <1>3, <2>2, <2>3, <3>1 DEF h
    <3>2. CASE i # 1
      <4> DEFINE j == i - 1
      <4>1. j \in 1 .. Len(r) /\ j + 1 = i /\ i \in 1 .. 1 + Len(r) /\ ~(i <= 1)
        BY <1>1, <1>3, <3>2
      <4>2. r[j] = s[j + 1]
        BY <1>3, <4>1
      <4> QED
        BY <2>3, <4>1, <4>2
    <3> QED
      BY <3>1, <3>2
  <2>6. s = c
    BY <1>2, <2>3, <2>4, <2>5, SeqEqual
  <2> QED
    BY <2>6 DEF c, h
<1> QED
  BY <1>3, <1>5, <1>6, <1>7 DEF s

\* A row is its first text, and behind a sign the rest.
LEMMA RowIs ==
  ASSUME NEW x \in Trees, x.kind \in {"or", "and"}
  PROVE  /\ Row(x) \in Seq(Symbols) /\ x.args[1] \in Trees /\ x.args[1] \in Below(x)
         /\ Len(x.args) = 1 => Row(x) = PrintTree(x.args[1])
         /\ Len(x.args) # 1 => Row(x) = PrintTree(x.args[1]) \o (<<Sign(x.kind)>> \o Row(Rest(x)))
<1> DEFINE V == Seq(Symbols)
           n == Len(x.args)
           r == [i \in DOMAIN x.args |-> PrintTree(x.args[i])]
<1>0. Sign(x.kind) \in Symbols
  BY PrintTypes
<1> DEFINE sign == <<Sign(x.kind)>>
<1>1. /\ \A a \in V : Listed(x.kind, <<a>>) = a
      /\ \A q \in Seq(V) \ {<<>>} : Listed(x.kind, q) \in V
      /\ \A a \in V, q \in Seq(V) \ {<<>>} : Listed(x.kind, <<a>> \o q) = a \o (sign \o Listed(x.kind, q))
  BY <1>0, ListedIs
<1>2. r \in [1 .. n -> V] /\ n \in Nat \ {0} /\ \A i \in 1 .. n : r[i] = PrintTree(x.args[i])
  BY Parts, PrintTreeType
<1>3. x.args[1] \in Trees /\ x.args[1] \in Below(x)
  BY <1>2, Parts
<1>4. Row(x) = Listed(x.kind, r)
  BY DEF Row
<1> HIDE DEF n, r, V, sign
<1>5. r \in Seq(V) /\ Len(r) = n
  BY <1>2
<1>6. r # <<>> /\ r[1] \in V /\ r[1] = PrintTree(x.args[1])
  BY <1>2, <1>5, EmptySeq
<1>7. Row(x) \in V
  BY <1>4, <1>5, <1>6, <1>1
<1>8. CASE n = 1
  <2>1. r = <<r[1]>>
    BY <1>5, <1>8
  <2>2. Listed(x.kind, <<r[1]>>) = r[1]
    BY <1>6, <1>1
  <2> QED
    BY <1>3, <1>4, <1>6, <1>7, <1>8, <2>1, <2>2 DEF V, n
<1>9. CASE n # 1
  <2> DEFINE y == Rest(x)
             q == [i \in DOMAIN y.args |-> PrintTree(y.args[i])]
             m == Len(y.args)
  <2>1. /\ y \in Trees /\ y.kind = x.kind /\ m = n - 1
        /\ \A i \in 1 .. n - 1 : y.args[i] = x.args[i + 1]
    BY <1>9, RestIs DEF n
  <2>2. q \in [1 .. m -> V] /\ m \in Nat \ {0} /\ \A i \in 1 .. m : q[i] = PrintTree(y.args[i])
    BY <2>1, Parts, PrintTreeType DEF V
  <2>3. Row(y) = Listed(x.kind, q)
    BY <2>1 DEF Row
  <2> HIDE DEF y, q, m
  <2>4. q \in Seq(V) /\ Len(q) = m /\ q # <<>>
    BY <2>2, EmptySeq
  <2>5. r = <<r[1]>> \o q
    <3> DEFINE h == <<r[1]>>
               c == h \o q
    <3>1. h \in Seq(V) /\ Len(h) = 1 /\ h[1] = r[1]
      BY <1>6
    <3>2. c \in Seq(V) /\ Len(c) = 1 + m /\ \A i \in 1 .. 1 + m : c[i] = IF i <= 1 THEN h[i] ELSE q[i - 1]
      BY <2>4, <3>1, ConcatProperties
    <3> HIDE DEF h, c
    <3>3. ASSUME NEW i \in 1 .. Len(r) PROVE r[i] = c[i]
      <4>1. i \in 1 .. n /\ i \in 1 .. 1 + m
        BY <1>2, <1>5, <2>1
      <4>2. CASE i = 1
        BY <3>1, <3>2, <4>1, <4>2
      <4>3. CASE i # 1
        <5> DEFINE j == i - 1
        <5>1. j \in 1 .. m /\ j \in 1 .. n - 1 /\ j + 1 = i /\ ~(i <= 1)
          BY <1>2, <2>1, <4>1, <4>3
        <5>2. q[j] = PrintTree(x.args[j + 1])
          BY <2>1, <2>2, <5>1
        <5> QED
          BY <1>2, <3>2, <4>1, <5>1, <5>2
      <4> QED
        BY <4>2, <4>3
    <3>4. Len(r) = Len(c)
      BY <1>2, <1>5, <2>1, <3>2
    <3>5. r = c
      BY <1>5, <3>2, <3>3, <3>4, SeqEqual
    <3> QED
      BY <3>5 DEF c, h
  <2>6. Listed(x.kind, <<r[1]>> \o q) = r[1] \o (sign \o Listed(x.kind, q))
    BY <1>6, <1>1, <2>4
  <2> QED
    BY <1>3, <1>4, <1>6, <1>7, <1>9, <2>3, <2>5, <2>6 DEF V, n, y, sign
<1> QED
  BY <1>8, <1>9

\* A sequence behind a nonempty one, and one in parentheses.
LEMMA Heads ==
  ASSUME NEW S, NEW a \in Seq(S), NEW b \in Seq(S), a # <<>>
  PROVE  a \o b \in Seq(S) /\ a \o b # <<>> /\ (a \o b)[1] = a[1]
<1>1. Len(a) \in Nat /\ Len(a) # 0 /\ Len(b) \in Nat
  BY EmptySeq, LenProperties
<1>2. Len(a \o b) # 0 /\ (a \o b)[1] = a[1]
  BY <1>1
<1> QED
  BY <1>2

\* A text behind another.
LEMMA Behind ==
  ASSUME NEW a \in Seq(Symbols), NEW b \in Seq(Symbols)
  PROVE  /\ a \o b \in Seq(Symbols) /\ Len(a) \in Nat /\ Len(b) \in Nat /\ Len(a \o b) = Len(a) + Len(b)
         /\ \A i \in 1 .. Len(a) : (a \o b)[i] = a[i]
         /\ \A i \in 1 .. Len(b) : (a \o b)[Len(a) + i] = b[i]
<1> DEFINE c == a \o b
           m == Len(a)
           n == Len(b)
<1>1. m \in Nat /\ n \in Nat
  OBVIOUS
<1>2. c \in Seq(Symbols) /\ Len(c) = m + n
  OBVIOUS
<1>3. \A i \in 1 .. m + n : c[i] = IF i <= m THEN a[i] ELSE b[i - m]
  BY ConcatProperties
<1> HIDE DEF c, m, n
<1>4. \A i \in 1 .. m : c[i] = a[i]
  BY <1>1, <1>3
<1>5. ASSUME NEW i \in 1 .. n PROVE c[m + i] = b[i]
  <2> DEFINE j == m + i
  <2>1. j \in 1 .. m + n /\ ~(j <= m) /\ j - m = i
    BY <1>1
  <2> HIDE DEF j
  <2>2. c[j] = b[i]
    BY <1>3, <2>1
  <2> QED
    BY <2>2 DEF j
<1> QED
  BY <1>1, <1>2, <1>4, <1>5 DEF c, m, n

\* A text in parentheses.
LEMMA Enclosed ==
  ASSUME NEW s \in Seq(Symbols)
  PROVE  LET p == <<"(">> \o s \o <<")">>
         IN  /\ p \in Seq(Symbols) /\ Len(s) \in Nat /\ Len(p) = Len(s) + 2
             /\ p[1] = "(" /\ p[Len(s) + 2] = ")"
             /\ \A i \in 1 .. Len(s) : p[i + 1] = s[i]
<1> DEFINE a == <<"(">>
           c == <<")">>
           b == a \o s
           p == b \o c
           n == Len(s)
<1>1. a \in Seq(Symbols) /\ c \in Seq(Symbols) /\ Len(a) = 1 /\ Len(c) = 1 /\ a[1] = "(" /\ c[1] = ")"
  BY SymbolsAssumption
<1> HIDE DEF a, c
<1>2. /\ b \in Seq(Symbols) /\ n \in Nat /\ Len(b) = 1 + n
      /\ \A i \in 1 .. 1 : b[i] = a[i]
      /\ \A i \in 1 .. n : b[1 + i] = s[i]
  <2> HIDE DEF n
  <2> QED
    BY <1>1, Behind DEF n
<1> HIDE DEF b
<1>3. /\ p \in Seq(Symbols) /\ Len(p) = 1 + n + 1
      /\ \A i \in 1 .. 1 + n : p[i] = b[i]
      /\ \A i \in 1 .. 1 : p[1 + n + i] = c[i]
  <2>1. /\ p \in Seq(Symbols) /\ Len(p) = Len(b) + Len(c)
        /\ \A i \in 1 .. Len(b) : p[i] = b[i]
        /\ \A i \in 1 .. Len(c) : p[Len(b) + i] = c[i]
    BY <1>1, <1>2, Behind
  <2> HIDE DEF n, p
  <2> QED
    BY <1>1, <1>2, <2>1
<1> HIDE DEF p, n
<1>4. p[1] = "("
  BY <1>1, <1>2, <1>3
<1>5. p[n + 2] = ")"
  <2>1. p[1 + n + 1] = c[1] /\ 1 + n + 1 = n + 2
    BY <1>2, <1>3
  <2> QED
    BY <1>1, <2>1
<1>6. ASSUME NEW i \in 1 .. n PROVE p[i + 1] = s[i]
  <2>1. 1 + i \in 1 .. 1 + n /\ 1 + i = i + 1
    BY <1>2
  <2> QED
    BY <1>2, <1>3, <2>1
<1>7. Len(p) = n + 2
  BY <1>2, <1>3
<1> QED
  BY <1>2, <1>3, <1>4, <1>5, <1>6, <1>7 DEF p, b, a, c, n

\* No text is empty: it starts as a primary or with a negation.
LEMMA PrintTreeStarts ==
  \A x \in Trees : PrintTree(x) # <<>> /\ PrintTree(x)[1] \in Bools \union {"(", "!"}
<1> DEFINE V == {s \in Seq(Symbols) : s # <<>> /\ s[1] \in Bools \union {"(", "!"}}
           P == {x \in Trees : PrintTree(x) \in V}
<1>1. ASSUME NEW x \in Trees, Below(x) \subseteq P PROVE PrintTree(x) \in V
  <2>0. PrintTree(x) \in Seq(Symbols)
    BY PrintTreeType
  <2>1. CASE x.kind = "bool"
    <3>1. PrintTree(x) = <<IF x.value THEN "true" ELSE "false">>
      BY <2>1, PrintTreeIs DEF PrintBool
    <3> QED
      BY <2>0, <3>1 DEF Bools
  <2>2. CASE x.kind = "compare"
    <3> DEFINE a == <<"(", x.id, IF x.op = "EQ" THEN "==" ELSE "!=">>
               b == PrintValue(x.value)
               c == <<")">>
    <3>1. PrintTree(x) = a \o b \o c
      BY <2>2, PrintTreeIs
    <3>2. x.value \in Values
      <4>1. x \in Leaves
        BY <2>2, TreeOverTrees, Kinds
      <4> QED
        BY <2>2, <4>1 DEF Leaves
    <3>3. b \in Seq(Symbols) /\ c \in Seq(Symbols) /\ a \in Seq(Symbols) /\ a # <<>> /\ a[1] = "("
      <4>1. "(" \in Symbols /\ ")" \in Symbols /\ "==" \in Symbols /\ "!=" \in Symbols /\ x.id \in Symbols
        BY <2>2, Parts, SymbolsAssumption DEF Operators
      <4> QED
        BY <3>2, <4>1, PrintTypes
    <3> HIDE DEF a, b, c
    <3>4. a \o b \in Seq(Symbols) /\ a \o b # <<>> /\ (a \o b)[1] = "("
      BY <3>3, Heads
    <3> DEFINE d == a \o b
    <3> HIDE DEF d
    <3>5. d \o c # <<>> /\ (d \o c)[1] = "("
      BY <3>3, <3>4, Heads DEF d
    <3> QED
      BY <2>0, <3>1, <3>5 DEF d
  <2>3. CASE x.kind = "not"
    <3> DEFINE p == PrintTree(x.arg)
               a == <<"!">>
    <3>1. p \in Seq(Symbols) /\ PrintTree(x) = a \o p /\ a \in Seq(Symbols) /\ a # <<>> /\ a[1] = "!"
      <4>1. p \in Seq(Symbols) /\ PrintTree(x) = a \o p
        BY <2>3, Parts, PrintTreeType, PrintTreeIs
      <4>2. a \in Seq(Symbols) /\ a # <<>> /\ a[1] = "!"
        BY SymbolsAssumption
      <4> QED
        BY <4>1, <4>2
    <3> HIDE DEF p, a
    <3>2. a \o p # <<>> /\ (a \o p)[1] = "!"
      BY <3>1, Heads
    <3> QED
      BY <2>0, <3>1, <3>2
  <2>4. CASE x.kind \in {"or", "and"}
    <3> DEFINE r == Row(x)
               a == PrintTree(x.args[1])
    <3>1. r \in Seq(Symbols) /\ a \in Seq(Symbols) /\ a # <<>> /\ a[1] \in Bools \union {"(", "!"}
      <4>1. x.args[1] \in P
        BY <1>1, <2>4, RowIs
      <4> QED
        BY <2>4, <4>1, RowIs
    <3>2. r # <<>> /\ r[1] \in Bools \union {"(", "!"}
      <4>1. CASE Len(x.args) = 1
        BY <2>4, <3>1, <4>1, RowIs
      <4>2. CASE Len(x.args) # 1
        <5> DEFINE b == <<Sign(x.kind)>>
                   c == Row(Rest(x))
                   d == b \o c
        <5>1. r = a \o d
          BY <2>4, <4>2, RowIs
        <5>2. b \in Seq(Symbols) /\ c \in Seq(Symbols)
          <6>1. Rest(x) \in Trees /\ Rest(x).kind \in {"or", "and"}
            BY <2>4, <4>2, RestIs
          <6>2. c \in Seq(Symbols)
            BY <6>1, RowIs
          <6>3. Sign(x.kind) \in Symbols
            BY <2>4, PrintTypes
          <6> QED
            BY <6>2, <6>3
        <5> HIDE DEF a, b, c
        <5>3. d \in Seq(Symbols)
          BY <5>2, ConcatProperties
        <5> HIDE DEF d, r
        <5> QED
          BY <3>1, <5>1, <5>3, Heads
      <4> QED
        BY <4>1, <4>2
    <3>3. PrintTree(x) = IF Len(x.args) > 1 THEN <<"(">> \o r \o <<")">> ELSE r
      BY <2>4, PrintTreeIs DEF Parenthesize
    <3> HIDE DEF r
    <3>4. <<"(">> \o r \o <<")">> # <<>> /\ (<<"(">> \o r \o <<")">>)[1] = "("
      <4> DEFINE p == <<"(">> \o r \o <<")">>
      <4>1. Len(p) = Len(r) + 2 /\ p[1] = "(" /\ Len(r) \in Nat
        BY <3>1, Enclosed, LenProperties
      <4> HIDE DEF p
      <4>2. Len(p) # 0
        BY <4>1
      <4>3. p # <<>>
        BY <4>2
      <4> QED
        BY <4>1, <4>3 DEF p
    <3> QED
      BY <2>0, <3>2, <3>3, <3>4
  <2> QED
    BY <2>1, <2>2, <2>3, <2>4, Parts
<1>2. Trees \subseteq P
  <2>1. \A x \in Trees : Below(x) \subseteq P => x \in P
    BY <1>1
  <2> HIDE DEF P
  <2> QED
    BY <2>1, TreeInduction
<1> QED
  BY <1>2

(* ------------------------------ reading back ---------------------------- *)

\* A text has another one from a position on.
Stands(t, i, p) == i + Len(p) <= Len(t) + 1 /\ \A k \in 1 .. Len(p) : t[i + k - 1] = p[k]

\* What stands in a text stands there part by part.
LEMMA StandsApart ==
  ASSUME NEW t \in Seq(Symbols), NEW a \in Seq(Symbols), NEW b \in Seq(Symbols), NEW i \in Nat \ {0},
         Stands(t, i, a \o b)
  PROVE  Stands(t, i, a) /\ Stands(t, i + Len(a), b)
<1> DEFINE c == a \o b
           m == Len(a)
           n == Len(b)
           l == Len(t)
<1>1. /\ m \in Nat /\ n \in Nat /\ l \in Nat /\ Len(c) = m + n
      /\ \A k \in 1 .. m : c[k] = a[k]
      /\ \A k \in 1 .. n : c[m + k] = b[k]
  BY Behind, LenProperties
<1>2. i + Len(c) <= l + 1 /\ \A k \in 1 .. Len(c) : t[i + k - 1] = c[k]
  BY DEF Stands
<1> HIDE DEF c, m, n, l
<1>3. i + m <= l + 1 /\ i + m + n <= l + 1
  BY <1>1, <1>2
<1>4. ASSUME NEW k \in 1 .. m PROVE t[i + k - 1] = a[k]
  <2>1. k \in 1 .. Len(c)
    BY <1>1
  <2> QED
    BY <1>1, <1>2, <2>1
<1>5. ASSUME NEW k \in 1 .. n PROVE t[i + m + k - 1] = b[k]
  <2> DEFINE h == m + k
  <2>1. h \in 1 .. Len(c) /\ i + m + k - 1 = i + h - 1 /\ c[h] = b[k]
    BY <1>1
  <2> HIDE DEF h
  <2>2. t[i + h - 1] = b[k]
    BY <1>2, <2>1
  <2> QED
    BY <2>1, <2>2
<1> QED
  BY <1>3, <1>4, <1>5 DEF Stands, m, n, l

\* A symbol stands where the text has it.
LEMMA StandsOne ==
  ASSUME NEW t \in Seq(Symbols), NEW s, NEW i \in Nat \ {0}, Stands(t, i, <<s>>)
  PROVE  i \in 1 .. Len(t) /\ t[i] = s
<1>1. Len(t) \in Nat
  BY TextIs
<1>2. Len(<<s>>) = 1 /\ <<s>>[1] = s
  OBVIOUS
<1>3. i + 1 <= Len(t) + 1 /\ \A k \in 1 .. 1 : t[i + k - 1] = <<s>>[k]
  BY <1>2 DEF Stands
<1>4. i + 1 - 1 = i
  OBVIOUS
<1>5. t[i + 1 - 1] = s
  BY <1>2, <1>3
<1> QED
  BY <1>1, <1>3, <1>4, <1>5

\* Where a value's text stands, it is spelled, unless it is a string that the grammar
\* could not have read or that has a single mark.
LEMMA ValueStands ==
  ASSUME NEW t \in Seq(Symbols), NEW v \in Values, NEW i \in Nat \ {0}, Stands(t, i, PrintValue(v)),
         v.type = "string" => v.of # <<>> /\ \A k \in DOMAIN v.of : v.of[k] # Single
  PROVE  /\ Len(PrintValue(v)) \in Nat \ {0}
         /\ v \in Spelled(t, i, i + Len(PrintValue(v)) - 1)
<1>0. Len(t) \in Nat
  BY TextIs
<1>1. CASE v.type = "bool"
  <2>1. v = [type |-> "bool", of |-> v.of] /\ v.of \in BOOLEAN
    BY <1>1 DEF Values
  <2> DEFINE s == IF v.of THEN "true" ELSE "false"
  <2>2. PrintValue(v) = <<s>>
    BY <1>1 DEF PrintValue, PrintBool
  <2> HIDE DEF s
  <2>3. t[i] = s /\ Len(PrintValue(v)) = 1 /\ i + 1 - 1 = i
    BY <2>2, StandsOne
  <2>4. t[i] \in Bools /\ (t[i] = "true") = v.of
    BY <2>1, <2>3 DEF s, Bools
  <2>5. v \in Spelled(t, i, i)
    BY <2>1, <2>4 DEF Spelled
  <2> QED
    BY <2>3, <2>5
<1>2. CASE v.type = "long"
  <2>1. v = [type |-> "long", of |-> v.of] /\ \E n \in DOMAIN Longs : Longs[n] = v.of
    BY <1>2 DEF Values
  <2> DEFINE s == CHOOSE n \in DOMAIN Longs : Longs[n] = v.of
  <2>2. PrintValue(v) = <<s>>
    BY <1>2 DEF PrintValue
  <2>3. s \in DOMAIN Longs /\ Longs[s] = v.of
    BY <2>1
  <2> HIDE DEF s
  <2>4. t[i] = s /\ Len(PrintValue(v)) = 1 /\ i + 1 - 1 = i
    BY <2>2, StandsOne
  <2>5. v \in Spelled(t, i, i)
    BY <2>1, <2>3, <2>4 DEF Spelled
  <2> QED
    BY <2>4, <2>5
<1>3. CASE v.type = "string"
  <2> DEFINE q == v.of
             m == <<Single>>
             n == Len(q)
             j == i + n + 1
  <2>1. v = [type |-> "string", of |-> q] /\ q \in Seq(Symbols) /\ q # <<>> /\ \A k \in DOMAIN q : q[k] # Single
    BY <1>3 DEF Values
  <2>2. PrintValue(v) = m \o q \o m
    BY <1>3 DEF PrintValue
  <2>3. m \in Seq(Symbols) /\ Len(m) = 1
    BY SymbolsAssumption
  <2>4. n \in Nat \ {0} /\ DOMAIN q = 1 .. n
    BY <2>1, EmptySeq, LenProperties
  <2>5. /\ m \o q \in Seq(Symbols) /\ Len(m \o q) = 1 + n /\ Len(m \o q \o m) = 1 + n + 1
    <3> HIDE DEF m, q
    <3>1. m \o q \in Seq(Symbols) /\ Len(m \o q) = Len(m) + Len(q)
      BY <2>1, <2>3, Behind
    <3> QED
      BY <2>1, <2>3, <2>4, <3>1, Behind
  <2>6. Stands(t, i, m \o q) /\ Stands(t, i + (1 + n), m)
    <3> HIDE DEF m, q, n
    <3> QED
      BY <2>2, <2>3, <2>5, StandsApart
  <2>7. Stands(t, i, m) /\ Stands(t, i + 1, q)
    <3> HIDE DEF m, q, n
    <3> QED
      BY <2>1, <2>3, <2>6, StandsApart
  <2>8. t[i] = Single
    BY <2>7, StandsOne
  <2>9. j \in 1 .. Len(t) /\ t[j] = Single
    <3>1. i + (1 + n) = j /\ j \in Nat \ {0}
      BY <2>4
    <3> HIDE DEF j, n
    <3> QED
      BY <2>6, <3>1, StandsOne
  <2>10. \A k \in 1 .. n : t[i + k] = q[k]
    <3> SUFFICES ASSUME NEW k \in 1 .. n PROVE t[i + k] = q[k]
      OBVIOUS
    <3>1. i + 1 + k - 1 = i + k
      BY <2>4
    <3>2. t[i + 1 + k - 1] = q[k]
      BY <2>7 DEF Stands
    <3> QED
      BY <3>1, <3>2
  <2> HIDE DEF q, n
  <2>11. i + 1 < j /\ j - 1 = i + n /\ j \in Nat
    BY <2>4
  <2>12. \A k \in i + 1 .. j - 1 : t[k] # Single
    <3> SUFFICES ASSUME NEW k \in i + 1 .. i + n PROVE t[k] # Single
      BY <2>11
    <3> DEFINE h == k - i
    <3>1. h \in 1 .. n /\ k = i + h
      BY <2>4
    <3> HIDE DEF h
    <3> QED
      BY <2>1, <2>4, <2>10, <3>1
  <2>13. SubSeq(t, i + 1, j - 1) = q
    <3> DEFINE s == SubSeq(t, i + 1, i + n)
    <3>1. s \in Seq(Symbols) /\ Len(s) = n /\ \A k \in 1 .. n : s[k] = t[i + 1 + k - 1]
      <4>1. \A k \in i + 1 .. i + n : k \in 1 .. Len(t)
        BY <1>0, <2>4, <2>9
      <4>2. i + 1 \in 1 .. Len(t) + 1 /\ i + n \in i + 1 - 1 .. Len(t) /\ i + n - (i + 1) + 1 = n
        BY <1>0, <2>4, <2>9
      <4> QED
        BY <1>0, <2>4, <4>1, <4>2, SubSeqProperties
    <3> HIDE DEF s
    <3>2. ASSUME NEW k \in 1 .. n PROVE s[k] = q[k]
      <4>1. i + 1 + k - 1 = i + k
        BY <2>4
      <4> QED
        BY <2>10, <3>1, <4>1
    <3>3. s = q
      BY <2>1, <3>1, <3>2, SeqEqual DEF n
    <3> QED
      BY <2>11, <3>3 DEF s
  <2> HIDE DEF j
  <2>14. v \in Spelled(t, i, j)
    BY <2>1, <2>8, <2>9, <2>11, <2>12, <2>13 DEF Spelled
  <2>15. Len(PrintValue(v)) = n + 2 /\ i + (n + 2) - 1 = j
    BY <2>2, <2>4, <2>5 DEF j
  <2> QED
    BY <2>4, <2>14, <2>15
<1> QED
  BY <1>1, <1>2, <1>3 DEF Values

\* Strings that the printer renders so that the grammar reads them.
Legible(x) ==
  \A c \in Comparisons(x) :
    c.value.type = "string" => c.value.of # <<>> /\ \A k \in DOMAIN c.value.of : c.value.of[k] # Single

\* Where a comparison's text stands, the text has it.
LEMMA ComparisonStands ==
  ASSUME NEW t \in Seq(Symbols), NEW x \in Trees, x.kind = "compare", Legible(x),
         NEW i \in Nat \ {0}, Stands(t, i, PrintTree(x))
  PROVE  \E j \in 1 .. Len(t) : x \in Atoms(t, i, j) /\ i + Len(PrintTree(x)) = j + 1
<1> DEFINE op == IF x.op = "EQ" THEN "==" ELSE "!="
           a == <<"(", x.id, op>>
           q == PrintValue(x.value)
           c == <<")">>
           n == Len(q)
           j == i + n + 3
<1>1. /\ x \in Leaves /\ x.id \in Identifiers /\ x.op \in {"EQ", "NEQ"} /\ x.value \in Values
      /\ x = [kind |-> "compare", id |-> x.id, op |-> x.op, value |-> x.value]
  <2>1. x \in Leaves
    BY TreeOverTrees, Kinds
  <2> QED
    BY <2>1 DEF Leaves
<1>2. PrintTree(x) = a \o q \o c
  BY PrintTreeIs
<1>3. op \in Operators /\ Operator(op) = x.op
  BY <1>1 DEF Operators, Operator
<1> HIDE DEF op
<1>4. a \in Seq(Symbols) /\ c \in Seq(Symbols) /\ Len(a) = 3 /\ a[1] = "(" /\ a[2] = x.id /\ a[3] = op /\ Len(c) = 1
  BY <1>1, <1>3, SymbolsAssumption
<1>5. q \in Seq(Symbols) /\ n \in Nat
  BY <1>1, PrintTypes, LenProperties
<1> HIDE DEF a, q, n, c
<1>6. a \o q \in Seq(Symbols) /\ Len(a \o q) = 3 + n
  <2>1. a \o q \in Seq(Symbols) /\ Len(a \o q) = Len(a) + Len(q)
    BY <1>4, <1>5, Behind
  <2> QED
    BY <1>4, <2>1 DEF n
<1>7. Stands(t, i, a \o q) /\ Stands(t, i + (3 + n), c) /\ Len(a \o q \o c) = 3 + n + 1
  <2> HIDE DEF c
  <2>1. Stands(t, i, a \o q) /\ Stands(t, i + Len(a \o q), c)
    BY <1>2, <1>4, <1>6, StandsApart
  <2>2. Len(a \o q \o c) = Len(a \o q) + Len(c)
    BY <1>4, <1>6, Behind
  <2> QED
    BY <1>4, <1>6, <2>1, <2>2
<1>8. Stands(t, i, a) /\ Stands(t, i + 3, q)
  BY <1>4, <1>5, <1>7, StandsApart
<1>9. t[i] = "(" /\ t[i + 1] = x.id /\ t[i + 2] = op
  <2>1. \A k \in 1 .. 3 : t[i + k - 1] = a[k]
    BY <1>4, <1>8 DEF Stands
  <2>2. i + 1 - 1 = i /\ i + 2 - 1 = i + 1 /\ i + 3 - 1 = i + 2
    OBVIOUS
  <2>3. t[i + 1 - 1] = a[1] /\ t[i + 2 - 1] = a[2] /\ t[i + 3 - 1] = a[3]
    BY <2>1
  <2> QED
    BY <1>4, <2>2, <2>3
<1>10. j \in 1 .. Len(t) /\ t[j] = ")"
  <2>1. i + (3 + n) = j /\ j \in Nat \ {0}
    BY <1>5
  <2> HIDE DEF j
  <2> QED
    BY <1>7, <2>1, StandsOne DEF c
<1>11. n # 0 /\ x.value \in Spelled(t, i + 3, j - 1)
  <2>1. Comparisons(x) = {x}
    BY ComparisonsAre
  <2>2. /\ Len(PrintValue(x.value)) \in Nat \ {0}
        /\ x.value \in Spelled(t, i + 3, i + 3 + Len(PrintValue(x.value)) - 1)
    <3>1. i + 3 \in Nat \ {0} /\ Stands(t, i + 3, PrintValue(x.value))
      BY <1>8 DEF q
    <3>2. x.value.type = "string" => x.value.of # <<>> /\ \A k \in DOMAIN x.value.of : x.value.of[k] # Single
      BY <2>1 DEF Legible
    <3> QED
      BY <1>1, <3>1, <3>2, ValueStands
  <2>3. i + 3 + n - 1 = j - 1
    BY <1>5
  <2> HIDE DEF j
  <2> QED
    BY <2>2, <2>3 DEF n, q
<1>12. i + 4 <= j
  BY <1>5, <1>11
<1>13. x \in Atoms(t, i, j)
  <2> HIDE DEF j
  <2> QED
    BY <1>1, <1>3, <1>9, <1>10, <1>11, <1>12 DEF Atoms
<1>14. i + Len(PrintTree(x)) = j + 1
  <2>1. Len(PrintTree(x)) = 3 + n + 1
    BY <1>2, <1>7
  <2> QED
    BY <1>5, <2>1
<1> HIDE DEF j
<1> QED
  BY <1>10, <1>13, <1>14

\* The rule reads from i to before j an expression of at most d levels, which makes the
\* same comparisons as x and holds where x does.
Reads(t, rule, i, j, x, d) ==
  \E y \in trees[d] : /\ Result(t, rule, i) = Ok(y, j)
                      /\ Comparisons(y) = Comparisons(x)
                      /\ \A w : Holds(y, w) <=> Holds(x, w)

\* More levels do no harm.
LEMMA ReadsGrow ==
  ASSUME NEW t, NEW rule, NEW i, NEW j, NEW x, NEW d \in 0 .. MaxDepth, NEW e \in 0 .. MaxDepth, d <= e,
         Reads(t, rule, i, j, x, d)
  PROVE  Reads(t, rule, i, j, x, e)
<1>1. trees[d] \subseteq trees[e]
  BY LevelsGrow
<1> QED
  BY <1>1 DEF Reads

\* A level above the one that the depth allows.
LEMMA LevelIsOver ==
  ASSUME NEW d \in Nat, d < MaxDepth
  PROVE  trees[d + 1] = Over(trees[d]) /\ trees[d] \subseteq Trees /\ trees[d + 1] \subseteq Trees
<1>1. d \in 0 .. MaxDepth /\ d + 1 \in 0 .. MaxDepth
  BY DepthAssumption
<1> QED
  BY <1>1, TreesAre, TreesGrow

\* An operand is a row if no sign follows.
LEMMA LoneReads ==
  ASSUME NEW t \in Seq(Symbols), NEW kind \in {"or", "and"}, NEW i \in 1 .. Len(t), NEW j, NEW x,
         NEW d \in Nat, d < MaxDepth, Reads(t, Operand(kind), i, j, x, d), At(t, j) # Sign(kind)
  PROVE  Reads(t, kind, i, j, x, d + 1)
<1>0. Len(t) \in Nat /\ i \in 1 .. Len(t) + 1
  BY TextIs
<1>1. PICK y \in trees[d] : /\ Result(t, Operand(kind), i) = Ok(y, j)
                            /\ Comparisons(y) = Comparisons(x)
                            /\ \A w : Holds(y, w) <=> Holds(x, w)
  BY DEF Reads
<1> DEFINE z == [kind |-> kind, args |-> <<y>>]
           r == Result(t, Operand(kind), i)
<1>2. r.is = "ok" /\ r.tree = y /\ r.next = j
  BY <1>1, OkIs
<1>3. Result(t, kind, i) = Ok([kind |-> kind, args |-> <<r.tree>>], r.next)
  <2>1. r.is = "ok" /\ At(t, r.next) # Sign(kind)
    BY <1>2
  <2> QED
    BY <1>0, <2>1, LevelIs
<1>4. Result(t, kind, i) = Ok(z, j)
  <2> HIDE DEF r
  <2> QED
    BY <1>2, <1>3
<1>5. z \in trees[d + 1]
  <2> DEFINE S == trees[d]
  <2>1. y \in S /\ trees[d + 1] = Over(S)
    BY LevelIsOver
  <2> HIDE DEF S
  <2>2. <<y>> \in Seq(S) \ {<<>>}
    BY <2>1
  <2> QED
    BY <2>1, <2>2 DEF Over
<1>6. z.kind \in {"or", "and"} /\ z.args = <<y>>
  OBVIOUS
<1> HIDE DEF z
<1>7. y \in Trees /\ z \in Trees
  BY <1>5, LevelIsOver
<1>8. Comparisons(z) = Comparisons(y) /\ \A w : Holds(z, w) <=> Holds(y, w)
  BY <1>6, <1>7, LoneHolds
<1> QED
  BY <1>1, <1>4, <1>5, <1>8 DEF Reads

\* What a rule of levels reads is of its kind.
LEMMA LevelKind ==
  ASSUME NEW t \in Seq(Symbols), NEW kind \in {"or", "and"}, NEW i \in 1 .. Len(t) + 1
  PROVE  Result(t, kind, i).is = "ok" => Result(t, kind, i).tree.kind = kind
<1> DEFINE r == Result(t, Operand(kind), i)
           s == Result(t, kind, r.next + 1)
           l == Result(t, kind, i)
<1>0. Len(t) \in Nat /\ i \in 1 .. Len(t) + 1 /\ kind \in {"or", "and"}
  BY TextIs
<1>1. \A a, n : Ok([kind |-> kind, args |-> a], n).tree.kind = kind
  BY DEF Ok
<1> HIDE DEF l
<1>2. CASE r.is # "ok"
  <2>1. l = r
    BY <1>0, <1>2, LevelIs DEF l
  <2> HIDE DEF r
  <2> QED
    BY <1>2, <2>1 DEF l
<1>3. CASE r.is = "ok" /\ At(t, r.next) # Sign(kind)
  <2>1. l = Ok([kind |-> kind, args |-> <<r.tree>>], r.next)
    BY <1>0, <1>3, LevelIs DEF l
  <2> HIDE DEF r
  <2> QED
    BY <1>1, <2>1 DEF l
<1>4. CASE r.is = "ok" /\ At(t, r.next) = Sign(kind)
  <2>1. /\ r.next \in i + 1 .. Len(t) /\ t[r.next] = Sign(kind)
        /\ s.is = "ok" => l = Ok([kind |-> kind, args |-> <<r.tree>> \o s.tree.args], s.next)
        /\ s.is # "ok" => l.is = "throws"
    BY <1>0, <1>4, LevelIs DEF l
  <2> HIDE DEF r, s
  <2>2. l.is = "ok" => l = Ok([kind |-> kind, args |-> <<r.tree>> \o s.tree.args], s.next)
    BY <2>1
  <2> QED
    BY <1>1, <2>2 DEF l
<1> HIDE DEF r
<1> QED
  BY <1>2, <1>3, <1>4

\* An operand, its sign and a row behind it are a row.
LEMMA LongerReads ==
  ASSUME NEW t \in Seq(Symbols), NEW kind \in {"or", "and"}, NEW i \in 1 .. Len(t), NEW k \in 1 .. Len(t), NEW j,
         NEW x \in Trees, NEW a \in Trees, NEW z \in Trees,
         x.kind = kind, z.kind = kind, x.args = <<a>> \o z.args,
         NEW d \in Nat, d < MaxDepth,
         Reads(t, Operand(kind), i, k, a, d), t[k] = Sign(kind), Reads(t, kind, k + 1, j, z, d + 1)
  PROVE  Reads(t, kind, i, j, x, d + 1)
<1>0. Len(t) \in Nat /\ i \in 1 .. Len(t) + 1 /\ k + 1 \in 1 .. Len(t) + 1 /\ At(t, k) = t[k]
  BY TextIs DEF At
<1>1. PICK b \in trees[d] : /\ Result(t, Operand(kind), i) = Ok(b, k)
                            /\ Comparisons(b) = Comparisons(a)
                            /\ \A w : Holds(b, w) <=> Holds(a, w)
  BY DEF Reads
<1>2. PICK y \in trees[d + 1] : /\ Result(t, kind, k + 1) = Ok(y, j)
                                /\ Comparisons(y) = Comparisons(z)
                                /\ \A w : Holds(y, w) <=> Holds(z, w)
  BY DEF Reads
<1>3. y.kind = kind /\ y.args \in Seq(trees[d]) /\ y \in Trees /\ b \in Trees
  <2>1. y.kind = kind
    <3>1. Result(t, kind, k + 1).is = "ok" /\ Result(t, kind, k + 1).tree = y
      BY <1>2, OkIs
    <3> QED
      BY <1>0, <3>1, LevelKind
  <2> QED
    BY <1>2, <2>1, LevelIsOver, Kinds
<1> DEFINE u == [kind |-> kind, args |-> <<b>> \o y.args]
           r == Result(t, Operand(kind), i)
           s == Result(t, kind, r.next + 1)
           l == Result(t, kind, i)
<1>4. l = Ok(u, j)
  <2>1. r.is = "ok" /\ r.tree = b /\ r.next = k
    BY <1>1, OkIs
  <2>2. s.is = "ok" /\ s.tree = y /\ s.next = j
    <3> HIDE DEF r
    <3> QED
      BY <1>2, <2>1, OkIs
  <2>3. r.is = "ok" /\ At(t, r.next) = Sign(kind)
    BY <1>0, <2>1
  <2>4. s.is = "ok" => l = Ok([kind |-> kind, args |-> <<r.tree>> \o s.tree.args], s.next)
    <3> HIDE DEF l
    <3>1. /\ r.next \in i + 1 .. Len(t) /\ t[r.next] = Sign(kind)
          /\ s.is = "ok" => l = Ok([kind |-> kind, args |-> <<r.tree>> \o s.tree.args], s.next)
          /\ s.is # "ok" => l.is = "throws"
      BY <1>0, <2>3, LevelIs DEF l
    <3> QED
      BY <3>1
  <2> HIDE DEF r, s, l
  <2> QED
    BY <2>1, <2>2, <2>4
<1>5. u \in trees[d + 1]
  <2> DEFINE S == trees[d]
  <2>1. b \in S /\ y.args \in Seq(S) /\ trees[d + 1] = Over(S)
    BY <1>3, LevelIsOver
  <2> HIDE DEF S
  <2>2. <<b>> \o y.args \in Seq(S) /\ Len(<<b>> \o y.args) = 1 + Len(y.args) /\ Len(y.args) \in Nat
    BY <2>1, LenProperties
  <2>3. <<b>> \o y.args # <<>>
    BY <2>2, EmptySeq
  <2> QED
    BY <2>1, <2>2, <2>3 DEF Over
<1>6. u.kind = kind /\ u.args = <<b>> \o y.args
  OBVIOUS
<1> HIDE DEF u
<1>7. u \in Trees
  BY <1>5, LevelIsOver
<1>8. /\ Comparisons(u) = Comparisons(b) \union Comparisons(y)
      /\ kind = "or" => \A w : Holds(u, w) <=> (Holds(b, w) \/ Holds(y, w))
      /\ kind = "and" => \A w : Holds(u, w) <=> (Holds(b, w) /\ Holds(y, w))
  <2>1. y.kind \in {"or", "and"} /\ u.kind = y.kind /\ u.args = <<b>> \o y.args
    BY <1>3, <1>6
  <2>2. b \in Trees /\ u \in Trees /\ y \in Trees
    BY <1>3, <1>7
  <2>3. /\ Comparisons(u) = Comparisons(b) \union Comparisons(y)
        /\ y.kind = "or" => \A w : Holds(u, w) <=> (Holds(b, w) \/ Holds(y, w))
        /\ y.kind = "and" => \A w : Holds(u, w) <=> (Holds(b, w) /\ Holds(y, w))
    BY <2>1, <2>2, LongerHolds
  <2> QED
    BY <1>3, <2>3
<1>9. /\ Comparisons(x) = Comparisons(a) \union Comparisons(z)
      /\ kind = "or" => \A w : Holds(x, w) <=> (Holds(a, w) \/ Holds(z, w))
      /\ kind = "and" => \A w : Holds(x, w) <=> (Holds(a, w) /\ Holds(z, w))
  BY LongerHolds
<1>10. Comparisons(u) = Comparisons(x) /\ \A w : Holds(u, w) <=> Holds(x, w)
  BY <1>1, <1>2, <1>8, <1>9
<1> QED
  BY <1>4, <1>5, <1>10 DEF Reads

\* Wherever x's text stands, it is read as x, and as a primary unless it is a negation.
Readable(t, x, d) ==
  \A i \in Nat \ {0} : Stands(t, i, PrintTree(x)) =>
    /\ Reads(t, "not", i, i + Len(PrintTree(x)), x, d)
    /\ t[i] # "!" => Reads(t, "primary", i, i + Len(PrintTree(x)), x, d)

\* A text that stands somewhere starts there.
LEMMA StandsStarts ==
  ASSUME NEW t \in Seq(Symbols), NEW x \in Trees, NEW i \in Nat \ {0}, Stands(t, i, PrintTree(x))
  PROVE  /\ i \in 1 .. Len(t) /\ t[i] = PrintTree(x)[1] /\ t[i] \in Bools \union {"(", "!"}
         /\ Len(PrintTree(x)) \in Nat \ {0} /\ PrintTree(x) \in Seq(Symbols)
<1> DEFINE p == PrintTree(x)
           n == Len(p)
<1>1. p \in Seq(Symbols) /\ p # <<>> /\ p[1] \in Bools \union {"(", "!"}
  BY PrintTreeType, PrintTreeStarts
<1>2. i + n <= Len(t) + 1 /\ \A k \in 1 .. n : t[i + k - 1] = p[k]
  BY DEF Stands
<1> HIDE DEF p
<1>3. n \in Nat \ {0} /\ Len(t) \in Nat
  BY <1>1, EmptySeq, LenProperties
<1> HIDE DEF n
<1>4. t[i + 1 - 1] = p[1] /\ i + 1 - 1 = i
  BY <1>2, <1>3
<1> QED
  BY <1>1, <1>2, <1>3, <1>4 DEF p, n

\* A primary is an operand of a conjunction if no negation starts there.
LEMMA PrimaryReads ==
  ASSUME NEW t \in Seq(Symbols), NEW i \in 1 .. Len(t), t[i] # "!"
  PROVE  \A j, x, d : Reads(t, "primary", i, j, x, d) => Reads(t, "not", i, j, x, d)
<1>1. Len(t) \in Nat
  BY TextIs
<1>2. i \in 1 .. Len(t) + 1 /\ At(t, i) # "!"
  BY <1>1 DEF At
<1>3. Result(t, "not", i) = Result(t, "primary", i)
  <2>1. Result(t, "not", i) = Unary(t, i, Parse(t))
    BY <1>1, <1>2, ParseRules
  <2> QED
    BY <1>2, <2>1 DEF Unary, Result
<1> QED
  BY <1>3 DEF Reads

\* The parts of what is legible are.
LEMMA LegibleParts ==
  ASSUME NEW x \in Trees, Legible(x)
  PROVE  /\ x.kind = "not" => Legible(x.arg)
         /\ x.kind \in {"or", "and"} => Legible(x.args[1])
         /\ x.kind \in {"or", "and"} /\ Len(x.args) # 1 => Legible(Rest(x))
<1>1. x.kind = "not" => Legible(x.arg)
  BY ComparisonsAre DEF Legible
<1>2. ASSUME x.kind \in {"or", "and"} PROVE Legible(x.args[1])
  <2>1. 1 \in DOMAIN x.args
    BY <1>2, Parts
  <2>2. Comparisons(x) = UNION {Comparisons(x.args[i]) : i \in DOMAIN x.args}
    BY <1>2, ComparisonsAre
  <2>3. Comparisons(x.args[1]) \subseteq Comparisons(x)
    BY <2>1, <2>2
  <2> QED
    BY <2>3 DEF Legible
<1>3. ASSUME x.kind \in {"or", "and"}, Len(x.args) # 1 PROVE Legible(Rest(x))
  <2>1. Rest(x) \in Trees /\ Rest(x).kind = x.kind /\ x.args = <<x.args[1]>> \o Rest(x).args
    BY <1>3, RestIs
  <2>2. x.args[1] \in Trees
    BY <1>3, RowIs
  <2>3. Comparisons(x) = Comparisons(x.args[1]) \union Comparisons(Rest(x))
    BY <1>3, <2>1, <2>2, LongerHolds
  <2> QED
    BY <2>3 DEF Legible
<1> QED
  BY <1>1, <1>2, <1>3

\* Where a row's text stands in front of a parenthesis, its rule reads it.
RowReadable(t, x, m) ==
  \A i \in Nat \ {0} : Stands(t, i, Row(x)) /\ At(t, i + Len(Row(x))) = ")" =>
    Reads(t, x.kind, i, i + Len(Row(x)), x, IF x.kind = "and" THEN m + 1 ELSE m + 2)

\* The operands of a conjunction or a disjunction are read one after the other, up to the
\* closing parenthesis: by induction on their number.
LEMMA RowReads ==
  ASSUME NEW t \in Seq(Symbols), NEW S, S \subseteq Trees, Over(S) \subseteq Trees,
         NEW m \in Nat, m + 2 <= MaxDepth, \A a \in S : Legible(a) => Readable(t, a, m)
  PROVE  \A x \in [kind : {"or", "and"}, args : Seq(S) \ {<<>>}] : Legible(x) => RowReadable(t, x, m)
<1> DEFINE R == [kind : {"or", "and"}, args : Seq(S) \ {<<>>}]
           Base(kind) == IF kind = "and" THEN m ELSE m + 1
           T == {n \in Nat : \A x \in R : Len(x.args) <= n /\ Legible(x) => RowReadable(t, x, m)}
<1>0. Len(t) \in Nat
  BY TextIs
<1>1. ASSUME NEW x \in R
      PROVE  /\ x \in Trees /\ x.kind \in {"or", "and"} /\ x.args \in Seq(S) /\ x.args # <<>>
             /\ Len(x.args) \in Nat \ {0} /\ x.args[1] \in S /\ x.args[1] \in Trees
  <2>1. x \in Over(S)
    BY DEF Over
  <2>2. x.kind \in {"or", "and"} /\ x.args \in Seq(S) /\ x.args # <<>>
    OBVIOUS
  <2>3. Len(x.args) \in Nat \ {0}
    BY <2>2, EmptySeq, LenProperties
  <2>4. x.args[1] \in S
    BY <2>2, <2>3, ElementOfSeq
  <2> QED
    BY <2>1, <2>2, <2>3, <2>4
<1>2. ASSUME NEW x \in R, Len(x.args) # 1 PROVE Rest(x) \in R
  <2> DEFINE s == x.args
             q == Tail(s)
  <2>1. s \in Seq(S) /\ s # <<>> /\ Len(s) \in Nat \ {0}
    BY <1>1
  <2>2. q \in Seq(S) /\ Len(q) = Len(s) - 1
    BY <2>1, HeadTailProperties
  <2> HIDE DEF s
  <2>3. Len(q) # 0
    BY <1>2, <2>1, <2>2 DEF s
  <2> HIDE DEF q
  <2>4. q # <<>>
    BY <2>2, <2>3, EmptySeq
  <2>5. Rest(x) = [kind |-> x.kind, args |-> q] /\ x.kind \in {"or", "and"}
    BY <1>1 DEF Rest, q, s
  <2> QED
    BY <2>2, <2>4, <2>5
\* An operand in front of its row's sign or of the parenthesis.
<1>3. ASSUME NEW a \in S, Legible(a), NEW kind \in {"or", "and"}, NEW i \in Nat \ {0},
             Stands(t, i, PrintTree(a)), At(t, i + Len(PrintTree(a))) \in {")", Sign(kind)}
      PROVE  Reads(t, Operand(kind), i, i + Len(PrintTree(a)), a, Base(kind))
  <2> DEFINE j == i + Len(PrintTree(a))
  <2>1. Reads(t, "not", i, j, a, m)
    BY <1>3 DEF Readable
  <2>2. i \in 1 .. Len(t)
    BY <1>3, StandsStarts
  <2> HIDE DEF j
  <2>3. CASE kind = "and"
    BY <2>1, <2>3 DEF Operand, j
  <2>4. CASE kind = "or"
    <3>1. At(t, j) # Sign("and")
      BY <1>3, <2>4 DEF Sign, j
    <3>2. m < MaxDepth /\ Operand("and") = "not"
      BY DepthAssumption DEF Operand
    <3>3. Reads(t, "and", i, j, a, m + 1)
      BY <2>1, <2>2, <3>1, <3>2, LoneReads
    <3> QED
      BY <2>4, <3>3 DEF Operand, j
  <2> QED
    BY <2>3, <2>4
<1>4. ASSUME NEW kind \in {"or", "and"}
      PROVE  /\ Base(kind) \in Nat /\ Base(kind) < MaxDepth
             /\ Base(kind) + 1 = IF kind = "and" THEN m + 1 ELSE m + 2
  BY DepthAssumption
<1> HIDE DEF Base
<1>5. 0 \in T
  BY <1>1
<1>6. ASSUME NEW n \in Nat, n \in T PROVE n + 1 \in T
  <2> SUFFICES ASSUME NEW x \in R, Len(x.args) <= n + 1, Legible(x) PROVE RowReadable(t, x, m)
    OBVIOUS
  <2>0. Base(x.kind) + 1 = IF x.kind = "and" THEN m + 1 ELSE m + 2
    BY <1>1, <1>4
  <2> SUFFICES ASSUME NEW i \in Nat \ {0}, Stands(t, i, Row(x)), At(t, i + Len(Row(x))) = ")"
               PROVE  Reads(t, x.kind, i, i + Len(Row(x)), x, Base(x.kind) + 1)
    BY <2>0 DEF RowReadable
  <2> DEFINE a == x.args[1]
             kind == x.kind
             j == i + Len(Row(x))
  <2>1. x \in Trees /\ kind \in {"or", "and"} /\ Len(x.args) \in Nat \ {0} /\ a \in S /\ a \in Trees
    BY <1>1
  <2>2. Legible(a)
    BY <2>1, LegibleParts
  <2>3. Base(kind) \in Nat /\ Base(kind) < MaxDepth
    BY <1>4, <2>1
  <2>4. CASE Len(x.args) = 1
    <3>1. Row(x) = PrintTree(a) /\ x.args = <<a>>
      <4>1. Row(x) = PrintTree(a)
        BY <2>1, <2>4, RowIs
      <4> DEFINE s == x.args
      <4>2. s \in Seq(S) /\ Len(s) = 1
        BY <1>1, <2>4
      <4> HIDE DEF s
      <4>3. s = <<s[1]>>
        BY <4>2
      <4> QED
        BY <4>1, <4>3 DEF s
    <3>2. Reads(t, Operand(kind), i, j, a, Base(kind)) /\ i \in 1 .. Len(t)
      <4>1. Stands(t, i, PrintTree(a)) /\ At(t, i + Len(PrintTree(a))) = ")"
        BY <3>1
      <4> HIDE DEF a, kind
      <4>2. Reads(t, Operand(kind), i, i + Len(PrintTree(a)), a, Base(kind)) /\ i \in 1 .. Len(t)
        BY <1>3, <2>1, <2>2, <4>1, StandsStarts
      <4> QED
        BY <3>1, <4>2
    <3>3. At(t, j) # Sign(kind)
      BY DEF Sign
    <3> HIDE DEF j, kind, a
    <3>4. Reads(t, kind, i, j, a, Base(kind) + 1)
      BY <2>1, <2>3, <3>2, <3>3, LoneReads
    <3>5. Comparisons(x) = Comparisons(a) /\ \A w : Holds(x, w) <=> Holds(a, w)
      BY <2>1, <3>1, LoneHolds DEF kind
    <3> QED
      BY <3>4, <3>5 DEF Reads, j, kind
  <2>5. CASE Len(x.args) # 1
    <3> DEFINE z == Rest(x)
               p == PrintTree(a)
               q == Row(z)
               g == <<Sign(kind)>>
               k == i + Len(p)
    <3>1. /\ z \in R /\ Legible(z) /\ z.kind = kind /\ x.args = <<a>> \o z.args /\ Len(z.args) <= n
          /\ Row(x) = p \o (g \o q)
      <4>1. z \in R
        BY <1>2, <2>5
      <4>2. z.kind = kind /\ x.args = <<a>> \o z.args /\ Len(z.args) = Len(x.args) - 1
        BY <2>1, <2>5, RestIs
      <4>3. Legible(z)
        BY <2>1, <2>5, LegibleParts
      <4>4. Row(x) = p \o (g \o q)
        BY <2>1, <2>5, RowIs
      <4>5. Len(z.args) <= n
        <5> DEFINE l == Len(x.args)
        <5>1. l \in Nat /\ l <= n + 1 /\ Len(z.args) = l - 1
          BY <2>1, <4>2
        <5> HIDE DEF l, z
        <5> QED
          BY <5>1
      <4> QED
        BY <4>1, <4>2, <4>3, <4>4, <4>5
    <3>2. p \in Seq(Symbols) /\ q \in Seq(Symbols) /\ g \in Seq(Symbols) /\ Len(g) = 1
      <4>1. p \in Seq(Symbols)
        BY <2>1, PrintTreeType
      <4>2. q \in Seq(Symbols)
        <5>1. z \in Trees /\ z.kind \in {"or", "and"}
          BY <1>1, <3>1
        <5> QED
          BY <5>1, RowIs
      <4>3. Sign(kind) \in Symbols
        BY <2>1, PrintTypes
      <4> QED
        BY <4>1, <4>2, <4>3
    <3> HIDE DEF p, q, z, g
    <3>3. /\ g \o q \in Seq(Symbols) /\ Len(g \o q) = 1 + Len(q) /\ Len(p) \in Nat /\ Len(q) \in Nat
          /\ Len(Row(x)) = Len(p) + (1 + Len(q))
      <4>1. g \o q \in Seq(Symbols) /\ Len(g \o q) = Len(g) + Len(q) /\ Len(p) \in Nat /\ Len(q) \in Nat
        BY <3>2, Behind, LenProperties
      <4>2. Len(p \o (g \o q)) = Len(p) + Len(g \o q)
        BY <3>2, <4>1, Behind
      <4> QED
        BY <3>1, <3>2, <4>1, <4>2
    <3>4. Stands(t, i, p) /\ Stands(t, k, g \o q)
      <4>1. Stands(t, i, p \o (g \o q))
        BY <3>1
      <4> QED
        BY <3>2, <3>3, <4>1, StandsApart
    <3>5. k \in Nat \ {0} /\ k + 1 \in Nat \ {0} /\ k + 1 + Len(q) = j
      BY <3>3
    <3> HIDE DEF k, j
    <3>6. Stands(t, k, g) /\ Stands(t, k + 1, q)
      BY <3>2, <3>4, <3>5, StandsApart
    <3>7. k \in 1 .. Len(t) /\ t[k] = Sign(kind) /\ At(t, k) = Sign(kind)
      <4>1. k \in 1 .. Len(t) /\ t[k] = Sign(kind)
        BY <3>5, <3>6, StandsOne DEF g
      <4> QED
        BY <4>1 DEF At
    <3>8. Reads(t, Operand(kind), i, k, a, Base(kind)) /\ i \in 1 .. Len(t)
      <4>1. Stands(t, i, PrintTree(a)) /\ At(t, i + Len(PrintTree(a))) = Sign(kind)
        BY <3>4, <3>7 DEF p, k
      <4> HIDE DEF a, kind
      <4> QED
        BY <1>3, <2>1, <2>2, <4>1, StandsStarts DEF p, k
    <3>9. Reads(t, kind, k + 1, j, z, Base(kind) + 1)
      <4>1. RowReadable(t, z, m)
        BY <1>6, <3>1
      <4>2. Stands(t, k + 1, Row(z)) /\ At(t, k + 1 + Len(Row(z))) = ")" /\ k + 1 + Len(Row(z)) = j
        BY <3>5, <3>6 DEF q, j
      <4>3. Reads(t, z.kind, k + 1, j, z, IF z.kind = "and" THEN m + 1 ELSE m + 2)
        BY <3>5, <4>1, <4>2 DEF RowReadable
      <4> QED
        BY <1>4, <2>1, <3>1, <4>3
    <3>10. z \in Trees /\ x.kind = kind
      BY <1>1, <3>1
    <3> HIDE DEF kind, a
    <3>11. Reads(t, kind, i, j, x, Base(kind) + 1)
      BY <2>1, <2>3, <3>1, <3>7, <3>8, <3>9, <3>10, LongerReads
    <3> QED
      BY <3>11 DEF kind, j
  <2> QED
    BY <2>4, <2>5
<1>7. \A n \in Nat : n \in T
  <2> HIDE DEF T
  <2> QED
    BY <1>5, <1>6, Induction
<1> SUFFICES ASSUME NEW x \in R, Legible(x) PROVE RowReadable(t, x, m)
  OBVIOUS
<1>8. Len(x.args) \in T
  <2> HIDE DEF T
  <2> QED
    BY <1>1, <1>7
<1>9. Len(x.args) <= Len(x.args)
  BY <1>1
<1> QED
  BY <1>8, <1>9

\* A leaf's text is read as the leaf.
LEMMA LeafReads ==
  ASSUME NEW t \in Seq(Symbols), NEW x \in Leaves, Legible(x), NEW i \in Nat \ {0}, Stands(t, i, PrintTree(x))
  PROVE  t[i] # "!" /\ Reads(t, "primary", i, i + Len(PrintTree(x)), x, 0)
<1>0. x \in Trees /\ trees[0] = Leaves
  BY TreesAre, LevelsBelow
<1>1. i \in 1 .. Len(t) /\ Len(t) \in Nat /\ i \in 1 .. Len(t) + 1 /\ At(t, i) = t[i]
  BY <1>0, StandsStarts, TextIs DEF At
<1>2. CASE x.kind = "bool"
  <2> DEFINE s == IF x.value THEN "true" ELSE "false"
             y == [kind |-> "bool", value |-> t[i] = "true"]
  <2>1. PrintTree(x) = <<s>>
    BY <1>0, <1>2, PrintTreeIs DEF PrintBool
  <2> HIDE DEF s
  <2>2. t[i] = s /\ Len(PrintTree(x)) = 1
    BY <2>1, StandsOne
  <2>3. x.value \in BOOLEAN /\ x = [kind |-> "bool", value |-> x.value]
    BY <1>2 DEF Leaves
  <2>4. t[i] \in Bools /\ t[i] # "!" /\ (t[i] = "true") = x.value
    BY <2>2, <2>3 DEF s, Bools
  <2>5. x = y
    BY <2>3, <2>4
  <2>6. Result(t, "primary", i) = Ok(y, i + 1)
    BY <1>1, <2>4, PrimaryIs
  <2> HIDE DEF y
  <2>7. Reads(t, "primary", i, i + 1, x, 0)
    BY <1>0, <2>5, <2>6 DEF Reads
  <2> QED
    BY <2>2, <2>4, <2>7
<1>3. CASE x.kind = "compare"
  <2>1. PICK j \in 1 .. Len(t) : x \in Atoms(t, i, j) /\ i + Len(PrintTree(x)) = j + 1
    BY <1>0, <1>3, ComparisonStands
  <2>2. t[i] = "(" /\ Closed(t, Comparison(t, i + 1)) = Ok(x, j + 1)
    BY <1>1, <2>1, AtomIsRead
  <2>3. Result(t, "primary", i) = Ok(x, j + 1)
    <3>1. i \in 1 .. Len(t) + 1 /\ At(t, i) = "("
      BY <1>1, <2>2
    <3>2. Closed(t, Comparison(t, i + 1)).is # "no"
      BY <2>2, OkIs
    <3>3. Result(t, "primary", i) = Closed(t, Comparison(t, i + 1))
      BY <1>1, <3>1, <3>2, PrimaryIs
    <3> QED
      BY <2>2, <3>3
  <2>4. Reads(t, "primary", i, j + 1, x, 0)
    BY <1>0, <2>3 DEF Reads
  <2> QED
    BY <2>1, <2>2, <2>4
<1> QED
  BY <1>2, <1>3 DEF Leaves

\* What is read in a disjunction's place between parentheses is read as a primary, if
\* no identifier comes first.
LEMMA EnclosedReads ==
  ASSUME NEW t \in Seq(Symbols), NEW i \in 1 .. Len(t), NEW j \in 1 .. Len(t), i + 1 \in 1 .. Len(t),
         t[i] = "(", t[i + 1] \notin Identifiers, t[j] = ")"
  PROVE  \A x, d : Reads(t, "or", i + 1, j, x, d) => Reads(t, "primary", i, j + 1, x, d)
<1>1. Len(t) \in Nat /\ i \in 1 .. Len(t) + 1 /\ At(t, i) = "(" /\ At(t, i + 1) \notin Identifiers /\ At(t, j) = ")"
  BY TextIs DEF At
<1>2. Closed(t, Comparison(t, i + 1)).is = "no"
  BY <1>1, OkIs DEF Comparison, Closed
<1>3. Result(t, "primary", i) = Closed(t, Result(t, "or", i + 1))
  BY <1>1, <1>2, PrimaryIs
<1>4. ASSUME NEW y, Result(t, "or", i + 1) = Ok(y, j) PROVE Result(t, "primary", i) = Ok(y, j + 1)
  BY <1>1, <1>3, <1>4, OkIs DEF Closed
<1> QED
  BY <1>4 DEF Reads

\* A negation's sign in front of a primary.
LEMMA NegatedReads ==
  ASSUME NEW t \in Seq(Symbols), NEW i \in 1 .. Len(t), t[i] = "!", NEW j,
         NEW x \in Trees, x.kind = "not", NEW d \in Nat, d < MaxDepth, Reads(t, "primary", i + 1, j, x.arg, d)
  PROVE  Reads(t, "not", i, j, x, d + 1)
<1>1. Len(t) \in Nat /\ i \in 1 .. Len(t) + 1 /\ At(t, i) = "!"
  BY TextIs DEF At
<1>2. PICK y \in trees[d] : /\ Result(t, "primary", i + 1) = Ok(y, j)
                            /\ Comparisons(y) = Comparisons(x.arg)
                            /\ \A w : Holds(y, w) <=> Holds(x.arg, w)
  BY DEF Reads
<1> DEFINE z == [kind |-> "not", arg |-> y]
<1>3. Result(t, "not", i) = Ok(z, j)
  <2>1. Result(t, "primary", i + 1).is = "ok" /\ Result(t, "primary", i + 1).tree = y
        /\ Result(t, "primary", i + 1).next = j
    BY <1>2, OkIs
  <2> QED
    BY <1>1, <2>1, UnaryIs
<1>4. z \in trees[d + 1] /\ z.kind = "not" /\ z.arg = y
  BY LevelIsOver DEF Over
<1> HIDE DEF z
<1>5. z \in Trees
  BY <1>4, LevelIsOver
<1>6. Comparisons(z) = Comparisons(y) /\ \A w : Holds(z, w) <=> ~Holds(y, w)
  BY <1>4, <1>5, ComparisonsAre, HoldsIs
<1>7. Comparisons(x) = Comparisons(x.arg) /\ \A w : Holds(x, w) <=> ~Holds(x.arg, w)
  BY ComparisonsAre, HoldsIs
<1>8. Comparisons(z) = Comparisons(x) /\ \A w : Holds(z, w) <=> Holds(x, w)
  BY <1>2, <1>6, <1>7
<1> QED
  BY <1>3, <1>4, <1>8 DEF Reads

\* Texts in which no negation stands directly below another.
Apart(t) == \A k \in 1 .. Len(t) - 1 : ~(t[k] = "!" /\ t[k + 1] = "!")

\* An expression's text is read as it says if those of its operands are.
LEMMA ReadableStep ==
  ASSUME NEW t \in Seq(Symbols), Apart(t), NEW S, S \subseteq Trees, Over(S) \subseteq Trees,
         NEW m \in Nat, m + 2 <= MaxDepth, \A a \in S : Legible(a) => Readable(t, a, m),
         NEW x \in Over(S), Legible(x)
  PROVE  Readable(t, x, m + 2)
<1>0. x \in Trees /\ Len(t) \in Nat
  BY TextIs
<1> SUFFICES ASSUME NEW i \in Nat \ {0}, Stands(t, i, PrintTree(x))
             PROVE  /\ Reads(t, "not", i, i + Len(PrintTree(x)), x, m + 2)
                    /\ t[i] # "!" => Reads(t, "primary", i, i + Len(PrintTree(x)), x, m + 2)
  BY DEF Readable
<1> DEFINE j == i + Len(PrintTree(x))
<1>1. i \in 1 .. Len(t) /\ Len(PrintTree(x)) \in Nat \ {0}
  BY <1>0, StandsStarts
<1>2. {0, m, m + 1, m + 2} \subseteq 0 .. MaxDepth /\ m < MaxDepth /\ m + 1 < MaxDepth
  BY DepthAssumption
<1> HIDE DEF j
<1>3. ASSUME t[i] # "!", NEW d \in {0, m + 2}, Reads(t, "primary", i, j, x, d)
      PROVE  Reads(t, "not", i, j, x, m + 2) /\ Reads(t, "primary", i, j, x, m + 2)
  <2>1. d \in 0 .. MaxDepth /\ m + 2 \in 0 .. MaxDepth /\ d <= m + 2
    BY <1>2
  <2>2. Reads(t, "primary", i, j, x, m + 2)
    BY <1>3, <2>1, ReadsGrow
  <2> QED
    BY <1>1, <1>3, <2>2, PrimaryReads
<1>4. CASE x \in Leaves
  BY <1>3, <1>4, LeafReads DEF j
<1>5. CASE x.kind = "not"
  <2> DEFINE a == x.arg
             p == PrintTree(a)
             g == <<"!">>
  <2>1. a \in S /\ a \in Trees /\ Legible(a) /\ PrintTree(x) = g \o p
    BY <1>0, <1>5, Kinds, LegibleParts, PrintTreeIs
  <2>2. p \in Seq(Symbols) /\ g \in Seq(Symbols) /\ Len(g) = 1
    BY <2>1, PrintTreeType, SymbolsAssumption
  <2> HIDE DEF p, a
  <2>3. Stands(t, i, g) /\ Stands(t, i + 1, p) /\ Len(PrintTree(x)) = 1 + Len(p) /\ Len(p) \in Nat
    <3> HIDE DEF g
    <3>1. Stands(t, i, g \o p) /\ Len(g \o p) = Len(g) + Len(p) /\ Len(p) \in Nat
      BY <2>1, <2>2, Behind
    <3> QED
      BY <2>1, <2>2, <3>1, StandsApart
  <2>4. t[i] = "!"
    BY <2>3, StandsOne
  <2>5. i + 1 \in 1 .. Len(t) /\ i + 1 \in Nat \ {0}
    BY <2>1, <2>3, StandsStarts DEF p
  <2>6. t[i + 1] # "!"
    <3>1. i \in 1 .. Len(t) - 1
      BY <1>0, <1>1, <2>5
    <3> QED
      BY <2>4, <3>1 DEF Apart
  <2>7. Reads(t, "primary", i + 1, j, a, m)
    <3>1. Readable(t, a, m)
      BY <2>1
    <3>2. Reads(t, "primary", i + 1, i + 1 + Len(p), a, m)
      BY <2>3, <2>5, <2>6, <3>1 DEF Readable, p
    <3>3. i + 1 + Len(p) = j
      BY <2>3 DEF j
    <3> QED
      BY <3>2, <3>3
  <2>8. Reads(t, "not", i, j, x, m + 1)
    BY <1>0, <1>1, <1>2, <1>5, <2>4, <2>7, NegatedReads DEF a
  <2>9. Reads(t, "not", i, j, x, m + 2)
    <3>1. m + 1 \in 0 .. MaxDepth /\ m + 2 \in 0 .. MaxDepth /\ m + 1 <= m + 2
      BY <1>2
    <3> QED
      BY <2>8, <3>1, ReadsGrow
  <2> QED
    BY <2>4, <2>9 DEF j
<1>6. CASE x.kind \in {"or", "and"}
  <2> DEFINE a == x.args[1]
             q == Row(x)
  <2>1. x \in [kind : {"or", "and"}, args : Seq(S) \ {<<>>}] /\ Len(x.args) \in Nat \ {0}
    <3>1. Len(x.args) \in Nat \ {0}
      BY <1>6, Kinds
    <3> QED
      BY <1>6, <3>1 DEF Over, Leaves
  <2>2. a \in S /\ a \in Trees /\ Legible(a)
    <3>1. x.args \in Seq(S)
      BY <2>1
    <3>2. a \in S
      BY <2>1, <3>1, ElementOfSeq
    <3> QED
      BY <1>0, <1>6, <3>2, LegibleParts
  <2>3. PrintTree(x) = Parenthesize(x.args, q) /\ q \in Seq(Symbols)
    BY <1>0, <1>6, PrintTreeIs, RowIs
  <2>4. CASE Len(x.args) = 1
    <3>1. PrintTree(x) = PrintTree(a)
      <4>1. q = PrintTree(a)
        BY <1>0, <1>6, <2>4, RowIs
      <4>2. Parenthesize(x.args, q) = q
        BY <2>4 DEF Parenthesize
      <4> QED
        BY <2>3, <4>1, <4>2
    <3>2. x.args = <<a>>
      <4> DEFINE s == x.args
      <4>1. s \in Seq(S) /\ Len(s) = 1
        BY <2>1, <2>4
      <4> HIDE DEF s
      <4>2. s = <<s[1]>>
        BY <4>1
      <4> QED
        BY <4>2 DEF s
    <3> HIDE DEF a
    <3>3. Comparisons(x) = Comparisons(a) /\ \A w : Holds(x, w) <=> Holds(a, w)
      BY <1>0, <1>6, <2>2, <3>2, LoneHolds
    <3>4. Readable(t, a, m) /\ Stands(t, i, PrintTree(a))
      BY <2>2, <3>1
    <3>5. /\ Reads(t, "not", i, j, a, m)
          /\ t[i] # "!" => Reads(t, "primary", i, j, a, m)
      BY <3>1, <3>4 DEF Readable, j
    <3>6. m \in 0 .. MaxDepth /\ m + 2 \in 0 .. MaxDepth /\ m <= m + 2
      BY <1>2
    <3>7. /\ Reads(t, "not", i, j, a, m + 2)
          /\ t[i] # "!" => Reads(t, "primary", i, j, a, m + 2)
      BY <3>5, <3>6, ReadsGrow
    <3>8. \A rule : Reads(t, rule, i, j, a, m + 2) => Reads(t, rule, i, j, x, m + 2)
      BY <3>3 DEF Reads
    <3> QED
      BY <3>7, <3>8 DEF j
  <2>5. CASE Len(x.args) # 1
    <3> DEFINE n == Len(q)
               l == i + n + 1
    <3>1. PrintTree(x) = <<"(">> \o q \o <<")">>
      <4> DEFINE k == Len(x.args)
      <4>1. k \in Nat \ {0} /\ k # 1
        BY <2>1, <2>5
      <4> HIDE DEF k
      <4>2. k > 1
        BY <4>1
      <4> QED
        BY <2>3, <4>2 DEF Parenthesize, k
    <3> HIDE DEF q
    <3>2. n \in Nat /\ Stands(t, i, <<"(">>) /\ Stands(t, i + 1, q) /\ Stands(t, l, <<")">>)
          /\ Len(PrintTree(x)) = n + 2
      <4> DEFINE b == <<"(">>
                 c == <<")">>
      <4>1. b \in Seq(Symbols) /\ c \in Seq(Symbols) /\ Len(b) = 1 /\ Len(c) = 1
        BY SymbolsAssumption
      <4>2. PrintTree(x) = b \o q \o c
        BY <3>1
      <4> HIDE DEF b, c
      <4>3. b \o q \in Seq(Symbols) /\ Len(b \o q) = Len(b) + Len(q) /\ Len(q) \in Nat
        BY <2>3, <4>1, Behind
      <4>4. Len(b \o q \o c) = Len(b \o q) + Len(c)
        BY <4>1, <4>3, Behind
      <4>5. Stands(t, i, b \o q) /\ Stands(t, i + Len(b \o q), c)
        BY <4>1, <4>2, <4>3, StandsApart
      <4>6. Stands(t, i, b) /\ Stands(t, i + Len(b), q)
        BY <2>3, <4>1, <4>5, StandsApart
      <4>7. i + Len(b \o q) = l
        BY <4>1, <4>3
      <4> HIDE DEF l
      <4> QED
        BY <4>1, <4>2, <4>3, <4>4, <4>5, <4>6, <4>7 DEF b, c
    <3>3. i \in 1 .. Len(t) /\ t[i] = "("
      BY <3>2, StandsOne
    <3>4. l \in 1 .. Len(t) /\ t[l] = ")" /\ i + 1 + n = l /\ l + 1 = j /\ i + 1 \in Nat \ {0}
      <4>1. l \in Nat \ {0} /\ i + 1 + n = l /\ l + 1 = j
        BY <3>2 DEF j
      <4> HIDE DEF l
      <4> QED
        BY <3>2, <4>1, StandsOne
    <3> HIDE DEF n, l
    <3>5. i + 1 \in 1 .. Len(t) /\ t[i + 1] \notin Identifiers
      <4> DEFINE r == <<Sign(x.kind)>> \o Row(Rest(x))
      <4>1. q = PrintTree(a) \o r /\ PrintTree(a) \in Seq(Symbols)
        BY <1>0, <1>6, <2>2, <2>5, RowIs, PrintTreeType DEF q
      <4>2. r \in Seq(Symbols)
        <5>1. Rest(x) \in Trees /\ Rest(x).kind \in {"or", "and"}
          BY <1>0, <1>6, <2>5, RestIs
        <5>2. Row(Rest(x)) \in Seq(Symbols) /\ Sign(x.kind) \in Symbols
          BY <1>6, <5>1, RowIs, PrintTypes
        <5> QED
          BY <5>2
      <4> HIDE DEF r, a
      <4>3. Stands(t, i + 1, PrintTree(a))
        <5>1. Stands(t, i + 1, PrintTree(a) \o r)
          BY <3>2, <4>1
        <5> QED
          BY <3>4, <4>1, <4>2, <5>1, StandsApart
      <4>4. i + 1 \in 1 .. Len(t) /\ t[i + 1] \in Bools \union {"(", "!"}
        BY <2>2, <3>4, <4>3, StandsStarts
      <4> QED
        BY <4>4 DEF Bools, Identifiers
    <3>6. Reads(t, x.kind, i + 1, l, x, IF x.kind = "and" THEN m + 1 ELSE m + 2)
      <4>1. RowReadable(t, x, m)
        BY <2>1, RowReads
      <4>2. Stands(t, i + 1, Row(x)) /\ At(t, i + 1 + Len(Row(x))) = ")" /\ i + 1 + Len(Row(x)) = l
        <5>1. At(t, l) = ")"
          BY <3>4 DEF At
        <5> QED
          BY <3>2, <3>4, <5>1 DEF q, n
      <4> QED
        BY <3>4, <4>1, <4>2 DEF RowReadable
    <3>7. Reads(t, "or", i + 1, l, x, m + 2)
      <4>1. CASE x.kind = "or"
        BY <3>6, <4>1
      <4>2. CASE x.kind = "and"
        <5>1. Operand("or") = "and" /\ At(t, l) # Sign("or") /\ m + 1 \in Nat /\ m + 1 + 1 = m + 2
          BY <3>4 DEF Operand, Sign, At
        <5>2. Reads(t, Operand("or"), i + 1, l, x, m + 1)
          BY <3>6, <4>2, <5>1
        <5> QED
          BY <1>2, <3>5, <5>1, <5>2, LoneReads
      <4> QED
        BY <1>6, <4>1, <4>2
    <3>8. Reads(t, "primary", i, j, x, m + 2)
      BY <3>3, <3>4, <3>5, <3>7, EnclosedReads
    <3> QED
      BY <1>3, <3>3, <3>8 DEF j
  <2> QED
    BY <2>4, <2>5
<1> QED
  BY <1>4, <1>5, <1>6, Kinds

\* Whatever the depth, which reading back at most doubles.
LEMMA TreesAreReadable ==
  ASSUME NEW t \in Seq(Symbols), Apart(t)
  PROVE  \A d \in Nat : 2 * d <= MaxDepth => \A x \in trees[d] : Legible(x) => Readable(t, x, 2 * d)
<1> DEFINE T == {d \in Nat : 2 * d <= MaxDepth => \A x \in trees[d] : Legible(x) => Readable(t, x, 2 * d)}
<1>1. 0 \in T
  <2> SUFFICES ASSUME NEW x \in trees[0], Legible(x), NEW i \in Nat \ {0}, Stands(t, i, PrintTree(x))
               PROVE  /\ Reads(t, "not", i, i + Len(PrintTree(x)), x, 2 * 0)
                      /\ t[i] # "!" => Reads(t, "primary", i, i + Len(PrintTree(x)), x, 2 * 0)
    BY DEF Readable
  <2>1. x \in Leaves /\ x \in Trees
    BY TreesAre, LevelsBelow
  <2>2. t[i] # "!" /\ Reads(t, "primary", i, i + Len(PrintTree(x)), x, 0) /\ i \in 1 .. Len(t)
    BY <2>1, LeafReads, StandsStarts
  <2>3. Reads(t, "not", i, i + Len(PrintTree(x)), x, 0)
    BY <2>2, PrimaryReads
  <2> QED
    BY <2>2, <2>3
<1>2. ASSUME NEW d \in Nat, d \in T PROVE d + 1 \in T
  <2> SUFFICES ASSUME 2 * (d + 1) <= MaxDepth, NEW x \in trees[d + 1], Legible(x)
               PROVE  Readable(t, x, 2 * (d + 1))
    OBVIOUS
  <2> DEFINE m == 2 * d
             S == trees[d]
  <2>1. m \in Nat /\ m + 2 <= MaxDepth /\ 2 * (d + 1) = m + 2 /\ d < MaxDepth /\ m <= MaxDepth
    BY DepthAssumption
  <2>2. \A a \in S : Legible(a) => Readable(t, a, m)
    BY <1>2, <2>1
  <2>3. S \subseteq Trees /\ Over(S) \subseteq Trees /\ x \in Over(S)
    BY <2>1, LevelIsOver
  <2> HIDE DEF m, S
  <2>4. Readable(t, x, m + 2)
    BY <2>1, <2>2, <2>3, ReadableStep
  <2> QED
    BY <2>1, <2>4
<1>3. \A d \in Nat : d \in T
  <2> HIDE DEF T
  <2> QED
    BY <1>1, <1>2, Induction
<1> QED
  BY <1>3

\* The text of a legible expression without doubled negation signs is accepted and
\* read as an expression that compares and means the same.
LEMMA PrintedIsRead ==
  ASSUME NEW d \in Nat, 2 * d + 2 <= MaxDepth, NEW x \in trees[d], Legible(x), Apart(PrintTree(x))
  PROVE  \E y : /\ Result(PrintTree(x), "or", 1) = Ok(y, Len(PrintTree(x)) + 1)
                /\ Comparisons(y) = Comparisons(x)
                /\ \A w : Holds(y, w) <=> Holds(x, w)
<1> DEFINE t == PrintTree(x)
           n == Len(t)
           m == 2 * d
<1>1. m \in Nat /\ m + 1 \in Nat /\ m < MaxDepth /\ m + 1 < MaxDepth /\ m <= MaxDepth /\ d \in 0 .. MaxDepth
  BY DepthAssumption
<1>2. x \in Trees
  BY <1>1, TreesGrow
<1>3. t \in Seq(Symbols) /\ t # <<>>
  BY <1>2, PrintTreeType, PrintTreeStarts
<1> HIDE DEF t
<1>4. n \in Nat \ {0}
  BY <1>3, EmptySeq, LenProperties
<1>5. Stands(t, 1, t)
  <2>1. \A k \in 1 .. n : 1 + k - 1 = k
    BY <1>4
  <2>2. 1 + n <= n + 1
    BY <1>4
  <2> HIDE DEF n
  <2> QED
    BY <2>1, <2>2 DEF Stands, n
<1>6. Readable(t, x, m)
  <2>1. Apart(t)
    BY DEF t
  <2> QED
    BY <1>1, <1>3, <2>1, TreesAreReadable
<1>7. Reads(t, "not", 1, n + 1, x, m)
  <2>1. Stands(t, 1, PrintTree(x)) /\ 1 \in Nat \ {0} /\ 1 + Len(PrintTree(x)) = n + 1
    BY <1>4, <1>5 DEF t
  <2>2. Reads(t, "not", 1, 1 + Len(PrintTree(x)), x, m)
    BY <1>6, <2>1 DEF Readable
  <2> QED
    BY <2>1, <2>2
<1>8. At(t, n + 1) = End /\ End # Sign("and") /\ End # Sign("or") /\ 1 \in 1 .. n
  <2>1. ~(n + 1 <= n)
    BY <1>4
  <2> QED
    BY <1>4, <2>1 DEF At, End, Sign
<1>9. Reads(t, "and", 1, n + 1, x, m + 1)
  <2>1. Operand("and") = "not"
    BY DEF Operand
  <2> HIDE DEF n, m
  <2> QED
    BY <1>1, <1>3, <1>7, <1>8, <2>1, LoneReads DEF n
<1>10. Reads(t, "or", 1, n + 1, x, m + 1 + 1)
  <2>1. Operand("or") = "and"
    BY DEF Operand
  <2> HIDE DEF n, m
  <2> QED
    BY <1>1, <1>3, <1>8, <1>9, <2>1, LoneReads DEF n
<1> QED
  BY <1>10 DEF Reads, t

(* ------------------------------- invariance ----------------------------- *)

\* The constructor has decided about the text by its parse, and a verdict is that of
\* the expression on the event the source made of the access.
IInv ==
  /\ text \in Texts /\ access \in Accesses
  /\ result \in {"new", "empty", "parsed", "throws"}
  /\ blank \in BOOLEAN
  /\ result = "empty" => Empty
  /\ result = "throws" => ~Empty /\ ~Whole(Result(text, "or", 1))
  /\ result = "parsed" => /\ ~Empty /\ Whole(Result(text, "or", 1))
                          /\ expr = Result(text, "or", 1).tree
                          /\ printed = PrintTree(expr)
  /\ result # "parsed" => printed = <<>>
  /\ verdict \in [Sources -> Verdicts \union {"none"}]
  /\ \A s \in Sources :
       /\ verdict[s] \in {"none", Passes(s)}
       /\ result \in {"new", "throws"} => verdict[s] = "none"

\* The parser finds nothing at the end of a text.
LEMMA NothingAtEnd ==
  ASSUME NEW t, Len(t) \in Nat, NEW i \in 1 .. Len(t) + 1, At(t, i) = End
  PROVE  Result(t, "or", i) = No
<1>1. At(t, i) \notin Bools /\ At(t, i) # "(" /\ At(t, i) # "!"
  BY DEF End, Bools
<1>2. Result(t, "primary", i) = No
  BY <1>1, PrimaryIs
<1>3. Result(t, "not", i) = No
  <2>1. Result(t, "not", i) = Unary(t, i, Parse(t))
    BY ParseRules
  <2> QED
    BY <1>1, <1>2, <2>1 DEF Unary, Result
<1>4. No.is # "ok" /\ Operand("and") = "not" /\ Operand("or") = "and"
  BY DEF No, Operand
<1>5. ASSUME NEW kind \in {"or", "and"}, Result(t, Operand(kind), i) = No
      PROVE  Result(t, kind, i) = No
  <2>1. Result(t, Operand(kind), i).is # "ok"
    BY <1>4, <1>5
  <2> QED
    BY <1>5, <2>1, LevelIs
<1>6. Result(t, Operand("and"), i) = No
  BY <1>3, <1>4
<1>7. Result(t, "and", i) = No
  BY <1>5, <1>6
<1>8. Result(t, Operand("or"), i) = No
  BY <1>4, <1>7
<1> QED
  BY <1>5, <1>8

\* The parser finds nothing in a text without symbols.
LEMMA NothingIsRefused ==
  ASSUME NEW t, t = <<>>
  PROVE  Result(t, "or", 1).is = "no"
<1>1. Len(t) = 0
  BY EmptySeq
<1>2. Len(t) \in Nat /\ 1 \in 1 .. Len(t) + 1 /\ At(t, 1) = End
  BY <1>1 DEF At
<1>3. Result(t, "or", 1) = No
  BY <1>2, NothingAtEnd
<1> QED
  BY <1>3 DEF No

\* What is parsed is a tree of the shape of a disjunction over the comparisons of the
\* text, and means what the grammar derives.
LEMMA ParsedIs ==
  ASSUME NEW t \in Seq(Symbols), 2 * Len(t) <= MaxDepth,
         Result(t, "or", 1).is = "ok", Result(t, "or", 1).next = Len(t) + 1
  PROVE  LET x == Result(t, "or", 1).tree
         IN  /\ x \in Trees /\ x.kind = "or" /\ \A i \in DOMAIN x.args : x.args[i].kind = "and"
             /\ Comparisons(x) \subseteq AllAtoms(t)
<1> DEFINE n == Len(t)
           r == Result(t, "or", 1)
           x == r.tree
<1>0. t # <<>>
  BY NothingIsRefused
<1>1. n \in Nat \ {0} /\ 1 \in 1 .. n + 1 /\ "or" \in Rules
  BY <1>0, TextIs, EmptySeq DEF Rules
<1>2. Derived(t, "or", 1, r)
  BY <1>1, ReadIsDerived
<1>3. n + 1 - 1 = n
  BY <1>1
<1>4. x \in Shapes("or", n) /\ Comparisons(x) \subseteq AllAtoms(t)
  BY <1>2, <1>3 DEF Derived
<1>5. Shapes("or", n) \subseteq Trees
  <2>1. 2 * n <= MaxDepth
    OBVIOUS
  <2> HIDE DEF n
  <2> QED
    BY <1>1, <2>1, ShapesAreTrees
<1> HIDE DEF x, n
<1>6. x \in Disjunctions(n)
  BY <1>4 DEF Shapes
<1>7. x.kind = "or" /\ x.args \in Seq(Conjunctions(n))
  BY <1>6 DEF Disjunctions
<1>8. ASSUME NEW i \in DOMAIN x.args PROVE x.args[i].kind = "and"
  <2>1. x.args[i] \in Conjunctions(n)
    BY <1>7, LenProperties, ElementOfSeq
  <2> QED
    BY <2>1 DEF Conjunctions
<1> QED
  BY <1>4, <1>5, <1>7, <1>8 DEF x

\* What the assumption on the texts says of the one in use.
LEMMA TextsAre ==
  ASSUME NEW t \in Texts
  PROVE  t \in Seq(Symbols) /\ 2 * Len(t) <= MaxDepth /\ Len(t) \in Nat
<1>1. t \in Seq(Symbols) /\ 6 * Len(t) <= MaxDepth /\ Len(t) \in Nat
  BY PredicateAssumption, LenProperties
<1> QED
  BY <1>1, DepthAssumption

\* In states of the invariant a predicate that was not thrown has a verdict.
LEMMA PassesType ==
  ASSUME IInv, result \in {"empty", "parsed"}, NEW s \in Sources
  PROVE  Passes(s) \in Verdicts
<1>1. CASE result = "empty"
  BY <1>1 DEF Passes, Verdicts
<1>2. CASE result = "parsed"
  <2>1. expr \in Trees
    BY <1>2, TextsAre, ParsedIs DEF IInv, Whole
  <2> QED
    BY <1>2, <2>1, EvaluateType DEF Passes
<1> QED
  BY <1>1, <1>2

\* IInv holds initially, the constructor's step and each filter's step keep it.
LEMMA Invariance == Spec => []IInv
<1>1. Init => IInv
  BY DEF Init, IInv
<1>2. IInv /\ [Next]_vars => IInv'
  <2> SUFFICES ASSUME IInv, [Next]_vars PROVE IInv'
    OBVIOUS
  <2>1. CASE UNCHANGED vars
    BY <2>1 DEF vars, IInv, Passes, Whole, Empty
  <2>2. CASE Construct
    <3> DEFINE r == Result(text, "or", 1)
    <3>1. result = "new" /\ printed = <<>> /\ \A s \in Sources : verdict[s] = "none"
      BY <2>2 DEF IInv, Construct
    <3>2. UNCHANGED <<text, blank, access, verdict>>
      BY <2>2 DEF Construct
    <3>3. \/ Empty /\ result' = "empty" /\ printed' = <<>>
          \/ ~Empty /\ Whole(r) /\ result' = "parsed" /\ expr' = r.tree /\ printed' = PrintTree(r.tree)
          \/ ~Empty /\ ~Whole(r) /\ result' = "throws" /\ printed' = <<>>
      BY <2>2, <3>1 DEF Construct, Result
    <3>4. (\A x : Whole(x)' <=> Whole(x)) /\ (Empty' <=> Empty)
      BY <3>2 DEF Whole, Empty
    <3>5. r' = r
      BY <3>2
    <3> HIDE DEF r
    <3> QED
      BY <3>1, <3>2, <3>3, <3>4, <3>5 DEF IInv, r
  <2>3. ASSUME NEW s \in Sources, Judge(s) PROVE IInv'
    <3>1. Passes(s) \in Verdicts
      BY <2>3, PassesType DEF Judge
    <3>2. UNCHANGED <<text, blank, result, expr, printed, access>> /\ result \in {"empty", "parsed"}
          /\ verdict' = [verdict EXCEPT ![s] = Passes(s)]
      BY <2>3 DEF Judge
    <3>3. \A source : Passes(source)' = Passes(source)
      BY <3>2 DEF Passes
    <3>4. (\A x : Whole(x)' <=> Whole(x)) /\ (Empty' <=> Empty)
      BY <3>2 DEF Whole, Empty
    <3>5. Result(text, "or", 1)' = Result(text, "or", 1)
      BY <3>2
    <3> QED
      BY <3>1, <3>2, <3>3, <3>4, <3>5 DEF IInv
  <2> QED
    BY <2>1, <2>2, <2>3 DEF Next
<1> QED
  BY <1>1, <1>2, PTL DEF Spec

\* The identifiers of both events fit their unsigned types, those of a failed lookup
\* and of the user that fanotify does not know included.
LEMMA IdentifiersFit ==
  ASSUME NEW a \in Accesses, NEW s \in Sources
  PROVE  {EventOf(s, a).uid, EventOf(s, a).gid} \subseteq 0 .. Limit - 1
<1>1. \A n \in Int : Unsigned(n) \in 0 .. Limit - 1
  BY LimitAssumption DEF Unsigned
<1>2. getpgid(a) \in Int
  BY PredicateAssumption DEF getpgid
<1>3. CASE s = "lsp"
  <2>1. EventOf(s, a).uid = a.uid /\ EventOf(s, a).gid = a.gid
    BY <1>3 DEF EventOf, lspObserved, lspEvent
  <2> QED
    BY <2>1, PredicateAssumption
<1>4. CASE s = "fan"
  <2>1. EventOf(s, a).uid = Unsigned(-1) /\ EventOf(s, a).gid = Unsigned(getpgid(a))
    BY <1>4 DEF EventOf, fanObserved, fanEvent
  <2> QED
    BY <1>1, <1>2, <2>1
<1> QED
  BY <1>3, <1>4 DEF Sources

\* Whatever the text, what was parsed is a disjunction of conjunctions and prints as
\* some text, nothing else is printed, every verdict is one, and the identifiers of
\* both events fit their unsigned types.
THEOREM TypeCorrect == Spec => []TypeOK
<1>1. IInv => TypeOK
  <2> SUFFICES ASSUME IInv PROVE TypeOK
    OBVIOUS
  <2>1. result = "parsed" => /\ expr \in Trees /\ expr.kind = "or"
                             /\ \A i \in DOMAIN expr.args : expr.args[i].kind = "and"
    BY TextsAre, ParsedIs DEF IInv, Whole
  <2>2. result = "parsed" <=> printed # <<>>
    BY <2>1, PrintTreeStarts DEF IInv
  <2>3. \A s \in Sources : {EventOf(s, access).uid, EventOf(s, access).gid} \subseteq 0 .. Limit - 1
    BY IdentifiersFit DEF IInv
  <2> QED
    BY <2>1, <2>2, <2>3 DEF TypeOK, IInv, Verdicts
<1> QED
  BY <1>1, Invariance, PTL

\* The parser, of any text of any length: it takes a text exactly if the grammar
\* derives all of it, the grammar derives one meaning, and that is the tree's.
THEOREM ParsesRightAlways == Spec => []ParsesRight
<1>1. IInv => ParsesRight
  <2> SUFFICES ASSUME IInv PROVE ParsesRight
    OBVIOUS
  <2>1. text \in Seq(Symbols) /\ 2 * Len(text) <= MaxDepth
    BY TextsAre DEF IInv
  <2>2. CASE result = "parsed"
    <3>1. text # <<>>
      BY <2>1, <2>2, NothingIsRefused DEF IInv, Whole
    <3>2. Means(text, "or", 1, Len(text)) = {Meaning(expr, text)}
      BY <2>1, <2>2, <3>1, ParserIsRight DEF IInv, Whole
    <3> QED
      BY <2>2, <3>1, <3>2 DEF ParsesRight, Means
  <2>3. CASE result = "throws"
    <3>1. text = <<>> => blank
      BY <2>3 DEF IInv, Empty
    <3>2. text # <<>> => Means(text, "or", 1, Len(text)) = {}
      BY <2>1, <2>3, ParserIsRight DEF IInv, Whole
    <3> QED
      BY <2>3, <3>1, <3>2 DEF ParsesRight, Means
  <2> QED
    BY <2>2, <2>3 DEF ParsesRight, IInv, Empty
<1> QED
  BY <1>1, Invariance, PTL

\* Both evaluators, on any expression the parser makes of a text, give the verdict
\* it means under every reading of its ill-typed comparisons, and throw only if it
\* has one.
THEOREM VerdictSoundAlways == Spec => []VerdictSound
<1>1. IInv => VerdictSound
  <2> SUFFICES ASSUME IInv, result = "parsed", NEW s \in Sources
               PROVE  LET readings == Readings(expr, EventOf(s, access))
                      IN  /\ verdict[s] = "yes" => \A t \in readings : Holds(expr, t)
                          /\ verdict[s] = "no" => \A t \in readings : ~Holds(expr, t)
                          /\ verdict[s] = "throws" => \E c \in Comparisons(expr) : ~WellTyped(c)
    BY DEF VerdictSound
  <2> DEFINE e == EventOf(s, access)
  <2>1. expr \in Trees /\ verdict[s] \in {"none", Evaluate(s, expr, access)}
    BY TextsAre, ParsedIs DEF IInv, Passes, Whole
  <2>2. ASSUME NEW t \in Readings(expr, e)
        PROVE  /\ verdict[s] = "yes" => Holds(expr, t)
               /\ verdict[s] = "no" => ~Holds(expr, t)
               /\ verdict[s] = "throws" => \E c \in Comparisons(expr) : ~WellTyped(c)
    BY <2>1, <2>2, EvaluateSound
  <2>3. \E t : t \in Readings(expr, e)
    <3> DEFINE t == [c \in Comparisons(expr) |-> Matches(c, e)]
    <3>1. t \in Readings(expr, e)
      <4> HIDE DEF e
      <4> QED
        BY DEF Readings, Matches
    <3> QED
      BY <3>1
  <2> HIDE DEF e
  <2>4. /\ verdict[s] = "yes" => \A t \in Readings(expr, e) : Holds(expr, t)
        /\ verdict[s] = "no" => \A t \in Readings(expr, e) : ~Holds(expr, t)
        /\ verdict[s] = "throws" => \E c \in Comparisons(expr) : ~WellTyped(c)
    BY <2>2, <2>3
  <2> QED
    BY <2>4 DEF e
<1> QED
  BY <1>1, Invariance, PTL

\* The comparisons that a text spells are of the grammar's identifiers.
LEMMA AtomsCompare == \A t : \A c \in AllAtoms(t) : c.id \in Identifiers
  BY DEF AllAtoms, Atoms

\* An identifier that the sources share stands for the same in both events.
LEMMA SharedIs ==
  ASSUME NEW a \in Accesses, NEW id \in Identifiers, Shared(id, a)
  PROVE  EventOf("lsp", a)[id] = EventOf("fan", a)[id]
<1> DEFINE l == EventOf("lsp", a)
           f == EventOf("fan", a)
<1>0. {a.uid, a.gid} \subseteq 0 .. Limit - 1 /\ a.pgid \in Nat /\ a.alive \in Nat /\ Limit \in Nat \ {0}
  BY PredicateAssumption, LimitAssumption
<1>1. /\ l["event"] = a.code /\ l["file"] = a.file /\ l["process"] = a.exe
      /\ l["pid"] = a.pid /\ l["uid"] = a.uid /\ l["gid"] = a.gid
  BY DEF EventOf, lspObserved, lspEvent
<1>2. /\ f["event"] = fanEventCode(a.mask) /\ f["file"] = getFdPath(a) /\ f["process"] = getPidComm(a)
      /\ f["pid"] = a.pid /\ f["uid"] = Unsigned(-1) /\ f["gid"] = Unsigned(getpgid(a))
  BY DEF EventOf, fanObserved, fanEvent
<1> HIDE DEF l, f
<1>3. CASE id = "event"
  <2>1. a.code = fanEventCode(a.mask)
    BY <1>3 DEF Shared, fanEventCode
  <2> QED
    BY <1>1, <1>2, <1>3, <2>1 DEF l, f
<1>4. CASE id = "file"
  <2>1. getFdPath(a) = a.file
    BY <1>4 DEF Shared, getFdPath
  <2> QED
    BY <1>1, <1>2, <1>4, <2>1 DEF l, f
<1>5. CASE id = "process"
  <2>1. a.comm = a.exe /\ a.alive >= 3
    BY <1>5 DEF Shared
  <2>2. getPidComm(a) = a.comm
    BY <1>0, <2>1 DEF getPidComm
  <2> QED
    BY <1>1, <1>2, <1>5, <2>1, <2>2 DEF l, f
<1>6. CASE id = "pid"
  BY <1>1, <1>2, <1>6 DEF l, f
<1>7. CASE id = "uid"
  <2>1. Unsigned(-1) = Limit - 1
    BY <1>0 DEF Unsigned
  <2> QED
    BY <1>1, <1>2, <1>7, <2>1 DEF Shared, l, f
<1>8. CASE id = "gid"
  <2>1. getpgid(a) = a.gid
    BY <1>8 DEF Shared, getpgid
  <2>2. Unsigned(a.gid) = a.gid
    BY <1>0 DEF Unsigned
  <2> QED
    BY <1>1, <1>2, <1>8, <2>1, <2>2 DEF l, f
<1> QED
  BY <1>3, <1>4, <1>5, <1>6, <1>7, <1>8 DEF l, f, Identifiers

\* The two copies of the evaluator never disagree about an access that looks the same
\* to both sources in what the expression compares, whatever the expression is, and
\* throw at the same ones.
THEOREM SameAccessSameVerdictAlways == Spec => []SameAccessSameVerdict
<1>1. IInv => SameAccessSameVerdict
  <2> SUFFICES ASSUME IInv,
                      \A c \in Comparisons(expr) : WellTyped(c) => Shared(c.id, access),
                      \A s \in Sources : verdict[s] # "none"
               PROVE  verdict["lsp"] = verdict["fan"]
    BY DEF SameAccessSameVerdict
  <2>1. {"lsp", "fan"} \subseteq Sources
    BY DEF Sources
  <2>2. verdict["lsp"] = Passes("lsp") /\ verdict["fan"] = Passes("fan") /\ access \in Accesses
    BY <2>1 DEF IInv
  <2>3. result \in {"empty", "parsed"}
    BY <2>1 DEF IInv
  <2>4. CASE result = "empty"
    BY <2>2, <2>4 DEF Passes
  <2>5. CASE result = "parsed"
    <3>1. expr \in Trees
      BY <2>5, TextsAre, ParsedIs DEF IInv, Whole
    <3>2. verdict["lsp"] = Evaluate("lsp", expr, access) /\ verdict["fan"] = Evaluate("fan", expr, access)
      BY <2>2, <2>5 DEF Passes
    <3>3. \A c \in Comparisons(expr) : c.id \in Identifiers
      BY <2>5, TextsAre, ParsedIs, AtomsCompare DEF IInv, Whole
    <3>4. \A c \in Comparisons(expr) : WellTyped(c) => EventOf("lsp", access)[c.id] = EventOf("fan", access)[c.id]
      BY <2>2, <3>3, SharedIs
    <3> QED
      BY <3>1, <3>2, <3>4, EvaluateAgrees
  <2> QED
    BY <2>3, <2>4, <2>5
<1> QED
  BY <1>1, Invariance, PTL

\* A part of a text, from one place to one that is not before it, is not empty.
LEMMA PartIs ==
  ASSUME NEW t \in Seq(Symbols), NEW a \in 1 .. Len(t), NEW b \in a .. Len(t)
  PROVE  SubSeq(t, a, b) \in Seq(Symbols) /\ Len(SubSeq(t, a, b)) # 0
<1>1. Len(t) \in Nat /\ a \in Nat /\ b \in Nat /\ a <= b
  BY TextIs
<1>2. \A i \in a .. b : t[i] \in Symbols
  BY <1>1
<1> DEFINE s == SubSeq(t, a, b)
<1>3. /\ s \in Seq(Symbols)
      /\ Len(s) = IF a <= b THEN b - a + 1 ELSE 0
  BY <1>1, <1>2, SubSeqProperties
<1> HIDE DEF s
<1>4. Len(s) # 0
  BY <1>1, <1>3
<1> QED
  BY <1>3, <1>4 DEF s

\* A string that the text has is not empty.
LEMMA AtomsAre ==
  ASSUME NEW t \in Seq(Symbols), NEW c \in AllAtoms(t), c.value.type = "string"
  PROVE  c.value.of # <<>>
<1>1. PICK i \in DOMAIN t, j \in DOMAIN t : c \in Atoms(t, i, j)
  BY DEF AllAtoms
<1>2. Len(t) \in Nat /\ DOMAIN t = 1 .. Len(t)
  BY TextIs
<1> DEFINE k == i + 3
           l == j - 1
           s == SubSeq(t, k + 1, l - 1)
<1>3. c.value \in Spelled(t, k, l)
  BY <1>1 DEF Atoms
<1>4. k + 1 < l /\ c.value.of = s
  BY <1>3 DEF Spelled
<1>5. k + 1 \in 1 .. Len(t) /\ l - 1 \in k + 1 .. Len(t)
  BY <1>2, <1>4
<1>6. Len(s) # 0 /\ s \in Seq(Symbols)
  BY <1>5, PartIs
<1> HIDE DEF s
<1> QED
  BY <1>4, <1>6, EmptySeq

\* But for the two things that the printer cannot render, the predicate's debug message
\* is a text from which the constructor would make a predicate that means the same.
THEOREM ReadsBackAlways == Spec => []ReadsBack
<1>1. IInv => ReadsBack
  <2> SUFFICES ASSUME IInv, result = "parsed", Renderable
               PROVE  LET r == Parse(printed)["or", 1]
                      IN  /\ r.is = "ok" /\ r.next = Len(printed) + 1
                          /\ Comparisons(r.tree) = Comparisons(expr)
                          /\ Meaning(r.tree, text) = Meaning(expr, text)
    BY DEF ReadsBack
  <2> DEFINE n == Len(text)
             d == 2 * n
  <2>1. /\ text \in Seq(Symbols) /\ n \in Nat \ {0} /\ 6 * n <= MaxDepth /\ text # <<>>
        /\ Result(text, "or", 1).is = "ok" /\ Result(text, "or", 1).next = n + 1
        /\ expr = Result(text, "or", 1).tree /\ printed = PrintTree(expr)
    <3>1. text # <<>>
      BY NothingIsRefused DEF IInv, Whole
    <3> QED
      BY <3>1, PredicateAssumption, TextIs, EmptySeq DEF IInv, Whole
  <2> HIDE DEF n
  <2>2. d \in Nat /\ 2 * d + 2 <= MaxDepth /\ 2 * n <= MaxDepth
    BY <2>1, DepthAssumption
  <2>3. expr \in trees[d] /\ Comparisons(expr) \subseteq AllAtoms(text)
    <3>1. 1 \in 1 .. Len(text) + 1 /\ "or" \in Rules /\ n + 1 - 1 = n
      BY <2>1 DEF Rules, n
    <3>2. Derived(text, "or", 1, Result(text, "or", 1))
      BY <2>1, <2>2, <3>1, ReadIsDerived DEF n
    <3>3. expr \in Shapes("or", n) /\ Comparisons(expr) \subseteq AllAtoms(text)
      BY <2>1, <3>1, <3>2 DEF Derived
    <3>4. Shapes("or", n) \subseteq trees[2 * n]
      BY <2>1, <2>2, <3>1, ShapesAreTrees
    <3> QED
      BY <3>3, <3>4
  <2> HIDE DEF d
  <2>4. Legible(expr)
    <3> SUFFICES ASSUME NEW c \in Comparisons(expr), c.value.type = "string"
                 PROVE  c.value.of # <<>> /\ \A k \in DOMAIN c.value.of : c.value.of[k] # Single
      BY DEF Legible
    <3>1. c.value.of # <<>>
      BY <2>1, <2>3, AtomsAre
    <3>2. Single \notin Range(c.value.of)
      BY DEF Renderable
    <3> QED
      BY <3>1, <3>2 DEF Range
  <2>5. Apart(printed)
    <3> SUFFICES ASSUME NEW k \in 1 .. Len(printed) - 1 PROVE ~(printed[k] = "!" /\ printed[k + 1] = "!")
      BY DEF Apart
    <3>1. <<printed[k], printed[k + 1]>> # <<"!", "!">>
      BY DEF Renderable
    <3> QED
      BY <3>1
  <2>6. PICK y : /\ Result(printed, "or", 1) = Ok(y, Len(printed) + 1)
                 /\ Comparisons(y) = Comparisons(expr)
                 /\ \A w : Holds(y, w) <=> Holds(expr, w)
    BY <2>1, <2>2, <2>3, <2>4, <2>5, PrintedIsRead
  <2>7. Meaning(y, text) = Meaning(expr, text)
    BY <2>6 DEF Meaning
  <2> DEFINE r == Result(printed, "or", 1)
  <2>8. r.is = "ok" /\ r.next = Len(printed) + 1 /\ r.tree = y
    BY <2>6, OkIs
  <2> QED
    BY <2>6, <2>7, <2>8 DEF Result
<1> QED
  BY <1>1, Invariance, PTL
=============================================================================
