-------------------------- MODULE ZippedChainsProofs --------------------------
(***************************************************************************)
(* The modes intersection, difference and buffered_difference, proved for  *)
(* any files, any number of events and any capacity of the queues.         *)
(***************************************************************************)
EXTENDS ZippedChains, SequenceTheorems, FiniteSetTheorems, TLAPS

(* --------------------------------- queues ------------------------------- *)

\* A queue is its head and what is behind it.
LEMMA HeadTail ==
  ASSUME NEW S, NEW s \in Seq(S), s # <<>>
  PROVE  /\ Head(s) \in S /\ Tail(s) \in Seq(S) /\ <<Head(s)>> \in Seq(S)
         /\ s = <<Head(s)>> \o Tail(s)
<1>1. Len(s) \in Nat \ {0} /\ Head(s) = s[1]
  BY EmptySeq
<1>2. Head(s) \in S /\ Tail(s) \in Seq(S) /\ Tail(s) = SubSeq(s, 2, Len(s))
  BY HeadTailProperties, TailIsSubSeq
<1>3. s = <<s[1]>> \o SubSeq(s, 1 + 1, Len(s))
  BY <1>1, SubSeqFull, SubSeqRecursiveFirst
<1> QED
  BY <1>1, <1>2, <1>3

\* An element may be added to a queue or to what the queue ends.
LEMMA AppendMoves ==
  ASSUME NEW S, NEW a \in Seq(S), NEW b \in Seq(S), NEW e \in S
  PROVE  a \o Append(b, e) = Append(a \o b, e)
<1>1. <<e>> \in Seq(S) /\ a \o b \in Seq(S)
  BY ConcatProperties
<1>2. a \o (b \o <<e>>) = (a \o b) \o <<e>>
  BY <1>1, ConcatAssociative
<1> QED
  BY <1>1, <1>2, AppendIsConcat

\* An element that goes from the head of a queue to the end of what is before it
\* moves nothing.
LEMMA HeadMoves ==
  ASSUME NEW S, NEW a \in Seq(S), NEW b \in Seq(S), b # <<>>
  PROVE  Append(a, Head(b)) \o Tail(b) = a \o b
BY HeadTail, AppendIsConcat, ConcatAssociative

(* --------------------------------- types -------------------------------- *)

\* Logged events: an element of a source.
Logged == Sources \X Events

\* Taking and appending leave queues of events.
LEMMA Elements ==
  /\ <<>> \in Seq(Events)
  /\ \A q \in Seq(Events) : q # <<>> => Head(q) \in Events /\ Tail(q) \in Seq(Events)
  /\ \A q \in Seq(Events), e \in Events : Append(q, e) \in Seq(Events)
  BY EmptySeq, HeadTailProperties, AppendProperties

\* What adjacent_if keeps of a pair.
LEMMA PushTypes ==
  ASSUME NEW l \in Events, NEW r \in Events
  PROVE  Push(l, r) \in Seq(Logged) /\ Len(Push(l, r)) <= 2
<1>1. <<"lsp", l>> \in Logged /\ <<"fan", r>> \in Logged
  BY DEF Logged, Sources
<1> QED
  BY <1>1, EmptySeq DEF Push

\* What yield takes from the results and leaves there.
LEMMA ReportTypes ==
  ASSUME TypeOK, results # <<>>
  PROVE  /\ Last(results) \in Logged
         /\ Front(results) \in Seq(Logged)
         /\ Len(Front(results)) = Len(results) - 1
         /\ \A i \in 1 .. Len(results) - 1 : Front(results)[i] = results[i]
         /\ Len(results) \in 1 .. 2
<1>1. results \in Seq(Logged) /\ Len(results) <= 2
  BY DEF TypeOK, Logged
<1>4. Len(results) \in 1 .. 2
  <2>1. Len(results) \in Nat \ {0}
    BY <1>1, EmptySeq, Zenon
  <2>2. Len(results) <= 2
    BY <1>1, Zenon
  <2>3. ASSUME NEW n \in Nat \ {0}, n <= 2 PROVE n \in 1 .. 2
    BY <2>3
  <2> QED
    BY <2>1, <2>2, <2>3, Zenon
<1>2. Last(results) \in Logged
  BY <1>1, <1>4, ElementOfSeq DEF Last
<1>3. /\ SubSeq(results, 1, Len(results) - 1) \in Seq(Logged)
      /\ Len(SubSeq(results, 1, Len(results) - 1)) = Len(results) - 1
      /\ \A i \in 1 .. Len(results) - 1 : SubSeq(results, 1, Len(results) - 1)[i] = results[i]
  <2>1. 1 \in 1 .. Len(results) + 1 /\ Len(results) - 1 \in 0 .. Len(results)
    BY <1>4
  <2>2. \A i \in 1 .. Len(results) - 1 : results[i] \in Logged
    <3>1. \A i \in 1 .. Len(results) : results[i] \in Logged
      BY <1>1, ElementOfSeq
    <3> QED
      BY <1>4, <3>1
  <2>3. ASSUME NEW n \in 0 .. 1, \A i \in 1 .. n : results[i] \in Logged
        PROVE  /\ SubSeq(results, 1, n) \in Seq(Logged)
               /\ Len(SubSeq(results, 1, n)) = n
               /\ \A i \in 1 .. n : SubSeq(results, 1, n)[i] = results[i]
    <3>1. /\ SubSeq(results, 1, n) \in Seq(Logged)
          /\ Len(SubSeq(results, 1, n)) = IF 1 <= n THEN n - 1 + 1 ELSE 0
          /\ \A i \in 1 .. n - 1 + 1 : SubSeq(results, 1, n)[i] = results[1 + i - 1]
      BY <2>3, SubSeqProperties, 1 \in Int, n \in Int
    <3> QED
      BY <3>1
  <2>4. Len(results) - 1 \in 0 .. 1
    BY <1>4
  <2> QED
    BY <2>2, <2>3, <2>4
<1> QED
  BY <1>1, <1>2, <1>3, <1>4 DEF Front

LEMMA TypeStep == TypeOK /\ [Next]_vars => TypeOK'
<1> SUFFICES ASSUME TypeOK, [Next]_vars PROVE TypeOK'
  OBVIOUS
<1> USE DEF queueVars, zipVars, sinkVars, Put
<1>1. ASSUME NEW s \in Sources, Arrive(s) PROVE TypeOK'
  <2>1. arrived[s] + 1 \in Events /\ arrived[s] + 1 \in 0 .. MaxEvents
    <3>1. arrived[s] \in 0 .. MaxEvents /\ arrived[s] < MaxEvents /\ MaxEvents \in Nat
      BY <1>1, ConstantsAssumption DEF Arrive, TypeOK
    <3> QED
      BY <3>1 DEF Events
  <2>2. /\ Append(queueQ[s], arrived[s] + 1) \in Seq(Events)
        /\ Append(zipQ[s], arrived[s] + 1) \in Seq(Events)
    BY <2>1, Elements DEF TypeOK
  <2>3. arrived' = [arrived EXCEPT ![s] = arrived[s] + 1] /\ arrived'[s] = arrived[s] + 1
    BY <1>1 DEF Arrive, TypeOK
  <2>4. queueQ' \in [Sources -> Seq(Events)] /\ zipQ' \in [Sources -> Seq(Events)]
    <3>1. \/ queueQ' = [queueQ EXCEPT ![s] = Append(queueQ[s], arrived[s] + 1)] /\ zipQ' = zipQ
          \/ zipQ' = [zipQ EXCEPT ![s] = Append(zipQ[s], arrived[s] + 1)] /\ queueQ' = queueQ
      BY <1>1, <2>3 DEF Arrive
    <3> QED
      BY <3>1, <2>2 DEF TypeOK
  <2> QED
    BY <1>1, <2>1, <2>3, <2>4 DEF Arrive, TypeOK
<1>2. ASSUME NEW s \in Sources, QueueAwait(s) PROVE TypeOK'
  <2>1. Head(queueQ[s]) \in Events /\ Tail(queueQ[s]) \in Seq(Events)
    BY <1>2, Elements DEF QueueAwait, TypeOK
  <2>2. /\ queueQ' \in [Sources -> Seq(Events)]
        /\ buffer' \in [Sources -> SUBSET Events]
        /\ buffer'[s] # {} /\ \A r \in Sources \ {s} : buffer'[r] = buffer[r]
    BY <1>2, <2>1 DEF QueueAwait, TypeOK
  <2>3. draining' \in [Sources -> BOOLEAN]
    <3>1. Full(buffer'[s]) \in BOOLEAN
      BY DEF Full
    <3>2. draining' = [draining EXCEPT ![s] = Full(buffer'[s])]
      BY <1>2 DEF QueueAwait
    <3> QED
      BY <3>1, <3>2, Zenon DEF TypeOK
  <2>4. \A r \in Sources \ {s} : draining'[r] = draining[r]
    BY <1>2 DEF QueueAwait, TypeOK
  <2> QED
    BY <1>2, <2>2, <2>3, <2>4 DEF QueueAwait, TypeOK
<1>3. ASSUME NEW s \in Sources, QueueYield(s) PROVE TypeOK'
  <2>1. PICK n \in buffer[s] : /\ buffer' = [buffer EXCEPT ![s] = @ \ {n}]
                               /\ zipQ' = [zipQ EXCEPT ![s] = Append(@, n)]
    BY <1>3 DEF QueueYield
  <2>2. n \in Events /\ Append(zipQ[s], n) \in Seq(Events)
    BY Elements DEF TypeOK
  <2>3. /\ zipQ' \in [Sources -> Seq(Events)]
        /\ buffer' \in [Sources -> SUBSET Events]
        /\ \A r \in Sources \ {s} : buffer'[r] = buffer[r]
    BY <2>1, <2>2 DEF TypeOK
  <2>4. /\ draining' \in [Sources -> BOOLEAN]
        /\ draining'[s] <=> buffer'[s] # {}
        /\ \A r \in Sources \ {s} : draining'[r] = draining[r]
    <3>1. draining' = [draining EXCEPT ![s] = buffer'[s] # {}] /\ (buffer'[s] # {}) \in BOOLEAN
      BY <1>3 DEF QueueYield, YieldsAgain
    <3> QED
      BY <3>1, Zenon DEF TypeOK
  <2> QED
    BY <1>3, <2>3, <2>4 DEF QueueYield, TypeOK
<1>4. CASE AwaitPair
  <2>1. \A s \in Sources : /\ Head(zipQ[s]) \in Events
                           /\ Tail(zipQ[s]) \in Seq(Events)
                           /\ Append(paired[s], Head(zipQ[s])) \in Seq(Events)
                           /\ Len(Append(paired[s], Head(zipQ[s]))) = Len(paired[s]) + 1
    BY <1>4, Elements, AppendProperties DEF AwaitPair, TypeOK
  <2>2. Push(Head(zipQ["lsp"]), Head(zipQ["fan"])) \in Seq(Logged)
        /\ Len(Push(Head(zipQ["lsp"]), Head(zipQ["fan"]))) <= 2
    BY <2>1, PushTypes DEF Sources
  <2>3. /\ zipQ' \in [Sources -> Seq(Events)] /\ paired' \in [Sources -> Seq(Events)]
        /\ Len(paired'["lsp"]) = Len(paired'["fan"])
    BY <1>4, <2>1 DEF AwaitPair, TypeOK, Sources
  <2> QED
    BY <1>4, <2>2, <2>3 DEF AwaitPair, TypeOK, Logged
<1>5. CASE Report
  <2>1. /\ Append(shown, Last(results)) \in Seq(Logged)
        /\ Front(results) \in Seq(Logged) /\ Len(Front(results)) <= 2
    <3>1. shown \in Seq(Logged) /\ Len(results) \in 1 .. 2
      BY <1>5, ReportTypes DEF Report, TypeOK, Logged
    <3>2. results # <<>>
      BY <1>5 DEF Report
    <3>3. /\ Last(results) \in Logged /\ Front(results) \in Seq(Logged)
          /\ Len(Front(results)) = Len(results) - 1
      BY <3>2, ReportTypes
    <3>4. Append(shown, Last(results)) \in Seq(Logged)
      BY <3>1, <3>3, AppendProperties
    <3> QED
      BY <3>1, <3>3, <3>4
  <2>2. stats' \in [Files -> Nat]
    <3> DEFINE f == file[Last(results)[1]][Last(results)[2]]
    <3>1. f \in Files
      <4>1. Last(results) \in Sources \X Events
        BY <1>5, ReportTypes DEF Report, Logged
      <4>2. PICK s \in Sources, n \in Events : Last(results) = <<s, n>>
        BY <4>1
      <4> QED
        BY <4>2 DEF TypeOK
    <3>2. stats' = stats \/ stats' = [stats EXCEPT ![f] = @ + 1]
      BY <1>5 DEF Report
    <3>3. stats \in [Files -> Nat]
      BY DEF TypeOK
    <3> HIDE DEF f
    <3> QED
      BY <3>1, <3>2, <3>3
  <2> QED
    BY <1>5, <2>1, <2>2 DEF Report, TypeOK, Logged
<1>6. CASE UNCHANGED vars
  BY <1>6 DEF vars, TypeOK
<1> QED
  BY <1>1, <1>2, <1>3, <1>4, <1>5, <1>6 DEF Next

(* -------------------------------- batches ------------------------------- *)

\* The last event that has come to the queue's buffer or is through it.
Reached(b, d, c, base) == IF d THEN base + c ELSE base + Cardinality(b)

\* A queue of capacity c between the event a that came last, its input q and its
\* output o: base events have left in whole batches; while it drains (d), the batch
\* behind them is partly in o and for the rest in the buffer b, and before that the
\* batch is being gathered in b, in order.
Batch(o, b, d, q, a, c, base) ==
  /\ \A i \in DOMAIN o : o[i] <= base + c /\ o[i] \notin b
  /\ IsInjective(o)
  /\ \A i \in DOMAIN o : c > 0 /\ (o[i] - 1) \div c = (i - 1) \div c
  /\ Len(o) = IF d THEN base + c - Cardinality(b) ELSE base
  /\ b \subseteq base + 1 .. Reached(b, d, c, base)
  /\ d => c > 0
  /\ ~d => /\ base + 1 .. base + Cardinality(b) \subseteq b
           /\ c > 0 => Cardinality(b) < c
           /\ \A i \in DOMAIN o : o[i] <= base
  /\ \A i \in DOMAIN q : q[i] = Reached(b, d, c, base) + i
  /\ a = Reached(b, d, c, base) + Len(q)

\* Events are numbers.
LEMMA Numbers ==
  ASSUME NEW q \in Seq(Events)
  PROVE  Len(q) \in Nat /\ DOMAIN q = 1 .. Len(q) /\ \A i \in DOMAIN q : q[i] \in Nat
<1>1. \A i \in DOMAIN q : q[i] \in Events
  BY LenProperties
<1> QED
  BY <1>1, LenProperties DEF Events

\* Two numbers of a batch.
LEMMA SameBatch ==
  ASSUME NEW c \in Nat \ {0}, NEW k \in Nat, NEW base \in Nat, base = k * c,
         NEW x \in Int, base < x, x <= base + c, NEW y \in Int, base < y, y <= base + c
  PROVE  (x - 1) \div c = (y - 1) \div c
<1>1. ASSUME NEW z \in Int, base < z, z <= base + c PROVE (z - 1) \div c = k
  BY <1>1
<1> QED
  BY <1>1

\* A queue's buffer has the events of no more than a batch.
LEMMA BufferSize ==
  ASSUME NEW b, NEW base \in Nat, NEW top \in Nat, base <= top, b \subseteq base + 1 .. top
  PROVE  IsFiniteSet(b) /\ Cardinality(b) \in Nat /\ Cardinality(b) <= top - base
<1>1. /\ IsFiniteSet(base + 1 .. top)
      /\ Cardinality(base + 1 .. top) = top - base
  <2>1. base + 1 \in Int /\ top \in Int
    OBVIOUS
  <2>2. /\ IsFiniteSet(base + 1 .. top)
        /\ Cardinality(base + 1 .. top) = IF base + 1 > top THEN 0 ELSE top - (base + 1) + 1
    BY <2>1, FS_Interval
  <2> QED
    BY <2>2
<1> QED
  BY <1>1, FS_Subset, FS_CardinalityType

LEMMA ArriveBatch ==
  ASSUME NEW c \in Nat, NEW base \in Nat, NEW o, NEW b \in SUBSET Events, IsFiniteSet(b),
         NEW d \in BOOLEAN, NEW q \in Seq(Events), NEW a, Batch(o, b, d, q, a, c, base),
         a + 1 \in Events
  PROVE  Batch(o, b, d, Append(q, a + 1), a + 1, c, base)
<1> DEFINE e == Reached(b, d, c, base)
<1>1. e \in Nat
  BY FS_CardinalityType DEF Reached
<1>2. Len(q) \in Nat /\ DOMAIN q = 1 .. Len(q)
  BY LenProperties
<1>3. a = e + Len(q) /\ \A i \in DOMAIN q : q[i] = e + i
  BY DEF Batch
<1>4. /\ Len(Append(q, a + 1)) = Len(q) + 1 /\ DOMAIN Append(q, a + 1) = 1 .. Len(q) + 1
      /\ \A i \in 1 .. Len(q) : Append(q, a + 1)[i] = q[i]
      /\ Append(q, a + 1)[Len(q) + 1] = a + 1
  BY AppendProperties, LenProperties
<1> HIDE DEF e
<1>5. \A i \in DOMAIN Append(q, a + 1) : Append(q, a + 1)[i] = e + i
  <2>1. ASSUME NEW i \in 1 .. Len(q) + 1 PROVE Append(q, a + 1)[i] = e + i
    <3>1. CASE i \in 1 .. Len(q)
      BY <3>1, <1>2, <1>3, <1>4
    <3>2. CASE i = Len(q) + 1
      BY <3>2, <1>1, <1>2, <1>3, <1>4
    <3> QED
      BY <3>1, <3>2, <1>2
  <2> QED
    BY <2>1, <1>4
<1>6. a + 1 = e + Len(Append(q, a + 1))
  BY <1>1, <1>2, <1>3, <1>4
<1> QED
  BY <1>5, <1>6 DEF Batch, e

LEMMA AwaitBatch ==
  ASSUME NEW c \in Nat, NEW base \in Nat, NEW o \in Seq(Events), NEW b \in SUBSET Events,
         IsFiniteSet(b), NEW q \in Seq(Events), q # <<>>, NEW a,
         Batch(o, b, FALSE, q, a, c, base), NEW b2, b2 = b \union {Head(q)}
  PROVE  Batch(o, b2, Cardinality(b2) = c, Tail(q), a, c, base)
<1> DEFINE m == Cardinality(b)
           h == Head(q)
           t == Tail(q)
           d2 == Cardinality(b2) = c
<1>1. m \in Nat
  BY FS_CardinalityType
<1>2. /\ Len(q) \in Nat \ {0} /\ DOMAIN q = 1 .. Len(q) /\ h = q[1]
      /\ Len(t) = Len(q) - 1 /\ DOMAIN t = 1 .. Len(q) - 1
      /\ \A i \in 1 .. Len(q) - 1 : t[i] = q[i + 1]
  BY HeadTailProperties, LenProperties, EmptySeq
<1>3. /\ \A i \in DOMAIN q : q[i] = base + m + i
      /\ a = base + m + Len(q)
      /\ b \subseteq base + 1 .. base + m /\ base + 1 .. base + m \subseteq b
      /\ c > 0 => m < c
      /\ \A i \in DOMAIN o : o[i] <= base
      /\ Len(o) = base
  BY DEF Batch, Reached
<1>b. b2 = b \union {h}
  OBVIOUS
<1> HIDE DEF m, h, t
<1>4. h = base + m + 1 /\ h \notin b
  BY <1>1, <1>2, <1>3
<1>5. Cardinality(b2) = m + 1
  BY <1>4, FS_AddElement DEF m, h
<1>6. /\ b2 \subseteq base + 1 .. base + m + 1
      /\ base + 1 .. base + m + 1 \subseteq b2
  <2>1. base + 1 .. base + m + 1 = (base + 1 .. base + m) \union {base + m + 1}
    BY <1>1
  <2> QED
    BY <2>1, <1>b, <1>3, <1>4
<1>7. \A i \in DOMAIN t : t[i] = base + m + 1 + i
  <2>1. ASSUME NEW i \in 1 .. Len(q) - 1 PROVE t[i] = base + m + 1 + i
    <3>1. i + 1 \in DOMAIN q /\ t[i] = q[i + 1]
      BY <1>2
    <3>2. t[i] = base + m + (i + 1)
      BY <3>1, <1>3
    <3> QED
      BY <3>2, <1>1
  <2> QED
    BY <2>1, <1>2
<1>8. a = base + m + 1 + Len(t)
  BY <1>1, <1>2, <1>3
<1>9. Reached(b2, d2, c, base) = base + m + 1
  BY <1>1, <1>5 DEF Reached
<1>10. \A i \in DOMAIN o : o[i] <= base + c /\ o[i] \notin b2
  <2>1. ASSUME NEW i \in DOMAIN o PROVE o[i] <= base + c /\ o[i] \notin b2
    <3>1. o[i] \in Int
      BY Numbers
    <3>2. o[i] <= base
      BY <1>3
    <3> QED
      BY <3>1, <3>2, <1>6
  <2> QED
    BY <2>1
<1>11. /\ Len(o) = IF d2 THEN base + c - Cardinality(b2) ELSE base
       /\ d2 => c > 0
       /\ c > 0 => d2 \/ Cardinality(b2) < c
  BY <1>1, <1>3, <1>5
<1>12. IsInjective(o) /\ \A i \in DOMAIN o : c > 0 /\ (o[i] - 1) \div c = (i - 1) \div c
  BY DEF Batch
<1>13. Batch(o, b2, d2, t, a, c, base)
  <2>1. base + Cardinality(b2) = base + m + 1
    BY <1>1, <1>5
  <2> HIDE DEF d2
  <2>2. /\ b2 \subseteq base + 1 .. Reached(b2, d2, c, base)
        /\ base + 1 .. base + Cardinality(b2) \subseteq b2
        /\ \A i \in DOMAIN t : t[i] = Reached(b2, d2, c, base) + i
        /\ a = Reached(b2, d2, c, base) + Len(t)
    BY <2>1, <1>6, <1>7, <1>8, <1>9
  <2> QED
    BY <2>2, <1>3, <1>10, <1>11, <1>12 DEF Batch
<1> QED
  BY <1>13 DEF t

LEMMA YieldBatch ==
  ASSUME NEW c \in Nat, NEW base \in Nat, NEW k \in Nat, base = k * c,
         NEW o \in Seq(Events), NEW b \in SUBSET Events,
         NEW q \in Seq(Events), NEW a, Batch(o, b, TRUE, q, a, c, base), NEW n \in b,
         NEW b2, b2 = b \ {n}
  PROVE  /\ b2 # {} => Batch(Append(o, n), b2, TRUE, q, a, c, base)
         /\ b2 = {} => Batch(Append(o, n), b2, FALSE, q, a, c, base + c)
<1> DEFINE m == Cardinality(b)
           p == Append(o, n)
<1>1. /\ b \subseteq base + 1 .. base + c /\ c > 0
      /\ Len(o) = base + c - m
      /\ \A i \in DOMAIN o : /\ o[i] <= base + c /\ o[i] \notin b
                             /\ (o[i] - 1) \div c = (i - 1) \div c
      /\ IsInjective(o)
      /\ \A i \in DOMAIN q : q[i] = base + c + i
      /\ a = base + c + Len(q)
  BY DEF Batch, Reached
<1>2. IsFiniteSet(b) /\ m \in Nat /\ m <= c
  <2> DEFINE top == base + c
  <2>1. top \in Nat /\ base <= top /\ top - base = c
    OBVIOUS
  <2>2. b \subseteq base + 1 .. top
    BY <1>1
  <2> HIDE DEF top
  <2> QED
    BY <2>1, <2>2, BufferSize
<1>3. IsFiniteSet(b2) /\ Cardinality(b2) = m - 1 /\ (b2 = {} <=> m = 1)
  <2>1. IsFiniteSet(b2) /\ Cardinality(b2) = m - 1
    BY <1>2, FS_RemoveElement
  <2>2. Cardinality(b2) = 0 <=> b2 = {}
    BY <2>1, FS_EmptySet
  <2> QED
    BY <1>2, <2>1, <2>2
<1>4. m >= 1 /\ Cardinality(b2) \in Nat
  BY <1>2, <1>3, FS_CardinalityType
<1> HIDE DEF m
<1>5. /\ Len(p) = Len(o) + 1 /\ DOMAIN p = 1 .. Len(o) + 1 /\ DOMAIN o = 1 .. Len(o)
      /\ \A i \in DOMAIN o : p[i] = o[i]
      /\ p[Len(o) + 1] = n /\ Len(o) \in Nat
  BY AppendProperties, LenProperties DEF Events
<1> HIDE DEF p
<1>6. \A i \in DOMAIN p : i \in DOMAIN o \/ i = Len(o) + 1
  BY <1>5
<1>7. n \in Int /\ base < n /\ n <= base + c
  BY <1>1
<1>8. (n - 1) \div c = (Len(o) + 1 - 1) \div c
  <2> DEFINE y == Len(o) + 1
  <2>1. y \in Int /\ base < y /\ y <= base + c
    BY <1>1, <1>2, <1>4, <1>5
  <2>2. c \in Nat \ {0}
    BY <1>1
  <2> HIDE DEF y
  <2>3. (n - 1) \div c = (y - 1) \div c
    BY <2>1, <2>2, <1>7, SameBatch
  <2> QED
    BY <2>3 DEF y
<1>9. \A i \in DOMAIN p : /\ p[i] <= base + c /\ p[i] \notin b2
                          /\ c > 0 /\ (p[i] - 1) \div c = (i - 1) \div c
  <2>1. ASSUME NEW i \in DOMAIN o
        PROVE  /\ p[i] <= base + c /\ p[i] \notin b2
               /\ c > 0 /\ (p[i] - 1) \div c = (i - 1) \div c
    BY <1>1, <1>5
  <2>2. n \notin b2
    OBVIOUS
  <2> QED
    BY <2>1, <2>2, <1>1, <1>5, <1>6, <1>7, <1>8
<1>10. IsInjective(p)
  BY <1>1, <1>5, <1>6 DEF IsInjective
<1>11. b2 \subseteq base + 1 .. base + c /\ Len(p) = base + c - Cardinality(b2)
  BY <1>1, <1>2, <1>3, <1>5
<1>12. CASE b2 # {}
  BY <1>1, <1>9, <1>10, <1>11, <1>12 DEF Batch, Reached, p
<1>13. CASE b2 = {}
  <2>1. Cardinality(b2) = 0 /\ Len(p) = base + c
    BY <1>3, <1>5, <1>1, <1>2, <1>13
  <2>2. Reached(b2, FALSE, c, base + c) = base + c
    BY <2>1 DEF Reached
  <2>3. base + c + 1 .. base + c + Cardinality(b2) \subseteq b2
    BY <2>1
  <2>4. \A i \in DOMAIN p : p[i] <= base + c + c /\ p[i] <= base + c
    <3>1. ASSUME NEW i \in DOMAIN p PROVE p[i] \in Int
      BY <1>5, <1>6, <1>7, Numbers
    <3> QED
      BY <3>1, <1>9
  <2> QED
    BY <1>1, <1>9, <1>10, <1>13, <2>1, <2>2, <2>3, <2>4 DEF Batch, p
<1> QED
  BY <1>12, <1>13

(* -------------------------------- chains -------------------------------- *)

\* What a source has brought as far as the zip.
Out(s) == paired[s] \o zipQ[s]

\* A chain without a queue, and one with a queue between two of its batches.
Chain(s) ==
  /\ Buffered => \E k \in Nat : Batch(Out(s), buffer[s], draining[s], queueQ[s], arrived[s],
                                      capacity, k * capacity)
  /\ ~Buffered => /\ ~draining[s] /\ queueQ[s] = <<>>
                  /\ Len(Out(s)) = arrived[s]
                  /\ \A i \in DOMAIN Out(s) : Out(s)[i] = i

\* The chain's own part of the types.
LEMMA ChainTypes ==
  ASSUME TypeOK, NEW s \in Sources
  PROVE  /\ paired[s] \in Seq(Events) /\ zipQ[s] \in Seq(Events) /\ Out(s) \in Seq(Events)
         /\ queueQ[s] \in Seq(Events)
         /\ buffer[s] \in SUBSET Events /\ IsFiniteSet(buffer[s])
         /\ draining[s] \in BOOLEAN /\ capacity \in Nat
<1>1. paired[s] \in Seq(Events) /\ zipQ[s] \in Seq(Events) /\ buffer[s] \in SUBSET Events
  BY DEF TypeOK
<1>2. IsFiniteSet(Events)
  BY ConstantsAssumption, FS_Interval DEF Events
<1>3. IsFiniteSet(buffer[s])
  BY <1>1, <1>2, FS_Subset
<1>4. Out(s) \in Seq(Events)
  BY <1>1, ConcatProperties DEF Out
<1>5. queueQ[s] \in Seq(Events) /\ draining[s] \in BOOLEAN
  BY DEF TypeOK
<1>6. capacity \in Nat
  BY ConstantsAssumption DEF TypeOK
<1> QED
  BY <1>1, <1>3, <1>4, <1>5, <1>6

\* An event that comes to the zip comes to the end of all its source has brought.
LEMMA EventMoves ==
  ASSUME NEW a \in Seq(Events), NEW b \in Seq(Events), NEW e \in Events
  PROVE  a \o Append(b, e) = Append(a \o b, e)
  BY AppendMoves

\* What leaves a chain's own state alone keeps it.
LEMMA ChainKept ==
  ASSUME NEW s \in Sources, Chain(s), Out(s)' = Out(s), buffer'[s] = buffer[s],
         draining'[s] = draining[s], queueQ'[s] = queueQ[s], arrived'[s] = arrived[s],
         mode' = mode, capacity' = capacity
  PROVE  Chain(s)'
<1>1. CASE Buffered
  <2>1. PICK k \in Nat : Batch(Out(s), buffer[s], draining[s], queueQ[s], arrived[s],
                               capacity, k * capacity)
    BY <1>1 DEF Chain
  <2>2. Batch(Out(s)', buffer'[s], draining'[s], queueQ'[s], arrived'[s], capacity',
              k * capacity')
    BY <2>1, Zenon
  <2> QED
    BY <1>1, <2>2 DEF Chain, Buffered
<1>2. CASE ~Buffered
  BY <1>2 DEF Chain, Buffered
<1> QED
  BY <1>1, <1>2

LEMMA ArriveChain ==
  ASSUME TypeOK, NEW s \in Sources, Chain(s), Arrive(s)
  PROVE  Chain(s)'
<1>1. /\ arrived'[s] = arrived[s] + 1 /\ arrived[s] + 1 \in Events
      /\ UNCHANGED <<mode, capacity, buffer, draining, paired>>
  <2>1. arrived[s] \in 0 .. MaxEvents /\ arrived[s] < MaxEvents /\ MaxEvents \in Nat
    BY ConstantsAssumption DEF Arrive, TypeOK
  <2>2. arrived[s] + 1 \in Events
    BY <2>1 DEF Events
  <2> QED
    BY <2>2 DEF Arrive, TypeOK, zipVars
<1>2. CASE Buffered
  <2>1. queueQ'[s] = Append(queueQ[s], arrived[s] + 1) /\ Out(s)' = Out(s)
    BY <1>1, <1>2 DEF Arrive, Put, Out, TypeOK
  <2>2. PICK k \in Nat : Batch(Out(s), buffer[s], draining[s], queueQ[s], arrived[s],
                               capacity, k * capacity)
    BY <1>2 DEF Chain
  <2>3. k * capacity \in Nat
    BY ChainTypes
  <2>4. Batch(Out(s), buffer[s], draining[s], Append(queueQ[s], arrived[s] + 1),
              arrived[s] + 1, capacity, k * capacity)
    BY <1>1, <2>2, <2>3, ChainTypes, ArriveBatch
  <2>5. Batch(Out(s)', buffer'[s], draining'[s], queueQ'[s], arrived'[s], capacity',
              k * capacity')
    BY <1>1, <2>1, <2>4, Zenon
  <2> QED
    BY <1>1, <1>2, <2>5 DEF Chain, Buffered
<1>3. CASE ~Buffered
  <2> DEFINE o == Out(s)
  <2>1. queueQ'[s] = queueQ[s] /\ Out(s)' = Append(o, arrived[s] + 1)
    <3>1. queueQ' = queueQ /\ zipQ'[s] = Append(zipQ[s], arrived[s] + 1)
      BY <1>1, <1>3 DEF Arrive, Put, TypeOK
    <3>2. paired[s] \in Seq(Events) /\ zipQ[s] \in Seq(Events)
      BY ChainTypes
    <3>3. paired[s] \o Append(zipQ[s], arrived[s] + 1)
            = Append(paired[s] \o zipQ[s], arrived[s] + 1)
      BY <1>1, <3>2, EventMoves
    <3> QED
      BY <1>1, <3>1, <3>3 DEF Out
  <2>2. /\ Len(o) = arrived[s] /\ \A i \in DOMAIN o : o[i] = i
        /\ ~draining[s] /\ queueQ[s] = <<>>
    BY <1>3 DEF Chain
  <2>3. o \in Seq(Events)
    BY ChainTypes
  <2> HIDE DEF o
  <2>4. /\ DOMAIN Append(o, arrived[s] + 1) = 1 .. Len(o) + 1
        /\ Len(Append(o, arrived[s] + 1)) = Len(o) + 1
        /\ DOMAIN o = 1 .. Len(o) /\ Len(o) \in Nat
        /\ \A i \in DOMAIN o : Append(o, arrived[s] + 1)[i] = o[i]
        /\ Append(o, arrived[s] + 1)[Len(o) + 1] = arrived[s] + 1
    BY <1>1, <2>3, AppendProperties, LenProperties
  <2>5. \A i \in DOMAIN Append(o, arrived[s] + 1) : Append(o, arrived[s] + 1)[i] = i
    BY <2>2, <2>4
  <2> QED
    BY <1>1, <1>3, <2>1, <2>2, <2>4, <2>5 DEF Chain, Buffered
<1> QED
  BY <1>2, <1>3

LEMMA AwaitChain ==
  ASSUME TypeOK, NEW s \in Sources, Chain(s), QueueAwait(s)
  PROVE  Chain(s)'
<1>1. /\ queueQ[s] # <<>> /\ ~draining[s] /\ queueQ'[s] = Tail(queueQ[s])
      /\ buffer'[s] = buffer[s] \union {Head(queueQ[s])}
      /\ UNCHANGED <<mode, capacity, arrived, zipQ, paired>>
  BY DEF QueueAwait, TypeOK, zipVars
<1>2. draining'[s] = (Cardinality(buffer'[s]) = capacity)
  <2>1. draining' = [draining EXCEPT ![s] = Cardinality(buffer'[s]) = capacity]
    BY DEF QueueAwait, Full
  <2> QED
    BY <2>1, Zenon DEF TypeOK
<1>3. Buffered
  BY <1>1 DEF Chain
<1>4. PICK k \in Nat : Batch(Out(s), buffer[s], draining[s], queueQ[s], arrived[s],
                             capacity, k * capacity)
  BY <1>3 DEF Chain
<1>5. k * capacity \in Nat /\ draining[s] = FALSE
  BY <1>1, ChainTypes
<1>6. Batch(Out(s), buffer[s], FALSE, queueQ[s], arrived[s], capacity, k * capacity)
  BY <1>4, <1>5, Zenon
<1>7. Batch(Out(s), buffer'[s], Cardinality(buffer'[s]) = capacity, Tail(queueQ[s]),
            arrived[s], capacity, k * capacity)
  BY <1>1, <1>5, <1>6, ChainTypes, AwaitBatch
<1>8. Out(s)' = Out(s)
  BY <1>1 DEF Out
<1>9. Batch(Out(s)', buffer'[s], draining'[s], queueQ'[s], arrived'[s], capacity',
            k * capacity')
  BY <1>1, <1>2, <1>7, <1>8, Zenon
<1> QED
  BY <1>1, <1>3, <1>9 DEF Chain, Buffered

LEMMA YieldChain ==
  ASSUME TypeOK, NEW s \in Sources, Chain(s), QueueYield(s)
  PROVE  Chain(s)'
<1>1. PICK n \in buffer[s] : /\ buffer'[s] = buffer[s] \ {n}
                             /\ zipQ'[s] = Append(zipQ[s], n)
  BY DEF QueueYield, Put, TypeOK
<1>2. draining[s] /\ UNCHANGED <<mode, capacity, arrived, queueQ, paired>>
  BY DEF QueueYield, zipVars
<1>3. draining'[s] = (buffer'[s] # {})
  <2>1. draining' = [draining EXCEPT ![s] = buffer'[s] # {}]
    BY DEF QueueYield, YieldsAgain
  <2> QED
    BY <2>1, Zenon DEF TypeOK
<1>4. Buffered
  BY <1>2 DEF Chain
<1>5. PICK k \in Nat : Batch(Out(s), buffer[s], draining[s], queueQ[s], arrived[s],
                             capacity, k * capacity)
  BY <1>4 DEF Chain
<1>6. /\ k * capacity \in Nat /\ k + 1 \in Nat
      /\ k * capacity + capacity = (k + 1) * capacity
      /\ draining[s] = TRUE
  BY <1>2, ChainTypes
<1>7. Batch(Out(s), buffer[s], TRUE, queueQ[s], arrived[s], capacity, k * capacity)
  BY <1>5, <1>6, Zenon
<1>8. /\ buffer'[s] # {} => Batch(Append(Out(s), n), buffer'[s], TRUE, queueQ[s], arrived[s],
                                  capacity, k * capacity)
      /\ buffer'[s] = {} => Batch(Append(Out(s), n), buffer'[s], FALSE, queueQ[s],
                                  arrived[s], capacity, k * capacity + capacity)
  BY <1>1, <1>6, <1>7, ChainTypes, YieldBatch
<1>9. Out(s)' = Append(Out(s), n)
  <2>1. n \in Events /\ paired[s] \in Seq(Events) /\ zipQ[s] \in Seq(Events)
    BY ChainTypes
  <2>2. paired[s] \o Append(zipQ[s], n) = Append(paired[s] \o zipQ[s], n)
    BY <2>1, EventMoves
  <2> QED
    BY <1>1, <1>2, <2>2 DEF Out
<1>10. CASE buffer'[s] # {}
  <2>1. draining'[s] = TRUE
    BY <1>3, <1>10
  <2>2. Batch(Out(s)', buffer'[s], draining'[s], queueQ'[s], arrived'[s], capacity',
              k * capacity')
    BY <1>2, <1>8, <1>9, <1>10, <2>1, Zenon
  <2> QED
    BY <1>2, <1>4, <2>2 DEF Chain, Buffered
<1>11. CASE buffer'[s] = {}
  <2>1. draining'[s] = FALSE
    BY <1>3, <1>11
  <2>2. Batch(Out(s)', buffer'[s], draining'[s], queueQ'[s], arrived'[s], capacity',
              (k + 1) * capacity')
    BY <1>2, <1>6, <1>8, <1>9, <1>11, <2>1, Zenon
  <2> QED
    BY <1>2, <1>4, <1>6, <2>2 DEF Chain, Buffered
<1> QED
  BY <1>10, <1>11

Chains == \A s \in Sources : Chain(s)

LEMMA ChainStep == TypeOK /\ Chains /\ [Next]_vars => Chains'
<1> SUFFICES ASSUME TypeOK, [Next]_vars, NEW s \in Sources, Chain(s) PROVE Chain(s)'
  BY DEF Chains
<1> USE DEF queueVars, zipVars, sinkVars, Put
<1>1. ASSUME NEW r \in Sources, r # s, Arrive(r) \/ QueueAwait(r) \/ QueueYield(r)
      PROVE  Chain(s)'
  BY <1>1, ChainKept DEF Arrive, QueueAwait, QueueYield, TypeOK, Out
<1>2. CASE Arrive(s) \/ QueueAwait(s) \/ QueueYield(s)
  BY <1>2, ArriveChain, AwaitChain, YieldChain
<1>3. CASE AwaitPair
  <2>1. zipQ[s] # <<>> /\ Out(s)' = Append(paired[s], Head(zipQ[s])) \o Tail(zipQ[s])
    BY <1>3 DEF AwaitPair, Out, TypeOK
  <2>2. Out(s)' = Out(s)
    BY <2>1, ChainTypes, HeadMoves DEF Out
  <2> QED
    BY <1>3, <2>2, ChainKept DEF AwaitPair
<1>4. CASE Report \/ UNCHANGED vars
  BY <1>4, ChainKept DEF Report, vars, Out
<1> QED
  BY <1>1, <1>2, <1>3, <1>4 DEF Next

\* A chain mixes no batches.
LEMMA ChainMeets == Chains => BatchesMeet
<1> SUFFICES ASSUME NEW s \in Sources, Chain(s)
             PROVE  /\ IsInjective(Out(s))
                    /\ \A k \in DOMAIN Out(s) :
                         IF Buffered
                           THEN /\ capacity > 0
                                /\ (Out(s)[k] - 1) \div capacity = (k - 1) \div capacity
                           ELSE Out(s)[k] = k
  BY DEF BatchesMeet, Out, Chains
<1>1. CASE Buffered
  BY <1>1 DEF Chain, Batch
<1>2. CASE ~Buffered
  BY <1>2 DEF Chain, IsInjective
<1> QED
  BY <1>1, <1>2

(* --------------------------------- pairs -------------------------------- *)

\* The mode asks for event e of source s: its pair is wanted.
Asked(s, e) ==
  \E k \in Pairs : e = paired[s][k] /\ Wanted(paired["lsp"][k], paired["fan"][k])

\* BothOfAPair, event by event.
Reported(log) ==
  /\ IsInjective(log)
  /\ \A s \in Sources, e \in Events : (\E i \in DOMAIN log : log[i] = <<s, e>>) <=> Asked(s, e)

\* It is BothOfAPair.
LEMMA ReportedIs ==
  ASSUME TypeOK
  PROVE  BothOfAPair <=> Reported(shown \o results)
<1> DEFINE log == shown \o results
           asked == UNION {{<<s, paired[s][k]>> : s \in Sources} :
                             k \in {k \in Pairs : Wanted(paired["lsp"][k], paired["fan"][k])}}
<1>1. \A i \in DOMAIN log : log[i] \in Logged
  <2>1. log \in Seq(Logged)
    BY ConcatProperties DEF TypeOK, Logged
  <2> QED
    BY <2>1, LenProperties
<1>2. \A s \in Sources, e \in Events : <<s, e>> \in asked <=> Asked(s, e)
  BY DEF Asked
<1>3. \A s \in Sources, k \in Pairs : paired[s][k] \in Events
  <2>1. \A s \in Sources : /\ DOMAIN paired[s] = 1 .. Len(paired[s])
                           /\ \A k \in DOMAIN paired[s] : paired[s][k] \in Events
    BY ChainTypes, LenProperties
  <2>2. \A s \in Sources : Len(paired[s]) = Len(paired["lsp"])
    BY DEF TypeOK, Sources
  <2> QED
    BY <2>1, <2>2 DEF Pairs, Sources
<1>4. asked \in SUBSET Logged
  BY <1>3 DEF Logged
<1>5. Range(log) \in SUBSET Logged
  BY <1>1 DEF Range
<1>6. Range(log) = asked <=> \A x \in Logged : x \in Range(log) <=> x \in asked
  BY <1>4, <1>5
<1>7. \A x \in Logged : \E s \in Sources, e \in Events : x = <<s, e>>
  BY DEF Logged
<1>8. \A s \in Sources, e \in Events : <<s, e>> \in Logged
  BY DEF Logged
<1>9. \A x : x \in Range(log) <=> \E i \in DOMAIN log : log[i] = x
  BY DEF Range
<1>10. BothOfAPair <=> IsInjective(log) /\ Range(log) = asked
  BY DEF BothOfAPair
<1> HIDE DEF log, asked
<1>11. Range(log) = asked <=>
         \A s \in Sources, e \in Events : (\E i \in DOMAIN log : log[i] = <<s, e>>) <=> Asked(s, e)
  <2>1. (\A x \in Logged : x \in Range(log) <=> x \in asked) <=>
          \A s \in Sources, e \in Events : <<s, e>> \in Range(log) <=> <<s, e>> \in asked
    BY <1>7, <1>8
  <2>2. \A s \in Sources, e \in Events :
          <<s, e>> \in Range(log) <=> \E i \in DOMAIN log : log[i] = <<s, e>>
    BY <1>9
  <2> QED
    BY <1>2, <1>6, <2>1, <2>2
<1>12. BothOfAPair <=> Reported(log)
  BY <1>10, <1>11 DEF Reported
<1> QED
  BY <1>12 DEF log

\* The two events of a pair, one after the other.
LEMMA Couple ==
  ASSUME NEW x \in Logged, NEW y \in Logged
  PROVE  <<x>> \o <<y>> = <<x, y>>
<1> DEFINE S == Logged
           s == <<x>> \o <<y>>
           t == <<x, y>>
<1>1. <<x>> \in Seq(S) /\ <<y>> \in Seq(S) /\ Len(<<x>>) = 1 /\ Len(<<y>>) = 1
  OBVIOUS
<1>2. /\ Len(s) = 2 /\ s \in Seq(S)
      /\ \A i \in 1 .. 1 + 1 : s[i] = IF i <= 1 THEN <<x>>[i] ELSE <<y>>[i - 1]
  BY <1>1, ConcatProperties
<1>3. s[1] = x /\ s[2] = y
  BY <1>2
<1>4. t[1] = x /\ t[2] = y /\ Len(t) = 2 /\ t \in Seq(S)
  OBVIOUS
<1> HIDE DEF s, t, S
<1>5. s = t
  BY <1>2, <1>3, <1>4, SeqEqual
<1> QED
  BY <1>5 DEF s, t

\* The places of a log with two more events.
LEMMA TwoMore ==
  ASSUME NEW a \in Seq(Logged), NEW x \in Logged, NEW y \in Logged
  PROVE  LET b == a \o <<x, y>>
         IN  /\ Len(a) \in Nat /\ DOMAIN a = 1 .. Len(a) /\ DOMAIN b = 1 .. Len(a) + 2
             /\ \A i \in 1 .. Len(a) : b[i] = a[i]
             /\ b[Len(a) + 1] = x /\ b[Len(a) + 2] = y
<1> DEFINE t == <<x, y>>
<1>1. t \in Seq(Logged) /\ Len(t) = 2 /\ t[1] = x /\ t[2] = y
  OBVIOUS
<1> HIDE DEF t
<1>2. /\ a \o t \in Seq(Logged) /\ Len(a \o t) = Len(a) + 2
      /\ \A i \in 1 .. Len(a) + 2 : (a \o t)[i] = IF i <= Len(a) THEN a[i] ELSE t[i - Len(a)]
  <2>1. /\ a \o t \in Seq(Logged) /\ Len(a \o t) = Len(a) + Len(t)
        /\ \A i \in 1 .. Len(a) + Len(t) :
             (a \o t)[i] = IF i <= Len(a) THEN a[i] ELSE t[i - Len(a)]
    BY <1>1, ConcatProperties
  <2> QED
    BY <2>1, <1>1
<1>3. Len(a) \in Nat /\ DOMAIN a = 1 .. Len(a) /\ DOMAIN (a \o t) = 1 .. Len(a) + 2
  BY <1>2, LenProperties
<1>4. (a \o t)[Len(a) + 1] = x /\ (a \o t)[Len(a) + 2] = y
  <2>1. (a \o t)[Len(a) + 1] = t[Len(a) + 1 - Len(a)]
    BY <1>2, <1>3
  <2>2. (a \o t)[Len(a) + 2] = t[Len(a) + 2 - Len(a)]
    BY <1>2, <1>3
  <2>3. Len(a) + 1 - Len(a) = 1 /\ Len(a) + 2 - Len(a) = 2
    BY <1>3
  <2> QED
    BY <2>1, <2>2, <2>3, <1>1
<1>5. \A i \in 1 .. Len(a) : (a \o t)[i] = a[i]
  BY <1>2, <1>3
<1> QED
  BY <1>3, <1>4, <1>5 DEF t

\* The sink takes the results from their end: what is logged and what is left have
\* the same events as before.
LEMMA ReportKeeps ==
  ASSUME TypeOK, Report, Reported(shown \o results)
  PROVE  Reported(shown' \o results')
<1> DEFINE a == shown
           n == Len(results)
           z == results[n]
<1>1. /\ a \in Seq(Logged) /\ results \in Seq(Logged) /\ n \in 1 .. 2
      /\ shown' = Append(a, z) /\ results' = Front(results)
      /\ results' \in Seq(Logged) /\ Len(results') = n - 1
      /\ z \in Logged
  BY ReportTypes DEF Report, TypeOK, Logged, Last
<1>2. CASE n = 1
  <2>1. results = <<z>>
    BY <1>1, <1>2, LenProperties
  <2>2. results' = <<>>
    BY <1>1, <1>2, EmptySeq
  <2>3. shown' \o results' = shown'
    <3>1. shown' \in Seq(Logged)
      BY <1>1, AppendProperties
    <3> QED
      BY <2>2, <3>1, ConcatEmptySeq
  <2>4. shown' = shown \o results
    BY <1>1, <2>1, AppendIsConcat
  <2> QED
    BY <2>3, <2>4
<1>3. CASE n = 2
  <2> DEFINE x == results[1]
             b == a \o <<x, z>>
             c == a \o <<z, x>>
  <2>1. x \in Logged /\ results = <<x, z>>
    <3>1. x \in Logged /\ Len(results) = 2
      <4>1. results \in Seq(Logged) /\ Len(results) = 2 /\ 1 \in 1 .. Len(results)
        BY <1>1, <1>3
      <4> QED
        BY <4>1, ElementOfSeq
    <3>2. <<x, z>> \in Seq(Logged) /\ Len(<<x, z>>) = 2 /\ <<x, z>>[1] = x /\ <<x, z>>[2] = z
      BY <1>1, <3>1
    <3>3. results[1] = x /\ results[2] = z
      BY <1>3
    <3> HIDE DEF x, z
    <3> QED
      BY <1>1, <3>1, <3>2, <3>3, SeqEqual
  <2>2. results' = <<x>>
    <3> HIDE DEF x, z
    <3>1. results' \in Seq(Logged) /\ Len(results') = 1 /\ results'[1] = x
      BY <1>1, <1>3, ReportTypes DEF x, Report
    <3>2. <<x>> \in Seq(Logged) /\ Len(<<x>>) = 1 /\ <<x>>[1] = x
      BY <2>1
    <3> QED
      BY <3>1, <3>2, SeqEqual
  <2>3. shown' \o results' = c
    <3> HIDE DEF x, z
    <3>1. <<z>> \in Seq(Logged) /\ <<x>> \in Seq(Logged) /\ <<z>> \o <<x>> = <<z, x>>
      BY <1>1, <2>1, Couple
    <3>2. shown' = a \o <<z>>
      BY <1>1, AppendIsConcat
    <3>3. (a \o <<z>>) \o <<x>> = a \o (<<z>> \o <<x>>)
      BY <1>1, <3>1, ConcatAssociative
    <3> QED
      BY <2>2, <3>1, <3>2, <3>3
  <2>4. shown \o results = b
    BY <2>1
  <2>5. /\ Len(a) \in Nat /\ DOMAIN b = 1 .. Len(a) + 2 /\ DOMAIN c = 1 .. Len(a) + 2
        /\ \A i \in 1 .. Len(a) : b[i] = a[i] /\ c[i] = a[i]
        /\ b[Len(a) + 1] = x /\ b[Len(a) + 2] = z /\ c[Len(a) + 1] = z /\ c[Len(a) + 2] = x
    BY <1>1, <2>1, TwoMore
  <2>6. Reported(b)
    BY <2>4
  <2> HIDE DEF a, b, c, x, z, n
  <2> DEFINE m == Len(a)
             f(i) == IF i = m + 1 THEN m + 2 ELSE IF i = m + 2 THEN m + 1 ELSE i
  <2>7. \A i \in 1 .. m + 2 : f(i) \in 1 .. m + 2 /\ b[f(i)] = c[i] /\ c[f(i)] = b[i]
    BY <2>5
  <2>8. \A i, j \in 1 .. m + 2 : f(i) = f(j) => i = j
    BY <2>5
  <2> HIDE DEF f, m
  <2>9. IsInjective(c)
    BY <2>5, <2>6, <2>7, <2>8 DEF Reported, IsInjective, m
  <2>10. \A w : (\E i \in DOMAIN c : c[i] = w) <=> \E i \in DOMAIN b : b[i] = w
    BY <2>5, <2>7 DEF m
  <2>11. Reported(c)
    BY <2>6, <2>9, <2>10 DEF Reported
  <2> QED
    BY <2>3, <2>11
<1> QED
  BY <1>1, <1>2, <1>3

\* What the zip takes has been in no pair before.
LEMMA HeadIsNew ==
  ASSUME TypeOK, Chains, NEW s \in Sources, zipQ[s] # <<>>
  PROVE  \A k \in DOMAIN paired[s] : paired[s][k] # Head(zipQ[s])
<1> DEFINE p == paired[s]
           q == zipQ[s]
<1>1. p \in Seq(Events) /\ q \in Seq(Events) /\ q # <<>> /\ IsInjective(p \o q)
  BY ChainTypes, ChainMeets DEF BatchesMeet
<1> HIDE DEF p, q
<1>2. /\ Len(p) \in Nat /\ DOMAIN p = 1 .. Len(p) /\ Len(q) \in Nat \ {0} /\ Head(q) = q[1]
  BY <1>1, LenProperties, EmptySeq
<1>3. /\ p \o q \in Seq(Events) /\ Len(p \o q) = Len(p) + Len(q)
      /\ \A i \in 1 .. Len(p) + Len(q) : (p \o q)[i] = IF i <= Len(p) THEN p[i] ELSE q[i - Len(p)]
  BY <1>1, ConcatProperties
<1>4. DOMAIN (p \o q) = 1 .. Len(p) + Len(q)
  BY <1>3, LenProperties
<1>5. (p \o q)[Len(p) + 1] = q[1] /\ Len(p) + 1 \in DOMAIN (p \o q)
  BY <1>2, <1>3, <1>4
<1>6. ASSUME NEW k \in DOMAIN p PROVE p[k] # Head(q)
  <2>1. (p \o q)[k] = p[k] /\ k \in DOMAIN (p \o q) /\ k # Len(p) + 1
    BY <1>2, <1>3, <1>4
  <2> QED
    BY <2>1, <1>1, <1>2, <1>5 DEF IsInjective
<1> QED
  BY <1>6 DEF p, q

\* A pair adds what it asks for, both events, and they are reported from now on.
LEMMA PairKeeps ==
  ASSUME TypeOK, Chains, AwaitPair, Reported(shown \o results)
  PROVE  Reported(shown \o results)'
<1> DEFINE l == Head(zipQ["lsp"])
           r == Head(zipQ["fan"])
           m == Len(paired["lsp"])
           Both == Wanted(l, r)
<1>1. /\ results = <<>> /\ results' = Push(l, r)
      /\ \A s \in Sources : zipQ[s] # <<>> /\ paired'[s] = Append(paired[s], Head(zipQ[s]))
      /\ UNCHANGED <<mode, file, shown>>
  BY DEF AwaitPair, sinkVars
<1>2. \A s \in Sources : Head(zipQ[s]) \in Events /\ paired[s] \in Seq(Events)
  BY <1>1, Elements, ChainTypes
<1>3. /\ m \in Nat
      /\ \A s \in Sources : /\ DOMAIN paired[s] = 1 .. m /\ DOMAIN paired'[s] = 1 .. m + 1
                            /\ \A k \in 1 .. m : paired'[s][k] = paired[s][k]
                            /\ paired'[s][m + 1] = Head(zipQ[s])
  <2>1. ASSUME NEW s \in Sources
        PROVE  /\ Len(paired[s]) = m /\ m \in Nat /\ DOMAIN paired[s] = 1 .. Len(paired[s])
    BY <1>2, LenProperties DEF TypeOK, Sources
  <2>2. ASSUME NEW s \in Sources
        PROVE  /\ DOMAIN paired'[s] = 1 .. Len(paired[s]) + 1
               /\ \A k \in 1 .. Len(paired[s]) : paired'[s][k] = paired[s][k]
               /\ paired'[s][Len(paired[s]) + 1] = Head(zipQ[s])
    BY <1>1, <1>2, AppendProperties, LenProperties
  <2>3. "lsp" \in Sources
    BY DEF Sources
  <2> QED
    BY <2>1, <2>2, <2>3
<1>4. \A x, y : Wanted(x, y)' <=> Wanted(x, y)
  BY <1>1 DEF Wanted
<1>5. /\ "lsp" \in Sources /\ "fan" \in Sources /\ "lsp" # "fan"
      /\ \A s \in Sources : s = "lsp" \/ s = "fan"
  BY DEF Sources
<1> HIDE DEF m
<1>6. \A s \in Sources, e \in Events :
        Asked(s, e)' <=> (Asked(s, e) \/ (Both /\ e = Head(zipQ[s])))
  <2> SUFFICES ASSUME NEW s \in Sources, NEW e \in Events
               PROVE  Asked(s, e)' <=> (Asked(s, e) \/ (Both /\ e = Head(zipQ[s])))
    OBVIOUS
  <2>1. Asked(s, e)' <=> \E k \in 1 .. m + 1 : /\ e = paired'[s][k]
                                              /\ Wanted(paired'["lsp"][k], paired'["fan"][k])
    BY <1>3, <1>4, <1>5 DEF Asked, Pairs
  <2>2. Asked(s, e) <=> \E k \in 1 .. m : /\ e = paired[s][k]
                                         /\ Wanted(paired["lsp"][k], paired["fan"][k])
    BY <1>3, <1>5 DEF Asked, Pairs
  <2>3. 1 .. m + 1 = (1 .. m) \union {m + 1}
    BY <1>3
  <2>4. /\ paired'["lsp"][m + 1] = l /\ paired'["fan"][m + 1] = r
        /\ \A k \in 1 .. m : /\ paired'[s][k] = paired[s][k]
                             /\ paired'["lsp"][k] = paired["lsp"][k]
                             /\ paired'["fan"][k] = paired["fan"][k]
        /\ paired'[s][m + 1] = Head(zipQ[s])
    BY <1>3, <1>5
  <2> QED
    BY <2>1, <2>2, <2>3, <2>4
<1>7. shown \in Seq(Logged) /\ Reported(shown)
  <2>1. shown \in Seq(Logged)
    BY DEF TypeOK, Logged
  <2> QED
    BY <2>1, <1>1, ConcatEmptySeq
<1>8. \A s \in Sources : ~Asked(s, Head(zipQ[s]))
  BY <1>1, <1>3, <1>5, HeadIsNew DEF Asked, Pairs
<1>9. CASE ~Both
  <2>1. (shown \o results)' = shown
    BY <1>1, <1>7, <1>9, ConcatEmptySeq DEF Push
  <2> QED
    BY <2>1, <1>6, <1>7, <1>9 DEF Reported
<1>10. CASE Both
  <2> DEFINE x == <<"lsp", l>>
             y == <<"fan", r>>
             b == shown \o <<x, y>>
  <2>1. x \in Logged /\ y \in Logged /\ (shown \o results)' = b
    BY <1>1, <1>2, <1>5, <1>10 DEF Push, Logged
  <2>2. /\ Len(shown) \in Nat /\ DOMAIN shown = 1 .. Len(shown)
        /\ DOMAIN b = 1 .. Len(shown) + 2
        /\ \A i \in 1 .. Len(shown) : b[i] = shown[i]
        /\ b[Len(shown) + 1] = x /\ b[Len(shown) + 2] = y
    BY <2>1, <1>7, TwoMore
  <2>3. \A i \in DOMAIN shown : shown[i] # x /\ shown[i] # y
    BY <1>2, <1>5, <1>7, <1>8 DEF Reported
  <2>4. x # y
    BY <1>5
  <2>5. \A s \in Sources, e \in Events : Both /\ e = Head(zipQ[s]) <=> <<s, e>> \in {x, y}
    BY <1>5, <1>10
  <2> HIDE DEF x, y, b
  <2>6. \A i \in DOMAIN b : \/ i \in DOMAIN shown
                            \/ i = Len(shown) + 1
                            \/ i = Len(shown) + 2
    BY <2>2
  <2>7. IsInjective(b)
    <3>1. ASSUME NEW i \in DOMAIN b, NEW j \in DOMAIN b, b[i] = b[j], i \in DOMAIN shown
          PROVE  i = j
      BY <3>1, <2>2, <2>3, <2>6, <1>7 DEF Reported, IsInjective
    <3> QED
      BY <3>1, <2>2, <2>4, <2>6 DEF IsInjective
  <2>8. \A w : (\E i \in DOMAIN b : b[i] = w)
                 <=> ((\E i \in DOMAIN shown : shown[i] = w) \/ w \in {x, y})
    <3>1. /\ DOMAIN shown \in SUBSET DOMAIN b
          /\ Len(shown) + 1 \in DOMAIN b /\ Len(shown) + 2 \in DOMAIN b
      BY <2>2
    <3> QED
      BY <3>1, <2>2, <2>6
  <2>9. \A s \in Sources, e \in Events : (\E i \in DOMAIN b : b[i] = <<s, e>>) <=> Asked(s, e)'
    BY <1>6, <1>7, <2>5, <2>8 DEF Reported
  <2> QED
    BY <2>1, <2>7, <2>9 DEF Reported
<1> QED
  BY <1>9, <1>10

\* What is asked for depends on the pairs, the files and the mode alone.
LEMMA AskedKept ==
  ASSUME UNCHANGED <<mode, file, paired>>, NEW log, Reported(log)
  PROVE  \A same : same = log =>
           /\ IsInjective(same)
           /\ \A s \in Sources, e \in Events :
                (\E i \in DOMAIN same : same[i] = <<s, e>>) <=> Asked(s, e)'
<1>1. mode' = mode /\ file' = file /\ paired' = paired
  OBVIOUS
<1>2. \A x, y : Wanted(x, y)' <=> Wanted(x, y)
  BY <1>1 DEF Wanted
<1>3. ASSUME NEW s, NEW e
      PROVE  Asked(s, e)' <=> Asked(s, e)
  BY <1>1, <1>2 DEF Asked, Pairs
<1> QED
  BY <1>3 DEF Reported

\* Every step reports what is asked for and nothing else.
LEMMA ReportedStep ==
  TypeOK /\ Chains /\ Reported(shown \o results) /\ [Next]_vars => Reported(shown \o results)'
<1> SUFFICES ASSUME TypeOK, Chains, Reported(shown \o results), [Next]_vars
             PROVE  Reported(shown \o results)'
  OBVIOUS
<1>1. ASSUME UNCHANGED <<mode, file, paired>>, (shown \o results)' = shown \o results
      PROVE  Reported(shown \o results)'
  <2>1. \A same : same = shown \o results =>
           /\ IsInjective(same)
           /\ \A s \in Sources, e \in Events :
                (\E i \in DOMAIN same : same[i] = <<s, e>>) <=> Asked(s, e)'
    BY <1>1, AskedKept
  <2> QED
    BY <1>1, <2>1 DEF Reported
<1>2. ASSUME NEW s \in Sources, Arrive(s) \/ QueueAwait(s) \/ QueueYield(s)
      PROVE  Reported(shown \o results)'
  BY <1>1, <1>2 DEF Arrive, QueueAwait, QueueYield, zipVars, sinkVars
<1>3. CASE Report
  <2>1. Reported(shown' \o results')
    BY <1>3, ReportKeeps
  <2>2. UNCHANGED <<mode, file, paired>>
    BY <1>3 DEF Report
  <2>3. \A same : same = shown' \o results' =>
           /\ IsInjective(same)
           /\ \A s \in Sources, e \in Events :
                (\E i \in DOMAIN same : same[i] = <<s, e>>) <=> Asked(s, e)'
    BY <2>1, <2>2, AskedKept
  <2> QED
    BY <2>3 DEF Reported
<1>4. CASE UNCHANGED vars
  BY <1>1, <1>4 DEF vars, zipVars, sinkVars
<1> QED
  BY <1>2, <1>3, <1>4, PairKeeps DEF Next

(* ------------------------------- theorems ------------------------------- *)

IInv == TypeOK /\ Chains /\ Reported(shown \o results)

LEMMA InitInvariant == Init => IInv
<1> SUFFICES ASSUME Init PROVE IInv
  OBVIOUS
<1>1. TypeOK
  <2>1. <<>> \in Seq(Events) /\ <<>> \in Seq(Sources \X Events) /\ Len(<<>>) = 0
    BY EmptySeq
  <2>2. capacity \in 0 .. MaxCapacity /\ 0 \in 0 .. MaxEvents
    BY ConstantsAssumption DEF Init
  <2> QED
    BY <2>1, <2>2 DEF Init, TypeOK, Sources
<1>2. \A s \in Sources : Out(s) = <<>>
  BY EmptySeq, ConcatEmptySeq DEF Init, Out
<1>3. Chains
  <2> SUFFICES ASSUME NEW s \in Sources PROVE Chain(s)
    BY DEF Chains
  <2>1. /\ buffer[s] = {} /\ draining[s] = FALSE /\ queueQ[s] = <<>> /\ arrived[s] = 0
        /\ Out(s) = <<>> /\ capacity \in Nat
    BY <1>1, <1>2, ChainTypes DEF Init
  <2>2. Batch(<<>>, {}, FALSE, <<>>, 0, capacity, 0)
    <3>1. Cardinality({}) = 0
      BY FS_EmptySet
    <3> QED
      BY <2>1, <3>1 DEF Batch, Reached, IsInjective
  <2>3. 0 * capacity = 0 /\ 0 \in Nat
    BY <2>1
  <2>4. Batch(Out(s), buffer[s], draining[s], queueQ[s], arrived[s], capacity, 0 * capacity)
    BY <2>1, <2>2, <2>3, Zenon
  <2> QED
    BY <2>1, <2>3, <2>4 DEF Chain
<1>4. Reported(shown \o results)
  <2>1. shown \o results = <<>>
    BY EmptySeq, ConcatEmptySeq DEF Init
  <2>2. Pairs = {}
    BY DEF Init, Pairs, Sources
  <2> QED
    BY <2>1, <2>2 DEF Reported, Asked, IsInjective
<1> QED
  BY <1>1, <1>3, <1>4 DEF IInv

LEMMA Invariance == Spec => []IInv
<1>1. IInv /\ [Next]_vars => IInv'
  BY TypeStep, ChainStep, ReportedStep DEF IInv
<1> QED
  BY <1>1, InitInvariant, PTL DEF Spec

\* The queues, the zip and the sink keep their types; a queue that drains has events,
\* and both sources are in as many pairs.
THEOREM TypeCorrect == Spec => []TypeOK
<1>1. IInv => TypeOK
  BY DEF IInv
<1> QED
  BY <1>1, Invariance, PTL

\* The two queues never let events of different batches meet, whatever their capacity,
\* the order of the addresses and the other source's progress.
THEOREM BatchesMeetAlways == Spec => []BatchesMeet
<1>1. IInv => BatchesMeet
  BY ChainMeets DEF IInv
<1> QED
  BY <1>1, Invariance, PTL

\* adjacent_if yields both events of a pair the mode asks for, each once, and none
\* of any other.
THEOREM BothOfAPairAlways == Spec => []BothOfAPair
<1>1. IInv => BothOfAPair
  BY ReportedIs DEF IInv
<1> QED
  BY <1>1, Invariance, PTL
=============================================================================
