------------------------- MODULE EventPipelineProofs -------------------------
(***************************************************************************)
(* The modes only and any, proved for any set of sources, any number of    *)
(* events and any predicate: the chains conserve what the predicate        *)
(* accepts, and their readers step as EventSource does.                    *)
(***************************************************************************)
EXTENDS EventPipeline, SequenceTheorems, TLAPS

(* --------------------------------- queues ------------------------------- *)

\* A queue is its head and what is behind it.
LEMMA HeadTail ==
  ASSUME NEW S, NEW s \in Seq(S), s # <<>>
  PROVE  /\ Head(s) \in S /\ Tail(s) \in Seq(S) /\ <<Head(s)>> \in Seq(S)
         /\ s = <<Head(s)>> \o Tail(s)
<1>1. Len(s) \in Nat \ {0} /\ Head(s) = s[1]
  BY EmptySeq
<1>2. Head(s) \in S /\ Tail(s) \in Seq(S) /\ Tail(s) = SubSeq(s, 2, Len(s))
  BY HeadTailProperties, TailIsSubSeq
<1>3. s = <<s[1]>> \o SubSeq(s, 1 + 1, Len(s))
  BY <1>1, SubSeqFull, SubSeqRecursiveFirst
<1> QED
  BY <1>1, <1>2, <1>3

\* An element may be added to a queue or to what the queue ends.
LEMMA AppendMoves ==
  ASSUME NEW S, NEW a \in Seq(S), NEW b \in Seq(S), NEW e \in S
  PROVE  a \o Append(b, e) = Append(a \o b, e)
<1>1. <<e>> \in Seq(S) /\ a \o b \in Seq(S)
  BY ConcatProperties
<1>2. a \o (b \o <<e>>) = (a \o b) \o <<e>>
  BY <1>1, ConcatAssociative
<1> QED
  BY <1>1, <1>2, AppendIsConcat

\* An element that goes from the head of a queue to the end of what is before it
\* moves nothing.
LEMMA HeadMoves ==
  ASSUME NEW S, NEW a \in Seq(S), NEW b \in Seq(S), b # <<>>
  PROVE  Append(a, Head(b)) \o Tail(b) = a \o b
BY HeadTail, AppendIsConcat, ConcatAssociative

\* The head of a queue is the head of the queue and what is behind it.
LEMMA TailMoves ==
  ASSUME NEW S, NEW a \in Seq(S), NEW b \in Seq(S), a # <<>>
  PROVE  Tail(a) \o b = Tail(a \o b) /\ Head(a \o b) = Head(a) /\ a \o b # <<>>
<1> DEFINE c == a \o b
           r == Tail(a) \o b
<1>1. c \in Seq(S) /\ r \in Seq(S) /\ c # <<>> /\ Head(c) = Head(a)
  BY HeadTail, ConcatProperties, EmptySeq, LenProperties
<1>2. c = <<Head(a)>> \o r
  BY HeadTail, ConcatAssociative
<1> HIDE DEF c, r
<1>3. c = <<Head(a)>> \o Tail(c) /\ Tail(c) \in Seq(S) /\ <<Head(a)>> \in Seq(S)
  BY <1>1, HeadTail
<1>4. r = Tail(c)
  BY <1>1, <1>2, <1>3, ConcatSimplifications
<1> QED
  BY <1>1, <1>4 DEF c, r

(* --------------------------------- types -------------------------------- *)

\* What the actions do to a queue of events leaves one.
LEMMA Elements ==
  /\ <<>> \in Seq(Events)
  /\ \A q \in Seq(Events) : q # <<>> => Head(q) \in Events /\ Tail(q) \in Seq(Events)
  /\ \A q \in Seq(Events), e \in Events : Append(q, e) \in Seq(Events)
  BY EmptySeq, HeadTailProperties, AppendProperties

LEMMA InitInvariant == Init => TypeOK /\ Conservation
<1> SUFFICES ASSUME Init PROVE TypeOK /\ Conservation
  OBVIOUS
<1> USE MaxEventsAssumption DEF Init
<1>1. TypeOK
  BY Elements DEF TypeOK, Empty, Events
<1>2. Conservation
  <2> SUFFICES ASSUME NEW s \in Sources PROVE Conserved(s)
    BY DEF Conservation
  <2>1. Passed(s) = <<>> /\ Coming(s) = <<>> /\ Len(delivered[s]) = 0
    BY Elements, ConcatEmptySeq DEF Passed, Coming, Held
  <2>2. accepted[s] \in SUBSET (1 .. MaxEvents)
    BY DEF Events
  <2> QED
    BY <2>1, <2>2 DEF Conserved, Judged
<1> QED
  BY <1>1, <1>2

LEMMA TypeStep == TypeOK /\ [Next]_vars => TypeOK'
<1> SUFFICES ASSUME TypeOK, [Next]_vars PROVE TypeOK'
  OBVIOUS
<1> USE MaxEventsAssumption, Elements DEF TypeOK, Put, Pop, sourceVars, filterVars
<1>1. ASSUME NEW s \in Sources, Take(s) PROVE TypeOK'
  BY <1>1 DEF Take
<1>2. ASSUME NEW s \in Sources, Deliver(s) PROVE TypeOK'
  <2>1. Len(delivered[s]) + 1 \in Events
    BY <1>2, LenProperties DEF Deliver, Events
  <2> QED
    BY <1>2, <2>1 DEF Deliver, PhaseAfter
<1>3. ASSUME NEW s \in Sources, Stop(s) \/ EndSource(s) \/ Throw(s) PROVE TypeOK'
  BY <1>3 DEF Stop, EndSource, Throw
<1>4. CASE Exit
  BY <1>4 DEF Exit
<1>5. ASSUME NEW s \in Sources, Trace(s) PROVE TypeOK'
  BY <1>5 DEF Trace, Traced
<1>6. ASSUME NEW s \in Sources, Await(s) PROVE TypeOK'
  <2>1. /\ filterQ' \in [Sources -> Seq(Events)]
        /\ UNCHANGED <<accepted, taken, delivered, phase, traceQ, sinkQ, shown, main>>
    BY <1>6 DEF Await
  <2>2. CASE Head(filterQ[s]) \in accepted[s]
    <3>1. /\ value' = [value EXCEPT ![s] = Head(filterQ[s])]
          /\ state' = [state EXCEPT ![s] = "yield"]
      BY <1>6, <2>2 DEF Await
    <3>2. Head(filterQ[s]) \in Events /\ Empty \notin Events
      BY <2>2 DEF Events, Empty
    <3> QED
      BY <2>1, <3>1, <3>2
  <2>3. CASE Head(filterQ[s]) \notin accepted[s]
    BY <1>6, <2>1, <2>3 DEF Await
  <2> QED
    BY <2>2, <2>3
<1>7. ASSUME NEW s \in Sources, Yield(s) PROVE TypeOK'
  BY <1>7 DEF Yield, Yielded, StateAfter, Events, Empty
<1>8. ASSUME NEW s \in Sources, Sink(s) PROVE TypeOK'
  BY <1>8 DEF Sink
<1>9. CASE UNCHANGED vars
  BY <1>9 DEF vars
<1> QED
  BY <1>1, <1>2, <1>3, <1>4, <1>5, <1>6, <1>7, <1>8, <1>9 DEF Next

(* ----------------------------- conservation ----------------------------- *)

\* Conserved, of what has passed, what is coming, how many are judged and the
\* predicate.
Right(p, c, j, a) ==
  /\ \A i, k \in DOMAIN p : i < k => p[i] < p[k]
  /\ {p[i] : i \in DOMAIN p} = {n \in a : n <= j}
  /\ \A i \in DOMAIN c : c[i] = j + i

\* A new event comes at the end.
LEMMA Comes ==
  ASSUME NEW p, NEW c \in Seq(Events), NEW j \in Int, NEW a, Right(p, c, j, a),
         NEW e \in Events, e = j + Len(c) + 1
  PROVE  Right(p, Append(c, e), j, a)
<1>1. /\ Len(c) \in Nat /\ DOMAIN c = 1 .. Len(c)
      /\ DOMAIN Append(c, e) = 1 .. Len(c) + 1
      /\ \A i \in 1 .. Len(c) : Append(c, e)[i] = c[i]
      /\ Append(c, e)[Len(c) + 1] = e
  BY AppendProperties, LenProperties
<1>2. ASSUME NEW i \in DOMAIN Append(c, e) PROVE Append(c, e)[i] = j + i
  <2>1. CASE i \in 1 .. Len(c)
    BY <1>1, <2>1 DEF Right
  <2>2. CASE i = Len(c) + 1
    BY <1>1, <2>2
  <2> QED
    BY <1>1, <2>1, <2>2
<1> QED
  BY <1>2 DEF Right

\* The head of what comes is the next event to be judged.
LEMMA Comer ==
  ASSUME NEW p, NEW c \in Seq(Events), NEW j \in Int, NEW a, Right(p, c, j, a), c # <<>>
  PROVE  /\ Head(c) = j + 1
         /\ \A i \in DOMAIN Tail(c) : Tail(c)[i] = j + 1 + i
<1>1. /\ Len(c) \in Nat \ {0} /\ DOMAIN c = 1 .. Len(c) /\ Head(c) = c[1]
      /\ DOMAIN Tail(c) = 1 .. Len(c) - 1
      /\ \A i \in 1 .. Len(c) - 1 : Tail(c)[i] = c[i + 1]
  BY HeadTailProperties, LenProperties, EmptySeq
<1>2. ASSUME NEW i \in DOMAIN Tail(c) PROVE Tail(c)[i] = j + 1 + i
  <2>1. Tail(c)[i] = c[i + 1] /\ i + 1 \in DOMAIN c /\ i \in Int
    BY <1>1
  <2>2. c[i + 1] = j + (i + 1)
    BY <2>1 DEF Right
  <2> QED
    BY <2>1, <2>2
<1>3. Head(c) = j + 1
  BY <1>1 DEF Right
<1> QED
  BY <1>2, <1>3

LEMMA Rejects ==
  ASSUME NEW p, NEW c \in Seq(Events), NEW j \in Int, NEW a \in SUBSET Events,
         Right(p, c, j, a), c # <<>>, Head(c) \notin a
  PROVE  Right(p, Tail(c), j + 1, a)
<1>1. Head(c) = j + 1 /\ \A i \in DOMAIN Tail(c) : Tail(c)[i] = j + 1 + i
  BY Comer
<1>2. ASSUME NEW n \in a PROVE n <= j + 1 <=> n <= j
  BY <1>1 DEF Events
<1> QED
  BY <1>1, <1>2 DEF Right

LEMMA Accepts ==
  ASSUME NEW p \in Seq(Events), NEW c \in Seq(Events), NEW j \in Int,
         NEW a \in SUBSET Events, Right(p, c, j, a), c # <<>>, Head(c) \in a
  PROVE  Right(Append(p, Head(c)), Tail(c), j + 1, a)
<1> DEFINE h == Head(c)
           q == Append(p, h)
<1>1. h = j + 1 /\ h \in a /\ h \in Events /\ \A i \in DOMAIN Tail(c) : Tail(c)[i] = j + 1 + i
  BY Comer
<1> HIDE DEF h
<1>2. /\ Len(p) \in Nat /\ DOMAIN p = 1 .. Len(p) /\ DOMAIN q = 1 .. Len(p) + 1
      /\ \A i \in 1 .. Len(p) : q[i] = p[i]
      /\ q[Len(p) + 1] = h
  BY <1>1, AppendProperties, LenProperties
<1> HIDE DEF q
<1>3. \A i \in DOMAIN p : p[i] \in a /\ p[i] < h
  <2>1. ASSUME NEW n \in {m \in a : m <= j} PROVE n \in a /\ n < h
    BY <1>1 DEF Events
  <2>2. {p[i] : i \in DOMAIN p} = {m \in a : m <= j}
    BY DEF Right
  <2> QED
    BY <2>1, <2>2
<1>4. ASSUME NEW i \in DOMAIN q, NEW k \in DOMAIN q, i < k PROVE q[i] < q[k]
  <2>1. i \in DOMAIN p /\ q[i] = p[i]
    BY <1>2, <1>4
  <2>2. CASE k \in DOMAIN p
    BY <1>2, <1>4, <2>1, <2>2 DEF Right
  <2>3. CASE k = Len(p) + 1
    BY <1>2, <1>3, <2>1, <2>3
  <2> QED
    BY <1>2, <2>2, <2>3
<1>5. ASSUME NEW n PROVE n \in {q[i] : i \in DOMAIN q} <=> n \in {m \in a : m <= j + 1}
  <2>1. n \in {q[i] : i \in DOMAIN q} <=> n \in {p[i] : i \in DOMAIN p} \/ n = h
    <3>1. \A i \in DOMAIN q : q[i] = h \/ \E k \in DOMAIN p : q[i] = p[k]
      BY <1>2
    <3>2. Len(p) + 1 \in DOMAIN q /\ \A i \in DOMAIN p : i \in DOMAIN q /\ q[i] = p[i]
      BY <1>2
    <3> QED
      BY <1>2, <3>1, <3>2
  <2>2. n \in {p[i] : i \in DOMAIN p} <=> n \in {m \in a : m <= j}
    BY DEF Right
  <2>3. n \in {m \in a : m <= j + 1} <=> n \in {m \in a : m <= j} \/ n = h
    <3>1. ASSUME NEW m \in a PROVE m <= j + 1 <=> m <= j \/ m = h
      BY <1>1 DEF Events
    <3> QED
      BY <1>1, <3>1
  <2> QED
    BY <2>1, <2>2, <2>3
<1>6. {q[i] : i \in DOMAIN q} = {m \in a : m <= j + 1}
  BY <1>5
<1> QED
  BY <1>1, <1>4, <1>6 DEF Right, q, h

\* Of the stages only the reader's send and the filter's await change what is right.
LEMMA ConservationStep == TypeOK /\ Conservation /\ [Next]_vars => Conservation'
<1> SUFFICES ASSUME TypeOK, [Next]_vars, NEW s \in Sources, Conserved(s) PROVE Conserved(s)'
  BY DEF Conservation
<1> DEFINE E == Seq(Events)
           in == shown[s] \o sinkQ[s]
<1>1. /\ shown[s] \in E /\ sinkQ[s] \in E /\ filterQ[s] \in E /\ traceQ[s] \in E
      /\ delivered[s] \in E /\ accepted[s] \in SUBSET Events
      /\ state[s] \in {"await", "yield"} /\ (state[s] = "yield" => value[s] \in Events)
  BY DEF TypeOK
<1>2. in \in E /\ Coming(s) \in E /\ Len(Coming(s)) \in Nat /\ Len(delivered[s]) \in Nat
  BY <1>1, ConcatProperties, LenProperties DEF Coming
<1>3. Passed(s) = IF state[s] = "yield" THEN in \o <<value[s]>> ELSE in
  BY <1>2, ConcatEmptySeq DEF Passed, Held
<1>r. Right(Passed(s), Coming(s), Judged(s), accepted[s])
  BY DEF Conserved, Right
<1>c. ASSUME NEW pa, NEW co, NEW ju, Right(pa, co, ju, accepted[s]),
             Passed(s)' = pa, Coming(s)' = co, Judged(s)' = ju, accepted' = accepted
      PROVE  Conserved(s)'
  BY <1>c DEF Conserved, Right
<1>p. ASSUME Passed(s)' = Passed(s), Coming(s)' = Coming(s), accepted' = accepted,
             delivered'[s] = delivered[s]
      PROVE  Conserved(s)'
  BY <1>p DEF Conserved, Judged
<1>q. ASSUME shown'[s] = shown[s], sinkQ'[s] = sinkQ[s], value'[s] = value[s],
             state'[s] = state[s], filterQ'[s] = filterQ[s], traceQ'[s] = traceQ[s],
             accepted' = accepted, delivered'[s] = delivered[s]
      PROVE  Conserved(s)'
  BY <1>q, <1>p DEF Passed, Coming, Held
<1> USE DEF TypeOK, Put, Pop, sourceVars, filterVars
<1>4. ASSUME NEW r \in Sources, r # s,
             Deliver(r) \/ Trace(r) \/ Await(r) \/ Yield(r) \/ Sink(r)
      PROVE  Conserved(s)'
  BY <1>4, <1>q DEF Deliver, Trace, Traced, Await, Yield, Yielded, StateAfter, Sink
\* The event goes to the end of what is coming.
<1>5. CASE Deliver(s)
  <2>1. /\ delivered'[s] = Append(delivered[s], Len(delivered[s]) + 1)
        /\ traceQ'[s] = Append(traceQ[s], Len(delivered[s]) + 1)
        /\ Len(delivered[s]) + 1 \in Events
        /\ UNCHANGED <<accepted, filterVars, sinkQ, shown>>
    BY <1>5, <1>2, MaxEventsAssumption DEF Deliver, Events
  <2>2. Passed(s)' = Passed(s)
    BY <2>1 DEF Passed, Held
  <2>3. Coming(s)' = Append(Coming(s), Len(delivered[s]) + 1)
    <3>1. /\ filterQ'[s] = filterQ[s]
          /\ traceQ'[s] = Append(traceQ[s], Len(delivered[s]) + 1)
          /\ Len(delivered[s]) + 1 \in Events
      BY <2>1
    <3> HIDE DEF TypeOK
    <3>2. ASSUME NEW a \in Seq(Events), NEW b \in Seq(Events), NEW e \in Events
          PROVE  a \o Append(b, e) = Append(a \o b, e)
      BY AppendMoves
    <3>3. filterQ[s] \in Seq(Events) /\ traceQ[s] \in Seq(Events)
      BY <1>1
    <3> HIDE DEF E, in
    <3>4. filterQ[s] \o Append(traceQ[s], Len(delivered[s]) + 1)
            = Append(filterQ[s] \o traceQ[s], Len(delivered[s]) + 1)
      BY <3>1, <3>2, <3>3, Zenon
    <3> QED
      BY <3>1, <3>4 DEF Coming
  <2>4. Len(Coming(s)') = Len(Coming(s)) + 1 /\ Len(delivered'[s]) = Len(delivered[s]) + 1
    BY <1>1, <1>2, <2>1, <2>3, AppendProperties
  <2>5. /\ Judged(s)' = Judged(s) /\ Judged(s) \in Int
        /\ Len(delivered[s]) + 1 = Judged(s) + Len(Coming(s)) + 1
    BY <1>2, <2>4 DEF Judged
  <2>6. Right(Passed(s), Coming(s)', Judged(s), accepted[s])
    BY <1>2, <1>r, <2>1, <2>3, <2>5, Comes
  <2> QED
    BY <2>1, <2>2, <2>5, <2>6, <1>c
<1>6. CASE Trace(s)
  <2>1. /\ traceQ[s] # <<>> /\ traceQ'[s] = Tail(traceQ[s])
        /\ filterQ'[s] = Append(filterQ[s], Head(traceQ[s]))
        /\ UNCHANGED <<accepted, delivered, value, state, sinkQ, shown>>
    BY <1>6 DEF Trace, Traced
  <2>2. Coming(s)' = Coming(s)
    BY <1>1, <2>1, HeadMoves DEF Coming
  <2>3. Passed(s)' = Passed(s)
    BY <2>1 DEF Passed, Held
  <2> QED
    BY <1>p, <2>1, <2>2, <2>3
\* The head of what is coming is judged: it passes, or it is gone.
<1>7. CASE Await(s)
  <2> DEFINE h == Head(filterQ[s])
  <2>1. /\ filterQ[s] # <<>> /\ filterQ'[s] = Tail(filterQ[s])
        /\ state[s] = "await"
        /\ UNCHANGED <<accepted, delivered, traceQ, sinkQ, shown>>
    BY <1>7 DEF Await
  <2>2. Coming(s)' = Tail(Coming(s)) /\ h = Head(Coming(s)) /\ Coming(s) # <<>>
    BY <1>1, <2>1, TailMoves DEF Coming
  <2>3. Len(Coming(s)') = Len(Coming(s)) - 1
    BY <1>2, <2>2, HeadTailProperties
  <2>4. Judged(s)' = Judged(s) + 1 /\ Judged(s) \in Int
    BY <1>2, <2>1, <2>3 DEF Judged
  <2>5. Passed(s) = in
    BY <1>3, <2>1
  <2> HIDE DEF h
  <2>6. CASE h \in accepted[s]
    <3>1. state'[s] = "yield" /\ value'[s] = h
      BY <1>7, <2>6 DEF Await, h
    <3>2. Passed(s)' = Append(Passed(s), h)
      <4>1. Passed(s)' = in \o <<h>>
        BY <2>1, <3>1 DEF Passed, Held
      <4>2. h \in Events
        BY <1>1, <2>6
      <4> QED
        BY <1>2, <2>5, <4>1, <4>2, AppendIsConcat
    <3>3. Right(Append(Passed(s), h), Tail(Coming(s)), Judged(s) + 1, accepted[s])
      BY <1>1, <1>2, <1>r, <2>2, <2>4, <2>5, <2>6, Accepts
    <3> QED
      BY <2>1, <2>2, <2>4, <3>2, <3>3, <1>c
  <2>7. CASE h \notin accepted[s]
    <3>1. Passed(s)' = Passed(s)
      BY <1>7, <2>7 DEF Await, Passed, Held, h
    <3>2. Right(Passed(s), Tail(Coming(s)), Judged(s) + 1, accepted[s])
      BY <1>1, <1>2, <1>r, <2>2, <2>4, <2>7, Rejects
    <3> QED
      BY <2>1, <2>2, <2>4, <3>1, <3>2, <1>c
  <2> QED
    BY <2>6, <2>7
<1>8. CASE Yield(s)
  <2>1. /\ state[s] = "yield" /\ state'[s] = "await"
        /\ sinkQ'[s] = Append(sinkQ[s], value[s])
        /\ UNCHANGED <<accepted, delivered, traceQ, filterQ, shown>>
    BY <1>8 DEF Yield, Yielded, StateAfter
  <2>2. Passed(s)' = Append(in, value[s])
    <3>1. Append(sinkQ[s], value[s]) \in E
      BY <1>1, <2>1, Elements
    <3>2. shown[s] \o Append(sinkQ[s], value[s]) = Append(in, value[s])
      BY <1>1, <2>1, AppendMoves
    <3>3. Append(in, value[s]) \in E
      BY <1>1, <1>2, <2>1, Elements
    <3>4. Passed(s)' = Append(in, value[s]) \o <<>>
      BY <2>1, <3>2 DEF Passed, Held
    <3> QED
      BY <3>3, <3>4, ConcatEmptySeq
  <2>3. Passed(s) = Append(in, value[s])
    BY <1>1, <1>2, <1>3, <2>1, AppendIsConcat
  <2>4. Coming(s)' = Coming(s)
    BY <2>1 DEF Coming
  <2> QED
    BY <1>p, <2>1, <2>2, <2>3, <2>4
<1>9. CASE Sink(s)
  <2>1. /\ sinkQ[s] # <<>> /\ sinkQ'[s] = Tail(sinkQ[s])
        /\ shown'[s] = Append(shown[s], Head(sinkQ[s]))
        /\ UNCHANGED <<accepted, delivered, traceQ, filterQ, state, value>>
    BY <1>9 DEF Sink
  <2>2. shown'[s] \o sinkQ'[s] = in
    BY <1>1, <2>1, HeadMoves
  <2>3. Passed(s)' = Passed(s)
    BY <2>1, <2>2 DEF Passed, Held
  <2>4. Coming(s)' = Coming(s)
    BY <2>1 DEF Coming
  <2> QED
    BY <1>p, <2>1, <2>3, <2>4
<1>10. ASSUME NEW r \in Sources, Take(r) \/ Stop(r) \/ EndSource(r) \/ Throw(r)
       PROVE  Conserved(s)'
  BY <1>10, <1>q DEF Take, Stop, EndSource, Throw
<1>11. CASE Exit \/ UNCHANGED vars
  BY <1>11, <1>q DEF Exit, vars
<1> QED
  BY <1>4, <1>5, <1>6, <1>7, <1>8, <1>9, <1>10, <1>11 DEF Next

LEMMA Invariance == Spec => [](TypeOK /\ Conservation)
  BY InitInvariant, TypeStep, ConservationStep, PTL DEF Spec, SafeSpec

(* ------------------------------- theorems ------------------------------- *)

\* Every stage of the chains keeps its type; the filter's slot is full exactly when
\* its state says so.
THEOREM TypeCorrect == Spec => []TypeOK
  BY Invariance, PTL

\* Whatever the predicate accepts and however the executor interleaves the stages,
\* accepted events are neither lost nor repeated nor overtaken.
THEOREM ConservationAlways == Spec => []Conservation
  BY Invariance, PTL
=============================================================================
