------------------------- MODULE FanotifyReaderProofs -------------------------
(***************************************************************************)
(* The fanotify reader for every length of the kernel's queue and of the   *)
(* buffer, and any number of file accesses: its types, its descriptors and *)
(* the safety half of what a source promises.                              *)
(***************************************************************************)
EXTENDS FanotifyReader, FiniteSetTheorems, SequenceTheorems, TLAPS

(* ------------------------- counting the files read ---------------------- *)

\* The file events among the first n of a queue.
Files(q, n) == {k \in 1 .. n : q[k] = "file"}

\* There are at most as many as there are events.
LEMMA FilesCount ==
  ASSUME NEW q, NEW n \in Nat
  PROVE  IsFiniteSet(Files(q, n)) /\ Cardinality(Files(q, n)) \in 0 .. n
<1>1. IsFiniteSet(1 .. n) /\ Cardinality(1 .. n) = n
  BY FS_Interval
<1>2. Files(q, n) \in SUBSET (1 .. n)
  BY DEF Files
<1>3. IsFiniteSet(Files(q, n)) /\ Cardinality(Files(q, n)) <= Cardinality(1 .. n)
  BY <1>1, <1>2, FS_Subset
<1> QED
  BY <1>1, <1>3, FS_CardinalityType

\* A file event has a greater number than whatever is before it.
LEMMA FilesGrow ==
  ASSUME NEW q, NEW i \in Nat, NEW j \in Nat, i < j, q[j] = "file"
  PROVE  Cardinality(Files(q, i)) < Cardinality(Files(q, j))
<1>1. j \notin Files(q, i) /\ Files(q, i) \union {j} \in SUBSET Files(q, j)
  BY DEF Files
<1>2. Cardinality(Files(q, i) \union {j}) = Cardinality(Files(q, i)) + 1
  BY <1>1, FilesCount, FS_AddElement
<1>3. Cardinality(Files(q, i) \union {j}) <= Cardinality(Files(q, j))
  BY <1>1, FilesCount, FS_Subset
<1> QED
  BY <1>2, <1>3, FilesCount

\* The numbers of the file events leave no gap.
LEMMA FilesReached ==
  ASSUME NEW q, NEW n \in Nat, NEW m \in 1 .. Cardinality(Files(q, n))
  PROVE  \E i \in Files(q, n) : Cardinality(Files(q, i)) = m
<1> DEFINE c == Cardinality(Files(q, n))
           f == [i \in Files(q, n) |-> Cardinality(Files(q, i))]
<1>1. c \in Nat
  BY FilesCount
<1>2. \A i \in Files(q, n) : Cardinality(Files(q, i)) \in 1 .. c
  <2> TAKE i \in Files(q, n)
  <2>1. i \in 1 .. n /\ q[i] = "file"
    BY DEF Files
  <2>2. Cardinality(Files(q, 0)) < Cardinality(Files(q, i))
    BY <2>1, FilesGrow
  <2>3. Cardinality(Files(q, i)) <= c
    <3>1. Files(q, i) \in SUBSET Files(q, n)
      BY <2>1 DEF Files
    <3> QED
      BY <3>1, FilesCount, FS_Subset
  <2> QED
    BY <2>1, <2>2, <2>3, <1>1, FilesCount
<1>3. \A i, j \in Files(q, n) : f[i] = f[j] => i = j
  <2> TAKE i, j \in Files(q, n)
  <2>1. i \in Nat /\ q[i] = "file" /\ j \in Nat /\ q[j] = "file"
    BY DEF Files
  <2>2. i < j => Cardinality(Files(q, i)) < Cardinality(Files(q, j))
    BY <2>1, FilesGrow
  <2>3. j < i => Cardinality(Files(q, j)) < Cardinality(Files(q, i))
    BY <2>1, FilesGrow
  <2>4. Cardinality(Files(q, i)) \in Nat /\ Cardinality(Files(q, j)) \in Nat
    BY <1>1, <1>2
  <2> QED
    BY <2>1, <2>2, <2>3, <2>4
<1>4. f \in Injection(Files(q, n), 1 .. c)
  BY <1>2, <1>3 DEF Injection, IsInjective
<1>5. IsFiniteSet(1 .. c) /\ Cardinality(1 .. c) = c
  BY <1>1, FS_Interval
<1>6. f \in Surjection(Files(q, n), 1 .. c)
  BY <1>4, <1>5, FS_Injection
<1> QED
  BY <1>6 DEF Surjection

\* What a read leaves in the queue and what it returns are the files there were.
LEMMA FilesSplit ==
  ASSUME NEW S, NEW q \in Seq(S), NEW n \in 0 .. Len(q),
         NEW r, r = SubSeq(q, n + 1, Len(q))
  PROVE  /\ r \in Seq(S)
         /\ Len(r) = Len(q) - n
         /\ Cardinality(Files(q, n)) + Cardinality(Files(r, Len(r)))
              <= Cardinality(Files(q, Len(q)))
<1>1. Len(q) \in Nat /\ \A i \in 1 .. Len(q) : q[i] \in S
  BY LenProperties, ElementOfSeq
<1>2. /\ r \in Seq(S) /\ Len(r) = Len(q) - n
      /\ \A i \in 1 .. Len(q) - n : r[i] = q[n + i]
  <2>1. \A i \in n + 1 .. Len(q) : q[i] \in S
    BY <1>1
  <2>2. /\ SubSeq(q, n + 1, Len(q)) \in Seq(S)
        /\ Len(SubSeq(q, n + 1, Len(q))) =
             IF n + 1 <= Len(q) THEN Len(q) - (n + 1) + 1 ELSE 0
        /\ \A i \in 1 .. Len(q) - (n + 1) + 1 :
             SubSeq(q, n + 1, Len(q))[i] = q[n + 1 + i - 1]
    BY <1>1, <2>1, SubSeqProperties, n + 1 \in Int, Len(q) \in Int
  <2> QED
    BY <1>1, <2>2
<1> DEFINE rest == {k \in n + 1 .. Len(q) : q[k] = "file"}
           f == [k \in Files(r, Len(r)) |-> n + k]
<1>3. /\ rest \in SUBSET Files(q, Len(q)) /\ Files(q, n) \in SUBSET Files(q, Len(q))
      /\ Files(q, n) \intersect rest = {}
      /\ Files(q, n) \union rest = Files(q, Len(q))
  BY <1>1 DEF Files
<1>4. f \in Injection(Files(r, Len(r)), rest)
  <2>1. ASSUME NEW k \in Files(r, Len(r)) PROVE f[k] = n + k /\ n + k \in rest /\ k \in Int
    <3>1. k \in 1 .. Len(q) - n /\ r[k] = "file"
      BY <1>2 DEF Files
    <3>2. q[n + k] = "file"
      BY <1>2, <3>1
    <3> QED
      BY <1>1, <3>1, <3>2
  <2>2. f \in [Files(r, Len(r)) -> rest]
    BY <2>1
  <2>3. \A a, b \in Files(r, Len(r)) : f[a] = f[b] => a = b
    <3> HIDE DEF f, rest
    <3> QED
      BY <2>1
  <2> QED
    BY <2>2, <2>3 DEF Injection, IsInjective
<1>5. /\ IsFiniteSet(rest) /\ IsFiniteSet(Files(q, n)) /\ IsFiniteSet(Files(q, Len(q)))
      /\ Cardinality(rest) \in Nat /\ Cardinality(Files(q, n)) \in Nat
  BY <1>1, <1>3, FilesCount, FS_Subset, FS_CardinalityType
<1>6. Cardinality(Files(r, Len(r))) <= Cardinality(rest)
  BY <1>4, <1>5, FS_Injection
<1>7. Cardinality(Files(q, Len(q))) = Cardinality(Files(q, n)) + Cardinality(rest)
  <2>1. Cardinality(Files(q, n) \union rest) =
          Cardinality(Files(q, n)) + Cardinality(rest) - Cardinality(Files(q, n) \intersect rest)
    BY <1>5, FS_Union
  <2>2. Cardinality(Files(q, n) \intersect rest) = 0
    BY <1>3, FS_EmptySet
  <2>3. Files(q, n) \union rest = Files(q, Len(q))
    BY <1>3
  <2>4. Cardinality(Files(q, n)) \in Nat /\ Cardinality(rest) \in Nat
    BY <1>5
  <2> HIDE DEF rest
  <2>5. Cardinality(Files(q, Len(q))) = Cardinality(Files(q, n) \union rest)
    BY <2>3
  <2> QED
    BY <2>1, <2>2, <2>4, <2>5
<1>8. Cardinality(Files(r, Len(r))) \in Nat
  BY <1>2, <1>1, FilesCount
<1> QED
  BY <1>2, <1>5, <1>6, <1>7, <1>8

\* Two facts about cardinalities.
LEMMA OneMore ==
  ASSUME NEW S, NEW x, NEW T \in SUBSET (S \union {x}), IsFiniteSet(S)
  PROVE  Cardinality(T) <= Cardinality(S) + 1
<1>1. /\ IsFiniteSet(S \union {x}) /\ Cardinality(S) \in Nat
      /\ Cardinality(S \union {x}) = IF x \in S THEN Cardinality(S) ELSE Cardinality(S) + 1
  BY FS_AddElement, FS_CardinalityType
<1>2. IsFiniteSet(T) /\ Cardinality(T) <= Cardinality(S \union {x})
  BY <1>1, FS_Subset
<1>3. Cardinality(T) \in Nat
  BY <1>2, FS_CardinalityType
<1> QED
  BY <1>1, <1>2, <1>3

LEMMA NextNumbers ==
  ASSUME NEW t \in Nat, NEW c \in Nat
  PROVE  Cardinality(t + 1 .. t + c) = c
<1>1. PICK a \in Int, b \in Int : a = t + 1 /\ b = t + c
  OBVIOUS
<1>2. Cardinality(a .. b) = IF a > b THEN 0 ELSE b - a + 1
  BY FS_Interval
<1> QED
  BY <1>1, <1>2

(* ------------------------------- invariant ------------------------------ *)

\* The types without the bounds that need an argument.
Types ==
  /\ pc \in {"init", "mark", "check", "poll", "read", "loop", "item", "recheck",
             "send", "close", "again", "finish", "done", "failed"}
  /\ fad \in BOOLEAN
  /\ stopping \in BOOLEAN
  /\ eintr \in BOOLEAN
  /\ made \in 0 .. MaxEvents
  /\ queue \in Seq({"file", "overflow"})
  /\ batch \in Seq(Nat)
  /\ taken \in Nat
  /\ sent \in Seq(Nat)

\* The queue exceeds its limit by the marker only, and all that is taken or queued
\* was made.
QueueInv ==
  /\ Len(queue) <= MaxQueue + 1
  /\ Len(queue) = MaxQueue + 1 => \E i \in DOMAIN queue : queue[i] = "overflow"
  /\ taken + Cardinality(Files(queue, Len(queue))) <= made

\* The numbers in a buffer grow from its head to its end.
Growing(b) ==
  \A i, j \in DOMAIN b : i < j /\ b[i] # Marker /\ b[j] # Marker => b[i] < b[j]

\* The buffer and the descriptors: no descriptor is left when the next batch is
\* read, and those that are open belong to the buffer until a stop drops it.
BatchInv ==
  /\ pc \in {"init", "mark", "check", "poll", "read", "again", "finish", "done"} =>
       batch = <<>>
  /\ pc \in {"init", "mark", "poll", "read", "again"} => fds = {}
  /\ pc \in {"recheck", "send", "close"} => batch # <<>> /\ Head(batch) # Marker
  /\ Len(batch) <= BatchMax
  /\ Growing(batch)
  /\ fds # InBatch => stopping /\ pc \in {"check", "finish", "done", "failed"}
  /\ InBatch \subseteq fds
  /\ fds \subseteq 1 .. taken
  /\ Cardinality(fds) <= BatchMax

\* While the flag is down the buffer holds what is taken and not sent; the event at
\* the head is in the middle of the two when it has been sent and not closed.
SentInv ==
  /\ Len(sent) <= taken
  /\ ~stopping /\ pc # "close" => InBatch = (Len(sent) + 1) .. taken
  /\ ~stopping /\ pc = "close" => InBatch = Len(sent) .. taken
  /\ pc = "send" => Head(batch) = Len(sent) + 1 /\ Len(sent) < taken

IInv == Types /\ QueueInv /\ BatchInv /\ SentInv

(* ------------------------------- the buffer ----------------------------- *)

Numbers(b) == {b[i] : i \in DOMAIN b} \ {Marker}

\* The head of a buffer is its least number, and the rest is the others.
LEMMA Rest ==
  ASSUME NEW b \in Seq(Nat), b # <<>>, Growing(b)
  PROVE  /\ Head(b) \in Nat
         /\ Tail(b) \in Seq(Nat)
         /\ Len(Tail(b)) = Len(b) - 1
         /\ Growing(Tail(b))
         /\ Numbers(Tail(b)) = Numbers(b) \ {Head(b)}
         /\ Head(b) # Marker => /\ Head(b) \in Numbers(b)
                                /\ \A m \in Numbers(b) : Head(b) <= m
<1>1. /\ Head(b) \in Nat /\ Tail(b) \in Seq(Nat) /\ Len(Tail(b)) = Len(b) - 1
      /\ \A i \in 1 .. Len(Tail(b)) : Tail(b)[i] = b[i + 1]
  BY HeadTailProperties
<1>2. /\ Len(b) \in Nat \ {0} /\ DOMAIN b = 1 .. Len(b) /\ b \in [1 .. Len(b) -> Nat]
      /\ DOMAIN Tail(b) = 1 .. Len(b) - 1 /\ Head(b) = b[1]
  BY <1>1, LenProperties, EmptySeq
<1>3. Growing(Tail(b))
  <2>1. ASSUME NEW i \in 1 .. Len(b) - 1, NEW j \in 1 .. Len(b) - 1, i < j,
               Tail(b)[i] # Marker, Tail(b)[j] # Marker
        PROVE  Tail(b)[i] < Tail(b)[j]
    <3>1. Tail(b)[i] = b[i + 1] /\ Tail(b)[j] = b[j + 1]
      BY <2>1, <1>1
    <3>2. i + 1 \in DOMAIN b /\ j + 1 \in DOMAIN b /\ i + 1 < j + 1
      BY <2>1, <1>2
    <3> QED
      BY <2>1, <3>1, <3>2 DEF Growing
  <2> QED
    BY <2>1, <1>2 DEF Growing
<1>4. \A i \in 2 .. Len(b) : b[i] = Tail(b)[i - 1]
  BY <1>1, <1>2
<1>5. Numbers(Tail(b)) = Numbers(b) \ {Head(b)}
  <2>1. ASSUME NEW m \in Numbers(Tail(b)) PROVE m \in Numbers(b) /\ m # Head(b)
    <3>1. PICK i \in 1 .. Len(b) - 1 : m = Tail(b)[i] /\ m # Marker
      BY <1>2 DEF Numbers
    <3>2. m = b[i + 1] /\ 1 \in DOMAIN b /\ i + 1 \in DOMAIN b /\ 1 < i + 1
      BY <3>1, <1>1, <1>2
    <3>3. b[1] # Marker => b[1] < b[i + 1]
      BY <3>1, <3>2 DEF Growing
    <3>4. b[1] \in Nat
      BY <1>2
    <3> QED
      BY <3>1, <3>2, <3>3, <3>4, <1>2 DEF Numbers
  <2>2. ASSUME NEW m \in Numbers(b), m # Head(b) PROVE m \in Numbers(Tail(b))
    <3>1. PICK i \in 1 .. Len(b) : m = b[i] /\ m # Marker
      BY <1>2 DEF Numbers
    <3>2. i - 1 \in DOMAIN Tail(b) /\ m = Tail(b)[i - 1]
      BY <3>1, <2>2, <1>2, <1>4
    <3> QED
      BY <3>1, <3>2 DEF Numbers
  <2> QED
    BY <2>1, <2>2
<1>6. Head(b) # Marker => Head(b) \in Numbers(b) /\ \A m \in Numbers(b) : Head(b) <= m
  BY <1>2 DEF Numbers, Growing, Marker
<1> QED
  BY <1>1, <1>3, <1>5, <1>6

\* The batch a read returns holds the next numbers, in order and without a gap.
LEMMA Batch ==
  ASSUME Types, NEW n \in 1 .. Len(queue),
         NEW b, b = [i \in 1 .. n |-> Numbered(i)]
  PROVE  /\ b \in Seq(Nat)
         /\ Len(b) = n
         /\ Growing(b)
         /\ Numbers(b) = taken + 1 .. taken + Cardinality(Files(queue, n))
<1> DEFINE C(i) == Cardinality(Files(queue, i))
<1>1. /\ Len(queue) \in Nat /\ n \in Nat /\ DOMAIN b = 1 .. n
      /\ \A i \in 1 .. n : queue[i] \in {"file", "overflow"}
  BY LenProperties DEF Types
<1>2. \A i \in 1 .. n : i \in Nat /\ C(i) \in Nat
  BY FilesCount
<1>3. \A i \in 1 .. n : b[i] = IF queue[i] = "file" THEN taken + C(i) ELSE Marker
  BY DEF Numbered, Files
<1>4. C(0) \in Nat /\ C(n) \in Nat
  BY <1>1, FilesCount
<1>5. \A i \in 1 .. n : queue[i] = "file" => C(i) >= 1 /\ C(i) <= C(n)
  <2> SUFFICES ASSUME NEW i \in 1 .. n, queue[i] = "file" PROVE C(i) >= 1 /\ C(i) <= C(n)
    OBVIOUS
  <2>1. C(0) < C(i)
    BY FilesGrow
  <2>2. Files(queue, i) \in SUBSET Files(queue, n)
    BY <1>1 DEF Files
  <2>3. IsFiniteSet(Files(queue, n))
    BY <1>1, FilesCount
  <2>4. C(i) <= C(n)
    BY <2>2, <2>3, FS_Subset
  <2> HIDE DEF C
  <2> QED
    BY <1>2, <1>4, <2>1, <2>4
<1>6. \A i, j \in 1 .. n : i < j /\ queue[j] = "file" => C(i) < C(j)
  BY FilesGrow
<1>7. \A m \in 1 .. C(n) : \E i \in 1 .. n : queue[i] = "file" /\ C(i) = m
  <2> TAKE m \in 1 .. C(n)
  <2>1. PICK i \in Files(queue, n) : Cardinality(Files(queue, i)) = m
    BY <1>1, FilesReached
  <2>2. i \in 1 .. n /\ queue[i] = "file"
    BY DEF Files
  <2> QED
    BY <2>1, <2>2
<1> HIDE DEF C
<1>8. b \in [1 .. n -> Nat]
  <2>1. ASSUME NEW i \in 1 .. n PROVE b[i] \in Nat
    <3>1. taken \in Nat /\ C(i) \in Nat /\ Marker \in Nat
      BY <1>2 DEF Types, Marker
    <3>2. b[i] = taken + C(i) \/ b[i] = Marker
      BY <1>3
    <3> QED
      BY <3>1, <3>2
  <2> QED
    BY <2>1
<1>9. b \in Seq(Nat) /\ Len(b) = n
  BY <1>1, <1>8
<1>10. Growing(b)
  BY <1>1, <1>2, <1>3, <1>6 DEF Growing, Types
<1>11. Numbers(b) = taken + 1 .. taken + C(n)
  <2>1. ASSUME NEW m \in Numbers(b) PROVE m \in taken + 1 .. taken + C(n)
    <3>1. PICK i \in 1 .. n : m = b[i] /\ m # Marker
      BY <1>1 DEF Numbers
    <3> QED
      BY <3>1, <1>2, <1>3, <1>4, <1>5 DEF Types
  <2>2. ASSUME NEW m \in taken + 1 .. taken + C(n) PROVE m \in Numbers(b)
    <3>1. m - taken \in 1 .. C(n)
      BY <1>4 DEF Types
    <3>2. PICK i \in 1 .. n : queue[i] = "file" /\ C(i) = m - taken
      BY <3>1, <1>7
    <3>3. b[i] = m /\ m # Marker
      <4>1. taken \in Nat /\ C(i) \in 1 .. C(n)
        BY <3>1, <3>2 DEF Types
      <4>2. b[i] = taken + C(i) /\ m = taken + C(i)
        BY <1>3, <3>2, <4>1
      <4> QED
        BY <1>4, <4>1, <4>2 DEF Marker
    <3> QED
      BY <3>3, <1>1 DEF Numbers
  <2> QED
    BY <2>1, <2>2
<1> QED
  BY <1>9, <1>10, <1>11 DEF C

(* ------------------------- the invariant is kept ------------------------ *)

\* Nothing is open, queued or sent at the start.
LEMMA InitInvariant == Init => IInv
<1> SUFFICES ASSUME Init PROVE IInv
  OBVIOUS
<1> USE ConstantsAssumption DEF Init
<1>1. Files(queue, Len(queue)) = {} /\ Cardinality({}) = 0 /\ InBatch = {}
  BY FS_EmptySet DEF Files, InBatch
<1>2. Types
  <2>1. <<>> \in Seq({"file", "overflow"}) /\ <<>> \in Seq(Nat)
    BY EmptySeq
  <2>2. /\ queue \in Seq({"file", "overflow"}) /\ batch \in Seq(Nat) /\ sent \in Seq(Nat)
        /\ made \in 0 .. MaxEvents
    BY <2>1
  <2> QED
    BY <2>2 DEF Types
<1>3. QueueInv
  <2>1. Len(queue) = 0 /\ Cardinality(Files(queue, Len(queue))) = 0
    BY <1>1
  <2> QED
    BY <2>1 DEF QueueInv
<1>4. BatchInv
  BY <1>1 DEF BatchInv, Growing
<1>5. SentInv
  BY <1>1 DEF SentInv
<1> QED
  BY <1>2, <1>3, <1>4, <1>5 DEF IInv

\* A read finds no descriptor left and fills the buffer with the next numbers.
LEMMA ReadStep == IInv /\ Read => IInv'
<1> SUFFICES ASSUME IInv, Read PROVE IInv'
  OBVIOUS
<1> USE DEF IInv
<1>1. /\ pc = "read" /\ pc' = "loop" /\ batch = <<>> /\ fds = {}
      /\ UNCHANGED <<fad, stopping, eintr, made, sent>>
  BY DEF Read, BatchInv
<1>2. CASE queue = <<>> /\ UNCHANGED <<queue, batch, fds, taken>>
  BY <1>1, <1>2 DEF Types, QueueInv, BatchInv, SentInv, InBatch
<1>3. ASSUME NEW n \in Fits,
             batch' = [i \in 1 .. n |-> Numbered(i)],
             taken' = taken + Cardinality({k \in 1 .. n : queue[k] = "file"}),
             fds' = fds \union ((taken + 1) .. taken'),
             queue' = SubSeq(queue, n + 1, Len(queue))
      PROVE  IInv'
  <2> DEFINE c == Cardinality(Files(queue, n))
  <2>1. n \in 1 .. Len(queue) /\ n <= BatchMax /\ Len(queue) \in Nat /\ n \in Nat
    BY LenProperties DEF Fits, Types
  <2>2. c \in 0 .. n /\ taken' = taken + c /\ taken' \in Nat
    <3>1. c \in 0 .. n
      BY <2>1, FilesCount
    <3>2. taken' = taken + c
      BY <1>3 DEF Files
    <3> HIDE DEF c
    <3> QED
      BY <3>1, <3>2, <2>1 DEF Types
  <2>3. /\ batch' \in Seq(Nat) /\ Len(batch') = n /\ Growing(batch')
        /\ Numbers(batch') = taken + 1 .. taken + c
    BY <1>3, <2>1, Batch
  <2>4. /\ queue' \in Seq({"file", "overflow"}) /\ Len(queue') = Len(queue) - n
        /\ c + Cardinality(Files(queue', Len(queue'))) <= Cardinality(Files(queue, Len(queue)))
    <3>1. queue \in Seq({"file", "overflow"}) /\ n \in 0 .. Len(queue)
      BY <2>1 DEF Types
    <3> QED
      BY <1>3, <3>1, FilesSplit
  <2>5. InBatch' = taken + 1 .. taken' /\ fds' = InBatch'
    BY <1>1, <1>3, <2>2, <2>3 DEF InBatch, Numbers
  <2>6. Cardinality(fds') = c
    <3> HIDE DEF c
    <3>1. fds' = taken + 1 .. taken + c
      BY <2>2, <2>5
    <3> QED
      BY <3>1, <2>1, <2>2, NextNumbers DEF Types
  <2>7. Cardinality(Files(queue, Len(queue))) \in Nat
        /\ Cardinality(Files(queue', Len(queue'))) \in Nat
    BY <2>1, <2>4, FilesCount
  <2> HIDE DEF c
  <2>8. Types'
    BY <1>1, <2>2, <2>3, <2>4 DEF Types
  <2>9. QueueInv'
    <3>1. made' = made /\ made \in Nat /\ taken \in Nat /\ MaxQueue \in Nat
      BY <1>1, ConstantsAssumption DEF Types
    <3>2. /\ Len(queue) <= MaxQueue + 1
          /\ taken + Cardinality(Files(queue, Len(queue))) <= made
      BY DEF QueueInv
    <3>3. Len(queue') <= MaxQueue /\ Len(queue') \in Nat
      BY <2>1, <2>4, <3>1, <3>2, LenProperties
    <3>4. taken' + Cardinality(Files(queue', Len(queue'))) <= made'
      BY <2>2, <2>4, <2>7, <3>1, <3>2
    <3> QED
      BY <3>1, <3>3, <3>4 DEF QueueInv
  <2>10. BatchInv'
    BY <1>1, <2>1, <2>2, <2>3, <2>5, <2>6, ConstantsAssumption DEF Types, BatchInv
  <2>11. SentInv'
    <3>1. Len(sent) \in Nat /\ Len(sent) <= taken
      BY LenProperties DEF Types, SentInv
    <3>2. ASSUME ~stopping PROVE Len(sent) = taken
      <4>1. {} = (Len(sent) + 1) .. taken
        BY <1>1, <3>2 DEF SentInv, InBatch
      <4>2. taken \in Nat
        BY DEF Types
      <4>3. Len(sent) < taken => taken \in (Len(sent) + 1) .. taken
        BY <3>1, <4>2
      <4> QED
        BY <3>1, <4>1, <4>2, <4>3
    <3> QED
      BY <1>1, <2>2, <2>5, <3>1, <3>2 DEF SentInv, Types
  <2> QED
    BY <2>8, <2>9, <2>10, <2>11
<1> QED
  BY <1>2, <1>3 DEF Read

\* What the kernel does to its queue: a new access, and a file it cannot open.
LEMMA KernelStep == IInv /\ (FileAccess \/ ReadFails) => IInv'
<1> SUFFICES ASSUME IInv, FileAccess \/ ReadFails PROVE IInv'
  OBVIOUS
<1> USE DEF IInv
<1> DEFINE K == {"file", "overflow"}
<1>1. /\ queue \in Seq(K) /\ Len(queue) \in Nat /\ DOMAIN queue = 1 .. Len(queue)
      /\ Cardinality(Files(queue, Len(queue))) \in Nat
      /\ IsFiniteSet(Files(queue, Len(queue)))
  BY LenProperties, FilesCount DEF Types
<1>2. ASSUME FileAccess PROVE IInv'
  <2>1. /\ made' = made + 1 /\ made < MaxEvents
        /\ UNCHANGED <<pc, fad, stopping, eintr, batch, fds, taken, sent>>
    BY <1>2 DEF FileAccess
  <2>2. CASE queue' = queue
    <3>1. Types'
      BY <2>1, <2>2, ConstantsAssumption DEF Types
    <3>2. QueueInv'
      BY <2>1, <2>2, <1>1 DEF QueueInv, Types
    <3> QED
      BY <2>1, <3>1, <3>2 DEF BatchInv, SentInv, InBatch
  <2>3. ASSUME NEW e \in K, queue' = Append(queue, e),
               e = "file" => Len(queue) < MaxQueue,
               e = "overflow" => ~\E i \in DOMAIN queue : queue[i] = "overflow"
        PROVE  IInv'
    <3>1. /\ queue' \in Seq(K) /\ Len(queue') = Len(queue) + 1
          /\ queue'[Len(queue) + 1] = e /\ DOMAIN queue' = 1 .. Len(queue) + 1
          /\ \A i \in 1 .. Len(queue) : queue'[i] = queue[i]
      BY <2>3, <1>1, AppendProperties, LenProperties
    <3>2. Files(queue', Len(queue')) \in SUBSET (Files(queue, Len(queue)) \union {Len(queue')})
      BY <3>1, <1>1 DEF Files
    <3>4. Cardinality(Files(queue', Len(queue'))) <= Cardinality(Files(queue, Len(queue))) + 1
      BY <1>1, <3>2, OneMore
    <3>5. Cardinality(Files(queue', Len(queue'))) \in Nat
      BY <1>1, <3>1, FilesCount
    <3>6. Types'
      BY <2>1, <3>1, ConstantsAssumption DEF Types
    <3>7. QueueInv'
      <4>0. MaxQueue \in Nat /\ Len(queue) <= MaxQueue + 1
        BY ConstantsAssumption DEF QueueInv
      <4>1. Len(queue') <= MaxQueue + 1
        <5>1. Len(queue) # MaxQueue + 1
          <6>1. CASE e = "file"
            <7>1. Len(queue) < MaxQueue
              BY <2>3, <6>1
            <7>2. Len(queue) \in Nat
              BY <1>1
            <7> QED
              BY <4>0, <7>1, <7>2
          <6>2. CASE e = "overflow"
            BY <2>3, <6>2 DEF QueueInv
          <6> QED
            BY <6>1, <6>2
        <5>2. Len(queue') = Len(queue) + 1 /\ Len(queue) \in Nat
          BY <1>1, <3>1
        <5> QED
          BY <4>0, <5>1, <5>2
      <4>2. Len(queue') = MaxQueue + 1 => \E i \in DOMAIN queue' : queue'[i] = "overflow"
        <5>1. Len(queue') = MaxQueue + 1 => e = "overflow"
          BY <4>0, <2>3, <1>1, <3>1
        <5>2. Len(queue) + 1 \in DOMAIN queue'
          BY <1>1, <3>1
        <5> QED
          BY <5>1, <5>2, <3>1
      <4>3. taken' + Cardinality(Files(queue', Len(queue'))) <= made'
        BY <2>1, <1>1, <3>4, <3>5 DEF QueueInv, Types
      <4> QED
        BY <4>1, <4>2, <4>3 DEF QueueInv
    <3> QED
      BY <2>1, <3>6, <3>7 DEF BatchInv, SentInv, InBatch
  <2> QED
    BY <1>2, <2>2, <2>3 DEF FileAccess
<1>3. ASSUME ReadFails PROVE IInv'
  <2>1. /\ pc = "read" /\ pc' = "loop" /\ queue # <<>> /\ queue' = Tail(queue)
        /\ UNCHANGED <<fad, stopping, eintr, made, batch, fds, taken, sent>>
    BY <1>3 DEF ReadFails
  <2>2. queue' = SubSeq(queue, 1 + 1, Len(queue)) /\ 1 \in 0 .. Len(queue)
    BY <2>1, <1>1, TailIsSubSeq, EmptySeq
  <2>3. /\ queue' \in Seq(K) /\ Len(queue') = Len(queue) - 1
        /\ Cardinality(Files(queue, 1)) + Cardinality(Files(queue', Len(queue')))
             <= Cardinality(Files(queue, Len(queue)))
    BY <2>2, <1>1, FilesSplit
  <2>4. /\ Cardinality(Files(queue, 1)) \in Nat
        /\ Cardinality(Files(queue', Len(queue'))) \in Nat
    BY <2>2, <2>3, <1>1, FilesCount
  <2>5. Types'
    BY <2>1, <2>3 DEF Types
  <2>6. QueueInv'
    <3>1. Len(queue') <= MaxQueue
      BY <2>3, <1>1, ConstantsAssumption DEF QueueInv
    <3>2. taken' + Cardinality(Files(queue', Len(queue'))) <= made'
      BY <2>1, <2>3, <2>4, <1>1 DEF QueueInv, Types
    <3>3. Len(queue') \in Nat /\ MaxQueue \in Nat
      BY <2>3, LenProperties, ConstantsAssumption
    <3> QED
      BY <3>1, <3>2, <3>3 DEF QueueInv
  <2> QED
    BY <2>1, <2>5, <2>6 DEF BatchInv, SentInv, InBatch
<1> QED
  BY <1>2, <1>3

\* The steps that move the buffer: the marker is skipped, the event at the head is
\* sent and closed, and a stop drops what is left.
LEMMA BufferStep == IInv /\ (Loop \/ Overflow \/ Send \/ CloseEvent) => IInv'
<1> SUFFICES ASSUME IInv, Loop \/ Overflow \/ Send \/ CloseEvent PROVE IInv'
  OBVIOUS
<1> USE DEF IInv
<1>1. /\ UNCHANGED <<fad, stopping, eintr, made, queue, taken>>
      /\ QueueInv' /\ Len(sent) \in Nat /\ taken \in Nat
  BY LenProperties DEF Loop, Overflow, Send, CloseEvent, kernelVars, QueueInv, Types
<1>2. CASE Loop
  <2>1. CASE ~stopping /\ batch # <<>>
    BY <1>1, <1>2, <2>1 DEF Loop, Types, BatchInv, SentInv, InBatch
  <2>2. CASE ~(~stopping /\ batch # <<>>)
    <3>1. /\ pc = "loop" /\ pc' = "check" /\ batch' = <<>> /\ UNCHANGED <<fds, sent>>
      BY <1>2, <2>2 DEF Loop
    <3>2. InBatch' = {} /\ (~stopping => InBatch = {})
      BY <2>2, <3>1 DEF InBatch
    <3>3. batch' \in Seq(Nat) /\ Len(batch') = 0 /\ Growing(batch')
      BY <3>1, EmptySeq DEF Growing
    <3>4. Types'
      BY <1>1, <3>1, <3>3 DEF Types
    <3>5. BatchInv'
      <4>1. ~stopping => fds' = InBatch'
        BY <3>1, <3>2 DEF BatchInv
      <4>2. stopping' = stopping /\ taken' = taken /\ Len(batch') <= BatchMax
        BY <1>1, <3>3, ConstantsAssumption
      <4> QED
        BY <3>1, <3>2, <3>3, <4>1, <4>2 DEF BatchInv
    <3>6. SentInv'
      BY <1>1, <3>1, <3>2 DEF SentInv
    <3> QED
      BY <1>1, <3>4, <3>5, <3>6
  <2> QED
    BY <2>1, <2>2
<1>3. CASE Overflow
  <2>1. /\ pc = "item" /\ pc' = "item" /\ batch # <<>> /\ Head(batch) = Marker
        /\ batch' = Tail(batch) /\ UNCHANGED <<fds, sent>>
    BY <1>3 DEF Overflow
  <2>2. /\ batch' \in Seq(Nat) /\ Len(batch') = Len(batch) - 1 /\ Growing(batch')
        /\ Numbers(batch') = Numbers(batch) \ {Marker}
    BY <2>1, Rest DEF Types, BatchInv
  <2>3. InBatch' = InBatch
    BY <2>2 DEF InBatch, Numbers
  <2>4. Types'
    BY <1>1, <2>1, <2>2 DEF Types
  <2>5. BatchInv'
    BY <1>1, <2>1, <2>2, <2>3, LenProperties, ConstantsAssumption DEF BatchInv, Types
  <2>6. SentInv'
    BY <1>1, <2>1, <2>3 DEF SentInv
  <2> QED
    BY <1>1, <2>4, <2>5, <2>6
<1>4. CASE Send
  <2>1. /\ pc = "send" /\ pc' = "close" /\ sent' = Append(sent, Head(batch))
        /\ UNCHANGED <<batch, fds>>
    BY <1>4 DEF Send
  <2>2. batch # <<>> /\ Head(batch) \in Nat /\ Len(sent) < taken
    BY <2>1, Rest DEF BatchInv, SentInv, Types
  <2>3. sent' \in Seq(Nat) /\ Len(sent') = Len(sent) + 1
    BY <2>1, <2>2, AppendProperties DEF Types
  <2>4. InBatch' = InBatch
    BY <2>1 DEF InBatch
  <2>5. Types'
    BY <1>1, <2>1, <2>3 DEF Types
  <2>6. BatchInv'
    BY <1>1, <2>1, <2>4 DEF BatchInv
  <2>7. SentInv'
    BY <1>1, <2>1, <2>2, <2>3, <2>4 DEF SentInv
  <2> QED
    BY <1>1, <2>5, <2>6, <2>7
<1>5. CASE CloseEvent
  <2>1. /\ pc = "close" /\ pc' = "item" /\ fds' = fds \ {Head(batch)}
        /\ batch' = Tail(batch) /\ UNCHANGED sent
        /\ batch # <<>> /\ Head(batch) # Marker /\ fds = InBatch
    BY <1>5 DEF CloseEvent, Closed, BatchInv
  <2>2. /\ batch' \in Seq(Nat) /\ Len(batch') = Len(batch) - 1 /\ Growing(batch')
        /\ Numbers(batch') = Numbers(batch) \ {Head(batch)}
        /\ Head(batch) \in Nat /\ Head(batch) \in Numbers(batch)
        /\ \A m \in Numbers(batch) : Head(batch) <= m
    BY <2>1, Rest DEF Types, BatchInv
  <2>3. InBatch' = InBatch \ {Head(batch)} /\ InBatch = Numbers(batch)
    BY <2>2 DEF InBatch, Numbers
  <2>4. Cardinality(fds') <= BatchMax
    <3>1. fds \in SUBSET (1 .. taken) /\ fds' \in SUBSET fds
      BY <2>1 DEF BatchInv
    <3>2. IsFiniteSet(1 .. taken)
      BY <1>1, FS_Interval
    <3>3. IsFiniteSet(fds) /\ IsFiniteSet(fds')
      BY <3>1, <3>2, FS_Subset
    <3>4. /\ Cardinality(fds') <= Cardinality(fds)
          /\ Cardinality(fds) \in Nat /\ Cardinality(fds') \in Nat
      BY <3>1, <3>3, FS_Subset, FS_CardinalityType
    <3> QED
      BY <3>4, ConstantsAssumption DEF BatchInv
  <2>5. Types'
    BY <1>1, <2>1, <2>2 DEF Types
  <2>6. BatchInv'
    BY <1>1, <2>1, <2>2, <2>3, <2>4, LenProperties, ConstantsAssumption DEF BatchInv, Types
  <2>7. SentInv'
    <3>1. ASSUME ~stopping PROVE InBatch' = (Len(sent) + 1) .. taken
      <4>1. InBatch = Len(sent) .. taken
        BY <2>1, <3>1 DEF SentInv
      <4>2. Head(batch) = Len(sent)
        BY <1>1, <2>2, <2>3, <4>1 DEF SentInv
      <4> QED
        BY <1>1, <2>3, <4>1, <4>2
    <3> QED
      BY <1>1, <2>1, <3>1 DEF SentInv
  <2> QED
    BY <1>1, <2>5, <2>6, <2>7
<1> QED
  BY <1>2, <1>3, <1>4, <1>5

\* Every other step of the reader and the signal only move the control.
LEMMA InvariantStep == IInv /\ [Next]_vars => IInv'
<1> SUFFICES ASSUME IInv, [Next]_vars PROVE IInv'
  OBVIOUS
<1> DEFINE Control == UNCHANGED <<made, queue, batch, fds, taken, sent>>
<1>q. ASSUME Control PROVE QueueInv' /\ InBatch' = InBatch /\ Growing(batch)' = Growing(batch)
  BY <1>q DEF IInv, QueueInv, InBatch, Growing, Files
<1> USE <1>q DEF IInv, Types, BatchInv, SentInv, kernelVars
<1>1. CASE Start
  BY <1>1 DEF Start
<1>2. CASE Mark
  BY <1>2 DEF Mark
<1>3. CASE Check
  <2>1. ~stopping => fds = {}
    BY <1>3 DEF Check, InBatch
  <2> QED
    BY <1>3, <2>1 DEF Check, Tested
<1>4. CASE PollReady
  BY <1>4 DEF PollReady
<1>5. CASE PollInterrupted
  BY <1>5 DEF PollInterrupted
<1>6. CASE Finish
  BY <1>6 DEF Finish
<1>7. CASE Item
  <2>1. ~stopping => InBatch = (Len(sent) + 1) .. taken
    BY <1>7 DEF Item
  <2> QED
    BY <1>7, <2>1 DEF Item
<1>8. CASE BatchDone
  <2>1. fds = {}
    BY <1>8 DEF BatchDone, InBatch
  <2> QED
    BY <1>8, <2>1 DEF BatchDone
<1>9. CASE Recheck
  <2>1. ~stopping => Head(batch) = Len(sent) + 1 /\ Len(sent) < taken
    <3> SUFFICES ASSUME ~stopping PROVE Head(batch) = Len(sent) + 1 /\ Len(sent) < taken
      OBVIOUS
    <3>1. InBatch = (Len(sent) + 1) .. taken /\ batch # <<>> /\ Head(batch) # Marker
      BY <1>9 DEF Recheck
    <3>2. /\ Head(batch) \in Numbers(batch) /\ \A m \in Numbers(batch) : Head(batch) <= m
          /\ Head(batch) \in Nat /\ Len(sent) \in Nat /\ taken \in Nat
      BY <3>1, Rest, LenProperties
    <3>3. Head(batch) \in (Len(sent) + 1) .. taken
      BY <3>1, <3>2 DEF InBatch, Numbers
    <3>4. Len(sent) + 1 \in Numbers(batch)
      <4>1. Len(sent) + 1 \in (Len(sent) + 1) .. taken
        BY <3>2, <3>3
      <4> QED
        BY <3>1, <4>1 DEF InBatch, Numbers
    <3> QED
      BY <3>2, <3>3, <3>4
  <2> QED
    BY <1>9, <2>1 DEF Recheck, Rechecked
<1>10. CASE Again
  BY <1>10 DEF Again
<1>11. CASE PollFails
  BY <1>11 DEF PollFails
<1>12. CASE VersionMismatch
  BY <1>12 DEF VersionMismatch
<1>13. CASE Signal
  BY <1>13 DEF Signal
<1>14. CASE UNCHANGED vars
  BY <1>14 DEF vars
<1> QED
  BY <1>1, <1>2, <1>3, <1>4, <1>5, <1>6, <1>7, <1>8, <1>9, <1>10, <1>11, <1>12, <1>13,
     <1>14, ReadStep, KernelStep, BufferStep DEF Next, Reader

LEMMA Invariance == Spec => []IInv
  BY InitInvariant, InvariantStep, PTL DEF Spec

(* ------------------------------- theorems ------------------------------- *)

\* The reader, the kernel's queue and the buffer keep their types, the queue exceeds
\* its limit by the overflow marker only, and no more is taken than was made.
THEOREM TypeCorrect == Spec => []TypeOK
<1>1. IInv => TypeOK
  <2> SUFFICES ASSUME IInv PROVE TypeOK
    OBVIOUS
  <2>1. taken <= made
    <3>1. Len(queue) \in Nat /\ taken \in Nat /\ made \in Nat
      BY LenProperties DEF IInv, Types
    <3>2. Cardinality(Files(queue, Len(queue))) \in Nat
      BY <3>1, FilesCount
    <3> QED
      BY <3>1, <3>2 DEF IInv, QueueInv
  <2>2. taken \in 0 .. made
    BY <2>1 DEF IInv, Types
  <2> QED
    BY <2>2 DEF IInv, Types, QueueInv, BatchInv, TypeOK
<1> QED
  BY <1>1, Invariance, PTL

\* Whatever the size of a batch, every descriptor is closed before the next batch,
\* and a stop leaks no more than the batch it meets.
THEOREM DescriptorsClosedAlways == Spec => []DescriptorsClosed
<1>1. IInv => DescriptorsClosed
  BY DEF IInv, BatchInv, DescriptorsClosed
<1> QED
  BY <1>1, Invariance, PTL

(* ------------------------- the promise of a source ---------------------- *)

LEMMA InitRefines == Init => Source!Init
  BY DEF Init, Source!Init, Phase, Ended

LEMMA StepRefines == IInv /\ [Next]_vars => [Source!Next]_(Source!vars)
<1> SUFFICES ASSUME IInv, [Next]_vars PROVE [Source!Next]_(Source!vars)
  OBVIOUS
<1> USE DEF IInv, Types, Phase, Ended, kernelVars
<1>s. ASSUME UNCHANGED <<taken, sent, Phase>> PROVE [Source!Next]_(Source!vars)
  BY <1>s DEF Source!vars
<1>e. ASSUME Phase \in {"running", "closed"}, Phase' = "ended", UNCHANGED <<taken, sent>>
      PROVE  [Source!Next]_(Source!vars)
  BY <1>e DEF Source!Next, Source!End
<1>1. CASE Start
  <2>1. CASE pc' = "mark"
    BY <1>1, <2>1, <1>s DEF Start
  <2>2. CASE pc' = "failed"
    BY <1>1, <2>2, <1>e DEF Start
  <2> QED
    BY <1>1, <2>1, <2>2 DEF Start
<1>2. CASE Mark
  <2>1. CASE pc' = "check"
    BY <1>2, <2>1, <1>s DEF Mark
  <2>2. CASE pc' = "failed"
    BY <1>2, <2>2, <1>e DEF Mark
  <2> QED
    BY <1>2, <2>1, <2>2 DEF Mark
<1>3. CASE PollFails
  <2>1. CASE pc' = "failed"
    BY <1>3, <2>1, <1>e DEF PollFails
  <2>2. CASE pc' # "failed"
    BY <1>3, <2>2, <1>s DEF PollFails
  <2> QED
    BY <2>1, <2>2
<1>4. CASE Finish \/ VersionMismatch
  BY <1>4, <1>e DEF Finish, VersionMismatch
<1>5. CASE Read
  <2>1. taken' \in Nat /\ taken' >= taken /\ Phase # "ended" /\ UNCHANGED <<sent, Phase>>
    <3>1. /\ pc = "read" /\ pc' = "loop" /\ UNCHANGED <<stopping, sent>>
          /\ Types'
      BY <1>5, ReadStep DEF Read
    <3>2. taken' >= taken
      <4>1. CASE taken' = taken
        BY <4>1
      <4>2. ASSUME NEW n \in Fits,
                   taken' = taken + Cardinality({k \in 1 .. n : queue[k] = "file"})
            PROVE  taken' >= taken
        <5>1. taken' = taken + Cardinality(Files(queue, n)) /\ n \in Nat
          BY <4>2 DEF Files, Fits
        <5>2. Cardinality(Files(queue, n)) \in Nat
          BY <5>1, FilesCount
        <5> QED
          BY <5>1, <5>2
      <4> QED
        BY <1>5, <4>1, <4>2 DEF Read
    <3> QED
      BY <3>1, <3>2
  <2> QED
    BY <2>1 DEF Source!Next, Source!Take
\* A flag that goes up after the test before the send makes the event a late one.
<1>6. CASE Send
  <2>1. /\ pc = "send" /\ pc' = "close" /\ sent' = Append(sent, Len(sent) + 1)
        /\ Len(sent) < taken /\ UNCHANGED <<stopping, taken>>
    BY <1>6 DEF Send, SentInv
  <2>2. Source!PutNext
    BY <2>1 DEF Source!PutNext
  <2>3. CASE stopping
    BY <2>1, <2>2, <2>3 DEF Source!DeliverLate, Source!Next
  <2>4. CASE ~stopping
    BY <2>1, <2>2, <2>4 DEF Source!Deliver, Source!Next
  <2> QED
    BY <2>3, <2>4
<1>7. CASE Signal
  <2>1. CASE pc \in {"done", "failed"}
    BY <1>7, <2>1, <1>s DEF Signal
  <2>2. CASE pc \notin {"done", "failed"}
    BY <1>7, <2>2 DEF Signal, Source!Next, Source!Stop
  <2> QED
    BY <2>1, <2>2
<1>8. CASE Check
  BY <1>8, <1>s DEF Check, Tested
<1>9. CASE PollReady \/ PollInterrupted
  BY <1>9, <1>s DEF PollReady, PollInterrupted
<1>10. CASE ReadFails \/ Loop
  BY <1>10, <1>s DEF ReadFails, Loop
<1>11. CASE Item \/ Overflow \/ BatchDone
  BY <1>11, <1>s DEF Item, Overflow, BatchDone
<1>12. CASE Recheck \/ CloseEvent \/ Again
  BY <1>12, <1>s DEF Recheck, Rechecked, CloseEvent, Again
<1>13. CASE FileAccess
  BY <1>13, <1>s DEF FileAccess
<1>14. CASE UNCHANGED vars
  BY <1>14, <1>s DEF vars
<1> QED
  BY <1>1, <1>2, <1>3, <1>4, <1>5, <1>6, <1>7, <1>8, <1>9, <1>10, <1>11, <1>12, <1>13,
     <1>14 DEF Next, Reader

\* Batches, markers and failed reads change nothing of the promise: what the reader
\* sends is what it took, in order, and at most one event after its stop flag.
THEOREM ImplementsSource == Spec => Source!SafeSpec
<1>1. Init => Source!Init
  BY InitRefines
<1>2. IInv /\ [Next]_vars => [Source!Next]_(Source!vars)
  BY StepRefines
<1> QED
  BY <1>1, <1>2, Invariance, PTL DEF Spec, Source!SafeSpec

(* ------------------------------- the stop ------------------------------- *)

LEMMA StopStep == IInv /\ stopping /\ [Next]_vars => UNCHANGED readerVars \/ StepsLeft' < StepsLeft
<1> SUFFICES ASSUME IInv, stopping, [Next]_vars
             PROVE  UNCHANGED readerVars \/ StepsLeft' < StepsLeft
  OBVIOUS
<1> USE DEF StepsLeft
<1>1. Len(batch) \in Nat
  BY LenProperties DEF IInv, Types
<1>2. CASE Start \/ Mark
  <2>1. \/ pc = "init" /\ pc' \in {"mark", "failed"}
        \/ pc = "mark" /\ pc' \in {"check", "failed"}
    BY <1>2 DEF Start, Mark
  <2> QED
    BY <2>1
<1>3. CASE Check
  BY <1>3 DEF Check, Tested
<1>4. CASE PollReady \/ PollInterrupted \/ PollFails
  <2>1. pc = "poll" /\ pc' \in {"read", "finish"}
    BY <1>4 DEF PollReady, PollInterrupted, PollFails
  <2> QED
    BY <2>1
<1>5. CASE Finish
  BY <1>5 DEF Finish
<1>6. CASE Read \/ ReadFails
  <2>1. pc = "read" /\ pc' = "loop"
    BY <1>6 DEF Read, ReadFails
  <2> QED
    BY <2>1
<1>7. CASE Loop
  BY <1>7 DEF Loop
<1>8. CASE Item \/ VersionMismatch \/ BatchDone
  <2>1. pc = "item" /\ batch' = batch /\ pc' \in {"recheck", "failed", "again"}
    BY <1>8 DEF Item, VersionMismatch, BatchDone
  <2> QED
    BY <1>1, <2>1
<1>9. CASE Overflow \/ CloseEvent
  <2>1. batch # <<>> /\ batch' = Tail(batch) /\ pc \in {"item", "close"} /\ pc' = "item"
    BY <1>9 DEF Overflow, CloseEvent, IInv, BatchInv
  <2>2. Len(batch') = Len(batch) - 1
    BY <2>1, HeadTailProperties DEF IInv, Types
  <2> QED
    BY <1>1, <2>1, <2>2
<1>10. CASE Recheck \/ Send
  <2>1. pc \in {"recheck", "send"} /\ pc' = "close" /\ batch' = batch
    BY <1>10 DEF Recheck, Rechecked, Send
  <2> QED
    BY <1>1, <2>1
<1>11. CASE Again
  BY <1>11 DEF Again
<1>12. CASE FileAccess \/ Signal
  BY <1>12 DEF FileAccess, Signal, kernelVars, readerVars
<1>13. CASE UNCHANGED vars
  BY <1>13 DEF vars, readerVars
<1> QED
  BY <1>2, <1>3, <1>4, <1>5, <1>6, <1>7, <1>8, <1>9, <1>10, <1>11, <1>12, <1>13
     DEF Next, Reader

\* After the flag the reader needs at most three steps for each event of its batch
\* and five more, whatever the kernel queues meanwhile.
THEOREM StopBoundedAlways == Spec => StopBounded
<1>1. IInv /\ [Next]_vars => [stopping => UNCHANGED readerVars \/ StepsLeft' < StepsLeft]_vars
  BY StopStep
<1> QED
  BY <1>1, Invariance, PTL DEF Spec, StopBounded
=============================================================================
