--------------------------- MODULE BroadcastProofs ---------------------------
(***************************************************************************)
(* The vector of client descriptors, for any clients, descriptors and      *)
(* messages: its types, and that it is the set of connected clients.       *)
(***************************************************************************)
EXTENDS Broadcast, SequenceTheorems, FiniteSetTheorems, TLAPS

(* ------------------------------ std::remove ----------------------------- *)

\* The places that stay have ranks from one up to their number.
LEMMA Ranks ==
  ASSUME NEW n \in Nat, NEW P \in SUBSET (1 .. n)
  PROVE  /\ Cardinality(P) \in 0 .. n
         /\ Cardinality(P) = n <=> P = 1 .. n
         /\ \A j \in P : Rank(P, j) \in 1 .. Cardinality(P)
         /\ \A i, j \in P : Rank(P, i) = Rank(P, j) => i = j
         /\ \A i \in 1 .. Cardinality(P) : \E j \in P : Rank(P, j) = i
<1> DEFINE c == Cardinality(P)
           upto(i) == {j \in P : j <= i}
           f == [j \in P |-> Rank(P, j)]
<1>1. IsFiniteSet(1 .. n) /\ Cardinality(1 .. n) = n
  BY FS_Interval
<1>2. IsFiniteSet(P) /\ c \in Nat /\ c <= n /\ (c = n => P = 1 .. n)
  BY <1>1, FS_Subset, FS_CardinalityType
<1>3. \A i : IsFiniteSet(upto(i)) /\ Cardinality(upto(i)) \in Nat /\ Cardinality(upto(i)) <= c
  <2> TAKE i
  <2>1. upto(i) \in SUBSET P
    OBVIOUS
  <2> QED
    BY <2>1, <1>2, FS_Subset, FS_CardinalityType
<1>4. \A j \in P : Rank(P, j) \in 1 .. c
  <2> TAKE j \in P
  <2>1. j \in upto(j)
    OBVIOUS
  <2>2. Cardinality(upto(j)) # 0
    BY <2>1, <1>3, FS_EmptySet
  <2>3. Rank(P, j) = Cardinality(upto(j))
    BY DEF Rank
  <2> HIDE DEF upto
  <2> QED
    BY <2>2, <2>3, <1>2, <1>3
<1>5. ASSUME NEW i \in P, NEW j \in P, i < j
      PROVE  Rank(P, i) < Rank(P, j)
  <2>1. upto(i) \in SUBSET upto(j)
    <3>1. i \in Nat /\ j \in Nat
      OBVIOUS
    <3>2. ASSUME NEW k \in P, k <= i PROVE k <= j
      <4>1. k \in Nat
        OBVIOUS
      <4> QED
        BY <3>1, <3>2, <4>1, <1>5
    <3> QED
      BY <3>2
  <2>2. j \in upto(j) /\ j \notin upto(i)
    BY <1>5
  <2>3. Cardinality(upto(i)) <= Cardinality(upto(j)) /\ Cardinality(upto(i)) # Cardinality(upto(j))
    BY <2>1, <2>2, <1>3, FS_Subset
  <2> QED
    BY <2>3, <1>3 DEF Rank
<1>6. \A i, j \in P : Rank(P, i) = Rank(P, j) => i = j
  <2> TAKE i, j \in P
  <2>1. i < j \/ i = j \/ j < i
    OBVIOUS
  <2>2. Rank(P, i) \in Nat /\ Rank(P, j) \in Nat
    BY <1>4
  <2> QED
    BY <2>1, <2>2, <1>5
<1>7. f \in Injection(P, 1 .. c)
  BY <1>4, <1>6 DEF Injection, IsInjective
<1>8. IsFiniteSet(1 .. c) /\ Cardinality(1 .. c) = c
  BY <1>2, FS_Interval
<1>9. f \in Surjection(P, 1 .. c)
  BY <1>7, <1>8, FS_Injection
<1>10. \A i \in 1 .. c : \E j \in P : Rank(P, j) = i
  BY <1>9 DEF Surjection
<1> QED
  BY <1>1, <1>2, <1>4, <1>6, <1>10

\* What an erase leaves in the slots: the entries that differ from cur, each where
\* it is the i-th of them.
Others == {i \in 1 .. size : slot[i] # cur}
Ith(i) == CHOOSE j \in Others : Rank(Others, j) = i

LEMMA Moved ==
  ASSUME TypeOK
  PROVE  /\ Cardinality(Others) \in 0 .. size
         /\ Cardinality(Others) = size <=> Others = 1 .. size
         /\ \A i \in 1 .. Cardinality(Others) : Ith(i) \in Others /\ Rank(Others, Ith(i)) = i
         /\ \A j \in Others : \E i \in 1 .. Cardinality(Others) : Ith(i) = j
<1>1. size \in Nat /\ Others \in SUBSET (1 .. size)
  BY LenProperties DEF TypeOK, Others, Capacity
<1>2. /\ Cardinality(Others) \in 0 .. size
      /\ Cardinality(Others) = size <=> Others = 1 .. size
      /\ \A j \in Others : Rank(Others, j) \in 1 .. Cardinality(Others)
      /\ \A i, j \in Others : Rank(Others, i) = Rank(Others, j) => i = j
      /\ \A i \in 1 .. Cardinality(Others) : \E j \in Others : Rank(Others, j) = i
  BY <1>1, Ranks
<1> HIDE DEF Others
<1>3. \A i \in 1 .. Cardinality(Others) : Ith(i) \in Others /\ Rank(Others, Ith(i)) = i
  BY <1>2 DEF Ith
<1>4. \A j \in Others : Ith(Rank(Others, j)) = j
  BY <1>2, <1>3
<1> QED
  BY <1>2, <1>3, <1>4

(* --------------------------------- types -------------------------------- *)

\* Where the listener or a pass has a descriptor in hand, it is one, and a pass
\* is at a slot of its loop while it erases.
LocalsInv ==
  /\ lpc \in {"load", "store"} => lfd \in Fds
  /\ lsize <= Capacity
  /\ spc \in {"remove", "shrink", "close"} => at <= last /\ cur \in Fds

TypeInv == TypeOK /\ LocalsInv

\* A vector has its slots from one on.
LEMMA Slots ==
  ASSUME TypeOK
  PROVE  /\ Capacity \in Nat /\ DOMAIN slot = 1 .. Capacity
         /\ \A i \in 1 .. Capacity : slot[i] \in Fds
         /\ size \in Nat /\ size <= Capacity
  BY LenProperties, ElementOfSeq DEF TypeOK, Capacity

\* A sequence is what has places from one on.
LEMMA Listed ==
  ASSUME NEW S, NEW n \in Nat, NEW f, f \in [1 .. n -> S]
  PROVE  f \in Seq(S) /\ Len(f) = n
  OBVIOUS

\* The vector starts empty, without a block.
LEMMA InitTypes == Init => TypeInv
<1> SUFFICES ASSUME Init PROVE TypeInv
  OBVIOUS
<1>1. slot = <<>> /\ roster = <<>> /\ Capacity = 0
  BY DEF Init, Capacity
<1>2. slot \in Seq(Fds) /\ roster \in Seq(Clients \union {Nobody, Other})
  BY <1>1, EmptySeq
<1>3. /\ erase \in [block : 0 .. Capacity, size : Nat, kept : Nat]
      /\ erase.size \in erase.kept .. erase.block
  BY <1>1 DEF Init, NoErase
<1>4. LocalsInv
  BY <1>1 DEF Init, LocalsInv
<1>5. /\ owner \in [Fds -> Clients \union {Nobody, Other}]
      /\ peer \in [Clients -> {"new", "up", "down"}] /\ served \in [Clients -> Nat]
  BY DEF Init
<1>6. /\ size \in 0 .. Capacity /\ block \in 0 .. Capacity /\ last \in 0 .. block
      /\ at \in 1 .. last + 1 /\ lsize \in Nat /\ sends \in 0 .. MaxSends
  BY <1>1, ConstantsAssumption DEF Init
<1>7. /\ stopping \in BOOLEAN /\ eintr \in BOOLEAN /\ raced \in BOOLEAN /\ misclosed \in BOOLEAN
      /\ lpc = "setup" /\ spc = "idle" /\ lfd = Nobody /\ cur = Nobody /\ failed \subseteq Clients
  BY DEF Init
<1>8. TypeOK
  BY <1>2, <1>3, <1>5, <1>6, <1>7 DEF TypeOK
<1> QED
  BY <1>4, <1>8 DEF TypeInv

\* push_back into the block there is.
LEMMA PutTypes == TypeInv /\ Put => TypeInv' /\ Capacity' = Capacity
<1> SUFFICES ASSUME TypeInv, Put PROVE TypeInv' /\ Capacity' = Capacity
  OBVIOUS
<1>1. /\ lpc = "store" /\ lsize < Capacity /\ lfd \in Fds /\ lsize \in Nat
      /\ slot' = [slot EXCEPT ![lsize + 1] = lfd] /\ size' = lsize + 1
      /\ lpc' = "test" /\ lfd' = Nobody /\ lsize' = 0
      /\ raced' = (raced \/ size # lsize)
      /\ UNCHANGED <<kernel, stopping, eintr, sender, roster, served, failed, misclosed>>
  BY DEF Put, PutReturns, HasRoom, TypeInv, TypeOK, LocalsInv
<1>2. slot \in [1 .. Capacity -> Fds] /\ Capacity \in Nat
  BY Slots DEF TypeInv, TypeOK, Capacity
<1>3. slot' \in [1 .. Capacity -> Fds]
  BY <1>1, <1>2
<1>4. slot' \in Seq(Fds) /\ Capacity' = Capacity
  BY <1>2, <1>3, Listed DEF Capacity
<1>5. size' \in 0 .. Capacity'
  BY <1>1, <1>2, <1>4
<1> QED
  BY <1>1, <1>2, <1>4, <1>5 DEF TypeInv, TypeOK, LocalsInv, kernel, sender

\* push_back into a larger block.
LEMMA GrowTypes == TypeInv /\ Grow => TypeInv' /\ Capacity <= Capacity'
<1> SUFFICES ASSUME TypeInv, Grow PROVE TypeInv' /\ Capacity <= Capacity'
  OBVIOUS
<1> DEFINE n == IF Capacity = 0 THEN 1 ELSE 2 * Capacity
<1>1. /\ lpc = "store" /\ lsize = Capacity /\ lfd \in Fds
      /\ slot' = [i \in 1 .. n |-> IF i <= lsize THEN slot[i] ELSE lfd] /\ size' = lsize + 1
      /\ lpc' = "test" /\ lfd' = Nobody /\ lsize' = 0
      /\ raced' = (raced \/ size # lsize \/ spc # "idle")
      /\ UNCHANGED <<kernel, stopping, eintr, sender, roster, served, failed, misclosed>>
  BY DEF Grow, PutReturns, TypeInv, TypeOK, LocalsInv
<1>2. slot \in [1 .. Capacity -> Fds] /\ Capacity \in Nat
  BY Slots DEF TypeInv, TypeOK, Capacity
<1>3. n \in Nat /\ Capacity + 1 <= n
  BY <1>2
<1> HIDE DEF n
<1>4. slot' \in [1 .. n -> Fds]
  BY <1>1, <1>2
<1>5. slot' \in Seq(Fds) /\ Capacity' = n
  BY <1>3, <1>4, Listed DEF Capacity
<1>6. size' \in 0 .. Capacity' /\ Capacity \in 0 .. Capacity'
  BY <1>1, <1>2, <1>3, <1>5
<1>7. /\ block' \in 0 .. Capacity'
      /\ erase' \in [block : 0 .. Capacity', size : Nat, kept : Nat]
  <2>1. /\ block \in 0 .. Capacity /\ erase \in [block : 0 .. Capacity, size : Nat, kept : Nat]
        /\ block' = block /\ erase' = erase
    BY <1>1 DEF TypeInv, TypeOK, sender
  <2>2. \A i \in 0 .. Capacity : i \in 0 .. Capacity'
    BY <1>2, <1>3, <1>5
  <2> QED
    BY <2>1, <2>2
<1>8. LocalsInv'
  <2>1. lpc' \notin {"load", "store"} /\ lsize' <= Capacity'
    BY <1>1, <1>3, <1>5
  <2>2. UNCHANGED <<spc, at, last, cur>>
    BY <1>1 DEF sender
  <2> QED
    BY <2>1, <2>2 DEF TypeInv, LocalsInv
<1>9. raced' \in BOOLEAN
  BY <1>1 DEF TypeInv, TypeOK
<1> QED
  BY <1>1, <1>2, <1>5, <1>6, <1>7, <1>8, <1>9 DEF TypeInv, TypeOK, kernel, sender

\* std::remove stays within its block.
LEMMA EraseTypes ==
  ASSUME TypeInv, Erase
  PROVE  /\ TypeInv' /\ Capacity' = Capacity
         /\ erase' = [block |-> Capacity, size |-> size, kept |-> Cardinality(Others)]
         /\ \A i \in 1 .. Capacity : slot'[i] = IF i <= Cardinality(Others) THEN slot[Ith(i)]
                                                                           ELSE slot[i]
         /\ spc = "remove" /\ spc' = "shrink"
         /\ UNCHANGED <<size, kernel, stopping, listener, at, last, block, cur, sends, history>>
<1> DEFINE kept == Cardinality(Others)
<1>1. /\ slot' = [i \in 1 .. Capacity |-> IF i <= kept THEN slot[Ith(i)] ELSE slot[i]]
      /\ erase' = [block |-> Capacity, size |-> size, kept |-> kept]
      /\ spc = "remove" /\ spc' = "shrink"
      /\ UNCHANGED <<size, kernel, stopping, listener, at, last, block, cur, sends, history>>
  BY DEF Erase, Others, Ith
<1>2. /\ kept \in 0 .. size
      /\ \A i \in 1 .. kept : Ith(i) \in Others
  BY Moved DEF TypeInv
<1> HIDE DEF kept
<1>3. /\ slot \in [1 .. Capacity -> Fds] /\ Capacity \in Nat /\ size \in Nat /\ size <= Capacity
      /\ \A i \in 1 .. Capacity : slot[i] \in Fds
  BY Slots DEF TypeInv, TypeOK, Capacity
<1>4. \A i \in 1 .. kept : Ith(i) \in 1 .. Capacity
  BY <1>2, <1>3 DEF Others
<1>5. slot' \in [1 .. Capacity -> Fds]
  BY <1>1, <1>2, <1>3, <1>4
<1>6. slot' \in Seq(Fds) /\ Capacity' = Capacity
  BY <1>3, <1>5, Listed DEF Capacity
<1>7. /\ erase' \in [block : 0 .. Capacity, size : Nat, kept : Nat]
      /\ erase'.size \in erase'.kept .. erase'.block
  BY <1>1, <1>2, <1>3
<1>8. LocalsInv'
  BY <1>1, <1>6 DEF TypeInv, LocalsInv, listener
<1>9. TypeOK'
  BY <1>1, <1>3, <1>6, <1>7 DEF TypeInv, TypeOK, kernel, listener, history
<1> QED
  BY <1>1, <1>6, <1>8, <1>9 DEF kept, TypeInv

\* The listener's other steps leave the vector and the pass alone.
LEMMA ListenTypes ==
  ASSUME TypeInv, Setup \/ Test \/ Accept \/ AcceptInterrupted \/ AcceptFails \/ Load
  PROVE  TypeInv'
<1>1. UNCHANGED <<slot, size, sender, history, stopping>>
  BY DEF Setup, Test, Accept, AcceptInterrupted, AcceptFails, Load, vector
<1>2. /\ size \in Nat /\ size <= Capacity /\ Capacity \in Nat /\ lsize \in Nat /\ lsize <= Capacity
  BY Slots DEF TypeInv, TypeOK, LocalsInv
<1>3. /\ owner' \in [Fds -> Clients \union {Nobody, Other}]
      /\ peer' \in [Clients -> {"new", "up", "down"}]
      /\ lpc' \in {"setup", "test", "accept", "load", "store", "ended", "failed", "destroyed"}
      /\ eintr' \in BOOLEAN
  <2>1. CASE Accept
    BY <2>1 DEF Accept, TypeInv, TypeOK, Free
  <2>2. CASE Setup \/ Test \/ AcceptInterrupted \/ AcceptFails \/ Load
    BY <2>2 DEF Setup, Test, Tested, AcceptInterrupted, AcceptFails, Load, kernel, TypeInv, TypeOK
  <2> QED
    BY <2>1, <2>2
<1>4. lsize' \in Nat /\ lsize' <= Capacity
  BY <1>2 DEF Setup, Test, Accept, AcceptInterrupted, AcceptFails, Load
<1>5. lfd' \in Fds \union {Nobody} /\ (lpc' \in {"load", "store"} => lfd' \in Fds)
  <2>1. CASE Accept
    BY <2>1 DEF Accept, Free
  <2>2. CASE Load
    BY <2>2 DEF Load, TypeInv, TypeOK, LocalsInv
  <2>3. CASE Setup \/ Test \/ AcceptInterrupted \/ AcceptFails
    BY <2>3 DEF Setup, Test, Tested, AcceptInterrupted, AcceptFails, TypeInv, TypeOK
  <2> QED
    BY <2>1, <2>2, <2>3
<1>6. Capacity' = Capacity
  BY <1>1 DEF Capacity
<1>7. LocalsInv'
  BY <1>1, <1>4, <1>5, <1>6 DEF TypeInv, LocalsInv, sender
<1>8. TypeOK'
  BY <1>1, <1>3, <1>4, <1>5, <1>6 DEF TypeInv, TypeOK, sender, history
<1> QED
  BY <1>7, <1>8 DEF TypeInv

\* A pass begins at the first slot, over at most the live ones.
LEMMA BeginTypes == TypeInv /\ Begin => TypeInv'
<1> SUFFICES ASSUME TypeInv, Begin PROVE TypeInv'
  OBVIOUS
<1>1. /\ size \in Nat /\ size <= Capacity /\ Capacity \in Nat
      /\ \A i \in 1 .. Capacity : slot[i] \in Fds
  BY Slots DEF TypeInv
<1>2. /\ sends < MaxSends /\ sends' = sends + 1 /\ spc' = "loop" /\ at' = 1 /\ last' = size
      /\ block' = Capacity /\ roster' = [i \in 1 .. size |-> owner[slot[i]]]
      /\ UNCHANGED <<vector, kernel, stopping, listener, cur, erase, served, failed, raced,
                     misclosed>>
  BY DEF Begin, End
<1>3. Capacity' = Capacity
  BY <1>2 DEF Capacity, vector
<1>4. roster' \in Seq(Clients \union {Nobody, Other})
  <2>1. \A i \in 1 .. size : owner[slot[i]] \in Clients \union {Nobody, Other}
    <3>1. \A fd \in Fds : owner[fd] \in Clients \union {Nobody, Other}
      BY DEF TypeInv, TypeOK
    <3> QED
      BY <1>1, <3>1
  <2>2. roster' \in [1 .. size -> Clients \union {Nobody, Other}]
    BY <1>2, <2>1
  <2> QED
    BY <1>1, <2>2, Listed
<1>5. sends' \in 0 .. MaxSends
  BY <1>2, ConstantsAssumption DEF TypeInv, TypeOK
<1>6. block' \in 0 .. Capacity' /\ last' \in 0 .. block' /\ at' \in 1 .. last' + 1
  BY <1>1, <1>2, <1>3
<1>7. LocalsInv'
  BY <1>2, <1>3 DEF TypeInv, LocalsInv, listener
<1>8. TypeOK'
  BY <1>2, <1>3, <1>4, <1>5, <1>6 DEF TypeInv, TypeOK, vector, kernel, listener
<1> QED
  BY <1>7, <1>8 DEF TypeInv

\* What a pass finds in its slot is a descriptor.
LEMMA FetchedFds ==
  ASSUME TypeInv, at <= last
  PROVE  Fetched \subseteq Fds
<1>1. \A i \in 1 .. Capacity : slot[i] \in Fds
  BY Slots DEF TypeInv
<1>2. at \in 1 .. block /\ block \in Nat
  BY Slots DEF TypeInv, TypeOK
<1> QED
  BY <1>1, <1>2 DEF Fetched

\* The loop moves by one slot, or stays where it has to erase, or is over.
LEMMA SendTypes ==
  ASSUME TypeInv, SendOne \/ SendFails \/ Return
  PROVE  TypeInv'
<1>1. UNCHANGED <<vector, kernel, stopping, listener, erase, sends, raced, misclosed>>
  BY DEF SendOne, SendFails, Return
<1>2. Capacity' = Capacity
  BY <1>1 DEF Capacity, vector
<1>3. /\ at \in Nat /\ last \in Nat
      /\ block \in 0 .. Capacity /\ last \in 0 .. block /\ at \in 1 .. last + 1
      /\ Capacity \in Nat
  BY Slots DEF TypeInv, TypeOK
<1>4. CASE SendOne
  <2>1. /\ at <= last /\ at' = at + 1 /\ spc = "loop"
        /\ UNCHANGED <<spc, last, block, cur, roster, failed>>
    BY <1>4 DEF SendOne
  <2>2. at' \in 1 .. last + 1
    BY <1>3, <2>1
  <2>3. served' \in [Clients -> Nat]
    <3>1. PICK c \in Fds : owner[c] \in Clients /\ served' = [served EXCEPT ![owner[c]] = @ + 1]
      BY <1>4, <2>1, FetchedFds DEF SendOne, Stands
    <3> QED
      BY <3>1 DEF TypeInv, TypeOK
  <2>4. LocalsInv'
    BY <1>1, <1>2, <2>1 DEF TypeInv, LocalsInv, listener
  <2>5. TypeOK'
    BY <1>1, <1>2, <2>1, <2>2, <2>3 DEF TypeInv, TypeOK, vector, kernel, listener
  <2> QED
    BY <2>4, <2>5 DEF TypeInv
<1>5. CASE SendFails
  <2>1. /\ at <= last /\ UNCHANGED <<at, last, block, roster, served>> /\ spc' = "remove"
        /\ cur' \in Fds /\ failed' \subseteq failed \union Clients
    BY <1>5, FetchedFds DEF SendFails
  <2>2. LocalsInv'
    BY <1>1, <1>2, <2>1 DEF TypeInv, LocalsInv, listener
  <2>3. TypeOK'
    BY <1>1, <1>2, <2>1 DEF TypeInv, TypeOK, vector, kernel, listener
  <2> QED
    BY <2>2, <2>3 DEF TypeInv
<1>6. CASE Return
  <2>1. /\ spc' = "idle" /\ at' = 1 /\ last' = 0 /\ block' = 0 /\ cur' = cur
        /\ roster' = <<>> /\ failed' = {} /\ served' = [c \in Clients |-> 0]
    BY <1>6 DEF Return
  <2>2. roster' \in Seq(Clients \union {Nobody, Other}) /\ served' \in [Clients -> Nat]
    BY <2>1, EmptySeq
  <2>3. at' \in 1 .. last' + 1 /\ last' \in 0 .. block' /\ block' \in 0 .. Capacity
    BY <1>3, <2>1
  <2> HIDE <1>6
  <2>4. LocalsInv'
    BY <1>1, <1>2, <2>1 DEF TypeInv, LocalsInv, listener
  <2>5. spc' = "idle" /\ failed' \subseteq Clients /\ cur' = cur
    BY <2>1
  <2>6. TypeOK'
    BY <1>1, <1>2, <2>2, <2>3, <2>5 DEF TypeInv, TypeOK, vector, kernel, listener
  <2> QED
    BY <2>4, <2>6 DEF TypeInv
<1> QED
  BY <1>4, <1>5, <1>6

\* The end's store stays within the block the erase began in.
LEMMA ShrinkTypes == TypeInv /\ Shrink => TypeInv'
<1> SUFFICES ASSUME TypeInv, Shrink PROVE TypeInv'
  OBVIOUS
<1>1. /\ spc = "shrink" /\ raced' = (raced \/ erase.size # size)
      /\ \/ erase.block = Capacity /\ size' = erase.kept /\ spc' = "close"
         \/ spc' = "crashed" /\ size' = size
      /\ UNCHANGED <<slot, kernel, stopping, listener, at, last, block, cur, erase, sends,
                     roster, served, failed, misclosed>>
  BY DEF Shrink
<1>2. Capacity' = Capacity
  BY <1>1 DEF Capacity
<1>3. size' \in 0 .. Capacity
  BY <1>1, Slots DEF TypeInv, TypeOK
<1>4. LocalsInv'
  BY <1>1, <1>2 DEF TypeInv, LocalsInv, listener
<1>5. raced' \in BOOLEAN /\ spc' \in {"close", "crashed"}
  BY <1>1 DEF TypeInv, TypeOK
<1>6. TypeOK'
  BY <1>1, <1>2, <1>3, <1>5 DEF TypeInv, TypeOK, kernel, listener
<1> QED
  BY <1>4, <1>6 DEF TypeInv

\* The loop goes on at the next slot.
LEMMA CloseTypes == TypeInv /\ Close => TypeInv'
<1> SUFFICES ASSUME TypeInv, Close PROVE TypeInv'
  OBVIOUS
<1>1. /\ spc = "close" /\ owner' = [owner EXCEPT ![cur] = Nobody]
      /\ misclosed' = (misclosed \/ (owner[cur] # Nobody /\ erase.kept = erase.size))
      /\ spc' = "loop" /\ at' = at + 1 /\ cur' = Nobody /\ erase' = NoErase
      /\ UNCHANGED <<vector, peer, stopping, listener, last, block, sends,
                     roster, served, failed, raced>>
  BY DEF Close, NextSlot, Freed
<1>2. Capacity' = Capacity /\ Capacity \in Nat
  BY <1>1, Slots DEF Capacity, vector, TypeInv
<1>3. at' \in 1 .. last + 1
  <2>1. at \in Int /\ at <= last /\ last \in Int /\ 1 <= at
    BY <1>1, Slots DEF TypeInv, TypeOK, LocalsInv
  <2> QED
    BY <1>1, <2>1
<1>4. /\ erase' \in [block : 0 .. Capacity, size : Nat, kept : Nat]
      /\ erase'.size \in erase'.kept .. erase'.block
  BY <1>1, <1>2 DEF NoErase
<1>5. owner' \in [Fds -> Clients \union {Nobody, Other}] /\ misclosed' \in BOOLEAN
  BY <1>1 DEF TypeInv, TypeOK
<1>6. LocalsInv'
  BY <1>1, <1>2 DEF TypeInv, LocalsInv, listener
<1>7. TypeOK'
  BY <1>1, <1>2, <1>3, <1>4, <1>5 DEF TypeInv, TypeOK, vector, listener
<1> QED
  BY <1>6, <1>7 DEF TypeInv

\* The destructor, the clients, other threads and the signal change what they are
\* about and nothing of the vector's.
LEMMA OthersTypes ==
  ASSUME TypeInv, Destroy \/ Disconnect \/ OtherFile \/ Signal
  PROVE  TypeInv'
<1>1. UNCHANGED <<vector, lfd, lsize, sender, history>>
  BY DEF Destroy, Disconnect, OtherFile, Signal, listener
<1>2. Capacity' = Capacity
  BY <1>1 DEF Capacity, vector
<1>3. /\ owner' \in [Fds -> Clients \union {Nobody, Other}]
      /\ peer' \in [Clients -> {"new", "up", "down"}]
      /\ lpc' \in {lpc, "destroyed"} /\ stopping' \in BOOLEAN /\ eintr' \in BOOLEAN
  <2>1. CASE Destroy
    BY <2>1 DEF Destroy, TypeInv, TypeOK
  <2>2. CASE Disconnect
    BY <2>2 DEF Disconnect, listener, TypeInv, TypeOK
  <2>3. CASE OtherFile
    BY <2>3 DEF OtherFile, listener, TypeInv, TypeOK
  <2>4. CASE Signal
    BY <2>4 DEF Signal, kernel, TypeInv, TypeOK
  <2> QED
    BY <2>1, <2>2, <2>3, <2>4
<1>4. LocalsInv'
  BY <1>1, <1>2, <1>3 DEF TypeInv, LocalsInv, sender
<1>5. TypeOK'
  BY <1>1, <1>2, <1>3 DEF TypeInv, TypeOK, vector, sender, history
<1> QED
  BY <1>4, <1>5 DEF TypeInv

\* Every step keeps the types.
LEMMA TypeStep == TypeInv /\ [Next]_vars => TypeInv'
<1> SUFFICES ASSUME TypeInv, [Next]_vars PROVE TypeInv'
  OBVIOUS
<1>1. CASE UNCHANGED vars
  BY <1>1 DEF vars, vector, kernel, listener, sender, history, TypeInv, TypeOK, LocalsInv, Capacity
<1>2. CASE Listen
  BY <1>2, ListenTypes, PutTypes, GrowTypes DEF Listen
<1> QED
  BY <1>1, <1>2, ListenTypes, BeginTypes, SendTypes, EraseTypes, ShrinkTypes, CloseTypes,
     OthersTypes DEF Next

(* ------------------------------ the registry ---------------------------- *)

\* No race and no close of a foreign descriptor so far.
Clean == ~raced /\ ~misclosed

\* What is connected but not in the vector yet, and what is out of it already.
Pending == IF lpc \in {"load", "store"} THEN {lfd} ELSE {}
Gone == IF erase.kept < erase.size THEN {cur} ELSE {}

\* The first n slots of s hold the descriptors that belong to clients in o, each
\* once, but for those in more.
Holds(s, o, n, more) ==
  /\ \A i, j \in 1 .. n : s[i] = s[j] => i = j
  /\ \A i \in 1 .. n : s[i] \notin more
  /\ \A fd \in Fds : o[fd] \in Clients <=> (fd \in more \/ \E i \in 1 .. n : s[i] = fd)

Resting ==
  (lpc # "destroyed" /\ spc \in {"idle", "loop", "remove"}) => Holds(slot, owner, size, Pending)

\* Between std::remove and the end's store the vector is what it will be, unless a
\* push_back came between, which will show at the store.
Shrinking ==
  spc = "shrink" =>
    /\ erase.block = Capacity
    /\ erase.size <= size
    /\ erase.size = size => /\ Gone \intersect Pending = {}
                            /\ Holds(slot, owner, erase.kept, Pending \union Gone)

Closing ==
  spc = "close" => Gone \intersect Pending = {} /\ Holds(slot, owner, size, Pending \union Gone)

Destroyed == lpc = "destroyed" => Connected = {} /\ spc = "idle"

RegistryInv == Clean => Resting /\ Shrinking /\ Closing /\ Destroyed

IInv == TypeInv /\ RegistryInv

\* A new client's descriptor was nobody's.
LEMMA Accepted ==
  ASSUME NEW s, NEW o \in [Fds -> Clients \union {Nobody, Other}], NEW n, NEW more,
         NEW fd \in Fds, NEW c \in Clients, o[fd] = Nobody, Holds(s, o, n, more)
  PROVE  fd \notin more /\ Holds(s, [o EXCEPT ![fd] = c], n, more \union {fd})
<1>1. o[fd] \notin Clients
  BY ConstantsAssumption
<1>2. fd \notin more /\ \A i \in 1 .. n : s[i] # fd
  BY <1>1 DEF Holds
<1> QED
  BY <1>2 DEF Holds

\* A descriptor that is pushed is one of the vector's from then on.
LEMMA Pushed ==
  ASSUME NEW s, NEW t, NEW o, NEW n \in Nat, NEW more, NEW fd,
         fd \notin more, Holds(s, o, n, more \union {fd}),
         \A i \in 1 .. n : t[i] = s[i], t[n + 1] = fd
  PROVE  Holds(t, o, n + 1, more)
<1>1. \A i \in 1 .. n + 1 : i \in 1 .. n \/ i = n + 1
  OBVIOUS
<1>2. n + 1 \in 1 .. n + 1 /\ \A i \in 1 .. n : i \in 1 .. n + 1 /\ s[i] # fd
  BY DEF Holds
<1>3. ASSUME NEW i \in 1 .. n + 1, NEW j \in 1 .. n + 1, t[i] = t[j] PROVE i = j
  BY <1>1, <1>2, <1>3 DEF Holds
<1>4. \A i \in 1 .. n + 1 : t[i] \notin more
  BY <1>1 DEF Holds
<1>5. ASSUME NEW f
      PROVE  (\E i \in 1 .. n + 1 : t[i] = f) <=> (f = fd \/ \E i \in 1 .. n : s[i] = f)
  BY <1>1, <1>2
<1> QED
  BY <1>3, <1>4, <1>5 DEF Holds

\* A descriptor out of the vector is closed.
LEMMA Dropped ==
  ASSUME NEW s, NEW o \in [Fds -> Clients \union {Nobody, Other}], NEW n, NEW more,
         NEW fd \in Fds, fd \notin more, Holds(s, o, n, more \union {fd})
  PROVE  Holds(s, [o EXCEPT ![fd] = Nobody], n, more)
<1>1. \A i \in 1 .. n : s[i] # fd
  BY DEF Holds
<1> QED
  BY <1>1, ConstantsAssumption DEF Holds

\* Who is no client may change.
LEMMA Alike ==
  ASSUME NEW s, NEW o, NEW p, NEW n, NEW more, Holds(s, o, n, more),
         \A fd \in Fds : p[fd] \in Clients <=> o[fd] \in Clients
  PROVE  Holds(s, p, n, more)
  BY DEF Holds

\* A connection adds a client to what is pending.
LEMMA AcceptRegistry == IInv /\ Accept => RegistryInv'
<1> SUFFICES ASSUME IInv, Accept, Clean' PROVE (Resting /\ Shrinking /\ Closing /\ Destroyed)'
  BY DEF RegistryInv
<1>1. PICK c \in Clients, fd \in Fds :
        owner[fd] = Nobody /\ owner' = [owner EXCEPT ![fd] = c] /\ lfd' = fd
  BY DEF Accept, Free
<1>2. /\ lpc = "accept" /\ lpc' = "load"
      /\ UNCHANGED <<vector, stopping, lsize, eintr, sender, history>>
  BY DEF Accept
<1>3. UNCHANGED <<slot, size, spc, erase, cur, raced, misclosed>>
  BY <1>2 DEF vector, sender, history
<1>4. Clean /\ Resting /\ Shrinking /\ Closing
  BY <1>3 DEF Clean, IInv, RegistryInv
<1>5. Pending = {} /\ Pending' = {fd} /\ Gone' = Gone /\ Capacity' = Capacity
  BY <1>1, <1>2, <1>3 DEF Pending, Gone, Capacity
<1>6. owner \in [Fds -> Clients \union {Nobody, Other}]
  BY DEF IInv, TypeInv, TypeOK
<1>7. ASSUME NEW n, NEW more, Holds(slot, owner, n, more)
      PROVE  fd \notin more /\ Holds(slot, owner', n, more \union {fd})
  BY <1>1, <1>6, <1>7, Accepted
<1>8. ASSUME NEW n, Holds(slot, owner, n, Pending \union Gone)
      PROVE  Gone' \intersect Pending' = {} /\ Holds(slot, owner', n, (Pending \union Gone)')
  <2>1. fd \notin Gone /\ Holds(slot, owner', n, Gone \union {fd})
    BY <1>5, <1>7, <1>8
  <2>2. (Pending \union Gone)' = Gone \union {fd}
    BY <1>5
  <2> QED
    BY <2>1, <2>2, <1>5
<1>9. Resting'
  <2>1. Pending \union {fd} = Pending'
    BY <1>5
  <2> QED
    BY <2>1, <1>2, <1>3, <1>4, <1>7 DEF Resting
<1>10. Shrinking'
  BY <1>3, <1>4, <1>5, <1>8 DEF Shrinking
<1>11. Closing'
  BY <1>3, <1>4, <1>8 DEF Closing
<1> QED
  BY <1>2, <1>9, <1>10, <1>11 DEF Destroyed

\* push_back makes the pending client the vector's last.
LEMMA PutRegistry == IInv /\ (Put \/ Grow) => RegistryInv'
<1> SUFFICES ASSUME IInv, Put \/ Grow, Clean' PROVE (Resting /\ Shrinking /\ Closing /\ Destroyed)'
  BY DEF RegistryInv
<1>1. /\ lpc = "store" /\ lpc' = "test" /\ size = lsize /\ size' = size + 1
      /\ UNCHANGED <<owner, spc, erase, cur, misclosed>> /\ ~raced
      /\ Put \/ spc = "idle"
  BY DEF Put, Grow, PutReturns, kernel, sender, Clean
<1>2. size \in Nat /\ size <= Capacity /\ Capacity \in Nat /\ DOMAIN slot = 1 .. Capacity
  BY Slots DEF IInv, TypeInv
<1>3. slot'[size + 1] = lfd /\ \A i \in 1 .. size : slot'[i] = slot[i]
  <2>1. CASE Put
    BY <2>1, <1>1, <1>2 DEF Put, HasRoom
  <2>2. CASE Grow
    BY <2>2, <1>1, <1>2 DEF Grow
  <2> QED
    BY <2>1, <2>2
<1>4. Clean /\ Resting /\ Shrinking /\ Closing
  BY <1>1 DEF Clean, IInv, RegistryInv
<1>5. Pending = {lfd} /\ Pending' = {} /\ Gone' = Gone
  BY <1>1 DEF Pending, Gone
<1>6. ASSUME NEW more, lfd \notin more, Holds(slot, owner, size, more \union {lfd})
      PROVE  Holds(slot', owner', size', more)
  BY <1>1, <1>2, <1>3, <1>6, Pushed
<1>7. Resting'
  <2>1. {} \union {lfd} = Pending
    BY <1>5
  <2> QED
    BY <2>1, <1>1, <1>4, <1>5, <1>6 DEF Resting
<1>8. Shrinking'
  <2> SUFFICES ASSUME spc = "shrink"
               PROVE  erase.block = Capacity' /\ erase.size <= size' /\ erase.size # size'
    BY <1>1 DEF Shrinking
  <2>1. Put /\ erase.block = Capacity /\ erase.size <= size /\ erase.size \in Nat
    BY <1>1, <1>4 DEF Shrinking, IInv, TypeInv, TypeOK
  <2>2. Capacity' = Capacity
    BY <2>1, PutTypes DEF IInv
  <2> QED
    BY <2>1, <2>2, <1>1, <1>2
<1>9. Closing'
  <2> SUFFICES ASSUME spc = "close"
               PROVE  Holds(slot', owner', size', (Pending \union Gone)')
    BY <1>1, <1>5 DEF Closing
  <2>1. lfd \notin Gone /\ Holds(slot, owner, size, Gone \union {lfd})
    <3>1. Pending \union Gone = Gone \union {lfd}
      BY <1>5
    <3> QED
      BY <3>1, <1>4, <1>5 DEF Closing
  <2>2. (Pending \union Gone)' = Gone
    BY <1>5
  <2> QED
    BY <2>1, <2>2, <1>6
<1> QED
  BY <1>1, <1>7, <1>8, <1>9 DEF Destroyed

\* Steps of the listener and of the pass that leave the registry alone.
LEMMA OthersRegistry ==
  ASSUME IInv,
         \/ Setup \/ Test \/ AcceptInterrupted \/ AcceptFails \/ Load
         \/ Begin \/ SendOne \/ SendFails \/ Return
         \/ Disconnect \/ OtherFile \/ Signal \/ UNCHANGED vars
  PROVE  RegistryInv'
<1> SUFFICES ASSUME Clean' PROVE (Resting /\ Shrinking /\ Closing /\ Destroyed)'
  BY DEF RegistryInv
<1>1. UNCHANGED <<slot, size, erase, lfd, raced, misclosed>>
  BY DEF Setup, Test, AcceptInterrupted, AcceptFails, Load, Begin, SendOne, SendFails, Return,
         Disconnect, OtherFile, Signal, vars, vector, listener, sender, history
<1>2. /\ lpc' = "destroyed" <=> lpc = "destroyed"
      /\ lpc' \in {"load", "store"} <=> lpc \in {"load", "store"}
  BY DEF Setup, Test, Tested, AcceptInterrupted, AcceptFails, Load, Begin, SendOne, SendFails,
         Return, Disconnect, OtherFile, Signal, vars, listener
<1>3. \/ UNCHANGED <<spc, cur>>
      \/ spc \in {"idle", "loop", "remove"} /\ spc' \in {"idle", "loop", "remove"}
         /\ lpc # "destroyed"
  BY DEF Setup, Test, AcceptInterrupted, AcceptFails, Load, Begin, SendOne, SendFails, Return,
         Running, Disconnect, OtherFile, Signal, vars, sender
<1>4. \A fd \in Fds : owner'[fd] \in Clients <=> owner[fd] \in Clients
  <2>1. CASE OtherFile
    <3>1. \A fd \in Fds : owner'[fd] = owner[fd] \/ {owner[fd], owner'[fd]} = {Nobody, Other}
      BY <2>1 DEF OtherFile, IInv, TypeInv, TypeOK
    <3> QED
      BY <3>1, ConstantsAssumption
  <2>2. CASE UNCHANGED owner
    BY <2>2
  <2> QED
    BY <2>1, <2>2 DEF Setup, Test, AcceptInterrupted, AcceptFails, Load, Begin, SendOne, SendFails,
         Return, Disconnect, Signal, vars, kernel
<1>5. Clean /\ Resting /\ Shrinking /\ Closing /\ Destroyed
  BY <1>1 DEF Clean, IInv, RegistryInv
<1>6. Pending' = Pending /\ Capacity' = Capacity /\ Connected' = Connected
  BY <1>1, <1>2, <1>4 DEF Pending, Capacity, Connected
<1>7. ASSUME NEW n, NEW more, Holds(slot, owner, n, more)
      PROVE  Holds(slot, owner', n, more)
  BY <1>4, <1>7, Alike
<1>8. Resting'
  BY <1>1, <1>2, <1>3, <1>5, <1>6, <1>7 DEF Resting
<1>9. CASE UNCHANGED <<spc, cur>>
  <2>1. Gone' = Gone
    BY <1>1, <1>9 DEF Gone
  <2>2. Shrinking'
    BY <2>1, <1>1, <1>5, <1>6, <1>7, <1>9 DEF Shrinking
  <2>3. Closing'
    BY <2>1, <1>1, <1>5, <1>6, <1>7, <1>9 DEF Closing
  <2>4. Destroyed'
    BY <1>2, <1>5, <1>6, <1>9 DEF Destroyed
  <2> QED
    BY <2>2, <2>3, <2>4, <1>8
<1>10. CASE spc' \in {"idle", "loop", "remove"} /\ lpc # "destroyed"
  BY <1>2, <1>8, <1>10 DEF Shrinking, Closing, Destroyed
<1> QED
  BY <1>3, <1>9, <1>10

\* std::remove keeps the other descriptors, each once.
LEMMA EraseRegistry == IInv /\ Erase => RegistryInv'
<1> SUFFICES ASSUME IInv, Erase, Clean' PROVE (Resting /\ Shrinking /\ Closing /\ Destroyed)'
  BY DEF RegistryInv
<1> DEFINE kept == Cardinality(Others)
<1>1. /\ Capacity' = Capacity
      /\ erase' = [block |-> Capacity, size |-> size, kept |-> kept]
      /\ \A i \in 1 .. Capacity : slot'[i] = IF i <= kept THEN slot[Ith(i)] ELSE slot[i]
      /\ spc = "remove" /\ spc' = "shrink"
      /\ UNCHANGED <<size, kernel, stopping, listener, at, last, block, cur, sends, history>>
  BY EraseTypes DEF IInv
<1>2. UNCHANGED <<size, owner, lpc, lfd, cur, raced, misclosed>>
  BY <1>1 DEF kernel, listener, history
<1>3. lpc # "destroyed"
  BY DEF Erase, Running
<1>4. Holds(slot, owner, size, Pending)
  BY <1>1, <1>2, <1>3 DEF Clean, IInv, RegistryInv, Resting
<1>5. /\ kept \in 0 .. size /\ (kept = size <=> Others = 1 .. size)
      /\ \A i \in 1 .. kept : Ith(i) \in Others /\ Rank(Others, Ith(i)) = i
      /\ \A j \in Others : \E i \in 1 .. kept : Ith(i) = j
  BY Moved DEF IInv, TypeInv
<1>6. size \in Nat /\ size <= Capacity /\ Capacity \in Nat
  BY Slots DEF IInv, TypeInv
<1> HIDE DEF kept
<1>7. \A i \in 1 .. kept : /\ slot'[i] = slot[Ith(i)]
                           /\ Ith(i) \in 1 .. size /\ slot[Ith(i)] # cur
  <2>1. \A j \in Others : j \in 1 .. size /\ slot[j] # cur
    BY DEF Others
  <2>2. \A i \in 1 .. kept : i \in 1 .. Capacity /\ i <= kept
    BY <1>5, <1>6
  <2> QED
    BY <2>1, <2>2, <1>1, <1>5
<1>8. Pending' = Pending /\ Gone' = IF kept < size THEN {cur} ELSE {}
  BY <1>1, <1>2 DEF Pending, Gone
<1>9. kept < size <=> \E i \in 1 .. size : slot[i] = cur
  BY <1>5, <1>6 DEF Others
<1>10. Gone' \intersect Pending' = {}
  BY <1>4, <1>8, <1>9 DEF Holds
<1>11. ASSUME NEW i \in 1 .. kept, NEW j \in 1 .. kept, slot'[i] = slot'[j] PROVE i = j
  <2>1. Ith(i) = Ith(j)
    BY <1>4, <1>7, <1>11 DEF Holds
  <2> QED
    BY <2>1, <1>5
<1>12. \A i \in 1 .. kept : slot'[i] \notin Pending' \union Gone'
  BY <1>4, <1>7, <1>8 DEF Holds
<1>13. ASSUME NEW fd \in Fds
       PROVE  (\E i \in 1 .. size : slot[i] = fd)
                 <=> (fd \in Gone' \/ \E i \in 1 .. kept : slot'[i] = fd)
  <2>1. ASSUME NEW i \in 1 .. size, slot[i] = fd, fd # cur
        PROVE  \E k \in 1 .. kept : slot'[k] = fd
    <3>1. i \in Others
      BY <2>1 DEF Others
    <3> QED
      BY <3>1, <2>1, <1>5, <1>7
  <2>2. ASSUME NEW i \in 1 .. kept, slot'[i] = fd
        PROVE  \E k \in 1 .. size : slot[k] = fd
    BY <2>2, <1>7
  <2>3. fd \in Gone' => fd = cur /\ \E k \in 1 .. size : slot[k] = fd
    BY <1>8, <1>9
  <2>4. ASSUME NEW i \in 1 .. size, slot[i] = fd, fd = cur
        PROVE  fd \in Gone'
    BY <2>4, <1>8, <1>9
  <2> QED
    BY <2>1, <2>2, <2>3, <2>4
<1>14. Holds(slot', owner', kept, Pending' \union Gone')
  <2>1. \A fd \in Fds : owner'[fd] \in Clients
                          <=> (fd \in Pending' \union Gone' \/ \E i \in 1 .. kept : slot'[i] = fd)
    BY <1>2, <1>4, <1>8, <1>13 DEF Holds
  <2> QED
    BY <2>1, <1>11, <1>12 DEF Holds
<1>15. Shrinking'
  BY <1>1, <1>2, <1>6, <1>10, <1>14 DEF Shrinking
<1> QED
  BY <1>1, <1>2, <1>3, <1>15 DEF Resting, Closing, Destroyed

\* The end's store makes the vector what std::remove left.
LEMMA ShrinkRegistry == IInv /\ Shrink => RegistryInv'
<1> SUFFICES ASSUME IInv, Shrink, Clean' PROVE (Resting /\ Shrinking /\ Closing /\ Destroyed)'
  BY DEF RegistryInv
<1>1. /\ spc = "shrink" /\ lpc # "destroyed" /\ ~raced /\ erase.size = size
      /\ \/ size' = erase.kept /\ spc' = "close"
         \/ spc' = "crashed"
      /\ UNCHANGED <<slot, owner, lpc, lfd, cur, erase, misclosed>>
  BY DEF Shrink, Running, Clean, kernel, listener
<1>2. Gone \intersect Pending = {} /\ Holds(slot, owner, erase.kept, Pending \union Gone)
  BY <1>1 DEF Clean, IInv, RegistryInv, Shrinking
<1>3. Gone' = Gone /\ Pending' = Pending
  BY <1>1 DEF Gone, Pending
<1>4. Closing'
  BY <1>1, <1>2, <1>3 DEF Closing
<1> QED
  BY <1>1, <1>4 DEF Resting, Shrinking, Destroyed

\* The descriptor that is closed was the vector's, or nobody's.
LEMMA CloseRegistry == IInv /\ Close => RegistryInv'
<1> SUFFICES ASSUME IInv, Close, Clean' PROVE (Resting /\ Shrinking /\ Closing /\ Destroyed)'
  BY DEF RegistryInv
<1>1. /\ spc = "close" /\ lpc # "destroyed" /\ owner' = [owner EXCEPT ![cur] = Nobody]
      /\ ~misclosed /\ (owner[cur] = Nobody \/ erase.kept # erase.size)
      /\ spc' = "loop"
      /\ UNCHANGED <<slot, size, lpc, lfd, raced>>
  BY DEF Close, Running, Freed, NextSlot, Clean, vector, listener
<1>2. Gone \intersect Pending = {} /\ Holds(slot, owner, size, Pending \union Gone)
  BY <1>1 DEF Clean, IInv, RegistryInv, Closing
<1>3. /\ cur \in Fds /\ owner \in [Fds -> Clients \union {Nobody, Other}]
      /\ erase.kept \in Int /\ erase.size \in Int /\ erase.kept <= erase.size
  BY <1>1, Slots DEF IInv, TypeInv, TypeOK, LocalsInv
<1>4. Pending' = Pending
  BY <1>1 DEF Pending
<1>5. Holds(slot, owner', size, Pending)
  <2>1. CASE erase.kept < erase.size
    <3>1. cur \notin Pending /\ Holds(slot, owner, size, Pending \union {cur})
      BY <1>2, <2>1 DEF Gone
    <3>2. Holds(slot, [owner EXCEPT ![cur] = Nobody], size, Pending)
      BY <3>1, <1>3, Dropped
    <3> QED
      BY <3>2, <1>1
  <2>2. CASE erase.kept = erase.size
    <3>1. Pending \union Gone = Pending
      BY <1>3, <2>2 DEF Gone
    <3>2. owner' = owner
      BY <1>1, <1>3, <2>2
    <3> QED
      BY <3>1, <3>2, <1>2
  <2> QED
    BY <2>1, <2>2, <1>3
<1>6. Resting'
  BY <1>1, <1>4, <1>5 DEF Resting
<1> QED
  BY <1>1, <1>6 DEF Shrinking, Closing, Destroyed

\* The live entries are the first slots.
LEMMA LiveSlots ==
  ASSUME TypeOK
  PROVE  /\ DOMAIN Live = 1 .. size /\ Len(Live) = size
         /\ \A i \in 1 .. size : Live[i] = slot[i]
<1>1. size \in Nat /\ \A i \in 1 .. size : slot[i] \in Fds
  BY Slots
<1>2. /\ Live \in Seq(Fds) /\ Len(Live) = (IF 1 <= size THEN size - 1 + 1 ELSE 0)
      /\ \A i \in 1 .. size - 1 + 1 : Live[i] = slot[1 + i - 1]
  BY <1>1, SubSeqProperties DEF Live
<1>3. Len(Live) = size
  BY <1>1, <1>2
<1>4. DOMAIN Live = 1 .. Len(Live)
  BY <1>2, LenProperties
<1> QED
  BY <1>1, <1>2, <1>3, <1>4

\* The destructor closes all there is.
LEMMA DestroyRegistry == IInv /\ Destroy => RegistryInv'
<1> SUFFICES ASSUME IInv, Destroy, Clean' PROVE (Resting /\ Shrinking /\ Closing /\ Destroyed)'
  BY DEF RegistryInv
<1>1. /\ lpc = "ended" /\ spc = "idle" /\ lpc' = "destroyed" /\ spc' = spc
      /\ owner' = [fd \in Fds |-> IF Contains(Live, fd) THEN Nobody ELSE owner[fd]]
      /\ UNCHANGED <<raced, misclosed>>
  BY DEF Destroy, sender, history
<1>2. Holds(slot, owner, size, {})
  BY <1>1 DEF Clean, IInv, RegistryInv, Resting, Pending
<1>3. \A fd \in Fds : owner[fd] \in Clients => Contains(Live, fd)
  <2>1. \A i \in 1 .. size : Live[i] = slot[i]
    BY LiveSlots DEF IInv, TypeInv
  <2>2. Len(Live) = size
    BY LiveSlots DEF IInv, TypeInv
  <2> QED
    BY <2>1, <2>2, <1>2 DEF Holds, Contains
<1>4. Connected' = {}
  BY <1>1, <1>3, ConstantsAssumption DEF Connected
<1> QED
  BY <1>1, <1>4 DEF Resting, Shrinking, Closing, Destroyed

\* At first nobody is connected.
LEMMA InitInvariant == Init => IInv
<1> SUFFICES ASSUME Init PROVE IInv
  OBVIOUS
<1>1. /\ lpc = "setup" /\ spc = "idle" /\ size = 0
      /\ \A fd \in Fds : owner[fd] = Nobody
  BY DEF Init
<1>2. Holds(slot, owner, 0, {})
  BY <1>1, ConstantsAssumption DEF Holds
<1>3. RegistryInv
  BY <1>1, <1>2 DEF RegistryInv, Resting, Shrinking, Closing, Destroyed, Pending
<1> QED
  BY <1>3, InitTypes DEF IInv

\* Every step keeps the invariant.
LEMMA Invariance == Spec => []IInv
<1>1. IInv /\ [Next]_vars => IInv'
  <2> SUFFICES ASSUME IInv, [Next]_vars PROVE RegistryInv'
    BY TypeStep DEF IInv
  <2>1. CASE Listen
    BY <2>1, PutRegistry, OthersRegistry DEF Listen
  <2> QED
    BY <2>1, AcceptRegistry, OthersRegistry, EraseRegistry, ShrinkRegistry, CloseRegistry,
       DestroyRegistry DEF Next
<1> QED
  BY <1>1, InitInvariant, PTL DEF Spec

(* -------------------------------- a pass -------------------------------- *)

\* A client has one descriptor; one that failed has it for as long as the pass
\* needs to close it, and never another.
OwnerInv ==
  /\ \A f, g \in Fds : (owner[f] \in Clients /\ owner[f] = owner[g]) => f = g
  /\ \A f \in Fds : owner[f] \in Clients => peer[owner[f]] # "new"
  /\ \A c \in failed : peer[c] # "new"
  /\ \A f \in Fds :
       owner[f] \in failed => spc \in {"remove", "shrink", "close", "crashed"} /\ f = cur
  /\ IsFiniteSet(failed)

IdleInv == spc = "idle" => failed = {} /\ \A c \in Clients : served[c] = 0

\* Within a pass that nothing has disturbed; an erase that a push_back met will
\* disturb it.
Passing ==
  Clean /\ (spc \in {"loop", "remove", "close"} \/ (spc = "shrink" /\ erase.size = size))

Erasing == spc \in {"remove", "shrink", "close"}

\* The entries that live when the step under way is done.
Staying == IF spc = "shrink" THEN erase.kept ELSE size

\* The clients in front of p had the message and keep their slots, and no slot from
\* p on, stale or not, is one of theirs.
Served(p) ==
  /\ p - 1 <= Staying /\ p <= last + 1
  /\ \A i \in 1 .. p - 1 :
       /\ owner[slot[i]] = roster[i] /\ roster[i] \in Clients
       /\ served[roster[i]] = 1 /\ roster[i] \notin failed
       /\ \A k \in p .. last : slot[k] # slot[i]
       /\ Erasing => slot[i] # cur

\* No send has failed: the loop is at p, and what is ahead is as it was.
Unbroken(p) ==
  /\ spc = "loop" /\ p = at /\ last <= size /\ failed = {}
  /\ \A k \in at .. last :
       owner[slot[k]] = roster[k] /\ roster[k] \in Clients /\ served[roster[k]] = 0

\* The first send that failed was at p.
Broken(p) == p <= last /\ roster[p] \in failed

Walk(p) == Served(p) /\ (Unbroken(p) \/ Broken(p))

PassInv == Passing => block = Capacity /\ Len(roster) = last /\ \E p \in 1 .. at : Walk(p)

\* After one failure the one stale slot is a copy of the last live one.
Few == failed = {} \/ \E c \in Clients : failed = {c}

StaleInv ==
  Passing /\ Few =>
    /\ spc = "loop" => \A k \in at .. last : \E j \in 1 .. size : slot[k] = slot[j]
    /\ spc = "remove" => cur = slot[at] /\ last <= size
    /\ spc \in {"shrink", "close"} =>
         /\ erase.kept < erase.size
         /\ \A k \in at + 1 .. last : \E j \in 1 .. Staying : slot[k] = slot[j]

WalkInv == IInv /\ OwnerInv /\ IdleInv /\ PassInv /\ StaleInv

\* What the types and the registry say of a pass.
LEMMA PassFacts ==
  ASSUME IInv
  PROVE  /\ Capacity \in Nat /\ size \in Nat /\ size <= Capacity
         /\ \A i \in 1 .. Capacity : slot[i] \in Fds
         /\ block \in 0 .. Capacity /\ last \in Nat /\ last <= block
         /\ at \in Nat /\ 1 <= at /\ at <= last + 1
         /\ erase.kept \in Nat /\ erase.size \in Nat /\ erase.kept <= erase.size
         /\ Passing => Staying \in Nat /\ Staying <= size
         /\ Passing /\ spc \in {"loop", "remove"} => Holds(slot, owner, size, Pending)
         /\ Passing /\ spc = "close" => Holds(slot, owner, size, Pending \union Gone)
<1>1. /\ Capacity \in Nat /\ size \in Nat /\ size <= Capacity
      /\ \A i \in 1 .. Capacity : slot[i] \in Fds
  BY Slots DEF IInv, TypeInv
<1>2. /\ block \in 0 .. Capacity /\ last \in 0 .. block /\ at \in 1 .. last + 1
      /\ erase \in [block : 0 .. Capacity, size : Nat, kept : Nat]
      /\ erase.size \in erase.kept .. erase.block
  BY DEF IInv, TypeInv, TypeOK
<1>3. Passing => Staying \in Nat /\ Staying <= size
  BY <1>1, <1>2 DEF Passing, Staying
<1>4. Passing => lpc # "destroyed" /\ Resting /\ Closing
  BY DEF Passing, IInv, RegistryInv, Destroyed
<1> QED
  BY <1>1, <1>2, <1>3, <1>4 DEF Resting, Closing

\* Descriptors keep their clients while a pass needs to tell them apart.
LEMMA OwnerStep == IInv /\ OwnerInv /\ [Next]_vars => OwnerInv'
<1> SUFFICES ASSUME IInv, OwnerInv, [Next]_vars PROVE OwnerInv'
  OBVIOUS
<1>1. /\ owner \in [Fds -> Clients \union {Nobody, Other}]
      /\ peer \in [Clients -> {"new", "up", "down"}] /\ failed \subseteq Clients
  BY DEF IInv, TypeInv, TypeOK
<1>2. ASSUME UNCHANGED <<cur, failed>>,
             spc' = spc \/ (\A f \in Fds : owner'[f] \notin failed)
                        \/ spc' \in {"remove", "shrink", "close", "crashed"},
             \A f \in Fds : owner'[f] \in Clients => owner'[f] = owner[f],
             \A c \in Clients : peer[c] # "new" => peer'[c] # "new"
      PROVE  OwnerInv'
  <2>1. \A f, g \in Fds : (owner'[f] \in Clients /\ owner'[f] = owner'[g]) => f = g
    BY <1>2 DEF OwnerInv
  <2>2. \A f \in Fds : owner'[f] \in Clients => peer'[owner'[f]] # "new"
    BY <1>2 DEF OwnerInv
  <2>3. \A c \in failed' : peer'[c] # "new"
    BY <1>1, <1>2 DEF OwnerInv
  <2>4. ASSUME NEW f \in Fds, owner'[f] \in failed'
        PROVE  spc' \in {"remove", "shrink", "close", "crashed"} /\ f = cur'
    <3>1. owner[f] \in failed
      BY <1>1, <1>2, <2>4
    <3> QED
      BY <3>1, <1>2, <2>4 DEF OwnerInv
  <2> QED
    BY <1>2, <2>1, <2>2, <2>3, <2>4 DEF OwnerInv
<1>3. CASE Accept
  <2>1. PICK c \in Clients, fd \in Fds :
          /\ owner[fd] = Nobody /\ peer[c] = "new"
          /\ owner' = [owner EXCEPT ![fd] = c] /\ peer' = [peer EXCEPT ![c] = "up"]
    BY <1>3 DEF Accept, Free
  <2>2. UNCHANGED <<spc, cur, failed>>
    BY <1>3 DEF Accept, sender, history
  <2>3. /\ \A f \in Fds : owner'[f] = IF f = fd THEN c ELSE owner[f]
        /\ \A d \in Clients : peer'[d] = IF d = c THEN "up" ELSE peer[d]
    BY <2>1, <1>1
  <2>4. c \notin failed /\ \A f \in Fds : owner[f] # c
    BY <2>1, <1>1 DEF OwnerInv
  <2>5. \A f, g \in Fds : (owner'[f] \in Clients /\ owner'[f] = owner'[g]) => f = g
    BY <2>3, <2>4 DEF OwnerInv
  <2>6. \A f \in Fds : owner'[f] \in Clients => peer'[owner'[f]] # "new"
    BY <2>3, <2>4 DEF OwnerInv
  <2>7. \A d \in failed' : peer'[d] # "new"
    BY <1>1, <2>2, <2>3 DEF OwnerInv
  <2>8. \A f \in Fds : owner'[f] \in failed' =>
          spc' \in {"remove", "shrink", "close", "crashed"} /\ f = cur'
    BY <2>2, <2>3, <2>4 DEF OwnerInv
  <2> QED
    BY <2>2, <2>5, <2>6, <2>7, <2>8 DEF OwnerInv
<1>4. CASE Setup \/ Test \/ AcceptInterrupted \/ AcceptFails \/ Load \/ Put \/ Grow
           \/ Begin \/ SendOne \/ Signal \/ UNCHANGED vars
  <2>1. UNCHANGED <<owner, peer, cur, failed>>
    BY <1>4 DEF Setup, Test, AcceptInterrupted, AcceptFails, Load, Put, Grow, Begin, SendOne,
            Signal, vars, kernel, sender, history
  <2>2. spc' = spc \/ spc = "idle"
    BY <1>4 DEF Setup, Test, AcceptInterrupted, AcceptFails, Load, Put, Grow, Begin, SendOne,
            Signal, vars, sender
  <2>3. spc = "idle" => \A f \in Fds : owner'[f] \notin failed
    BY <2>1 DEF OwnerInv
  <2> QED
    BY <2>1, <2>2, <2>3, <1>2
<1>5. CASE SendFails
  <2>1. PICK fd \in Fds : cur' = fd /\ failed' = failed \union ({owner[fd]} \intersect Clients)
    <3>1. Fetched \subseteq Fds
      BY <1>5, FetchedFds DEF SendFails, IInv
    <3> QED
      BY <3>1, <1>5 DEF SendFails
  <2>2. UNCHANGED <<owner, peer>> /\ spc = "loop" /\ spc' = "remove"
    BY <1>5 DEF SendFails, kernel
  <2>3. \A f \in Fds : owner[f] \notin failed
    BY <2>2 DEF OwnerInv
  <2>4. \A f \in Fds : owner'[f] \in failed' => f = cur'
    BY <2>1, <2>2, <2>3 DEF OwnerInv
  <2>5. \A d \in failed' : peer'[d] # "new"
    BY <2>1, <2>2 DEF OwnerInv
  <2>6. IsFiniteSet(failed')
    <3>1. CASE owner[fd] \in Clients
      <4>1. failed' = failed \union {owner[fd]}
        BY <2>1, <3>1
      <4> QED
        BY <4>1, FS_AddElement DEF OwnerInv
    <3>2. CASE owner[fd] \notin Clients
      <4>1. failed' = failed
        BY <2>1, <3>2
      <4> QED
        BY <4>1 DEF OwnerInv
    <3> QED
      BY <3>1, <3>2
  <2> QED
    BY <2>2, <2>4, <2>5, <2>6 DEF OwnerInv
<1>6. CASE Erase \/ Shrink
  <2>1. UNCHANGED <<owner, peer, cur, failed>> /\ spc' \in {"shrink", "close", "crashed"}
    BY <1>6 DEF Erase, Shrink, kernel, history
  <2> QED
    BY <2>1, <1>2
<1>7. CASE Close
  <2>1. /\ owner' = [owner EXCEPT ![cur] = Nobody] /\ peer' = peer /\ failed' = failed
        /\ spc = "close"
    BY <1>7 DEF Close, Freed
  <2>2. cur \in Fds
    BY <2>1 DEF IInv, TypeInv, LocalsInv
  <2>3. \A f \in Fds : owner'[f] = IF f = cur THEN Nobody ELSE owner[f]
    BY <1>1, <2>1, <2>2
  <2>4. \A f \in Fds : owner'[f] \notin failed
    BY <1>1, <2>3, ConstantsAssumption DEF OwnerInv
  <2>5. \A f \in Fds : owner'[f] \in Clients => owner'[f] = owner[f]
    BY <2>3, ConstantsAssumption
  <2>6. \A f, g \in Fds : (owner'[f] \in Clients /\ owner'[f] = owner'[g]) => f = g
    BY <2>5 DEF OwnerInv
  <2>7. \A f \in Fds : owner'[f] \in Clients => peer'[owner'[f]] # "new"
    BY <2>1, <2>5 DEF OwnerInv
  <2> QED
    BY <2>1, <2>4, <2>6, <2>7 DEF OwnerInv
<1>8. CASE Return
  <2>1. UNCHANGED <<owner, peer>> /\ failed' = {}
    BY <1>8 DEF Return, kernel
  <2> QED
    BY <2>1, FS_EmptySet DEF OwnerInv
<1>9. CASE Destroy \/ Disconnect \/ OtherFile
  <2>1. UNCHANGED <<spc, cur, failed>>
    BY <1>9 DEF Destroy, Disconnect, OtherFile, sender, history
  <2>2. \A f \in Fds : owner'[f] \in Clients => owner'[f] = owner[f]
    <3>1. CASE Destroy
      BY <3>1, ConstantsAssumption DEF Destroy
    <3>2. CASE Disconnect
      BY <3>2 DEF Disconnect
    <3>3. CASE OtherFile
      BY <3>3, <1>1, ConstantsAssumption DEF OtherFile
    <3> QED
      BY <3>1, <3>2, <3>3, <1>9
  <2>3. \A c \in Clients : peer[c] # "new" => peer'[c] # "new"
    BY <1>1, <1>9 DEF Destroy, Disconnect, OtherFile
  <2> QED
    BY <2>1, <2>2, <2>3, <1>2
<1> QED
  BY <1>3, <1>4, <1>5, <1>6, <1>7, <1>8, <1>9 DEF Next, Listen

\* Between two passes nothing is remembered of the last one.
LEMMA IdleStep == IdleInv /\ [Next]_vars => IdleInv'
<1> SUFFICES ASSUME IdleInv, [Next]_vars PROVE IdleInv'
  OBVIOUS
<1>1. CASE UNCHANGED <<spc, failed, served>>
  BY <1>1 DEF IdleInv
<1>2. CASE Begin \/ SendOne \/ SendFails \/ Erase \/ Shrink \/ Close \/ Return
  BY <1>2 DEF Begin, SendOne, SendFails, Erase, Shrink, Close, NextSlot, Return, IdleInv
<1> QED
  BY <1>1, <1>2 DEF Next, Listen, Setup, Test, Accept, AcceptInterrupted, AcceptFails, Load, Put,
     Grow, Destroy, Disconnect, OtherFile, Signal, vars, sender, history

\* Steps that change neither the vector nor the pass, and no client's descriptor.
LEMMA QuietWalk ==
  ASSUME WalkInv, UNCHANGED <<slot, size, sender, history>>,
         \A f \in Fds : owner[f] \in Clients => owner'[f] = owner[f]
  PROVE  PassInv' /\ StaleInv'
<1>1. /\ UNCHANGED <<slot, size, spc, at, last, block, cur, erase, roster, served, failed>>
      /\ Passing' = Passing /\ Staying' = Staying /\ Erasing' = Erasing /\ Capacity' = Capacity
      /\ Few' = Few
  BY DEF sender, history, Passing, Clean, Staying, Erasing, Capacity, Few
<1>2. StaleInv'
  BY <1>1 DEF WalkInv, StaleInv
<1>3. ASSUME Passing
      PROVE  block = Capacity /\ Len(roster) = last /\ \E p \in 1 .. at : Walk(p)'
  <2>1. PICK p \in 1 .. at : Walk(p)
    BY <1>3 DEF WalkInv, PassInv
  <2>2. /\ \A i \in 1 .. Capacity : slot[i] \in Fds
        /\ Staying \in Nat /\ Staying <= size /\ size <= Capacity
        /\ Capacity \in Nat /\ size \in Nat /\ last \in Nat /\ last <= block /\ at \in Nat
        /\ block \in 0 .. Capacity
    BY <1>3, PassFacts DEF WalkInv
  <2>3. Served(p)'
    <3>1. \A i \in 1 .. p - 1 : slot[i] \in Fds
      BY <2>1, <2>2 DEF Walk, Served
    <3> QED
      BY <3>1, <2>1, <1>1 DEF Walk, Served
  <2>4. (Unbroken(p) \/ Broken(p))'
    <3>1. \A k \in at .. last : k \in 1 .. Capacity
      BY <2>1, <2>2
    <3>2. \A k \in at .. last : slot[k] \in Fds
      BY <2>2, <3>1
    <3> QED
      BY <2>1, <3>2, <1>1 DEF Walk, Unbroken, Broken
  <2> QED
    BY <2>1, <2>3, <2>4, <1>3 DEF Walk, WalkInv, PassInv
<1>4. PassInv'
  BY <1>1, <1>3 DEF PassInv
<1> QED
  BY <1>2, <1>4

\* A client that is pushed while a pass walks comes behind those it has served.
LEMMA PutWalk ==
  ASSUME WalkInv, Put \/ Grow
  PROVE  PassInv' /\ StaleInv'
<1> SUFFICES ASSUME Passing'
             PROVE  /\ (block = Capacity /\ Len(roster) = last)'
                    /\ \E p \in 1 .. at' : Walk(p)'
                    /\ StaleInv'
  BY DEF PassInv, StaleInv
<1>1. /\ lpc = "store" /\ size = lsize /\ size' = size + 1
      /\ UNCHANGED <<owner, spc, at, last, block, cur, erase, roster, served, failed, misclosed>>
      /\ ~raced /\ (Put \/ spc = "idle")
  BY DEF Put, Grow, PutReturns, kernel, sender, Passing, Clean
<1>2. spc \in {"loop", "remove", "close"} /\ Passing /\ Put
  <2>1. spc = "shrink" => erase.size <= size /\ erase.size # size + 1
    <3>1. spc = "shrink" => erase.size <= size
      BY <1>1 DEF Passing, Clean, WalkInv, IInv, RegistryInv, Shrinking
    <3> QED
      BY <3>1, PassFacts DEF WalkInv
  <2> QED
    BY <2>1, <1>1 DEF Passing, Clean
<1>3. Capacity' = Capacity
  BY <1>2, PutTypes DEF WalkInv, IInv
<1>4. /\ Capacity \in Nat /\ size \in Nat /\ last \in Nat /\ last <= block /\ at \in Nat
      /\ Staying = size /\ Staying' = size + 1 /\ Erasing' = Erasing /\ Few' = Few
  BY <1>1, <1>2, PassFacts DEF WalkInv, Staying, Erasing, Few
<1>5. DOMAIN slot = 1 .. Capacity
  BY Slots DEF WalkInv, IInv, TypeInv
<1>6. /\ slot' = [slot EXCEPT ![size + 1] = lfd] /\ size + 1 \in 1 .. Capacity
      /\ \A k \in 1 .. Capacity : slot'[k] = IF k = size + 1 THEN lfd ELSE slot[k]
  BY <1>1, <1>2, <1>4, <1>5 DEF Put, HasRoom
<1>7. \A i \in 1 .. size : slot[i] # lfd
  <2>1. lfd \in Pending
    BY <1>1 DEF Pending
  <2>2. \E more : lfd \in more /\ Holds(slot, owner, size, more)
    BY <1>2, <2>1, PassFacts DEF WalkInv
  <2> QED
    BY <2>2 DEF Holds
<1>8. block = Capacity /\ Len(roster) = last /\ \E p \in 1 .. at : Walk(p)
  BY <1>2 DEF WalkInv, PassInv
<1>9. PICK p \in 1 .. at : Walk(p)
  BY <1>8
<1>10. p - 1 <= size /\ p \in Nat /\ 1 <= p
  BY <1>4, <1>9 DEF Walk, Served
<1>11. \A i \in 1 .. p - 1 : slot'[i] = slot[i] /\ slot[i] # lfd /\ i \in 1 .. Capacity
  BY <1>4, <1>6, <1>7, <1>10
<1>12. Served(p)'
  <2>1. p - 1 <= size + 1 /\ p <= last + 1
    BY <1>4, <1>9, <1>10 DEF Walk, Served
  <2>2. ASSUME NEW i \in 1 .. p - 1, NEW k \in p .. last
        PROVE  slot'[k] # slot'[i]
    <3>1. k \in 1 .. Capacity
      BY <1>4, <1>8, <1>10
    <3>2. slot[k] # slot[i]
      BY <1>9 DEF Walk, Served
    <3> QED
      BY <3>1, <3>2, <1>6, <1>11
  <2>3. ASSUME NEW i \in 1 .. p - 1
        PROVE  /\ owner[slot[i]] = roster[i] /\ roster[i] \in Clients
               /\ served[roster[i]] = 1 /\ roster[i] \notin failed
               /\ Erasing => slot[i] # cur
    BY <1>9 DEF Walk, Served
  <2> QED
    BY <2>1, <2>2, <2>3, <1>1, <1>4, <1>11 DEF Served
<1>13. (Unbroken(p) \/ Broken(p))'
  <2>1. CASE Unbroken(p)
    <3>1. \A k \in at .. last : slot'[k] = slot[k]
      BY <2>1, <1>4, <1>6, <1>9, <1>10, <1>8 DEF Unbroken
    <3>2. last <= size + 1
      BY <2>1, <1>4 DEF Unbroken
    <3> QED
      BY <2>1, <3>1, <3>2, <1>1 DEF Unbroken
  <2>2. CASE Broken(p)
    BY <2>2, <1>1 DEF Broken
  <2> QED
    BY <2>1, <2>2, <1>9 DEF Walk
<1>14. StaleInv'
  <2> SUFFICES ASSUME Few
               PROVE  /\ spc = "loop" =>
                           \A k \in at .. last : \E j \in 1 .. size + 1 : slot'[k] = slot'[j]
                      /\ spc = "remove" => cur = slot'[at] /\ last <= size + 1
                      /\ spc = "close" =>
                           /\ erase.kept < erase.size
                           /\ \A k \in at + 1 .. last : \E j \in 1 .. size + 1 : slot'[k] = slot'[j]
    BY <1>1, <1>2, <1>4 DEF StaleInv
  <2>1. ASSUME NEW k \in at .. last, \E j \in 1 .. size : slot[k] = slot[j]
        PROVE  \E j \in 1 .. size + 1 : slot'[k] = slot'[j]
    <3>1. k \in 1 .. Capacity
      BY <1>4, <1>8, <1>10
    <3>2. CASE k = size + 1
      BY <3>2, <1>6
    <3>3. CASE k # size + 1
      <4>1. PICK j \in 1 .. size : slot[k] = slot[j]
        BY <2>1
      <4>2. slot'[k] = slot[k] /\ slot'[j] = slot[j] /\ j \in 1 .. size + 1
        BY <3>1, <3>3, <1>4, <1>6
      <4> QED
        BY <4>1, <4>2
    <3> QED
      BY <3>2, <3>3
  <2>2. CASE spc = "loop"
    BY <2>1, <2>2, <1>2 DEF WalkInv, StaleInv
  <2>3. CASE spc = "remove"
    <3>1. cur = slot[at] /\ last <= size
      BY <2>3, <1>2 DEF WalkInv, StaleInv
    <3>2. at <= last /\ 1 <= at
      BY <2>3, PassFacts DEF WalkInv, IInv, TypeInv, LocalsInv
    <3>3. slot'[at] = slot[at]
      BY <3>1, <3>2, <1>4, <1>6, <1>8
    <3> QED
      BY <2>3, <3>1, <3>3, <1>4
  <2>4. CASE spc = "close"
    <3>1. /\ erase.kept < erase.size
          /\ \A k \in at + 1 .. last : \E j \in 1 .. size : slot[k] = slot[j]
      BY <2>4, <1>2, <1>4 DEF WalkInv, StaleInv
    <3>2. \A k \in at + 1 .. last : k \in at .. last
      BY <1>4
    <3> QED
      BY <2>4, <3>1, <3>2, <2>1
  <2> QED
    BY <2>2, <2>3, <2>4, <1>2
<1> QED
  BY <1>1, <1>3, <1>8, <1>9, <1>12, <1>13, <1>14 DEF Walk

\* A pass begins at its first slot with the live entries ahead of it.
LEMMA BeginWalk ==
  ASSUME WalkInv, Begin
  PROVE  PassInv' /\ StaleInv'
<1> SUFFICES ASSUME Passing'
             PROVE  /\ (block = Capacity /\ Len(roster) = last)'
                    /\ \E p \in 1 .. at' : Walk(p)'
                    /\ StaleInv'
  BY DEF PassInv, StaleInv
<1>1. /\ spc = "idle" /\ lpc # "destroyed" /\ spc' = "loop" /\ at' = 1 /\ last' = size
      /\ block' = Capacity /\ roster' = [i \in 1 .. size |-> owner[slot[i]]]
      /\ UNCHANGED <<slot, size, owner, served, failed, raced, misclosed>>
  BY DEF Begin, Running, End, vector, kernel
<1>2. /\ Capacity \in Nat /\ size \in Nat /\ size <= Capacity /\ Capacity' = Capacity
      /\ \A i \in 1 .. size : slot[i] \in Fds
  BY <1>1, PassFacts DEF WalkInv, Capacity
<1>3. Len(roster') = last'
  BY <1>1, <1>2
<1>4. failed = {} /\ \A c \in Clients : served[c] = 0
  BY <1>1 DEF WalkInv, IdleInv
<1>5. \A k \in 1 .. size : owner[slot[k]] \in Clients
  <2>1. Holds(slot, owner, size, Pending)
    BY <1>1 DEF Passing, Clean, WalkInv, IInv, RegistryInv, Resting
  <2> QED
    BY <2>1, <1>2 DEF Holds
<1>6. Served(1)'
  <2>1. 1 - 1 <= Staying'
    BY <1>1, <1>2 DEF Staying
  <2> QED
    BY <2>1, <1>1, <1>2 DEF Served
<1>7. Unbroken(1)'
  BY <1>1, <1>2, <1>4, <1>5 DEF Unbroken
<1>8. StaleInv'
  BY <1>1 DEF StaleInv
<1> QED
  BY <1>1, <1>2, <1>3, <1>6, <1>7, <1>8 DEF Walk

\* The slot a pass is at, as long as nothing disturbs it.
LEMMA AtSlot ==
  ASSUME WalkInv, Passing, spc = "loop", at <= last
  PROVE  /\ Fetched = {slot[at]} /\ slot[at] \in Fds /\ at \in 1 .. Capacity
         /\ block = Capacity /\ Len(roster) = last
  BY PassFacts DEF WalkInv, PassInv, Fetched

\* A client ahead is served once; one behind the first failure may be served again.
LEMMA SendOneWalk ==
  ASSUME WalkInv, SendOne
  PROVE  PassInv' /\ StaleInv'
<1> SUFFICES ASSUME Passing'
             PROVE  /\ (block = Capacity /\ Len(roster) = last)'
                    /\ \E p \in 1 .. at' : Walk(p)'
                    /\ StaleInv'
  BY DEF PassInv, StaleInv
<1> DEFINE fd == slot[at]
<1>1. /\ spc = "loop" /\ at <= last /\ at' = at + 1
      /\ UNCHANGED <<slot, size, owner, spc, last, block, cur, erase, roster, failed, raced,
                     misclosed>>
  BY DEF SendOne, vector, kernel
<1>2. Passing /\ Staying = size /\ Staying' = size /\ ~Erasing /\ ~Erasing' /\ Capacity' = Capacity
      /\ Few' = Few
  BY <1>1 DEF Passing, Clean, Staying, Erasing, Capacity, Few
<1>3. fd \in Fds /\ at \in 1 .. Capacity /\ block = Capacity /\ Len(roster) = last
  BY <1>1, <1>2, AtSlot
<1>4. owner[fd] \in Clients /\ served' = [served EXCEPT ![owner[fd]] = @ + 1]
  <2>1. \E f \in Fetched : Stands(f) = "up" /\ served' = [served EXCEPT ![owner[f]] = @ + 1]
    BY DEF SendOne
  <2>2. Fetched = {fd}
    BY <1>1, <1>2, AtSlot
  <2> QED
    BY <2>1, <2>2 DEF Stands
<1>5. \A c \in Clients : served'[c] = IF c = owner[fd] THEN served[c] + 1 ELSE served[c]
  BY <1>4 DEF WalkInv, IInv, TypeInv, TypeOK
<1>6. /\ size \in Nat /\ last \in Nat /\ at \in Nat /\ 1 <= at
      /\ size <= Capacity /\ Capacity \in Nat
      /\ \A i \in 1 .. Capacity : slot[i] \in Fds
  BY PassFacts DEF WalkInv
<1> HIDE DEF fd
<1>7. PICK p \in 1 .. at : Walk(p)
  BY <1>2 DEF WalkInv, PassInv
<1>8. p - 1 <= size /\ p \in Nat /\ 1 <= p /\ p <= last + 1
  BY <1>2, <1>6, <1>7 DEF Walk, Served
<1>9. ASSUME NEW i \in 1 .. p - 1
      PROVE  /\ owner[slot[i]] = roster[i] /\ roster[i] \in Clients /\ served'[roster[i]] = 1
             /\ roster[i] \notin failed /\ \A k \in p .. last : slot[k] # slot[i]
  <2>1. /\ owner[slot[i]] = roster[i] /\ roster[i] \in Clients /\ served[roster[i]] = 1
        /\ roster[i] \notin failed /\ \A k \in p .. last : slot[k] # slot[i]
    BY <1>7 DEF Walk, Served
  <2>2. fd # slot[i]
    BY <2>1, <1>1, <1>7, <1>6 DEF fd
  <2>3. i \in 1 .. Capacity
    BY <1>6, <1>8
  <2>4. owner[fd] # roster[i]
    BY <2>1, <2>2, <2>3, <1>3, <1>4, <1>6 DEF WalkInv, OwnerInv
  <2> QED
    BY <2>1, <2>4, <1>5
<1>10. ASSUME Unbroken(p) PROVE Served(p + 1)' /\ Unbroken(p + 1)'
  <2>1. /\ p = at /\ last <= size /\ failed = {}
        /\ \A k \in at .. last :
             owner[slot[k]] = roster[k] /\ roster[k] \in Clients /\ served[roster[k]] = 0
    BY <1>10 DEF Unbroken
  <2>2. \A k \in at + 1 .. last : /\ k \in at .. last /\ k \in 1 .. size
                                  /\ at \in 1 .. size /\ k # at
    BY <2>1, <1>1, <1>6
  <2>3. \A k \in at + 1 .. last : slot[k] # fd
    <3>1. Holds(slot, owner, size, Pending)
      BY <1>1, <1>2, PassFacts DEF WalkInv
    <3> QED
      BY <3>1, <2>2 DEF Holds, fd
  <2>4. \A k \in at + 1 .. last : slot[k] \in Fds
    BY <2>2, <1>6
  <2>5. \A k \in at + 1 .. last : roster[k] # owner[fd]
    BY <2>1, <2>2, <2>3, <2>4, <1>3 DEF WalkInv, OwnerInv
  <2>6. Unbroken(p + 1)'
    BY <2>1, <2>2, <2>5, <1>1, <1>5 DEF Unbroken
  <2>7. at \in at .. last /\ owner[fd] = roster[at] /\ served'[roster[at]] = 1
    BY <2>1, <1>1, <1>5, <1>6 DEF fd
  <2>8. \A i \in 1 .. p + 1 - 1 : i \in 1 .. p - 1 \/ i = at
    BY <2>1, <1>6
  <2>9. \A k \in p + 1 .. last : k \in p .. last /\ k \in at + 1 .. last
    BY <2>1, <1>6
  <2>10. p + 1 - 1 <= size /\ p + 1 <= last + 1
    BY <2>1, <1>1, <1>6
  <2>11. ASSUME NEW i \in 1 .. p + 1 - 1
         PROVE  /\ owner[slot[i]] = roster[i] /\ roster[i] \in Clients /\ served'[roster[i]] = 1
                /\ roster[i] \notin failed /\ \A k \in p + 1 .. last : slot[k] # slot[i]
    <3>1. CASE i \in 1 .. p - 1
      BY <3>1, <2>9, <1>9
    <3>2. CASE i = at
      BY <3>2, <2>1, <2>3, <2>7, <2>9 DEF fd
    <3> QED
      BY <3>1, <3>2, <2>8
  <2>12. Served(p + 1)'
    BY <2>10, <2>11, <1>1, <1>2 DEF Served
  <2> QED
    BY <2>6, <2>12
<1>11. ASSUME Broken(p) PROVE Served(p)' /\ Broken(p)'
  <2>1. Broken(p)'
    BY <1>1, <1>11 DEF Broken
  <2>2. Served(p)'
    BY <1>1, <1>2, <1>8, <1>9 DEF Served
  <2> QED
    BY <2>1, <2>2
<1>12. p \in 1 .. at' /\ p + 1 \in 1 .. at'
  BY <1>1, <1>6, <1>7
<1>13. \E q \in 1 .. at' : Walk(q)'
  BY <1>7, <1>10, <1>11, <1>12 DEF Walk
<1>14. StaleInv'
  <2>1. \A k \in at + 1 .. last : k \in at .. last
    BY <1>6
  <2> QED
    BY <2>1, <1>1, <1>2 DEF WalkInv, StaleInv
<1> QED
  BY <1>1, <1>2, <1>3, <1>13, <1>14

\* The first failure is at a slot that is live; a second one counts.
LEMMA SendFailsWalk ==
  ASSUME WalkInv, SendFails
  PROVE  PassInv' /\ StaleInv'
<1> SUFFICES ASSUME Passing'
             PROVE  /\ (block = Capacity /\ Len(roster) = last)'
                    /\ \E p \in 1 .. at' : Walk(p)'
                    /\ StaleInv'
  BY DEF PassInv, StaleInv
<1> DEFINE fd == slot[at]
<1>1. /\ spc = "loop" /\ spc' = "remove" /\ at <= last
      /\ UNCHANGED <<slot, size, owner, at, last, block, erase, roster, served, raced, misclosed>>
  BY DEF SendFails, vector, kernel
<1>2. Passing /\ Staying = size /\ Staying' = size /\ Capacity' = Capacity
  BY <1>1 DEF Passing, Clean, Staying, Capacity
<1>3. fd \in Fds /\ at \in 1 .. Capacity /\ block = Capacity /\ Len(roster) = last
  BY <1>1, <1>2, AtSlot
<1>4. cur' = fd /\ failed' = failed \union ({owner[fd]} \intersect Clients)
  <2>1. \E f \in Fetched : cur' = f /\ failed' = failed \union ({owner[f]} \intersect Clients)
    BY DEF SendFails
  <2>2. Fetched = {fd}
    BY <1>1, <1>2, AtSlot
  <2> QED
    BY <2>1, <2>2
<1>5. /\ size \in Nat /\ last \in Nat /\ at \in Nat /\ 1 <= at
      /\ size <= Capacity /\ Capacity \in Nat
      /\ \A i \in 1 .. Capacity : slot[i] \in Fds
  BY PassFacts DEF WalkInv
<1> HIDE DEF fd
<1>6. PICK p \in 1 .. at : Walk(p)
  BY <1>2 DEF WalkInv, PassInv
<1>7. p - 1 <= size /\ p \in Nat /\ 1 <= p /\ p <= last + 1 /\ at \in p .. last
  BY <1>1, <1>2, <1>5, <1>6 DEF Walk, Served
<1>8. ASSUME NEW i \in 1 .. p - 1
      PROVE  /\ owner[slot[i]] = roster[i] /\ roster[i] \in Clients /\ served[roster[i]] = 1
             /\ roster[i] \notin failed' /\ \A k \in p .. last : slot[k] # slot[i]
             /\ slot[i] # fd
  <2>1. /\ owner[slot[i]] = roster[i] /\ roster[i] \in Clients /\ served[roster[i]] = 1
        /\ roster[i] \notin failed /\ \A k \in p .. last : slot[k] # slot[i]
    BY <1>6 DEF Walk, Served
  <2>2. fd # slot[i]
    BY <2>1, <1>7 DEF fd
  <2>3. i \in 1 .. Capacity
    BY <1>5, <1>7
  <2>4. owner[fd] # roster[i]
    BY <2>1, <2>2, <2>3, <1>3, <1>5 DEF WalkInv, OwnerInv
  <2> QED
    BY <2>1, <2>2, <2>4, <1>4
<1>9. Served(p)'
  BY <1>1, <1>2, <1>4, <1>7, <1>8 DEF Served
<1>10. Broken(p)'
  <2>1. CASE Unbroken(p)
    <3>1. p = at /\ owner[fd] = roster[at] /\ roster[at] \in Clients
      BY <2>1, <1>7 DEF Unbroken, fd
    <3> QED
      BY <3>1, <1>1, <1>4 DEF Broken
  <2>2. CASE Broken(p)
    BY <2>2, <1>1, <1>4 DEF Broken
  <2> QED
    BY <2>1, <2>2, <1>6 DEF Walk
<1>11. StaleInv'
  <2> SUFFICES ASSUME Few' PROVE cur' = slot[at] /\ last <= size
    BY <1>1 DEF StaleInv
  <2>1. Few
    BY <1>4 DEF Few
  <2>2. PICK j \in 1 .. size : slot[at] = slot[j]
    <3>1. at \in at .. last
      BY <1>1, <1>5
    <3> QED
      BY <3>1, <2>1, <1>1, <1>2 DEF WalkInv, StaleInv
  <2>3. owner[fd] \in Clients
    <3>1. Holds(slot, owner, size, Pending)
      BY <1>1, <1>2, PassFacts DEF WalkInv
    <3> QED
      BY <3>1, <2>2, <1>3 DEF Holds, fd
  <2>4. owner[fd] \notin failed
    BY <1>1, <1>3 DEF WalkInv, OwnerInv
  <2>5. failed = {}
    BY <2>3, <2>4, <1>4 DEF Few
  <2>6. Unbroken(p)
    BY <2>5, <1>6 DEF Walk, Broken
  <2> QED
    BY <2>6, <1>4 DEF Unbroken, fd
<1> QED
  BY <1>1, <1>2, <1>3, <1>6, <1>9, <1>10, <1>11 DEF Walk

\* In front of the first entry that goes std::remove moves nothing, and what it
\* moves comes from behind.
LEMMA MovedBehind ==
  ASSUME TypeOK, NEW p \in Nat \ {0}, p - 1 <= size, \A i \in 1 .. p - 1 : slot[i] # cur
  PROVE  /\ p - 1 <= Cardinality(Others)
         /\ \A i \in 1 .. p - 1 : Ith(i) = i
         /\ \A k \in 1 .. Cardinality(Others) : k >= p => Ith(k) >= p
<1> DEFINE kept == Cardinality(Others)
<1>1. /\ kept \in 0 .. size
      /\ \A i \in 1 .. kept : Ith(i) \in Others /\ Rank(Others, Ith(i)) = i
      /\ \A j \in Others : \E i \in 1 .. kept : Ith(i) = j
  BY Moved
<1>2. size \in Nat /\ Others \in SUBSET (1 .. size)
  BY Slots DEF Others
<1>3. \A i \in 1 .. p - 1 : i \in Others
  BY <1>2 DEF Others
<1> HIDE DEF kept
<1>4. \A i \in 1 .. p - 1 : Rank(Others, i) = i
  <2> TAKE i \in 1 .. p - 1
  <2>1. {j \in Others : j <= i} = 1 .. i
    <3>1. \A j \in 1 .. i : j \in 1 .. p - 1 /\ j <= i
      OBVIOUS
    <3>2. \A j \in Others : j \in Nat /\ 1 <= j
      BY <1>2
    <3> QED
      BY <3>1, <3>2, <1>3
  <2>2. Cardinality(1 .. i) = i
    BY FS_Interval
  <2> QED
    BY <2>1, <2>2 DEF Rank
<1>5. \A i \in 1 .. p - 1 : i \in 1 .. kept /\ Ith(i) = i
  <2> TAKE i \in 1 .. p - 1
  <2>1. PICK k \in 1 .. kept : Ith(k) = i
    BY <1>1, <1>3
  <2>2. k = i
    BY <2>1, <1>1, <1>4
  <2> QED
    BY <2>1, <2>2
<1>6. p - 1 <= kept
  <2>1. CASE p = 1
    BY <2>1, <1>1, <1>2
  <2>2. CASE p # 1
    <3>1. p - 1 \in 1 .. p - 1
      BY <2>2
    <3> QED
      BY <3>1, <1>5
  <2> QED
    BY <2>1, <2>2
<1>7. ASSUME NEW k \in 1 .. kept, k >= p PROVE Ith(k) >= p
  <2>1. Ith(k) \in 1 .. size /\ Rank(Others, Ith(k)) = k
    BY <1>1, <1>2
  <2>2. Ith(k) < p => Ith(k) \in 1 .. p - 1
    BY <2>1, <1>2
  <2>3. ~(Ith(k) < p)
    BY <2>1, <2>2, <1>4, <1>7
  <2> QED
    BY <2>1, <2>3, <1>2
<1> QED
  BY <1>5, <1>6, <1>7 DEF kept

\* std::remove leaves the served clients where they are, and every slot of the loop
\* a copy of a live one if it removed but one.
LEMMA EraseWalk ==
  ASSUME WalkInv, Erase
  PROVE  PassInv' /\ StaleInv'
<1> SUFFICES ASSUME Passing'
             PROVE  /\ (block = Capacity /\ Len(roster) = last)'
                    /\ \E p \in 1 .. at' : Walk(p)'
                    /\ StaleInv'
  BY DEF PassInv, StaleInv
<1> DEFINE kept == Cardinality(Others)
<1>1. /\ Capacity' = Capacity
      /\ erase' = [block |-> Capacity, size |-> size, kept |-> kept]
      /\ \A i \in 1 .. Capacity : slot'[i] = IF i <= kept THEN slot[Ith(i)] ELSE slot[i]
      /\ spc = "remove" /\ spc' = "shrink"
      /\ UNCHANGED <<size, kernel, stopping, listener, at, last, block, cur, sends, history>>
  BY EraseTypes DEF WalkInv, IInv
<1>2. UNCHANGED <<size, owner, at, last, block, cur, roster, served, failed, raced, misclosed>>
  BY <1>1 DEF kernel, history
<1>3. Passing /\ Staying = size /\ Staying' = kept /\ Few' = Few /\ Erasing
  BY <1>1, <1>2 DEF Passing, Clean, Staying, Few, Erasing
<1>4. block = Capacity /\ Len(roster) = last /\ \E p \in 1 .. at : Walk(p)
  BY <1>3 DEF WalkInv, PassInv
<1>5. Holds(slot, owner, size, Pending)
  BY <1>1, <1>3, PassFacts DEF WalkInv
<1>6. /\ size \in Nat /\ last \in Nat /\ at \in Nat /\ 1 <= at
      /\ size <= Capacity /\ Capacity \in Nat
      /\ last <= Capacity
  BY <1>4, PassFacts DEF WalkInv
<1>7. /\ kept \in 0 .. size /\ (kept = size => Others = 1 .. size)
      /\ \A i \in 1 .. kept : Ith(i) \in Others
      /\ \A j \in Others : \E i \in 1 .. kept : Ith(i) = j
  BY Moved DEF WalkInv, IInv, TypeInv
<1>8. \A j : j \in Others <=> j \in 1 .. size /\ slot[j] # cur
  BY DEF Others
<1>9. PICK p \in 1 .. at : Walk(p)
  BY <1>4
<1>10. /\ p \in Nat \ {0} /\ p - 1 <= size /\ p <= last + 1
       /\ \A i \in 1 .. p - 1 : slot[i] # cur
  BY <1>3, <1>6, <1>9 DEF Walk, Served
<1>11. /\ p - 1 <= kept /\ \A i \in 1 .. p - 1 : Ith(i) = i
       /\ \A k \in 1 .. kept : k >= p => Ith(k) >= p
  BY <1>10, MovedBehind DEF WalkInv, IInv, TypeInv
<1> HIDE DEF kept
<1>12. \A i \in 1 .. p - 1 : slot'[i] = slot[i] /\ i \in 1 .. size
  <2> TAKE i \in 1 .. p - 1
  <2>1. i \in 1 .. Capacity /\ i <= kept /\ i \in 1 .. size
    BY <1>6, <1>7, <1>10, <1>11
  <2> QED
    BY <2>1, <1>1, <1>11
<1>13. ASSUME NEW i \in 1 .. p - 1, NEW k \in p .. last
       PROVE  slot'[k] # slot[i]
  <2>1. k \in 1 .. Capacity
    BY <1>6, <1>10
  <2>2. CASE k <= kept
    <3>1. k \in 1 .. kept /\ k >= p
      BY <2>1, <2>2, <1>7
    <3>2. Ith(k) >= p /\ Ith(k) \in 1 .. size /\ slot'[k] = slot[Ith(k)]
      BY <3>1, <2>1, <2>2, <1>1, <1>7, <1>8, <1>11
    <3>3. Ith(k) # i
      BY <3>2, <1>10
    <3> QED
      BY <3>2, <3>3, <1>5, <1>12 DEF Holds
  <2>3. CASE ~(k <= kept)
    <3>1. slot'[k] = slot[k]
      BY <2>1, <2>3, <1>1
    <3> QED
      BY <3>1, <1>9 DEF Walk, Served
  <2> QED
    BY <2>2, <2>3
<1>14. Served(p)'
  <2>1. ASSUME NEW i \in 1 .. p - 1
        PROVE  /\ owner[slot[i]] = roster[i] /\ roster[i] \in Clients
               /\ served[roster[i]] = 1 /\ roster[i] \notin failed
    BY <1>9 DEF Walk, Served
  <2> QED
    BY <2>1, <1>2, <1>3, <1>10, <1>11, <1>12, <1>13 DEF Served
<1>15. Broken(p)'
  BY <1>1, <1>2, <1>9 DEF Walk, Unbroken, Broken
<1>16. StaleInv'
  <2> SUFFICES ASSUME Few
               PROVE  /\ kept < size
                      /\ \A k \in at + 1 .. last : \E j \in 1 .. kept : slot'[k] = slot'[j]
    BY <1>1, <1>2, <1>3 DEF StaleInv
  <2>1. cur = slot[at] /\ last <= size
    BY <1>1, <1>3 DEF WalkInv, StaleInv
  <2>2. at <= last
    BY <1>1 DEF WalkInv, IInv, TypeInv, LocalsInv
  <2>3. at \in 1 .. size /\ at \notin Others
    BY <2>1, <2>2, <1>6, <1>8
  <2>4. kept < size
    BY <2>3, <1>6, <1>7
  <2>5. ASSUME NEW k \in at + 1 .. last
        PROVE  \E j \in 1 .. kept : slot'[k] = slot'[j]
    <3>1. k \in 1 .. size /\ k \in 1 .. Capacity /\ k # at
      BY <2>1, <1>6
    <3>2. CASE k <= kept
      <4>1. k \in 1 .. kept
        BY <3>1, <3>2, <1>7
      <4> QED
        BY <4>1
    <3>3. CASE ~(k <= kept)
      <4>1. slot[k] # cur
        BY <3>1, <2>1, <2>3, <1>5 DEF Holds
      <4>2. PICK j \in 1 .. kept : Ith(j) = k
        BY <4>1, <3>1, <1>7, <1>8
      <4>3. j \in 1 .. Capacity /\ j <= kept
        BY <1>6, <1>7
      <4>4. slot'[j] = slot[k] /\ slot'[k] = slot[k]
        BY <4>2, <4>3, <3>1, <3>3, <1>1
      <4> QED
        BY <4>4
    <3> QED
      BY <3>2, <3>3
  <2> QED
    BY <2>4, <2>5
<1> QED
  BY <1>1, <1>2, <1>4, <1>9, <1>14, <1>15, <1>16 DEF Walk

\* The end's store makes the entries that stay the live ones.
LEMMA ShrinkWalk ==
  ASSUME WalkInv, Shrink
  PROVE  PassInv' /\ StaleInv'
<1> SUFFICES ASSUME Passing'
             PROVE  /\ (block = Capacity /\ Len(roster) = last)'
                    /\ \E p \in 1 .. at' : Walk(p)'
                    /\ StaleInv'
  BY DEF PassInv, StaleInv
<1>1. /\ spc = "shrink" /\ spc' = "close" /\ size' = erase.kept /\ erase.size = size
      /\ UNCHANGED <<slot, owner, at, last, block, cur, erase, roster, served, failed, misclosed>>
      /\ ~raced
  BY DEF Shrink, kernel, Passing, Clean
<1>2. /\ Passing /\ Staying' = Staying /\ Capacity' = Capacity /\ Few' = Few
      /\ Erasing /\ Erasing'
  BY <1>1 DEF Passing, Clean, Staying, Capacity, Few, Erasing
<1>3. block = Capacity /\ Len(roster) = last /\ \E p \in 1 .. at : Walk(p)
  BY <1>2 DEF WalkInv, PassInv
<1>4. PICK p \in 1 .. at : Walk(p)
  BY <1>3
<1>5. Served(p)'
  BY <1>1, <1>2, <1>4 DEF Walk, Served
<1>6. Broken(p)'
  BY <1>1, <1>4 DEF Walk, Unbroken, Broken
<1>7. StaleInv'
  BY <1>1, <1>2 DEF WalkInv, StaleInv
<1> QED
  BY <1>1, <1>2, <1>3, <1>4, <1>5, <1>6, <1>7 DEF Walk

\* The descriptor that is closed is none of those served.
LEMMA CloseWalk ==
  ASSUME WalkInv, Close
  PROVE  PassInv' /\ StaleInv'
<1> SUFFICES ASSUME Passing'
             PROVE  /\ (block = Capacity /\ Len(roster) = last)'
                    /\ \E p \in 1 .. at' : Walk(p)'
                    /\ StaleInv'
  BY DEF PassInv, StaleInv
<1>1. /\ spc = "close" /\ spc' = "loop" /\ at' = at + 1 /\ owner' = [owner EXCEPT ![cur] = Nobody]
      /\ UNCHANGED <<slot, size, last, block, roster, served, failed, raced>>
      /\ ~misclosed
  BY DEF Close, Freed, NextSlot, vector, Passing, Clean
<1>2. /\ Passing /\ Staying' = Staying /\ Staying = size /\ Capacity' = Capacity /\ Few' = Few
      /\ Erasing /\ ~Erasing'
  BY <1>1 DEF Passing, Clean, Staying, Capacity, Few, Erasing
<1>3. block = Capacity /\ Len(roster) = last /\ \E p \in 1 .. at : Walk(p)
  BY <1>2 DEF WalkInv, PassInv
<1>4. PICK p \in 1 .. at : Walk(p)
  BY <1>3
<1>5. /\ size \in Nat /\ at \in Nat /\ size <= Capacity /\ Capacity \in Nat
      /\ \A i \in 1 .. Capacity : slot[i] \in Fds
      /\ owner \in [Fds -> Clients \union {Nobody, Other}]
  BY PassFacts DEF WalkInv, IInv, TypeInv, TypeOK
<1>6. ASSUME NEW i \in 1 .. p - 1
      PROVE  /\ owner'[slot[i]] = roster[i] /\ roster[i] \in Clients
             /\ served[roster[i]] = 1 /\ roster[i] \notin failed
             /\ \A k \in p .. last : slot[k] # slot[i]
  <2>1. /\ owner[slot[i]] = roster[i] /\ roster[i] \in Clients
        /\ served[roster[i]] = 1 /\ roster[i] \notin failed
        /\ slot[i] # cur /\ \A k \in p .. last : slot[k] # slot[i]
    BY <1>2, <1>4 DEF Walk, Served
  <2>2. p - 1 <= size
    BY <1>2, <1>4 DEF Walk, Served
  <2>3. slot[i] \in Fds
    <3>1. i \in 1 .. Capacity
      BY <2>2, <1>4, <1>5
    <3> QED
      BY <3>1, <1>5
  <2> QED
    BY <2>1, <2>3, <1>1, <1>5
<1>7. Served(p)'
  BY <1>1, <1>2, <1>4, <1>6 DEF Walk, Served
<1>8. Broken(p)'
  BY <1>1, <1>4 DEF Walk, Unbroken, Broken
<1>9. StaleInv'
  BY <1>1, <1>2 DEF WalkInv, StaleInv
<1>10. p \in 1 .. at'
  BY <1>1, <1>5
<1> QED
  BY <1>1, <1>2, <1>3, <1>7, <1>8, <1>9, <1>10 DEF Walk

\* Every step keeps what is known of a pass.
LEMMA WalkStep == WalkInv /\ RegistryInv' /\ TypeInv' /\ [Next]_vars => WalkInv'
<1> SUFFICES ASSUME WalkInv, [Next]_vars PROVE PassInv' /\ StaleInv'
  BY OwnerStep, IdleStep DEF WalkInv, IInv
<1>1. ASSUME UNCHANGED <<slot, size, sender, history>>,
             Accept \/ OtherFile \/ UNCHANGED owner
      PROVE  PassInv' /\ StaleInv'
  <2>1. \A f \in Fds : owner[f] \in Clients => owner'[f] = owner[f]
    <3>1. owner \in [Fds -> Clients \union {Nobody, Other}]
      BY DEF WalkInv, IInv, TypeInv, TypeOK
    <3>2. CASE Accept
      BY <3>1, <3>2, ConstantsAssumption DEF Accept, Free
    <3>3. CASE OtherFile
      BY <3>1, <3>3, ConstantsAssumption DEF OtherFile
    <3> QED
      BY <3>2, <3>3, <1>1
  <2> QED
    BY <2>1, <1>1, QuietWalk
<1>2. CASE Return
  BY <1>2 DEF Return, PassInv, StaleInv, Passing
<1>3. CASE Destroy
  BY <1>3 DEF Destroy, sender, PassInv, StaleInv, Passing
<1>4. CASE Listen
  BY <1>1, <1>4, PutWalk DEF Listen, Setup, Test, AcceptInterrupted, Load, vector, kernel
<1>5. CASE Accept \/ AcceptFails \/ Disconnect \/ OtherFile \/ Signal \/ UNCHANGED vars
  BY <1>1, <1>5 DEF Accept, AcceptFails, Disconnect, OtherFile, Signal, vars, vector, kernel
<1> QED
  BY <1>2, <1>3, <1>4, <1>5, BeginWalk, SendOneWalk, SendFailsWalk, EraseWalk, ShrinkWalk,
     CloseWalk DEF Next

(* ------------------------------- theorems ------------------------------- *)

\* The state of the broadcast is well typed: no push_back, erase or pass, however
\* they meet, leaves the vector's end outside its block or the loop's slot beyond
\* the one it stops after.
THEOREM TypeCorrect == Spec => []TypeOK
<1>1. IInv => TypeOK
  BY DEF IInv, TypeInv
<1> QED
  BY <1>1, Invariance, PTL

\* For any clients, descriptors and messages, _dataFds is the set of the connected
\* clients' descriptors, each once, whenever neither push_back nor the erase is
\* half way, and the destructor closes them all, unless the two threads raced or
\* the loop closed a descriptor that was not in the vector.
THEOREM RegistryExactAlways == Spec => []RegistryExact
<1>1. IInv => RegistryExact
  <2> SUFFICES ASSUME IInv, Clean
               PROVE  /\ (lpc \notin {"load", "store", "destroyed"}
                             /\ spc \in {"idle", "loop", "remove"}) =>
                           IsInjective(Live) /\ Range(Live) = Connected
                      /\ lpc = "destroyed" => Connected = {}
    BY DEF RegistryExact, Clean
  <2>1. lpc = "destroyed" => Connected = {}
    BY DEF IInv, RegistryInv, Destroyed
  <2>2. ASSUME lpc \notin {"load", "store", "destroyed"}, spc \in {"idle", "loop", "remove"}
        PROVE  IsInjective(Live) /\ Range(Live) = Connected
    <3>1. Holds(slot, owner, size, {})
      BY <2>2 DEF IInv, RegistryInv, Resting, Pending
    <3>2. /\ DOMAIN Live = 1 .. size
          /\ \A i \in 1 .. size : Live[i] = slot[i] /\ slot[i] \in Fds
      BY LiveSlots, Slots DEF IInv, TypeInv
    <3>3. IsInjective(Live)
      BY <3>1, <3>2 DEF IsInjective, Holds
    <3>4. Range(Live) = Connected
      BY <3>1, <3>2 DEF Range, Connected, Holds
    <3> QED
      BY <3>3, <3>4
  <2> QED
    BY <2>1, <2>2
<1> QED
  BY <1>1, Invariance, PTL

\* Every state of a pass, with the registry.
LEMMA WalkInvariance == Spec => []WalkInv
<1>1. Init => WalkInv
  <2> SUFFICES ASSUME Init PROVE WalkInv
    OBVIOUS
  <2>1. /\ \A f \in Fds : owner[f] \notin Clients
        /\ failed = {} /\ spc = "idle" /\ \A c \in Clients : served[c] = 0
    BY ConstantsAssumption DEF Init
  <2>2. OwnerInv /\ IdleInv
    BY <2>1, FS_EmptySet DEF OwnerInv, IdleInv
  <2>3. PassInv /\ StaleInv
    BY <2>1 DEF PassInv, StaleInv, Passing
  <2> QED
    BY <2>2, <2>3, InitInvariant DEF WalkInv
<1>2. WalkInv /\ IInv' /\ [Next]_vars => WalkInv'
  BY WalkStep DEF IInv
<1> QED
  BY <1>1, <1>2, Invariance, PTL DEF Spec

\* For any clients, descriptors and messages: a client that a pass of send() serves
\* twice or not at all, although it stays, is behind one whose send failed in that
\* pass, unless the pass met a growth, a lost update or a foreign descriptor.
THEOREM OncePerPassAlways == Spec => []OncePerPass
<1>1. WalkInv => OncePerPass
  <2> SUFFICES ASSUME WalkInv, ~raced, ~misclosed, spc = "loop", at > last,
                      NEW i \in DOMAIN roster, roster[i] \in Clients \ failed,
                      served[roster[i]] # 1
               PROVE  \E j \in 1 .. i - 1 : roster[j] \in failed
    BY DEF OncePerPass
  <2>1. Len(roster) = last /\ \E p \in 1 .. at : Walk(p)
    BY DEF WalkInv, PassInv, Passing, Clean
  <2>2. PICK p \in 1 .. at : Walk(p)
    BY <2>1
  <2>3. i \in 1 .. last /\ last \in Nat /\ at \in Nat
    BY <2>1, PassFacts, LenProperties DEF WalkInv, IInv, TypeInv, TypeOK
  <2>4. ~(i \in 1 .. p - 1)
    BY <2>2 DEF Walk, Served
  <2>5. Broken(p)
    BY <2>2, <2>3, <2>4 DEF Walk, Unbroken
  <2>6. p # i /\ roster[p] \in failed
    BY <2>5 DEF Broken
  <2>7. p \in 1 .. i - 1
    BY <2>3, <2>4, <2>6
  <2> QED
    BY <2>6, <2>7
<1> QED
  BY <1>1, WalkInvariance, PTL

\* For any clients, descriptors and messages: the loop closes a descriptor that is
\* not the vector's only after two clients have failed in the same pass.
THEOREM MiscloseNeedsTwoAlways == Spec => MiscloseNeedsTwo
<1>1. ASSUME WalkInv, [Next]_vars, misclosed', ~misclosed, ~raced
      PROVE  Cardinality(failed) >= 2
  <2>1. Close
    BY <1>1 DEF Next, Listen, Setup, Test, Accept, AcceptInterrupted, AcceptFails, Load, Put, Grow,
       Begin, SendOne, SendFails, Erase, Shrink, Return, Destroy, Disconnect, OtherFile, Signal,
       vars, history
  <2>2. spc = "close" /\ erase.kept = erase.size /\ Passing
    BY <1>1, <2>1 DEF Close, Passing, Clean
  <2>3. /\ erase.kept \in Nat /\ erase.size \in Nat /\ failed \subseteq Clients
        /\ IsFiniteSet(failed)
    BY <1>1, PassFacts DEF WalkInv, OwnerInv, IInv, TypeInv, TypeOK
  <2>4. ~Few
    BY <1>1, <2>2, <2>3 DEF WalkInv, StaleInv
  <2>5. failed # {} /\ \A c : failed # {c}
    BY <2>3, <2>4 DEF Few
  <2>6. Cardinality(failed) # 0 /\ Cardinality(failed) # 1 /\ Cardinality(failed) \in Nat
    BY <2>3, <2>5, FS_EmptySet, FS_Singleton, FS_CardinalityType
  <2> QED
    BY <2>6
<1>2. WalkInv /\ [Next]_vars
        => [(misclosed' /\ ~misclosed /\ ~raced) => Cardinality(failed) >= 2]_vars
  BY <1>1
<1> QED
  BY <1>2, WalkInvariance, PTL DEF MiscloseNeedsTwo, Spec

(* ------------------------------- the stop ------------------------------- *)

LEMMA StopStep ==
  TypeOK /\ stopping /\ [Next]_vars => UNCHANGED listener \/ StepsLeft' < StepsLeft
<1> SUFFICES ASSUME TypeOK, stopping, [Next]_vars
             PROVE  UNCHANGED listener \/ StepsLeft' < StepsLeft
  OBVIOUS
<1> USE DEF StepsLeft
<1>1. CASE Setup
  BY <1>1 DEF Setup
\* The flag is up: the loop is left.
<1>2. CASE Test
  BY <1>2 DEF Test, Tested
<1>3. CASE Accept \/ AcceptInterrupted \/ AcceptFails
  <2>1. lpc = "accept" /\ lpc' \in {"load", "ended", "failed"}
    BY <1>3 DEF Accept, AcceptInterrupted, AcceptFails
  <2> QED
    BY <2>1
<1>4. CASE Load
  BY <1>4 DEF Load
<1>5. CASE Put \/ Grow
  <2>1. lpc = "store" /\ lpc' = "test"
    BY <1>5 DEF Put, Grow, PutReturns
  <2> QED
    BY <2>1
<1>6. CASE Destroy
  BY <1>6 DEF Destroy
<1>7. CASE Begin \/ SendOne \/ SendFails \/ Erase \/ Shrink \/ Close \/ Return
  BY <1>7 DEF Begin, SendOne, SendFails, Erase, Shrink, Close, Return
<1>8. CASE Disconnect \/ OtherFile \/ Signal
  BY <1>8 DEF Disconnect, OtherFile, Signal
<1>9. CASE UNCHANGED vars
  BY <1>9 DEF vars
<1> QED
  BY <1>1, <1>2, <1>3, <1>4, <1>5, <1>6, <1>7, <1>8, <1>9 DEF Next, Listen

\* For any clients, descriptors and messages: after the flag the listener takes at
\* most five more steps and so registers at most one more client.
THEOREM StopBoundedAlways == Spec => StopBounded
<1>1. TypeOK /\ [Next]_vars
        => [stopping => UNCHANGED listener \/ StepsLeft' < StepsLeft]_vars
  BY StopStep
<1> QED
  BY <1>1, TypeCorrect, PTL DEF Spec, StopBounded
=============================================================================
