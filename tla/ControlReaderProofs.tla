------------------------- MODULE ControlReaderProofs -------------------------
(***************************************************************************)
(* What ControlReader says of the socket's path, proved for any number of  *)
(* processes, starts and clients.                                          *)
(***************************************************************************)
EXTENDS ControlReader, SequenceTheorems, TLAPS

\* What the two invariants need of the types.
Types ==
  /\ pc \in [Instances -> {"down", "exists", "remove", "create", "bind", "listen", "loop",
                           "accept", "read", "close", "destroy", "unlink"}]
  /\ path \in [Instances -> {Socket, Directory}]

\* Left alone, nothing is ever at the path: an instance that starts there has cut its
\* path when it comes to bind.
UnaidedInv ==
  ~aided => /\ at = "nothing"
            /\ \A p \in Instances : /\ pc[p] \in {"down", "exists", "create", "bind"}
                                    /\ pc[p] = "bind" => path[p] = Directory

\* Without overlap one process lives, and what it has bound stays at the path.
AloneInv ==
  ~overlap => /\ \A p, q \in Instances : Up(p) /\ Up(q) => p = q
              /\ \A p \in Instances : Bound(p) => at = p

IInv == Types /\ UnaidedInv /\ AloneInv

LEMMA InitInvariant == Init => IInv
  BY DEF Init, IInv, Types, UnaidedInv, AloneInv, Up, Bound, Listening, Socket, Directory

\* The end of a process where it is, an error of the reader included.
LEMMA EndStep == ASSUME IInv, NEW p \in Instances, Up(p), End(p) PROVE IInv'
<1> USE DEF IInv, Types, Up, Bound, Listening, Socket, Directory, End, Down, Go
<1>1. Types'
  OBVIOUS
<1>2. UnaidedInv'
  BY DEF UnaidedInv
<1>3. AloneInv'
  BY DEF AloneInv
<1> QED
  BY <1>1, <1>2, <1>3

LEMMA InvariantStep == IInv /\ [Next]_vars => IInv'
<1> SUFFICES ASSUME IInv, [Next]_vars PROVE IInv'
  OBVIOUS
<1> USE ControlAssumption DEF IInv, Types, UnaidedInv, AloneInv, Up, Bound, Listening, Go,
       Socket, Directory, kernel, stop, memory, history
<1>1. ASSUME NEW p \in Instances, Start(p) PROVE IInv'
  BY <1>1 DEF Start
<1>2. ASSUME NEW p \in Instances, Exists(p) PROVE IInv'
  BY <1>2 DEF Exists
<1>3. ASSUME NEW p \in Instances, Remove(p) PROVE IInv'
  BY <1>3 DEF Remove
<1>4. ASSUME NEW p \in Instances, Create(p) PROVE IInv'
  BY <1>4 DEF Create, RemoveFilename
<1>5. ASSUME NEW p \in Instances, Bind(p) PROVE IInv'
  BY <1>5 DEF Bind, Bindable
<1>6. ASSUME NEW p \in Instances, BindFails(p) PROVE IInv'
  BY <1>6, EndStep DEF BindFails
<1>7. ASSUME NEW p \in Instances, OpenFails(p) PROVE IInv'
  BY <1>7, EndStep DEF OpenFails
<1>8. ASSUME NEW p \in Instances, ListenerFails(p) PROVE IInv'
  BY <1>8, EndStep DEF ListenerFails
<1>9. ASSUME NEW p \in Instances, Crash(p) PROVE IInv'
  BY <1>9, EndStep DEF Crash
<1>10. ASSUME NEW p \in Instances, Listen(p) PROVE IInv'
  BY <1>10 DEF Listen
<1>11. ASSUME NEW p \in Instances, Loop(p) PROVE IInv'
  BY <1>11 DEF Loop, Test
<1>12. ASSUME NEW p \in Instances, Accept(p) PROVE IInv'
  BY <1>12 DEF Accept
<1>13. ASSUME NEW p \in Instances, Read(p) PROVE IInv'
  BY <1>13 DEF Read
<1>14. ASSUME NEW p \in Instances, CloseData(p) \/ ReadFails(p) PROVE IInv'
  BY <1>14 DEF CloseData, ReadFails
<1>15. ASSUME NEW p \in Instances, Destroy(p) PROVE IInv'
  BY <1>15 DEF Destroy
<1>16. ASSUME NEW p \in Instances, Unlink(p) PROVE IInv'
  BY <1>16 DEF Unlink, Down
<1>17. ASSUME NEW p \in Instances, Stop(p) PROVE IInv'
  BY <1>17 DEF Stop
<1>18. CASE PutFile
  BY <1>18 DEF PutFile
<1>19. ASSUME NEW c \in Clients, Write(c) \/ Leave(c) \/ \E p \in Instances : Connect(c, p)
       PROVE IInv'
  BY <1>19 DEF Write, Leave, Connect
<1>20. CASE UNCHANGED vars
  BY <1>20 DEF vars
<1> QED
  BY <1>1, <1>2, <1>3, <1>4, <1>5, <1>6, <1>7, <1>8, <1>9, <1>10, <1>11, <1>12, <1>13,
     <1>14, <1>15, <1>16, <1>17, <1>18, <1>19, <1>20 DEF Next, Reader

LEMMA Invariance == Spec => []IInv
  BY InitInvariant, InvariantStep, PTL DEF Spec

\* Because remove_filename() cuts _path itself, no process ever listens unless
\* somebody else, or one that crashed, has left something at the path.
THEOREM NeverListensUnaidedAlways == Spec => []NeverListensUnaided
<1>1. IInv => NeverListensUnaided
  BY DEF IInv, UnaidedInv, NeverListensUnaided, Bound, Listening
<1> QED
  BY <1>1, Invariance, PTL

\* A process that listens is at the path while no other is up, whatever crashed,
\* failed or was stopped before it.
THEOREM ReachableAloneAlways == Spec => []ReachableAlone
<1>1. IInv => ReachableAlone
  BY DEF IInv, AloneInv, ReachableAlone, Bound
<1> QED
  BY <1>1, Invariance, PTL

(* --------------------------------- types -------------------------------- *)

Commands == [from : Clients, code : {"NONE", "DISABLE", "ENABLE"}]

\* What the end of a process leaves of it.
LEMMA DownTypes ==
  ASSUME TypeOK, NEW p \in Instances, Down(p), at' \in {"nothing", "file"} \union Instances,
         aided' \in BOOLEAN, UNCHANGED <<text, client, starts, overlap>>
  PROVE  TypeOK'
<1>1. <<>> \in Seq(Clients) /\ <<>> \in Seq(Commands)
  BY EmptySeq
<1> QED
  BY <1>1 DEF TypeOK, Down, Go, Commands

LEMMA EndTypes == ASSUME TypeOK, NEW p \in Instances, End(p) PROVE TypeOK'
<1>1. Down(p) /\ at' = at /\ aided' \in BOOLEAN /\ UNCHANGED <<text, client, starts, overlap>>
  BY DEF End, TypeOK
<1> QED
  BY <1>1, DownTypes DEF TypeOK

\* The actions that only move the control.
LEMMA ControlTypes ==
  ASSUME TypeOK, NEW p \in Instances,
         \/ Start(p) \/ Exists(p) \/ Remove(p) \/ Create(p) \/ Bind(p) \/ Listen(p) \/ Loop(p)
         \/ Stop(p) \/ ReadFails(p)
  PROVE  TypeOK'
<1> USE DEF TypeOK, Go, kernel, stop, memory, history
<1>1. CASE Start(p)
  <2>1. starts' \in 0 .. MaxStarts
    <3>1. MaxStarts \in Nat
      BY ControlAssumption
    <3> QED
      BY <1>1, <3>1 DEF Start
  <2>2. overlap' \in BOOLEAN
    BY <1>1, Zenon DEF Start
  <2>3. /\ pc[p] = "down"
        /\ pc' = [pc EXCEPT ![p] = "exists"]
        /\ UNCHANGED <<kernel, memory, aided>>
    BY <1>1 DEF Start, Up
  <2> QED
    BY <2>1, <2>2, <2>3
<1>2. CASE Exists(p)
  BY <1>2 DEF Exists
<1>3. CASE Remove(p)
  BY <1>3 DEF Remove
<1>4. CASE Create(p)
  BY <1>4 DEF Create, RemoveFilename
<1>5. CASE Bind(p)
  BY <1>5 DEF Bind
<1>6. CASE Listen(p)
  BY <1>6 DEF Listen
<1>7. CASE Loop(p)
  BY <1>7 DEF Loop, Test
<1>8. CASE Stop(p)
  <2>1. /\ stopping' \in [Instances -> BOOLEAN]
        /\ UNCHANGED <<kernel, path, data, sent, served, history>>
    BY <1>8 DEF Stop
  <2>3. missed' \in [Instances -> BOOLEAN]
    <3>1. (pc[p] \in {"accept", "read"}) \in BOOLEAN
      OBVIOUS
    <3>2. \/ missed' = [missed EXCEPT ![p] = pc[p] \in {"accept", "read"}]
          \/ missed' = missed
      BY <1>8 DEF Stop
    <3> QED
      BY <3>1, <3>2, Zenon
  <2>2. \/ pc' = pc
        \/ pc[p] = "accept" /\ pc' = [pc EXCEPT ![p] = "loop"]
        \/ pc[p] = "read" /\ pc' = [pc EXCEPT ![p] = "close"]
    BY <1>8 DEF Stop
  <2> QED
    BY <2>1, <2>2, <2>3
<1>9. CASE ReadFails(p)
  BY <1>9 DEF ReadFails
<1> QED
  BY <1>1, <1>2, <1>3, <1>4, <1>5, <1>6, <1>7, <1>8, <1>9

LEMMA TypeStep == TypeOK /\ [Next]_vars => TypeOK'
<1> SUFFICES ASSUME TypeOK, [Next]_vars PROVE TypeOK'
  OBVIOUS
<1> USE DEF Go, kernel, stop, memory, history
<1>1. ASSUME NEW p \in Instances,
             \/ Start(p) \/ Exists(p) \/ Remove(p) \/ Create(p) \/ Bind(p) \/ Listen(p)
             \/ Loop(p) \/ Stop(p) \/ ReadFails(p)
      PROVE  TypeOK'
  BY <1>1, ControlTypes
<1>2. ASSUME NEW p \in Instances, BindFails(p) \/ OpenFails(p) \/ ListenerFails(p) \/ Crash(p)
      PROVE  TypeOK'
  BY <1>2, EndTypes DEF BindFails, OpenFails, ListenerFails, Crash
<1>3. ASSUME NEW p \in Instances, Accept(p) PROVE TypeOK'
  <2>1. Head(queue[p]) \in Clients /\ Tail(queue[p]) \in Seq(Clients)
    BY <1>3, HeadTailProperties DEF Accept, TypeOK
  <2>2. 0 \notin Clients
    BY DEF Clients
  <2> QED
    BY <1>3, <2>1, <2>2 DEF Accept, TypeOK
<1>4. ASSUME NEW p \in Instances, Read(p) PROVE TypeOK'
  <2>1. data[p] \in Clients
    BY <1>4 DEF Read, TypeOK
  <2>2. Events(data[p]) \in Seq(Commands)
    <3>1. <<>> \in Seq(Commands)
      BY EmptySeq
    <3>2. [from |-> data[p], code |-> Code(text[data[p]])] \in Commands
      BY <2>1 DEF Commands, Code
    <3> QED
      BY <3>1, <3>2 DEF Events
  <2>3. sent[p] \o Events(data[p]) \in Seq(Commands)
    BY <2>2, ConcatProperties DEF TypeOK, Commands
  <2> QED
    BY <1>4, <2>1, <2>3 DEF Read, TypeOK, Commands
<1>5. ASSUME NEW p \in Instances, CloseData(p) PROVE TypeOK'
  BY <1>5 DEF CloseData, Closed, TypeOK
<1>6. ASSUME NEW p \in Instances, Destroy(p) PROVE TypeOK'
  <2>1. <<>> \in Seq(Clients)
    BY EmptySeq
  <2> QED
    BY <1>6, <2>1 DEF Destroy, TypeOK
<1>7. ASSUME NEW p \in Instances, Unlink(p) PROVE TypeOK'
  <2>1. Down(p) /\ at' = "nothing" /\ aided' = aided /\ UNCHANGED <<text, client, starts, overlap>>
    BY <1>7 DEF Unlink
  <2> QED
    BY <2>1, DownTypes DEF TypeOK
<1>8. CASE PutFile
  BY <1>8 DEF PutFile, TypeOK
<1>9. ASSUME NEW c \in Clients, NEW p \in Instances, Connect(c, p) PROVE TypeOK'
  <2>1. Append(queue[p], c) \in Seq(Clients)
    BY AppendProperties DEF TypeOK
  <2>2. /\ client' = [client EXCEPT ![c] = "open"]
        /\ queue' = [queue EXCEPT ![p] = Append(queue[p], c)]
        /\ UNCHANGED <<at, pc, memory, text, history>>
    BY <1>9 DEF Connect
  <2>3. client' \in [Clients -> {"new", "open", "gone"}]
    BY <2>2 DEF TypeOK
  <2>4. queue' \in [Instances -> Seq(Clients)]
    BY <2>1, <2>2 DEF TypeOK
  <2>5. UNCHANGED <<at, pc, path, stopping, data, text, sent, served, missed, starts, overlap,
                    aided>>
    BY <2>2 DEF memory, stop, history
  <2> HIDE <1>9, <2>2
  <2> QED
    BY <2>3, <2>4, <2>5 DEF TypeOK
<1>10. ASSUME NEW c \in Clients, Write(c) \/ Leave(c) PROVE TypeOK'
  <2>1. /\ text' \in [Clients -> Texts \union {"nothing"}]
        /\ client' \in [Clients -> {"new", "open", "gone"}]
        /\ UNCHANGED <<at, pc, memory, queue, history>>
    <3>1. CASE Write(c)
      <4>1. text' \in [Clients -> Texts \union {"nothing"}]
        BY <3>1 DEF Write, TypeOK
      <4>2. UNCHANGED <<at, pc, memory, queue, client, history>>
        BY <3>1 DEF Write
      <4> QED
        BY <4>1, <4>2 DEF TypeOK
    <3>2. CASE Leave(c)
      <4>1. /\ client' = [client EXCEPT ![c] = "gone"]
            /\ UNCHANGED <<at, pc, memory, queue, text, history>>
        BY <3>2 DEF Leave
      <4> QED
        BY <4>1 DEF TypeOK
    <3> QED
      BY <1>10, <3>1, <3>2
  <2>2. UNCHANGED <<at, pc, path, stopping, queue, data, sent, served, missed, starts, overlap,
                    aided>>
    BY <2>1 DEF memory, stop, history
  <2> HIDE <1>10
  <2> QED
    BY <2>1, <2>2 DEF TypeOK
<1>11. CASE UNCHANGED vars
  BY <1>11 DEF vars, TypeOK
<1> QED
  BY <1>1, <1>2, <1>3, <1>4, <1>5, <1>6, <1>7, <1>8, <1>9, <1>10, <1>11 DEF Next, Reader

(* --------------------------- clients and commands ------------------------ *)

\* One process: the clients it has served, the one in hand and those that wait are
\* in the order in which they connected.  Every event is of a client it served; a
\* client it served has its event, or left without a word.
Ordered(p) ==
  /\ \A i, j \in DOMAIN queue[p] : i < j => queue[p][i] < queue[p][j]
  /\ \A i \in DOMAIN queue[p] : /\ client[queue[p][i]] # "new"
                                /\ data[p] < queue[p][i]
                                /\ \A c \in served[p] : c < queue[p][i]
  /\ data[p] # 0 => client[data[p]] # "new"
  /\ pc[p] = "read" => \A c \in served[p] : c < data[p]
  /\ \A i, j \in DOMAIN sent[p] : i < j => sent[p][i].from < sent[p][j].from
  /\ \A i \in DOMAIN sent[p] : sent[p][i].from \in served[p]
  /\ \A c \in served[p] : /\ client[c] # "new"
                          /\ text[c] = "nothing" => client[c] = "gone"
                          /\ text[c] # "nothing" =>
                               \E i \in DOMAIN sent[p] : sent[p][i].from = c

\* Clients connect in their order.
LineInv ==
  /\ \A c, d \in Clients : d < c /\ client[c] # "new" => client[d] # "new"
  /\ \A p \in Instances : Ordered(p)

\* What clients may do to a process that has not taken a step of its own.
Grown ==
  \A c \in Clients : /\ client[c] # "new" => client'[c] # "new"
                     /\ client[c] = "gone" => client'[c] = "gone" /\ text'[c] = text[c]
                     /\ text[c] # "nothing" => text'[c] = text[c]

\* Nothing but the clients moved.
LEMMA OrderedKept ==
  ASSUME TypeOK, NEW p \in Instances, Ordered(p), Grown, pc'[p] = "read" => pc[p] = "read",
         queue'[p] = queue[p], data'[p] = data[p], sent'[p] = sent[p], served'[p] = served[p]
  PROVE  Ordered(p)'
<1>1. /\ \A i \in DOMAIN queue[p] : queue[p][i] \in Clients
      /\ data[p] # 0 => data[p] \in Clients
      /\ served[p] \in SUBSET Clients
  BY LenProperties DEF TypeOK
<1> QED
  BY <1>1 DEF Ordered, Grown

\* A process that is gone has nothing to keep in order.
LEMMA OrderedDown ==
  ASSUME NEW p \in Instances, pc'[p] # "read", queue'[p] = <<>>, data'[p] = 0,
         sent'[p] = <<>>, served'[p] = {}
  PROVE  Ordered(p)'
  BY DEF Ordered

LEMMA AcceptOrdered ==
  ASSUME TypeOK, NEW p \in Instances, Ordered(p), Accept(p)
  PROVE  Ordered(p)'
<1> DEFINE q == queue[p]
<1>1. /\ q \in Seq(Clients) /\ q # <<>> /\ pc'[p] = "read"
      /\ data'[p] = Head(q) /\ queue'[p] = Tail(q)
      /\ UNCHANGED <<text, client, sent, served>>
  BY DEF Accept, TypeOK, Go, stop, history
<1>2. /\ Head(q) \in Clients /\ Tail(q) \in Seq(Clients) /\ Len(Tail(q)) = Len(q) - 1
      /\ \A i \in 1 .. Len(Tail(q)) : Tail(q)[i] = q[i + 1]
  BY <1>1, HeadTailProperties
<1>3. /\ Len(q) \in Nat \ {0} /\ DOMAIN q = 1 .. Len(q) /\ Head(q) = q[1]
      /\ DOMAIN Tail(q) = 1 .. Len(q) - 1
  BY <1>1, <1>2, LenProperties, EmptySeq
<1>4. 1 \in DOMAIN q /\ \A i \in DOMAIN Tail(q) : i + 1 \in DOMAIN q /\ Tail(q)[i] = q[i + 1]
  BY <1>2, <1>3
<1>5. \A i, j \in DOMAIN Tail(q) : i < j => Tail(q)[i] < Tail(q)[j]
  <2>1. ASSUME NEW i \in DOMAIN Tail(q), NEW j \in DOMAIN Tail(q), i < j
        PROVE  Tail(q)[i] < Tail(q)[j]
    <3>1. i + 1 < j + 1 /\ i + 1 \in DOMAIN q /\ j + 1 \in DOMAIN q
      BY <2>1, <1>3, <1>4
    <3> QED
      BY <3>1, <1>4 DEF Ordered
  <2> QED
    BY <2>1
<1>6. \A i \in DOMAIN Tail(q) : /\ client[Tail(q)[i]] # "new"
                                /\ Head(q) < Tail(q)[i]
                                /\ \A c \in served[p] : c < Tail(q)[i]
  <2>1. ASSUME NEW i \in DOMAIN Tail(q) PROVE 1 < i + 1
    BY <1>3
  <2> QED
    BY <2>1, <1>3, <1>4 DEF Ordered
<1>7. /\ client[Head(q)] # "new"
      /\ \A c \in served[p] : c < Head(q)
  BY <1>3, <1>4 DEF Ordered
<1> HIDE DEF q
<1>8. /\ \A i, j \in DOMAIN sent[p] : i < j => sent[p][i].from < sent[p][j].from
      /\ \A i \in DOMAIN sent[p] : sent[p][i].from \in served[p]
      /\ \A c \in served[p] : /\ client[c] # "new"
                              /\ text[c] = "nothing" => client[c] = "gone"
                              /\ text[c] # "nothing" =>
                                   \E i \in DOMAIN sent[p] : sent[p][i].from = c
  BY DEF Ordered
<1> QED
  BY <1>1, <1>5, <1>6, <1>7, <1>8 DEF Ordered

LEMMA ReadOrdered ==
  ASSUME TypeOK, NEW p \in Instances, Ordered(p), Read(p)
  PROVE  Ordered(p)'
<1> DEFINE s == sent[p]
           d == data[p]
           e == [from |-> d, code |-> Code(text[d])]
<1>1. /\ pc[p] = "read" /\ pc'[p] = "close" /\ served'[p] = served[p] \union {d}
      /\ sent'[p] = s \o Events(d)
      /\ Readable(d)
      /\ UNCHANGED <<text, client, queue, data>>
  BY DEF Read, TypeOK, Go, kernel, stop, history
<1>2. d \in Clients /\ d # 0 /\ s \in Seq(Commands)
  BY <1>1 DEF TypeOK, Commands
<1>3. /\ \A i \in DOMAIN queue[p] : \A c \in served'[p] : c < queue[p][i]
      /\ \A c \in served[p] : c < d
      /\ client[d] # "new"
  BY <1>1, <1>2 DEF Ordered
<1>4. CASE text[d] = "nothing"
  <2>1. sent'[p] = s /\ client[d] = "gone"
    BY <1>1, <1>2, <1>4, ConcatEmptySeq DEF Events, Readable
  <2> HIDE DEF d
  <2> QED
    BY <1>1, <1>3, <1>4, <2>1 DEF Ordered
<1>5. CASE text[d] # "nothing"
  <2>1. e \in Commands /\ e.from = d
    BY <1>2 DEF Commands, Code
  <2> HIDE DEF e
  <2>2. sent'[p] = Append(s, e)
    BY <1>1, <1>2, <1>5, <2>1, AppendIsConcat DEF Events, e
  <2>3. /\ Len(s) \in Nat /\ DOMAIN s = 1 .. Len(s)
        /\ DOMAIN sent'[p] = 1 .. Len(s) + 1
        /\ \A i \in DOMAIN s : sent'[p][i] = s[i]
        /\ sent'[p][Len(s) + 1] = e
    BY <1>2, <2>1, <2>2, AppendProperties, LenProperties
  <2>4. \A i \in DOMAIN sent'[p] : i \in DOMAIN s \/ i = Len(s) + 1
    BY <2>3
  <2>5. DOMAIN s \in SUBSET DOMAIN sent'[p] /\ Len(s) + 1 \in DOMAIN sent'[p]
    BY <2>3
  <2>6. \A i \in DOMAIN s : sent'[p][i].from \in served[p] /\ sent'[p][i].from < d
    BY <2>3, <1>3 DEF Ordered
  <2>7. \A i, j \in DOMAIN sent'[p] : i < j => sent'[p][i].from < sent'[p][j].from
    <3>1. ASSUME NEW i \in DOMAIN sent'[p], NEW j \in DOMAIN sent'[p], i < j
          PROVE  sent'[p][i].from < sent'[p][j].from
      <4>1. i \in DOMAIN s
        BY <3>1, <2>3
      <4>2. CASE j \in DOMAIN s
        BY <3>1, <4>1, <4>2, <2>3 DEF Ordered
      <4>3. CASE j = Len(s) + 1
        BY <4>1, <4>3, <2>1, <2>3, <2>6
      <4> QED
        BY <4>2, <4>3, <2>4
    <3> QED
      BY <3>1
  <2>8. \A i \in DOMAIN sent'[p] : sent'[p][i].from \in served'[p]
    BY <1>1, <2>1, <2>3, <2>4, <2>6
  <2>9. \A c \in served'[p] : text[c] # "nothing" =>
                                \E i \in DOMAIN sent'[p] : sent'[p][i].from = c
    <3>1. ASSUME NEW c \in served[p], text[c] # "nothing"
          PROVE  \E i \in DOMAIN sent'[p] : sent'[p][i].from = c
      <4>1. PICK i \in DOMAIN s : s[i].from = c
        BY <3>1 DEF Ordered
      <4> QED
        BY <4>1, <2>3, <2>5
    <3>2. sent'[p][Len(s) + 1].from = d
      BY <2>1, <2>3
    <3> QED
      BY <3>1, <3>2, <1>1, <2>5
  <2>10. \A c \in served'[p] : client[c] # "new" /\ (text[c] = "nothing" => client[c] = "gone")
    BY <1>1, <1>3, <1>5 DEF Ordered
  <2> HIDE DEF s, d
  <2> QED
    BY <1>1, <1>3, <2>7, <2>8, <2>9, <2>10 DEF Ordered
<1> QED
  BY <1>4, <1>5

\* A client that connects comes after all who did.
LEMMA ConnectOrdered ==
  ASSUME TypeOK, LineInv, NEW p \in Instances, NEW c \in Clients, Connect(c, p)
  PROVE  Ordered(p)'
<1> DEFINE q == queue[p]
<1>1. /\ client[c] = "new" /\ client' = [client EXCEPT ![c] = "open"]
      /\ queue'[p] = Append(q, c)
      /\ UNCHANGED <<pc, text, data, sent, served>>
  BY DEF Connect, TypeOK, memory, history
<1>2. \A d \in Clients : client[d] # "new" => d < c
  BY <1>1 DEF LineInv, Clients
<1>3. /\ q \in Seq(Clients) /\ served[p] \in SUBSET Clients
      /\ data[p] \in Clients \union {0} /\ 0 < c
      /\ client \in [Clients -> {"new", "open", "gone"}]
  BY DEF TypeOK, Clients
<1>4. Ordered(p)
  BY DEF LineInv
<1> HIDE DEF q
<1>5. /\ DOMAIN q = 1 .. Len(q) /\ Len(q) \in Nat
      /\ DOMAIN Append(q, c) = 1 .. Len(q) + 1
      /\ \A i \in DOMAIN q : Append(q, c)[i] = q[i] /\ q[i] \in Clients
      /\ Append(q, c)[Len(q) + 1] = c
  BY <1>3, AppendProperties, LenProperties
<1>6. \A i \in DOMAIN Append(q, c) : i \in DOMAIN q \/ i = Len(q) + 1
  BY <1>5
<1>7. /\ \A i \in DOMAIN q : q[i] < c
      /\ data[p] < c
      /\ \A d \in served[p] : d < c
  BY <1>2, <1>3, <1>4, <1>5 DEF Ordered, q
<1>8. \A i, j \in DOMAIN Append(q, c) : i < j => Append(q, c)[i] < Append(q, c)[j]
  <2>1. ASSUME NEW i \in DOMAIN Append(q, c), NEW j \in DOMAIN Append(q, c), i < j
        PROVE  Append(q, c)[i] < Append(q, c)[j]
    <3>1. i \in DOMAIN q
      BY <2>1, <1>5
    <3>2. CASE j \in DOMAIN q
      BY <2>1, <3>1, <3>2, <1>4, <1>5 DEF Ordered, q
    <3>3. CASE j = Len(q) + 1
      BY <3>1, <3>3, <1>5, <1>7
    <3> QED
      BY <3>2, <3>3, <1>6
  <2> QED
    BY <2>1
<1>9. \A d \in Clients : client[d] # "new" => client'[d] = client[d]
  BY <1>1, <1>3
<1>10. \A i \in DOMAIN Append(q, c) : /\ client'[Append(q, c)[i]] # "new"
                                      /\ data[p] < Append(q, c)[i]
                                      /\ \A d \in served[p] : d < Append(q, c)[i]
  <2>1. ASSUME NEW i \in DOMAIN q
        PROVE  /\ client'[q[i]] # "new"
               /\ data[p] < q[i]
               /\ \A d \in served[p] : d < q[i]
    BY <2>1, <1>4, <1>5, <1>9 DEF Ordered, q
  <2>2. client'[c] # "new"
    BY <1>1, <1>3
  <2> QED
    BY <2>1, <2>2, <1>5, <1>6, <1>7
<1>11. /\ data[p] # 0 => client'[data[p]] # "new"
       /\ \A d \in served[p] : client'[d] = client[d] /\ client[d] # "new"
  BY <1>3, <1>4, <1>9 DEF Ordered
<1> QED
  BY <1>1, <1>4, <1>8, <1>10, <1>11 DEF Ordered

LEMMA LineStep == TypeOK /\ LineInv /\ [Next]_vars => LineInv'
<1> SUFFICES ASSUME TypeOK, LineInv, [Next]_vars PROVE LineInv'
  OBVIOUS
\* Most steps leave all that is ordered alone.
<1>1. ASSUME UNCHANGED <<queue, data, text, client, sent, served>>,
             \A p \in Instances : pc'[p] = "read" => pc[p] = "read"
      PROVE  LineInv'
  BY <1>1, OrderedKept DEF LineInv, Grown
<1>2. ASSUME NEW p \in Instances, UNCHANGED <<text, client>>,
             \A r \in Instances \ {p} : /\ pc'[r] = pc[r] /\ queue'[r] = queue[r]
                                        /\ data'[r] = data[r] /\ sent'[r] = sent[r]
                                        /\ served'[r] = served[r],
             Ordered(p)'
      PROVE  LineInv'
  BY <1>2, OrderedKept DEF LineInv, Grown
<1>3. ASSUME NEW p \in Instances, Down(p), UNCHANGED <<text, client>> PROVE LineInv'
  <2>1. Ordered(p)'
    BY <1>3, OrderedDown DEF Down, Go, TypeOK
  <2> QED
    BY <1>2, <1>3, <2>1 DEF Down, Go, TypeOK
<1>4. ASSUME NEW p \in Instances, BindFails(p) \/ OpenFails(p) \/ ListenerFails(p) \/ Crash(p)
      PROVE  LineInv'
  BY <1>3, <1>4 DEF BindFails, OpenFails, ListenerFails, Crash, End
<1>5. ASSUME NEW p \in Instances, Unlink(p) PROVE LineInv'
  BY <1>3, <1>5 DEF Unlink
<1> USE DEF TypeOK, Go, kernel, stop, memory, history
<1>6. ASSUME NEW p \in Instances,
             \/ Start(p) \/ Exists(p) \/ Remove(p) \/ Create(p) \/ Bind(p) \/ Listen(p)
             \/ Loop(p) \/ ReadFails(p)
      PROVE  LineInv'
  BY <1>1, <1>6 DEF Start, Exists, Remove, Create, Bind, Listen, Loop, Test, ReadFails
<1>7. ASSUME NEW p \in Instances, Stop(p) PROVE LineInv'
  BY <1>1, <1>7 DEF Stop
<1>8. ASSUME NEW p \in Instances, Accept(p) PROVE LineInv'
  BY <1>2, <1>8, AcceptOrdered DEF LineInv, Accept
<1>9. ASSUME NEW p \in Instances, Read(p) PROVE LineInv'
  BY <1>2, <1>9, ReadOrdered DEF LineInv, Read
<1>10. ASSUME NEW p \in Instances, CloseData(p) PROVE LineInv'
  <2>1. Ordered(p)'
    <3>1. \A i \in DOMAIN queue[p] : 0 < queue[p][i]
      <4>1. \A i \in DOMAIN queue[p] : queue[p][i] \in Clients
        BY LenProperties
      <4> QED
        BY <4>1 DEF Clients
    <3>2. /\ data'[p] = 0 /\ pc'[p] = "loop"
          /\ UNCHANGED <<queue, text, client, sent, served>>
      BY <1>10 DEF CloseData, Closed
    <3> QED
      BY <3>1, <3>2 DEF LineInv, Ordered
  <2> QED
    BY <1>2, <1>10, <2>1 DEF CloseData, Closed
<1>11. ASSUME NEW p \in Instances, Destroy(p) PROVE LineInv'
  <2>1. Ordered(p)'
    BY <1>11 DEF LineInv, Ordered, Destroy
  <2> QED
    BY <1>2, <1>11, <2>1 DEF Destroy
<1>12. CASE PutFile \/ UNCHANGED vars
  BY <1>1, <1>12 DEF PutFile, vars
<1>13. ASSUME NEW c \in Clients, NEW p \in Instances, Connect(c, p) PROVE LineInv'
  <2>1. Ordered(p)'
    BY <1>13, ConnectOrdered
  <2>2. Grown
    BY <1>13 DEF Connect, Grown
  <2>3. \A r \in Instances \ {p} : Ordered(r)'
    BY <1>13, <2>2, OrderedKept DEF LineInv, Connect
  <2>4. \A a, b \in Clients : b < a /\ client'[a] # "new" => client'[b] # "new"
    BY <1>13 DEF LineInv, Connect, Clients
  <2> QED
    BY <2>1, <2>3, <2>4 DEF LineInv
<1>14. ASSUME NEW c \in Clients, Write(c) \/ Leave(c) PROVE LineInv'
  <2>1. Grown
    BY <1>14 DEF Write, Leave, Grown, Connected
  <2>2. \A p \in Instances : Ordered(p)'
    BY <1>14, <2>1, OrderedKept DEF LineInv, Write, Leave
  <2>3. \A a, b \in Clients : b < a /\ client'[a] # "new" => client'[b] # "new"
    BY <1>14 DEF LineInv, Write, Leave, Connected
  <2> QED
    BY <2>2, <2>3 DEF LineInv
<1> QED
  BY <1>4, <1>5, <1>6, <1>7, <1>8, <1>9, <1>10, <1>11, <1>12, <1>13, <1>14 DEF Next, Reader

LEMMA LineInit == Init => TypeOK /\ LineInv
<1>1. <<>> \in Seq(Clients) /\ <<>> \in Seq(Commands)
  BY EmptySeq
<1>2. Init => TypeOK
  <2>1. 0 \in 0 .. MaxStarts
    <3>1. MaxStarts \in Nat
      BY ControlAssumption
    <3> QED
      BY <3>1
  <2> SUFFICES ASSUME Init PROVE TypeOK
    OBVIOUS
  <2>2. /\ queue \in [Instances -> Seq(Clients)]
        /\ sent \in [Instances -> Seq(Commands)]
        /\ data \in [Instances -> Clients \union {0}]
        /\ served \in [Instances -> SUBSET Clients]
    BY <1>1 DEF Init
  <2>3. /\ stopping \in [Instances -> BOOLEAN]
        /\ missed \in [Instances -> BOOLEAN]
        /\ {overlap, aided} \subseteq BOOLEAN
    BY DEF Init
  <2>4. \A p \in Instances : data[p] = 0 /\ pc[p] = "down"
    BY DEF Init
  <2> QED
    BY <2>1, <2>2, <2>3, <2>4 DEF Init, TypeOK, Commands
<1>3. Init => LineInv
  BY DEF Init, LineInv, Ordered
<1> QED
  BY <1>2, <1>3

LEMMA LineInvariance == Spec => [](TypeOK /\ LineInv)
  BY LineInit, TypeStep, LineStep, PTL DEF Spec

\* Every part of a process and of its clients keeps its type; a process has a
\* connection in hand exactly between accept and close.
THEOREM TypeCorrect == Spec => []TypeOK
  BY LineInvariance, PTL

\* handleEvents puts each command it reads on the channel once, in the order in which
\* the clients connected, whoever left, crashed or was stopped meanwhile.
THEOREM ObeyedAlways == Spec => []Obeyed
<1>1. LineInv => Obeyed
  BY DEF LineInv, Ordered, Obeyed
<1> QED
  BY <1>1, LineInvariance, PTL

(* ------------------------------- the stop ------------------------------- *)

\* A process that is gone has no flag up: the next one starts with it down.
DownInv == \A p \in Instances : pc[p] = "down" => ~stopping[p]

\* Each step of the thread that goes on, by its place before and after.
LEMMA ThreadMoves ==
  ASSUME TypeOK, NEW p \in Instances, stopping[p],
         \/ Exists(p) \/ Remove(p) \/ Create(p) \/ Bind(p) \/ Listen(p) \/ Loop(p)
         \/ Accept(p) \/ Read(p) \/ ReadFails(p) \/ CloseData(p) \/ Destroy(p)
  PROVE  StepsLeft(p)' < StepsLeft(p)
<1> DEFINE Step(from, to) == pc[p] = from /\ pc'[p] = to
<1> USE DEF TypeOK, Go
<1>1. CASE Exists(p) \/ Remove(p)
  <2>1. \/ Step("exists", "create")
        \/ Step("exists", "remove")
        \/ Step("remove", "bind")
    BY <1>1 DEF Exists, Remove
  <2> QED
    BY <2>1 DEF StepsLeft
<1>2. CASE Create(p) \/ Bind(p) \/ Listen(p)
  <2>1. \/ Step("create", "bind")
        \/ Step("bind", "listen")
        \/ Step("listen", "loop")
    BY <1>2 DEF Create, Bind, Listen
  <2> QED
    BY <2>1 DEF StepsLeft
\* The flag sends the thread from its loop to the destructor.
<1>3. CASE Loop(p) \/ Destroy(p)
  <2>1. \/ Step("loop", "destroy")
        \/ Step("destroy", "unlink")
    BY <1>3 DEF Loop, Test, Destroy
  <2> QED
    BY <2>1 DEF StepsLeft
<1>4. CASE Accept(p) \/ Read(p) \/ ReadFails(p) \/ CloseData(p)
  <2>1. \/ Step("accept", "read")
        \/ Step("read", "close")
        \/ Step("close", "loop")
    BY <1>4 DEF Accept, Read, ReadFails, CloseData
  <2> QED
    BY <2>1 DEF StepsLeft
<1> QED
  BY <1>1, <1>2, <1>3, <1>4

\* A step that ends a process, and one of somebody else.
LEMMA DownMoves ==
  ASSUME TypeOK, DownInv, NEW p \in Instances, Up(p), Down(p)
  PROVE  DownInv' /\ \A q \in Instances : pc'[q] = pc[q] \/ StepsLeft(q)' < StepsLeft(q)
<1>1. /\ pc'[p] = "down" /\ ~stopping'[p] /\ pc[p] # "down"
      /\ \A q \in Instances \ {p} : pc'[q] = pc[q] /\ stopping'[q] = stopping[q]
  BY DEF TypeOK, Down, Go, Up
<1>2. StepsLeft(p)' < StepsLeft(p)
  BY <1>1 DEF StepsLeft, TypeOK
<1> QED
  BY <1>1, <1>2 DEF DownInv

LEMMA StopStep ==
  TypeOK /\ DownInv /\ [Next]_vars =>
    /\ DownInv'
    /\ [\A p \in Instances :
          stopping[p] => pc'[p] = pc[p] \/ StepsLeft(p)' < StepsLeft(p)]_vars
<1> DEFINE Nearer == \A p \in Instances :
                       stopping[p] => pc'[p] = pc[p] \/ StepsLeft(p)' < StepsLeft(p)
<1> SUFFICES ASSUME TypeOK, DownInv, [Next]_vars PROVE DownInv' /\ [Nearer]_vars
  OBVIOUS
<1>u. ASSUME UNCHANGED <<pc, stopping>> PROVE DownInv' /\ Nearer
  BY <1>u DEF DownInv
<1>1. ASSUME NEW p \in Instances, Start(p) PROVE DownInv' /\ Nearer
  <2>1. /\ ~stopping[p] /\ stopping' = stopping /\ pc'[p] = "exists"
        /\ \A q \in Instances \ {p} : pc'[q] = pc[q]
    BY <1>1 DEF Start, Up, DownInv, memory, stop, Go, TypeOK
  <2> QED
    BY <2>1 DEF DownInv
<1>2. ASSUME NEW p \in Instances,
             \/ Exists(p) \/ Remove(p) \/ Create(p) \/ Bind(p) \/ Listen(p) \/ Loop(p)
             \/ Accept(p) \/ Read(p) \/ ReadFails(p) \/ CloseData(p) \/ Destroy(p)
      PROVE  DownInv' /\ Nearer
  <2>1. \E place \in {"create", "remove", "bind", "listen", "loop", "destroy", "accept",
                      "read", "close", "unlink"} : Go(p, place)
    BY <1>2 DEF Exists, Remove, Create, Bind, Listen, Loop, Test, Accept, Read, ReadFails,
       CloseData, Destroy
  <2>2. stopping' = stopping
    BY <1>2 DEF Exists, Remove, Create, Bind, Listen, Loop, Accept, Read, ReadFails,
       CloseData, Destroy, memory, stop
  <2>3. pc'[p] # "down" /\ \A q \in Instances \ {p} : pc'[q] = pc[q]
    BY <2>1 DEF Go, TypeOK
  <2>4. stopping[p] => StepsLeft(p)' < StepsLeft(p)
    BY <1>2, ThreadMoves
  <2> QED
    BY <2>2, <2>3, <2>4 DEF DownInv
<1>3. ASSUME NEW p \in Instances,
             \/ BindFails(p) \/ Unlink(p) \/ OpenFails(p) \/ ListenerFails(p) \/ Crash(p)
      PROVE  DownInv' /\ Nearer
  <2>1. Up(p) /\ Down(p)
    BY <1>3 DEF BindFails, Unlink, OpenFails, ListenerFails, Crash, End, Up
  <2> QED
    BY <2>1, DownMoves
<1>4. ASSUME NEW p \in Instances, Stop(p) PROVE DownInv' /\ Nearer
  <2>1. /\ pc[p] # "down" /\ ~stopping[p]
        /\ pc' = pc \/ Go(p, "loop") \/ Go(p, "close")
        /\ \A q \in Instances \ {p} : stopping'[q] = stopping[q]
    BY <1>4 DEF Stop, Up, TypeOK
  <2>2. pc'[p] # "down" /\ \A q \in Instances \ {p} : pc'[q] = pc[q]
    BY <2>1 DEF Go, TypeOK
  <2> QED
    BY <2>1, <2>2 DEF DownInv
<1>5. ASSUME PutFile \/ \E c \in Clients : Write(c) \/ Leave(c) \/ \E p \in Instances : Connect(c, p)
      PROVE  DownInv' /\ Nearer
  BY <1>5, <1>u DEF PutFile, Write, Leave, Connect, memory, stop
<1>6. CASE UNCHANGED vars
  BY <1>6, <1>u DEF vars, memory, stop
<1> HIDE DEF Nearer
<1> QED
  BY <1>1, <1>2, <1>3, <1>4, <1>5, <1>6 DEF Next, Reader

\* After its flag a thread obeys at most the client it has or accepts next and goes to
\* the destructor, whatever clients and other processes do.
THEOREM StopBoundedAlways == Spec => StopBounded
<1>1. Init => DownInv
  BY DEF Init, DownInv
<1> QED
  BY <1>1, StopStep, TypeCorrect, PTL DEF Spec, StopBounded
=============================================================================
