------------------------------ MODULE Broadcast ------------------------------
(***************************************************************************)
(* ctl::broadcast: a listener thread accepts clients and pushes their      *)
(* descriptors to the vector _dataFds, while the executor runs send(),     *)
(* which walks the vector and writes one message to every client.  Nothing *)
(* locks the vector, and a client whose send fails is erased from it and   *)
(* closed inside the loop that walks it.                                   *)
(*                                                                         *)
(* The vector is its memory, slot, and the number of live entries, size;   *)
(* the length of slot is the capacity, which tells one block of memory     *)
(* from the block it grew from.  The loop fixes its first and last slot    *)
(* when it starts, so an erase makes it step over the client that moved    *)
(* into the freed slot and reach the stale copies beyond the new end.      *)
(*                                                                         *)
(* The two threads race.  Loads and stores of size are steps of their own, *)
(* a pass that outlives its block reads arbitrary descriptors from it, and *)
(* an erase whose block was replaced in between corrupts the vector and    *)
(* ends the process.  Descriptors are the kernel's: any free one may be    *)
(* handed out, to a client or to another thread of the program.            *)
(***************************************************************************)
EXTENDS Integers, Sequences, FiniteSets, SequencesExt

CONSTANTS
  Clients,    \* clients that may connect, each once
  Fds,        \* descriptors
  Nobody,     \* the owner of a free descriptor
  Other,      \* the owner of a descriptor another thread uses
  MaxSends    \* bound: messages broadcast in a behaviour

ASSUME ConstantsAssumption ==
  /\ MaxSends \in Nat
  /\ Nobody \notin Clients
  /\ Other \notin Clients \union {Nobody}

VARIABLES
  slot, size,  \* _dataFds: its memory and how many entries are live
  owner,       \* whose each descriptor is
  peer,        \* each client: "new", "up" or "down"
  stopping,    \* ctl::broadcast::stopping
  lpc,         \* where listen() is, or "setup" before its thread
  lfd, lsize,  \* the descriptor accepted, and size as push_back loaded it
  eintr,       \* the signal handler interrupted a blocked accept
  spc,         \* where send() is
  at, last,    \* the loop's slot and the slot it stops after
  block,       \* the capacity of the block the loop walks
  cur,         \* the loop's fd
  erase,       \* std::remove's work: block, old size, new size
  sends,       \* messages broadcast so far
  \* What the properties compare with: the clients of this pass, what it sent
  \* them, which of them it found dead, and what went wrong for good.
  roster, served, failed, raced, misclosed

vector == <<slot, size>>
kernel == <<owner, peer>>
listener == <<lpc, lfd, lsize, eintr>>
sender == <<spc, at, last, block, cur, erase, sends>>
history == <<roster, served, failed, raced, misclosed>>
vars == <<vector, kernel, stopping, listener, sender, history>>

\* The erase's locals while no erase is under way.
NoErase == [block |-> 0, size |-> 0, kept |-> 0]

Free == {fd \in Fds : owner[fd] = Nobody}
Connected == {fd \in Fds : owner[fd] \in Clients}
Live == SubSeq(slot, 1, size)
Capacity == Len(slot)

\* Neither thread has thrown or corrupted the vector.
Alive == lpc # "failed" /\ spc # "crashed"

TypeOK ==
  /\ slot \in Seq(Fds)
  /\ size \in 0 .. Capacity
  /\ owner \in [Fds -> Clients \union {Nobody, Other}]
  /\ peer \in [Clients -> {"new", "up", "down"}]
  /\ stopping \in BOOLEAN
  /\ lpc \in {"setup", "test", "accept", "load", "store", "ended", "failed", "destroyed"}
  /\ lfd \in Fds \union {Nobody}
  /\ lsize \in Nat
  /\ eintr \in BOOLEAN
  /\ spc \in {"idle", "loop", "remove", "shrink", "close", "crashed"}
  /\ block \in 0 .. Capacity
  /\ last \in 0 .. block
  /\ at \in 1 .. last + 1
  /\ cur \in Fds \union {Nobody}
  /\ erase \in [block : 0 .. Capacity, size : Nat, kept : Nat]
  /\ erase.size \in erase.kept .. erase.block
  /\ sends \in 0 .. MaxSends
  /\ roster \in Seq(Clients \union {Nobody, Other})
  /\ served \in [Clients -> Nat]
  /\ failed \subseteq Clients
  /\ raced \in BOOLEAN
  /\ misclosed \in BOOLEAN

Init ==
  /\ slot = <<>>
  /\ size = 0
  /\ owner = [fd \in Fds |-> Nobody]
  /\ peer = [c \in Clients |-> "new"]
  /\ stopping = FALSE
  /\ lpc = "setup"
  /\ lfd = Nobody
  /\ lsize = 0
  /\ eintr = FALSE
  /\ spc = "idle"
  /\ at = 1
  /\ last = 0
  /\ block = 0
  /\ cur = Nobody
  /\ erase = NoErase
  /\ sends = 0
  /\ roster = <<>>
  /\ served = [c \in Clients |-> 0]
  /\ failed = {}
  /\ raced = FALSE
  /\ misclosed = FALSE

(* -------------------------- setup() and listen() ------------------------ *)

\* The listening socket is made, bound and opened, or setup throws.
Setup ==
  /\ lpc = "setup"
  /\ lpc' \in {"test", "failed"}
  /\ UNCHANGED <<vector, kernel, stopping, lfd, lsize, eintr, sender, history>>

TestDeaf == "accept"

Tested == IF stopping THEN "ended" ELSE "accept"

Test ==
  /\ Alive
  /\ lpc = "test"
  /\ lpc' = Tested
  /\ UNCHANGED <<vector, kernel, stopping, lfd, lsize, eintr, sender, history>>

Accept ==
  /\ Alive
  /\ lpc = "accept"
  /\ ~eintr
  /\ \E c \in Clients, fd \in Free :
       /\ peer[c] = "new"
       /\ peer' = [peer EXCEPT ![c] = "up"]
       /\ owner' = [owner EXCEPT ![fd] = c]
       /\ lfd' = fd
  /\ lpc' = "load"
  /\ UNCHANGED <<vector, stopping, lsize, eintr, sender, history>>

AcceptInterrupted ==
  /\ Alive
  /\ lpc = "accept"
  /\ eintr
  /\ lpc' = "ended"
  /\ eintr' = FALSE
  /\ UNCHANGED <<vector, kernel, stopping, lfd, lsize, sender, history>>

\* Every error but EINTR throws, a client that gave up while it queued included.
AcceptFails ==
  /\ Alive
  /\ lpc = "accept"
  /\ ~eintr
  /\ lpc' = "failed"
  /\ UNCHANGED <<vector, kernel, stopping, lfd, lsize, eintr, sender, history>>

\* push_back returns and the loop goes round: its locals are dead.
PutReturns == lpc' = "test" /\ lfd' = Nobody /\ lsize' = 0

\* push_back loads the end of the vector ...
Load ==
  /\ Alive
  /\ lpc = "load"
  /\ lsize' = size
  /\ lpc' = "store"
  /\ UNCHANGED <<vector, kernel, stopping, lfd, eintr, sender, history>>

RoomUnchecked == TRUE

HasRoom == lsize < Capacity

\* ... and stores the descriptor there and moves the end, ...
Put ==
  /\ Alive
  /\ lpc = "store"
  /\ HasRoom
  /\ slot' = [slot EXCEPT ![lsize + 1] = lfd]
  /\ size' = lsize + 1
  /\ PutReturns
  /\ raced' = (raced \/ size # lsize)
  /\ UNCHANGED <<kernel, stopping, eintr, sender, roster, served, failed, misclosed>>

\* ... or moves to a block of twice the capacity.  A pass under way keeps
\* walking the old block.
Grow ==
  /\ Alive
  /\ lpc = "store"
  /\ lsize = Capacity
  /\ slot' = [i \in 1 .. (IF Capacity = 0 THEN 1 ELSE 2 * Capacity) |->
                IF i <= lsize THEN slot[i] ELSE lfd]
  /\ size' = lsize + 1
  /\ PutReturns
  /\ raced' = (raced \/ size # lsize \/ spc # "idle")
  /\ UNCHANGED <<kernel, stopping, eintr, sender, roster, served, failed, misclosed>>

Listen == Setup \/ Test \/ AcceptInterrupted \/ Load \/ Put \/ Grow

(* -------------------------------- send() -------------------------------- *)

Running == Alive /\ lpc \notin {"setup", "destroyed"}

EndShort == IF size = 0 THEN 0 ELSE size - 1

EndOfBlock == Capacity

\* end(), as the range-for takes it before the first pass.
End == size

Begin ==
  /\ Running
  /\ spc = "idle"
  /\ sends < MaxSends
  /\ sends' = sends + 1
  /\ spc' = "loop"
  /\ at' = 1
  /\ last' = End
  /\ block' = Capacity
  /\ roster' = [i \in 1 .. size |-> owner[slot[i]]]
  /\ UNCHANGED <<vector, kernel, stopping, listener, cur, erase, served, failed,
                 raced, misclosed>>

\* What the loop may find in its slot.
Fetched == IF block = Capacity THEN {slot[at]} ELSE Fds

Stands(fd) == IF owner[fd] \in Clients THEN peer[owner[fd]] ELSE "down"

\* ::send returns once the client's buffer has room; one that does not read
\* holds the loop here, so this step is not fair.
SendOne ==
  /\ Running
  /\ spc = "loop"
  /\ at <= last
  /\ \E fd \in Fetched :
       /\ Stands(fd) = "up"
       /\ served' = [served EXCEPT ![owner[fd]] = @ + 1]
  /\ at' = at + 1
  /\ UNCHANGED <<vector, kernel, stopping, listener, spc, last, block, cur, erase,
                 sends, roster, failed, raced, misclosed>>

\* ::send fails: the client is gone, the descriptor closed or not a socket.
SendFails ==
  /\ Running
  /\ spc = "loop"
  /\ at <= last
  /\ \E fd \in Fetched :
       /\ Stands(fd) = "down"
       /\ cur' = fd
       /\ failed' = failed \union ({owner[fd]} \intersect Clients)
  /\ spc' = "remove"
  /\ UNCHANGED <<vector, kernel, stopping, listener, at, last, block, erase, sends,
                 roster, served, raced, misclosed>>

Rank(places, i) == Cardinality({j \in places : j <= i})

\* std::remove moves the other entries down and leaves the tail as it was.
Erase ==
  /\ Running
  /\ spc = "remove"
  /\ LET others == {i \in 1 .. size : slot[i] # cur}
         kept == Cardinality(others)
     IN  /\ slot' = [i \in 1 .. Capacity |->
                       IF i <= kept THEN slot[CHOOSE j \in others : Rank(others, j) = i]
                                    ELSE slot[i]]
         /\ erase' = [block |-> Capacity, size |-> size, kept |-> kept]
  /\ spc' = "shrink"
  /\ UNCHANGED <<size, kernel, stopping, listener, at, last, block, cur, sends,
                 history>>

\* vector::erase moves the end of the vector, of the block it began in.
Shrink ==
  /\ Running
  /\ spc = "shrink"
  /\ IF erase.block = Capacity
       THEN size' = erase.kept /\ spc' = "close"
       ELSE spc' = "crashed" /\ UNCHANGED size
  /\ raced' = (raced \/ erase.size # size)
  /\ UNCHANGED <<slot, kernel, stopping, listener, at, last, block, cur, erase, sends,
                 roster, served, failed, misclosed>>

\* The loop goes round: the body's locals are dead.
NextSlot == spc' = "loop" /\ at' = at + 1 /\ cur' = Nobody /\ erase' = NoErase

Forgotten == owner

Freed == [owner EXCEPT ![cur] = Nobody]

\* A descriptor that std::remove did not find was not the vector's to close.
Close ==
  /\ Running
  /\ spc = "close"
  /\ owner' = Freed
  /\ misclosed' = (misclosed \/ (owner[cur] # Nobody /\ erase.kept = erase.size))
  /\ NextSlot
  /\ UNCHANGED <<vector, peer, stopping, listener, last, block, sends,
                 roster, served, failed, raced>>

Return ==
  /\ Running
  /\ spc = "loop"
  /\ at > last
  /\ spc' = "idle"
  /\ at' = 1 /\ last' = 0 /\ block' = 0
  /\ roster' = <<>> /\ failed' = {} /\ served' = [c \in Clients |-> 0]
  /\ UNCHANGED <<vector, kernel, stopping, listener, cur, erase, sends, raced,
                 misclosed>>

(* ------------- the destructor, the clients and other threads ------------ *)

\* ~broadcast(), once the listener has been joined and no send is under way.
Destroy ==
  /\ Alive
  /\ lpc = "ended"
  /\ spc = "idle"
  /\ lpc' = "destroyed"
  /\ owner' = [fd \in Fds |-> IF Contains(Live, fd) THEN Nobody ELSE owner[fd]]
  /\ UNCHANGED <<vector, peer, stopping, lfd, lsize, eintr, sender, history>>

\* A client is gone, and the next send to it fails.
Disconnect ==
  /\ \E c \in Clients : peer[c] = "up" /\ peer' = [peer EXCEPT ![c] = "down"]
  /\ UNCHANGED <<vector, owner, stopping, listener, sender, history>>

\* Another thread opens a file, or closes its own.
OtherFile ==
  /\ \E fd \in Fds :
       \/ owner[fd] = Nobody /\ owner' = [owner EXCEPT ![fd] = Other]
       \/ owner[fd] = Other /\ owner' = [owner EXCEPT ![fd] = Nobody]
  /\ UNCHANGED <<vector, peer, stopping, listener, sender, history>>

Signal ==
  /\ ~stopping
  /\ stopping' = TRUE
  /\ eintr' \in (IF lpc = "accept" THEN BOOLEAN ELSE {FALSE})
  /\ UNCHANGED <<vector, kernel, lpc, lfd, lsize, sender, history>>

Next ==
  \/ Listen
  \/ Accept
  \/ AcceptFails
  \/ Begin
  \/ SendOne
  \/ SendFails
  \/ Erase
  \/ Shrink
  \/ Close
  \/ Return
  \/ Destroy
  \/ Disconnect
  \/ OtherFile
  \/ Signal

\* The listener is scheduled; clients, messages and signals owe nothing.
Spec == Init /\ [][Next]_vars /\ WF_vars(Listen)

(* ------------------------------ properties ------------------------------ *)

\* Outside push_back and the erase of a client the vector holds every connected
\* client's descriptor exactly once and nothing else, and the destructor closes
\* them all: unless a push_back met a growth or an erase half way through, or
\* the loop closed a descriptor that was no longer its own.
RegistryExact ==
  (~raced /\ ~misclosed) =>
    /\ (lpc \notin {"load", "store", "destroyed"} /\ spc \in {"idle", "loop", "remove"}) =>
         /\ IsInjective(Live)
         /\ Range(Live) = Connected
    /\ lpc = "destroyed" => Connected = {}

\* A client that is served twice or not at all by a pass it survives shares that
\* pass with a client ahead of it whose send failed: the erase inside the loop is
\* the only thing that disturbs the order of a pass no growth or lost update met.
OncePerPass ==
  (~raced /\ ~misclosed /\ spc = "loop" /\ at > last) =>
    \A i \in DOMAIN roster :
      (roster[i] \in Clients \ failed /\ served[roster[i]] # 1) =>
        \E j \in 1 .. i - 1 : roster[j] \in failed

\* The loop closes a descriptor that is not in the vector, a new client's or
\* another thread's, only after two of its own clients failed in one pass: the
\* first failure leaves the stale copy, the second one's descriptor is in it.
MiscloseNeedsTwo ==
  [][(misclosed' /\ ~misclosed /\ ~raced) => Cardinality(failed) >= 2]_vars

\* The steps the listener and its destruction take at most from each place once
\* the flag is up.
StepsLeft ==
  CASE lpc = "accept" -> 5
    [] lpc = "load" -> 4
    [] lpc \in {"setup", "store"} -> 3
    [] lpc = "test" -> 2
    [] lpc = "ended" -> 1
    [] OTHER -> 0

\* Once the flag is up every step of the listener brings it nearer its end: it
\* registers at most one more client, the one it accepts or has in hand, however
\* many queue to be accepted and whatever the executor does to the vector.
StopBounded == [][stopping => UNCHANGED listener \/ StepsLeft' < StepsLeft]_vars

\* The listener sleeps in an accept that the stop did not interrupt.
Missed == stopping /\ lpc = "accept" /\ ~eintr

\* A stop ends the listener by its loop or its break, from wherever it is, an accept
\* that the signal interrupts included, and never by a throw; only one that sleeps
\* in an accept that the signal did not interrupt may wait for the next connection.
StopEnds ==
  (stopping /\ Alive /\ lpc # "setup" /\ ~Missed) ~>
    (lpc \in {"ended", "destroyed"} \/ spc = "crashed")
=============================================================================
