---------------------------- MODULE FanotifyReader ----------------------------
(***************************************************************************)
(* The thread that runs fan::Reader::operator(): it polls the fanotify     *)
(* descriptor, reads a batch of events, sends each one, closes the file    *)
(* descriptor the kernel opened for it, and tests `stopping` in between.   *)
(*                                                                         *)
(* poll has no timeout.  A signal handled on another thread, or on this    *)
(* one just before poll, interrupts nothing: the reader then sleeps until  *)
(* the next file event.  The descriptor itself is non-blocking.            *)
(*                                                                         *)
(* The kernel side is external: a bounded queue that takes one overflow    *)
(* marker when it is full and drops what follows, and a read that returns  *)
(* as many queued events as fit, fewer when opening one of them fails.     *)
(***************************************************************************)
EXTENDS Integers, Sequences, FiniteSets

CONSTANTS
  MaxEvents,  \* bound: file accesses in a behaviour
  MaxQueue,   \* events the kernel queues before it reports an overflow
  BatchMax    \* events that fit into metadataBuffer

ASSUME ConstantsAssumption ==
  /\ MaxEvents \in Nat
  /\ MaxQueue \in Nat \ {0}
  /\ BatchMax \in Nat \ {0}

VARIABLES
  pc,        \* where operator(), pollEvents or handleEvents is
  fad,       \* TRUE while the fanotify descriptor is open
  stopping,  \* fan::Reader::stopping
  eintr,     \* the handler interrupted a poll that was blocked
  made,      \* file accesses so far
  queue,     \* the kernel's queue: "file" and "overflow"
  batch,     \* what is left of the buffer: event numbers, Marker for an overflow
  fds,       \* events whose file descriptor is open
  taken,     \* file events read from the kernel
  sent       \* what was put on the channel

readerVars == <<pc, fad, batch, fds, taken, sent>>
kernelVars == <<made, queue>>
vars == <<pc, fad, stopping, eintr, made, queue, batch, fds, taken, sent>>

Marker == 0
Ended == pc \in {"done", "failed"}

\* The reader asleep in poll with nobody to wake it.
Asleep == pc = "poll" /\ queue = <<>> /\ ~eintr

\* The descriptors of what is still in the buffer.
InBatch == {batch[i] : i \in DOMAIN batch} \ {Marker}

TypeOK ==
  /\ pc \in {"init", "mark", "check", "poll", "read", "loop", "item", "recheck",
             "send", "close", "again", "finish", "done", "failed"}
  /\ fad \in BOOLEAN
  /\ stopping \in BOOLEAN
  /\ eintr \in BOOLEAN
  /\ made \in 0 .. MaxEvents
  /\ queue \in Seq({"file", "overflow"})
  /\ Len(queue) <= MaxQueue + 1
  /\ batch \in Seq(Nat)
  /\ Len(batch) <= BatchMax
  /\ fds \subseteq 1 .. taken
  /\ taken \in 0 .. made
  /\ sent \in Seq(Nat)

Init ==
  /\ pc = "init"
  /\ fad = FALSE
  /\ stopping = FALSE
  /\ eintr = FALSE
  /\ made = 0
  /\ queue = <<>>
  /\ batch = <<>>
  /\ fds = {}
  /\ taken = 0
  /\ sent = <<>>

(* -------------------------- operator() and pollEvents ------------------- *)

Start ==
  /\ pc = "init"
  /\ \/ pc' = "mark" /\ fad' = TRUE
     \/ pc' = "failed" /\ UNCHANGED fad
  /\ UNCHANGED <<stopping, eintr, kernelVars, batch, fds, taken, sent>>

Mark ==
  /\ pc = "mark"
  /\ pc' \in {"check", "failed"}
  /\ UNCHANGED <<fad, stopping, eintr, kernelVars, batch, fds, taken, sent>>

CheckOnce == "poll"

Tested == IF stopping THEN "finish" ELSE "poll"

\* while (!stopping.load())
Check ==
  /\ pc = "check"
  /\ pc' = Tested
  /\ UNCHANGED <<fad, stopping, eintr, kernelVars, batch, fds, taken, sent>>

PollReady ==
  /\ pc = "poll"
  /\ ~eintr
  /\ queue # <<>>
  /\ pc' = "read"
  /\ UNCHANGED <<fad, stopping, eintr, kernelVars, batch, fds, taken, sent>>

\* Our handler ran during poll, so the flag is up: break.
PollInterrupted ==
  /\ pc = "poll"
  /\ eintr
  /\ eintr' = FALSE
  /\ pc' = IF stopping THEN "finish" ELSE "check"
  /\ UNCHANGED <<fad, stopping, kernelVars, batch, fds, taken, sent>>

\* Any other failure of poll: EINTR from elsewhere polls again, the rest throws.
PollFails ==
  /\ pc = "poll"
  /\ ~eintr
  /\ IF stopping THEN pc' = "finish" ELSE pc' \in {"check", "failed"}
  /\ UNCHANGED <<fad, stopping, eintr, kernelVars, batch, fds, taken, sent>>

Finish ==
  /\ pc = "finish"
  /\ fad' = FALSE
  /\ pc' = "done"
  /\ UNCHANGED <<stopping, eintr, kernelVars, batch, fds, taken, sent>>

(* ------------------------------ handleEvents ---------------------------- *)

\* Event i of the queue gets the next free number, an overflow marker gets none.
Numbered(i) ==
  IF queue[i] = "file"
    THEN taken + Cardinality({k \in 1 .. i : queue[k] = "file"})
    ELSE Marker

ReadAll == {Len(queue)} \ {0}

\* How many events one read may return.
Fits == {n \in 1 .. Len(queue) : n <= BatchMax}

\* One read of up to a buffer of events; EAGAIN when there is none.
Read ==
  /\ pc = "read"
  /\ \/ /\ queue = <<>>
        /\ UNCHANGED <<queue, batch, fds, taken>>
     \/ \E n \in Fits :
          /\ batch' = [i \in 1 .. n |-> Numbered(i)]
          /\ taken' = taken + Cardinality({k \in 1 .. n : queue[k] = "file"})
          /\ fds' = fds \union ((taken + 1) .. taken')
          /\ queue' = SubSeq(queue, n + 1, Len(queue))
  /\ pc' = "loop"
  /\ UNCHANGED <<fad, stopping, eintr, made, sent>>

\* The kernel could not open the first event's file: the event is gone.
ReadFails ==
  /\ pc = "read"
  /\ queue # <<>>
  /\ queue' = Tail(queue)
  /\ pc' = "loop"
  /\ UNCHANGED <<fad, stopping, eintr, made, batch, fds, taken, sent>>

\* while (!stopping.load() && bytesRead > 0): a batch that meets the flag here
\* goes with its descriptors.
Loop ==
  /\ pc = "loop"
  /\ IF ~stopping /\ batch # <<>>
       THEN pc' = "item" /\ UNCHANGED batch
       ELSE pc' = "check" /\ batch' = <<>>
  /\ UNCHANGED <<fad, stopping, eintr, kernelVars, fds, taken, sent>>

Item ==
  /\ pc = "item"
  /\ batch # <<>>
  /\ Head(batch) # Marker
  /\ pc' = "recheck"
  /\ UNCHANGED <<fad, stopping, eintr, kernelVars, batch, fds, taken, sent>>

VersionMismatch ==
  /\ pc = "item"
  /\ batch # <<>>
  /\ pc' = "failed"
  /\ UNCHANGED <<fad, stopping, eintr, kernelVars, batch, fds, taken, sent>>

Overflow ==
  /\ pc = "item"
  /\ batch # <<>>
  /\ Head(batch) = Marker
  /\ batch' = Tail(batch)
  /\ UNCHANGED <<pc, fad, stopping, eintr, kernelVars, fds, taken, sent>>

BatchDone ==
  /\ pc = "item"
  /\ batch = <<>>
  /\ pc' = "again"
  /\ UNCHANGED <<fad, stopping, eintr, kernelVars, batch, fds, taken, sent>>

RecheckDeaf == "send"

Rechecked == IF stopping THEN "close" ELSE "send"

\* if (!stopping.load())
Recheck ==
  /\ pc = "recheck"
  /\ pc' = Rechecked
  /\ UNCHANGED <<fad, stopping, eintr, kernelVars, batch, fds, taken, sent>>

\* The event reads its path through its descriptor while it is constructed.
Send ==
  /\ pc = "send"
  /\ sent' = Append(sent, Head(batch))
  /\ pc' = "close"
  /\ UNCHANGED <<fad, stopping, eintr, kernelVars, batch, fds, taken>>

CloseNext == {batch[i] : i \in {2} \intersect DOMAIN batch}

\* metadata->fd
Closed == {Head(batch)}

CloseEvent ==
  /\ pc = "close"
  /\ fds' = fds \ Closed
  /\ batch' = Tail(batch)
  /\ pc' = "item"
  /\ UNCHANGED <<fad, stopping, eintr, kernelVars, taken, sent>>

\* if (!stopping.load()) bytesRead = read(...)
Again ==
  /\ pc = "again"
  /\ pc' = IF stopping THEN "loop" ELSE "read"
  /\ UNCHANGED <<fad, stopping, eintr, kernelVars, batch, fds, taken, sent>>

Reader ==
  \/ Start
  \/ Mark
  \/ Check
  \/ PollReady
  \/ PollInterrupted
  \/ Finish
  \/ Read
  \/ Loop
  \/ Item
  \/ Overflow
  \/ BatchDone
  \/ Recheck
  \/ Send
  \/ CloseEvent
  \/ Again

(* ----------------- the kernel's queue and the signal handler ------------ *)

\* A file of the marked mount is opened or closed.
FileAccess ==
  /\ fad
  /\ pc \notin {"init", "mark"}
  /\ made < MaxEvents
  /\ made' = made + 1
  /\ queue' = IF Len(queue) < MaxQueue THEN Append(queue, "file")
              ELSE IF \E i \in DOMAIN queue : queue[i] = "overflow" THEN queue
              ELSE Append(queue, "overflow")
  /\ UNCHANGED <<pc, fad, stopping, eintr, batch, fds, taken, sent>>

Signal ==
  /\ ~stopping
  /\ stopping' = TRUE
  /\ eintr' \in (IF pc = "poll" THEN BOOLEAN ELSE {FALSE})
  /\ UNCHANGED <<pc, fad, kernelVars, batch, fds, taken, sent>>

Next ==
  \/ Reader
  \/ PollFails
  \/ ReadFails
  \/ VersionMismatch
  \/ FileAccess
  \/ Signal

\* The thread is scheduled; accesses, failures and signals owe nothing.
Spec == Init /\ [][Next]_vars /\ WF_vars(Reader)

(* ------------------------------ properties ------------------------------ *)

Phase ==
  IF Ended THEN "ended"
  ELSE IF ~stopping THEN "running"
  ELSE IF pc = "send" THEN "late" ELSE "closed"

Source == INSTANCE EventSource WITH delivered <- sent, phase <- Phase

\* Batches, overflow markers, partial reads and the nested tests of the flag
\* implement the promise of a source: order, no loss of what was read while
\* the reader runs, at most one event after the flag.
Promise == Source!Spec

\* Every descriptor the kernel opened for an event is closed before the next
\* batch is read.  Only a stop, or an exception in the middle of a batch, leaks
\* any, and together they never leak more than one batch.
DescriptorsClosed ==
  /\ ~stopping => fds = InBatch
  /\ InBatch \subseteq fds
  /\ Cardinality(fds) <= BatchMax

\* The steps the reader takes at most from each place once the flag is up: three
\* for each event that is left in a batch whose loop has begun.
StepsLeft ==
  CASE pc = "item" -> 3 * Len(batch) + 5
    [] pc \in {"recheck", "send"} -> 3 * Len(batch) + 4
    [] pc = "close" -> 3 * Len(batch) + 3
    [] pc = "poll" -> 5
    [] pc \in {"init", "read", "again"} -> 4
    [] pc \in {"mark", "loop"} -> 3
    [] pc = "check" -> 2
    [] pc = "finish" -> 1
    [] OTHER -> 0

\* Once the flag is up every step of the reader brings it nearer its end, however
\* many accesses the kernel queues and whichever calls fail: it finishes the batch
\* it is in, and begins no other unless it has come as far as the read.
StopBounded == [][stopping => UNCHANGED readerVars \/ StepsLeft' < StepsLeft]_vars

\* A stop ends the reader from wherever the loop is, unless it sleeps in a poll
\* the signal did not interrupt; the next file access then ends it.
StopEnds == (stopping /\ ~Asleep) ~> Ended
=============================================================================
