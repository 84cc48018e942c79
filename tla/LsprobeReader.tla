---------------------------- MODULE LsprobeReader ----------------------------
(***************************************************************************)
(* The thread that runs lsp::Reader::operator(), the lsprobe device it     *)
(* reads and the signal handler that releases it.  One read returns one    *)
(* event.  Reading blocks while the device has nothing, so the handler     *)
(* raises `stopping` and then writes a tamper byte, which makes a blocked  *)
(* or later read return.  The device is external: a released read returns  *)
(* either end of file or a record of its own (Wake), never an event.       *)
(*                                                                         *)
(* The handler runs on whichever thread the kernel picks.  On this one it  *)
(* suspends the loop until it returns, and a read that was already blocked *)
(* then fails with EINTR (the handler is installed without SA_RESTART).    *)
(***************************************************************************)
EXTENDS Integers, Sequences

CONSTANT MaxEvents   \* bound: events the device produces in a behaviour

ASSUME MaxEventsAssumption == MaxEvents \in Nat

VARIABLES
  pc,         \* where operator() is
  fd,         \* TRUE while _fd is the open events file
  bytesRead,  \* sign of what the last read returned: 1, 0 or -1
  event,      \* what the read buffer holds: the event's number, or Wake
  stopping,   \* lsp::Reader::stopping
  handler,    \* the signal handler: "idle", "flagged" (flag raised), "returned"
  onReader,   \* the handler runs on this thread
  eintr,      \* the handler interrupted a read that was blocked
  released,   \* the device has accepted the tamper byte
  backlog,    \* events the device holds
  taken,      \* events read from the device
  sent        \* what was put on the channel

readerVars == <<pc, fd, bytesRead, event, taken, sent>>
signalVars == <<stopping, handler, onReader, eintr, released>>
vars == <<pc, fd, bytesRead, event, stopping, handler, onReader, eintr, released,
          backlog, taken, sent>>

Wake == 0
Ended == pc \in {"done", "failed"}

\* The reader asleep in read: nothing to read and nobody to wake it.
Asleep == pc = "read" /\ backlog = 0 /\ ~released /\ ~eintr

TypeOK ==
  /\ pc \in {"open", "read", "test", "send", "retest", "close", "done", "failed"}
  /\ fd \in BOOLEAN
  /\ bytesRead \in {-1, 0, 1}
  /\ event \in 0 .. MaxEvents
  /\ stopping \in BOOLEAN
  /\ handler \in {"idle", "flagged", "returned"}
  /\ onReader \in BOOLEAN
  /\ eintr \in BOOLEAN
  /\ released \in BOOLEAN
  /\ backlog \in Nat
  /\ taken \in Nat
  /\ taken + backlog <= MaxEvents
  /\ sent \in Seq(0 .. MaxEvents)

Init ==
  /\ pc = "open"
  /\ fd = FALSE
  /\ bytesRead = 0
  /\ event = Wake
  /\ stopping = FALSE
  /\ handler = "idle"
  /\ onReader = FALSE
  /\ eintr = FALSE
  /\ released = FALSE
  /\ backlog = 0
  /\ taken = 0
  /\ sent = <<>>

(* ------------------------------ the thread ------------------------------ *)

\* A handler that runs on this thread holds it up until it returns.
Runs == ~(onReader /\ handler = "flagged")

Open ==
  /\ Runs
  /\ pc = "open"
  /\ \/ pc' = "read" /\ fd' = TRUE
     \/ pc' = "failed" /\ UNCHANGED fd
  /\ UNCHANGED <<bytesRead, event, taken, sent, signalVars, backlog>>

Kept == backlog

Drained == backlog - 1

ReadEvent ==
  /\ Runs
  /\ pc = "read"
  /\ ~eintr
  /\ backlog > 0
  /\ backlog' = Drained
  /\ taken' = taken + 1
  /\ event' = taken'
  /\ bytesRead' = 1
  /\ pc' = "test"
  /\ UNCHANGED <<fd, sent, signalVars>>

ReadReleased ==
  /\ Runs
  /\ pc = "read"
  /\ ~eintr
  /\ released
  /\ \/ bytesRead' = 1 /\ event' = Wake
     \/ bytesRead' = 0 /\ UNCHANGED event
  /\ pc' = "test"
  /\ UNCHANGED <<fd, taken, sent, signalVars, backlog>>

ReadInterrupted ==
  /\ Runs
  /\ pc = "read"
  /\ eintr
  /\ eintr' = FALSE
  /\ bytesRead' = -1
  /\ pc' = "test"
  /\ UNCHANGED <<fd, event, taken, sent, stopping, handler, onReader, released, backlog>>

\* Any other error, or end of file: the device may do either at any time.
ReadEnds ==
  /\ Runs
  /\ pc = "read"
  /\ ~eintr
  /\ bytesRead' \in {-1, 0}
  /\ pc' = "test"
  /\ UNCHANGED <<fd, event, taken, sent, signalVars, backlog>>

TestDeaf == IF bytesRead > 0 THEN "send" ELSE "close"

TestSkips == IF bytesRead <= 0 THEN "close" ELSE IF stopping THEN "read" ELSE "send"

Tested == IF ~stopping /\ bytesRead > 0 THEN "send" ELSE "close"

\* while (!stopping.load() && bytesRead > 0)
Test ==
  /\ Runs
  /\ pc = "test"
  /\ pc' = Tested
  /\ UNCHANGED <<fd, bytesRead, event, taken, sent, signalVars, backlog>>

Send ==
  /\ Runs
  /\ pc = "send"
  /\ sent' = Append(sent, event)
  /\ pc' = "retest"
  /\ UNCHANGED <<fd, bytesRead, event, taken, signalVars, backlog>>

\* if (!stopping.load()) bytesRead = ::read(...)
Retest ==
  /\ Runs
  /\ pc = "retest"
  /\ pc' = IF stopping THEN "test" ELSE "read"
  /\ UNCHANGED <<fd, bytesRead, event, taken, sent, signalVars, backlog>>

Close ==
  /\ Runs
  /\ pc = "close"
  /\ fd' = FALSE
  /\ pc' = IF bytesRead < 0 THEN "failed" ELSE "done"
  /\ UNCHANGED <<bytesRead, event, taken, sent, signalVars, backlog>>

Reader ==
  \/ Open
  \/ ReadEvent
  \/ ReadReleased
  \/ ReadInterrupted
  \/ Test
  \/ Send
  \/ Retest
  \/ Close

(* ------------------- the device and the signal handler ------------------ *)

Produce ==
  /\ taken + backlog < MaxEvents
  /\ backlog' = backlog + 1
  /\ UNCHANGED <<readerVars, signalVars>>

ReleaseFirst == released' = TRUE /\ UNCHANGED stopping

RaiseFirst == stopping' = TRUE /\ UNCHANGED released

\* SIGTERM or SIGINT: the handler raises the flag.
Signal ==
  /\ handler = "idle"
  /\ handler' = "flagged"
  /\ RaiseFirst
  /\ \/ onReader' = FALSE /\ UNCHANGED eintr
     \/ onReader' = ~Ended /\ eintr' \in (IF pc = "read" THEN BOOLEAN ELSE {FALSE})
  /\ UNCHANGED <<readerVars, backlog>>

\* release_probe(): the tamper byte is written, or writing it fails.
Release ==
  /\ handler = "flagged"
  /\ handler' = "returned"
  /\ released' \in BOOLEAN
  /\ UNCHANGED <<readerVars, stopping, onReader, eintr, backlog>>

Next == Reader \/ ReadEnds \/ Produce \/ Signal \/ Release

\* The thread and the handler are scheduled; the device owes nothing.
Spec == Init /\ [][Next]_vars /\ WF_vars(Reader) /\ WF_vars(Release)

(* ------------------------------ properties ------------------------------ *)

\* The channel holds the events 1, 2, 3, ... without a gap, a repetition or the
\* device's wake-up record, whatever the loop, the handler and the device
\* interleave: it depends on the handler raising the flag before it releases
\* the device, and on the loop testing the flag after every read.
GapFree == \A i \in 1 .. Len(sent) : sent[i] = i

Phase ==
  IF Ended THEN "ended"
  ELSE IF ~stopping THEN "running"
  ELSE IF pc = "send" THEN "late" ELSE "closed"

Source == INSTANCE EventSource WITH delivered <- sent, phase <- Phase

\* The loop implements the promise of a source: order, no loss while it runs,
\* at most one event after the stop flag, and delivery of what it has taken.
Promise == Source!Spec

\* The steps the loop takes at most from each place once the flag is up.
StepsLeft ==
  CASE pc \in {"open", "send"} -> 4
    [] pc \in {"read", "retest"} -> 3
    [] pc = "test" -> 2
    [] pc = "close" -> 1
    [] OTHER -> 0

\* Once the flag is up every step of the reader brings it nearer its end, so it
\* takes at most four more, however full the device is: the two tests of the flag
\* leave no way round the loop.
StopBounded == [][stopping => UNCHANGED readerVars \/ StepsLeft' < StepsLeft]_vars

\* A stop ends the reader, unless the read sleeps through it: the signal came
\* before the read, or on another thread, and writing the tamper byte failed.
\* Whatever the device had accepted as a wake-up is enough at any point.
StopEnds == stopping ~> (Ended \/ []Asleep)
=============================================================================
