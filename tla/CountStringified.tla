--------------------------- MODULE CountStringified ---------------------------
(***************************************************************************)
(* The mode count_stringified: the two readers, the listener of the        *)
(* broadcast, main, the executor that runs the merged process, and the     *)
(* signal handler on whichever of their threads the kernel picks.          *)
(*                                                                         *)
(* Each part is at the level its own module justifies: a reader is an      *)
(* EventSource that may sleep through its flag, a chain of stages is a     *)
(* FIFO of the events the predicate accepts, the listener and send() are   *)
(* what they do to their threads.  What is new is between them: the        *)
(* logger's mutex, which the merged process, the fanotify reader and the   *)
(* handler itself all take; main, which joins the three threads but not    *)
(* the executor, prints the statistics and leaves the frame they live in;  *)
(* and the order in which the handler raises the flags and writes the      *)
(* tamper byte.                                                            *)
(***************************************************************************)
EXTENDS Integers

CONSTANTS
  MaxEvents,  \* bound: accepted events of both sources
  MaxBroken   \* bound: clients of the broadcast whose connection breaks

ASSUME BoundsAssumption == MaxEvents \in Nat /\ MaxBroken \in Nat

Sources == {"lsp", "fan"}
Threads == Sources \union {"br", "main", "exec"}
Nobody == "nobody"

VARIABLES
  phase,     \* lsp, fan and br: "running", "late", "closed", "ended"
  asleep,    \* blocked in its system call and not woken since the flag went up
  eintr,     \* the threads whose blocked system call a signal interrupted
  sent,      \* accepted events each reader has put on its channel
  pending,   \* those the merged process has not taken yet
  mpc, mcur, \* the merged process and the source of its event
  stats,     \* stats, by source
  broken,    \* clients whose send will fail, those that break later included
  logger,    \* the thread in the logger's critical section
  hpc, host, \* where the signal handler is and the thread it runs on
  spc,       \* where a second signal's handler is, on top of it
  main,      \* where main is
  printed,   \* what printStats printed
  drained,   \* no event was under way when main started to print
  raced,     \* the executor used the map or the frame while main had it
  outcome    \* the process: "up", "exited" or "aborted"

threadVars == <<phase, asleep, eintr, sent>>
mergeVars == <<pending, mpc, mcur, stats, broken>>
handlerVars == <<hpc, host, spc>>
mainVars == <<main, printed, drained>>
vars == <<threadVars, mergeVars, logger, handlerVars, mainVars, raced, outcome>>

Watched == Sources \union {"br"}
NoCount == [s \in Sources |-> 0]
\* The events sent, and one that a reader has in hand past its last test.
Offered(s) == sent[s] + (IF phase[s] = "late" THEN 1 ELSE 0)

Accepted == Offered("lsp") + Offered("fan")

InHandler == hpc \notin {"idle", "done", "failed"}

\* The process lives and no handler holds the thread up.
Runs(t) == outcome = "up" /\ ~(InHandler /\ host = t)

TypeOK ==
  /\ phase \in [Watched -> {"running", "late", "closed", "ended"}]
  /\ asleep \in [Watched -> BOOLEAN]
  /\ eintr \subseteq Watched
  /\ sent \in [Sources -> 0 .. MaxEvents]
  /\ pending \in [Sources -> 0 .. MaxEvents]
  /\ mpc \in {"idle", "log", "logging", "count", "send", "warning"}
  /\ mcur \in Sources
  /\ stats \in [Sources -> 0 .. MaxEvents]
  /\ broken \in 0 .. MaxBroken
  /\ logger \in {Nobody, "exec", "fan", "handler"}
  /\ hpc \in {"idle", "lsp", "fan", "br", "log", "logging", "tamper", "done", "failed"}
  /\ spc \in {"none", "log", "tamper", "done"}
  /\ host \in Threads \union {Nobody}
  /\ main \in {"fan", "lsp", "br", "print", "printing", "unwind", "return"}
  /\ printed \in [Sources -> 0 .. MaxEvents]
  /\ drained \in BOOLEAN
  /\ raced \in BOOLEAN
  /\ outcome \in {"up", "exited", "aborted"}

Init ==
  /\ phase = [t \in Watched |-> "running"]
  /\ asleep = [t \in Watched |-> FALSE]
  /\ eintr = {}
  /\ sent = NoCount
  /\ pending = NoCount
  /\ mpc = "idle"
  /\ mcur = "lsp"
  /\ stats = NoCount
  /\ broken = MaxBroken
  /\ logger = Nobody
  /\ hpc = "idle"
  /\ host = Nobody
  /\ spc = "none"
  /\ main = "fan"
  /\ printed = NoCount
  /\ drained = FALSE
  /\ raced = FALSE
  /\ outcome = "up"

\* The process is gone with all it had.
Gone(how) ==
  /\ phase' = [t \in Watched |-> "running"]
  /\ asleep' = [t \in Watched |-> FALSE]
  /\ eintr' = {}
  /\ sent' = NoCount
  /\ pending' = NoCount
  /\ mpc' = "idle"
  /\ mcur' = "lsp"
  /\ stats' = NoCount
  /\ broken' = MaxBroken
  /\ logger' = Nobody
  /\ hpc' = "idle"
  /\ host' = Nobody
  /\ spc' = "none"
  /\ main' = "fan"
  /\ printed' = NoCount
  /\ drained' = FALSE
  /\ raced' = FALSE
  /\ outcome' = how

(* --------------------- the readers and the listener --------------------- *)

\* An event the predicate accepts.
SendEvent(s) ==
  /\ Runs(s)
  /\ \/ phase[s] = "running" /\ Accepted < MaxEvents
     \/ phase[s] = "late"
  /\ logger # s
  /\ sent' = [sent EXCEPT ![s] = @ + 1]
  /\ pending' = [pending EXCEPT ![s] = @ + 1]
  /\ phase' = [phase EXCEPT ![s] = IF @ = "late" THEN "closed" ELSE @]
  /\ UNCHANGED <<asleep, eintr, mpc, mcur, stats, broken, logger, handlerVars, mainVars,
                 raced, outcome>>

\* The fanotify reader warns of an overflow or a path it cannot resolve.
Warn ==
  /\ Runs("fan")
  /\ phase["fan"] = "running"
  /\ logger = Nobody
  /\ logger' = "fan"
  /\ UNCHANGED <<threadVars, mergeVars, handlerVars, mainVars, raced, outcome>>

Warned ==
  /\ Runs("fan")
  /\ logger = "fan"
  /\ logger' = Nobody
  /\ UNCHANGED <<threadVars, mergeVars, handlerVars, mainVars, raced, outcome>>

\* An event or a connection arrives after all and the thread sees its flag.
Wake(t) ==
  /\ Runs(t)
  /\ asleep[t]
  /\ asleep' = [asleep EXCEPT ![t] = FALSE]
  /\ UNCHANGED <<phase, eintr, sent, mergeVars, logger, handlerVars, mainVars, raced,
                 outcome>>

\* The lsprobe reader's read was interrupted: it throws.
Interrupted(t) == t = "lsp" /\ t \in eintr

\* The thread's function returns because its flag is up.
EndThread(t) ==
  /\ Runs(t)
  /\ phase[t] = "closed"
  /\ ~asleep[t]
  /\ ~Interrupted(t)
  /\ logger # t
  /\ phase' = [phase EXCEPT ![t] = "ended"]
  /\ UNCHANGED <<asleep, eintr, sent, mergeVars, logger, handlerVars, mainVars, raced,
                 outcome>>

\* The lsprobe file is at its end.
EndOfFile ==
  /\ Runs("lsp")
  /\ phase["lsp"] = "running"
  /\ phase' = [phase EXCEPT !["lsp"] = "ended"]
  /\ UNCHANGED <<asleep, eintr, sent, mergeVars, logger, handlerVars, mainVars, raced,
                 outcome>>

\* An exception leaves the thread, and std::terminate ends the process.
Terminate == Gone("aborted")

ThrowInterrupted == Runs("lsp") /\ phase["lsp"] = "closed" /\ Interrupted("lsp") /\ Terminate

\* Any other system call of the thread fails.
ThrowError(t) == Runs(t) /\ phase[t] \in {"running", "closed"} /\ ~asleep[t] /\ Terminate

(* -------------------------- the merged process -------------------------- *)

Kept(s) == pending

Taken(s) == [pending EXCEPT ![s] = @ - 1]

\* Its queues live until main leaves the frame.
MergeTake(s) ==
  /\ Runs("exec")
  /\ mpc = "idle"
  /\ main # "return"
  /\ pending[s] > 0
  /\ pending' = Taken(s)
  /\ mcur' = s
  /\ mpc' = "log"
  /\ UNCHANGED <<threadVars, stats, broken, logger, handlerVars, mainVars, raced, outcome>>

MergeLog ==
  /\ Runs("exec")
  /\ mpc = "log"
  /\ logger = Nobody
  /\ logger' = "exec"
  /\ mpc' = "logging"
  /\ UNCHANGED <<threadVars, pending, mcur, stats, broken, handlerVars, mainVars, raced,
                 outcome>>

MergeLogged ==
  /\ Runs("exec")
  /\ mpc = "logging"
  /\ logger' = Nobody
  /\ mpc' = "count"
  /\ UNCHANGED <<threadVars, pending, mcur, stats, broken, handlerVars, mainVars, raced,
                 outcome>>

CountedFirst == [stats EXCEPT !["lsp"] = @ + 1]

Counted == [stats EXCEPT ![mcur] = @ + 1]

\* stats[str]++: undefined while main prints the map or has left its frame.
MergeCount ==
  /\ Runs("exec")
  /\ mpc = "count"
  /\ stats' = Counted
  /\ mpc' = "send"
  /\ raced' = (raced \/ main \in {"printing", "return"})
  /\ UNCHANGED <<threadVars, pending, mcur, broken, logger, handlerVars, mainVars, outcome>>

\* broadcast.send(): a client that does not read holds it, so it is not fair.
MergeSend ==
  /\ Runs("exec")
  /\ mpc = "send"
  /\ mpc' = "idle"
  /\ raced' = (raced \/ main = "return")
  /\ UNCHANGED <<threadVars, pending, mcur, stats, broken, logger, handlerVars, mainVars,
                 outcome>>

\* ::send fails: the executor takes the logger again to say so, the client is
\* erased, and the next one is sent to.
MergeWarn ==
  /\ Runs("exec")
  /\ mpc = "send"
  /\ broken > 0
  /\ broken' = broken - 1
  /\ logger = Nobody
  /\ logger' = "exec"
  /\ mpc' = "warning"
  /\ raced' = (raced \/ main = "return")
  /\ UNCHANGED <<threadVars, pending, mcur, stats, handlerVars, mainVars, outcome>>

MergeWarned ==
  /\ Runs("exec")
  /\ mpc = "warning"
  /\ logger' = Nobody
  /\ mpc' = "send"
  /\ raced' = (raced \/ main = "return")
  /\ UNCHANGED <<threadVars, pending, mcur, stats, broken, handlerVars, mainVars, outcome>>

\* The map, or the broadcast of a frame that is gone, may end the process then.
MergeCrashes ==
  /\ Runs("exec")
  /\ \/ mpc = "count" /\ main \in {"printing", "return"}
     \/ mpc \in {"send", "warning"} /\ main = "return"
  /\ Terminate

(* --------------------------------- main --------------------------------- *)

Idle == mpc = "idle" /\ pending = NoCount

AfterTwo(t) == IF t = "fan" THEN "br" ELSE "print"

\* The thread main joins after t.
After(t) ==
  CASE t = "fan" -> "lsp"
    [] t = "lsp" -> "br"
    [] t = "br" -> "print"

Join ==
  /\ Runs("main")
  /\ main \in Watched
  /\ phase[main] = "ended"
  /\ main' = After(main)
  /\ UNCHANGED <<threadVars, mergeVars, logger, handlerVars, printed, drained, raced,
                 outcome>>

PrintStats ==
  /\ Runs("main")
  /\ main = "print"
  /\ main' = "printing"
  /\ drained' = Idle
  /\ printed' = stats
  /\ UNCHANGED <<threadVars, mergeVars, logger, handlerVars, raced, outcome>>

Printed ==
  /\ Runs("main")
  /\ main = "printing"
  /\ main' = "unwind"
  /\ UNCHANGED <<threadVars, mergeVars, logger, handlerVars, printed, drained, raced,
                 outcome>>

\* The frame goes: the receivers, the broadcast and the statistics.
Unwind ==
  /\ Runs("main")
  /\ main = "unwind"
  /\ main' = "return"
  /\ UNCHANGED <<threadVars, mergeVars, logger, handlerVars, printed, drained, raced,
                 outcome>>

\* Whether it waits for the executor's threads is stlab's affair.
Exit ==
  /\ Runs("main")
  /\ main = "return"
  /\ Gone("exited")

Main == Join \/ PrintStats \/ Printed \/ Unwind

(* --------------------------- the signal handler -------------------------- *)

\* A thread that can still take a signal.
Hosts == {t \in Threads : t \in Watched => phase[t] # "ended"}

Signal ==
  /\ outcome = "up"
  /\ hpc = "idle"
  /\ hpc' = "lsp"
  /\ host' \in Hosts
  /\ eintr' \in (IF host' \in Watched /\ logger # host' THEN {{}, {host'}} ELSE {{}})
  /\ UNCHANGED <<phase, asleep, sent, mergeVars, logger, spc, mainVars, raced, outcome>>

\* A thread the signal did not interrupt may be blocked, or about to block, or
\* past its last test of the flag with an event in hand.
Raise ==
  /\ outcome = "up"
  /\ hpc \in Watched
  /\ IF phase[hpc] = "running"
       THEN \E b \in BOOLEAN, p \in {"late", "closed"} :
              /\ b => p = "closed" /\ logger # hpc
              /\ p = "late" => hpc # "br" /\ Accepted < MaxEvents
              /\ hpc \in eintr => ~b /\ p = "closed"
              /\ asleep' = [asleep EXCEPT ![hpc] = b]
              /\ phase' = [phase EXCEPT ![hpc] = p]
       ELSE UNCHANGED <<phase, asleep>>
  /\ hpc' = CASE hpc = "lsp" -> "fan"
              [] hpc = "fan" -> "br"
              [] hpc = "br" -> "log"
  /\ UNCHANGED <<eintr, sent, mergeVars, logger, host, spc, mainVars, raced, outcome>>

\* The first handler goes on unless the second is on top of it.
FirstRuns == outcome = "up" /\ spc \notin {"log", "tamper"}

\* spdlog::info in release_probe: it waits for a mutex that the thread below it
\* may hold.
HandlerLogs ==
  /\ FirstRuns
  /\ hpc = "log"
  /\ logger = Nobody
  /\ logger' = "handler"
  /\ hpc' = "logging"
  /\ UNCHANGED <<threadVars, mergeVars, host, spc, mainVars, raced, outcome>>

HandlerLogged ==
  /\ FirstRuns
  /\ hpc = "logging"
  /\ logger' = Nobody
  /\ hpc' = "tamper"
  /\ UNCHANGED <<threadVars, mergeVars, host, spc, mainVars, raced, outcome>>

NotReleased == asleep

Released == [asleep EXCEPT !["lsp"] = FALSE]

\* The tamper byte releases a reader blocked in read.
TamperWritten ==
  /\ FirstRuns
  /\ hpc = "tamper"
  /\ hpc' = "done"
  /\ asleep' = Released
  /\ UNCHANGED <<phase, eintr, sent, mergeVars, logger, host, spc, mainVars, raced, outcome>>

TamperFails ==
  /\ FirstRuns
  /\ hpc = "tamper"
  /\ hpc' = "failed"
  /\ UNCHANGED <<threadVars, mergeVars, logger, host, spc, mainVars, raced, outcome>>

Handler == Raise \/ HandlerLogs \/ HandlerLogged \/ TamperWritten \/ TamperFails

\* sa_mask is empty: a SIGTERM may come on top of a SIGINT's handler.  The flags
\* are up, as it would raise them again.
Again ==
  /\ outcome = "up"
  /\ hpc \in {"log", "logging", "tamper"}
  /\ spc = "none"
  /\ spc' = "log"
  /\ UNCHANGED <<threadVars, mergeVars, logger, hpc, host, mainVars, raced, outcome>>

SecondLogs ==
  /\ outcome = "up"
  /\ spc = "log"
  /\ logger = Nobody
  /\ spc' = "tamper"
  /\ UNCHANGED <<threadVars, mergeVars, logger, hpc, host, mainVars, raced, outcome>>

\* The write fails or releases the reader, as the first one's.
SecondTampers ==
  /\ outcome = "up"
  /\ spc = "tamper"
  /\ spc' = "done"
  /\ asleep' \in {asleep, Released}
  /\ UNCHANGED <<phase, eintr, sent, mergeVars, logger, hpc, host, mainVars, raced, outcome>>

Second == SecondLogs \/ SecondTampers

Next ==
  \/ \E s \in Sources : SendEvent(s) \/ MergeTake(s)
  \/ \E t \in Watched : Wake(t) \/ EndThread(t) \/ ThrowError(t)
  \/ Warn
  \/ Warned
  \/ EndOfFile
  \/ ThrowInterrupted
  \/ MergeLog
  \/ MergeLogged
  \/ MergeCount
  \/ MergeSend
  \/ MergeWarn
  \/ MergeWarned
  \/ MergeCrashes
  \/ Main
  \/ Exit
  \/ Signal
  \/ Handler
  \/ Again
  \/ Second

\* Every thread that can move is scheduled; events, clients and errors owe nothing.
\* main's return ends the process at the latest when the executor is idle.
Spec ==
  /\ Init
  /\ [][Next]_vars
  /\ \A s \in Sources : WF_vars(phase[s] = "late" /\ SendEvent(s))
  /\ \A t \in Watched : WF_vars(EndThread(t))
  /\ WF_vars(Warned)
  /\ WF_vars(ThrowInterrupted)
  /\ WF_vars(MergeLog \/ MergeLogged \/ MergeCount \/ MergeWarned)
  /\ WF_vars(Main)
  /\ WF_vars(mpc = "idle" /\ Exit)
  /\ WF_vars(Handler)
  /\ WF_vars(Second)

(* ------------------------------ properties ------------------------------ *)

\* Every accepted event a reader sent is counted once, under its own string, or
\* is still on its way, however the two chains merge.
CountsExact ==
  ~raced =>
    \A s \in Sources :
      stats[s] + pending[s]
        + (IF mcur = s /\ mpc \in {"log", "logging", "count"} THEN 1 ELSE 0) = sent[s]

\* If the executor had nothing left when main began to print, the statistics are
\* complete and the executor never touches the map or the frame that main is
\* done with: main joins all who could still send.  Otherwise neither holds.
DrainedIsExact == drained => printed = sent /\ ~raced

\* The handler has raised all three flags.
FlagsUp == hpc \in {"log", "logging", "tamper", "done", "failed"}

HandlerSteps(place) ==
  CASE place = "none" -> 4
    [] place = "log" -> 3
    [] place = "logging" -> 2
    [] place = "tamper" -> 1
    [] OTHER -> 0

MainSteps ==
  CASE main = "fan" -> 6
    [] main = "lsp" -> 5
    [] main = "br" -> 4
    [] main = "print" -> 3
    [] main = "printing" -> 2
    [] main = "unwind" -> 1
    [] main = "return" -> 0

MergeSteps ==
  CASE mpc = "idle" -> 0
    [] mpc = "log" -> 4
    [] mpc = "logging" -> 3
    [] mpc = "count" -> 2
    [] mpc = "send" -> 1
    [] mpc = "warning" -> 2

\* An event in hand is sent, and then passes through the merged process.
ThreadSteps(t) ==
  (CASE phase[t] = "late" -> 7
     [] phase[t] = "closed" -> 1
     [] OTHER -> 0)
  + (IF asleep[t] THEN 1 ELSE 0)

\* The steps the whole process takes at most, and the one that ends it.
StepsLeft ==
  IF outcome # "up" THEN 0
  ELSE 1 + HandlerSteps(hpc) + HandlerSteps(spc) + MainSteps + MergeSteps
         + ThreadSteps("lsp") + ThreadSteps("fan") + ThreadSteps("br")
         + 5 * (pending["lsp"] + pending["fan"])
         + 2 * broken
         + (IF logger = "fan" THEN 1 ELSE 0)

\* Once the flags are up every step of anybody, the kernel's wake-ups and a second
\* signal included, brings the whole process nearer its end: no part of it can keep
\* another busy, and only what waits for good (StopEnds) can keep it alive.
StopBounded == [][FlagsUp => StepsLeft' < StepsLeft]_vars

\* A handler waits for the logger, held by what it runs on top of: the thread or
\* the other handler.
Deadlocked == "log" \in {hpc, spc} /\ logger \in {host, "handler"}

\* Blocked for good: in the fanotify poll or the accept, which no signal
\* interrupted, or in the lsprobe read after the tamper byte failed.
Sleeping == asleep["fan"] \/ asleep["br"] \/ (asleep["lsp"] /\ hpc = "failed")

\* main has returned, but the executor is in broadcast.send, held by a client that
\* does not read.
Stalled == main = "return" /\ mpc = "send"

\* A signal ends the process, whatever the executor is still doing, unless a
\* thread sleeps through its flag, a handler waits for what it suspends, or a
\* client holds the executor and stlab waits for it.
StopEnds == (hpc # "idle") ~> (outcome # "up" \/ [](Deadlocked \/ Sleeping \/ Stalled))
=============================================================================
