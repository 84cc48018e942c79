---------------------------- MODULE EventPipeline ----------------------------
(***************************************************************************)
(* The modes only and any of SourceManager: each source has a reader       *)
(* thread, which keeps the promise of EventSource, and a chain of three    *)
(* stlab processes, a trace, lsp::filter and a sink, which the executor    *)
(* runs one step at a time and in no fixed order among each other.  main   *)
(* joins the readers and leaves; whatever the chains still hold goes with  *)
(* the process.                                                            *)
(*                                                                         *)
(* stlab is external: a process has a FIFO queue, is scheduled while it    *)
(* can step, takes a message only in the state await, and yields in the    *)
(* state yield.  The predicate is any set of the events of a source.       *)
(***************************************************************************)
EXTENDS Integers, Sequences

CONSTANTS
  Sources,    \* the sources of the mode
  MaxEvents   \* bound: events of one source

ASSUME MaxEventsAssumption == MaxEvents \in Nat

VARIABLES
  accepted,   \* the events of each source the predicate accepts
  taken,      \* each source, as in EventSource: taken from the kernel,
  delivered,  \* put on the channel,
  phase,      \* and its phase
  traceQ,     \* the trace's queue
  filterQ,    \* the filter's queue
  value,      \* filter::_value
  state,      \* filter::_state: "await" or "yield"
  sinkQ,      \* the sink's queue
  shown,      \* what the sink logged
  main        \* "join", or "exited" once the process is gone

sourceVars == <<taken, delivered, phase>>
filterVars == <<filterQ, value, state>>
vars == <<accepted, sourceVars, traceQ, filterVars, sinkQ, shown, main>>

Events == 1 .. MaxEvents
Empty == 0

TypeOK ==
  /\ accepted \in [Sources -> SUBSET Events]
  /\ taken \in [Sources -> 0 .. MaxEvents]
  /\ delivered \in [Sources -> Seq(Events)]
  /\ phase \in [Sources -> {"running", "late", "closed", "ended"}]
  /\ traceQ \in [Sources -> Seq(Events)]
  /\ filterQ \in [Sources -> Seq(Events)]
  /\ value \in [Sources -> Events \union {Empty}]
  /\ state \in [Sources -> {"await", "yield"}]
  /\ \A s \in Sources : state[s] = "yield" <=> value[s] # Empty
  /\ sinkQ \in [Sources -> Seq(Events)]
  /\ shown \in [Sources -> Seq(Events)]
  /\ main \in {"join", "exited"}

Init ==
  /\ accepted \in [Sources -> SUBSET Events]
  /\ taken = [s \in Sources |-> 0]
  /\ delivered = [s \in Sources |-> <<>>]
  /\ phase = [s \in Sources |-> "running"]
  /\ traceQ = [s \in Sources |-> <<>>]
  /\ filterQ = [s \in Sources |-> <<>>]
  /\ value = [s \in Sources |-> Empty]
  /\ state = [s \in Sources |-> "await"]
  /\ sinkQ = [s \in Sources |-> <<>>]
  /\ shown = [s \in Sources |-> <<>>]
  /\ main = "join"

Up == main = "join"

Put(q, s, n) == [q EXCEPT ![s] = Append(@, n)]
Pop(q, s) == [q EXCEPT ![s] = Tail(@)]

(* ------------------------------ the readers ----------------------------- *)

Take(s) ==
  /\ Up
  /\ phase[s] # "ended"
  /\ taken[s] < MaxEvents
  /\ taken' = [taken EXCEPT ![s] = @ + 1]
  /\ UNCHANGED <<accepted, delivered, phase, traceQ, filterVars, sinkQ, shown, main>>

\* A reader that has seen its flag delivers no more.
PhaseAfter(s) == IF phase[s] = "late" THEN "closed" ELSE phase[s]

Deliver(s) ==
  /\ Up
  /\ phase[s] \in {"running", "late"}
  /\ Len(delivered[s]) < taken[s]
  /\ LET n == Len(delivered[s]) + 1
     IN  delivered' = Put(delivered, s, n) /\ traceQ' = Put(traceQ, s, n)
  /\ phase' = [phase EXCEPT ![s] = PhaseAfter(s)]
  /\ UNCHANGED <<accepted, taken, filterVars, sinkQ, shown, main>>

\* The signal handler raises the source's flag.
Stop(s) ==
  /\ Up
  /\ phase[s] = "running"
  /\ \E p \in {"late", "closed"} : phase' = [phase EXCEPT ![s] = p]
  /\ UNCHANGED <<accepted, taken, delivered, traceQ, filterVars, sinkQ, shown, main>>

EndSource(s) ==
  /\ Up
  /\ phase[s] \in {"running", "closed"}
  /\ phase' = [phase EXCEPT ![s] = "ended"]
  /\ UNCHANGED <<accepted, taken, delivered, traceQ, filterVars, sinkQ, shown, main>>

\* A reader's exception leaves its thread, or main: the process is terminated.
Throw(s) ==
  /\ Up
  /\ phase[s] \in {"running", "closed"}
  /\ phase' = [phase EXCEPT ![s] = "ended"]
  /\ main' = "exited"
  /\ UNCHANGED <<accepted, taken, delivered, traceQ, filterVars, sinkQ, shown>>

\* main has joined every reader and returns.
Exit ==
  /\ Up
  /\ \A s \in Sources : phase[s] = "ended"
  /\ main' = "exited"
  /\ UNCHANGED <<accepted, sourceVars, traceQ, filterVars, sinkQ, shown>>

(* -------------------------- the executor's chains ----------------------- *)

TracedUnlessFull(s) == IF state[s] = "yield" THEN filterQ ELSE Put(filterQ, s, Head(traceQ[s]))

Traced(s) == Put(filterQ, s, Head(traceQ[s]))

Trace(s) ==
  /\ Up
  /\ traceQ[s] # <<>>
  /\ traceQ' = Pop(traceQ, s)
  /\ filterQ' = Traced(s)
  /\ UNCHANGED <<accepted, sourceVars, value, state, sinkQ, shown, main>>

\* filter::await.
Await(s) ==
  /\ Up
  /\ state[s] = "await"
  /\ filterQ[s] # <<>>
  /\ filterQ' = Pop(filterQ, s)
  /\ IF Head(filterQ[s]) \in accepted[s]
       THEN /\ value' = [value EXCEPT ![s] = Head(filterQ[s])]
            /\ state' = [state EXCEPT ![s] = "yield"]
       ELSE UNCHANGED <<value, state>>
  /\ UNCHANGED <<accepted, sourceVars, traceQ, sinkQ, shown, main>>

StateKept(s) == "yield"

StateAfter(s) == "await"

YieldedUnlessBusy(s) == IF sinkQ[s] = <<>> THEN Put(sinkQ, s, value[s]) ELSE sinkQ

Yielded(s) == Put(sinkQ, s, value[s])

\* filter::yield.
Yield(s) ==
  /\ Up
  /\ state[s] = "yield"
  /\ sinkQ' = Yielded(s)
  /\ value' = [value EXCEPT ![s] = Empty]
  /\ state' = [state EXCEPT ![s] = StateAfter(s)]
  /\ UNCHANGED <<accepted, sourceVars, traceQ, filterQ, shown, main>>

Sink(s) ==
  /\ Up
  /\ sinkQ[s] # <<>>
  /\ sinkQ' = Pop(sinkQ, s)
  /\ shown' = Put(shown, s, Head(sinkQ[s]))
  /\ UNCHANGED <<accepted, sourceVars, traceQ, filterVars, main>>

Next ==
  \/ Exit
  \/ \E s \in Sources :
       \/ Take(s)
       \/ Deliver(s)
       \/ Stop(s)
       \/ EndSource(s)
       \/ Throw(s)
       \/ Trace(s)
       \/ Await(s)
       \/ Yield(s)
       \/ Sink(s)

\* The executor runs every process that can step; readers deliver what they took.
Fairness ==
  /\ WF_vars(Exit)
  /\ \A s \in Sources :
       /\ WF_vars(Deliver(s))
       /\ WF_vars(Trace(s))
       /\ WF_vars(Await(s))
       /\ WF_vars(Yield(s))
       /\ WF_vars(Sink(s))

SafeSpec == Init /\ [][Next]_vars

Spec == SafeSpec /\ Fairness

(* ------------------------------ properties ------------------------------ *)

Held(s) == IF state[s] = "yield" THEN <<value[s]>> ELSE <<>>

\* What the filter has let through, and what is on its way to the filter.
Passed(s) == shown[s] \o sinkQ[s] \o Held(s)
Coming(s) == filterQ[s] \o traceQ[s]

\* How many events the filter has judged.
Judged(s) == Len(delivered[s]) - Len(Coming(s))

\* Nothing the predicate accepts is lost, repeated or overtaken between the
\* reader's send and the log, wherever the executor is with each stage; and
\* nothing it rejects gets past the filter.
Conserved(s) ==
  /\ \A i, j \in DOMAIN Passed(s) : i < j => Passed(s)[i] < Passed(s)[j]
  /\ {Passed(s)[i] : i \in DOMAIN Passed(s)} = {n \in accepted[s] : n <= Judged(s)}
  /\ \A i \in DOMAIN Coming(s) : Coming(s)[i] = Judged(s) + i

Conservation == \A s \in Sources : Conserved(s)

\* An event a reader has put on its channel is shown if the predicate accepts
\* it, or the process is gone first: nothing flushes the chains on a stop.
Shown ==
  \A s \in Sources, n \in Events :
    (Len(delivered[s]) >= n /\ n \in accepted[s]) ~>
      ((\E i \in DOMAIN shown[s] : shown[s][i] = n) \/ main = "exited")
=============================================================================
