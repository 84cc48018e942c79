----------------------------- MODULE ZippedChains -----------------------------
(***************************************************************************)
(* The modes intersection, difference and buffered_difference from the     *)
(* filters of both sources on: a lsp::queue for each source in the         *)
(* buffered mode, stlab::zip_with into lsp::adjacent_if, and the sink that *)
(* logs and counts.  Events are numbered in the order their filter yields  *)
(* them.  EventPipeline models what comes before, and main's return, which *)
(* ends the process whatever the chains still hold.                        *)
(*                                                                         *)
(* The queue is a multiset of unique_ptr without a comparison of its own:  *)
(* it is ordered by address, so what it extracts first is any element.     *)
(*                                                                         *)
(* stlab is external: FIFO queues, one step of a process at a time, a      *)
(* message taken in the state await only, and by the zip only when each    *)
(* source has one.                                                         *)
(***************************************************************************)
EXTENDS Integers, Sequences, FiniteSets, SequencesExt

CONSTANTS
  Files,        \* file names
  MaxEvents,    \* bound: events of one source
  MaxCapacity   \* bound: capacities of the queue tried

ASSUME ConstantsAssumption == MaxEvents \in Nat /\ MaxCapacity \in Nat

VARIABLES
  mode,       \* the mode
  capacity,   \* queue::_capacity, the command line's --buffer
  file,       \* the file of each event
  arrived,    \* events each filter has yielded
  queueQ,     \* the input of each queue
  buffer,     \* queue::_container
  draining,   \* queue::_state is yield
  zipQ,       \* the zip's input from each source
  paired,     \* what adjacent_if awaited from each source
  results,    \* adjacent_if::_results
  shown,      \* what the sink logged
  stats       \* the statistics

queueVars == <<queueQ, buffer, draining>>
zipVars == <<paired, results>>
sinkVars == <<shown, stats>>
vars == <<mode, capacity, file, arrived, queueVars, zipQ, zipVars, sinkVars>>

Sources == {"lsp", "fan"}
Modes == {"intersection", "difference", "buffered_difference"}
Events == 1 .. MaxEvents

Buffered == mode = "buffered_difference"

TypeOK ==
  /\ mode \in Modes
  /\ capacity \in 0 .. MaxCapacity
  /\ file \in [Sources -> [Events -> Files]]
  /\ arrived \in [Sources -> 0 .. MaxEvents]
  /\ queueQ \in [Sources -> Seq(Events)]
  /\ buffer \in [Sources -> SUBSET Events]
  /\ draining \in [Sources -> BOOLEAN]
  /\ \A s \in Sources : draining[s] => buffer[s] # {}
  /\ zipQ \in [Sources -> Seq(Events)]
  /\ paired \in [Sources -> Seq(Events)]
  /\ Len(paired["lsp"]) = Len(paired["fan"])
  /\ results \in Seq(Sources \X Events) /\ Len(results) <= 2
  /\ shown \in Seq(Sources \X Events)
  /\ stats \in [Files -> Nat]

Init ==
  /\ mode \in Modes
  /\ capacity \in IF Buffered THEN 0 .. MaxCapacity ELSE {0}
  /\ file \in [Sources -> [Events -> Files]]
  /\ arrived = [s \in Sources |-> 0]
  /\ queueQ = [s \in Sources |-> <<>>]
  /\ buffer = [s \in Sources |-> {}]
  /\ draining = [s \in Sources |-> FALSE]
  /\ zipQ = [s \in Sources |-> <<>>]
  /\ paired = [s \in Sources |-> <<>>]
  /\ results = <<>>
  /\ shown = <<>>
  /\ stats = [f \in Files |-> 0]

Put(q, s, n) == [q EXCEPT ![s] = Append(@, n)]

\* A filter yields an event, to its queue or to the zip.
Arrive(s) ==
  /\ arrived[s] < MaxEvents
  /\ arrived' = [arrived EXCEPT ![s] = @ + 1]
  /\ IF Buffered
       THEN queueQ' = Put(queueQ, s, arrived'[s]) /\ UNCHANGED zipQ
       ELSE zipQ' = Put(zipQ, s, arrived'[s]) /\ UNCHANGED queueQ
  /\ UNCHANGED <<mode, capacity, file, buffer, draining, zipVars, sinkVars>>

(* ------------------------------ lsp::queue ------------------------------ *)

FullWithOneMore(b) == Cardinality(b) = capacity + 1

Full(b) == Cardinality(b) = capacity

\* queue::await: it is full when its size equals the capacity.
QueueAwait(s) ==
  /\ ~draining[s]
  /\ queueQ[s] # <<>>
  /\ queueQ' = [queueQ EXCEPT ![s] = Tail(@)]
  /\ buffer' = [buffer EXCEPT ![s] = @ \union {Head(queueQ[s])}]
  /\ draining' = [draining EXCEPT ![s] = Full(buffer'[s])]
  /\ UNCHANGED <<mode, capacity, file, arrived, zipQ, zipVars, sinkVars>>

YieldsForever(b) == TRUE

YieldsOnce(b) == FALSE

YieldsAgain(b) == b # {}

\* queue::yield: it goes on until the queue is empty.
QueueYield(s) ==
  /\ draining[s]
  /\ \E n \in buffer[s] :
       /\ buffer' = [buffer EXCEPT ![s] = @ \ {n}]
       /\ zipQ' = Put(zipQ, s, n)
  /\ draining' = [draining EXCEPT ![s] = YieldsAgain(buffer'[s])]
  /\ UNCHANGED <<mode, capacity, file, arrived, queueQ, zipVars, sinkVars>>

(* --------------------- lsp::adjacent_if and the sink --------------------- *)

\* FilenameEqual, or its negation in the difference modes.
Wanted(l, r) == (file["lsp"][l] = file["fan"][r]) = (mode = "intersection")

PushLeft(l, r) == IF Wanted(l, r) THEN <<<<"lsp", l>>>> ELSE <<>>

\* push_adjacent_if
Push(l, r) == IF Wanted(l, r) THEN <<<<"lsp", l>>, <<"fan", r>>>> ELSE <<>>

\* adjacent_if::await; its state is yield as long as it has results.
AwaitPair ==
  /\ results = <<>>
  /\ \A s \in Sources : zipQ[s] # <<>>
  /\ results' = Push(Head(zipQ["lsp"]), Head(zipQ["fan"]))
  /\ paired' = [s \in Sources |-> Append(paired[s], Head(zipQ[s]))]
  /\ zipQ' = [s \in Sources |-> Tail(zipQ[s])]
  /\ UNCHANGED <<mode, capacity, file, arrived, queueVars, sinkVars>>

Counts == mode # "intersection"

\* adjacent_if::yield, the last result first, and the sink; only the modes of
\* difference keep statistics.
Report ==
  /\ results # <<>>
  /\ LET r == Last(results)
     IN  /\ shown' = Append(shown, r)
         /\ stats' = IF Counts THEN [stats EXCEPT ![file[r[1]][r[2]]] = @ + 1]
                     ELSE stats
  /\ results' = Front(results)
  /\ UNCHANGED <<mode, capacity, file, arrived, queueVars, zipQ, paired>>

Next ==
  \/ \E s \in Sources : Arrive(s) \/ QueueAwait(s) \/ QueueYield(s)
  \/ AwaitPair
  \/ Report

\* The executor runs every process that can step; sources owe nothing.
Spec ==
  /\ Init
  /\ [][Next]_vars
  /\ \A s \in Sources : WF_vars(QueueAwait(s)) /\ WF_vars(QueueYield(s))
  /\ WF_vars(AwaitPair)
  /\ WF_vars(Report)

(* ------------------------------ properties ------------------------------ *)

Pairs == DOMAIN paired["lsp"]

\* Both events of a pair the mode asks for are reported, each once, and no other
\* event ever is, wherever the zip stands between its two yields.
BothOfAPair ==
  LET reported == shown \o results
  IN  /\ IsInjective(reported)
      /\ Range(reported) =
           UNION {{<<s, paired[s][k]>> : s \in Sources} :
                    k \in {k \in Pairs : Wanted(paired["lsp"][k], paired["fan"][k])}}

\* Events meet by their position, not by their file: without a queue the k-th
\* event of one source meets the k-th of the other, with one it meets some event
\* of the batch with the same number.  Refills, address order and the other
\* source's progress never mix two batches.
BatchesMeet ==
  \A s \in Sources :
    LET out == paired[s] \o zipQ[s]
    IN  /\ IsInjective(out)
        /\ \A k \in DOMAIN out :
             IF Buffered THEN capacity > 0 /\ (out[k] - 1) \div capacity = (k - 1) \div capacity
             ELSE out[k] = k

\* What leaves the queue: whole batches, and nothing at all for a capacity of 0.
Released(n) ==
  IF ~Buffered THEN n ELSE IF capacity = 0 THEN 0 ELSE n - (n % capacity)

\* Every event both sources have brought up to a whole batch is judged and, if it
\* is asked for, reported; neither side's queue waits for the other.
Judged ==
  \A n \in Events :
    (\A s \in Sources : Released(arrived[s]) >= n) ~>
      (Len(paired["lsp"]) >= n /\ results = <<>>)
=============================================================================
