# A TLA+ model of lsmonitor

lsmonitor reads file events from one or two kernel sources, filters them with a
predicate given on the command line, and logs them or counts and broadcasts
them. It is a small program with much concurrency: reader threads blocked in
system calls, stlab processes on a thread pool, a TCP listener, and a signal
handler that must stop all of them. The models are about that concurrency, and
about what the predicate's parser, evaluators and printer compute.

Contents: [the system](#the-system), [modules](#the-modules),
[runs](#the-runs), [fairness](#fairness), [proofs](#what-is-proved),
[modelling decisions](#modelling-decisions), [what is left out](#not-modelled),
[plan](#plan).

## The system

```
 lsprobe device --> lsp::Reader --+                  +--> trace -> filter -> log      (only, any)
                                  +-- stlab channel -+
 fanotify ------->  fan::Reader --+                  +--> trace -> filter -> string   (count_stringified)
                                                               \-> merged: log, stats[str]++, broadcast.send
                                                                                              |
 clients ---------> ctl::broadcast::listen() -- push_back --> _dataFds <-- walk, erase, close-+

 SIGINT/SIGTERM --> signal_handler: three flags, a log line, the tamper byte
 main: starts the threads, joins them, prints the statistics, returns
```

| component | state | operations | what is hard | what makes it correct |
|---|---|---|---|---|
| `lsp::Reader` (`file_event/lsprobe_reader.*`) | `_fd`, `bytesRead`, the event buffer, the static `stopping` | open, read, test, send, close | a blocking read that only the tamper byte releases; EINTR | events in order, no wake-up record sent, at most one after a stop, ends on a stop |
| `fan::Reader` (`file_event/fanotify_reader.*`) | `_fad`, the metadata buffer, one descriptor for each event | init, mark, poll, read a batch, send, close | `poll` without a timeout, three tests of the flag, overflow markers, failing reads | the same, and every descriptor closed |
| `ctl::broadcast` (`lsmonitor/broadcast.*`) | `_acceptFd`, `_dataFds`, `_value` | `setup`, `listen`, `send`, destructor | no lock; erase inside the range-for; descriptors reused by the kernel | the vector is the set of connected clients; each client gets each message once; only own descriptors closed |
| `SourceManager::only`, `any` (`source_manager.hpp`) | the chains' queues | trace, filter, log; join | every stage is a task of its own | accepted events are conserved and, the process permitting, logged |
| `SourceManager::count_stringified` | `stats`, the merged process, the broadcast | log, count, send; three joins; print | main does not wait for the executor | counts exact; no access to the map once main has it |
| `lsp::filter` (`filter.h`) | `_value`, `_state` | `await`, `yield`, `state` | one slot | the slot is never overwritten |
| signal handler (`main.cpp`) | three flags | raise, log, tamper | runs on any thread, logs under it | every thread is released |
| events and predicate (`*_event.*`, `lspredicate/`, `utility.cpp`) | an event's fields, the expression tree | `FileEvent`, evaluate | ill-typed comparisons, unsigned conversions, lookups of a process that may be gone, two copies of the evaluator | the verdict is what the expression means |
| grammar and printer (`expression_def.hpp`, `cmdl_expression.cpp`, `printer.cpp`) | `_expr`, `_empty` | parse, print | ordered alternatives, `expect[]`, a parse of a prefix, dropped parentheses | exactly the derived texts are accepted, with their meaning; what is printed reads back |
| `intersection`, `difference`, `buffered_difference` with `adjacent_if` and `queue` (`variant.h`, `container.h`) | `_container`, `_results`, `stats` | `await`, `yield` of each | pairs by position, batches by equality of sizes, address order | both events of a pair or none, batches never mix, whole batches are judged |
| `ctl::Reader`, `ControlEvent` (`control_reader.*`, `control_event.h`; not compiled) | `_fd`, `_path`, the socket in the file system, `stopping` | open, listen, accept, read, destroy | a path cut short on the way, processes that share the path, sockets left by a crash, clients that keep silent or leave | a listening instance can be reached; commands are obeyed once and in order; a stop ends it |

## The modules

| module | models |
|---|---|
| `EventSource` | abstract: what a reader promises to the rest. A gap-free prefix, no loss while it runs, at most one event after the flag. |
| `LsprobeReader` | `lsp::Reader::operator()`, `signal_handler`, `release_probe`. `pc` is the position in the function; `bytesRead` keeps the sign of the read's result. |
| `FanotifyReader` | `fan::Reader`: `operator()`, `pollEvents`, `handleEvents`. `batch` is what `FAN_EVENT_NEXT` has not passed yet, `fds` the events whose descriptor is open. |
| `Broadcast` | `setup`, `listen`, `send`, the destructor. `slot`, `size` are the vector's memory, `owner` the process's descriptor table. |
| `EventPipeline` | `only` and `any`: for each source a reader (as in `EventSource`) and its chain, one action for each stage; main's joins. |
| `CountStringified` | `count_stringified`: the readers and the listener as they look from outside, the merged process with the warning that `send` logs about a broken client, main, the logger's mutex, the handler on any thread and a second one on top of it. |
| `ZippedChains` | `intersection`, `difference`, `buffered_difference` from the filters on: `lsp::queue`, `lsp::adjacent_if`, the sink. |
| `ExpressionTree` | the tree of `ast.hpp`, up to a depth, and what one means. |
| `Evaluation` | what both evaluators are written with: the result of a bool expression that may throw, an operand with the type `boost::get` asks for. |
| `LsprobeEvent`, `FanotifyEvent` | one `FileEvent` constructor and its `CmdlExpressionEvaluator` each, written after its own file; with `FanotifyEvent` the lookups of `utility.cpp`. |
| `Predicate` | the two sources judging one access, `CmdlExpression`: its constructor, which parses and prints, and `operator()`. |
| `PredicateText` | the rules of the grammar and the printer, and what the grammar derives from a text. A rule is an operator from a text and a position to a match (its tree and the next position), to no match or to an exception; `Parse` is the function of all the rules, which call each other through it. |
| `ControlReader` | `ctl::Reader` in two processes: `openTheWormhole`, `operator()`, `handleEvents`, the destructor, and `ControlEvent`'s code. `at` is what is at the socket's path. |
| `LsprobeReaderProofs`, `FanotifyReaderProofs`, `BroadcastProofs`, `EventPipelineProofs`, `CountStringifiedProofs`, `ZippedChainsProofs`, `ControlReaderProofs`, `PredicateProofs` | the theorems about the module each is named after. |
| `MC*` | the instances for TLC. |

`LsprobeReader` and `FanotifyReader` each implement `EventSource` (the property
`Promise`, with `Phase` as the refinement mapping: a reader past its last test
of the flag is "late"). `EventPipeline` starts from that promise instead of from
the readers: its readers' actions are written after those of `EventSource`.
`CountStringified` takes the readers, the chain and the listener one step
coarser still, so that main, the handler and the executor fit in one instance.

A small operator that stands before another of the same parameters and that no
specification uses (`TestDeaf` before `Tested`, `Kept` before `Drained`) is a
faulty variant of it; it shows that a property notices the fault.

## The runs

| run | configuration | checks | states |
|---|---|---|---|
| `lsprobe_reader` | `MCLsprobeReader.cfg` | `TypeOK`, `GapFree`, `Promise`, `StopEnds` | 888 |
| `fanotify_reader` | `MCFanotifyReader.cfg` | `TypeOK`, `DescriptorsClosed`, `Promise`, `StopBounded`, `StopEnds` | 3511 |
| `broadcast_safety` | `MCBroadcast.cfg` | `TypeOK`, `RegistryExact`, `OncePerPass`, `MiscloseNeedsTwo` | 288621 |
| `broadcast_stop` | `MCBroadcastStop.cfg` | `StopEnds` | 7008 |
| `pipeline_any` | `MCEventPipeline.cfg` | `TypeOK`, `Shown` | 158k |
| `pipeline_only` | `MCEventPipelineOnly.cfg` | `Conservation` | 38k |
| `count_stringified` | `MCCountStringified.cfg` | `TypeOK`, `CountsExact`, `DrainedIsExact`, `StopBounded`, `StopEnds` | 333585 |
| `zipped_chains` | `MCZippedChains.cfg` | `TypeOK`, `BothOfAPair`, `BatchesMeet`, `Judged` | 81472 |
| `predicate` | `MCPredicate.cfg` | `TypeOK`, `VerdictSound`, `SameAccessSameVerdict` | 166270 |
| `predicate_text` | `MCPredicateText.cfg` | `ParsesRight`, `ReadsBack` | 230055 |
| `control_reader` | `MCControlReader.cfg` | `TypeOK`, `NeverListensUnaided`, `ReachableAlone`, `Obeyed`, `Heard`, `StopEnds` | 223661 |
| `predicate_usage` | `MCPredicateUsage.cfg` | `UsageHolds`, which fails | |

What they show, beyond what the properties' comments say:

* **Readers.** The nested tests of the flag are right: after a stop a source
  delivers at most the event in hand, and never the record the device wakes it
  with, because the handler raises the flag before it writes the tamper byte.
  The stop of the lsprobe reader depends on that byte and on nothing else. The
  stop of the fanotify reader has no such help: `StopEnds` excludes a reader
  asleep in `poll`, and the exclusion is needed. A signal that the kernel
  delivers on another thread leaves it, and main's `join`, waiting for the next
  file access. The same holds of the listener in `accept` (`Missed`). A batch that meets
  the flag leaks its descriptors, up to the size of the batch (128).
* **Broadcast.** The vector is exact outside `push_back` and the erase, but only
  in behaviours without a race (`raced`) or a close of somebody else's
  descriptor (`misclosed`). Both exceptions are reachable. An erase in the
  range-for skips the client that moves into the slot, or sends to it twice
  when it is also among the stale entries: `OncePerPass` says that nothing else
  does. Closing a foreign descriptor takes two failed clients in one pass
  (`MiscloseNeedsTwo`): the walk then meets the stale copy of a descriptor it
  has already closed, which the kernel may have given away again. `StopEnds` says
  that a stop ends the loop, also by the `break` after an `accept` that the signal
  interrupted, and not by the throw of `broadcast.cpp:88`.
* **Pipelines.** No interleaving of the stages loses, repeats or reorders an
  accepted event; what a stop can lose is only what the process's exit takes
  with it. In `count_stringified` this loss shows in the statistics:
  `DrainedIsExact` has the premise that the executor was idle when main began
  to print, and without the premise both a stale print and a use of the map
  after its frame is gone are reachable.
* **Zipped modes.** The process types do what they promise: a pair is reported
  whole or not at all, batches of a queue never mix, whole batches get through.
  What that promise is worth is another matter, and the reason to state it as
  `BatchesMeet`: the sources are compared by position, so one event that only
  one source saw, or that only one filter accepts, shifts every later pair, and
  `difference` then shows files that both sources saw. A leftover smaller than
  the capacity, and everything if the capacity is 0, stays in the queue.
* **Stop.** `StopEnds` of `CountStringified` names every way a signal can fail
  to end the process: a thread asleep in a system call that the signal did not
  interrupt; a handler waiting for the logger's mutex held by what it suspends,
  which is the thread it runs on or, because `sa_mask` is empty
  (`main.cpp:61`), the handler of the first of two different signals; and a
  client that does not read, if main's return waits for the executor that
  `broadcast.send` holds. Everything else, the merged process at any of its
  steps included, lets the process end. `StopBounded`, here and for the fanotify
  reader, is the other half of it: a rank (`StepsLeft`) that falls with every step
  after the flag, so nothing can keep them alive by being busy.
* **Predicate.** `VerdictSound` compares the evaluators with a reference
  definition (`Holds`) under every reading of the ill-typed comparisons: a
  verdict is given only when it does not depend on them. The run
  `predicate_usage` states the usage text of `main.cpp:99-102`, and fails: an
  event of the fanotify source has the process group in `gid`, -1 in `uid` and
  the command name in `process` (`fanotify_event.h:34-37`). The
  process may end between any two of those lookups. `SameAccessSameVerdict` puts
  the two events, their lookups and the two hand-made copies of the evaluator
  side by side: they judge an access alike, throwing alike too, whenever the
  sources share what the well-typed comparisons of the expression look at.
  `Shared` says when that is for each identifier, so that it also says what the
  sources do not share: a code that is neither open nor close, a file or a process
  that cannot be resolved any more, a `gid` that is not the process group.
* **Predicate's text.** The grammar is ordered and greedy, but accepts exactly
  what it derives and gives it its one meaning (`ParsesRight`): no alternative
  that X3 tries first takes a text from a later one. The printed predicate reads
  back with its meaning except in two cases, which `Renderable` names and which
  are reachable: a string with a single quotation mark, and a negation directly
  below a negation, `!(!true)`, printed as `!!true`, which the grammar refuses.
* **Control reader.** `NeverListensUnaided`: started where nothing is at the
  path, `remove_filename()` cuts `_path` itself (`control_reader.cpp:36`), bind
  fails on the directory and the process ends. An instance listens only after a
  crash, an error or another program left something at the path, and a clean
  stop takes that away again. `ReachableAlone` needs its premise: an instance
  that starts beside another takes the path from it, and the first one's
  destructor then removes the second one's socket. `Heard` and `StopEnds` name
  what keeps a client or a stop waiting: a client that connects and keeps
  silent, and a signal that does not interrupt the thread in accept or read. A
  client whose read fails is heard in so far as it gets its turn and is closed;
  what it wrote is lost (`control_reader.cpp:98-104`).

### Bounds

Every bound is a constant named in its module.

* `LsprobeReader`, `MaxEvents = 3`: one event delivered, one in the buffer, one
  in the device when the stop comes. The reader looks at one event at a time, so
  more repeat the same control states; the safety properties are proved for
  every value.
* `FanotifyReader`, five accesses, a queue of three, batches of two: two
  batches, an overflow, and an access behind the marker. The types, the
  descriptors and the safety part of the refinement are proved for every value.
* `Broadcast`, three clients, four descriptors, two messages: the vector grows
  three times (capacities 1, 2, 4), a pass can hold two failures and a survivor,
  and one descriptor is free for somebody else. Clients and descriptors are
  symmetric: no definition chooses among them. `MCBroadcastStop.cfg` has two of
  each and no symmetry, because it checks liveness. The safety properties are
  proved for every value.
* `EventPipeline`, two sources of two events, and one source of five: an event
  in each of the chain's five places at once. The predicate is any set of events.
* `ZippedChains`, three events of two files each, capacities 0 to 2: three
  batches of one, or a batch of two and a leftover that must wait. The
  invariants are proved for every value.
* `CountStringified`, two accepted events, of the same source or of both: one
  inside the merged process, the other waiting or sent after the signal. Three
  were tried without the warning and gave no other verdict (601813 states). One
  client is found broken (`MaxBroken = 1`): the warning takes the logger between
  the executor's two other uses of it.
* `Predicate`: seven comparisons (each identifier, one ill-typed) on their own,
  and over three of them and a Boolean every disjunction of up to two
  conjunctions of up to two operands, plain or under a negation; accesses
  by a process that ends before any of the lookups or after them, of a file that
  can be resolved or not; identifiers of four bits instead of 32 (`Limit = 16`). `MaxDepth = 240`.
  The invariants are proved for every set of values, every depth, width and number
  of bits.
* The predicate's text (`MCPredicateText`): every text of up to five symbols out of
  ten, expressions of up to three operands with negations and parentheses, and
  those with a symbol removed or replaced; `MaxDepth = 150`. The invariants are
  proved for texts of any length.
* `MaxDepth` limits nothing: `PredicateAssumption` has it be at least six times the
  length of every text tried. What a text of n symbols spells nests at most 2 n
  deep, and its printed text reads back at most twice as deep.
* `ControlReader`, two instances and two starts (one after, beside or in place of
  the other), two clients (one in hand, one queued), one command and one text
  that is none. Another program puts its file at the path only while no instance
  is up.

Runs that check no deadlock say why in the configuration: the process ends, or
sleeps for good.

## Fairness

Weak fairness stands for a scheduler that does not starve a thread that can run
(reader, listener, main, handler) and for stlab's executor, which runs every
scheduled process. Nothing is assumed of the outside: events, clients,
signals, failures, other threads' files. Two kinds of steps inside the program are left
unfair on purpose: a `::send` to a client that does not read blocks
(`SendOne`, `MergeSend`), and `ReadEnds`, `PollFails`, `ReadFails`, `ThrowError`,
`OpenFails`, `ListenerFails`, `MergeWarn` are errors that need not happen. main's return is fair only
while the executor is idle: the program's code does not say whether stlab's
threads are joined at exit, so both are allowed. A read of the control reader is
a step only when its client has written or left. No strong fairness is used.

## What is proved

The theorems hold for every value of the constants that meets the module's
assumption; TLC checks the same formulas on the instances above.

| module | theorems | assumption |
|---|---|---|
| `LsprobeReaderProofs` | `TypeCorrect`; `GapFreeAlways`: `[]GapFree`; `ImplementsSource`: `Source!SafeSpec`, the safety part of `Promise`; `StopBoundedAlways`: `StopBounded` | `MaxEventsAssumption` |
| `FanotifyReaderProofs` | `TypeCorrect`; `DescriptorsClosedAlways`: `[]DescriptorsClosed`; `ImplementsSource`: `Source!SafeSpec`; `StopBoundedAlways`: `StopBounded` | `ConstantsAssumption`: `MaxEvents` a natural number, a queue and a batch of at least one |
| `BroadcastProofs` | `TypeCorrect`; `RegistryExactAlways`: `[]RegistryExact`; `OncePerPassAlways`: `[]OncePerPass`; `MiscloseNeedsTwoAlways`: `MiscloseNeedsTwo`; `StopBoundedAlways`: `StopBounded` | `ConstantsAssumption`: `MaxSends` a natural number; `Nobody` and `Other` differ and are no clients |
| `EventPipelineProofs` | `TypeCorrect`; `ConservationAlways`: `[]Conservation` | `MaxEventsAssumption` |
| `CountStringifiedProofs` | `TypeCorrect`; `CountsExactAlways`: `[]CountsExact`; `DrainedIsExactAlways`: `[]DrainedIsExact`; `StopBoundedAlways`: `StopBounded` | `BoundsAssumption`: natural bounds |
| `ZippedChainsProofs` | `TypeCorrect`; `BatchesMeetAlways`: `[]BatchesMeet`; `BothOfAPairAlways`: `[]BothOfAPair` | `ConstantsAssumption`: natural bounds |
| `ControlReaderProofs` | `TypeCorrect`; `ObeyedAlways`: `[]Obeyed`; `NeverListensUnaidedAlways`: `[]NeverListensUnaided`; `ReachableAloneAlways`: `[]ReachableAlone`; `StopBoundedAlways`: `StopBounded` | `ControlAssumption`: what may be at the path is told apart, and so are commands and no command |
| `PredicateProofs` | `TypeCorrect`; `ParsesRightAlways`: `[]ParsesRight`; `ReadsBackAlways`: `[]ReadsBack`; `VerdictSoundAlways`: `[]VerdictSound`; `SameAccessSameVerdictAlways`: `[]SameAccessSameVerdict` | `DepthAssumption`; `LimitAssumption`: identifiers have at least one value; `PredicateAssumption`: texts of symbols, deep enough trees, unsigned identifiers; `TextAssumption`: a number is none of the other symbols; `SymbolsAssumption`: what the printer prints are symbols |

In each module `IInv` is the inductive invariant (in `EventPipelineProofs` it is
`TypeOK /\ Conservation`; `BroadcastProofs` has a second layer, `WalkInv`), a lemma for each action or group of actions keeps it,
and the theorems follow from `Invariance`.

**`LsprobeReader`.** `GapFree` is not inductive: it says nothing of the event in
the buffer, which the next send appends. `HandlerInv` relates the handler's
position to the flag and to the released device: the device is released only
when the flag is up, which is the order of `main.cpp:49` and `:53`. `LoopInv`
relates the position in the loop to the buffer: where the flag is tested and is
still down, a positive `bytesRead` comes with the event after the last one sent
and never with the wake-up record; at the send the buffer holds that event; at a
read everything taken has been sent. `StepRefines` maps a read to a `Take`, a
send to a `Deliver` or, with the flag up, a `DeliverLate`, the handler's flag to
a `Stop`, the close to the `End`, and the rest to a stutter.

**`FanotifyReader`.** The queue holds markers among the accesses and a read takes
a batch of both, so the numbers of a batch are not its positions. The queue
numbers its accesses by counting those in front; `FilesReached` shows that the
accesses of a prefix have exactly the numbers from one up to their count (the
count is an injection into that interval and has as many values), and
`FilesSplit` that what a read leaves behind keeps numbers without a gap.
`QueueInv` bounds the queue: only the marker goes beyond the limit. `BatchInv`
says where the batch and the descriptors must be empty, and that descriptors
open and not in the batch exist only after a stop has dropped it: without it
`DescriptorsClosed` says nothing of the next read. `SentInv` says that while the
flag is down the buffer holds exactly what is taken and not sent, so that each
`::send` is the next `Deliver`.

**`EventPipeline`.** For each source, what the sink, the stages and the queues
hold is strictly increasing and is the set of accepted events among those judged
so far; what waits in front of the filter is the next events, in order. A step
moves one event: `HeadMoves` and `AppendMoves` say what taking and appending do
to such a sequence, `Rejects` and `Accepts` what the filter's verdict does to the
set. That an actual reader behaves as the readers of this module do is not
said here: it is what the two `ImplementsSource` theorems prove of each reader.

**`CountStringified`.** `CountInv` is the equation: for each source, what is
counted, what waits and what the merged process has in hand make up what was
sent. The bound in `TypeOK` needs `BoundInv`, which counts a reader past its
last test as one more event. `DrainedIsExact` is about main's last steps and
needs `JoinInv` (whom main has joined has ended, so nothing is sent any more) and
`PrintInv` (nothing races before main prints; an executor that was idle then
stays idle).

**`Broadcast`.** `RegistryInv` follows a descriptor through its stations: pending
after accept, in the vector after push_back, gone from it but not closed after
`std::remove`. `Holds` says at each station that the vector's slots and those
descriptors are the connected clients' and no descriptor is two of them. Half way
through an erase it speaks of the vector as the erase will leave it, and only if
no push_back has come between: that race shows when the erase stores the end.
What `std::remove` leaves is the i-th survivor in slot i; `Ranks` shows that
survivors and ranks correspond one to one. For a pass, `WalkInv` has a frontier
`p`: the clients in front of it have been served once and none of their
descriptors is in a slot the loop has still to visit, stale slots included
(`Served`); either no send has failed and `p` is the loop's slot, or the first
failure was at `p`. An erase moves nothing in front of `p` and brings only entries
from behind it (`MovedBehind`), and a client that is pushed comes behind it. So
whoever is skipped or served twice is behind `p`. `StaleInv` says that as long as
only one client has failed every slot ahead is a copy of a live one, so what is
closed is the vector's. That a client has but one descriptor (`OwnerInv`) is
needed throughout.

**`ZippedChains`.** `Chain` says what a source has brought as far as the zip.
Without a queue that is 1, 2, 3, ...; with one it is whole batches, then the part
of the batch the queue has extracted, the rest of which is still in the buffer,
in any order (`Batch`). A queue that gathers has everything behind the last batch
in its buffer. `Chains` implies `BatchesMeet`, whose injectivity is what makes
`BothOfAPair` inductive: a new pair's events are in no earlier pair
(`HeadIsNew`). `Reported` is `BothOfAPair` event by event.

**`ControlReader`.** `UnaidedInv`: while nobody else has put a file at the path
nothing is ever there, and an instance that comes to bind has cut its path to the
directory, which it cannot bind. `AloneInv`: while no two instances overlap one
process lives, and if it is bound its socket is what is at the path. `LineInv`,
for `Obeyed`: the clients served come before the one in hand, which comes before
those that wait, which are in the order of their connections; and a client that
was served has its event, or left without a word.

**`Predicate`.** The state is one text, one access and two judgements. `IInv` says
that what the constructor decided is what the parse of the text says, and that a
verdict, once given, is `Passes` of the expression and the event; it is inductive
by itself, and everything else is about the parser, the printer and the evaluator
on texts of any length and trees of any depth and width.

The library's induction theorems take operators, which the provers cannot supply,
so `Induction` states induction for a set, and is proved from finite
cardinalities. `TreesAre` shows with it that the levels of trees exist,
`TreeInduction` gives induction over `Trees`, and `Recursion` shows that a function
defined by its values on smaller trees exists. From that, and from the same
argument over a rank of texts and positions, each recursive function of the model
satisfies its own equation: `UntilIs`, `EvaluateIs`, `ComparisonsAre`, `HoldsIs`,
`PrintTreeIs` over trees, `ParseIs` and `MeansAre` over positions. `tlapm` mistakes
a recursive function whose calls all stand in a `CASE` without `OTHER`, so each
of them ends with one.

*Evaluators.* `EvaluateSound` is an induction over trees: under any reading of the
ill-typed comparisons a "yes" or a "no" is what the expression means, and a throw
needs an ill-typed comparison. `EvaluateIs` has a part for each of the two copies,
`lspEvaluateIs` and `fanEvaluateIs`. `EvaluateAgrees` is another induction, over both
copies at once: events that agree on the identifiers of the well-typed comparisons
get the same verdict, or the same throw. `SharedIs` shows that the two events do
agree where `Shared` says so.

*Parser.* `ParsesRight` has two halves, each an induction over the rules at a
position of a text. `ReadIsDerived`: a match is a tree of the rule's shape whose
meaning the grammar derives from just that piece of the text. `DerivedIsRead`: a
piece the grammar derives, in front of anything that cannot continue it, is
matched up to its end, whichever alternative X3 tries first and however greedily it
repeats; it is where one alternative might have taken what belongs to another,
and it also shows that the grammar derives one meaning only. `ParserIsRight` puts
the halves together.

*Printer.* `ReadsBack` is `PrintedIsRead`: the text of a tree, wherever it stands in
a longer one (`Stands`), is read there as a tree that means the same (`Reads`),
as a primary unless it starts with a negation. A row of operands is an induction
over their number (`RowReads`), the tree one over its levels (`ReadableStep`,
`TreesAreReadable`). A single operand is printed without its row, so the tree read
is not the tree printed; it nests at most twice as deep. The two exceptions that
`Renderable` names are what the proof needs of the tree: strings without the mark
that ends them (`Legible`), and no two negation signs side by side (`Apart`).

**The stops.** `StopBounded` is proved of the five components that a flag stops,
and checked on the two where the rank is not just a place in a loop.
`StepsLeft` is the rank: a bound on the steps to the end from each place, so that
the theorem is the argument for termination, without fairness. What is missing
from it to `StopEnds` is that somebody takes the next step: that nobody waits for
good, which the liveness properties check. `LsprobeReader` and `Broadcast` need
their types only. In `FanotifyReader` a read must leave the batch not empty
(`BatchInv`) and the loop shorten it. In `ControlReader`, `DownInv` says that a
process that is gone has its flag down. `CountStringified` adds the ranks of all
threads, the handlers, main and the executor, an event sent weighing more than
its way through the executor; `FlagInv` says that a reader or listener
whose flag is up is no longer running: it has one event in hand, or none.

Only model-checked: every liveness property and the liveness half of `Promise`.
Fairness and `ENABLED` are beyond the prover, so `Shown`, `Judged`, `Heard` and
every `StopEnds` hold for the instances checked. Every invariant of the passing
runs, and every action property among their properties but those, is a theorem.

## Modelling decisions

* One signal in a behaviour, for a second one repeats what the first did: the
  flags stay up and the tamper byte is written again. The exception is
  `CountStringified`, where a second signal may come on top of the first one's
  handler, on the same thread, and take the logger once more.
* The handler on a thread suspends it (`Runs`). It is installed without
  `SA_RESTART` (`main.cpp:60`), so a system call that was blocked on that thread
  fails with EINTR (`eintr`).
* The lsprobe device and the kernel's fanotify queue are external. A released
  read of the device returns end of file or a record that is no event; a full
  fanotify queue takes one overflow marker.
* `listen` and `send` race without synchronisation, which is undefined
  behaviour. The models choose among what a build does: loads and stores of the
  vector's end are separate steps, a pass reads any descriptor from a block that
  was freed, an erase whose block was replaced ends the process. The range-for
  loads begin and end of the vector in one step.
* The data of events is a number; a predicate in the pipelines is the set of the
  events it accepts. That a predicate may throw is a result of `Predicate` and
  does not reach the pipelines' models.
* `CountStringified` starts after `setup` has succeeded and counts only accepted
  events; the fanotify reader's warnings matter because they take the logger.
  A warning after the flag is dropped: the reader tests the flag right after it.
  Every log call of the logger is taken as one critical section; debug messages
  are off. A failed `::send` has the executor take the logger once more, to warn
  (`broadcast.cpp:105`), before it goes on with the next client: `MergeWarn`.
* `ZippedChains` keeps the statistics that `difference` and `buffered_difference`
  count, and says nothing of its own about them: the sink counts where it logs, on
  one process. What can go wrong with statistics, a map that main prints while
  the executor writes it, is `DrainedIsExact` of `CountStringified`.
* A read of `ctl::Reader` that fails for another reason than the stop's signal is
  logged, its client closed and the loop goes on: `ReadFails`. It loses the
  client's command and nothing else.
* main's return ends the process whatever the executor is doing, or waits until
  it is idle. In between the executor works on a frame that is gone: it may be
  lucky or end the process (`MergeCrashes`).
* `Predicate` follows one predicate from its text to the verdicts. The expression
  that is judged is the one the parser made of a text, and not any tree there is.
* A text of `PredicateText` is a sequence of symbols with blanks between them. An
  argument of blanks only is a text without symbols, which the constructor refuses;
  only the argument that is empty gives the predicate that accepts everything
  (`blank`, `cmdl_expression.cpp:21`).
  `Longs` gives the number that each symbol which is one stands for; the printer
  prints some symbol that stands for its number.
  How X3 cuts characters into symbols (an identifier that begins a longer word,
  a number that does not fit a `long`) is not modelled.
* An exception of `ctl::Reader` ends its process without running destructors, as
  an exception that leaves a thread does; its socket stays in the file system.
  The directory is never removed once it is made.

## Not modelled

* A predicate that throws inside a chain: what stlab does with an exception of a
  process is not in this tree (`set_error` in `filter.h` rethrows).
* `set_difference`, `lsp::variant`, `container`: templates that nothing
  instantiates, so there is no program to be faithful to. `variant::await` calls
  `std::forward` without its argument, and `container` reserves, which the
  ordered sets that `set_difference` needs do not.
* The constructors of `CmdlExpression` from an expression: no caller. They leave
  `_empty` true, so such a predicate would accept everything.
* `ctl::Reader`: the peer's credentials and process name in the event.
* `getPwuser`, `getPwgroup`: no caller.
* `function_traits.h`, the build files: no behaviour.
* `src/stlab`, `src/lsprobe`: submodules, empty in this tree. What the program
  relies on is modelled as external.

## Plan

Done, in this order: `EventSource`, `LsprobeReader` and its proofs,
`FanotifyReader`, `Broadcast`, `EventPipeline`, `CountStringified`, `Predicate`,
`ZippedChains`, `ControlReader`, `PredicateText`, and the proofs about
`CountStringified`, `FanotifyReader`, `EventPipeline`, `ControlReader`,
`ZippedChains`, `Broadcast` and `Predicate`; then `StopBounded` of the five
components that a flag stops, and its proofs; then the rules of `PredicateText` as
functions over positions, joined with `Predicate`, and the proofs about the parser
and the printer.

To do: the merged process at the level of `Broadcast`, with `send` inside
`CountStringified` and the clients' buffers as a bounded resource. Today the two
meet in one step, `MergeSend`, which may block; that a slow client holds up every
other one is seen there, and which of them is in `Broadcast`.
