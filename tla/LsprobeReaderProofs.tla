------------------------- MODULE LsprobeReaderProofs -------------------------
(***************************************************************************)
(* The reader loop of LsprobeReader, proved for every number of events:    *)
(* its types, the gap-free channel, and that the loop implements the       *)
(* safety part of EventSource.                                             *)
(***************************************************************************)
EXTENDS LsprobeReader, SequenceTheorems, TLAPS

\* What the channel and the buffer hold at each point of the loop.
LoopInv ==
  /\ GapFree
  /\ Len(sent) <= taken
  /\ pc \in {"open", "read", "retest"} => Len(sent) = taken
  /\ pc = "send" => event = taken /\ taken = Len(sent) + 1
  /\ (pc = "test" /\ ~stopping /\ bytesRead > 0) =>
       event = taken /\ taken = Len(sent) + 1

\* The order of the handler's two steps: nothing is released before the flag is up.
HandlerInv ==
  /\ handler # "idle" <=> stopping
  /\ released => stopping

IInv == TypeOK /\ HandlerInv /\ LoopInv

LEMMA InitInvariant == Init => IInv
<1> SUFFICES ASSUME Init PROVE IInv
  OBVIOUS
<1> USE MaxEventsAssumption DEF Init
<1>1. sent \in Seq(0 .. MaxEvents)
  OBVIOUS
<1>2. MaxEvents \in Nat /\ taken + backlog <= MaxEvents /\ event \in 0 .. MaxEvents
  BY DEF Wake
<1>3. bytesRead \in {-1, 0, 1}
  OBVIOUS
<1>4. TypeOK
  BY <1>1, <1>2, <1>3 DEF TypeOK, Wake
<1>5. HandlerInv /\ LoopInv
  BY DEF HandlerInv, LoopInv, GapFree
<1> QED
  BY <1>4, <1>5 DEF IInv

LEMMA TypeStep == TypeOK /\ [Next]_vars => TypeOK'
<1> SUFFICES ASSUME TypeOK, [Next]_vars PROVE TypeOK'
  OBVIOUS
<1> USE MaxEventsAssumption DEF TypeOK
<1>1. CASE Open
  BY <1>1 DEF Open, signalVars
<1>2. CASE ReadEvent
  BY <1>2 DEF ReadEvent, Drained, signalVars
<1>3. CASE ReadReleased
  BY <1>3 DEF ReadReleased, signalVars, Wake
<1>4. CASE ReadInterrupted
  BY <1>4 DEF ReadInterrupted
<1>5. CASE Test
  BY <1>5 DEF Test, Tested, signalVars
<1>6. CASE Send
  BY <1>6 DEF Send, signalVars
<1>7. CASE Retest
  BY <1>7 DEF Retest, signalVars
<1>8. CASE Close
  BY <1>8 DEF Close, signalVars
<1>9. CASE ReadEnds
  BY <1>9 DEF ReadEnds, signalVars
<1>10. CASE Produce
  BY <1>10 DEF Produce, readerVars, signalVars
<1>11. CASE Signal
  BY <1>11 DEF Signal, RaiseFirst, readerVars, Ended
<1>12. CASE Release
  BY <1>12 DEF Release, readerVars
<1>13. CASE UNCHANGED vars
  BY <1>13 DEF vars
<1> QED
  BY <1>1, <1>2, <1>3, <1>4, <1>5, <1>6, <1>7, <1>8, <1>9, <1>10, <1>11, <1>12,
     <1>13 DEF Next, Reader

LEMMA InvariantStep == IInv /\ [Next]_vars => IInv'
<1> SUFFICES ASSUME IInv, [Next]_vars PROVE IInv'
  OBVIOUS
<1>t. TypeOK /\ TypeOK'
  BY TypeStep DEF IInv
<1> SUFFICES HandlerInv' /\ LoopInv'
  BY <1>t DEF IInv
<1> USE <1>t DEF TypeOK, IInv, HandlerInv, LoopInv, GapFree
<1>1. CASE Open
  BY <1>1 DEF Open, signalVars
<1>2. CASE ReadEvent
  BY <1>2 DEF ReadEvent, Drained, signalVars
\* The wake-up record is in the buffer only once the flag is up.
<1>3. CASE ReadReleased
  BY <1>3 DEF ReadReleased, signalVars
<1>4. CASE ReadInterrupted
  BY <1>4 DEF ReadInterrupted
<1>5. CASE Test
  BY <1>5 DEF Test, Tested, signalVars
<1>6. CASE Send
  BY <1>6 DEF Send, signalVars
\* A loop that is told to stop here tests the flag before it looks at the buffer.
<1>7. CASE Retest
  BY <1>7 DEF Retest, signalVars
<1>8. CASE Close
  BY <1>8 DEF Close, signalVars
<1>9. CASE ReadEnds
  BY <1>9 DEF ReadEnds, signalVars
<1>10. CASE Produce
  BY <1>10 DEF Produce, readerVars, signalVars
<1>11. CASE Signal
  BY <1>11 DEF Signal, RaiseFirst, readerVars
<1>12. CASE Release
  BY <1>12 DEF Release, readerVars
<1>13. CASE UNCHANGED vars
  BY <1>13 DEF vars
<1> QED
  BY <1>1, <1>2, <1>3, <1>4, <1>5, <1>6, <1>7, <1>8, <1>9, <1>10, <1>11, <1>12,
     <1>13 DEF Next, Reader

LEMMA Invariance == Spec => []IInv
  BY InitInvariant, InvariantStep, PTL DEF Spec

\* The state of the loop, the buffer, the handler and the channel keeps its types.
THEOREM TypeCorrect == Spec => []TypeOK
  BY Invariance, PTL DEF IInv

\* The channel never skips an event, repeats one or carries the wake-up record,
\* however the loop, the signal handler and the device interleave.
THEOREM GapFreeAlways == Spec => []GapFree
<1>1. IInv => GapFree
  BY DEF IInv, LoopInv
<1> QED
  BY <1>1, Invariance, PTL

(* ------------------------- the promise of a source ---------------------- *)

LEMMA InitRefines == Init => Source!Init
  BY DEF Init, Source!Init, Phase, Ended

LEMMA StepRefines == IInv /\ IInv' /\ [Next]_vars => [Source!Next]_(Source!vars)
<1> SUFFICES ASSUME IInv, IInv', [Next]_vars
             PROVE [Source!Next]_(Source!vars)
  OBVIOUS
<1> USE DEF IInv, TypeOK, HandlerInv, LoopInv, Phase, Ended
<1> DEFINE Same == UNCHANGED <<taken, sent, Phase>>
<1>s. ASSUME Same PROVE [Source!Next]_(Source!vars)
  BY <1>s DEF Source!vars
<1>e. ASSUME Phase \in {"running", "closed"}, Phase' = "ended", UNCHANGED <<taken, sent>>
      PROVE Source!Next
  BY <1>e DEF Source!Next, Source!End
<1>1. CASE Open
  <2>1. CASE pc' = "read"
    BY <1>1, <2>1, <1>s DEF Open, signalVars
  <2>2. CASE pc' = "failed"
    BY <1>1, <2>2, <1>e DEF Open, signalVars
  <2> QED
    BY <1>1, <2>1, <2>2 DEF Open
<1>2. CASE ReadEvent
  <2>1. Source!Take
    BY <1>2 DEF ReadEvent, Drained, signalVars, Source!Take
  <2> QED
    BY <2>1 DEF Source!Next
<1>3. CASE ReadReleased
  BY <1>3, <1>s DEF ReadReleased, signalVars
<1>4. CASE ReadInterrupted
  BY <1>4, <1>s DEF ReadInterrupted
\* The loop passes its test only while the flag is down, so the source still runs.
<1>5. CASE Test
  BY <1>5, <1>s DEF Test, Tested, signalVars
<1>6. CASE Send
  <2>1. /\ event = Len(sent) + 1
        /\ Len(sent) < taken
        /\ sent' = Append(sent, Len(sent) + 1)
        /\ taken' = taken
    BY <1>6 DEF Send
  <2>2. Source!PutNext
    BY <2>1 DEF Source!PutNext
  <2>3. CASE stopping
    BY <1>6, <2>2, <2>3 DEF Send, signalVars, Source!DeliverLate, Source!Next
  <2>4. CASE ~stopping
    BY <1>6, <2>2, <2>4 DEF Send, signalVars, Source!Deliver, Source!Next
  <2> QED
    BY <2>3, <2>4
<1>7. CASE Retest
  BY <1>7, <1>s DEF Retest, signalVars
<1>8. CASE Close
  BY <1>8, <1>e DEF Close, signalVars
<1>9. CASE ReadEnds
  BY <1>9, <1>s DEF ReadEnds, signalVars
<1>10. CASE Produce
  BY <1>10, <1>s DEF Produce, readerVars, signalVars
<1>11. CASE Signal
  <2>1. CASE pc \in {"done", "failed"}
    BY <1>11, <2>1, <1>s DEF Signal, RaiseFirst, readerVars
  <2>2. CASE pc \notin {"done", "failed"}
    BY <1>11, <2>2 DEF Signal, RaiseFirst, readerVars, Source!Next, Source!Stop
  <2> QED
    BY <2>1, <2>2
<1>12. CASE Release
  BY <1>12, <1>s DEF Release, readerVars
<1>13. CASE UNCHANGED vars
  BY <1>13, <1>s DEF vars
<1> QED
  BY <1>1, <1>2, <1>3, <1>4, <1>5, <1>6, <1>7, <1>8, <1>9, <1>10, <1>11, <1>12,
     <1>13 DEF Next, Reader

\* The reader implements the safety part of a source: it delivers what it took,
\* in order, and at most one event once its stop flag is up.
THEOREM ImplementsSource == Spec => Source!SafeSpec
<1>1. Init => Source!Init
  BY InitRefines
<1>2. IInv /\ IInv' /\ [Next]_vars => [Source!Next]_(Source!vars)
  BY StepRefines
<1> QED
  BY <1>1, <1>2, Invariance, PTL DEF Spec, Source!SafeSpec

(* ------------------------------- the stop ------------------------------- *)

LEMMA StopStep == TypeOK /\ stopping /\ [Next]_vars => UNCHANGED readerVars \/ StepsLeft' < StepsLeft
<1> SUFFICES ASSUME TypeOK, stopping, [Next]_vars
             PROVE  UNCHANGED readerVars \/ StepsLeft' < StepsLeft
  OBVIOUS
<1> USE DEF StepsLeft
<1>1. CASE Open
  BY <1>1 DEF Open
<1>2. CASE ReadEvent \/ ReadReleased \/ ReadInterrupted \/ ReadEnds
  <2>1. pc = "read" /\ pc' = "test"
    BY <1>2 DEF ReadEvent, ReadReleased, ReadInterrupted, ReadEnds
  <2> QED
    BY <2>1
\* The flag is up: whatever was read, the loop is left.
<1>3. CASE Test
  BY <1>3 DEF Test, Tested
<1>4. CASE Send
  BY <1>4 DEF Send
<1>5. CASE Retest
  BY <1>5 DEF Retest
<1>6. CASE Close
  BY <1>6 DEF Close
<1>7. CASE Produce \/ Signal \/ Release
  BY <1>7 DEF Produce, Signal, Release
<1>8. CASE UNCHANGED vars
  BY <1>8 DEF vars, readerVars
<1> QED
  BY <1>1, <1>2, <1>3, <1>4, <1>5, <1>6, <1>7, <1>8 DEF Next, Reader

\* After the flag the loop takes at most four more steps, whatever the device and
\* the handler do.
THEOREM StopBoundedAlways == Spec => StopBounded
<1>1. TypeOK /\ [Next]_vars =>
        [stopping => UNCHANGED readerVars \/ StepsLeft' < StepsLeft]_vars
  BY StopStep
<1> QED
  BY <1>1, TypeCorrect, PTL DEF Spec, StopBounded
=============================================================================
