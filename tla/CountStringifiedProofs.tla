------------------------ MODULE CountStringifiedProofs ------------------------
(***************************************************************************)
(* The statistics of count_stringified, proved for every number of events: *)
(* every event is counted once, and the print is complete and free of      *)
(* races if the executor was idle when it began.                           *)
(***************************************************************************)
EXTENDS CountStringified, TLAPS

\* The types without the bound.
Types ==
  /\ phase \in [Watched -> {"running", "late", "closed", "ended"}]
  /\ asleep \in [Watched -> BOOLEAN]
  /\ eintr \subseteq Watched
  /\ sent \in [Sources -> Nat]
  /\ pending \in [Sources -> Nat]
  /\ mpc \in {"idle", "log", "logging", "count", "send", "warning"}
  /\ mcur \in Sources
  /\ stats \in [Sources -> Nat]
  /\ broken \in Nat
  /\ logger \in {Nobody, "exec", "fan", "handler"}
  /\ hpc \in {"idle", "lsp", "fan", "br", "log", "logging", "tamper", "done", "failed"}
  /\ spc \in {"none", "log", "tamper", "done"}
  /\ host \in Threads \union {Nobody}
  /\ main \in {"fan", "lsp", "br", "print", "printing", "unwind", "return"}
  /\ printed \in [Sources -> Nat]
  /\ drained \in BOOLEAN
  /\ raced \in BOOLEAN
  /\ outcome \in {"up", "exited", "aborted"}

InHand(s) == IF mcur = s /\ mpc \in {"log", "logging", "count"} THEN 1 ELSE 0

\* An event sent is counted, in the merged process or waiting for it.
CountInv == \A s \in Sources : stats[s] + pending[s] + InHand(s) = sent[s]

\* The events of both sources, those a reader is past its last test with included.
BoundInv ==
  /\ Accepted <= MaxEvents
  /\ \A s \in Sources : printed[s] <= MaxEvents
  /\ broken <= MaxBroken

\* Whom main has joined has ended.
JoinInv ==
  /\ main # "fan" => phase["fan"] = "ended"
  /\ main \notin {"fan", "lsp"} => phase["lsp"] = "ended"
  /\ main \notin {"fan", "lsp", "br"} => phase["br"] = "ended"

\* Nothing races before main prints, and an executor that was idle by then stays so.
PrintInv ==
  /\ main \in Watched \union {"print"} => ~drained /\ ~raced
  /\ drained => Idle /\ ~raced /\ printed = sent

IInv == Types /\ CountInv /\ BoundInv /\ JoinInv /\ PrintInv

\* Every action keeps the types.
LEMMA TypesStep == Types /\ [Next]_vars => Types'
<1> SUFFICES ASSUME Types, [Next]_vars PROVE Types'
  OBVIOUS
<1> USE DEF Types, Watched, Sources, Threads, Nobody, threadVars, mergeVars,
       handlerVars, mainVars
<1>g. ASSUME NEW how \in {"exited", "aborted"}, Gone(how) PROVE Types'
  BY <1>g, BoundsAssumption DEF Gone, NoCount
<1>1. ASSUME NEW s \in Sources, SendEvent(s) PROVE Types'
  BY <1>1 DEF SendEvent
<1>2. ASSUME NEW s \in Sources, MergeTake(s) PROVE Types'
  BY <1>2 DEF MergeTake, Taken
<1>3. ASSUME NEW t \in Watched, Wake(t) PROVE Types'
  BY <1>3 DEF Wake
<1>4. ASSUME NEW t \in Watched, EndThread(t) PROVE Types'
  BY <1>4 DEF EndThread
<1>5. ASSUME NEW t \in Watched, ThrowError(t) PROVE Types'
  BY <1>5, <1>g DEF ThrowError, Terminate
<1>6. CASE Warn
  BY <1>6 DEF Warn
<1>7. CASE Warned
  BY <1>7 DEF Warned
<1>8. CASE EndOfFile
  BY <1>8 DEF EndOfFile
<1>9. CASE ThrowInterrupted
  BY <1>9, <1>g DEF ThrowInterrupted, Terminate
<1>10. CASE MergeLog
  BY <1>10 DEF MergeLog
<1>11. CASE MergeLogged
  BY <1>11 DEF MergeLogged
<1>12. CASE MergeCount
  BY <1>12 DEF MergeCount, Counted
<1>13. CASE MergeSend \/ MergeWarn \/ MergeWarned
  <2>1. CASE MergeSend
    BY <2>1 DEF MergeSend
  <2>2. CASE MergeWarn
    BY <2>2 DEF MergeWarn
  <2>3. CASE MergeWarned
    BY <2>3 DEF MergeWarned
  <2> QED
    BY <1>13, <2>1, <2>2, <2>3
<1>14. CASE MergeCrashes
  BY <1>14, <1>g DEF MergeCrashes, Terminate
<1>15. CASE Join
  BY <1>15 DEF Join, After
<1>16. CASE PrintStats
  BY <1>16 DEF PrintStats, Idle, NoCount
<1>17. CASE Printed
  BY <1>17 DEF Printed
<1>18. CASE Unwind
  BY <1>18 DEF Unwind
<1>19. CASE Exit
  BY <1>19, <1>g DEF Exit
<1>20. CASE Signal
  BY <1>20 DEF Signal, Hosts
<1>21. CASE Raise
  BY <1>21 DEF Raise
<1>22. CASE HandlerLogs
  BY <1>22 DEF HandlerLogs
<1>23. CASE HandlerLogged
  BY <1>23 DEF HandlerLogged
<1>24. CASE TamperWritten
  BY <1>24 DEF TamperWritten, Released
<1>25. CASE TamperFails
  BY <1>25 DEF TamperFails
<1>26. CASE Again
  BY <1>26 DEF Again
<1>27. CASE SecondLogs
  BY <1>27 DEF SecondLogs
<1>28. CASE SecondTampers
  <2>1. asleep' \in [Watched -> BOOLEAN]
    BY <1>28 DEF SecondTampers, Released
  <2> QED
    BY <1>28, <2>1 DEF SecondTampers
<1>29. CASE UNCHANGED vars
  BY <1>29 DEF vars
<1> QED
  BY <1>1, <1>2, <1>3, <1>4, <1>5, <1>6, <1>7, <1>8, <1>9, <1>10, <1>11, <1>12, <1>13,
     <1>14, <1>15, <1>16, <1>17, <1>18, <1>19, <1>20, <1>21, <1>22, <1>23, <1>24,
     <1>25, <1>26, <1>27, <1>28, <1>29 DEF Next, Main, Handler, Second

\* An event moves from the chain to the merged process and into the statistics; nothing
\* else touches any of them while the process lives.
LEMMA CountStep == Types /\ CountInv /\ [Next]_vars => CountInv'
<1> SUFFICES ASSUME Types, CountInv, [Next]_vars PROVE CountInv'
  OBVIOUS
<1> USE DEF Types, CountInv, InHand, Watched, Sources, threadVars, mergeVars,
       handlerVars, mainVars
<1>g. ASSUME NEW how \in {"exited", "aborted"}, Gone(how) PROVE CountInv'
  BY <1>g DEF Gone, NoCount
<1>q. ASSUME UNCHANGED <<mergeVars, sent>> PROVE CountInv'
  BY <1>q
<1>1. ASSUME NEW s \in Sources, SendEvent(s) PROVE CountInv'
  BY <1>1 DEF SendEvent
<1>2. ASSUME NEW s \in Sources, MergeTake(s) PROVE CountInv'
  BY <1>2 DEF MergeTake, Taken
<1>3. ASSUME NEW t \in Watched, ThrowError(t) PROVE CountInv'
  BY <1>3, <1>g DEF ThrowError, Terminate
<1>4. CASE ThrowInterrupted
  BY <1>4, <1>g DEF ThrowInterrupted, Terminate
<1>5. CASE MergeLog
  BY <1>5 DEF MergeLog
<1>6. CASE MergeLogged
  BY <1>6 DEF MergeLogged
<1>7. CASE MergeCount
  BY <1>7 DEF MergeCount, Counted
<1>8. CASE MergeSend \/ MergeWarn \/ MergeWarned
  BY <1>8 DEF MergeSend, MergeWarn, MergeWarned
<1>9. CASE MergeCrashes
  BY <1>9, <1>g DEF MergeCrashes, Terminate
<1>10. CASE Exit
  BY <1>10, <1>g DEF Exit
<1>11. CASE (\E t \in Watched : Wake(t)) \/ (\E t \in Watched : EndThread(t)) \/
          Warn \/ Warned \/ EndOfFile \/ Join \/ PrintStats \/ Printed \/
          Unwind \/ Signal \/ Raise \/ HandlerLogs \/ HandlerLogged \/
          TamperWritten \/ TamperFails \/ Again \/ SecondLogs \/ SecondTampers
  BY <1>11, <1>q DEF Wake, EndThread, Warn, Warned, EndOfFile, Join, PrintStats,
     Printed, Unwind, Signal, Raise, HandlerLogs, HandlerLogged, TamperWritten,
     TamperFails, Again, SecondLogs, SecondTampers
<1>12. CASE UNCHANGED vars
  BY <1>12 DEF vars
<1> QED
  BY <1>1, <1>2, <1>3, <1>4, <1>5, <1>6, <1>7, <1>8, <1>9, <1>10, <1>11,
     <1>12 DEF Next, Main, Handler, Second

\* Only a reader sends, and it tests the bound when it does or passes its last test.
LEMMA BoundStep == Types /\ CountInv /\ BoundInv /\ [Next]_vars => BoundInv'
<1> SUFFICES ASSUME Types, CountInv, BoundInv, [Next]_vars PROVE BoundInv'
  OBVIOUS
<1> USE BoundsAssumption DEF Types, CountInv, BoundInv, InHand, Accepted, Offered,
       Watched, Sources, threadVars, mergeVars, handlerVars, mainVars
<1>g. ASSUME NEW how \in {"exited", "aborted"}, Gone(how) PROVE BoundInv'
  BY <1>g DEF Gone, NoCount
<1>q. ASSUME UNCHANGED <<phase, sent, printed, broken>> PROVE BoundInv'
  BY <1>q
<1>1. ASSUME NEW s \in Sources, SendEvent(s) PROVE BoundInv'
  BY <1>1 DEF SendEvent
<1>2. ASSUME NEW t \in Watched, EndThread(t) PROVE BoundInv'
  BY <1>2 DEF EndThread
<1>3. ASSUME NEW t \in Watched, ThrowError(t) PROVE BoundInv'
  BY <1>3, <1>g DEF ThrowError, Terminate
<1>4. CASE EndOfFile
  BY <1>4 DEF EndOfFile
<1>5. CASE ThrowInterrupted
  BY <1>5, <1>g DEF ThrowInterrupted, Terminate
<1>6. CASE MergeCrashes
  BY <1>6, <1>g DEF MergeCrashes, Terminate
<1>7. CASE PrintStats
  BY <1>7 DEF PrintStats
<1>8. CASE Exit
  BY <1>8, <1>g DEF Exit
<1>9. CASE Raise
  BY <1>9 DEF Raise
<1>10. CASE (\E s \in Sources : MergeTake(s)) \/ (\E t \in Watched : Wake(t)) \/
          Warn \/ Warned \/ MergeLog \/ MergeLogged \/ MergeCount \/
          MergeSend \/ MergeWarned \/ Join \/ Printed \/ Unwind \/ Signal \/ HandlerLogs \/
          HandlerLogged \/ TamperWritten \/ TamperFails \/ Again \/ SecondLogs \/
          SecondTampers
  BY <1>10, <1>q DEF MergeTake, Wake, Warn, Warned, MergeLog, MergeLogged, MergeCount,
     MergeSend, MergeWarned, Join, Printed, Unwind, Signal, HandlerLogs, HandlerLogged,
     TamperWritten, TamperFails, Again, SecondLogs, SecondTampers
<1>11. CASE MergeWarn
  BY <1>11 DEF MergeWarn
<1>12. CASE UNCHANGED vars
  BY <1>12 DEF vars
<1> QED
  BY <1>1, <1>2, <1>3, <1>4, <1>5, <1>6, <1>7, <1>8, <1>9, <1>10, <1>11,
     <1>12 DEF Next, Main, Handler, Second

\* An ended thread stays ended, and main passes a join only when its thread has.
LEMMA JoinStep == Types /\ JoinInv /\ [Next]_vars => JoinInv'
<1> SUFFICES ASSUME Types, JoinInv, [Next]_vars PROVE JoinInv'
  OBVIOUS
<1> USE DEF Types, JoinInv, Watched, Sources, threadVars, mergeVars, handlerVars,
       mainVars
<1>g. ASSUME NEW how \in {"exited", "aborted"}, Gone(how) PROVE JoinInv'
  BY <1>g DEF Gone, NoCount
<1>q. ASSUME UNCHANGED <<phase, main>> PROVE JoinInv'
  BY <1>q
<1>1. ASSUME NEW s \in Sources, SendEvent(s) PROVE JoinInv'
  BY <1>1 DEF SendEvent
<1>2. ASSUME NEW t \in Watched, EndThread(t) PROVE JoinInv'
  BY <1>2 DEF EndThread
<1>3. ASSUME NEW t \in Watched, ThrowError(t) PROVE JoinInv'
  BY <1>3, <1>g DEF ThrowError, Terminate
<1>4. CASE EndOfFile
  BY <1>4 DEF EndOfFile
<1>5. CASE ThrowInterrupted
  BY <1>5, <1>g DEF ThrowInterrupted, Terminate
<1>6. CASE MergeCrashes
  BY <1>6, <1>g DEF MergeCrashes, Terminate
<1>7. CASE Join
  BY <1>7 DEF Join, After
<1>8. CASE PrintStats
  BY <1>8 DEF PrintStats
<1>9. CASE Printed
  BY <1>9 DEF Printed
<1>10. CASE Unwind
  BY <1>10 DEF Unwind
<1>11. CASE Exit
  BY <1>11, <1>g DEF Exit
<1>12. CASE Raise
  BY <1>12 DEF Raise
<1>13. CASE (\E s \in Sources : MergeTake(s)) \/ (\E t \in Watched : Wake(t)) \/
          Warn \/ Warned \/ MergeLog \/ MergeLogged \/ MergeCount \/
          MergeSend \/ MergeWarn \/ MergeWarned \/ Signal \/ HandlerLogs \/ HandlerLogged \/ TamperWritten \/
          TamperFails \/ Again \/ SecondLogs \/ SecondTampers
  BY <1>13, <1>q DEF MergeTake, Wake, Warn, Warned, MergeLog, MergeLogged, MergeCount,
     MergeSend, MergeWarn, MergeWarned, Signal, HandlerLogs, HandlerLogged, TamperWritten, TamperFails, Again,
     SecondLogs, SecondTampers
<1>14. CASE UNCHANGED vars
  BY <1>14 DEF vars
<1> QED
  BY <1>1, <1>2, <1>3, <1>4, <1>5, <1>6, <1>7, <1>8, <1>9, <1>10, <1>11, <1>12, <1>13,
     <1>14 DEF Next, Main, Handler, Second

\* Nobody sends once main has joined, so an executor that was idle has nothing to do.
LEMMA PrintStep == Types /\ CountInv /\ JoinInv /\ PrintInv /\ [Next]_vars => PrintInv'
<1> SUFFICES ASSUME Types, CountInv, JoinInv, PrintInv, [Next]_vars PROVE PrintInv'
  OBVIOUS
<1> USE DEF Types, CountInv, JoinInv, PrintInv, InHand, Idle, NoCount, Watched,
       Sources, threadVars, mergeVars, handlerVars, mainVars
<1>g. ASSUME NEW how \in {"exited", "aborted"}, Gone(how) PROVE PrintInv'
  BY <1>g DEF Gone, NoCount
<1>q. ASSUME UNCHANGED <<mergeVars, mainVars, sent, raced>> PROVE PrintInv'
  BY <1>q
<1>1. ASSUME NEW s \in Sources, SendEvent(s) PROVE PrintInv'
  BY <1>1 DEF SendEvent
<1>2. ASSUME NEW s \in Sources, MergeTake(s) PROVE PrintInv'
  BY <1>2 DEF MergeTake, Taken
<1>3. ASSUME NEW t \in Watched, ThrowError(t) PROVE PrintInv'
  BY <1>3, <1>g DEF ThrowError, Terminate
<1>4. CASE ThrowInterrupted
  BY <1>4, <1>g DEF ThrowInterrupted, Terminate
<1>5. CASE MergeLog
  BY <1>5 DEF MergeLog
<1>6. CASE MergeLogged
  BY <1>6 DEF MergeLogged
<1>7. CASE MergeCount
  BY <1>7 DEF MergeCount, Counted
<1>8. CASE MergeSend \/ MergeWarn \/ MergeWarned
  BY <1>8 DEF MergeSend, MergeWarn, MergeWarned
<1>9. CASE MergeCrashes
  BY <1>9, <1>g DEF MergeCrashes, Terminate
<1>10. CASE Join
  BY <1>10 DEF Join, After
<1>11. CASE PrintStats
  BY <1>11 DEF PrintStats
<1>12. CASE Printed
  BY <1>12 DEF Printed
<1>13. CASE Unwind
  BY <1>13 DEF Unwind
<1>14. CASE Exit
  BY <1>14, <1>g DEF Exit
<1>15. CASE (\E t \in Watched : Wake(t)) \/ (\E t \in Watched : EndThread(t)) \/
          Warn \/ Warned \/ EndOfFile \/ Signal \/ Raise \/ HandlerLogs \/
          HandlerLogged \/ TamperWritten \/ TamperFails \/ Again \/ SecondLogs \/
          SecondTampers
  BY <1>15, <1>q DEF Wake, EndThread, Warn, Warned, EndOfFile, Signal, Raise,
     HandlerLogs, HandlerLogged, TamperWritten, TamperFails, Again, SecondLogs,
     SecondTampers
<1>16. CASE UNCHANGED vars
  BY <1>16 DEF vars
<1> QED
  BY <1>1, <1>2, <1>3, <1>4, <1>5, <1>6, <1>7, <1>8, <1>9, <1>10, <1>11, <1>12, <1>13,
     <1>14, <1>15, <1>16 DEF Next, Main, Handler, Second

LEMMA InitInvariant == Init => IInv
<1> SUFFICES ASSUME Init PROVE IInv
  OBVIOUS
<1> USE BoundsAssumption DEF Init, NoCount, Watched, Sources, Threads, Nobody
<1>1. Types
  BY DEF Types
<1>2. CountInv
  BY DEF CountInv, InHand
<1>3. BoundInv
  BY DEF BoundInv, Accepted, Offered
<1>4. JoinInv
  BY DEF JoinInv
<1>5. PrintInv
  BY DEF PrintInv
<1> QED
  BY <1>1, <1>2, <1>3, <1>4, <1>5 DEF IInv

LEMMA Invariance == Spec => []IInv
<1>1. IInv /\ [Next]_vars => IInv'
  BY TypesStep, CountStep, BoundStep, JoinStep, PrintStep DEF IInv
<1> QED
  BY <1>1, InitInvariant, PTL DEF Spec

\* The state of the mode keeps its types, and no counter exceeds the events sent.
THEOREM TypeCorrect == Spec => []TypeOK
<1>1. IInv => TypeOK
  <2> SUFFICES ASSUME IInv PROVE TypeOK
    OBVIOUS
  <2> USE BoundsAssumption DEF IInv, Types, CountInv, BoundInv
  <2>1. \A s \in Sources : sent[s] <= MaxEvents
    BY DEF Accepted, Offered, Sources
  <2>2. \A s \in Sources : stats[s] <= sent[s] /\ pending[s] <= sent[s]
    BY DEF InHand
  <2>3. sent \in [Sources -> 0 .. MaxEvents]
    BY <2>1
  <2>4. pending \in [Sources -> 0 .. MaxEvents] /\ stats \in [Sources -> 0 .. MaxEvents]
    BY <2>1, <2>2
  <2>5. printed \in [Sources -> 0 .. MaxEvents]
    OBVIOUS
  <2> QED
    BY <2>3, <2>4, <2>5 DEF TypeOK
<1> QED
  BY <1>1, Invariance, PTL

\* However the two chains merge, the merged process counts every event a reader
\* sent once, under its own string.
THEOREM CountsExactAlways == Spec => []CountsExact
<1>1. IInv => CountsExact
  BY DEF IInv, CountInv, InHand, CountsExact
<1> QED
  BY <1>1, Invariance, PTL

\* main's joins make the statistics complete and safe to print and to destroy, if
\* the executor was idle when they ended.
THEOREM DrainedIsExactAlways == Spec => []DrainedIsExact
<1>1. IInv => DrainedIsExact
  BY DEF IInv, PrintInv, DrainedIsExact
<1> QED
  BY <1>1, Invariance, PTL

(* ------------------------------- the stop ------------------------------- *)

\* No thread runs on past a flag that is up, and what is gone has no handler.
FlagInv ==
  /\ FlagsUp => \A t \in Watched : phase[t] # "running"
  /\ hpc \in {"fan", "br"} => phase["lsp"] # "running"
  /\ hpc = "br" => phase["fan"] # "running"

LEMMA FlagStep == Types /\ FlagInv /\ [Next]_vars => FlagInv'
<1> SUFFICES ASSUME Types, FlagInv, [Next]_vars PROVE FlagInv'
  OBVIOUS
<1> USE DEF Types, FlagInv, FlagsUp, Watched, Sources, threadVars, mergeVars, handlerVars,
       mainVars
<1>g. ASSUME NEW how, Gone(how) PROVE FlagInv'
  BY <1>g DEF Gone
<1>q. ASSUME hpc' = hpc, \A t \in Watched : phase'[t] = "running" => phase[t] = "running"
      PROVE  FlagInv'
  BY <1>q
<1>1. ASSUME NEW s \in Sources, SendEvent(s) \/ MergeTake(s) PROVE FlagInv'
  BY <1>1, <1>q DEF SendEvent, MergeTake
<1>2. ASSUME NEW t \in Watched, Wake(t) \/ EndThread(t) PROVE FlagInv'
  BY <1>2, <1>q DEF Wake, EndThread
<1>3. ASSUME NEW t \in Watched, ThrowError(t) PROVE FlagInv'
  BY <1>3, <1>g DEF ThrowError, Terminate
<1>4. CASE Warn \/ Warned
  BY <1>4, <1>q DEF Warn, Warned
<1>5. CASE EndOfFile
  BY <1>5, <1>q DEF EndOfFile
<1>6. CASE ThrowInterrupted \/ MergeCrashes \/ Exit
  BY <1>6, <1>g DEF ThrowInterrupted, MergeCrashes, Exit, Terminate
<1>7. CASE MergeLog \/ MergeLogged \/ MergeCount \/ MergeSend \/ MergeWarn \/ MergeWarned
  BY <1>7, <1>q DEF MergeLog, MergeLogged, MergeCount, MergeSend, MergeWarn, MergeWarned
<1>8. CASE Join \/ PrintStats \/ Printed \/ Unwind
  BY <1>8, <1>q DEF Join, PrintStats, Printed, Unwind
<1>9. CASE Signal
  BY <1>9 DEF Signal
<1>10. CASE Raise
  BY <1>10 DEF Raise
<1>11. CASE HandlerLogs \/ HandlerLogged \/ TamperFails
  BY <1>11 DEF HandlerLogs, HandlerLogged, TamperFails
<1>12. CASE TamperWritten
  BY <1>12 DEF TamperWritten
<1>13. CASE Again \/ SecondLogs \/ SecondTampers
  BY <1>13, <1>q DEF Again, SecondLogs, SecondTampers
<1>14. CASE UNCHANGED vars
  BY <1>14, <1>q DEF vars
<1> QED
  BY <1>1, <1>2, <1>3, <1>4, <1>5, <1>6, <1>7, <1>8, <1>9, <1>10, <1>11, <1>12, <1>13,
     <1>14 DEF Next, Main, Handler, Second

LEMMA FlagInvariance == Spec => [](IInv /\ FlagInv)
<1>1. Init => FlagInv
  BY DEF Init, FlagInv, FlagsUp
<1>2. IInv /\ FlagInv /\ [Next]_vars => FlagInv'
  BY FlagStep DEF IInv
<1> QED
  BY <1>1, <1>2, Invariance, PTL DEF Spec

\* What is left of the queues and of the clients.
Waiting == 5 * (pending["lsp"] + pending["fan"]) + 2 * broken

Warning == IF logger = "fan" THEN 1 ELSE 0

\* What is left to the parts are numbers.
Parts ==
  /\ HandlerSteps(hpc) \in Nat /\ HandlerSteps(spc) \in Nat
  /\ MainSteps \in Nat /\ MergeSteps \in Nat
  /\ ThreadSteps("lsp") \in Nat /\ ThreadSteps("fan") \in Nat /\ ThreadSteps("br") \in Nat
  /\ Waiting \in Nat /\ Warning \in {0, 1}
  /\ outcome # "up" => StepsLeft = 0
  /\ outcome = "up" =>
       StepsLeft = 1 + HandlerSteps(hpc) + HandlerSteps(spc) + MainSteps + MergeSteps
                     + ThreadSteps("lsp") + ThreadSteps("fan") + ThreadSteps("br")
                     + Waiting + Warning

LEMMA PartsAre == Types => Parts
<1> SUFFICES ASSUME Types PROVE Parts
  OBVIOUS
<1> USE DEF Types
<1>1. HandlerSteps(hpc) \in Nat /\ HandlerSteps(spc) \in Nat
  BY DEF HandlerSteps
<1>2. MainSteps \in Nat /\ MergeSteps \in Nat
  BY DEF MainSteps, MergeSteps
<1>3. ThreadSteps("lsp") \in Nat /\ ThreadSteps("fan") \in Nat /\ ThreadSteps("br") \in Nat
  BY DEF ThreadSteps
<1>4. pending["lsp"] \in Nat /\ pending["fan"] \in Nat /\ broken \in Nat
  BY DEF Sources
<1>5. Waiting \in Nat /\ Warning \in {0, 1}
  BY <1>4 DEF Waiting, Warning
<1>6. ASSUME NEW m \in Nat, NEW w \in {0, 1}
      PROVE  m + 5 * (pending["lsp"] + pending["fan"]) + 2 * broken + w = m + Waiting + w
  BY <1>4, <1>6 DEF Waiting
<1>7. /\ outcome # "up" => StepsLeft = 0
      /\ outcome = "up" =>
           StepsLeft = 1 + HandlerSteps(hpc) + HandlerSteps(spc) + MainSteps + MergeSteps
                         + ThreadSteps("lsp") + ThreadSteps("fan") + ThreadSteps("br")
                         + Waiting + Warning
  <2> DEFINE m == 1 + HandlerSteps(hpc) + HandlerSteps(spc) + MainSteps + MergeSteps
                    + ThreadSteps("lsp") + ThreadSteps("fan") + ThreadSteps("br")
  <2>1. m \in Nat
    BY <1>1, <1>2, <1>3
  <2>2. outcome = "up" =>
          StepsLeft = m + 5 * (pending["lsp"] + pending["fan"]) + 2 * broken + Warning
    BY DEF StepsLeft, Warning
  <2>3. outcome # "up" => StepsLeft = 0
    BY DEF StepsLeft
  <2>4. outcome = "up" => StepsLeft = m + Waiting + Warning
    <3> HIDE DEF m
    <3> QED
      BY <2>1, <2>2, <1>5, <1>6
  <2> QED
    BY <2>3, <2>4
<1> QED
  BY <1>1, <1>2, <1>3, <1>5, <1>7 DEF Parts

\* Whoever moves has fewer steps left, and gives the others no more than that.
LEMMA StopStep == Types /\ Types' /\ FlagInv /\ FlagsUp /\ Next => StepsLeft' < StepsLeft
<1> SUFFICES ASSUME Types, Types', FlagInv, FlagsUp, Next PROVE StepsLeft' < StepsLeft
  OBVIOUS
<1>0. \A t \in Watched : phase[t] # "running"
  BY DEF FlagInv
<1>n. Parts /\ Parts'
  BY PartsAre, PTL
<1>g. ASSUME outcome = "up", NEW how \in {"exited", "aborted"}, Gone(how)
      PROVE  StepsLeft' < StepsLeft
  BY <1>g, <1>n DEF Gone, Parts
\* The process lives on, and nobody has begun to warn.
<1> DEFINE Up == outcome = "up" /\ outcome' = "up" /\ (logger' = "fan" => logger = "fan")
<1>h. ASSUME UNCHANGED <<hpc, spc>>
      PROVE  HandlerSteps(hpc)' = HandlerSteps(hpc) /\ HandlerSteps(spc)' = HandlerSteps(spc)
  BY <1>h DEF HandlerSteps
<1>a. main' = main => MainSteps' = MainSteps
  BY DEF MainSteps
<1>e. mpc' = mpc => MergeSteps' = MergeSteps
  BY DEF MergeSteps
<1>p. UNCHANGED <<pending, broken>> => Waiting' = Waiting
  BY DEF Waiting
<1>w. Up => Warning' <= Warning
  BY DEF Warning
<1>t. \A t \in Watched : phase'[t] = phase[t] /\ asleep'[t] = asleep[t] =>
        ThreadSteps(t)' = ThreadSteps(t)
  BY DEF ThreadSteps
<1>T. UNCHANGED <<phase, asleep>> =>
        /\ ThreadSteps("lsp")' = ThreadSteps("lsp") /\ ThreadSteps("fan")' = ThreadSteps("fan")
        /\ ThreadSteps("br")' = ThreadSteps("br")
  BY <1>t DEF Watched, Sources
\* An event in hand costs its reader a step and the merged process five.
<1>1. ASSUME NEW s \in Sources, SendEvent(s) PROVE StepsLeft' < StepsLeft
  <2>1. /\ phase[s] = "late" /\ Up /\ UNCHANGED <<hpc, spc, main, mpc, broken, logger, asleep>>
        /\ phase' = [phase EXCEPT ![s] = "closed"]
        /\ pending' = [pending EXCEPT ![s] = @ + 1]
    BY <1>0, <1>1 DEF SendEvent, Runs, handlerVars, mainVars, Watched, Types
  <2>2. \A t \in Watched : ThreadSteps(t)' = IF t = s THEN ThreadSteps(t) - 6 ELSE ThreadSteps(t)
    BY <2>1 DEF ThreadSteps, Types, Watched
  <2>3. Waiting' = Waiting + 5
    BY <2>1 DEF Waiting, Types, Sources
  <2> QED
    BY <2>1, <2>2, <2>3, <1>n, <1>h, <1>a, <1>e, <1>w DEF Parts, Watched, Sources
<1>2. ASSUME NEW s \in Sources, MergeTake(s) PROVE StepsLeft' < StepsLeft
  <2>1. /\ Up /\ UNCHANGED <<hpc, spc, main, phase, asleep, broken, logger>>
        /\ mpc = "idle" /\ mpc' = "log"
        /\ pending' = [pending EXCEPT ![s] = @ - 1]
    BY <1>2 DEF MergeTake, Taken, Runs, handlerVars, mainVars, threadVars
  <2>2. Waiting' = Waiting - 5
    BY <2>1 DEF Waiting, Types, Sources
  <2>3. MergeSteps' = MergeSteps + 4
    BY <2>1 DEF MergeSteps
  <2> QED
    BY <2>1, <2>2, <2>3, <1>n, <1>h, <1>a, <1>T, <1>w DEF Parts
<1>3. ASSUME NEW t \in Watched, Wake(t) \/ EndThread(t) PROVE StepsLeft' < StepsLeft
  <2>1. /\ Up /\ UNCHANGED <<hpc, spc, main, mpc, pending, broken, logger>>
        /\ \/ asleep[t] /\ asleep' = [asleep EXCEPT ![t] = FALSE] /\ phase' = phase
           \/ phase[t] = "closed" /\ phase' = [phase EXCEPT ![t] = "ended"] /\ asleep' = asleep
    BY <1>3 DEF Wake, EndThread, Runs, handlerVars, mainVars, mergeVars
  <2>2. \A u \in Watched : ThreadSteps(u)' = IF u = t THEN ThreadSteps(u) - 1 ELSE ThreadSteps(u)
    BY <2>1 DEF ThreadSteps, Types
  <2> QED
    BY <2>1, <2>2, <1>n, <1>h, <1>a, <1>e, <1>p, <1>w DEF Parts, Watched, Sources
<1>4. CASE (\E t \in Watched : ThrowError(t)) \/ ThrowInterrupted \/ MergeCrashes \/ Exit
  BY <1>4, <1>g DEF ThrowError, ThrowInterrupted, MergeCrashes, Exit, Terminate, Runs
<1>5. ~(Warn \/ EndOfFile \/ Signal \/ Raise)
  BY <1>0 DEF Warn, EndOfFile, Signal, Raise, FlagsUp, Watched, Sources
<1>6. CASE Warned
  <2>1. /\ Up /\ UNCHANGED <<hpc, spc, main, mpc, pending, broken, phase, asleep>>
        /\ logger = "fan" /\ logger' # "fan"
    BY <1>6 DEF Warned, Runs, Nobody, handlerVars, mainVars, mergeVars, threadVars
  <2>2. Warning' = 0 /\ Warning = 1
    BY <2>1 DEF Warning
  <2> QED
    BY <2>1, <2>2, <1>n, <1>h, <1>a, <1>e, <1>T, <1>p DEF Parts
<1>7. CASE MergeLog \/ MergeLogged \/ MergeCount \/ MergeSend \/ MergeWarned
  <2>1. /\ Up /\ UNCHANGED <<hpc, spc, main, pending, broken, phase, asleep>>
        /\ \/ mpc = "log" /\ mpc' = "logging"
           \/ mpc = "logging" /\ mpc' = "count"
           \/ mpc = "count" /\ mpc' = "send"
           \/ mpc = "send" /\ mpc' = "idle"
           \/ mpc = "warning" /\ mpc' = "send"
    <3>1. CASE MergeLog
      BY <3>1 DEF MergeLog, Runs, Nobody, handlerVars, mainVars, threadVars
    <3>2. CASE MergeLogged
      BY <3>2 DEF MergeLogged, Runs, Nobody, handlerVars, mainVars, threadVars
    <3>3. CASE MergeCount
      BY <3>3 DEF MergeCount, Runs, Nobody, handlerVars, mainVars, threadVars
    <3>4. CASE MergeSend
      BY <3>4 DEF MergeSend, Runs, Nobody, handlerVars, mainVars, threadVars
    <3>5. CASE MergeWarned
      BY <3>5 DEF MergeWarned, Runs, Nobody, handlerVars, mainVars, threadVars
    <3> QED
      BY <1>7, <3>1, <3>2, <3>3, <3>4, <3>5
  <2>2. MergeSteps' = MergeSteps - 1
    BY <2>1 DEF MergeSteps
  <2> QED
    BY <2>1, <2>2, <1>n, <1>h, <1>a, <1>T, <1>p, <1>w DEF Parts
\* A warning costs a client that breaks.
<1>10. CASE MergeWarn
  <2>1. /\ Up /\ UNCHANGED <<hpc, spc, main, pending, phase, asleep>>
        /\ mpc = "send" /\ mpc' = "warning" /\ broken' = broken - 1
    BY <1>10 DEF MergeWarn, Runs, handlerVars, mainVars, threadVars
  <2>2. MergeSteps' = MergeSteps + 1
    BY <2>1 DEF MergeSteps
  <2>3. Waiting' = Waiting - 2
    BY <2>1 DEF Waiting, Types, Sources
  <2> QED
    BY <2>1, <2>2, <2>3, <1>n, <1>h, <1>a, <1>T, <1>w DEF Parts
<1>8. CASE Main
  <2>1. /\ Up /\ UNCHANGED <<hpc, spc, mpc, pending, broken, phase, asleep, logger>>
        /\ \/ main = "fan" /\ main' = "lsp"
           \/ main = "lsp" /\ main' = "br"
           \/ main = "br" /\ main' = "print"
           \/ main = "print" /\ main' = "printing"
           \/ main = "printing" /\ main' = "unwind"
           \/ main = "unwind" /\ main' = "return"
    <3>1. CASE Join
      BY <3>1 DEF Join, After, Watched, Sources, Runs, handlerVars, mergeVars, threadVars
    <3>2. CASE PrintStats
      BY <3>2 DEF PrintStats, Runs, handlerVars, mergeVars, threadVars
    <3>3. CASE Printed
      BY <3>3 DEF Printed, Runs, handlerVars, mergeVars, threadVars
    <3>4. CASE Unwind
      BY <3>4 DEF Unwind, Runs, handlerVars, mergeVars, threadVars
    <3> QED
      BY <1>8, <3>1, <3>2, <3>3, <3>4 DEF Main
  <2>2. MainSteps' = MainSteps - 1
    BY <2>1 DEF MainSteps
  <2> QED
    BY <2>1, <2>2, <1>n, <1>h, <1>e, <1>T, <1>p, <1>w DEF Parts
\* The tamper byte may wake the lsprobe reader.
<1>9. CASE HandlerLogs \/ HandlerLogged \/ TamperWritten \/ TamperFails \/ Again \/ Second
  <2>1. /\ Up /\ UNCHANGED <<main, mpc, pending, broken, phase>>
        /\ asleep' \in {asleep, [asleep EXCEPT !["lsp"] = FALSE]}
        /\ \/ /\ spc' = spc
              /\ \/ hpc = "log" /\ hpc' = "logging"
                 \/ hpc = "logging" /\ hpc' = "tamper"
                 \/ hpc = "tamper" /\ hpc' \in {"done", "failed"}
           \/ /\ hpc' = hpc
              /\ \/ spc = "none" /\ spc' = "log"
                 \/ spc = "log" /\ spc' = "tamper"
                 \/ spc = "tamper" /\ spc' = "done"
    <3>1. CASE HandlerLogs
      BY <3>1 DEF HandlerLogs, Nobody, FirstRuns, mainVars, mergeVars, threadVars
    <3>2. CASE HandlerLogged
      BY <3>2 DEF HandlerLogged, Nobody, FirstRuns, mainVars, mergeVars, threadVars
    <3>3. CASE TamperWritten
      BY <3>3 DEF TamperWritten, Released, FirstRuns, mainVars, mergeVars, threadVars
    <3>4. CASE TamperFails
      BY <3>4 DEF TamperFails, FirstRuns, mainVars, mergeVars, threadVars
    <3>5. CASE Again
      BY <3>5 DEF Again, FirstRuns, mainVars, mergeVars, threadVars
    <3>6. CASE SecondLogs
      BY <3>6 DEF SecondLogs, FirstRuns, mainVars, mergeVars, threadVars
    <3>7. CASE SecondTampers
      BY <3>7 DEF SecondTampers, Released, FirstRuns, mainVars, mergeVars, threadVars
    <3> QED
      BY <1>9, <3>1, <3>2, <3>3, <3>4, <3>5, <3>6, <3>7 DEF Second
  <2>2. HandlerSteps(hpc)' + HandlerSteps(spc)' < HandlerSteps(hpc) + HandlerSteps(spc)
    BY <2>1 DEF HandlerSteps
  <2>3. ThreadSteps("lsp")' <= ThreadSteps("lsp")
    BY <2>1 DEF ThreadSteps, Types, Watched, Sources
  <2>4. ThreadSteps("fan")' = ThreadSteps("fan") /\ ThreadSteps("br")' = ThreadSteps("br")
    BY <2>1, <1>t DEF Types, Watched, Sources
  <2> QED
    BY <2>1, <2>2, <2>3, <2>4, <1>n, <1>a, <1>e, <1>p, <1>w DEF Parts
<1> QED
  BY <1>1, <1>2, <1>3, <1>4, <1>5, <1>6, <1>7, <1>8, <1>9, <1>10 DEF Next, Handler

\* Once the handler has raised the flags every step of any part, the kernel's and a
\* second handler's included, brings the process nearer its end, however many events
\* are still queued.
THEOREM StopBoundedAlways == Spec => StopBounded
<1>1. IInv /\ IInv' /\ FlagInv /\ [Next]_vars => [FlagsUp => StepsLeft' < StepsLeft]_vars
  BY StopStep DEF IInv
<1> QED
  BY <1>1, FlagInvariance, PTL DEF Spec, StopBounded
=============================================================================
