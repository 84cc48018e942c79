----------------------------- MODULE FanotifyEvent -----------------------------
(***************************************************************************)
(* fan::FileEvent and the evaluator beside it.                             *)
(***************************************************************************)
EXTENDS Evaluation

CONSTANT Limit  \* one more than the largest uid_t, 2^32 in the program

ASSUME LimitAssumption == Limit \in Nat \ {0}

(* ------------------------------- the event ------------------------------ *)

FanOpen == 32
FanClose == 24

fanEventCode(mask) ==
  CASE "open" \in mask -> FanOpen
    [] "open" \notin mask /\ "close" \in mask -> FanClose
    [] OTHER -> 0

\* A conversion to uid_t or gid_t.
Signed(n) == n

Unsigned(n) == n % Limit

\* The lookups, in their order: the process may end between any two of them, and
\* a.alive of them find it.
getpgid(a) == IF a.alive >= 1 THEN a.pgid ELSE -1

getFdPath(a) == IF a.linked THEN a.file ELSE <<"error">>

\* The file in /proc opens but yields no line if the process ends in between.
getPidComm(a) ==
  CASE a.alive >= 3 -> a.comm
    [] a.alive = 2 -> <<>>
    [] a.alive < 2 -> <<"no_process">>

fanEvent(a) ==
  [code |-> fanEventCode(a.mask), pid |-> a.pid, uid |-> Unsigned(-1),
   gid |-> Unsigned(getpgid(a)), filename |-> getFdPath(a), process |-> getPidComm(a)]

(* ----------------------------- the evaluator ---------------------------- *)

\* The member that a comparison looks at, with the type it asks of the operand.
fanMember(e, id) ==
  CASE id = "event" -> AsLong(e.code)
    [] id = "file" -> AsString(e.filename)
    [] id = "process" -> AsString(e.process)
    [] id = "pid" -> AsLong(e.pid)
    [] id = "uid" -> AsLong(e.uid)
    [] id = "gid" -> AsLong(e.gid)

fanCompareEqual(c, e) ==
  LET member == fanMember(e, c.id)
  IN  IF c.value.type = member.type THEN Truth(member.of = c.value.of) ELSE "throws"

fanCompare(c, e) ==
  LET member == fanMember(e, c.id)
  IN  IF c.value.type = member.type
        THEN Truth((member.of = c.value.of) # (c.op = "NEQ"))
        ELSE "throws"

fanEvaluate(x, e) ==
  LET evaluate[y \in Trees] ==
        CASE y.kind = "bool" -> Truth(y.value)
          [] y.kind = "compare" -> fanCompare(y, e)
          [] y.kind = "not" -> Negate(evaluate[y.arg])
          [] y.kind = "or" -> Until([i \in DOMAIN y.args |-> evaluate[y.args[i]]], "no")
          [] OTHER -> Until([i \in DOMAIN y.args |-> evaluate[y.args[i]]], "yes")
  IN  evaluate[x]
=============================================================================
